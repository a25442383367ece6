---------------------------- MODULE MCWebClient ----------------------------
(* Small instances of WebClient for TLC.                                   *)
EXTENDS WebClient

CONSTANTS t1, t2

Tabs == {t1, t2}
Slots == {<<t1, 1>>, <<t1, 2>>, <<t2, 1>>}
=============================================================================
