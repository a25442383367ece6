------------------------------ MODULE Workflow ------------------------------
(***************************************************************************)
(* What a status workflow promises when every move is checked against a    *)
(* status read beforehand and nothing holds that status until the write:   *)
(* an item starts at a start, and each status it takes is listed after one *)
(* it has had, not necessarily the one it has.                             *)
(***************************************************************************)
CONSTANTS
    Item,     \* things that have a status
    Start,    \* the statuses an item is created with
    Listed    \* status -> the statuses a move may take it to

VARIABLE past   \* the statuses each item has had

Init == past = [i \in Item |-> {}]

Open(i) ==
    /\ past[i] = {}
    /\ \E s \in Start : past' = [past EXCEPT ![i] = {s}]

Move(i) ==
    \E from \in past[i] : \E to \in Listed[from] :
        past' = [past EXCEPT ![i] = @ \cup {to}]

Next == \E i \in Item : Open(i) \/ Move(i)

Spec == Init /\ [][Next]_past

-----------------------------------------------------------------------------
\* Every status an item has had is a start or is listed after another of them:
\* where each road to a status goes through a stage, no item skips the stage.
Reached ==
    \A i \in Item : \A s \in past[i] \ Start :
        \E from \in past[i] : s \in Listed[from]
=============================================================================
