SPECIFICATION Spec
CONSTANTS
    User = {fay, gus, hal}
    Founder = fay
    Nobody = nobody
    Request = {r1, r2}
    MaxInvite = 2
    MaxResend = 1
    MaxServed = 5
SYMMETRY Symmetry
INVARIANTS TypeOK InvitationsAccountForMembers OwnerRemainsUnlessRaced NoInvitationForMembers
CHECK_DEADLOCK FALSE
