SPECIFICATION Spec
CONSTANTS
    Users = {u1, u2}
    MaxPresses = 3
    MaxRequests = 3
    MaxKills = 1
SYMMETRY Symmetry
INVARIANTS
    TypeOK
    AnsweredOnce
    AcceptedInOrder
    NotForgotten
    SignedOutStaysOut
