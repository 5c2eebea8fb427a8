SPECIFICATION FairSpec
CONSTANTS
    Users = {"ann", "ben"}
    Registered = {"ann"}
    NoUser = "nobody"
    Words = {"Important"}
    DefaultKeywords <- MCDefaultKeywords
    MaxLogIns = 2
    MaxEdits = 2
    MaxChanges = 2
    MaxErrors = 1
    MaxEvents = 3
INVARIANTS
    TypeOK
    KeywordsAreTheUsers
    RowsShowKeywords
    NoTrapWhenPatient
    HomeHasUser
PROPERTIES
    LogInKeepsDocument
    SignedInReachesHome
\* The bounds end the student's steps, and a trap ends the app.
CHECK_DEADLOCK FALSE
