SPECIFICATION FairPageSpec
CONSTANTS
    MaxRestarts = 3
    MaxWords = 2
INVARIANTS
    PageTypeOK
    OneRestartAhead
    SingleTap
    MicrophoneHasDeadline
    SegmentsInOrder
    IndicatorsFollowManager
    PageShowsNotes
PROPERTIES
    ReplacesOnlyCompletedTask
    StopOutsideResetIsFinal
    NotebookSpec
    ResetCompletes
    SaveTakesShownNotes
    LeavingIsQuiet
\* A page that was left with nothing armed has nothing more to do.
CHECK_DEADLOCK FALSE
