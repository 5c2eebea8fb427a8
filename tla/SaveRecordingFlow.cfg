SPECIFICATION FairSpec
CONSTANTS
    MaxPages = 2
    MaxPopups = 2
    MaxSaves = 2
    MayFail = TRUE
INVARIANTS
    TypeOK
    StaticsMatchPopup
    StaleListIsNoticed
PROPERTIES
    RecordingNotInterrupted
    PressedPopupCloses
\* The bounds end the student's steps; then nothing more has to happen.
CHECK_DEADLOCK FALSE
