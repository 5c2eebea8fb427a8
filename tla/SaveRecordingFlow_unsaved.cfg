SPECIFICATION Spec
CONSTANTS
    MaxPages = 2
    MaxPopups = 2
    MaxSaves = 2
    MayFail = FALSE
PROPERTIES
    UnsavedOnlyAfterWarning
\* The bounds end the student's steps; then nothing more has to happen.
CHECK_DEADLOCK FALSE
