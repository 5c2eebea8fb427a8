SPECIFICATION Spec
CONSTANTS
    MaxPages = 1
    MaxPopups = 1
    MaxSaves = 1
    MayFail = TRUE
PROPERTIES
    UnsavedOnlyAfterWarning
\* The bounds end the student's steps; then nothing more has to happen.
CHECK_DEADLOCK FALSE
