SPECIFICATION Spec
CONSTANTS
    Names <- MCNames
    FirstNames <- MCNoSubjects
    MaxPopups = 1
    MaxAdds = 2
    MaxDeletes = 0
    MaxRecordings = 0
    MaxMishaps = 1
PROPERTIES
    NamesNotReused
\* A dismissal that only took the alert leaves an invisible popup in front of the
\* home page, and nothing more can happen.
CHECK_DEADLOCK FALSE
