SPECIFICATION FairSpec
CONSTANTS
    Names <- MCTwoNames
    FirstNames <- MCOneSubject
    MaxPopups = 1
    MaxAdds = 1
    MaxDeletes = 1
    MaxRecordings = 1
    MaxMishaps = 2
INVARIANTS
    TypeOK
    StaleTabsNoticed
    RightSubjectWhenPatient
PROPERTIES
    HomeLoadsEnd
\* The app may trap, or leave an invisible popup in front of the home page.
CHECK_DEADLOCK FALSE
