SPECIFICATION Spec
CONSTANTS
    MaxRestarts = 2
    MaxWords = 1
INVARIANTS
    StoppedStaysOff
