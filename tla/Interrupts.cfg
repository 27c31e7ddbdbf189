CONSTANTS
    Builds = {"Nov 15", "Dec 3", "current"}
    Nibbles = 3
    Lines = {0, 1, 12}
    Exceptions = {3, 13, 14}
    Addresses = {0, 160, 2571}
    Asserted = {7, 2047}
    MaxNest = 2
SPECIFICATION Spec
INVARIANTS
    EntersAsRaised
    HandlersAtomic
    NothingLeftInService
    GatesInKernel
    ReportsName
    TimerProgrammed
PROPERTY RequestsTaken
CHECK_DEADLOCK FALSE
