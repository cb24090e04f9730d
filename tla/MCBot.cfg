CONSTANTS
    Cards = 2
    MaxShown = 3
    MaxFaults = 1
SPECIFICATION Spec
INVARIANTS VotesWithinAttempts MovedOnMeansPosted
PROPERTIES TextAnswersLastQuestion SavedProfileWasChosen OnlyItsFilterChanges
CHECK_DEADLOCK FALSE
CONSTRAINT Unslipped
