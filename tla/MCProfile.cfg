SPECIFICATION Spec
CONSTANTS
    Tech = {"go", "vue"}
    Texts <- MCTexts
    Guesses <- MCGuesses
    Listings <- MCListings
    Similar <- MCSimilar
    Choices <- MCChoices
    MaxJobs = 1
    MaxSaves = 2
    MaxEdits = 1
    MaxFaults = 1
INVARIANTS TypeOK ChoiceSurvivesParse OffersAreWanted
PROPERTY ProfileIsMatched
CHECK_DEADLOCK FALSE
