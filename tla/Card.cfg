SPECIFICATION CardSpec
CONSTANTS
    Tokens <- MCTokens
    Class <- MCClass
    Venue <- MCVenue
    Pool <- MCPool
    Descriptions <- MCDescriptions
    Boxes <- MCBoxes
    Floors = {1, 2}
    Splits = {TRUE, FALSE}
    Modes = {"journaled", "legacy"}
    MaxEdits = 4
    MaxConfirms = 2
    Absent = Absent
INVARIANTS
    ListIsTheUsers
    RunWasChecked
CHECK_DEADLOCK FALSE
