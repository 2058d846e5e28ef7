SPECIFICATION Spec
CONSTANTS
    Defaults = {10, 20, 60}
    DefaultStart = 20
    Entries = {1}
    StartEntry = 1
    SampleDays = 50
    Named = {30}
    OutOfRange <- MCOutOfRange
    MaxRounds = 2
    MaxVersions = 2
    Panels = {p1, p2}
    Replies = {"unset", "failure", "confirm"}
    Opines = TRUE
    MaxErrors = 2
    MaxCrashes = 1
    MaxWrites = 2
    MaxDamages = 1
INVARIANTS
    ResultsAreSingle
    RoundsShareInput
    EndIsEarned
SYMMETRY PanelSymmetry
