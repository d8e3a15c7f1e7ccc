SPECIFICATION CockpitFairSpec
CHECK_DEADLOCK FALSE
CONSTANTS
    BenignTasks = {b1}
    ViolationTasks = {v1}
    RedTeamTasks = {r1}
    Clients = {c1, c2}
    MaxMishaps = 1
INVARIANTS
    CockpitTypeOK
    AnnouncedIsOnRecord
    EventsAreConserved
PROPERTIES
    OutcomeIsShown
