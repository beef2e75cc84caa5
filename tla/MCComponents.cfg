SPECIFICATION Spec
CONSTANTS
    p1 = p1
    p2 = p2
    Pool = {p1, p2}
    TTL = 1
    MaxNonces = 2
    MaxTime = 2
    Captures = {p1, p2}
    NoKey = NoKey
    Workers = {p1, p2}
    None = None
    Staff = {s1, s2}
    Stranger = Stranger
    Requests = {p1, p2}
    FirstHour = 18
    LastHour = 24
    HourStep = 6
    MaxCopies = 2
    Regulars = {s1}
    MaxEntries = 1
    Accounts = {m1, w1}
    Managers = {m1}
    Calls = {p1, p2, c3}
    Initial = Initial
    Wrong = Wrong
    Users = {u1, u2}
    Attempts = {p1, p2}
    MaxRequests = 3
    Nobody = Nobody
    Crew = {p1, p2}
    Recorders = {p1, p2}
    DayTicks = 3
    LastTick = 3
    MaxEvents = 3
    Events <- SiteEvents
    Expectations = {0, 1}
    MaxIncidents = 3
    Absent = Absent
SYMMETRY Symmetric
CHECK_DEADLOCK FALSE
INVARIANTS
    TypeOK
    NonceUsableOnce
    NonceErrorNeedsOverlap
    UnreadableNeedsDoubleTap
    ConfirmedIsQueued
    WrongFaceNeedsSwitch
    HighRiskListIsComplete
    HitsAreCharged
    ConfirmedPasswordStands
    StaleTokenNeedsOverlap
    SessionFollowsTheChecks
    RepeatNeedsSecondPress
    NoSignalAlone
    PassagesReadInOrder
    HealthKeepsItsScale
 
