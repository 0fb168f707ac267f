SPECIFICATION Spec
CONSTANTS
    NULL = NULL
    Torn = Torn
    n1 = n1
    n2 = n2
    e1 = e1
    e2 = e2
    t1 = t1
    t2 = t2
    w1 = w1
    w2 = w2
    k1 = k1
    b1 = b1
    Names <- MCNames
    EventIDs <- MCEventIDs
    RepoData <- MCRepoData
    Statuses = {"Success", "Failure", "Destroyed"}
    Times <- MCTimes
    Now <- MCNow
    Values = {"v"}
    Slices <- MCSlices
    Searches <- MCSearches
    DayCounts = {0, 1, 2}
    DayLength = 1
    Trees <- MCTrees
    MaxSessions = 3
    Tabs = {t1, t2}
    Polling = {t1}
    CookieMaxAge = 1
    LoginSessions = 4
    MaxTime = 1
    MaxFailures = 2
    Webhooks = {w1, w2}
    Destroys = {k1}
    Rebuilds = {b1}
    Teardowns = {w1, w2}
    DeleteTries = 2
    MaxNamespaces = 2
    MaxFaults = 1
    MaxRestarts = 1
    Events <- MCEvents
    MaxOthers = 2
    MaxErrors = 1
    User = "u"
    Databases <- MCDatabases
    Repos = {"r1", "r2"}
    Queries <- MCQueries
    Histories <- MCHistories
    Days = {0, 1, 8}
    ApiNow = 400
    MaxChanges = 1
SYMMETRY Symmetric
INVARIANTS
    SameAnswers
    NotAllRejected
    OperationsFinish
    BindingsAccountedFor
    RequestsKept
    ReadsAgree
CHECK_DEADLOCK FALSE
