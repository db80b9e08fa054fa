CONSTANTS
    t1 = t1  t2 = t2  w1 = w1  w2 = w2  charts = charts  diagnosis = diagnosis
    meters = meters  pricing = pricing  matching = matching  billing = billing
    trading = trading  energy = energy  h1 = h1  h2 = h2  None = None
    Resources = {charts, diagnosis}
    Periodic = {charts}
    Public = {}
    Gathers = {diagnosis}
    Parts = 2
    Windows = {w1, w2}
    FirstWindow = w1
    Tokens = {t1}
    Services = 1
    MaxStarts = 3
    MaxRotations = 0
    MaxRefreshes = 1
    SessionTokens = {t1, t2}
    SessionPublic = {diagnosis}
    SessionParts = 1
    MaxSessionStarts = 3
    MaxSessionRotations = 1
    MaxSessionRefreshes = 0
    FewServices <- TwoServices
    MoreServices <- ThreeServices
    MaxFewChanges = 2
    MaxMoreChanges = 1
    Views <- TwoTabs
    Households = {h1, h2}
    Limit = 1
    InitialLists <- ListsOfTwo
    MaxListChanges = 1
    Small <- SmallCalendar
    Ours <- OurCalendar
SPECIFICATION MCSpec
INVARIANTS FaultsAreNamed TablesAnswerTheQuestion WindowsFit
PROPERTIES ScreenIsCurrent
CHECK_DEADLOCK FALSE
