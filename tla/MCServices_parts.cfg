CONSTANTS
    i1 = i1  i2 = i2  q1 = q1  q2 = q2  e1 = e1  e2 = e2  t1 = t1  t2 = t2
    database = database  rabbitmq = rabbitmq  None = None
    short = short  default = default  internal = internal  operator = operator
    metrics = metrics  other = other
    OutboxRows = {1, 2}
    Instances = {i1, i2}
    BatchSize = 2
    MaxFaults = 2
    MaxOutages = 1
    MaxStops = 1
    ServerRequests = {"request"}
    Deliveries = {"message"}
    Probes = {"probe"}
    Dependencies = {database, rabbitmq}
    Critical = {database}
    MaxSignals = 2
    MaxChanges = 3
    Tokens = {short, default, internal, operator, metrics}
    ShortTokens = {short}
    DefaultTokens = {default}
    PasswordKinds = {"tooShort", "good"}
    HttpRequests = {q1, q2}
    Calls <- Callers
    Presented = {internal, operator, metrics, other}
    Configured <- ThreeConfigured
    Limit = 1
    WriteLimit = 1
    MaxProcesses = 1
    CountedEvents = {e1, e2}
    CountedTrades = {t1, t2}
    MaxRetries = 1
    MaxLost = 1
    MaxRuns = 1
    MaxRestarts = 1
    Engines = {"engine", "another"}
    Recalculations = {1, 2, 3}
    Markets <- EightMarkets
    OneKwh = 2
    DefaultRule <- TwoToSeven
    HistoryPage = 1
    MaxDeaths = 2
    MaxTime = 2
SPECIFICATION MCSpec
INVARIANTS
    PublishedWasRouted DuplicatesHaveACause StopsInOrder ListensWhenSafe
    AnswersAreTrue FiguresAddUp
PROPERTIES PricesHold
CHECK_DEADLOCK FALSE
