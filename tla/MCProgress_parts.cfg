CONSTANTS
    p1 = p1  k1 = k1  k2 = k2  c1 = c1  c2 = c2  ann = ann  bob = bob
    database = database  rabbitmq = rabbitmq  charts = charts  diagnosis = diagnosis
    w1 = w1  w2 = w2  meterService = meterService  pricingService = pricingService
    matchingService = matchingService  billingService = billingService
    trading = trading  nothing = nothing
    OutboxRows = {1, 2}
    Instances = {p1}
    BatchSize = 1
    MaxFaults = 1
    MaxOutages = 1
    MaxStops = 1
SPECIFICATION MCSpec
PROPERTIES EveryRequestEnds EveryReadingArrives ServicesStartAndStop DashboardCatchesUp
CHECK_DEADLOCK FALSE
