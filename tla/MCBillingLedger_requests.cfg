CONSTANTS
    k1 = k1  k2 = k2  k3 = k3  k4 = k4  h1 = h1  h2 = h2  h3 = h3
    None = None
    Keys = {k1, k2, k3, k4}
    NTrades = 4
    NHouseholds = 3
    Payloads <- EveryPayload
    Requests <- EveryRequest
    Earlier <- FourthEarlier
    Handlers = {h1, h2, h3}
    CompletedAt <- HourByHour
    Hours = 2
    PageSize = 1
    Readers = {"summary", "entries"}
SYMMETRY HandlerSymmetry
SPECIFICATION MCSpec
INVARIANTS BalanceIsLedger NoDeadlock BooksAgree
PROPERTIES ImplementsLedger
