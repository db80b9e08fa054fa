CONSTANTS
    c1 = c1  c2 = c2  c3 = c3  ann = ann  bob = bob  cyd = cyd
    e1 = e1  e2 = e2  e3 = e3  t1 = t1  t2 = t2  Nothing = Nothing
    Households = {ann, bob, cyd}
    Times = {0, 1, 2}
    Posted <- EveryReading
    Handlers = {c1, c2, c3}
    MaxSkew = 1
    MaxFailures = 1
    Hours = 3
    PageSize = 1
    Reads = {"producers", "active"}
    HouseholdNo <- Alphabetical
    Figures <- FiguresOfThree
SYMMETRY HandlerSymmetry
SPECIFICATION MCSpec
INVARIANTS StatusIsNewest EventsAreReadings RepeatsAnswerAlike StatisticsAgree AmountsAgree
