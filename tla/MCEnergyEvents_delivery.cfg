CONSTANTS
    h1 = h1  h2 = h2  i1 = i1  i2 = i2
    Events <- FourEvents
    Body <- FourBodies
    Instances = {i1, i2}
    Handlers = {h1, h2}
    MaxRetries = 1
    Prefetch = 1
    MaxPublished = 2
    MaxCopies = 2
    MaxCrashes = 1
    MaxDrops = 1
    MaxStops = 1
SPECIFICATION MCSpec
SYMMETRY Symmetry
INVARIANTS NothingDropped ParkedForAReason UnmatchedIsRemembered WorkIsNotRepeated
CHECK_DEADLOCK FALSE
