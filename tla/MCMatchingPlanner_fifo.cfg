CONSTANTS
    ann = ann  bob = bob  cyd = cyd
    NOffers = 3
    NRequests = 3
    Seller <- ThreeSellers
    Buyer <- ThreeBuyers
    Amounts = {1, 2, 3}
SPECIFICATION FairSpec
PROPERTIES PlansFifo PlansEverything
CHECK_DEADLOCK FALSE
