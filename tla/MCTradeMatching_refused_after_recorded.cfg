CONSTANTS
    r1 = r1  r2 = r2  ann = ann  bob = bob  cyd = cyd
    NOffers = 1
    NRequests = 2
    Seller <- OneSeller
    Buyer <- TwoBuyers
    OfferKwh <- Kwh2
    RequestKwh <- Kwh11
    Runs = {r1}
    MaxTrades = 2
    SettlementBatchSize = 2
    PayloadMayBeRefused = FALSE
    CredentialsMayBreak = TRUE
SPECIFICATION Spec
INVARIANTS ReleasedIsNeverBilled
