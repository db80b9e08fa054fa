CONSTANTS
    r1 = r1  r2 = r2  ann = ann  bob = bob  cyd = cyd
    NOffers = 2
    NRequests = 2
    Seller <- TwoSellers
    Buyer <- TwoBuyers
    OfferKwh <- Kwh21
    RequestKwh <- Kwh12
    Runs = {r1}
    MaxTrades = 3
    SettlementBatchSize = 1
    PayloadMayBeRefused = FALSE
    CredentialsMayBreak = FALSE
SPECIFICATION FairMCSpec
PROPERTIES PendingIsSettled NoPairWaitsForEver
