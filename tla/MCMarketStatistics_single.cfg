CONSTANTS
    r1 = r1  ann = ann  bob = bob  cyd = cyd
    NOffers = 2
    NRequests = 2
    Seller <- TwoSellers
    Buyer <- TwoBuyers
    OfferKwh <- Kwh21
    RequestKwh <- Kwh12
    Runs = {r1}
    MaxTrades = 3
    SettlementBatchSize = 2
    PayloadMayBeRefused = TRUE
    CredentialsMayBreak = TRUE
    Hours = 2
    PageSize = 1
    Filters = {"ANY"}
    Readers = {"summary", "households", "listing"}
SPECIFICATION MCSpec
INVARIANTS NothingHeldTwice CompletedIsBilled MarketAddsUp PagesSkipNothing
