\* Prices of both signs, two configurations, trades of up to three buckets.
CONSTANTS
    Config <- MCConfig
    BookPrice <- MCPrice
    BookQty = {2}
    TradePrice <- MCTradePrice
    BucketVolume = 2
    Window = 2
    TradeQty = {1, 5}
    MaxFed = 6
SPECIFICATION Spec
INVARIANTS TypeOK VolumeBucketed RatiosTruthful
PROPERTIES MarkNeverLost PremiumHeld MarkInsideQuotes FundingBounded
CHECK_DEADLOCK FALSE
