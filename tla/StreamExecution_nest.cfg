SPECIFICATION TransformerSpec
CONSTANTS
  Regions <- NestRegions
INVARIANTS
  NestTripCountsKnown
CHECK_DEADLOCK FALSE
