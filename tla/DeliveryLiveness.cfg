SPECIFICATION LiveSpec
CONSTANTS
  AutoRow = {core}
  Handler = {manual}
  EnrichedRow = {manual}
  BadRow = {core}
  Worker = {w1}
  NoRow = NoRow
  NumParts = 1
  ClaimTTL = 2
  SendTimeout = 1
  Backoff = 1
  MaxAttempts = 2
  BatchSize = 1
  Poll = 1
  MaxLoadDelay = 0
  MaxFaults = 1
  MaxTime = 9
  Span = 7
PROPERTIES DeliverySettles
