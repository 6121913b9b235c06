SPECIFICATION PoolSpec
CONSTANTS
  Entries <- CallEntries
  Metadata <- CallMetadata
  Denied <- CallDenied
  Statuses <- CallStatuses
  MaxMessages = 2
  Canonical <- PoolCanonical
  Products <- PlainProducts
CHECK_DEADLOCK FALSE
INVARIANT CanonicalAvailable
