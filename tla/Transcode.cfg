SPECIFICATION MCSpec
CONSTANTS
  Entries <- CallEntries
  Metadata <- CallMetadata
  Denied <- CallDenied
  Statuses <- CallStatuses
  MaxMessages = 2
  Canonical <- PoolCanonical
  Products <- PoolProducts
CHECK_DEADLOCK FALSE
INVARIANTS FailureVisible HeadersPassed BoundAsSaid RefusedForCause DetailsFaithful LostForCause
PROPERTIES KeepsPromise ResponseEnds
