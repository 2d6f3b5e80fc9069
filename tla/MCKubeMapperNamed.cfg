CONSTANTS
  Uint32Size = 1073741824
  MaxInt64 = 2000000000
  ServiceKeys <- OneService
  Objects <- NamedObjects
  Slices <- OneSlice
  ipStringToIpFamily <- FamilyOf
SPECIFICATION Spec
CHECK_DEADLOCK FALSE
INVARIANT SnapshotConsistent
