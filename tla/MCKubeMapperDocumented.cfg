CONSTANTS
  Uint32Size = 1073741824
  MaxInt64 = 2000000000
  ServiceKeys <- OneService
  Objects <- DeployedObjects
  Slices <- OneSlice
  ipStringToIpFamily <- FamilyOf
SPECIFICATION Spec
CHECK_DEADLOCK FALSE
INVARIANT SettingsDocumented
