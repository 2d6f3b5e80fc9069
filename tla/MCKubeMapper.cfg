CONSTANTS
  Uint32Size = 1073741824
  MaxInt64 = 2000000000
  ServiceKeys <- TwoServices
  Objects <- AllObjects
  Slices <- AllSlices
  ipStringToIpFamily <- FamilyOf
SPECIFICATION Spec
CHECK_DEADLOCK FALSE
INVARIANTS
  TypeOK
  ListenersResolve
  EndpointsReachable
  OnlyOwnEndpoints
  HealthJustified
  SettingsApplied
