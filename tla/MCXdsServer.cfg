CONSTANTS
  a = a
  b = b
  Services <- TwoServices
  Mismatched <- OneNamed
  MaxWrites = 3
  MaxFaults = 2
SPECIFICATION Spec
INVARIANTS
  TypeOK
  EnvoyUpToDate
PROPERTIES
  EnvoyConverges
  ShutsDown
  FailureEnds
