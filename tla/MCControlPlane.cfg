CONSTANTS
  ServiceKeys <- OneService
  SliceKeys <- OneSlice
  SliceLabels <- LabelOfOne
  NoLabel = NoLabel
  Nil = Nil
  FirstVersion = 96
  Versions = {97, 98, 99}
SPECIFICATION Spec
INVARIANTS
  TypeOK
  EveryServiceCached
  NoGhostSlices
  NoLostUpdate
PROPERTIES
  AttachedUntilDeleted
  ConvergesToAPI
