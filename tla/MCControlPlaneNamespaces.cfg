CONSTANTS
  ServiceKeys <- SameName
  SliceKeys <- OneSlice
  SliceLabels <- LabelOfOne
  NoLabel = NoLabel
  Nil = Nil
  FirstVersion = 96
  Versions = {97, 98, 99}
SPECIFICATION SafeSpec
INVARIANT EveryServiceCached
