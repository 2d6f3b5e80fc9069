CONSTANTS
  ServiceKeys <- OneService
  SliceKeys <- OneSlice
  SliceLabels <- LabelOfOne
  NoLabel = NoLabel
  Nil = Nil
  FirstVersion = 8
  Versions = {9, 10}
SPECIFICATION SafeSpec
INVARIANT EveryServiceCached
