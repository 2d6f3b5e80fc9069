CONSTANTS
  Keys <- ServerAndApp
  Disabled <- DisabledNamespaces
  Objects <- AllObjects
  WebhookServer <- Server
  MaxFaults = 1
SPECIFICATION Spec
INVARIANTS
  TypeOK
  ChoiceRespected
  NothingRefused
  GapsAreKnown
PROPERTY Bootstraps
