CONSTANTS
  svc = svc
  es = es
  c0 = c0
  c1 = c1
  c2 = c2
  Handlers <- MCHandlers
  CacheStates <- MCCacheStates
  EmptyCache = c0
SPECIFICATION Spec
INVARIANTS
  TypeOK
  NoLostUpdate
PROPERTIES
  MailboxSpec
  Converges
  DispatchReturns
  ShutsDown
