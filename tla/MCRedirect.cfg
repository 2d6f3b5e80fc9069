CONSTANTS
  Services <- OneService
  Addrs <- ThreeAddrs
  Entries <- SomeEntries
  ParseIP <- ParseThree
  family <- FamilyOfTwo
SPECIFICATION Spec
INVARIANTS
  TypeOK
  TodoMatchesSeen
  RedirectsComplete
  NoForeignRedirects
PROPERTIES
  KeepsLiveRedirects
  EventuallyRedirected
  EventuallyOnlyHandled
