CONSTANTS
  Services <- TwoServices
  Addrs <- OneAddr
  Entries <- OneEntry
  ParseIP <- ParseOne
  family <- FamilyOfOne
SPECIFICATION SafeSpec
INVARIANT CleanupReportsErrors
