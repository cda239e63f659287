SPECIFICATION Spec
CONSTANTS
  Kit = Kit
  c1 = c1
  Client <- MCClient
  Watched <- MCWatched
  File <- MCFile
  NoFile = "undefined"
  MaxSignals = 2
  MaxRestarts = 1
  Command <- MCCommand
  Url = "url"
  OwnTests <- MCOwnTests
  ClientRequests <- MCClientRequests
  Kept = "bb-hash-001"
  Tomb = "bb-hash-tomb"
  Gone = "bb-hash-410"
INVARIANT
  ReportHasResults
