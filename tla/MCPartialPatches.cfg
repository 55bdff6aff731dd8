SPECIFICATION FairSpec
CONSTANTS
  r1 = r1
  r2 = r2
  r3 = r3
  s1 = s1
  s2 = s2
  Req = {r1, r2}
  Seed = {s1}
  User = {"ann", "bob", "root"}
  Admin = {"root"}
  RoomId = {"A", "B", "nowhere"}
  Room = {"A", "B"}
  Time <- MCTime
  Requests <- PartialPatches
  SeedRows <- WideRow
  ProcTz = 4
  PoolTz = 4
  None = None
  Scanned <- RoomIndexScan
INVARIANTS NoInvertedRow
PROPERTIES AllAnswered UncancelledByStaleReadOnly
CHECK_DEADLOCK FALSE
