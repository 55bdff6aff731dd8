SPECIFICATION Spec
CONSTANTS
  r1 = r1
  r2 = r2
  r3 = r3
  s1 = s1
  s2 = s2
  Req = {r1, r2, r3}
  Seed = {s1}
  User = {"ann", "bob", "root"}
  Admin = {"root"}
  RoomId = {"A", "B", "nowhere"}
  Room = {"A", "B"}
  Time <- LongerDay
  Requests <- MergedPatches
  SeedRows <- LateRow
  ProcTz = 4
  PoolTz = 4
  None = None
  Scanned <- NarrowScan
SYMMETRY ReqSymmetry
INVARIANTS NoDoubleBooking
CHECK_DEADLOCK FALSE
