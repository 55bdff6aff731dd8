SPECIFICATION Spec
CONSTANTS
  r1 = r1
  r2 = r2
  r3 = r3
  s1 = s1
  s2 = s2
  Req = {r1, r2}
  Seed = {s1, s2}
  User = {"ann", "bob", "root"}
  Admin = {"root"}
  RoomId = {"A", "nowhere"}
  Room = {"A"}
  Time <- MCTime
  Requests <- WholePatches
  SeedRows <- OneRow
  ProcTz = 4
  PoolTz = 4
  None = None
  Scanned <- NarrowScan
INVARIANTS NoDoubleBooking
CHECK_DEADLOCK FALSE
