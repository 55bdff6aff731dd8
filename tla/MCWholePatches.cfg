SPECIFICATION Spec
CONSTANTS
  r1 = r1
  r2 = r2
  r3 = r3
  s1 = s1
  s2 = s2
  Req = {r1, r2, r3}
  Seed = {s1, s2}
  User = {"ann", "bob", "root"}
  Admin = {"root"}
  RoomId = {"A", "nowhere"}
  Room = {"A"}
  Time <- MCTime
  Requests <- WholePatches
  SeedRows <- TwoRows
  ProcTz = 0
  PoolTz = 4
  None = None
  Scanned <- NarrowScan
SYMMETRY ReqSymmetry
INVARIANTS TypeOK NoDoubleBooking RowsObeyRules IInv
PROPERTIES ConflictIsReal InsertTriggerSilent CalendarSpec
CHECK_DEADLOCK FALSE
