SPECIFICATION Spec
CONSTANTS
  r1 = r1
  r2 = r2
  r3 = r3
  Req = {r1, r2, r3}
  User = {"ann", "bob", "cid", "root"}
  Admin = {"root"}
  Owner = "ann"
  Guests = {"cid"}
  BookingId = {"m", "x"}
  Meeting = "m"
  Requests <- AllRequests
  None = None
SYMMETRY ReqSymmetry
INVARIANTS TypeOK InVainOnlyAfterRemoval MailsMatchAnswers ToldTwiceOnlyAtOnce
PROPERTIES MisledOnlyIfLate GuestListSpec
CHECK_DEADLOCK FALSE
