SPECIFICATION Spec
CONSTANTS
  r1 = r1
  r2 = r2
  r3 = r3
  Req = {r1, r2, r3}
  User = {"ann", "bob", "cid", "root"}
  Admin = {"root"}
  Owner = "ann"
  Guests = {}
  BookingId = {"m", "x"}
  Meeting = "m"
  Requests <- TwoInvitees
  None = None
SYMMETRY ReqSymmetry
PROPERTIES AcceptedAreTold
CHECK_DEADLOCK FALSE
