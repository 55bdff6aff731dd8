SPECIFICATION Spec
CONSTANTS
  r1 = r1
  r2 = r2
  r3 = r3
  Req = {r1, r2, r3}
  Seed = {"root"}
  Email = {"root@", "ann@"}
  Password = {"p", "w"}
  SeedUsers <- MCSeedUsers
  Sessions <- MCSessions
  AuthRequests <- MCAuthRequests
  RoleChanges <- MCRoleChanges
  SeedRoom = {"A"}
  RoomId = {"A", "nowhere"}
  Name = {"hall", "loft"}
  Floor = {0, 1}
  SeedRooms <- MCSeedRooms
  RoomRequests <- MCRoomRequests
  None = None
SYMMETRY ReqSymmetry
INVARIANTS DirectoryTypeOK RegistrationTold DuplicateOnlyAtOnce NeverLockedOut TokensEarned AnswersOwnWrites FoundStaysFound DeletedStaysHidden
PROPERTIES OnlyAdminsChangeRooms OnlyNamedFieldsChange
CHECK_DEADLOCK FALSE
