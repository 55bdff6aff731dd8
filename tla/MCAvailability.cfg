SPECIFICATION ASpec
CONSTANTS
  PerHour = 120
  Offset <- East
  Text <- MCText
  Dates = {0, 1}
  MaxBookings = 2
INVARIANTS RulesSuffice RulesUpToSeconds OfferedIsBookable NothingHidden UtilizationWithinAnHour ReportsAgree TimeCountedOnce
PROPERTIES RoomsCoverTotal
