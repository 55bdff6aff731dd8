SPECIFICATION ASpec
CONSTANTS
  PerHour = 60
  Offset <- East
  Text <- NightText
  Dates = {0, 1}
  MaxBookings = 1
INVARIANTS TrendsNameTheDay
