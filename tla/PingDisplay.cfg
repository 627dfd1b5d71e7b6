SPECIFICATION PingSpec
CONSTANTS
  kWindowTicks = 4
  kWriteEveryTicks = 2
  DefaultMin = 10
  DefaultMax = 12
  Highest = 12
  Numbers = {0, 9, 11, 13}
  Absent = Absent
  NotANumber = NotANumber
INVARIANTS PingInRange PingIsAverage
