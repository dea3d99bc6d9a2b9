CONSTANTS
  rule1 = rule1
  rule2 = rule2
  sleeper = sleeper
  Sleepers = {sleeper}
  Wishes = {rule1, rule2}
  WishDevice <- AtSleeper
  HistoryLength = 2
  Overdue = 1
  Never = Never
  MaxHours = 2
  MaxHistory = 2
  MaxTurns = 3
SPECIFICATION ReportsSpec
CHECK_DEADLOCK FALSE
INVARIANTS
  ClosesOnWake
