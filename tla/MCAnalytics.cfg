SPECIFICATION StatsSpec
CONSTANTS
  Clicked = {x1, x2}
  MaxDay = 2
  NoDate = NoDate
  BadDate = BadDate
  Calls = {s1}
  MaxClicks = 2
  MaxStops = 1
  MaxSecond = 1
  Digits = {0, 5, 9}
  Width = 3
CHECK_DEADLOCK FALSE
INVARIANTS CountsDeliveries TotalWithinDays TextsOrderInstants
