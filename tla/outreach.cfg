SPECIFICATION Spec
CONSTANTS
  a = a
  NoItem = NoItem
  Levels <- MCLevels
  Ceiling <- MCCeiling
  Cooldown <- MCCooldown
  Items <- MCItems
  Worth <- MCWorth
  Gap = 2
  Day = 4
  MaxKnown = 2
  MaxToday = 2
  MaxNow = 4
  MaxCrashes = 2
INVARIANTS ToldOnce
PROPERTIES OffIsOff Paced
