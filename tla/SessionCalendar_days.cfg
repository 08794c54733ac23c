CONSTANTS
  FirstYear = 2024
  LastYear = 2025
SPECIFICATION Spec
INVARIANT EveryDayInOneTrimester
PROPERTY SessionsFollowEachOther
