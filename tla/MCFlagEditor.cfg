SPECIFICATION Spec
CONSTANTS
  short = short
  long = long
  Configs = {short, long}
  Length <- Lengths
  Saves = {s1, s2}
  Null = Null
  Nothing = Nothing
  Error = Error
  Junk = Junk
  MaxEvents = 3
INVARIANTS
  QuietPageIsCurrent
  HintIsHonest
  FileIsExplained
  SpinnerHasReason
CHECK_DEADLOCK FALSE
