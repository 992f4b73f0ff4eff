SPECIFICATION ReadSpec
CONSTANTS
  a = a
  b = b
  c1 = c1
  c2 = c2
  Null = Null
  Blank = Blank
  Nobody = Nobody
  Mails <- ThreeMails
  Attributes <- Backfilled
  Callers <- OneCall
  Tools <- ThreadOnly
  Limit = 1
  MaxErrors = 1
INVARIANT ThreadHasNoStrangers
CHECK_DEADLOCK FALSE
