SPECIFICATION ReadFairSpec
CONSTANTS
  a = a
  b = b
  c1 = c1
  c2 = c2
  Null = Null
  Blank = Blank
  Nobody = Nobody
  Mails <- ThreeMails
  Attributes <- Thread
  Callers <- TwoCalls
  Tools <- AnyTool
  Limit = 1
  MaxErrors = 1
INVARIANTS ReadTypeOK PagingMissesNothing ThreadIsComponent
PROPERTIES CallsReturn
CHECK_DEADLOCK FALSE
