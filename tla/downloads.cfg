SPECIFICATION DlFairSpec
CONSTANTS
  t1 = t1
  t2 = t2
  r1 = r1
  r2 = r2
  c1 = c1
  c2 = c2
  NoToken = NoToken
  Missing = Missing
  Torn = Torn
  NoMail = NoMail
  Tokens <- TwoTokens
  Requests <- TwoRequests
  \* A tick is longer than a link lives.
  Ttl = 0
  MaxTime = 1
  Mails <- SomeMails
  Leaves <- SomeLeaves
  Callers <- TwoCallers
  Tools <- TheirTools
  MaxFaults = 1
INVARIANTS DlTypeOK SingleUse LinkWorks IdsComeApart ListedAreSaved LinkSendsItsPart
PROPERTY ExpiredArePurged
