SPECIFICATION ProcFairSpec
CONSTANTS
  inbox = inbox
  m1 = m1
  m2 = m2
  serve = serve
  command = command
  Absent = Absent
  Procs <- TwoProcs
  Serve = serve
  Command = command
  OldSchemas <- Releases
  Folders <- Inbox
  Synced <- Inbox
  Msgs <- TwoMsgs
  MaxUid = 2
  MaxValidity = 1
  BatchSize = 1
  Faults <- AllKinds
  MaxFaults = 1
INVARIANTS ProcTypeOK UpMeansMigrated StartsAgain NoGapOfTwo
PROPERTIES EventuallyShadowedByOne
