SPECIFICATION Spec
CONSTANTS
  inbox = inbox
  trash = trash
  m1 = m1
  m2 = m2
  d1 = d1
  d2 = d2
  Absent = Absent
  NoTrash = NoTrash
  Folders <- InboxOnly
  Synced <- InboxOnly
  Trash = NoTrash
  Msgs <- TwoMsgs
  MaxUid = 2
  MaxValidity = 2
  BatchSize = 2
  Deleters <- NoCall
  Faults <- NoFaults
  MaxFaults = 0
  RenumberUnrecorded = FALSE
INVARIANT BodyMatchesEntry
