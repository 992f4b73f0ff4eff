SPECIFICATION Spec
CONSTANTS
  inbox = inbox
  trash = trash
  m1 = m1
  m2 = m2
  d1 = d1
  d2 = d2
  Absent = Absent
  NoTrash = NoTrash
  Folders <- InboxAndTrash
  Synced <- InboxOnly
  Trash = trash
  Msgs <- TwoMsgs
  MaxUid = 2
  MaxValidity = 2
  BatchSize = 1
  Deleters <- OneCall
  Faults <- AllFaults
  MaxFaults = 2
  RenumberUnrecorded = FALSE
SYMMETRY Symmetry
INVARIANTS TypeOK NoGap RowsAreCurrent
PROPERTIES LastUidFallsOverNothing ShadowIsCache
