SPECIFICATION Spec
CONSTANTS
  inbox = inbox
  trash = trash
  m1 = m1
  m2 = m2
  d1 = d1
  d2 = d2
  Absent = Absent
  NoTrash = NoTrash
  Folders <- InboxAndTrash
  Synced <- InboxAndTrash
  Trash = trash
  Msgs <- TwoMsgs
  MaxUid = 2
  MaxValidity = 1
  BatchSize = 1
  Deleters <- TwoCalls
  Faults <- ImapFaults
  MaxFaults = 1
  RenumberUnrecorded = FALSE
SYMMETRY Symmetry
INVARIANTS NoGapStrict RowsAreIndexed MovesWhatWasAsked
PROPERTIES RowsOutliveMessages
