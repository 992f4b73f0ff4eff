SPECIFICATION RunnerFairSpec
CONSTANTS
  e1 = e1
  e2 = e2
  i1 = i1
  i2 = i2
  inbox = inbox
  archive = archive
  c1 = c1
  c2 = c2
  c3 = c3
  Entries <- TwoEntries
  EntryOf <- CallersEntry
  FolderOf <- CallersFolder
  Folders <- TwoFolders
  Ids <- OneId
  IdOf <- SharedIds
  FolderList <- SharedLists
  Callers <- ThreeCallers
  MaxNews = 1
  Faults <- BothFaults
  MaxFaults = 1
INVARIANTS FolderExclusive AccountExclusive
PROPERTIES RunsComeOneByOne OnlyPanicsLeaveLocked RoundsReturn EveryFolderCatchesUp
