SPECIFICATION PushFairSpec
CONSTANTS
  e1 = e1
  i1 = i1
  inbox = inbox
  archive = archive
  c1 = c1
  c2 = c2
  c3 = c3
  Entries <- OneEntry
  Ids <- OneId
  IdOf <- IdOfEntry
  FolderList <- InboxList
  EntryOf <- CallersEntry
  FolderOf <- CallersFolder
  IdleCapable <- Capable
  Folders <- TwoFolders
  Callers <- ThreeCallers
  MaxNews = 1
  Faults <- PanicFaults
  MaxFaults = 1
  MaxDrops = 1
INVARIANT QuietMeansServed
PROPERTY PushServes
