-------------------------- MODULE DownloadsProofs --------------------------
(***************************************************************************)
(* A link works once, and until it expires, for any number of links and    *)
(* concurrent requests and any lifetime, and for any calls that make the   *)
(* links (Downloads); an email id names the mail it was made of; a         *)
(* download saves what is listed, and a link sends its own part.           *)
(***************************************************************************)
EXTENDS Downloads, WellFoundedInduction, TLAPS

\* A token is in the map, with one handler, or used up: no two of these.
OneHolder ==
  /\ \A t \in tokens : served[t] = 0 /\ \A r \in Requests : ~Holds(r, t)
  /\ \A r \in Requests, t \in Tokens : Holds(r, t) => served[t] = 0
  /\ \A r, s \in Requests, t \in Tokens : Holds(r, t) /\ Holds(s, t) => r = s

\* A token that was not made yet is nowhere.
Unmade ==
  /\ tokens \subseteq made
  /\ \A t \in Tokens \ made : served[t] = 0
  /\ \A r \in Requests : req[r].pc # "free" => req[r].token \in made

\* The time of a purge that waits for the mutex is in the past.
PurgePast == purge.now <= clock

FsInv == FsTypeOK /\ OneHolder /\ Unmade /\ SingleUse /\ PurgePast /\ LinkWorks

LEMMA FsInitInv == FsInit => FsInv
<1> SUFFICES ASSUME FsInit PROVE FsInv
  OBVIOUS
<1>1. FsTypeOK
  BY FileServerAssumption DEF FsInit, FsTypeOK, Free
<1>2. OneHolder /\ Unmade /\ SingleUse /\ PurgePast /\ LinkWorks
  BY DEF FsInit, OneHolder, Unmade, SingleUse, PurgePast, LinkWorks, Holds, Free
<1> QED
  BY <1>1, <1>2 DEF FsInv

-----------------------------------------------------------------------------
LEMMA FsTypeStep ==
  ASSUME FsTypeOK, Unmade, FsNext
  PROVE  FsTypeOK'
<1> USE FileServerAssumption DEF FsTypeOK
<1>1. CASE Pass
  BY <1>1 DEF Pass
<1>2. ASSUME NEW t \in Tokens, CreateLink(t) PROVE FsTypeOK'
  BY <1>2 DEF CreateLink
<1>3. ASSUME NEW r \in Requests, NEW t \in Tokens, Request(r, t) PROVE FsTypeOK'
  BY <1>3 DEF Request
<1>4. ASSUME NEW r \in Requests, Claim(r) PROVE FsTypeOK'
  <2>1. CASE req[r].token \in tokens
    BY <1>4, <2>1 DEF Claim, Claimed
  <2>2. CASE req[r].token \notin tokens
    BY <1>4, <2>2 DEF Claim, Free
  <2> QED
    BY <2>1, <2>2
<1>5. ASSUME NEW r \in Requests, Serve(r) PROVE FsTypeOK'
  <2>1. req[r].token \in Tokens
    BY <1>5 DEF Serve, Unmade
  <2>2. served' \in [Tokens -> Nat]
    BY <1>5, <2>1 DEF Serve
  <2>3. req' = [req EXCEPT ![r] = Free]
    BY <1>5 DEF Serve
  <2>4. UNCHANGED <<clock, made, tokens, expiry, purge>>
    BY <1>5 DEF Serve
  <2> QED
    BY <2>2, <2>3, <2>4 DEF Free
<1>6. CASE PurgeBegin
  BY <1>6 DEF PurgeBegin
<1>7. CASE PurgeExpired
  BY <1>7 DEF PurgeExpired, NextTick
<1> QED
  BY <1>1, <1>2, <1>3, <1>4, <1>5, <1>6, <1>7 DEF FsNext

\* The look-up that deletes is what makes the holder the only one.
LEMMA HolderStep ==
  ASSUME FsTypeOK, OneHolder, Unmade, SingleUse, FsNext
  PROVE  OneHolder' /\ Unmade' /\ SingleUse'
<1> USE DEF FsTypeOK, OneHolder, Unmade, SingleUse, Holds
<1>1. CASE Pass \/ PurgeBegin
  BY <1>1 DEF Pass, PurgeBegin
<1>2. ASSUME NEW t \in Tokens, CreateLink(t) PROVE OneHolder' /\ Unmade' /\ SingleUse'
  BY <1>2 DEF CreateLink
<1>3. ASSUME NEW r \in Requests, NEW t \in Tokens, Request(r, t)
      PROVE  OneHolder' /\ Unmade' /\ SingleUse'
  BY <1>3 DEF Request
<1>4. ASSUME NEW r \in Requests, Claim(r) PROVE OneHolder' /\ Unmade' /\ SingleUse'
  <2>1. CASE req[r].token \in tokens
    <3>1. /\ tokens' = tokens \ {req[r].token}
          /\ req' = [req EXCEPT ![r].pc = "check"]
          /\ UNCHANGED <<made, served>>
      BY <1>4, <2>1 DEF Claim, Claimed
    <3>2. /\ req'[r].token = req[r].token
          /\ \A s \in Requests : s # r => req'[s] = req[s]
      BY <3>1
    <3> QED
      BY <2>1, <3>1, <3>2
  <2>2. CASE req[r].token \notin tokens
    <3>1. /\ req' = [req EXCEPT ![r] = Free]
          /\ UNCHANGED <<made, tokens, served>>
      BY <1>4, <2>2 DEF Claim
    <3>2. /\ req'[r].pc = "free"
          /\ \A s \in Requests : s # r => req'[s] = req[s]
      BY <3>1 DEF Free
    <3> QED
      BY <3>1, <3>2
  <2> QED
    BY <2>1, <2>2
<1>5. ASSUME NEW r \in Requests, Serve(r) PROVE OneHolder' /\ Unmade' /\ SingleUse'
  <2> DEFINE t == req[r].token
  <2>1. t \in made /\ Holds(r, t) /\ served[t] = 0
    BY <1>5 DEF Serve
  <2>2. /\ \A u \in Tokens : u # t => served'[u] = served[u]
        /\ served'[t] \in {0, 1}
        /\ UNCHANGED <<made, tokens>>
    BY <1>5, <2>1 DEF Serve
  <2>3. /\ req'[r].pc = "free"
        /\ \A s \in Requests : s # r => req'[s] = req[s]
    BY <1>5 DEF Serve, Free
  <2> QED
    BY <2>1, <2>2, <2>3
<1>6. CASE PurgeExpired
  BY <1>6 DEF PurgeExpired
<1> QED
  BY <1>1, <1>2, <1>3, <1>4, <1>5, <1>6 DEF FsNext

\* A purge is not ahead of the clock, so it takes expired tokens only.
LEMMA LinkStep ==
  ASSUME FsTypeOK, Unmade, PurgePast, LinkWorks, FsNext
  PROVE  PurgePast' /\ LinkWorks'
<1> USE FileServerAssumption DEF FsTypeOK, Unmade, PurgePast, LinkWorks, Holds, Expired
<1>1. CASE Pass
  BY <1>1 DEF Pass
<1>2. ASSUME NEW t \in Tokens, CreateLink(t) PROVE PurgePast' /\ LinkWorks'
  BY <1>2 DEF CreateLink
<1>3. ASSUME NEW r \in Requests, NEW t \in Tokens, Request(r, t)
      PROVE  PurgePast' /\ LinkWorks'
  BY <1>3 DEF Request
<1>4. ASSUME NEW r \in Requests, Claim(r) PROVE PurgePast' /\ LinkWorks'
  <2>1. CASE req[r].token \in tokens
    <3>1. /\ tokens' = tokens \ {req[r].token}
          /\ req' = [req EXCEPT ![r].pc = "check"]
          /\ UNCHANGED <<clock, made, expiry, purge, served>>
      BY <1>4, <2>1 DEF Claim, Claimed
    <3>2. /\ req[r].pc = "claim" /\ req'[r].pc = "check" /\ req'[r].token = req[r].token
          /\ \A s \in Requests : s # r => req'[s] = req[s]
      BY <1>4, <3>1 DEF Claim
    <3> QED
      BY <3>1, <3>2
  <2>2. CASE req[r].token \notin tokens
    BY <1>4, <2>2 DEF Claim
  <2> QED
    BY <2>1, <2>2
<1>5. ASSUME NEW r \in Requests, Serve(r) PROVE PurgePast' /\ LinkWorks'
  <2> DEFINE t == req[r].token
  <2>1. t \in Tokens /\ UNCHANGED <<clock, made, tokens, expiry, purge>>
    BY <1>5 DEF Serve
  <2>2. \A s \in Requests : s # r => req'[s] = req[s]
    BY <1>5 DEF Serve
  <2>3. \A u \in Tokens : u # t => served'[u] = served[u]
    BY <1>5 DEF Serve
  <2>4. ~Expired(t, clock) => served'[t] > 0
    BY <1>5, <2>1 DEF Serve
  <2> QED
    BY <2>1, <2>2, <2>3, <2>4
<1>6. CASE PurgeBegin
  BY <1>6 DEF PurgeBegin
<1>7. CASE PurgeExpired
  BY <1>7 DEF PurgeExpired, Purged, NextTick
<1> QED
  BY <1>1, <1>2, <1>3, <1>4, <1>5, <1>6, <1>7 DEF FsNext

-----------------------------------------------------------------------------
LEMMA FsInvStep == FsInv /\ [FsNext]_fsVars => FsInv'
<1>1. ASSUME FsInv, FsNext PROVE FsInv'
  BY <1>1, FsTypeStep, HolderStep, LinkStep DEF FsInv
<1>2. ASSUME FsInv, UNCHANGED fsVars PROVE FsInv'
  BY <1>2 DEF fsVars, FsInv, FsTypeOK, OneHolder, Unmade, SingleUse, PurgePast, LinkWorks,
     Holds, Expired
<1> QED
  BY <1>1, <1>2

THEOREM FsInvariant == FsSpec => []FsInv
  BY FsInitInv, FsInvStep, PTL DEF FsSpec

\* No link serves its file twice, whatever requests run at the same time.
THEOREM LinksAreSingleUse == FsSpec => []SingleUse
<1>1. FsInv => SingleUse
  BY DEF FsInv
<1> QED
  BY <1>1, FsInvariant, PTL

\* No link is lost before it is used or has expired.
THEOREM LinksWork == FsSpec => []LinkWorks
<1>1. FsInv => LinkWorks
  BY DEF FsInv
<1> QED
  BY <1>1, FsInvariant, PTL

-----------------------------------------------------------------------------
\* Calls that write files and make links, and handlers that send what a file
\* holds, do to the links only what the download server allows.
LEMMA DlImplementsFs == DlSpec => FsSpec
<1>1. DlInit => FsInit
  BY DEF DlInit
<1>2. [DlNext]_allVars => [FsNext]_fsVars
  <2>1. ASSUME NEW c \in Callers, NEW m \in Mails, NEW tool, Ask(c, m, tool)
        PROVE  UNCHANGED fsVars
    BY <2>1 DEF Ask
  <2>2. ASSUME NEW c \in Callers, DlStep(c)
        PROVE  UNCHANGED fsVars \/ \E t \in Tokens : CreateLink(t)
    BY <2>2 DEF DlStep, Prepare, OpenFile, FillFile, Saved, LinksMade, LinkFile
  <2>3. ASSUME NEW r \in Requests, ServeFile(r)
        PROVE  Serve(r)
    BY <2>3 DEF ServeFile
  <2>4. CASE UNCHANGED allVars
    BY <2>4 DEF allVars
  <2> QED
    BY <2>1, <2>2, <2>3, <2>4 DEF DlNext, FsNext
<1> QED
  BY <1>1, <1>2, PTL DEF DlSpec, FsSpec

\* Whatever calls make links and write their files, no link sends a file twice
\* (CreateLink, handleDownload).
THEOREM DownloadsAreSingleUse == DlSpec => []SingleUse
  BY DlImplementsFs, LinksAreSingleUse, PTL

\* ... and every link works until it is used or has expired.
THEOREM DownloadLinksWork == DlSpec => []LinkWorks
  BY DlImplementsFs, LinksWork, PTL

-----------------------------------------------------------------------------
(* Email ids.                                                              *)

Texts(Chars) == [account : Seq(Chars), folder : Seq(Chars), uid : Seq(Chars)]

Joined(a, f, u) == a \o <<":">> \o f \o <<":">> \o u

LEMMA ColonsInside ==
  ASSUME NEW Chars, NEW s \in Seq(Chars)
  PROVE  /\ \A i \in Colons(s) : i \in 1..Len(s) /\ s[i] = ":"
         /\ \A i \in 1..Len(s) : s[i] = ":" => i \in Colons(s)
<1>1. \A i \in Colons(s) : i \in DOMAIN s /\ s[i] = ":"
  BY Zenon DEF Colons
<1>2. \A i \in DOMAIN s : s[i] = ":" => i \in Colons(s)
  BY Zenon DEF Colons
<1>3. DOMAIN s = 1..Len(s)
  OBVIOUS
<1> QED
  BY <1>1, <1>2, <1>3, Zenon

LEMMA LeastColon ==
  ASSUME NEW cs \in SUBSET Nat, NEW k \in cs, \A i \in cs : k <= i
  PROVE  AccountColon(cs) = k
<1>1. AccountColon(cs) \in cs /\ \A j \in cs : AccountColon(cs) <= j
  BY Zenon DEF AccountColon
<1>2. /\ AccountColon(cs) <= k /\ k <= AccountColon(cs)
      /\ k \in Nat /\ AccountColon(cs) \in Nat
  BY <1>1, Zenon
<1> QED
  BY <1>2

LEMMA GreatestColon ==
  ASSUME NEW cs \in SUBSET Nat, NEW k \in cs, \A i \in cs : i <= k
  PROVE  UidColon(cs) = k
<1>1. UidColon(cs) \in cs /\ \A j \in cs : j <= UidColon(cs)
  BY Zenon DEF UidColon
<1>2. /\ UidColon(cs) <= k /\ k <= UidColon(cs)
      /\ k \in Nat /\ UidColon(cs) \in Nat
  BY <1>1, Zenon
<1> QED
  BY <1>2

\* The first colon ends the account and the last begins the UID.
LEMMA OuterColons ==
  ASSUME NEW Chars, ":" \in Chars,
         NEW a \in Seq(Chars), NEW f \in Seq(Chars), NEW u \in Seq(Chars),
         Colons(a) = {}, Colons(u) = {}
  PROVE  /\ AccountColon(Colons(Joined(a, f, u))) = Len(a) + 1
         /\ UidColon(Colons(Joined(a, f, u))) = Len(a) + Len(f) + 2
<1> DEFINE id   == Joined(a, f, u)
           cs   == Colons(id)
           from == Len(a) + 1
           to   == Len(a) + Len(f) + 2
<1>1. \A i \in 1..Len(a) : a[i] # ":"
  BY ColonsInside, Zenon
<1>2. \A i \in 1..Len(u) : u[i] # ":"
  BY ColonsInside, Zenon
<1>3. id \in Seq(Chars) /\ Len(id) = Len(a) + Len(f) + Len(u) + 2
  BY DEF Joined
<1>4. \A i \in 1..Len(a) : id[i] = a[i]
  BY DEF Joined
<1>5. \A i \in 1..Len(u) : id[Len(a) + Len(f) + 2 + i] = u[i]
  BY DEF Joined
<1>6. id[from] = ":" /\ id[to] = ":"
  BY DEF Joined
<1>7. /\ \A i \in cs : i \in 1..Len(id) /\ id[i] = ":"
      /\ \A i \in 1..Len(id) : id[i] = ":" => i \in cs
  <2> HIDE DEF id
  <2> QED BY <1>3, ColonsInside, Zenon
<1>8. Len(a) \in Nat /\ Len(f) \in Nat /\ Len(u) \in Nat
  OBVIOUS
<1> HIDE DEF id, cs
<1>9. ASSUME NEW i \in cs PROVE from <= i
  <2>1. i \in 1..Len(id) /\ i \notin 1..Len(a)
    BY <1>1, <1>4, <1>7, Zenon
  <2>2. Len(id) \in Nat
    BY <1>3, <1>8
  <2> QED
    BY <1>8, <2>1, <2>2
<1>10. ASSUME NEW i \in cs PROVE i <= to
  <2>1. i \in 1..Len(id) /\ id[i] = ":"
    BY <1>7, Zenon
  <2>2. SUFFICES ASSUME i > to PROVE FALSE
    BY <1>3, <1>8, <2>1
  <2>3. PICK j \in 1..Len(u) : i = Len(a) + Len(f) + 2 + j
    <3> DEFINE j == i - to
    <3>1. j \in 1..Len(u) /\ i = Len(a) + Len(f) + 2 + j
      BY <1>3, <1>8, <2>1, <2>2
    <3> QED
      BY <3>1, Zenon
  <2> QED
    BY <1>2, <1>5, <2>1, <2>3, Zenon
<1>11. from \in 1..Len(id) /\ to \in 1..Len(id)
  BY <1>3, <1>8
<1>12. from \in cs /\ to \in cs
  BY <1>6, <1>7, <1>11, Zenon
<1>13. cs \in SUBSET Nat
  <2>1. 1..Len(id) \subseteq Nat
    BY <1>3, <1>8
  <2> QED
    BY <1>7, <2>1, Zenon
<1> HIDE DEF from, to
<1>14. AccountColon(cs) = from
  BY <1>9, <1>12, <1>13, LeastColon, Zenon
<1>15. UidColon(cs) = to
  BY <1>10, <1>12, <1>13, GreatestColon, Zenon
<1> QED
  BY <1>14, <1>15, Zenon DEF cs, id, from, to

LEMMA CutAtColons ==
  ASSUME NEW Chars, ":" \in Chars,
         NEW a \in Seq(Chars), NEW f \in Seq(Chars), NEW u \in Seq(Chars)
  PROVE  /\ SubSeq(Joined(a, f, u), 1, Len(a)) = a
         /\ SubSeq(Joined(a, f, u), Len(a) + 2, Len(a) + Len(f) + 1) = f
         /\ SubSeq(Joined(a, f, u), Len(a) + Len(f) + 3, Len(a) + Len(f) + Len(u) + 2) = u
<1>1. SubSeq(Joined(a, f, u), 1, Len(a)) = a
  BY DEF Joined
<1>2. SubSeq(Joined(a, f, u), Len(a) + 2, Len(a) + Len(f) + 1) = f
  BY DEF Joined
<1>3. SubSeq(Joined(a, f, u), Len(a) + Len(f) + 3, Len(a) + Len(f) + Len(u) + 2) = u
  BY DEF Joined
<1> QED
  BY <1>1, <1>2, <1>3, Zenon

LEMMA ParsedJoined ==
  ASSUME NEW Chars, ":" \in Chars,
         NEW a \in Seq(Chars), NEW f \in Seq(Chars), NEW u \in Seq(Chars),
         Colons(a) = {}, Colons(u) = {}
  PROVE  ParseEmailID(Joined(a, f, u)) = [account |-> a, folder |-> f, uid |-> u]
<1> DEFINE id == Joined(a, f, u)
<1>1. AccountColon(Colons(id)) = Len(a) + 1 /\ UidColon(Colons(id)) = Len(a) + Len(f) + 2
  BY OuterColons
<1>2. /\ SubSeq(id, 1, Len(a)) = a
      /\ SubSeq(id, Len(a) + 2, Len(a) + Len(f) + 1) = f
      /\ SubSeq(id, Len(a) + Len(f) + 3, Len(a) + Len(f) + Len(u) + 2) = u
  BY CutAtColons
<1>3. Len(id) = Len(a) + Len(f) + Len(u) + 2
  BY DEF Joined
<1>4. /\ Len(a) + 1 - 1 = Len(a) /\ Len(a) + 1 + 1 = Len(a) + 2
      /\ Len(a) + Len(f) + 2 - 1 = Len(a) + Len(f) + 1
      /\ Len(a) + Len(f) + 2 + 1 = Len(a) + Len(f) + 3
  OBVIOUS
<1> HIDE DEF id
<1>a. /\ AccountColon(Colons(id)) - 1 = Len(a) /\ AccountColon(Colons(id)) + 1 = Len(a) + 2
      /\ UidColon(Colons(id)) - 1 = Len(a) + Len(f) + 1
      /\ UidColon(Colons(id)) + 1 = Len(a) + Len(f) + 3
  BY <1>1, <1>4
<1>5. /\ SubSeq(id, 1, AccountColon(Colons(id)) - 1) = a
      /\ SubSeq(id, AccountColon(Colons(id)) + 1, UidColon(Colons(id)) - 1) = f
      /\ SubSeq(id, UidColon(Colons(id)) + 1, Len(id)) = u
  <2>1. SubSeq(id, 1, AccountColon(Colons(id)) - 1) = a
    BY <1>2, <1>a, Zenon
  <2>2. SubSeq(id, AccountColon(Colons(id)) + 1, UidColon(Colons(id)) - 1) = f
    BY <1>2, <1>a, Zenon
  <2>3. SubSeq(id, UidColon(Colons(id)) + 1, Len(id)) = u
    BY <1>2, <1>3, <1>a, Zenon
  <2> QED
    BY <2>1, <2>2, <2>3, Zenon
<1>6. ParseEmailID(id) = [account |-> a, folder |-> f, uid |-> u]
  BY <1>5, Zenon DEF ParseEmailID
<1> QED
  BY <1>6, Zenon DEF id

\* The parser takes an id apart where it was put together: the folder may have
\* colons, the account may not.
LEMMA ParsedIsFormatted ==
  ASSUME NEW Chars, ":" \in Chars, NEW m \in Texts(Chars),
         Colons(m.account) = {}, Colons(m.uid) = {}
  PROVE  ParseEmailID(Format(m)) = m
<1>1. m.account \in Seq(Chars) /\ m.folder \in Seq(Chars) /\ m.uid \in Seq(Chars)
  BY DEF Texts
<1>2. m = [account |-> m.account, folder |-> m.folder, uid |-> m.uid]
  BY DEF Texts
<1>3. Format(m) = Joined(m.account, m.folder, m.uid)
  BY Zenon DEF Format, Joined
<1>4. ParseEmailID(Joined(m.account, m.folder, m.uid))
        = [account |-> m.account, folder |-> m.folder, uid |-> m.uid]
  BY <1>1, ParsedJoined
<1> QED
  BY <1>2, <1>3, <1>4, Zenon

-----------------------------------------------------------------------------
\* The parts of a mail are places in its structure, and one of them is the first.
LEMMA PartsTyped ==
  ASSUME NEW m \in Mails
  PROVE  /\ Parts(m) \subseteq Nat
         /\ \A i \in Parts(m) : i \in DOMAIN Leaves[m] /\ Leaves[m][i] \in Leaf
<1>1. Leaves[m] \in Seq(Leaf)
  BY DownloadsAssumption
<1>2. DOMAIN Leaves[m] \subseteq Nat /\ \A i \in DOMAIN Leaves[m] : Leaves[m][i] \in Leaf
  BY <1>1
<1> QED
  BY <1>2, Zenon DEF Parts

LEMMA FirstIsThere ==
  ASSUME NEW left \in SUBSET Nat, left # {}
  PROVE  First(left) \in left
<1> DEFINE Less == {ss \in Nat \X Nat : ss[1] < ss[2]}
<1>1. IsWellFoundedOn(Less, Nat)
  BY NatLessThanWellFounded, Zenon DEF OpToRel
<1>2. PICK x \in left : \A y \in left : ~ (<<y, x>> \in Less)
  <2> HIDE DEF Less
  <2> QED BY <1>1, WFMin
<1>3. ASSUME NEW y \in left, y < x
      PROVE  FALSE
  <2>1. <<y, x>> \in Nat \X Nat /\ <<y, x>>[1] < <<y, x>>[2]
    BY <1>3
  <2> QED
    BY <1>2, <2>1
<1>4. \A y \in left : x <= y
  BY <1>3
<1> QED
  BY <1>4 DEF First

LEMMA FilesTyped ==
  ASSUME NEW m \in Mails, NEW i \in Parts(m)
  PROVE  /\ Files[m][i] = <<Directory(m), SanitizeFilename(Leaves[m][i].name)>>
         /\ Files[m][i][1] \in Directories /\ ~ Files[m][i][2].dir /\ ~ Files[m][i][2].odd
<1>1. Files[m][i] = <<Directory(m), SanitizeFilename(Leaves[m][i].name)>>
  BY DEF Files
<1>2. Directory(m) \in Directories
  BY DEF Directories
<1>3. PICK stem : SanitizeFilename(Leaves[m][i].name)
                    = [stem |-> stem, dir |-> FALSE, odd |-> FALSE]
  BY DEF SanitizeFilename
<1>4. Files[m][i][1] = Directory(m) /\ Files[m][i][2] = [stem |-> stem, dir |-> FALSE, odd |-> FALSE]
  BY <1>1, <1>3
<1>5. Files[m][i][2].dir = FALSE /\ Files[m][i][2].odd = FALSE
  BY <1>4
<1> QED
  BY <1>1, <1>2, <1>4, <1>5, Zenon

\* What a download owes the reader of the database: what is listed and has a name.
Owed(m) ==
  {i \in DOMAIN Leaves[m] : /\ Listed(Leaves[m][i])
                            /\ Leaves[m][i].name.stem \notin {NoStem, ".", ".."}}

LEMMA OwedAreParts ==
  ASSUME NEW m \in Mails
  PROVE  /\ Owed(m) \subseteq Parts(m)
         /\ \A i \in Owed(m) : ~ IsDirectory(Files[m][i][2])
<1>1. Owed(m) \subseteq Parts(m)
  BY DEF Owed, Parts, Listed, Fetched
<1>2. ASSUME NEW i \in Owed(m)
      PROVE  ~ IsDirectory(Files[m][i][2])
  <2>1. Files[m][i] = <<Directory(m), SanitizeFilename(Leaves[m][i].name)>>
    BY <1>1, FilesTyped
  <2>2. Files[m][i][2] = SanitizeFilename(Leaves[m][i].name)
    BY <2>1
  <2>3. PICK n : n = Leaves[m][i].name /\ n.stem \notin {NoStem, ".", ".."}
    BY DEF Owed
  <2>4. SanitizeFilename(n).stem \notin {".", ".."}
    BY <2>3 DEF SanitizeFilename
  <2> QED
    BY <2>2, <2>3, <2>4, Zenon DEF IsDirectory
<1> QED
  BY <1>1, <1>2

LEMMA OwnFile ==
  ASSUME NEW m \in Mails, NEW i \in OwnParts[m], NEW n \in Mails, NEW j \in Parts(n),
         Files[n][j] = Files[m][i]
  PROVE  n = m /\ j = i
BY DEF OwnParts

LEMMA OwnAreParts == \A m \in Mails : OwnParts[m] \subseteq Parts(m)
BY DEF OwnParts
-----------------------------------------------------------------------------
Targets == Mails \cup {NoMail} \cup {ParseEmailID(Format(m)) : m \in Mails}

Pcs     == {"idle", "connect", "save", "fill", "link", "done", "error"}
Working == {"save", "fill", "link", "done"}

Calls == [pc : Pcs, tool : {"none", "link", "files"}, asked : Mails \cup {NoMail},
          mail : Targets, left : SUBSET Nat, saved : SUBSET Nat, lost : BOOLEAN]

\* A call works on the mail the parser made of the id it was given; what is owed
\* is still to do, saved, or lost; what gets a link was saved.
CallOK(d) ==
  /\ d.pc = "idle" => d.mail = NoMail
  /\ d.pc \in {"idle", "connect"} => d.saved = {}
  /\ d.pc # "idle" => d.asked \in Mails /\ d.mail = ParseEmailID(Format(d.asked))
  /\ d.pc \in Working =>
       /\ d.mail \in Mails /\ d.left \subseteq Parts(d.mail) /\ d.saved \subseteq Parts(d.mail)
       /\ \A i \in Owed(d.mail) :
            i \in d.saved \/ d.lost \/ (d.pc \in {"save", "fill"} /\ i \in d.left)
  /\ d.pc \in {"save", "fill"} => d.left \cap d.saved = {}
  /\ d.pc = "fill" => d.left # {} /\ ~ IsDirectory(Files[d.mail][First(d.left)][2])
  /\ d.pc = "link" => d.left \subseteq d.saved

\* The call c goes on as e: its mail stays, and what it has saved stays saved.
Goes(c, e) ==
  /\ e \in Calls /\ CallOK(e) /\ dl' = [dl EXCEPT ![c] = e]
  /\ dl[c].pc # "idle" => e.mail = dl[c].mail
  /\ dl[c].pc \in Working => e.pc \in Working /\ dl[c].saved \subseteq e.saved

\* ... and has saved no more than what it had saved when it went to work.
NothingNew(c, e) ==
  e.pc \in Working => \/ e.saved = {}
                      \/ dl[c].pc \in Working /\ e.saved = dl[c].saved

CallsOK == dl \in [Callers -> Calls] /\ \A c \in Callers : CallOK(dl[c])

LEMMA IdleIsACall == Idle \in Calls /\ CallOK(Idle) /\ Idle.pc = "idle" /\ Idle.saved = {}
<1>1. PICK nobody \in Mails \cup {NoMail} : nobody = NoMail
  OBVIOUS
<1>2. NoMail \in Targets
  BY DEF Targets
<1>3. Idle \in Calls
  BY <1>2 DEF Calls, Idle, Pcs
<1>4. Idle.pc = "idle" /\ Idle.mail = NoMail /\ Idle.saved = {}
  BY DEF Idle
<1> QED
  BY <1>3, <1>4 DEF CallOK, Working

LEMMA AskGoes ==
  ASSUME CallsOK, NEW c \in Callers, NEW m \in Mails, NEW tool \in {"link", "files"},
         Ask(c, m, tool)
  PROVE  /\ \E e : Goes(c, e) /\ NothingNew(c, e)
         /\ UNCHANGED <<fsVars, disk, linkOf, sent, faults>>
<1>1. PICK target \in Targets : target = ParseEmailID(Format(m))
  BY DEF Targets
<1>2. PICK pc \in {"connect", "error"} :
        dl' = [dl EXCEPT ![c] = [Idle EXCEPT !.tool = tool, !.asked = m, !.mail = target,
                                             !.pc = pc]]
  BY <1>1 DEF Ask
<1>3. PICK idle \in Calls : idle = Idle
  BY IdleIsACall
<1>4. PICK e : e = [idle EXCEPT !.tool = tool, !.asked = m, !.mail = target, !.pc = pc]
  OBVIOUS
<1>5. e \in Calls /\ e.pc = pc /\ e.asked = m /\ e.mail = target
  BY <1>4 DEF Calls, Pcs
<1>6. CallOK(e) /\ e.pc \notin Working
  BY <1>1, <1>4, <1>5, <1>3, IdleIsACall DEF CallOK, Working, Calls
<1>7. dl[c].pc = "idle" /\ UNCHANGED <<fsVars, disk, linkOf, sent, faults>>
  BY DEF Ask
<1>8. dl' = [dl EXCEPT ![c] = e]
  BY <1>2, <1>3, <1>4
<1> QED
  BY <1>5, <1>6, <1>7, <1>8 DEF Goes, NothingNew, Working

\* The call ends with an error.
LEMMA ErrorGoes ==
  ASSUME CallsOK, NEW c \in Callers, dl[c].pc = "connect", NEW left \in SUBSET Nat,
         dl' = [dl EXCEPT ![c].pc = "error", ![c].left = left]
  PROVE  \E e : Goes(c, e) /\ NothingNew(c, e)
<1>1. PICK d \in Calls : d = dl[c] /\ d.pc = "connect" /\ CallOK(d)
  BY DEF CallsOK
<1>2. PICK e : e = [d EXCEPT !.pc = "error", !.left = left]
  OBVIOUS
<1>3. e \in Calls /\ e.pc = "error" /\ e.asked = d.asked /\ e.mail = d.mail
  BY <1>2 DEF Calls, Pcs
<1>4. CallOK(e) /\ e.pc \notin Working
  BY <1>1, <1>3 DEF CallOK, Working
<1>5. dl' = [dl EXCEPT ![c] = e]
  BY <1>1, <1>2 DEF CallsOK
<1> QED
  BY <1>1, <1>3, <1>4, <1>5 DEF Goes, NothingNew, Working

LEMMA PrepareGoes ==
  ASSUME CallsOK, NEW c \in Callers, Prepare(c)
  PROVE  /\ \E e : Goes(c, e) /\ NothingNew(c, e)
         /\ UNCHANGED <<fsVars, disk, linkOf, sent>>
<1>1. PICK d \in Calls : d = dl[c] /\ d.pc = "connect" /\ CallOK(d)
  BY DEF CallsOK, Prepare
<1>2. UNCHANGED <<fsVars, disk, linkOf, sent>>
  BY DEF Prepare
<1>3. CASE dl' = [dl EXCEPT ![c].pc = "error"]
  <2>1. PICK left \in SUBSET Nat : left = d.left
    BY DEF Calls
  <2>2. dl' = [dl EXCEPT ![c].pc = "error", ![c].left = left]
    BY <1>1, <1>3, <2>1 DEF CallsOK, Calls
  <2> QED
    BY <1>1, <1>2, <2>2, ErrorGoes
<1>4. CASE dl' = [dl EXCEPT ![c].pc = "error", ![c].left = {}]
  <2>1. PICK left \in SUBSET Nat : left = {}
    OBVIOUS
  <2>2. dl' = [dl EXCEPT ![c].pc = "error", ![c].left = left]
    BY <1>4, <2>1
  <2> QED
    BY <1>1, <1>2, <2>2, ErrorGoes
<1>5. CASE d.mail \in Mails /\ dl' = [dl EXCEPT ![c].pc = "save", ![c].left = Parts(d.mail)]
  <2>1. PICK left \in SUBSET Nat : left = Parts(d.mail)
    BY <1>5, PartsTyped
  <2>2. PICK e : e = [d EXCEPT !.pc = "save", !.left = left]
    OBVIOUS
  <2>3. /\ e \in Calls /\ e.pc = "save" /\ e.asked = d.asked /\ e.mail = d.mail
        /\ e.left = left /\ e.saved = d.saved
    BY <2>2 DEF Calls, Pcs
  <2>4. Owed(d.mail) \subseteq left /\ d.saved = {}
    BY <1>1, <1>5, <2>1, OwedAreParts DEF CallOK
  <2>5. CallOK(e) /\ e.pc \in Working
    BY <1>1, <1>5, <2>1, <2>3, <2>4 DEF CallOK, Working
  <2>6. dl' = [dl EXCEPT ![c] = e]
    BY <1>1, <1>5, <2>1, <2>2 DEF CallsOK
  <2> QED
    BY <1>1, <1>2, <2>3, <2>4, <2>5, <2>6 DEF Goes, NothingNew, Working
<1> QED
  BY <1>1, <1>3, <1>4, <1>5, Zenon DEF Prepare

\* A part is left out: because its name is a directory's, or after a fault.
LEMMA SkipGoes ==
  ASSUME CallsOK, NEW c \in Callers, dl[c].pc \in {"save", "fill"}, dl[c].left # {},
         NEW lost \in BOOLEAN, lost \/ IsDirectory(NextFile(c)[2]),
         dl' = [dl EXCEPT ![c] = Skipped(@, lost)]
  PROVE  \E e : Goes(c, e) /\ NothingNew(c, e)
<1>1. PICK d \in Calls : d = dl[c] /\ CallOK(d)
  BY DEF CallsOK
<1>2. /\ d.pc \in Working /\ d.pc \in {"save", "fill"} /\ d.left # {} /\ d.mail \in Mails
      /\ d.left \in SUBSET Nat /\ d.left \subseteq Parts(d.mail)
  BY <1>1 DEF Working, CallOK, Calls
<1>3. PICK i : i = First(d.left) /\ i \in d.left
  BY <1>2, FirstIsThere
<1>4. i \in Owed(d.mail) => lost
  BY <1>1, <1>2, <1>3, OwedAreParts DEF NextFile
<1>5. PICK left \in SUBSET Nat : left = d.left \ {i}
  BY <1>2
<1>6. PICK gone \in BOOLEAN : gone = (d.lost \/ lost)
  BY DEF Calls
<1>7. PICK e : e = [d EXCEPT !.pc = "save", !.left = left, !.lost = gone]
  OBVIOUS
<1>8. /\ e \in Calls /\ e.pc = "save" /\ e.asked = d.asked /\ e.mail = d.mail
      /\ e.left = left /\ e.saved = d.saved /\ e.lost = gone
  BY <1>7 DEF Calls, Pcs
<1>9. CallOK(e)
  BY <1>1, <1>2, <1>3, <1>4, <1>5, <1>6, <1>8 DEF CallOK, Working
<1>10. dl' = [dl EXCEPT ![c] = e]
  BY <1>1, <1>3, <1>5, <1>6, <1>7 DEF CallsOK, Skipped, Calls
<1> QED
  BY <1>1, <1>2, <1>8, <1>9, <1>10 DEF Goes, NothingNew, Working

\* A part is saved.
LEMMA FillGoes ==
  ASSUME CallsOK, NEW c \in Callers, dl[c].pc = "fill",
         dl' = [dl EXCEPT ![c] = Filled(@)]
  PROVE  \E e : Goes(c, e) /\ e.saved = dl[c].saved \cup {First(dl[c].left)}
<1>1. PICK d \in Calls : d = dl[c] /\ CallOK(d)
  BY DEF CallsOK
<1>2. /\ d.pc \in Working /\ d.pc = "fill" /\ d.left # {} /\ d.mail \in Mails
      /\ d.left \in SUBSET Nat /\ d.left \subseteq Parts(d.mail)
  BY <1>1 DEF Working, CallOK, Calls
<1>3. PICK i : i = First(d.left) /\ i \in d.left
  BY <1>2, FirstIsThere
<1>4. PICK left \in SUBSET Nat, saved \in SUBSET Nat : left = d.left \ {i} /\ saved = d.saved \cup {i}
  BY <1>2, <1>3 DEF Calls
<1>5. PICK e : e = [d EXCEPT !.pc = "save", !.left = left, !.saved = saved]
  OBVIOUS
<1>6. /\ e \in Calls /\ e.pc = "save" /\ e.asked = d.asked /\ e.mail = d.mail
      /\ e.left = left /\ e.saved = saved /\ e.lost = d.lost
  BY <1>5 DEF Calls, Pcs
<1>7. CallOK(e)
  BY <1>1, <1>2, <1>3, <1>4, <1>6 DEF CallOK, Working
<1>8. Filled(d) = e
  BY <1>3, <1>4, <1>5 DEF Filled, Skipped, Calls
<1>9. dl' = [dl EXCEPT ![c] = e]
  BY <1>1, <1>8
<1> QED
  BY <1>1, <1>2, <1>3, <1>4, <1>6, <1>7, <1>9 DEF Goes, Working

\* The file is opened.
LEMMA OpenGoes ==
  ASSUME CallsOK, NEW c \in Callers, dl[c].pc = "save", dl[c].left # {},
         ~ IsDirectory(NextFile(c)[2]), dl' = [dl EXCEPT ![c].pc = "fill"]
  PROVE  \E e : Goes(c, e) /\ NothingNew(c, e)
<1>1. PICK d \in Calls : d = dl[c] /\ CallOK(d)
  BY DEF CallsOK
<1>2. PICK e : e = [d EXCEPT !.pc = "fill"]
  OBVIOUS
<1>3. /\ e \in Calls /\ e.pc = "fill" /\ e.asked = d.asked /\ e.mail = d.mail
      /\ e.left = d.left /\ e.saved = d.saved /\ e.lost = d.lost
  BY <1>2 DEF Calls, Pcs
<1>4. CallOK(e)
  BY <1>1, <1>3 DEF CallOK, Working, NextFile
<1>5. dl' = [dl EXCEPT ![c] = e]
  BY <1>1, <1>2 DEF CallsOK
<1> QED
  BY <1>1, <1>3, <1>4, <1>5 DEF Goes, NothingNew, Working

LEMMA SavedGoes ==
  ASSUME CallsOK, NEW c \in Callers, Saved(c)
  PROVE  \E e : Goes(c, e) /\ NothingNew(c, e)
<1>1. PICK d \in Calls : d = dl[c] /\ CallOK(d) /\ d.pc = "save" /\ d.left = {}
  BY DEF CallsOK, Saved
<1>2. PICK pc \in {"link", "done"}, left \in SUBSET d.saved :
        dl' = [dl EXCEPT ![c].pc = pc, ![c].left = left]
  <2>1. CASE d.tool = "link"
    BY <1>1, <2>1 DEF Saved
  <2>2. CASE d.tool # "link"
    <3>1. PICK left \in SUBSET d.saved : left = {}
      OBVIOUS
    <3> QED
      BY <1>1, <2>2, <3>1 DEF Saved
  <2> QED
    BY <2>1, <2>2
<1>3. PICK e : e = [d EXCEPT !.pc = pc, !.left = left]
  OBVIOUS
<1>4. /\ e \in Calls /\ e.pc = pc /\ e.asked = d.asked /\ e.mail = d.mail
      /\ e.left = left /\ e.saved = d.saved /\ e.lost = d.lost
  BY <1>3 DEF Calls, Pcs
<1>5. CallOK(e)
  BY <1>1, <1>4 DEF CallOK, Working
<1>6. dl' = [dl EXCEPT ![c] = e]
  BY <1>1, <1>2, <1>3 DEF CallsOK
<1> QED
  BY <1>1, <1>4, <1>5, <1>6 DEF Goes, NothingNew, Working

\* A link is made, or the last one was.
LEMMA LinkGoes ==
  ASSUME CallsOK, NEW c \in Callers, dl[c].pc = "link",
         \/ \E i : dl' = [dl EXCEPT ![c].left = @ \ {i}]
         \/ dl' = [dl EXCEPT ![c].pc = "done"]
  PROVE  \E e : Goes(c, e) /\ NothingNew(c, e)
<1>1. PICK d \in Calls : d = dl[c] /\ CallOK(d) /\ d.pc = "link"
  BY DEF CallsOK
<1>2. PICK pc \in {"link", "done"}, left \in SUBSET d.left :
        dl' = [dl EXCEPT ![c] = [d EXCEPT !.pc = pc, !.left = left]]
  <2>1. CASE \E i : dl' = [dl EXCEPT ![c].left = @ \ {i}]
    <3>1. PICK i : dl' = [dl EXCEPT ![c].left = @ \ {i}]
      BY <2>1
    <3>2. PICK left \in SUBSET d.left : left = d.left \ {i}
      OBVIOUS
    <3>3. [d EXCEPT !.left = @ \ {i}] = [d EXCEPT !.pc = "link", !.left = left]
      BY <1>1, <3>2 DEF Calls
    <3>4. dl' = [dl EXCEPT ![c] = [d EXCEPT !.left = @ \ {i}]]
      BY <1>1, <3>1
    <3> QED
      BY <3>3, <3>4
  <2>2. CASE dl' = [dl EXCEPT ![c].pc = "done"]
    <3>1. PICK left \in SUBSET d.left : left = d.left
      OBVIOUS
    <3>2. [d EXCEPT !.pc = "done"] = [d EXCEPT !.pc = "done", !.left = left]
      BY <3>1 DEF Calls
    <3>3. dl' = [dl EXCEPT ![c] = [d EXCEPT !.pc = "done"]]
      BY <1>1, <2>2
    <3> QED
      BY <3>2, <3>3
  <2> QED
    BY <2>1, <2>2
<1>3. PICK e : e = [d EXCEPT !.pc = pc, !.left = left]
  OBVIOUS
<1>4. /\ e \in Calls /\ e.pc = pc /\ e.asked = d.asked /\ e.mail = d.mail
      /\ e.left = left /\ e.saved = d.saved /\ e.lost = d.lost
  BY <1>3 DEF Calls, Pcs
<1>5. CallOK(e)
  BY <1>1, <1>4 DEF CallOK, Working
<1>6. dl' = [dl EXCEPT ![c] = e]
  BY <1>2, <1>3
<1> QED
  BY <1>1, <1>4, <1>5, <1>6 DEF Goes, NothingNew, Working

LEMMA GoesKeepsCalls ==
  ASSUME CallsOK, NEW c \in Callers, NEW e, Goes(c, e)
  PROVE  CallsOK'
<1>1. dl' \in [Callers -> Calls]
  BY DEF CallsOK, Goes
<1>2. \A d \in Callers : dl'[d] = IF d = c THEN e ELSE dl[d]
  BY DEF CallsOK, Goes
<1>3. \A d \in Callers : CallOK(dl'[d])
  BY <1>2, Zenon DEF CallsOK, Goes
<1> QED
  BY <1>1, <1>3, Zenon DEF CallsOK
-----------------------------------------------------------------------------
\* Another call than c works, or worked, on m.
Shared(c, m) == \E d \in Callers : d # c /\ dl[d].mail = m

\* The file of a saved part: torn only when another call rewrites it.
RightFile(c, m, i) ==
  /\ Files[m][i] \in DOMAIN disk
  /\ \/ disk[Files[m][i]] = Part(m, Leaves[m][i].path)
     \/ disk[Files[m][i]] = Torn /\ Shared(c, m)

Own(m) == {i \in OwnParts[m] : Leaves[m][i].path # <<>>}

FilesOf(c) ==
  dl[c].pc \in Working =>
    \A i \in dl[c].saved \cap Own(dl[c].mail) : RightFile(c, dl[c].mail, i)

FilesOK == \A c \in Callers : FilesOf(c)

PathsOK == \A p \in DOMAIN disk : p[1] \in Directories /\ ~ p[2].dir /\ ~ p[2].odd

\* What a link was made for, some call has saved.
LinksOK ==
  /\ DOMAIN linkOf = Tokens
  /\ \A t \in made : \E c \in Callers :
       dl[c].pc \in Working /\ linkOf[t].mail = dl[c].mail /\ linkOf[t].part \in dl[c].saved

SentOK ==
  /\ DOMAIN sent = Tokens /\ \A t \in Tokens \ made : sent[t] = Missing /\ served[t] = 0
  /\ LinkSendsItsPart

DlInv ==
  FsInv /\ CallsOK /\ FilesOK /\ PathsOK /\ LinksOK /\ SentOK /\ faults \in 0..MaxFaults

\* A mail that was asked for stays asked for.
LEMMA MailsStay ==
  ASSUME CallsOK, NEW c \in Callers, NEW e, Goes(c, e)
  PROVE  /\ \A d \in Callers : dl'[d] = IF d = c THEN e ELSE dl[d]
         /\ \A d \in Callers, m \in Mails : dl[d].mail = m => dl'[d].mail = m
         /\ \A d \in Callers, m \in Mails : Shared(d, m) => Shared(d, m)'
         /\ \A m \in Mails : TwoCallsFor(m) => TwoCallsFor(m)'
<1>1. \A d \in Callers : dl'[d] = IF d = c THEN e ELSE dl[d]
  BY DEF CallsOK, Goes
<1>2. ASSUME NEW m \in Mails, dl[c].mail = m
      PROVE  dl[c].pc # "idle"
  BY <1>2, DownloadsAssumption DEF CallsOK, CallOK
<1>3. \A d \in Callers, m \in Mails : dl[d].mail = m => dl'[d].mail = m
  BY <1>1, <1>2, Zenon DEF Goes
<1> QED
  BY <1>1, <1>3, Zenon DEF Shared, TwoCallsFor

\* What a call's files are after a step.
LEMMA FilesOfNext ==
  ASSUME NEW d \in Callers, NEW m, dl'[d].pc \in Working => dl'[d].mail = m,
         \A i \in dl'[d].saved \cap Own(m) : dl'[d].pc \in Working => RightFile(d, m, i)'
  PROVE  FilesOf(d)'
BY DEF FilesOf

\* A call goes on, and writes no file.
LEMMA FilesKept ==
  ASSUME CallsOK, FilesOK, NEW c \in Callers, NEW e, Goes(c, e), NothingNew(c, e),
         UNCHANGED disk
  PROVE  FilesOK'
<1>1. SUFFICES ASSUME NEW d \in Callers, NEW m, m = dl'[d].mail,
                      NEW i \in dl'[d].saved \cap Own(m), dl'[d].pc \in Working
               PROVE  RightFile(d, m, i)'
  BY FilesOfNext DEF FilesOK
<1>2. dl[d].pc \in Working /\ i \in dl[d].saved /\ m = dl[d].mail
  BY <1>1, MailsStay DEF NothingNew, Goes, Working
<1>3. m \in Mails /\ RightFile(d, m, i)
  BY <1>1, <1>2 DEF FilesOK, FilesOf, CallsOK, CallOK
<1>4. Shared(d, m) => Shared(d, m)'
  BY <1>3, MailsStay
<1> QED
  BY <1>3, <1>4, Zenon DEF RightFile

\* The file of c's next part is emptied, or written: what other calls have saved
\* is torn by c, and no file but this one changes.
LEMMA FilesWritten ==
  ASSUME CallsOK, FilesOK, NEW c \in Callers, dl[c].pc \in {"save", "fill"},
         NEW e, Goes(c, e), NEW m, m = dl[c].mail, NEW n, n = First(dl[c].left),
         n \in dl[c].left, NEW what, Written(Files[m][n], what),
         \/ what = Torn /\ e.saved = dl[c].saved
         \/ what = FetchPart(m, Leaves[m][n]) /\ e.saved = dl[c].saved \cup {n}
  PROVE  FilesOK'
<1>1. /\ m \in Mails /\ n \in Parts(m) /\ n \notin dl[c].saved /\ dl[c].pc \in Working
      /\ dl'[c].mail = m
  BY MailsStay DEF CallsOK, CallOK, Working, Goes
<1>2. SUFFICES ASSUME NEW d \in Callers, NEW k, k = dl'[d].mail,
                      NEW i \in dl'[d].saved \cap Own(k), dl'[d].pc \in Working
               PROVE  RightFile(d, k, i)'
  BY FilesOfNext DEF FilesOK
<1>3. dl[d].pc \in Working /\ k = dl[d].mail /\ k \in Mails
  BY <1>1, <1>2, MailsStay DEF CallsOK, CallOK
<1>4. i \in OwnParts[k] /\ Leaves[k][i].path # <<>>
  BY <1>2 DEF Own
<1>5. CASE Files[k][i] = Files[m][n]
  <2>1. k = m /\ i = n
    BY <1>1, <1>3, <1>4, <1>5, OwnFile
  <2>2. Files[k][i] \in DOMAIN disk' /\ disk'[Files[k][i]] = what
    BY <1>5 DEF Written
  <2>3. CASE what = Torn /\ e.saved = dl[c].saved
    <3>1. d # c
      BY <1>1, <1>2, <2>1, <2>3, MailsStay
    <3>2. Shared(d, k)'
      BY <1>1, <2>1, <3>1 DEF Shared
    <3> QED
      BY <2>2, <2>3, <3>2, Zenon DEF RightFile
  <2>4. CASE what = FetchPart(m, Leaves[m][n])
    <3>1. what = Part(k, Leaves[k][i].path)
      BY <1>4, <2>1, <2>4, Zenon DEF FetchPart
    <3> QED
      BY <2>2, <3>1, Zenon DEF RightFile
  <2> QED
    BY <2>3, <2>4
<1>6. CASE Files[k][i] # Files[m][n]
  <2>1. i \in dl[d].saved
    <3>1. i # n \/ d # c
      BY <1>1, <1>3, <1>6
    <3> QED
      BY <1>2, <3>1, MailsStay
  <2>2. RightFile(d, k, i)
    BY <1>2, <1>3, <2>1 DEF FilesOK, FilesOf
  <2>3. Files[k][i] \in DOMAIN disk' /\ disk'[Files[k][i]] = disk[Files[k][i]]
    BY <1>6, <2>2 DEF Written, RightFile
  <2>4. Shared(d, k) => Shared(d, k)'
    BY <1>3, MailsStay
  <2> QED
    BY <2>2, <2>3, <2>4, Zenon DEF RightFile
<1> QED
  BY <1>5, <1>6

\* A call goes on: the links that are made keep their mail and their part.
LEMMA LinksKept ==
  ASSUME CallsOK, LinksOK, NEW c \in Callers, NEW e, Goes(c, e), UNCHANGED <<made, linkOf>>
  PROVE  LinksOK'
<1>1. ASSUME NEW t \in made
      PROVE  \E d \in Callers : /\ dl'[d].pc \in Working /\ linkOf[t].mail = dl'[d].mail
                                /\ linkOf[t].part \in dl'[d].saved
  <2>1. PICK d \in Callers : /\ dl[d].pc \in Working /\ linkOf[t].mail = dl[d].mail
                             /\ linkOf[t].part \in dl[d].saved
    BY DEF LinksOK
  <2>2. /\ dl'[d].pc \in Working /\ dl'[d].mail = dl[d].mail
        /\ dl[d].saved \subseteq dl'[d].saved
    BY <2>1, MailsStay DEF Goes, Working
  <2> QED
    BY <2>1, <2>2
<1> QED
  BY <1>1 DEF LinksOK

\* What the links of made mails are: a mail, and a part of it.
LEMMA LinksTyped ==
  ASSUME CallsOK, LinksOK, NEW t \in made
  PROVE  /\ linkOf[t].mail \in Mails /\ linkOf[t].part \in Parts(linkOf[t].mail)
         /\ \E c \in Callers : /\ dl[c].pc \in Working /\ linkOf[t].mail = dl[c].mail
                               /\ linkOf[t].part \in dl[c].saved
BY DEF LinksOK, CallsOK, CallOK

LEMMA SentKept ==
  ASSUME CallsOK, LinksOK, SentOK, NEW c \in Callers, NEW e, Goes(c, e),
         UNCHANGED <<made, linkOf, sent, served>>
  PROVE  SentOK'
<1>1. ASSUME NEW t \in made
      PROVE  SendsItsPart(t, linkOf[t].mail, linkOf[t].part)'
  <2>1. PICK m \in Mails, i \in Parts(linkOf[t].mail) : m = linkOf[t].mail /\ i = linkOf[t].part
    BY LinksTyped
  <2>2. SendsItsPart(t, m, i)
    BY <2>1 DEF SentOK, LinkSendsItsPart
  <2>3. SendsItsPart(t, m, i)'
    BY <2>2, MailsStay, Zenon DEF SendsItsPart
  <2>4. linkOf'[t].mail = m /\ linkOf'[t].part = i
    BY <2>1
  <2> QED
    BY <2>3, <2>4, Zenon
<1>2. LinkSendsItsPart'
  BY <1>1 DEF LinkSendsItsPart
<1> QED
  BY <1>2 DEF SentOK

LEMMA PathsWritten ==
  ASSUME PathsOK, NEW m \in Mails, NEW i \in Parts(m), NEW what, Written(Files[m][i], what)
  PROVE  PathsOK'
<1>1. DOMAIN disk' = DOMAIN disk \cup {Files[m][i]}
  BY DEF Written
<1> QED
  BY <1>1, FilesTyped, Zenon DEF PathsOK

FaultsOK == faults' \in 0..MaxFaults

LEMMA FaultCounts ==
  ASSUME faults \in 0..MaxFaults, Fault \/ UNCHANGED faults
  PROVE  FaultsOK
BY DownloadsAssumption DEF Fault, FaultsOK

-----------------------------------------------------------------------------
\* What a step of a call that makes no link leaves of the invariant.
LEMMA QuietStep ==
  ASSUME DlInv, NEW c \in Callers, NEW e, Goes(c, e), FilesOK', PathsOK',
         Fault \/ UNCHANGED faults, UNCHANGED <<fsVars, linkOf, sent>>
  PROVE  DlInv'
<1>1. UNCHANGED <<made, served>>
  BY DEF fsVars
<1>2. CallsOK' /\ LinksOK' /\ SentOK'
  BY <1>1, GoesKeepsCalls, LinksKept, SentKept DEF DlInv
<1>3. FsInv'
  BY FsInvStep DEF DlInv
<1>4. faults' \in 0..MaxFaults
  BY FaultCounts DEF DlInv, FaultsOK
<1> QED
  BY <1>2, <1>3, <1>4 DEF DlInv

LEMMA AskStep ==
  ASSUME DlInv, NEW c \in Callers, NEW m \in Mails, NEW tool \in {"link", "files"},
         Ask(c, m, tool)
  PROVE  DlInv'
<1>1. UNCHANGED <<fsVars, disk, linkOf, sent, faults>>
  BY DEF Ask
<1>2. PICK e : Goes(c, e) /\ NothingNew(c, e)
  BY AskGoes DEF DlInv
<1>3. FilesOK' /\ PathsOK'
  BY <1>1, <1>2, FilesKept DEF DlInv, PathsOK
<1> QED
  BY <1>1, <1>2, <1>3, QuietStep

LEMMA PrepareStep ==
  ASSUME DlInv, NEW c \in Callers, Prepare(c)
  PROVE  DlInv'
<1>1. UNCHANGED <<fsVars, disk, linkOf, sent>> /\ (Fault \/ UNCHANGED faults)
  BY DEF Prepare
<1>2. PICK e : Goes(c, e) /\ NothingNew(c, e)
  BY PrepareGoes DEF DlInv
<1>3. FilesOK' /\ PathsOK'
  BY <1>1, <1>2, FilesKept DEF DlInv, PathsOK
<1> QED
  BY <1>1, <1>2, <1>3, QuietStep

\* The part a call works on.
LEMMA NextIsAPart ==
  ASSUME CallsOK, NEW c \in Callers, dl[c].pc \in {"save", "fill"}, dl[c].left # {}
  PROVE  /\ dl[c].pc \in Working /\ dl[c].mail \in Mails
         /\ First(dl[c].left) \in dl[c].left /\ First(dl[c].left) \in Parts(dl[c].mail)
<1>1. dl[c].pc \in Working /\ dl[c].mail \in Mails /\ dl[c].left \subseteq Parts(dl[c].mail)
  BY DEF CallsOK, CallOK, Working
<1>2. dl[c].left \in SUBSET Nat
  BY DEF CallsOK, Calls
<1> QED
  BY <1>1, <1>2, FirstIsThere

LEMMA SkipStep ==
  ASSUME DlInv, NEW c \in Callers, dl[c].pc \in {"save", "fill"}, dl[c].left # {},
         NEW lost \in BOOLEAN, lost \/ IsDirectory(NextFile(c)[2]),
         dl' = [dl EXCEPT ![c] = Skipped(@, lost)],
         Fault \/ UNCHANGED faults, UNCHANGED <<fsVars, disk, linkOf, sent>>
  PROVE  DlInv'
<1>1. PICK e : Goes(c, e) /\ NothingNew(c, e)
  BY SkipGoes DEF DlInv
<1>2. FilesOK' /\ PathsOK'
  BY <1>1, FilesKept DEF DlInv, PathsOK
<1> QED
  BY <1>1, <1>2, QuietStep

LEMMA OpenStep ==
  ASSUME DlInv, NEW c \in Callers, OpenFile(c)
  PROVE  DlInv'
<1>1. /\ dl[c].pc = "save" /\ dl[c].left # {} /\ UNCHANGED <<fsVars, linkOf, sent>>
      /\ Fault \/ UNCHANGED faults
  BY DEF OpenFile
<1>2. CASE /\ ~ IsDirectory(NextFile(c)[2]) /\ Written(NextFile(c), Torn)
           /\ dl' = [dl EXCEPT ![c].pc = "fill"]
  <2>1. PICK e : Goes(c, e) /\ NothingNew(c, e)
    BY <1>1, <1>2, OpenGoes DEF DlInv
  <2>2. PICK m, n : /\ m = dl[c].mail /\ n = First(dl[c].left) /\ n \in dl[c].left
                    /\ m \in Mails /\ n \in Parts(m) /\ dl[c].pc \in Working
    BY <1>1, NextIsAPart DEF DlInv
  <2>3. Written(Files[m][n], Torn)
    BY <1>2, <2>2 DEF NextFile
  <2>4. e.saved = dl[c].saved
    <3>1. \A d \in Calls : [d EXCEPT !.pc = "fill"].saved = d.saved
      BY DEF Calls
    <3>2. dl'[c] = e /\ dl'[c] = [dl[c] EXCEPT !.pc = "fill"] /\ dl[c] \in Calls
      BY <1>2, <2>1 DEF Goes, DlInv, CallsOK
    <3> QED
      BY <3>1, <3>2
  <2>5. FilesOK'
    BY <1>1, <2>1, <2>2, <2>3, <2>4, FilesWritten DEF DlInv
  <2>6. PathsOK'
    BY <2>2, <2>3, PathsWritten DEF DlInv
  <2> QED
    BY <1>1, <2>1, <2>5, <2>6, QuietStep
<1>3. CASE \E lost \in BOOLEAN : /\ lost \/ IsDirectory(NextFile(c)[2])
                                 /\ dl' = [dl EXCEPT ![c] = Skipped(@, lost)]
                                 /\ UNCHANGED disk
  BY <1>1, <1>3, SkipStep
<1> QED
  BY <1>2, <1>3, Zenon DEF OpenFile

LEMMA FillStep ==
  ASSUME DlInv, NEW c \in Callers, FillFile(c)
  PROVE  DlInv'
<1>1. /\ dl[c].pc = "fill" /\ dl[c].left # {} /\ UNCHANGED <<fsVars, linkOf, sent>>
      /\ Fault \/ UNCHANGED faults
  BY DEF FillFile, DlInv, CallsOK, CallOK
<1>2. PICK m, n : /\ m = dl[c].mail /\ n = First(dl[c].left) /\ n \in dl[c].left
                  /\ m \in Mails /\ n \in Parts(m)
  BY <1>1, NextIsAPart DEF DlInv
<1>3. CASE Written(NextFile(c), FetchPart(m, Leaves[m][n])) /\ dl' = [dl EXCEPT ![c] = Filled(@)]
  <2>1. PICK e : Goes(c, e) /\ e.saved = dl[c].saved \cup {n}
    BY <1>1, <1>2, <1>3, FillGoes DEF DlInv
  <2>2. Written(Files[m][n], FetchPart(m, Leaves[m][n]))
    BY <1>2, <1>3 DEF NextFile
  <2>3. FilesOK'
    BY <1>1, <1>2, <2>1, <2>2, FilesWritten DEF DlInv
  <2>4. PathsOK'
    BY <1>2, <2>2, PathsWritten DEF DlInv
  <2> QED
    BY <1>1, <2>1, <2>3, <2>4, QuietStep
<1>4. CASE dl' = [dl EXCEPT ![c] = Skipped(@, TRUE)] /\ UNCHANGED disk
  BY <1>1, <1>4, SkipStep
<1> QED
  BY <1>2, <1>3, <1>4, Zenon DEF FillFile

LEMMA SavedStep ==
  ASSUME DlInv, NEW c \in Callers, Saved(c) \/ LinksMade(c)
  PROVE  DlInv'
<1>1. UNCHANGED <<fsVars, disk, linkOf, sent, faults>>
  BY DEF Saved, LinksMade
<1>2. PICK e : Goes(c, e) /\ NothingNew(c, e)
  BY SavedGoes, LinkGoes DEF DlInv, LinksMade
<1>3. FilesOK' /\ PathsOK'
  BY <1>1, <1>2, FilesKept DEF DlInv, PathsOK
<1> QED
  BY <1>1, <1>2, <1>3, QuietStep

\* The link t is made, for a part that c has saved.
LEMMA LinkFileStep ==
  ASSUME DlInv, NEW c \in Callers, NEW t \in Tokens, LinkFile(c, t)
  PROVE  DlInv'
<1> DEFINE i == First(dl[c].left)
<1>1. /\ dl[c].pc = "link" /\ dl[c].left # {} /\ UNCHANGED <<disk, sent, faults>>
      /\ t \notin made /\ made' = made \cup {t} /\ UNCHANGED served
      /\ linkOf' = [linkOf EXCEPT ![t] = [mail |-> dl[c].mail, part |-> i]]
  BY DEF LinkFile, CreateLink
<1>2. PICK e : Goes(c, e) /\ NothingNew(c, e)
  BY <1>1, LinkGoes DEF LinkFile, DlInv
<1>3. i \in dl[c].saved /\ dl[c].mail \in Mails /\ dl[c].pc \in Working
  <2>1. dl[c].left \in SUBSET Nat /\ dl[c].left \subseteq dl[c].saved /\ dl[c].mail \in Mails
    BY <1>1 DEF DlInv, CallsOK, CallOK, Calls, Working
  <2> QED
    BY <1>1, <2>1, FirstIsThere DEF Working
<1> HIDE DEF i
<1>4. CallsOK' /\ FilesOK' /\ PathsOK'
  BY <1>1, <1>2, FilesKept, GoesKeepsCalls DEF DlInv, PathsOK
<1>5. FsInv'
  <2>1. FsNext
    BY DEF LinkFile, FsNext
  <2> QED
    BY <2>1, FsInvStep DEF DlInv
<1>6. /\ DOMAIN linkOf' = Tokens /\ linkOf'[t].mail = dl[c].mail /\ linkOf'[t].part = i
      /\ \A u \in made : linkOf'[u] = linkOf[u]
  BY <1>1 DEF DlInv, LinksOK
<1>7. LinksOK'
  <2>1. ASSUME NEW u \in made'
        PROVE  \E d \in Callers : /\ dl'[d].pc \in Working /\ linkOf'[u].mail = dl'[d].mail
                                  /\ linkOf'[u].part \in dl'[d].saved
    <3>1. PICK d \in Callers : /\ dl[d].pc \in Working /\ linkOf'[u].mail = dl[d].mail
                               /\ linkOf'[u].part \in dl[d].saved
      BY <1>1, <1>3, <1>6 DEF DlInv, LinksOK
    <3>2. /\ dl'[d].pc \in Working /\ dl'[d].mail = dl[d].mail
          /\ dl[d].saved \subseteq dl'[d].saved
      BY <1>2, <3>1, MailsStay DEF Goes, Working, DlInv
    <3> QED
      BY <3>1, <3>2
  <2> QED
    BY <1>6, <2>1 DEF LinksOK
<1>8. SentOK'
  <2>1. ASSUME NEW u \in made'
        PROVE  SendsItsPart(u, linkOf[u].mail, linkOf[u].part)'
    <3>1. CASE u = t
      <4>1. sent'[t] = Missing /\ served'[t] = 0
        BY <1>1 DEF DlInv, SentOK
      <4> QED
        BY <3>1, <4>1, Zenon DEF SendsItsPart
    <3>2. CASE u \in made
      <4>1. PICK m \in Mails, j \in Parts(linkOf[u].mail) : m = linkOf[u].mail /\ j = linkOf[u].part
        BY <3>2, LinksTyped DEF DlInv
      <4>2. SendsItsPart(u, m, j)
        BY <3>2, <4>1 DEF DlInv, SentOK, LinkSendsItsPart
      <4>3. TwoCallsFor(m) => TwoCallsFor(m)'
        BY <1>2, MailsStay DEF DlInv
      <4>4. SendsItsPart(u, m, j)'
        BY <1>1, <4>2, <4>3, Zenon DEF SendsItsPart
      <4>5. linkOf'[u].mail = m /\ linkOf'[u].part = j
        BY <1>6, <3>2, <4>1
      <4> QED
        BY <4>4, <4>5, Zenon
    <3> QED
      BY <1>1, <3>1, <3>2
  <2>2. LinkSendsItsPart'
    BY <2>1 DEF LinkSendsItsPart
  <2> QED
    BY <1>1, <2>2 DEF SentOK, DlInv
<1>9. faults' \in 0..MaxFaults
  BY <1>1 DEF DlInv
<1> QED
  BY <1>4, <1>5, <1>7, <1>8, <1>9 DEF DlInv

\* A handler sends what the file of its link holds: the part, or what a second call
\* for the mail has left of it.
LEMMA ServeFileStep ==
  ASSUME DlInv, NEW r \in Requests, ServeFile(r)
  PROVE  DlInv'
<1> DEFINE t == req[r].token
<1>1. /\ Serve(r) /\ UNCHANGED <<disk, linkOf, dl, faults>>
      /\ sent' = IF Expired(t, clock) \/ LinkedFile(t)[2].stem = "index.html" THEN sent
                 ELSE [sent EXCEPT ![t] = OnDisk(LinkedFile(t))]
  BY DEF ServeFile
<1>2. /\ t \in made /\ t \in Tokens /\ UNCHANGED made
      /\ served' = IF Expired(t, clock) THEN served ELSE [served EXCEPT ![t] = @ + 1]
      /\ served \in [Tokens -> Nat] /\ made \subseteq Tokens
  BY <1>1 DEF Serve, DlInv, FsInv, FsTypeOK, Unmade
<1> HIDE DEF t
<1>3. CallsOK' /\ FilesOK' /\ PathsOK' /\ LinksOK' /\ faults' \in 0..MaxFaults
  BY <1>1, <1>2 DEF DlInv, CallsOK, FilesOK, FilesOf, RightFile, Shared, PathsOK, LinksOK
<1>4. FsInv'
  <2>1. FsNext
    BY <1>1 DEF FsNext
  <2> QED
    BY <2>1, FsInvStep DEF DlInv
<1>5. DOMAIN sent = Tokens /\ DOMAIN sent' = Tokens
  BY <1>1, <1>2 DEF DlInv, SentOK
<1>6. \A u \in Tokens : u # t => sent'[u] = sent[u] /\ served'[u] = served[u]
  BY <1>1, <1>2, <1>5
<1>7. ASSUME NEW u \in made
      PROVE  SendsItsPart(u, linkOf[u].mail, linkOf[u].part)'
  <2>1. PICK m \in Mails, i \in Parts(linkOf[u].mail) :
          /\ m = linkOf[u].mail /\ i = linkOf[u].part
          /\ \E c \in Callers : dl[c].pc \in Working /\ m = dl[c].mail /\ i \in dl[c].saved
    BY LinksTyped DEF DlInv
  <2>2. SendsItsPart(u, m, i)
    BY <2>1 DEF DlInv, SentOK, LinkSendsItsPart
  <2>3. UNCHANGED TwoCallsFor(m)
    BY <1>1 DEF TwoCallsFor
  <2>4. CASE sent'[u] = sent[u] /\ served'[u] = served[u]
    <3>1. SendsItsPart(u, m, i)'
      BY <2>2, <2>3, <2>4, Zenon DEF SendsItsPart
    <3> QED
      BY <1>1, <2>1, <3>1, Zenon
  <2>5. CASE u = t /\ ~ Expired(t, clock) /\ LinkedFile(t)[2].stem = "index.html"
    <3>1. sent'[u] = sent[u] /\ Files[m][i][2].stem = "index.html"
      BY <1>1, <2>1, <2>5 DEF LinkedFile
    <3>2. SendsItsPart(u, m, i)'
      BY <2>2, <2>3, <3>1, Zenon DEF SendsItsPart
    <3> QED
      BY <1>1, <2>1, <3>2, Zenon
  <2>6. CASE u = t /\ ~ Expired(t, clock) /\ LinkedFile(t)[2].stem # "index.html"
    <3>1. sent'[u] = OnDisk(Files[m][i])
      BY <1>1, <1>2, <1>5, <2>1, <2>6 DEF LinkedFile
    <3>2. ASSUME i \in OwnParts[m], Leaves[m][i].path # <<>>
          PROVE  \/ sent'[u] = Part(m, Leaves[m][i].path)
                 \/ sent'[u] = Torn /\ TwoCallsFor(m)'
      <4>1. PICK c \in Callers : dl[c].pc \in Working /\ m = dl[c].mail /\ i \in dl[c].saved
        BY <2>1
      <4>2. RightFile(c, m, i)
        BY <3>2, <4>1 DEF DlInv, FilesOK, FilesOf, Own
      <4>3. sent'[u] = disk[Files[m][i]]
        BY <3>1, <4>2 DEF RightFile, OnDisk
      <4>4. Shared(c, m) => TwoCallsFor(m)
        BY <4>1 DEF Shared, TwoCallsFor
      <4> QED
        BY <2>3, <4>2, <4>3, <4>4, Zenon DEF RightFile
    <3>3. SendsItsPart(u, m, i)'
      BY <3>2, Zenon DEF SendsItsPart
    <3> QED
      BY <1>1, <2>1, <3>3, Zenon
  <2>7. u # t => sent'[u] = sent[u] /\ served'[u] = served[u]
    BY <1>2, <1>6
  <2>8. Expired(t, clock) => sent'[u] = sent[u] /\ served'[u] = served[u]
    BY <1>1, <1>2
  <2> QED
    BY <2>4, <2>5, <2>6, <2>7, <2>8, Zenon
<1>8. SentOK'
  <2>1. LinkSendsItsPart'
    BY <1>2, <1>7 DEF LinkSendsItsPart
  <2>2. \A u \in Tokens \ made : sent'[u] = Missing /\ served'[u] = 0
    BY <1>2, <1>6 DEF DlInv, SentOK
  <2> QED
    BY <1>2, <1>5, <2>1, <2>2 DEF SentOK
<1> QED
  BY <1>3, <1>4, <1>8 DEF DlInv

LEMMA OtherStep ==
  ASSUME DlInv, UNCHANGED dlVars,
         \/ UNCHANGED fsVars \/ Pass \/ PurgeBegin \/ PurgeExpired
         \/ \E r \in Requests, t \in Tokens : Request(r, t)
         \/ \E r \in Requests : Claim(r)
  PROVE  DlInv'
<1>1. [FsNext]_fsVars
  BY DEF FsNext
<1>2. FsInv'
  BY <1>1, FsInvStep DEF DlInv
<1>3. UNCHANGED <<disk, linkOf, sent, dl, faults>>
  BY DEF dlVars
<1>4. UNCHANGED <<made, served>>
  BY DEF fsVars, Pass, PurgeBegin, PurgeExpired, Request, Claim
<1>5. CallsOK' /\ FilesOK' /\ PathsOK' /\ LinksOK' /\ faults' \in 0..MaxFaults
  BY <1>3, <1>4 DEF DlInv, CallsOK, FilesOK, FilesOf, RightFile, Shared, PathsOK, LinksOK
<1>6. SentOK'
  BY <1>3, <1>4 DEF DlInv, SentOK, LinkSendsItsPart, SendsItsPart, TwoCallsFor
<1> QED
  BY <1>2, <1>5, <1>6 DEF DlInv

LEMMA DlInitInv == DlInit => DlInv
<1> SUFFICES ASSUME DlInit PROVE DlInv
  OBVIOUS
<1>1. FsInv
  BY FsInitInv DEF DlInit
<1>2. dl = [c \in Callers |-> Idle] /\ Idle.pc \notin Working
  BY IdleIsACall DEF DlInit, Working
<1>3. CallsOK
  BY <1>2, IdleIsACall DEF CallsOK
<1>4. FilesOK
  BY <1>2 DEF FilesOK, FilesOf
<1>5. made = {} /\ served = [t \in Tokens |-> 0]
  BY DEF DlInit, FsInit
<1>6. PathsOK /\ LinksOK /\ SentOK
  BY <1>5 DEF DlInit, PathsOK, LinksOK, SentOK, LinkSendsItsPart
<1>7. faults \in 0..MaxFaults
  BY DownloadsAssumption DEF DlInit
<1> QED
  BY <1>1, <1>3, <1>4, <1>6, <1>7 DEF DlInv

LEMMA DlInvStep == DlInv /\ [DlNext]_allVars => DlInv'
<1> SUFFICES ASSUME DlInv, [DlNext]_allVars PROVE DlInv'
  OBVIOUS
<1>1. ASSUME NEW c \in Callers, NEW m \in Mails, NEW tool \in {"link", "files"}, Ask(c, m, tool)
      PROVE  DlInv'
  BY <1>1, AskStep
<1>2. ASSUME NEW c \in Callers, DlStep(c)
      PROVE  DlInv'
  BY <1>2, PrepareStep, OpenStep, FillStep, SavedStep, LinkFileStep DEF DlStep
<1>3. ASSUME NEW r \in Requests, ServeFile(r)
      PROVE  DlInv'
  BY <1>3, ServeFileStep
<1>4. CASE UNCHANGED allVars
  BY <1>4, OtherStep DEF allVars
<1> QED
  BY <1>1, <1>2, <1>3, <1>4, OtherStep DEF DlNext

LEMMA DlInvariant == DlSpec => []DlInv
  BY DlInitInv, DlInvStep, PTL DEF DlSpec

\* Where calls, files and links are, for any mails and any structure of each
\* (DownloadForEmail, handleGetDownloadLink).
THEOREM DownloadsTyped == DlSpec => []DlTypeOK
<1>1. DlInv => DlTypeOK
  BY LinksTyped DEF DlInv, FsInv, PathsOK, CallsOK, CallOK, Calls, Pcs, Working, DlTypeOK
<1> QED
  BY <1>1, DlInvariant, PTL

\* A call works on the mail whose id it was given, for any account, folder and UID
\* of any characters, as long as no account id has a colon (buildEntry writes ids,
\* handleDownloadAttachments and parseEmailID read them).
THEOREM IdsNameTheirMail ==
  ASSUME NEW Chars, ":" \in Chars, Mails \subseteq Texts(Chars),
         \A m \in Mails : Colons(m.uid) = {}
  PROVE  DlSpec => []IdsComeApart
<1>1. DlInv => IdsComeApart
  <2> SUFFICES ASSUME DlInv, NEW c \in Callers, dl[c].pc # "idle",
                      Colons(dl[c].asked.account) = {}
               PROVE  dl[c].mail = dl[c].asked
    BY DEF IdsComeApart
  <2>1. dl[c].asked \in Mails /\ dl[c].mail = ParseEmailID(Format(dl[c].asked))
    BY DEF DlInv, CallsOK, CallOK
  <2>2. dl[c].asked \in Texts(Chars) /\ Colons(dl[c].asked.uid) = {}
    BY <2>1
  <2>3. ParseEmailID(Format(dl[c].asked)) = dl[c].asked
    BY <2>2, ParsedIsFormatted
  <2> QED
    BY <2>1, <2>3
<1> QED
  BY <1>1, DlInvariant, PTL

\* A download that lost no part to a fault has saved every attachment the import
\* lists, for any structure of any mail: a leaf the one walk takes the other does
\* not pass by (extractAttachments, walkParts, saveAttachmentPart).
THEOREM NothingListedIsLeftOut == DlSpec => []ListedAreSaved
<1>1. DlInv => ListedAreSaved
  <2> SUFFICES ASSUME DlInv, NEW c \in Callers, dl[c].pc = "done", ~ dl[c].lost,
                      NEW i \in Owed(dl[c].mail)
               PROVE  i \in dl[c].saved
    BY DEF ListedAreSaved, Owed
  <2> QED
    BY DEF DlInv, CallsOK, CallOK, Working
<1> QED
  BY <1>1, DlInvariant, PTL

\* Whatever calls write the files at the same time, a link sends its own part: the
\* bytes of the leaf it was made for, once its name is nobody else's after cleaning
\* (saveAttachmentPart, fetchPart, handleDownload).
THEOREM LinksSendTheirPart == DlSpec => []LinkSendsItsPart
<1>1. DlInv => LinkSendsItsPart
  BY DEF DlInv, SentOK
<1> QED
  BY <1>1, DlInvariant, PTL
=============================================================================
