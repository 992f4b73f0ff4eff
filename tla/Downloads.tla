----------------------------- MODULE Downloads -----------------------------
(***************************************************************************)
(* From an email id to a file and a link: get_download_link,               *)
(* download_attachments and the "attachments" command over                 *)
(* attachment.DownloadForEmail, with the files on disk and the download    *)
(* server of FileServer.                                                   *)
(*                                                                         *)
(* A mail is the triple an id is made of, with text as sequences of        *)
(* characters; a message is the sequence of its BODYSTRUCTURE's leaves.    *)
(***************************************************************************)
EXTENDS FileServer, Sequences

CONSTANTS
  Mails,      \* mails: [account, folder, uid], sequences of characters
  Leaves,     \* Leaves[m]: the leaves of m's BODYSTRUCTURE in the order of a walk
  Callers,    \* the calls
  Tools,      \* what each may be: "link" (get_download_link), "files" (the others)
  MaxFaults,  \* bound on failing connections, fetches and writes
  Missing,    \* no file
  Torn,       \* a file that is truncated and not written yet
  NoMail      \* no mail

Name == [stem : STRING, dir : BOOLEAN, odd : BOOLEAN]

Leaf == [path : Seq(Nat), attachment : BOOLEAN, text : BOOLEAN, name : Name]

ASSUME DownloadsAssumption ==
  /\ Leaves \in [Mails -> Seq(Leaf)] /\ NoMail \notin Mails
  /\ Tools \in [Callers -> SUBSET {"link", "files"}] /\ MaxFaults \in Nat

VARIABLES
  disk,       \* disk[p]: what is in the file p: Missing, Torn, or a leaf's bytes
  linkOf,     \* linkOf[t]: the mail and the leaf (its place) of the link t
  sent,       \* sent[t]: what was sent for t
  dl,         \* dl[c]: the call c
  faults

dlVars == <<disk, linkOf, sent, dl, faults>>

allVars == <<fsVars, dlVars>>

Whole == <<0>>         \* "path" of the bytes of a whole message

-----------------------------------------------------------------------------
\* The id: account, folder and UID, joined with colons.
Format(m) == m.account \o <<":">> \o m.folder \o <<":">> \o m.uid

Colons(id) == {i \in DOMAIN id : id[i] = ":"}

\* Mutant: the second colon is looked for from the right, too.
ColonFromRight(cs) ==
  CHOOSE i \in cs : Cardinality({j \in cs : j > i}) = 1

\* The account ends at the first colon ...
AccountColon(cs) == CHOOSE i \in cs : \A j \in cs : i <= j

\* ... and the UID begins after the last.
UidColon(cs) == CHOOSE i \in cs : \A j \in cs : j <= i

ParseEmailID(id) ==
  LET first == AccountColon(Colons(id))
      last  == UidColon(Colons(id))
  IN  [account |-> SubSeq(id, 1, first - 1),
       folder  |-> SubSeq(id, first + 1, last - 1),
       uid     |-> SubSeq(id, last + 1, Len(id))]

Accounts == {m.account : m \in Mails}

\* Mutant: the folder is not part of the directory's name.
FlatDirectory(m) == m.account \o <<"_">> \o m.uid

\* sanitizeDirName(account_folder_uid).
Directory(m) ==
  LET s == m.account \o <<"_">> \o m.folder \o <<"_">> \o m.uid
  IN  [i \in DOMAIN s |-> IF s[i] \in {":", "/", "\\", " "} THEN "_" ELSE s[i]]

-----------------------------------------------------------------------------
\* A leaf: [path, attachment, text, name]; a name: [stem, dir, odd], where dir says
\* that it begins with directories, odd that it has a character that is replaced.
NoStem == "no name"
NoName == [stem |-> NoStem, dir |-> FALSE, odd |-> FALSE]

\* Mutant: only the characters are replaced.
KeepDirectories(n) ==
  [n EXCEPT !.stem = IF n.stem = NoStem THEN "." ELSE n.stem, !.odd = FALSE]

\* filepath.Base of the empty name is "."; the rest of the name is cleaned.
SanitizeFilename(n) ==
  [stem |-> IF n.stem = NoStem THEN "." ELSE n.stem, dir |-> FALSE, odd |-> FALSE]

\* A directory cannot be opened for writing.
IsDirectory(n) == n.stem \in {".", ".."}

\* What extractAttachments lists at import.
Listed(leaf) == leaf.attachment

\* Mutant: text is never an attachment.
FetchedNonText(leaf) == ~ leaf.text /\ leaf.path # <<>>

\* What walkParts downloads.
Fetched(leaf) == leaf.attachment \/ (~ leaf.text /\ leaf.path # <<>>)

Parts(m) == {i \in DOMAIN Leaves[m] : Fetched(Leaves[m][i])}

\* Files[m][i]: where the part i of m is saved.
Files ==
  [m \in Mails |-> [i \in Parts(m) |-> <<Directory(m), SanitizeFilename(Leaves[m][i].name)>>]]

\* The parts are worked on in the order of the walk.
First(left) == CHOOSE i \in left : \A j \in left : i <= j

Part(m, path) == [mail |-> m, path |-> path]

\* Mutant: the paths of one multipart's children share their storage.
FetchAliased(m, leaf) == Part(m, Leaves[m][Len(Leaves[m])].path)

\* fetchPart and decodeTransfer.  BODY[] of the empty path is the whole message,
\* which does not decode and is stored raw.
FetchPart(m, leaf) == Part(m, IF leaf.path = <<>> THEN Whole ELSE leaf.path)

-----------------------------------------------------------------------------
\* A call: the parts that are left, the parts saved, whether one was left out.
Idle == [pc |-> "idle", tool |-> "none", asked |-> NoMail, mail |-> NoMail, left |-> {},
         saved |-> {}, lost |-> FALSE]

DlInit ==
  /\ FsInit
  /\ disk = [p \in {} |-> Missing]
  /\ linkOf = [t \in Tokens |-> <<>>]
  /\ sent = [t \in Tokens |-> Missing]
  /\ dl = [c \in Callers |-> Idle]
  /\ faults = 0

Fault ==
  /\ faults < MaxFaults
  /\ faults' = faults + 1

OnDisk(p) == IF p \in DOMAIN disk THEN disk[p] ELSE Missing

Written(p, what) ==
  disk' = [q \in DOMAIN disk \cup {p} |-> IF q = p THEN what ELSE disk[q]]

\* A call with the id of a mail.  An account that is not configured is an error.
Ask(c, m, tool) ==
  LET target == ParseEmailID(Format(m))
  IN  /\ dl[c].pc = "idle" /\ tool \in Tools[c]
      /\ dl' = [dl EXCEPT ![c] =
                  [Idle EXCEPT !.tool = tool, !.asked = m, !.mail = target,
                     !.pc = IF target.account \in Accounts THEN "connect" ELSE "error"]]
      /\ UNCHANGED <<fsVars, disk, linkOf, sent, faults>>

\* prepareIMAPForEmail: connect, SELECT, FETCH BODYSTRUCTURE.
Prepare(c) ==
  LET m == dl[c].mail
  IN  /\ dl[c].pc = "connect"
      /\ \/ /\ dl' = [dl EXCEPT ![c].pc = IF m \in Mails THEN "save" ELSE "error",
                                ![c].left = IF m \in Mails THEN Parts(m) ELSE {}]
            /\ UNCHANGED faults
         \/ /\ Fault
            /\ dl' = [dl EXCEPT ![c].pc = "error"]
      /\ UNCHANGED <<fsVars, disk, linkOf, sent>>

\* The next part is left out.
Skipped(d, lost) ==
  [d EXCEPT !.pc = "save", !.left = @ \ {First(@)}, !.lost = @ \/ lost]

\* The next part is saved.
Filled(d) == [Skipped(d, FALSE) EXCEPT !.saved = @ \cup {First(d.left)}]

NextFile(c) == Files[dl[c].mail][First(dl[c].left)]

\* saveAttachmentPart: fetch and decode; WriteFile opens the file, which empties it.
OpenFile(c) ==
  LET p == NextFile(c)
  IN  /\ dl[c].pc = "save" /\ dl[c].left # {}
      /\ \/ /\ ~ IsDirectory(p[2])
            /\ Written(p, Torn)
            /\ dl' = [dl EXCEPT ![c].pc = "fill"]
            /\ UNCHANGED faults
         \/ /\ IsDirectory(p[2])
            /\ dl' = [dl EXCEPT ![c] = Skipped(@, FALSE)]
            /\ UNCHANGED <<disk, faults>>
         \/ /\ Fault
            /\ dl' = [dl EXCEPT ![c] = Skipped(@, TRUE)]
            /\ UNCHANGED disk
      /\ UNCHANGED <<fsVars, linkOf, sent>>

\* ... and writes it, or fails to.
FillFile(c) ==
  LET m == dl[c].mail
      i == First(dl[c].left)
  IN  /\ dl[c].pc = "fill"
      /\ \/ /\ Written(NextFile(c), FetchPart(m, Leaves[m][i]))
            /\ dl' = [dl EXCEPT ![c] = Filled(@)]
            /\ UNCHANGED faults
         \/ /\ Fault
            /\ dl' = [dl EXCEPT ![c] = Skipped(@, TRUE)]
            /\ UNCHANGED disk
      /\ UNCHANGED <<fsVars, linkOf, sent>>

\* All parts are done: the files are the answer, or links to them.
Saved(c) ==
  /\ dl[c].pc = "save" /\ dl[c].left = {}
  /\ dl' = [dl EXCEPT ![c].pc = IF dl[c].tool = "link" THEN "link" ELSE "done",
                      ![c].left = IF dl[c].tool = "link" THEN dl[c].saved ELSE {}]
  /\ UNCHANGED <<fsVars, disk, linkOf, sent, faults>>

LinkFile(c, t) ==
  LET i == First(dl[c].left)
  IN  /\ dl[c].pc = "link" /\ dl[c].left # {}
      /\ CreateLink(t)
      /\ linkOf' = [linkOf EXCEPT ![t] = [mail |-> dl[c].mail, part |-> i]]
      /\ dl' = [dl EXCEPT ![c].left = @ \ {i}]
      /\ UNCHANGED <<disk, sent, faults>>

LinksMade(c) ==
  /\ dl[c].pc = "link" /\ dl[c].left = {}
  /\ dl' = [dl EXCEPT ![c].pc = "done"]
  /\ UNCHANGED <<fsVars, disk, linkOf, sent, faults>>

LinkedFile(t) == Files[linkOf[t].mail][linkOf[t].part]

\* http.ServeFile sends what the file holds now; an URL that ends in "index.html"
\* it redirects, and the token is gone when the browser follows.
ServeFile(r) ==
  LET t == req[r].token
      p == LinkedFile(t)
  IN  /\ Serve(r)
      /\ sent' = IF Expired(t, clock) \/ p[2].stem = "index.html" THEN sent
                 ELSE [sent EXCEPT ![t] = OnDisk(p)]
      /\ UNCHANGED <<disk, linkOf, dl, faults>>

DlStep(c) ==
  \/ Prepare(c) \/ OpenFile(c) \/ FillFile(c) \/ Saved(c) \/ LinksMade(c)
  \/ \E t \in Tokens : LinkFile(c, t)

DlNext ==
  \/ \E c \in Callers :
       \/ \E m \in Mails, tool \in {"link", "files"} : Ask(c, m, tool)
       \/ DlStep(c)
  \/ \E r \in Requests : ServeFile(r)
  \/ /\ \/ Pass \/ PurgeBegin \/ PurgeExpired
        \/ \E r \in Requests, t \in Tokens : Request(r, t)
        \/ \E r \in Requests : Claim(r)
     /\ UNCHANGED dlVars

DlSpec == DlInit /\ [][DlNext]_allVars

\* The purge ticker goes on.
DlFairSpec ==
  /\ DlSpec
  /\ WF_allVars(PurgeBegin /\ UNCHANGED dlVars)
  /\ WF_allVars(PurgeExpired /\ UNCHANGED dlVars)

-----------------------------------------------------------------------------
Directories == {Directory(m) : m \in Mails}

\* Where every call is, that it works on parts of its mail, and that every file is
\* right in the directory of a mail.
DlTypeOK ==
  /\ FsTypeOK
  /\ \A p \in DOMAIN disk : p[1] \in Directories /\ ~ p[2].dir /\ ~ p[2].odd
  /\ \A c \in Callers :
       /\ dl[c].pc \in {"idle", "connect", "save", "fill", "link", "done", "error"}
       /\ dl[c].pc \in {"save", "fill", "link", "done"} =>
            /\ dl[c].mail \in Mails
            /\ dl[c].left \subseteq Parts(dl[c].mail) /\ dl[c].saved \subseteq Parts(dl[c].mail)
       /\ dl[c].pc = "fill" => dl[c].left # {}
  /\ \A t \in made : linkOf[t].mail \in Mails /\ linkOf[t].part \in Parts(linkOf[t].mail)
  /\ faults \in 0..MaxFaults

\* An id comes apart into what it was made of, whatever colons the folder has, as
\* long as the account has none (handleDownloadAttachments, handleGetDownloadLink,
\* parseEmailID).
IdsComeApart ==
  \A c \in Callers : dl[c].pc # "idle" =>
    Colons(dl[c].asked.account) # {} \/ dl[c].mail = dl[c].asked

\* A download that lost nothing has saved every attachment the database lists for
\* the mail, those without a file's name excepted: what is listed at import is
\* fetched, though the two walk the structure on their own (extractAttachments,
\* walkParts).
ListedAreSaved ==
  \A c \in Callers : dl[c].pc = "done" /\ ~ dl[c].lost =>
    \A i \in DOMAIN Leaves[dl[c].mail] :
      LET leaf == Leaves[dl[c].mail][i]
      IN  Listed(leaf) /\ leaf.name.stem \notin {NoStem, ".", ".."} => i \in dl[c].saved

\* The parts whose file is nobody else's.
OwnParts ==
  [m \in Mails |-> {i \in Parts(m) : \A n \in Mails : \A j \in Parts(n) :
                      Files[n][j] = Files[m][i] => n = m /\ j = i}]

TwoCallsFor(m) == \E c, d \in Callers : c # d /\ dl[c].mail = m /\ dl[d].mail = m

SendsItsPart(t, m, i) ==
  i \in OwnParts[m] /\ Leaves[m][i].path # <<>> =>
    \/ sent[t] = Part(m, Leaves[m][i].path)
    \/ sent[t] = Missing /\ (served[t] = 0 \/ Files[m][i][2].stem = "index.html")
    \/ sent[t] = Torn /\ TwoCallsFor(m)

\* A link sends the part it was made for, when no other part has the same file
\* after cleaning; it sends less only when a second call for the mail is writing
\* the file once more, and nothing where the file is called index.html
\* (saveAttachmentPart, handleDownload).
LinkSendsItsPart == \A t \in made : SendsItsPart(t, linkOf[t].mail, linkOf[t].part)
=============================================================================
