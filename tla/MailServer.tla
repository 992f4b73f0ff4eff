----------------------------- MODULE MailServer -----------------------------
(***************************************************************************)
(* The IMAP server as the code in src/ uses it (external: only the calls   *)
(* SELECT, UID FETCH and MOVE of go-imap and what they may answer).        *)
(*                                                                         *)
(* A message of a folder is named by (folder, UIDVALIDITY, UID): within    *)
(* one validity a UID is given once, in ascending order.  minted records   *)
(* who got which UID, for every validity, and never forgets; mbox is the   *)
(* set of UIDs that are in the folder now.                                 *)
(***************************************************************************)
EXTENDS Naturals, FiniteSets

CONSTANTS
  Folders,      \* the folders of one account
  Msgs,         \* messages; only their identity matters
  Absent,       \* "no message" and "no row"
  MaxUid,       \* bound on the UIDs of one validity
  MaxValidity   \* bound on the number of UIDVALIDITY values of a folder

ASSUME ServerAssumption ==
  /\ Folders # {}
  /\ MaxUid \in Nat \ {0}
  /\ MaxValidity \in Nat \ {0}
  /\ Absent \notin Msgs

Uids       == 1..MaxUid
Validities == 1..MaxValidity
MsgOrNone  == Msgs \cup {Absent}

VARIABLES
  mbox,      \* mbox[f]: the UIDs in folder f
  minted,    \* minted[f][v][u]: the message that got UID u in validity v
  uidNext,   \* uidNext[f]: the next UID the server gives in f
  validity   \* validity[f]: the UIDVALIDITY of f

serverVars == <<mbox, minted, uidNext, validity>>

ServerTypeOK ==
  /\ mbox \in [Folders -> SUBSET Uids]
  /\ minted \in [Folders -> [Validities -> [Uids -> MsgOrNone]]]
  /\ uidNext \in [Folders -> 1..(MaxUid + 1)]
  /\ validity \in [Folders -> Validities]

ServerInit ==
  /\ mbox = [f \in Folders |-> {}]
  /\ minted = [f \in Folders |-> [v \in Validities |-> [u \in Uids |-> Absent]]]
  /\ uidNext = [f \in Folders |-> 1]
  /\ validity = [f \in Folders |-> 1]

\* The message UID u stands for in folder f today.
MessageAt(f, u) == minted[f][validity[f]][u]

\* The UIDs a FETCH of "last+1:*" names: "*" is the highest UID of the folder,
\* and a range may be given in either order, so the highest message is always
\* among them, whether it is newer than last or not.
FetchRange(f, last) ==
  {u \in mbox[f] : u > last \/ \A w \in mbox[f] : w <= u}

\* A new message arrives in folder f.
Deliver(f, m) ==
  /\ uidNext[f] <= MaxUid
  /\ \A g \in Folders, v \in Validities, u \in Uids : minted[g][v][u] # m
  /\ mbox' = [mbox EXCEPT ![f] = @ \cup {uidNext[f]}]
  /\ minted' = [minted EXCEPT ![f][validity[f]][uidNext[f]] = m]
  /\ uidNext' = [uidNext EXCEPT ![f] = @ + 1]
  /\ UNCHANGED validity

\* Another mail client expunges a message.
Expunge(f, u) ==
  /\ u \in mbox[f]
  /\ mbox' = [mbox EXCEPT ![f] = @ \ {u}]
  /\ UNCHANGED <<minted, uidNext, validity>>

\* The folder gets a new UIDVALIDITY (recreated, or its index rebuilt): the
\* messages it keeps are numbered from 1, in any order.
Renumber(f) ==
  /\ validity[f] < MaxValidity
  /\ \E n \in 0..MaxUid : \E kept \in [1..n -> mbox[f]] :
       /\ \A i, j \in 1..n : kept[i] = kept[j] => i = j
       /\ mbox' = [mbox EXCEPT ![f] = 1..n]
       /\ minted' = [minted EXCEPT ![f][validity[f] + 1] =
                       [u \in Uids |-> IF u <= n THEN MessageAt(f, kept[u])
                                                 ELSE Absent]]
       /\ uidNext' = [uidNext EXCEPT ![f] = n + 1]
  /\ validity' = [validity EXCEPT ![f] = @ + 1]

\* MOVE of UID u from folder f to folder t: t gives the message its next UID.
MoveMessage(f, u, t) ==
  /\ u \in mbox[f]
  /\ uidNext[t] <= MaxUid
  /\ mbox' = [g \in Folders |->
                (mbox[g] \ (IF g = f THEN {u} ELSE {}))
                  \cup (IF g = t THEN {uidNext[t]} ELSE {})]
  /\ minted' = [minted EXCEPT ![t][validity[t]][uidNext[t]] = MessageAt(f, u)]
  /\ uidNext' = [uidNext EXCEPT ![t] = @ + 1]
  /\ UNCHANGED validity
=============================================================================
