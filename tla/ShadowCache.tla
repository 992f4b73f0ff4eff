---------------------------- MODULE ShadowCache ----------------------------
(***************************************************************************)
(* What the shadow database promises of the synced folders, with no runs,  *)
(* no calls and no two-step purges in it: a cache of each folder that      *)
(*   - is emptied in the very step in which the folder is renumbered,      *)
(*   - shows under a UID only the message that has this UID,               *)
(*   - takes up messages in an order that leaves none behind,              *)
(*   - and drops an entry only one at a time.                              *)
(* MailShadow is shown to implement it (MailShadowInv, MailShadowProofs).  *)
(***************************************************************************)
EXTENDS MailServer

VARIABLES
  cache,      \* cache[f][u]: the message shown under UID u of folder f
  waived      \* waived[f]: UIDs the program knowingly does without

cacheVars == <<serverVars, cache, waived>>

Empty == [u \in Uids |-> Absent]

CacheInit ==
  /\ ServerInit
  /\ cache = [f \in Folders |-> Empty]
  /\ waived = [f \in Folders |-> {}]

\* The server alone: mail comes, goes, is moved.
Live ==
  /\ \E f \in Folders :
       \/ \E m \in Msgs : Deliver(f, m)
       \/ \E u \in Uids : Expunge(f, u)
       \/ \E u \in Uids, t \in Folders : MoveMessage(f, u, t)
  /\ UNCHANGED <<cache, waived>>

\* A new numbering: nothing the cache showed means anything any more.
StartOver(f) ==
  /\ Renumber(f)
  /\ cache' = [cache EXCEPT ![f] = Empty]
  /\ waived' = [waived EXCEPT ![f] = {}]

\* The messages us are taken up: none of the folder that is below one of them is
\* left behind.
Load(f, us) ==
  /\ cache' = [cache EXCEPT ![f] =
                 [u \in Uids |-> IF u \in us THEN MessageAt(f, u) ELSE @[u]]]
  /\ \A x \in us : MessageAt(f, x) # Absent
  /\ \A x \in us, u \in mbox[f] :
       u < x => cache'[f][u] # Absent \/ u \in waived[f]
  /\ UNCHANGED <<serverVars, waived>>

\* A message is given up.
Waive(f, u) ==
  /\ waived' = [waived EXCEPT ![f] = @ \cup {u}]
  /\ UNCHANGED <<serverVars, cache>>

\* An entry goes: its message has left the folder, or is given up with it.
Drop(f, u) ==
  /\ cache' = [cache EXCEPT ![f][u] = Absent]
  /\ waived' \in {waived, [waived EXCEPT ![f] = @ \cup {u}]}
  /\ u \in mbox[f] => u \in waived'[f]
  /\ UNCHANGED serverVars

CacheNext ==
  \/ Live
  \/ \E f \in Folders :
       \/ StartOver(f)
       \/ \E us \in SUBSET Uids : Load(f, us)
       \/ \E u \in Uids : Waive(f, u) \/ Drop(f, u)

CacheSpec == CacheInit /\ [][CacheNext]_cacheVars
=============================================================================
