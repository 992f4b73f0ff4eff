--------------------------- MODULE MailShadowRuns ---------------------------
(***************************************************************************)
(* The runs of MailShadow as Runner sees them: SyncFolder from its SELECT  *)
(* to its return, with the messages that were in the folder at the SELECT. *)
(***************************************************************************)
EXTENDS MailShadowInv

VARIABLE
  undertaken   \* undertaken[f]: the UIDs the run on f began for (history); none
               \* once its stream broke, which SyncFolder takes for the end

runsVars == <<vars, undertaken>>

Undertake ==
  undertaken' = [f \in Folders |->
                   IF sync'[f].pc = "idle" THEN {}
                   ELSE IF sync[f].pc = "idle" THEN mbox[f]
                   ELSE IF SyncBreak(f) THEN {} ELSE undertaken[f]]

HistoryInit == Init /\ undertaken = [f \in Folders |-> {}]
HistoryNext == Next /\ Undertake
HistorySpec == HistoryInit /\ [][HistoryNext]_runsVars

\* The fairness of FairSpec.
HistoryFairSpec == HistorySpec /\ \A f \in Synced : WF_vars(SyncStep(f) /\ UNCHANGED del)

-----------------------------------------------------------------------------
\* A message is named by its UID and the validity the UID was given under.
Under(v, us) == {<<v, u>> : u \in us}

There(f) == Under(validity[f], mbox[f])

Had(f) == IF Recorded(f) THEN Under(validity[f], {u \in Uids : Known(f, u)}) ELSE {}

RunOn(f) == IF sync[f].pc = "idle" THEN {}
            ELSE {<<"run", Under(sync[f].val, undertaken[f])>>}

Runs == INSTANCE FolderRuns
          WITH Keys    <- Synced,
               Runners <- {"run"},
               there   <- [f \in Synced |-> There(f)],
               had     <- [f \in Synced |-> Had(f)],
               run     <- [f \in Synced |-> RunOn(f)]

\* A run that ends, and met no fault, has every message that was in its folder
\* when it began and still is, or gave it up: no batch is forgotten, the stream
\* is read to its end, and what it skips as known is known (SyncFolder).
RunsKeepTheirWord == Runs!RunsSpec

\* The run has what it began for, or still has it in its hands.
UndertakenIsHad(f) ==
  sync[f].pc \in {"collect", "finish"} /\ sync[f].val = validity[f] =>
    \A u \in undertaken[f] \cap mbox[f] : Known(f, u) \/ u \in Held(f)

\* What a run began for had been in the folder; after the stream's end there is
\* nothing left to read, and a run on an empty folder began for nothing.
RunsInv ==
  /\ undertaken \in [Folders -> SUBSET Uids]
  /\ \A f \in Synced :
       /\ UndertakenIsHad(f)
       /\ sync[f].pc # "idle" /\ sync[f].val = validity[f] =>
            \A u \in undertaken[f] : u < uidNext[f]
       /\ sync[f].pc = "finish" => sync[f].stream = {}
       /\ sync[f].pc \in {"purge", "reset"} /\ sync[f].empty => undertaken[f] = {}
=============================================================================
