----------------------------- MODULE FolderRuns -----------------------------
(***************************************************************************)
(* What scheduling and syncing promise each other about one folder: its    *)
(* runs come one after the other, and a run that ends without a fault has  *)
(* put into the database all that was in the folder when it began and      *)
(* still is.  Runner relies on the second and provides the first; for      *)
(* SyncFolder it is the other way round.                                   *)
(***************************************************************************)
CONSTANTS
  Keys,     \* folders
  Runners   \* who may run: goroutines

VARIABLES
  there,    \* there[k]: what is in the folder k
  had,      \* had[k]: what the database has of it, or gave up
  run,      \* run[k]: the runs on k, each <<who, what was there at its begin>>
  faults    \* faults so far

Begin(k) ==
  /\ run[k] = {}
  /\ \E who \in Runners : run'[k] = {<<who, there[k]>>}
  /\ UNCHANGED <<there[k], had[k]>>

\* Mail comes and goes, the database takes it up or forgets what has left.
Change(k) ==
  /\ run'[k] = run[k]
  /\ had[k] \cap there'[k] \subseteq had'[k]

End(k) ==
  /\ run[k] # {} /\ run'[k] = {}
  /\ UNCHANGED there[k]
  /\ had[k] \cap there[k] \subseteq had'[k]
  /\ \A r \in run[k] : r[2] \cap there[k] \subseteq had'[k]

\* A fault ends the run, or lets it go on without what it began for.
Fail(k) ==
  /\ faults' # faults
  /\ run[k] # {}
  /\ run'[k] = {} \/ \E who \in Runners : run'[k] = {<<who, {}>>}
  /\ UNCHANGED <<there[k], had[k]>>

RunsInit == \A k \in Keys : run[k] = {}

RunsNext == \A k \in Keys : Begin(k) \/ Change(k) \/ End(k) \/ Fail(k)

RunsSpec == RunsInit /\ [][RunsNext]_<<there, had, run, faults>>
=============================================================================
