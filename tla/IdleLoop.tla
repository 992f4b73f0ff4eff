------------------------------ MODULE IdleLoop ------------------------------
(***************************************************************************)
(* The goroutines of RunIDLE, one for each entry of "idle_folders": an     *)
(* IMAP connection that waits for EXISTS and a syncOneFolder call for each *)
(* wake-up, restarted with a growing pause when the connection is lost.    *)
(* They share the folder locks with the rounds of Runner.                  *)
(*                                                                         *)
(* The server's side of the IDLE connection is external: it owes a         *)
(* connection that has the folder selected one EXISTS for what arrived     *)
(* since the last one, and sends it at any later time.                     *)
(***************************************************************************)
EXTENDS Runner

CONSTANTS
  IdleCapable,   \* the goroutines whose server supports IDLE
  MaxDrops       \* bound on how many IDLE connections are lost

ASSUME IdleAssumption == IdleCapable \subseteq Callers /\ MaxDrops \in Nat

VARIABLES
  session,       \* session[c]: the goroutine of caller c
  drops

idleVars == <<runnerVars, session, drops>>

\* Pauses are counted in units of 30 seconds.
FirstPause == 1
FiveMinutes == 10

\* down: about to connect; initial, sync: at or in syncOneFolder, after the
\* connect and after a wake-up; idle: in the select; poll: asleep between two
\* polls; backoff: asleep before the next session.
Session == [pc     : {"down", "initial", "sync", "idle", "poll", "backoff"},
            exists : BOOLEAN,   \* existsCh holds a notification
            owed   : BOOLEAN,   \* the server has an EXISTS to send
            live   : BOOLEAN,   \* the IDLE connection is up
            pause  : Nat]       \* backoff

IdleTypeOK ==
  /\ RunnerTypeOK
  /\ session \in [Callers -> Session]
  /\ drops \in 0..MaxDrops

Fresh == [pc |-> "down", exists |-> FALSE, owed |-> FALSE, live |-> FALSE,
          pause |-> FirstPause]

IdleInit ==
  /\ RunnerInit
  /\ session = [c \in Callers |-> Fresh]
  /\ drops = 0

-----------------------------------------------------------------------------
(* The server.                                                             *)

\* A message arrives: every connection that has the folder selected is owed
\* an EXISTS.
IdleArrive(k) ==
  /\ Arrive(k)
  /\ session' = [c \in Callers |->
       [session[c] EXCEPT !.owed = @ \/ (/\ KeyOfCall(c) = k
                                         /\ c \in IdleCapable
                                         /\ session[c].live)]]
  /\ UNCHANGED drops

\* The handler of newIdleClient: the channel holds one notification, a second
\* one is dropped because one is pending.
Notify(c) ==
  /\ session[c].owed
  /\ session' = [session EXCEPT ![c].owed = FALSE, ![c].exists = TRUE]
  /\ UNCHANGED <<runnerVars, drops>>

Dropped == drops < MaxDrops /\ drops' = drops + 1

\* The IDLE connection is lost.
Drop(c) ==
  /\ session[c].live
  /\ Dropped
  /\ session' = [session EXCEPT ![c].owed = FALSE, ![c].live = FALSE]
  /\ UNCHANGED runnerVars

-----------------------------------------------------------------------------
(* idleLoop and runIdleSession.                                            *)

\* The connection is closed and the goroutine sleeps.
Lost(s) == [s EXCEPT !.pc = "backoff", !.live = FALSE, !.owed = FALSE]

\* A new channel, a new connection, SELECT, and on to the initial sync.
SessionConnect(c) ==
  /\ session[c].pc = "down"
  /\ session' = [session EXCEPT ![c].pc = "initial", ![c].live = TRUE,
                                ![c].exists = FALSE, ![c].owed = FALSE]
  /\ UNCHANGED <<runnerVars, drops>>

SessionConnectFailed(c) ==
  /\ session[c].pc = "down"
  /\ Dropped
  /\ session' = [session EXCEPT ![c] = Lost(@)]
  /\ UNCHANGED runnerVars

\* Mutant: the channel is drained when the sync is over.
Drained(s, c) ==
  [s EXCEPT !.pc = IF c \in IdleCapable THEN "idle" ELSE "poll",
            !.exists = FALSE]

\* syncOneFolder returned; its error is only logged.
AfterSync(s, c) ==
  [s EXCEPT !.pc = IF c \in IdleCapable THEN "idle" ELSE "poll"]

Syncing(c) == session[c].pc \in {"initial", "sync"}

SessionSkip(c) ==
  /\ Syncing(c)
  /\ CallSkipped(c)
  /\ session' = [session EXCEPT ![c] = AfterSync(@, c)]
  /\ UNCHANGED drops

SessionCall(c) ==
  /\ Syncing(c)
  /\ CallLock(c) \/ CallConnect(c)
  /\ UNCHANGED <<session, drops>>

SessionReturn(c) ==
  /\ Syncing(c)
  /\ CallSynced(c) \/ CallFailed(c)
  /\ session' = [session EXCEPT ![c] = AfterSync(@, c)]
  /\ UNCHANGED drops

\* The deferred functions recover the panic and close the connection.
SessionPanic(c) ==
  /\ Syncing(c)
  /\ CallPanicked(c)
  /\ session' = [session EXCEPT ![c] = Lost(@)]
  /\ UNCHANGED drops

\* IDLE ends because of a notification; on a dead connection its Close fails.
SessionWake(c) ==
  /\ session[c].pc = "idle"
  /\ session[c].exists
  /\ session[c].live
  /\ session' = [session EXCEPT ![c].exists = FALSE, ![c].pc = "sync"]
  /\ UNCHANGED <<runnerVars, drops>>

SessionLost(c) ==
  /\ session[c].pc = "idle"
  /\ ~session[c].live
  /\ session' = [session EXCEPT ![c] = Lost(@)]
  /\ UNCHANGED <<runnerVars, drops>>

PollAgain(c) ==
  /\ session[c].pc = "poll"
  /\ session' = [session EXCEPT ![c].pc = "sync"]
  /\ UNCHANGED <<runnerVars, drops>>

\* Mutant: a goroutine whose session failed does not come back.
GivenUp(s) == s

\* The pause is over.  runIdleSession never returns nil, so the pause is never
\* set back.
Restarted(s) ==
  [s EXCEPT !.pc = "down",
            !.pause = IF @ < FiveMinutes THEN 2 * @ ELSE @]

SessionRestart(c) ==
  /\ session[c].pc = "backoff"
  /\ session' = [session EXCEPT ![c] = Restarted(@)]
  /\ UNCHANGED <<runnerVars, drops>>

SessionStep(c) ==
  \/ SessionConnect(c)
  \/ SessionConnectFailed(c)
  \/ SessionSkip(c)
  \/ SessionCall(c)
  \/ SessionReturn(c)
  \/ SessionPanic(c)
  \/ SessionWake(c)
  \/ SessionLost(c)
  \/ PollAgain(c)
  \/ SessionRestart(c)

-----------------------------------------------------------------------------
\* The IDLE goroutines between two rounds.
PushNext ==
  \/ \E k \in Keys : IdleArrive(k)
  \/ \E c \in Callers : Notify(c) \/ Drop(c) \/ SessionStep(c)

\* The IDLE goroutines beside the rounds of RunAll.
ServeNext == PushNext \/ (RunAllNext /\ UNCHANGED <<session, drops>>)

PushSpec  == IdleInit /\ [][PushNext]_idleVars
ServeSpec == IdleInit /\ [][ServeNext]_idleVars

\* The goroutines go on, pauses end, calls return, and the server sends the
\* EXISTS it owes.
PushFairSpec ==
  /\ PushSpec
  /\ \A c \in Callers : WF_idleVars(SessionStep(c)) /\ WF_idleVars(Notify(c))

-----------------------------------------------------------------------------
CallersOf(k) == {c \in Callers : KeyOfCall(c) = k}

\* Nothing will make this goroutine sync before the next message arrives.
Quiet(c) == /\ session[c].pc = "idle"
            /\ session[c].live
            /\ ~session[c].exists
            /\ ~session[c].owed

\* When every goroutine of a folder waits for a notification and nobody is
\* syncing the folder, the database has all its messages: the notification
\* that arrives during a sync is not lost (existsCh is emptied before the sync
\* and holds one notification), nor is what arrives while there is no session.
QuietMeansServed ==
  \A k \in Keys :
    CallersOf(k) # {} /\ (\A c \in CallersOf(k) : Quiet(c)) /\ ~folderLock[k]
      => have[k] = news[k]

\* A message in an idle folder gets into the database without the help of the
\* ticker, whatever connections are lost (idleLoop restarts the session, whose
\* initial sync makes up for the notifications missed), and by polls where the
\* server has no IDLE.
PushServes ==
  \A c \in Callers, n \in 1..MaxNews :
    (news[KeyOfCall(c)] >= n) ~> (have[KeyOfCall(c)] >= n)
=============================================================================
