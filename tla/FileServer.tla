----------------------------- MODULE FileServer -----------------------------
(***************************************************************************)
(* The attachment download server: links with a token that lives for a     *)
(* while and works once, the HTTP handlers that run concurrently, and the  *)
(* goroutine that purges expired tokens.                                   *)
(*                                                                         *)
(* An entry never changes after CreateLink, so expiry stands for the       *)
(* fields of the entry wherever a handler holds a copy of it.  Tokens are  *)
(* 128 random bits: every link has one of its own.                         *)
(***************************************************************************)
EXTENDS Naturals, FiniteSets

CONSTANTS
  Tokens,     \* the tokens randomToken may return
  NoToken,    \* no token
  Requests,   \* the HTTP handlers that may run at a time
  Ttl,        \* lifetime of a link, in clock ticks
  MaxTime     \* bound on the clock

ASSUME FileServerAssumption ==
  Ttl \in Nat /\ MaxTime \in Nat /\ NoToken \notin Tokens

VARIABLES
  clock,      \* time.Now()
  made,       \* the tokens CreateLink has returned
  tokens,     \* the keys of s.tokens
  expiry,     \* expiry[t]: of the entry made for t
  req,        \* req[r]: where handler r is, and its token
  purge,      \* the purge goroutine, and the time it read
  served      \* served[t]: how often the file of t was sent

fsVars == <<clock, made, tokens, expiry, req, purge, served>>

FsTypeOK ==
  /\ clock \in Nat
  /\ made \subseteq Tokens
  /\ tokens \subseteq Tokens
  /\ expiry \in [Tokens -> Nat]
  /\ req \in [Requests -> [pc    : {"free", "claim", "check"},
                           token : Tokens \cup {NoToken}]]
  /\ purge \in [pc : {"wait", "lock", "stopped"}, now : Nat]
  /\ served \in [Tokens -> Nat]

Free == [pc |-> "free", token |-> NoToken]

FsInit ==
  /\ clock = 0
  /\ made = {}
  /\ tokens = {}
  /\ expiry = [t \in Tokens |-> 0]
  /\ req = [r \in Requests |-> Free]
  /\ purge = [pc |-> "wait", now |-> 0]
  /\ served = [t \in Tokens |-> 0]

Pass ==
  /\ clock < MaxTime
  /\ clock' = clock + 1
  /\ UNCHANGED <<made, tokens, expiry, req, purge, served>>

-----------------------------------------------------------------------------
CreateLink(t) ==
  /\ t \notin made
  /\ made' = made \cup {t}
  /\ tokens' = tokens \cup {t}
  /\ expiry' = [expiry EXCEPT ![t] = clock + Ttl]
  /\ UNCHANGED <<clock, req, purge, served>>

\* A request for a link that was given out; it may be asked for again.
Request(r, t) ==
  /\ req[r].pc = "free"
  /\ t \in made
  /\ req' = [req EXCEPT ![r] = [pc |-> "claim", token |-> t]]
  /\ UNCHANGED <<clock, made, tokens, expiry, purge, served>>

\* Mutant: the token is looked up, and deleted only by the purge.
LookedUp(t) == tokens

\* Look-up and delete are one critical section.
Claimed(t) == tokens \ {t}

\* A token that is not there: 410 Gone.
Claim(r) ==
  LET t == req[r].token
  IN  /\ req[r].pc = "claim"
      /\ IF t \in tokens
           THEN /\ tokens' = Claimed(t)
                /\ req' = [req EXCEPT ![r].pc = "check"]
           ELSE /\ req' = [req EXCEPT ![r] = Free]
                /\ UNCHANGED tokens
      /\ UNCHANGED <<clock, made, expiry, purge, served>>

\* time.Now().After(e.expiry): 410 Gone, otherwise the file.
Expired(t, now) == now > expiry[t]

Serve(r) ==
  LET t == req[r].token
  IN  /\ req[r].pc = "check"
      /\ req' = [req EXCEPT ![r] = Free]
      /\ served' = IF Expired(t, clock) THEN served
                                        ELSE [served EXCEPT ![t] = @ + 1]
      /\ UNCHANGED <<clock, made, tokens, expiry, purge>>

-----------------------------------------------------------------------------
\* The ticker fires; the time is read before the mutex is taken.
PurgeBegin ==
  /\ purge.pc = "wait"
  /\ purge' = [pc |-> "lock", now |-> clock]
  /\ UNCHANGED <<clock, made, tokens, expiry, req, served>>

\* Mutant: purges what will have expired before the next tick.
PurgedEarly(now) == {t \in tokens : now + 1 > expiry[t]}

Purged(now) == {t \in tokens : Expired(t, now)}

\* Mutant: the goroutine purges once.
Once == [pc |-> "stopped", now |-> 0]

\* for range ticker.C
NextTick == [pc |-> "wait", now |-> 0]

PurgeExpired ==
  /\ purge.pc = "lock"
  /\ tokens' = tokens \ Purged(purge.now)
  /\ purge' = NextTick
  /\ UNCHANGED <<clock, made, expiry, req, served>>

-----------------------------------------------------------------------------
FsNext ==
  \/ Pass
  \/ \E t \in Tokens : CreateLink(t)
  \/ \E r \in Requests, t \in Tokens : Request(r, t)
  \/ \E r \in Requests : Claim(r) \/ Serve(r)
  \/ PurgeBegin
  \/ PurgeExpired

FsSpec == FsInit /\ [][FsNext]_fsVars

\* The purge ticker goes on.
FsFairSpec == FsSpec /\ WF_fsVars(PurgeBegin) /\ WF_fsVars(PurgeExpired)

-----------------------------------------------------------------------------
\* A link works once, however many requests for it run at the same time
\* (handleDownload deletes the token in the critical section that finds it).
SingleUse == \A t \in Tokens : served[t] <= 1

Holds(r, t) == req[r].pc = "check" /\ req[r].token = t

\* A link that was neither used nor outlived is there: the purge goroutine, with
\* a time it read before it waited for the mutex, never takes it away.
LinkWorks ==
  \A t \in made : ~Expired(t, clock) =>
    \/ t \in tokens
    \/ served[t] > 0
    \/ \E r \in Requests : Holds(r, t)

\* Tokens nobody uses do not pile up.
ExpiredArePurged ==
  \A t \in Tokens : (t \in tokens /\ Expired(t, clock)) ~> (t \notin tokens)
=============================================================================
