------------------------------ MODULE MCRunner ------------------------------
(***************************************************************************)
(* Runner with two configuration entries and up to three IDLE goroutines.  *)
(* Shared: both entries have the same account id, and one of them lists a  *)
(* folder twice.  Apart: accounts of their own.                            *)
(***************************************************************************)
EXTENDS Runner, TLC

CONSTANTS e1, e2, i1, i2, inbox, archive, c1, c2, c3

TwoEntries == {e1, e2}
OneId      == {i1}
TwoIds     == {i1, i2}
TwoFolders == {inbox, archive}
OneCaller  == {c1}
ThreeCallers == {c1, c2, c3}

SharedIds   == (e1 :> i1) @@ (e2 :> i1)
SharedLists == (e1 :> <<inbox, archive, inbox>>) @@ (e2 :> <<archive, inbox>>)
ApartIds    == [e \in Entries |-> IF e = e1 THEN i1 ELSE i2]
ApartLists  == [e \in Entries |-> IF e = e1 THEN <<archive, inbox>> ELSE <<inbox>>]

CallersEntry  == [c \in Callers |-> e1]
CallersFolder == [c \in Callers |-> IF c = c3 THEN archive ELSE inbox]

BothFaults  == {"imap", "panic"}
PanicFaults == {"panic"}
=============================================================================
