---------------------------- MODULE MCDownloads ----------------------------
(***************************************************************************)
(* Downloads with mails whose directories and names come together.         *)
(***************************************************************************)
EXTENDS Downloads, TLC

CONSTANTS t1, t2, r1, r2, c1, c2

TwoTokens   == {t1, t2}
TwoRequests == {r1, r2}
TwoCallers  == {c1, c2}
TheirTools  == c1 :> {"link"} @@ c2 :> {"files"}

Mail(account, folder) == [account |-> account, folder |-> folder, uid |-> <<"7">>]

\* Account "a", folder "b:c"; account "a_b", folder "c"; account "a", folder "c".
abc  == Mail(<<"a">>, <<"b", ":", "c">>)
a_bc == Mail(<<"a", "_", "b">>, <<"c">>)
ac   == Mail(<<"a">>, <<"c">>)

SomeMails == {abc, a_bc, ac}

Named(stem, dir) == [stem |-> stem, dir |-> dir, odd |-> FALSE]

AtPath(path, attached, text, name) ==
  [path |-> path, attachment |-> attached, text |-> text, name |-> name]

SomeLeaves ==
  abc     :> << AtPath(<<1>>, FALSE, FALSE, NoName), AtPath(<<2>>, TRUE, TRUE, Named("f", FALSE)) >>
  @@ a_bc :> << AtPath(<<>>, TRUE, FALSE, Named("f", TRUE)) >>
  @@ ac   :> << AtPath(<<1>>, TRUE, FALSE, Named("f", FALSE)), AtPath(<<2>>, FALSE, TRUE, NoName),
                AtPath(<<3>>, TRUE, FALSE, Named("index.html", FALSE)) >>
=============================================================================
