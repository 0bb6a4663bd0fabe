-------------------------- MODULE MCNoticeRegistry --------------------------
(***************************************************************************)
(* Instances of NoticeRegistry for TLC.                                    *)
(***************************************************************************)
EXTENDS NoticeRegistry, TLC

CONSTANTS t1, t2, t3, d1, d2, d3, base, derived

TwoThreads == {t1, t2}
ThreeThreads == {t1, t2, t3}

OneDeliverer == {d1}
TwoDeliverers == {d1, d2}
NoDeliverer == {}
Second == {d2}

\* Two notice types; a notice of the derived type visits both lists.
TwoLists == {base, derived}
BaseAndDerived == (d1 :> base) @@ (d2 :> derived)
BothInBase == (d1 :> base) @@ (d2 :> base)
OneInBase == d1 :> base
BaseWalk == {<<base>>}
BothWalks == {<<base>>, <<derived, base>>}
DerivedWalk == {<<derived, base>>}

\* t1 sends, and its handlers call back; t2 owns the listeners.
SenderAndOwner ==
  (t1 :> {"Send"}) @@ (t2 :> {"Register", "Revoke", "RevokeAndWait"})

\* Two senders and the thread that owns the listener.
SendersAndOwner ==
  (t1 :> {"Send"}) @@ (t2 :> {"Send"}) @@ (t3 :> {"Register", "RevokeAndWait"})

\* The owner only revokes.
SendersAndRevoker ==
  (t1 :> {"Send"}) @@ (t2 :> {"Send"}) @@ (t3 :> {"Register", "Revoke"})

NestedCalls == {"Register", "Send", "Revoke"}
NestedSends == {"Send"}
NoCalls == {}
=============================================================================
