---------------------------- MODULE MCSessions ----------------------------
(* Small instances of Sessions for TLC: two devices that refresh, log in and *)
(* log out, one device in two tabs, resets of one and of two links, a user   *)
(* who is forced out or deactivated.                                         *)
EXTENDS Sessions, TLC

CONSTANTS c1, c2, c3, c4, d1, d2, l1, l2

TwoDevices == {d1, d2}
TwoLinks == {l1, l2}
FourCalls == {c1, c2, c3, c4}
TwoCalls == {c1, c2}

Ask(kind, dev) == [kind |-> kind, dev |-> dev, link |-> l1]
Four(a, b, c, d) == c1 :> a @@ c2 :> b @@ c3 :> c @@ c4 :> d

Mixed == {
    Four(Ask("REFRESH", d1), Ask("REFRESH", d1), Ask("REFRESH", d1), Ask("REFRESH", d2)),
    Four(Ask("REFRESH", d1), Ask("RESET", d1), Ask("RESET", d2), Ask("LOGIN", d2)),
    Four(Ask("REFRESH", d1), Ask("LOGOUT", d2), Ask("LOGIN", d1), Ask("REFRESH", d1)),
    Four(Ask("REFRESH", d1), Ask("LOGOUT", d1), Ask("FORCE", d1), Ask("REFRESH", d2)),
    Four(Ask("REFRESH", d1), Ask("DEACTIVATE", d1), Ask("ACTIVATE", d1), Ask("REFRESH", d1)),
    Four(Ask("REFRESH", d1), Ask("TERMINATE", d1), Ask("ACTIVATE", d1), Ask("REFRESH", d2))}

Forced == {c1 :> Ask("FORCE", d1) @@ c2 :> Ask("REFRESH", d1)}
Pair == {c1 :> Ask("REFRESH", d1) @@ c2 :> Ask("REFRESH", d2)}
=============================================================================
