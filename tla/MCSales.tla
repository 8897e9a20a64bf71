------------------------------ MODULE MCSales ------------------------------
(* Small instances of Sales for TLC: a trade delivered twice against another *)
(* trade and a sale of the same new customer, counts around a milestone,      *)
(* check-ins around a limit, calls without a customer.                        *)
EXTENDS Sales, TLC

CONSTANTS e1, e2, e3, e4, p1, t1, t2

OnePerson == {p1}
TwoTrades == {t1, t2}
FourCalls == {e1, e2, e3, e4}
TwoCalls == {e1, e2}

Ask(kind, trade, who) == [kind |-> kind, trade |-> trade, who |-> who, source |-> "QR_CHECKIN"]
Check(source) == [Ask("STAFF", t1, p1) EXCEPT !.source = source]
Self == Ask("PORTAL", t1, p1)
Four(a, b, c, d) == e1 :> a @@ e2 :> b @@ e3 :> c @@ e4 :> d

Mixed == {
    Four(Ask("WEBHOOK", t1, p1), Ask("WEBHOOK", t1, p1), Ask("WEBHOOK", t2, p1), Ask("SALE", t1, p1)),
    Four(Ask("WEBHOOK", t1, p1), Ask("WEBHOOK", t2, p1), Check("POS_WEBHOOK"), Ask("SALE", t1, p1)),
    Four(Self, Self, Self, Check("QR_CHECKIN")),
    Four(Self, Check("MANUAL"), Check("MANUAL"), Check("QR_CHECKIN")),
    Four(Ask("WEBHOOK", t1, Nobody), Ask("SALE", t1, Nobody), Ask("SALE", t1, p1), Check("MANUAL"))}
TwoSelves == {e1 :> Self @@ e2 :> Self}
TwoSources == {e1 :> Check("MANUAL") @@ e2 :> Check("QR_CHECKIN")}
Retry == {e1 :> Ask("WEBHOOK", t1, p1) @@ e2 :> Ask("WEBHOOK", t1, p1)}
=============================================================================
