----------------------------- MODULE MCBilling -----------------------------
(* Small instances of Billing for TLC: three plans; a checkout with Stripe's *)
(* events around it, an invoice against a change of plan, an override, a     *)
(* promo code, and events of Lemon Squeezy delivered twice.                  *)
EXTENDS Billing, TLC

CONSTANTS e1, e2, e3, f0, s1, g2, v1, v2, v3

ThreeTiers == {f0, s1, g2}
ThreeEvents == {v1, v2, v3}
ThreeCalls == {e1, e2, e3}
NoTenant == {v3}

Ask(kind, event, plan_, st) == [kind |-> kind, event |-> event, tier |-> plan_, status |-> st]
Three(a, b, c) == e1 :> a @@ e2 :> b @@ e3 :> c

Link == Ask("CHECKOUT", v1, NoTier, "active")
Paid(v, t) == Ask("PAID", v, t, "active")
Updated(v, t, s) == Ask("UPDATED", v, t, s)

Mixed ==
    {Three(Link, Paid(v2, s1), Updated(v3, g2, s)) : s \in {"active", "past_due", "unpaid"}}
    \cup {Three(Paid(v1, NoTier), Updated(v2, g2, "active"), x) :
            x \in {Ask("DELETED", v3, NoTier, "active"), Ask("FAILED", v3, NoTier, "active"),
                   Ask("FLAGS", v3, s1, "active"), Ask("FLAGS", v3, NoTier, "active"),
                   Ask("PROMO", v3, s1, "active")}}
    \cup {Three(Ask("LEMON", v1, s1, "active"), Ask("LEMON", v1, s1, "active"), x) :
            x \in {Ask("LEMON", v2, s1, "cancelled"), Ask("LEMON_EXPIRED", v2, s1, "active"),
                   Ask("LEMON_FAILED", v2, s1, "active"), Ask("LEMON", v3, s1, "active")}}
    \cup {Three(Ask("LEMON", v1, s1, "unpaid"), Ask("LEMON", v1, NoTier, "paused"), Paid(v2, g2))}
=============================================================================
