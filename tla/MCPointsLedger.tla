--------------------------- MODULE MCPointsLedger ---------------------------
(* Small instances of PointsLedger for TLC.                                *)
EXTENDS PointsLedger, TLC

CONSTANTS c1, v1, v2, k1, k2, r1, r2, r3

Ask(kind, key, points) == [kind |-> kind, cust |-> c1, key |-> key, points |-> points]

OneCustomer == {c1}
TwoVisits == {v1, v2}
OneVisit == {v1}
OneRef == {k1}
TwoRefs == {k1, k2}
ThreeRequests == {r1, r2, r3}
TwoRequests == {r1, r2}
OwnedByC1 == [k \in Keys |-> c1]
PointsPerVisit == [v \in Visits |-> IF v = v1 THEN 2 ELSE 1]

WalletCalls == {Ask("CREDIT", NoKey, 1), Ask("CREDIT", k1, 1), Ask("DEBIT", k1, 2),
                Ask("DEBIT", NoKey, 1), Ask("FEEDBACK", NoKey, 1), Ask("EMAIL", NoKey, 1),
                Ask("EXPIRE", NoKey, 0), Ask("RECONCILE", NoKey, 0), Ask("ACCRUE", v1, 0),
                Ask("ACCRUE", v2, 0), Ask("BACKFILL", NoKey, 0),
                Ask("AUTOMATION", k2, 0 - 1), Ask("AUTOMATION", k1, 0 - 3),
                Ask("WELCOME", NoKey, 1)}
CreditCalls == {Ask("CREDIT", NoKey, 1), Ask("ACCRUE", v1, 0)}
DebitCalls == {Ask("DEBIT", NoKey, 2)}
ExpiryCalls == {Ask("EXPIRE", NoKey, 0), Ask("CREDIT", NoKey, 1)}
LockCalls == {Ask("ACCRUE", v1, 0), Ask("BACKFILL", NoKey, 0), Ask("CREDIT", k1, 1),
              Ask("EMAIL", NoKey, 1), Ask("WELCOME", NoKey, 1), Ask("AUTOMATION", k1, 0 - 1)}

RequestSymmetry == Permutations(Requests)
=============================================================================
