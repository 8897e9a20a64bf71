------------------------- MODULE MCMessageDelivery -------------------------
(* Small instances of MessageDelivery for TLC.                             *)
EXTENDS MessageDelivery, TLC

CONSTANTS m1, m2, c1, c2, w1, w2

TwoMessages == {m1, m2}
OneMessage == {m1}
OneCustomer == {c1}
TwoCustomers == {c1, c2}
OneWorker == {w1}
TwoWorkers == {w1, w2}
Nobody == {}
ToC1 == [m \in Messages |-> c1]
ToEach == [m \in Messages |-> IF m = m1 THEN c1 ELSE c2]
AllAcks == {"SENT", "DELIVERED", "READ", "FAILED"}
NoAcks == {}
LateAcks == {"DELIVERED"}
Unlimited == -1

WorkerSymmetry == Permutations(Workers)
SlotSymmetry == Permutations(Workers) \cup Permutations(Messages)
=============================================================================
