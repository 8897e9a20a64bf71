------------------------ MODULE PointsLedger_proofs ------------------------
(***************************************************************************)
(* Theorems about PointsLedger, for every set of customers, visits,        *)
(* requests and operations.                                                *)
(***************************************************************************)
EXTENDS PointsLedger, TLAPS

\* Only a ledger operation opens a transaction, and the key in hand is one of
\* those the request has to credit.
CurInv ==
    \A r \in Requests :
        /\ pc[r] \in InTx =>
              /\ Kind(r) # "EMAIL"
              /\ IF OfVisits(r) THEN cur[r] \in todo[r] ELSE cur[r] = op[r].key
        /\ pc[r] = "first" => Kind(r) = "EMAIL"
        /\ pc[r] \in {"due", "posted"} => Kind(r) \in {"EMAIL", "WELCOME"}
        /\ pc[r] \in {"scan", "ready"} \cup InTx => Kind(r) # "WELCOME"

TypeInv == TypeOK /\ CurInv

-----------------------------------------------------------------------------

LEMMA OpFacts ==
    ASSUME TypeOK, NEW r \in Requests
    PROVE  /\ Kind(r) \in Kinds
           /\ Cust(r) \in Customers
           /\ op[r].points \in Int
           /\ Kind(r) # "AUTOMATION" => op[r].points \in Nat
           /\ op[r].key \in Keys \cup {NoKey}
           /\ WellFormed(op[r])
<1>1. op[r] \in Operation /\ WellFormed(op[r])
  BY ConstantsAssumption DEF TypeOK
<1> QED BY <1>1 DEF Kind, Cust, Operation, WellFormed

\* In a transaction over visits the key in hand is a visit, so its points are known.
LEMMA PointsFact ==
    ASSUME TypeInv, NEW r \in Requests, pc[r] \in InTx
    PROVE  /\ OfVisits(r) => cur[r] \in Visits
           /\ Points(r) \in Int
           /\ Kind(r) # "AUTOMATION" => Points(r) \in Nat
           /\ Delta(r) \in Int
           /\ NewBalance(r) \in Int
<1>1. OfVisits(r) => cur[r] \in Visits
  BY DEF TypeInv, CurInv, TypeOK
<1>2. Points(r) \in Int /\ (Kind(r) # "AUTOMATION" => Points(r) \in Nat)
  BY <1>1, OpFacts, ConstantsAssumption DEF TypeInv, Points
<1>3. seen[r] \in Int
  BY DEF TypeInv, TypeOK
<1>4. Kind(r) \in Kinds /\ Kind(r) \notin {"EMAIL", "WELCOME"}
  BY OpFacts DEF TypeInv, CurInv
<1>5. Delta(r) \in Int /\ NewBalance(r) \in Int
  BY <1>2, <1>3, <1>4 DEF Kinds, Delta, NewBalance, Earns, OfVisits
<1> QED BY <1>1, <1>2, <1>5

LEMMA InitTypeInv == Init => TypeInv
<1> SUFFICES ASSUME Init PROVE TypeInv
  OBVIOUS
<1>0. balance \in [Customers -> Openings] /\ posted = balance /\ Openings \subseteq Nat
  BY ConstantsAssumption DEF Init
<1>1. balance \in [Customers -> Int] /\ posted \in [Customers -> Int]
  <2>1. balance = [c \in Customers |-> balance[c]] /\ \A c \in Customers : balance[c] \in Openings
    BY <1>0
  <2>2. \A c \in Customers : balance[c] \in Int
    <3> SUFFICES ASSUME NEW c \in Customers PROVE balance[c] \in Int
      OBVIOUS
    <3>1. balance[c] \in Openings
      BY <2>1
    <3>2. balance[c] \in Nat
      BY <1>0, <3>1
    <3> QED BY <3>2
  <2> QED BY <1>0, <2>1, <2>2
<1>2. oldest \in [Customers -> Ages] /\ newest \in [Customers -> Ages]
  BY DEF Init, Ages
<1>3. \A r \in Requests : pc[r] = "idle" /\ cur[r] = NoKey /\ todo[r] = {} /\ found[r] = {}
  BY DEF Init
<1>4. TypeOK
  BY <1>1, <1>2, ConstantsAssumption DEF Init, TypeOK
<1>5. CurInv
  BY <1>3 DEF CurInv, InTx
<1> QED BY <1>4, <1>5 DEF TypeInv

LEMMA NextTypeInv == TypeInv /\ [Next]_vars => TypeInv'
<1> SUFFICES ASSUME TypeInv, [Next]_vars PROVE TypeInv'
  OBVIOUS
<1> USE DEF TypeInv
<1>1. ASSUME NEW v \in Visits, RecordVisit(v) PROVE TypeInv'
  BY <1>1 DEF RecordVisit, TypeOK, CurInv, OfVisits, Kind, request, history
<1>2. CASE TimePasses
  BY <1>2 DEF TimePasses, TypeOK, CurInv, OfVisits, Kind, Ages, request, history
<1>3. ASSUME NEW r \in Requests, Begin(r) PROVE TypeInv'
  <2>1. CASE BeginAccrue(r)
    BY <1>3, <2>1 DEF BeginAccrue, TypeOK, CurInv, OfVisits, Kind, Goto, Live, InTx, store, history
  <2>2. CASE BeginBackfill(r)
    BY <1>3, <2>2 DEF BeginBackfill, TypeOK, CurInv, OfVisits, Kind, Goto, Live, InTx, store, history
  <2>3. CASE BeginOther(r)
    BY <1>3, <2>3 DEF BeginOther, TypeOK, CurInv, OfVisits, Kind, Goto, Live, InTx, store, history
  <2>4. CASE BeginFeedback(r)
    BY <1>3, <2>4 DEF BeginFeedback, TypeOK, CurInv, OfVisits, Kind, Goto, Live, InTx, Ended, store,
          history
  <2>5. CASE BeginWelcome(r)
    BY <1>3, <2>5 DEF BeginWelcome, TypeOK, CurInv, OfVisits, Kind, Goto, Live, InTx, store, history
  <2> QED BY <1>3, <2>1, <2>2, <2>3, <2>4, <2>5 DEF Begin
<1>4. ASSUME NEW r \in Requests, Step(r) PROVE TypeInv'
  <2>1. CASE Scan(r)
    BY <1>4, <2>1 DEF Scan, NextVisit, TypeOK, CurInv, OfVisits, Kind, Goto, Live, InTx, Ended,
          store, history
  <2>2. ASSUME NEW k \in Keys \cup {NoKey}, Read(r, k) PROVE TypeInv'
    <3>1. (IF Kind(r) = "RECONCILE" THEN posted[Cust(r)] ELSE balance[Cust(r)]) \in Int
      BY OpFacts DEF TypeOK
    <3>2. TypeOK'
      BY <2>2, <3>1 DEF Read, TypeOK, Goto, Live, InTx, store
    <3>3. CurInv'
      BY <2>2 DEF Read, TypeOK, CurInv, OfVisits, Kind, Goto, InTx, store
    <3> QED BY <3>2, <3>3
  <2>3. CASE Refuse(r) \/ InsertRow(r) \/ UpdateCustomer(r) \/ ReadEmail(r)
    BY <1>4, <2>3 DEF Refuse, InsertRow, UpdateCustomer, ReadEmail, TypeOK, CurInv, OfVisits, Kind,
          Goto, Live, InTx, Ended, store, history
  <2>4. CASE Conflict(r)
    BY <1>4, <2>4 DEF Conflict, NextVisit, TypeOK, CurInv, OfVisits, Kind, Goto, Live, InTx, Ended,
          store, history
  <2>5. CASE Commit(r)
    <3>1. pc[r] \in InTx
      BY <2>5 DEF Commit, InTx
    <3>2. Delta(r) \in Int /\ NewBalance(r) \in Int /\ (OfVisits(r) => cur[r] \in Visits)
      BY <3>1, <1>4, PointsFact
    <3>3. Cust(r) \in Customers
      BY <1>4, OpFacts
    <3>4. balance' \in [Customers -> Int] /\ posted' \in [Customers -> Int]
      BY <2>5, <3>2, <3>3 DEF Commit, TypeOK
    <3>5. rows' \in [Keys -> Nat] /\ fed' \in [Customers -> Nat] /\ earned' \subseteq Visits
      BY <2>5, <3>2, <3>3 DEF Commit, TypeOK
    <3>6. oldest' \in [Customers -> Ages] /\ newest' \in [Customers -> Ages]
      BY <2>5, <3>3 DEF Commit, CreditAges, TypeOK, Ages
    <3>7. /\ todo' \in [Requests -> SUBSET Visits]
          /\ pc' \in [Requests -> {"idle"} \cup Live \cup Ended]
      BY <2>5, <1>4 DEF Commit, Goto, NextVisit, TypeOK, Live, Ended
    <3>8. stale' \in [Requests -> BOOLEAN] /\ tainted' \in [Customers -> BOOLEAN]
      BY <2>5, <3>3 DEF Commit, Overtaken, TypeOK
    <3>11. deducted' \in [Customers -> Nat]
      <4>1. Points(r) \in Int /\ deducted[Cust(r)] \in Nat
        BY <1>4, <3>1, <3>3, PointsFact DEF TypeOK
      <4> QED BY <2>5, <3>3, <4>1 DEF Commit, TypeOK
    <3>9. TypeOK'
      BY <2>5, <3>4, <3>5, <3>6, <3>7, <3>8, <3>11 DEF Commit, TypeOK
    <3>10. CurInv'
      BY <2>5, <1>4 DEF Commit, Goto, NextVisit, CurInv, TypeOK, OfVisits, Kind, InTx
    <3> QED BY <3>9, <3>10
  <2>6. CASE SetEmail(r)
    BY <1>4, <2>6, OpFacts DEF SetEmail, TypeOK, CurInv, OfVisits, Kind, Goto, Live, InTx, Ended, history
  <2>7. CASE PostBonus(r)
    BY <1>4, <2>7, OpFacts DEF PostBonus, Overtaken, TypeOK, CurInv, OfVisits, Kind, Goto, Live, InTx,
          Ended, Ages
  <2>8. CASE IncrementBalance(r)
    BY <1>4, <2>8, OpFacts DEF IncrementBalance, Overtaken, TypeOK, CurInv, OfVisits, Kind, Goto,
          Live, InTx, Ended
  <2> QED BY <1>4, <2>1, <2>2, <2>3, <2>4, <2>5, <2>6, <2>7, <2>8 DEF Step
<1>5. ASSUME NEW r \in Requests, Fail(r) PROVE TypeInv'
  BY <1>5, OpFacts DEF Fail, TypeOK, CurInv, OfVisits, Kind, Goto, Live, InTx, Ended, store
<1>6. CASE UNCHANGED vars
  BY <1>6 DEF vars, store, request, history, TypeOK, CurInv, OfVisits, Kind
<1> QED BY <1>1, <1>2, <1>3, <1>4, <1>5, <1>6 DEF Next

-----------------------------------------------------------------------------
(* At most one row per unique key.  An insert waits for any other insert   *)
(* of its key, so the holder of a key is alone and its key is unwritten.   *)

Holds(r) == pc[r] \in {"inserted", "updated"} /\ cur[r] # NoKey

KeyInv ==
    /\ \A r \in Requests : Holds(r) => rows[cur[r]] = 0
    /\ \A q, r \in Requests : Holds(q) /\ Holds(r) /\ cur[q] = cur[r] => q = r

OnceInv == CreditedAtMostOnce /\ KeyInv

\* The key of a RECONCILE, which appends no row, is NoKey.
LEMMA ReconcileHasNoKey ==
    ASSUME TypeInv, NEW r \in Requests, pc[r] \in InTx, Kind(r) = "RECONCILE"
    PROVE  cur[r] = NoKey
<1>1. cur[r] = op[r].key
  BY DEF TypeInv, CurInv, OfVisits
<1>2. WellFormed(op[r]) /\ op[r].key \in Keys \cup {NoKey}
  BY OpFacts DEF TypeInv
<1> QED BY <1>1, <1>2 DEF WellFormed, Kind, Keys

LEMMA InitOnceInv == Init => OnceInv
BY DEF Init, OnceInv, CreditedAtMostOnce, KeyInv, Holds

LEMMA NextOnceInv == TypeInv /\ OnceInv /\ [Next]_vars => OnceInv'
<1> SUFFICES ASSUME TypeInv, OnceInv, [Next]_vars PROVE OnceInv'
  OBVIOUS
<1> USE DEF OnceInv, CreditedAtMostOnce, KeyInv, Holds
<1>1. ASSUME NEW v \in Visits, RecordVisit(v) PROVE OnceInv'
  BY <1>1 DEF RecordVisit, request, history
<1>2. CASE TimePasses
  BY <1>2 DEF TimePasses, request, history
<1>3. ASSUME NEW r \in Requests, Begin(r) PROVE OnceInv'
  BY <1>3 DEF Begin, BeginAccrue, BeginBackfill, BeginOther, BeginFeedback, BeginWelcome, TypeInv, TypeOK, Goto,
        store, history
<1>4. ASSUME NEW r \in Requests, Step(r) PROVE OnceInv'
  <2>1. CASE Scan(r) \/ Refuse(r) \/ ReadEmail(r)
    BY <1>4, <2>1 DEF Scan, NextVisit, Refuse, ReadEmail, TypeInv, TypeOK, Goto, store, history
  <2>2. ASSUME NEW k \in Keys \cup {NoKey}, Read(r, k) PROVE OnceInv'
    BY <1>4, <2>2 DEF Read, TypeInv, TypeOK, Goto, store
  <2>3. CASE InsertRow(r)
    BY <1>4, <2>3 DEF InsertRow, Unique, KeyFree, TypeInv, TypeOK, Goto, store, history
  <2>4. CASE Conflict(r)
    BY <1>4, <2>4 DEF Conflict, NextVisit, TypeInv, TypeOK, Goto, store, history
  <2>5. CASE UpdateCustomer(r)
    BY <1>4, <2>5, ReconcileHasNoKey DEF UpdateCustomer, TypeInv, TypeOK, Goto, InTx, store, history
  <2>6. CASE Commit(r)
    <3>1. pc' \in [Requests -> {"idle"} \cup Live \cup Ended] /\ pc'[r] \in {"done", "ready"}
      BY <1>4, <2>6 DEF Commit, Goto, NextVisit, TypeInv, TypeOK, Live, Ended
    <3>2. \A q \in Requests \ {r} : pc'[q] = pc[q]
      BY <1>4, <2>6 DEF Commit, Goto, TypeInv, TypeOK
    <3>3. cur' = cur
      BY <2>6 DEF Commit
    <3>4. \A k \in Keys : rows'[k] = IF k = cur[r] THEN 1 ELSE rows[k]
      BY <1>4, <2>6, ConstantsAssumption DEF Commit, TypeInv, TypeOK
    <3> QED BY <1>4, <2>6, <3>1, <3>2, <3>3, <3>4 DEF Commit, TypeInv, TypeOK
  <2>7. CASE SetEmail(r) \/ PostBonus(r) \/ IncrementBalance(r)
    BY <1>4, <2>7 DEF SetEmail, PostBonus, IncrementBalance, TypeInv, TypeOK, Goto, history
  <2> QED BY <1>4, <2>1, <2>2, <2>3, <2>4, <2>5, <2>6, <2>7 DEF Step
<1>5. ASSUME NEW r \in Requests, Fail(r) PROVE OnceInv'
  BY <1>5 DEF Fail, TypeInv, TypeOK, Goto, store
<1>6. CASE UNCHANGED vars
  BY <1>6 DEF vars, store, request, history
<1> QED BY <1>1, <1>2, <1>3, <1>4, <1>5, <1>6 DEF Next

-----------------------------------------------------------------------------
(* The balance owes no more than was deducted: what a request in flight    *)
(* has read did not either, and a debit has read enough.                   *)

SeenInv ==
    \A r \in Requests : pc[r] \in InTx /\ Kind(r) # "RECONCILE" =>
        seen[r] + deducted[Cust(r)] >= 0 /\ Covers(r, seen[r])

SignInv == DebtIsDeducted /\ SeenInv

LEMMA InitSignInv == Init => SignInv
<1> SUFFICES ASSUME Init PROVE SignInv
  OBVIOUS
<1>0. balance \in [Customers -> Openings] /\ Openings \subseteq Nat
  BY ConstantsAssumption DEF Init
<1>1. \A c \in Customers : balance[c] \in Nat /\ deducted[c] = 0
  BY <1>0 DEF Init
<1>2. DebtIsDeducted
  <2>1. ASSUME NEW c \in Customers PROVE balance[c] + deducted[c] >= 0
    <3>1. balance[c] \in Nat /\ deducted[c] = 0
      BY <1>1
    <3> QED BY <3>1
  <2> QED BY <2>1 DEF DebtIsDeducted
<1>4. \A r \in Requests : pc[r] = "idle"
  BY DEF Init
<1>3. SeenInv
  BY <1>4 DEF SeenInv, InTx
<1> QED BY <1>2, <1>3 DEF SignInv

\* No commit takes more than is there, but for what it deducts.
LEMMA CommitKeepsSign ==
    ASSUME TypeInv, SignInv, NEW r \in Requests, Commit(r)
    PROVE  /\ balance'[Cust(r)] + deducted'[Cust(r)] >= 0
           /\ deducted'[Cust(r)] >= deducted[Cust(r)]
           /\ \A c \in Customers \ {Cust(r)} : balance'[c] = balance[c] /\ deducted'[c] = deducted[c]
<1>1. pc[r] \in InTx /\ Cust(r) \in Customers
  BY OpFacts DEF Commit, InTx, TypeInv
<1>2. /\ Points(r) \in Int /\ (Kind(r) # "AUTOMATION" => Points(r) \in Nat)
      /\ seen[r] \in Int /\ deducted[Cust(r)] \in Nat
      /\ Kind(r) \in Kinds /\ Kind(r) \notin {"EMAIL", "WELCOME"}
  BY <1>1, PointsFact, OpFacts DEF TypeInv, TypeOK, CurInv
<1>3. Kind(r) = "DEBIT" => Points(r) = op[r].points /\ seen[r] >= op[r].points
  BY <1>1 DEF SignInv, SeenInv, Covers, Points, OfVisits
<1>4. Kind(r) # "RECONCILE" => seen[r] + deducted[Cust(r)] >= 0
  BY <1>1 DEF SignInv, SeenInv
<1>5. /\ balance'[Cust(r)] = NewBalance(r)
      /\ deducted'[Cust(r)] = deducted[Cust(r)] + IF Earns(r) /\ Points(r) < 0 THEN 0 - Points(r) ELSE 0
      /\ \A c \in Customers \ {Cust(r)} : balance'[c] = balance[c] /\ deducted'[c] = deducted[c]
  BY <1>1, <1>2 DEF Commit, TypeInv, TypeOK
<1>6. CASE Earns(r)
  <2>1. NewBalance(r) = seen[r] + Points(r) /\ Kind(r) # "RECONCILE"
    BY <1>6 DEF NewBalance, Earns, OfVisits
  <2> QED BY <1>2, <1>4, <1>5, <1>6, <2>1
<1>7. CASE ~Earns(r)
  <2>1. NewBalance(r) >= 0
    BY <1>2, <1>3, <1>7 DEF NewBalance, Earns, OfVisits, Kinds
  <2>2. deducted'[Cust(r)] = deducted[Cust(r)] /\ balance'[Cust(r)] = NewBalance(r)
    BY <1>2, <1>5, <1>7
  <2>3. NewBalance(r) \in Int
    BY <1>1, PointsFact
  <2> QED BY <1>2, <1>5, <2>1, <2>2, <2>3
<1> QED BY <1>6, <1>7

LEMMA NextSignInv == TypeInv /\ SignInv /\ [Next]_vars => SignInv'
<1> SUFFICES ASSUME TypeInv, SignInv, [Next]_vars PROVE SignInv'
  OBVIOUS
<1> USE DEF SignInv
<1>1. ASSUME NEW v \in Visits, RecordVisit(v) PROVE SignInv'
  BY <1>1 DEF RecordVisit, DebtIsDeducted, SeenInv, Covers, Kind, Cust, request, history
<1>2. CASE TimePasses
  BY <1>2 DEF TimePasses, DebtIsDeducted, SeenInv, Covers, Kind, Cust, request, history
<1>3. ASSUME NEW r \in Requests, Begin(r) PROVE SignInv'
  BY <1>3 DEF Begin, BeginAccrue, BeginBackfill, BeginOther, BeginFeedback, BeginWelcome, TypeInv, TypeOK, Goto,
        DebtIsDeducted, SeenInv, Covers, Kind, Cust, InTx, store, history
<1>4. ASSUME NEW r \in Requests, Step(r) PROVE SignInv'
  <2>1. CASE Scan(r) \/ Refuse(r) \/ ReadEmail(r)
    BY <1>4, <2>1 DEF Scan, NextVisit, Refuse, ReadEmail, TypeInv, TypeOK, Goto, DebtIsDeducted,
          SeenInv, Covers, Kind, Cust, InTx, store, history
  <2>2. ASSUME NEW k \in Keys \cup {NoKey}, Read(r, k) PROVE SignInv'
    <3>1. Cust(r) \in Customers
      BY <1>4, OpFacts DEF TypeInv
    <3>2. balance[Cust(r)] + deducted[Cust(r)] >= 0
      BY <3>1 DEF DebtIsDeducted
    <3> QED BY <1>4, <2>2, <3>2 DEF Read, TypeInv, TypeOK, Goto, DebtIsDeducted, SeenInv, Covers,
          Kind, Cust, InTx, store
  <2>3. CASE InsertRow(r) \/ UpdateCustomer(r)
    BY <1>4, <2>3 DEF InsertRow, UpdateCustomer, TypeInv, TypeOK, Goto, DebtIsDeducted, SeenInv,
          Covers, Kind, Cust, InTx, store, history
  <2>4. CASE Conflict(r)
    BY <1>4, <2>4 DEF Conflict, NextVisit, TypeInv, TypeOK, Goto, DebtIsDeducted, SeenInv, Covers,
          Kind, Cust, InTx, store, history
  <2>5. CASE Commit(r)
    <3>1. /\ balance'[Cust(r)] + deducted'[Cust(r)] >= 0
          /\ deducted'[Cust(r)] >= deducted[Cust(r)]
          /\ \A c \in Customers \ {Cust(r)} : balance'[c] = balance[c] /\ deducted'[c] = deducted[c]
      BY <1>4, <2>5, CommitKeepsSign
    <3>2. DebtIsDeducted'
      BY <3>1 DEF DebtIsDeducted
    <3>3. ASSUME NEW q \in Requests, pc'[q] \in InTx, Kind(q) # "RECONCILE"
          PROVE  seen'[q] + deducted'[Cust(q)] >= 0 /\ Covers(q, seen'[q])
      <4>1. q # r /\ pc[q] = pc'[q] /\ seen'[q] = seen[q]
        BY <1>4, <2>5, <3>3 DEF Commit, Goto, NextVisit, TypeInv, TypeOK, InTx
      <4>2. seen[q] + deducted[Cust(q)] >= 0 /\ Covers(q, seen[q])
        BY <3>3, <4>1 DEF SeenInv
      <4>3. Cust(q) \in Customers /\ Cust(r) \in Customers
        BY <1>4, OpFacts DEF TypeInv
      <4>4. /\ deducted'[Cust(q)] >= deducted[Cust(q)] /\ seen[q] \in Int
            /\ deducted[Cust(q)] \in Int /\ deducted'[Cust(q)] \in Int
        BY <1>4, <2>5, <3>1, <4>3, NextTypeInv DEF Next, Step, TypeInv, TypeOK
      <4> QED BY <4>1, <4>2, <4>4
    <3>4. op' = op
      BY <2>5 DEF Commit
    <3> QED BY <3>2, <3>3, <3>4 DEF SeenInv, Kind, Cust, Covers
  <2>6. CASE SetEmail(r) \/ PostBonus(r)
    BY <1>4, <2>6 DEF SetEmail, PostBonus, TypeInv, TypeOK, Goto, DebtIsDeducted, SeenInv, Covers,
          Kind, Cust, InTx, history
  <2>7. CASE IncrementBalance(r)
    BY <1>4, <2>7, OpFacts DEF IncrementBalance, TypeInv, TypeOK, Goto, DebtIsDeducted, SeenInv,
          Covers, Kind, Cust, InTx, CurInv
  <2> QED BY <1>4, <2>1, <2>2, <2>3, <2>4, <2>5, <2>6, <2>7 DEF Step
<1>5. ASSUME NEW r \in Requests, Fail(r) PROVE SignInv'
  BY <1>5 DEF Fail, TypeInv, TypeOK, Goto, DebtIsDeducted, SeenInv, Covers, Kind, Cust, InTx, store
<1>6. CASE UNCHANGED vars
  BY <1>6 DEF vars, store, request, history, DebtIsDeducted, SeenInv, Covers, Kind, Cust
<1> QED BY <1>1, <1>2, <1>3, <1>4, <1>5, <1>6 DEF Next

-----------------------------------------------------------------------------
(* Drift.  A request that nobody overtook still sees the value it will     *)
(* replace, so its write moves balance and ledger by the same amount.      *)

FreshInv ==
    \A r \in Requests : pc[r] \in InTx /\ ~stale[r] =>
        seen[r] = IF Kind(r) = "RECONCILE" THEN posted[Cust(r)] ELSE balance[Cust(r)]

DriftInv == DriftNeedsOverlap /\ FreshInv

LEMMA InitDriftInv == Init => DriftInv
<1> SUFFICES ASSUME Init PROVE DriftInv
  OBVIOUS
<1>1. \A c \in Customers : balance[c] \in Nat /\ owed[c] = 0 /\ posted[c] = balance[c]
  BY ConstantsAssumption DEF Init
<1>2. DriftNeedsOverlap
  BY <1>1 DEF DriftNeedsOverlap
<1>3. FreshInv
  BY DEF Init, FreshInv, InTx
<1> QED BY <1>2, <1>3 DEF DriftInv

\* What one commit does to the difference.
LEMMA CommitKeepsDrift ==
    ASSUME TypeInv, DriftInv, NEW r \in Requests, Commit(r), ~tainted'[Cust(r)]
    PROVE  balance'[Cust(r)] + owed'[Cust(r)] = posted'[Cust(r)]
<1> DEFINE c == Cust(r)
<1>1. c \in Customers /\ Kind(r) \in Kinds
  BY OpFacts DEF TypeInv
<1>2. pc[r] \in InTx /\ Kind(r) \notin {"EMAIL", "WELCOME"}
  BY DEF Commit, InTx, TypeInv, CurInv
<1>3. Delta(r) \in Int /\ NewBalance(r) \in Int /\ Points(r) \in Int
  BY <1>2, PointsFact
<1>4. /\ balance'[c] = NewBalance(r)
      /\ posted'[c] = posted[c] + Delta(r)
      /\ owed'[c] = owed[c]
  BY <1>1 DEF Commit, TypeInv, TypeOK
<1>5. /\ balance[c] \in Int /\ posted[c] \in Int /\ owed[c] \in Int /\ seen[r] \in Int
      /\ tainted[c] \in BOOLEAN /\ stale[r] \in BOOLEAN
  BY <1>1 DEF TypeInv, TypeOK
<1>6. CASE Kind(r) = "RECONCILE"
  <2>1. ~stale[r] /\ ~(seen[r] < 0) /\ owed[c] = 0
    BY <1>1, <1>6 DEF Commit, TypeInv, TypeOK
  <2>2. seen[r] = posted[c]
    BY <1>2, <1>6, <2>1 DEF DriftInv, FreshInv
  <2>3. NewBalance(r) = seen[r] /\ Delta(r) = 0
    BY <1>5, <1>6, <2>1 DEF NewBalance, Delta, Earns, OfVisits
  <2> QED BY <1>4, <1>5, <2>1, <2>2, <2>3
<1>7. CASE Kind(r) # "RECONCILE"
  <2>1. ~stale[r] /\ ~tainted[c]
    BY <1>1, <1>5, <1>7 DEF Commit, TypeInv, TypeOK
  <2>2. seen[r] = balance[c]
    BY <1>2, <1>7, <2>1 DEF DriftInv, FreshInv
  <2>3. balance[c] + owed[c] = posted[c]
    BY <1>1, <2>1 DEF DriftInv, DriftNeedsOverlap
  <2>4. NewBalance(r) = seen[r] + Delta(r)
    BY <1>1, <1>2, <1>3, <1>5, <1>7 DEF NewBalance, Delta, Earns, OfVisits, Kinds
  <2> QED BY <1>3, <1>4, <1>5, <2>2, <2>3, <2>4
<1> QED BY <1>6, <1>7

LEMMA NextDriftInv == TypeInv /\ DriftInv /\ [Next]_vars => DriftInv'
<1> SUFFICES ASSUME TypeInv, DriftInv, [Next]_vars PROVE DriftInv'
  OBVIOUS
<1> USE DEF DriftInv
<1>1. ASSUME NEW v \in Visits, RecordVisit(v) PROVE DriftInv'
  BY <1>1 DEF RecordVisit, DriftNeedsOverlap, FreshInv, Kind, Cust, request, history
<1>2. CASE TimePasses
  BY <1>2 DEF TimePasses, DriftNeedsOverlap, FreshInv, Kind, Cust, request, history
<1>3. ASSUME NEW r \in Requests, Begin(r) PROVE DriftInv'
  BY <1>3 DEF Begin, BeginAccrue, BeginBackfill, BeginOther, BeginFeedback, BeginWelcome, TypeInv, TypeOK, Goto,
        DriftNeedsOverlap, FreshInv, Kind, Cust, InTx, store, history
<1>4. ASSUME NEW r \in Requests, Step(r) PROVE DriftInv'
  <2>1. CASE Scan(r) \/ Refuse(r) \/ ReadEmail(r)
    BY <1>4, <2>1 DEF Scan, NextVisit, Refuse, ReadEmail, TypeInv, TypeOK, Goto, DriftNeedsOverlap,
          FreshInv, Kind, Cust, InTx, store, history
  <2>2. ASSUME NEW k \in Keys \cup {NoKey}, Read(r, k) PROVE DriftInv'
    BY <1>4, <2>2 DEF Read, TypeInv, TypeOK, Goto, DriftNeedsOverlap, FreshInv, Kind, Cust, InTx,
          store
  <2>3. CASE InsertRow(r) \/ UpdateCustomer(r)
    BY <1>4, <2>3 DEF InsertRow, UpdateCustomer, TypeInv, TypeOK, Goto, DriftNeedsOverlap, FreshInv,
          Kind, Cust, InTx, store, history
  <2>4. CASE Conflict(r)
    BY <1>4, <2>4 DEF Conflict, NextVisit, TypeInv, TypeOK, Goto, DriftNeedsOverlap, FreshInv, Kind,
          Cust, InTx, store, history
  <2>5. CASE Commit(r)
    <3>1. DriftNeedsOverlap'
      <4>1. ASSUME NEW c \in Customers, ~tainted'[c], c # Cust(r)
            PROVE  balance'[c] + owed'[c] = posted'[c]
        BY <1>4, <2>5, <4>1 DEF Commit, DriftNeedsOverlap, TypeInv, TypeOK
      <4> QED BY <1>4, <2>5, <4>1, CommitKeepsDrift DEF DriftNeedsOverlap
    <3>2. FreshInv'
      <4> SUFFICES ASSUME NEW q \in Requests, pc'[q] \in InTx, ~stale'[q]
                   PROVE  seen'[q] = IF Kind(q) = "RECONCILE" THEN posted'[Cust(q)]
                                                             ELSE balance'[Cust(q)]
        BY <2>5 DEF FreshInv, Commit, Kind, Cust
      <4>1. q # r /\ pc[q] = pc'[q] /\ seen'[q] = seen[q]
        BY <1>4, <2>5 DEF Commit, Goto, NextVisit, TypeInv, TypeOK, InTx
      <4>2. /\ ~stale[q]
            /\ Cust(q) = Cust(r) => Kind(r) = "RECONCILE" /\ Kind(q) \notin BalanceReaders
        BY <1>4, <2>5, <4>1, OpFacts DEF Commit, Overtaken, TypeInv, TypeOK
      <4>3. Kind(q) \in Kinds /\ Cust(q) \in Customers
        BY OpFacts DEF TypeInv
      <4>4. seen[q] = IF Kind(q) = "RECONCILE" THEN posted[Cust(q)] ELSE balance[Cust(q)]
        BY <4>1, <4>2 DEF FreshInv
      <4>5. CASE Cust(q) = Cust(r)
        <5>1. Kind(q) = "RECONCILE" /\ Delta(r) = 0
          BY <4>2, <4>3, <4>5 DEF BalanceReaders, Delta, Earns, OfVisits
        <5> QED BY <2>5, <4>1, <4>3, <4>4, <4>5, <5>1 DEF Commit, TypeInv, TypeOK
      <4>6. CASE Cust(q) # Cust(r)
        BY <2>5, <4>1, <4>3, <4>4, <4>6 DEF Commit, TypeInv, TypeOK
      <4> QED BY <4>5, <4>6
    <3> QED BY <3>1, <3>2
  <2>6. CASE SetEmail(r)
    BY <1>4, <2>6 DEF SetEmail, TypeInv, TypeOK, Goto, DriftNeedsOverlap, FreshInv, Kind, Cust, InTx,
          history
  <2>7. CASE PostBonus(r)
    <3>1. DriftNeedsOverlap'
      BY <1>4, <2>7, OpFacts DEF PostBonus, TypeInv, TypeOK, DriftNeedsOverlap
    <3>2. FreshInv'
      BY <1>4, <2>7, OpFacts DEF PostBonus, Overtaken, LedgerReaders, TypeInv, TypeOK, Goto, FreshInv,
            Kind, Cust, InTx
    <3> QED BY <3>1, <3>2
  <2>8. CASE IncrementBalance(r)
    <3>1. DriftNeedsOverlap'
      BY <1>4, <2>8, OpFacts DEF IncrementBalance, TypeInv, TypeOK, DriftNeedsOverlap
    <3>2. FreshInv'
      BY <1>4, <2>8, OpFacts DEF IncrementBalance, Overtaken, BalanceReaders, TypeInv, TypeOK, Goto,
            FreshInv, Kind, Cust, InTx, Kinds
    <3> QED BY <3>1, <3>2
  <2> QED BY <1>4, <2>1, <2>2, <2>3, <2>4, <2>5, <2>6, <2>7, <2>8 DEF Step
<1>5. ASSUME NEW r \in Requests, Fail(r) PROVE DriftInv'
  BY <1>5, OpFacts DEF Fail, TypeInv, TypeOK, Goto, DriftNeedsOverlap, FreshInv, Kind, Cust, InTx,
        store
<1>6. CASE UNCHANGED vars
  BY <1>6 DEF vars, store, request, history, DriftNeedsOverlap, FreshInv, Kind, Cust
<1> QED BY <1>1, <1>2, <1>3, <1>4, <1>5, <1>6 DEF Next

-----------------------------------------------------------------------------
(* The self-healing backfill.  What it found missing and has struck off    *)
(* its list is credited, and a credited visit shows its points.            *)

Healing == {"ready", "done"} \cup InTx

HealInv ==
    /\ \A v \in Visits : rows[v] > 0 => v \in earned
    /\ \A r \in Requests : Kind(r) = "BACKFILL" /\ pc[r] \in Healing =>
          /\ \A v \in found[r] \ todo[r] : rows[v] > 0
          /\ pc[r] = "done" => todo[r] = {}

\* Only a transaction over visits carries a visit as its key.
LEMMA VisitKeys ==
    ASSUME TypeInv, NEW r \in Requests, pc[r] \in InTx, cur[r] \in Visits
    PROVE  OfVisits(r)
<1>1. Kind(r) \in Kinds /\ WellFormed(op[r])
  BY OpFacts DEF TypeInv
<1>2. ~OfVisits(r) => op[r].key \in Visits
  BY DEF TypeInv, CurInv
<1> QED BY <1>1, <1>2 DEF WellFormed, OfVisits, Kind

LEMMA InitHealInv == Init => HealInv
BY DEF Init, HealInv, Healing, InTx, Keys

LEMMA NextHealInv == TypeInv /\ HealInv /\ [Next]_vars => HealInv'
<1> SUFFICES ASSUME TypeInv, HealInv, [Next]_vars PROVE HealInv'
  OBVIOUS
<1> USE DEF HealInv, Healing
<1>1. ASSUME NEW v \in Visits, RecordVisit(v) PROVE HealInv'
  BY <1>1 DEF RecordVisit, Kind, InTx, request, history
<1>2. CASE TimePasses
  BY <1>2 DEF TimePasses, Kind, InTx, request, history
<1>3. ASSUME NEW r \in Requests, Begin(r) PROVE HealInv'
  BY <1>3 DEF Begin, BeginAccrue, BeginBackfill, BeginOther, BeginFeedback, BeginWelcome, TypeInv, TypeOK, Goto,
        Kind, InTx, store, history
<1>4. ASSUME NEW r \in Requests, Step(r) PROVE HealInv'
  <2>1. CASE Scan(r)
    BY <1>4, <2>1 DEF Scan, NextVisit, TypeInv, TypeOK, Goto, Kind, InTx, store, history
  <2>2. ASSUME NEW k \in Keys \cup {NoKey}, Read(r, k) PROVE HealInv'
    BY <1>4, <2>2 DEF Read, TypeInv, TypeOK, Goto, Kind, InTx, store
  <2>3. CASE Refuse(r) \/ InsertRow(r)
    BY <1>4, <2>3 DEF Refuse, InsertRow, TypeInv, TypeOK, Goto, Kind, InTx, store, history
  <2>7. CASE UpdateCustomer(r)
    BY <1>4, <2>7 DEF UpdateCustomer, TypeInv, TypeOK, Goto, Kind, InTx, store, history
  <2>8. CASE ReadEmail(r)
    BY <1>4, <2>8 DEF ReadEmail, TypeInv, TypeOK, Goto, Kind, InTx, store, history
  <2>4. CASE Conflict(r)
    BY <1>4, <2>4 DEF Conflict, NextVisit, TypeInv, TypeOK, Goto, Kind, InTx, store, history
  <2>5. CASE Commit(r)
    <3>1. pc[r] \in InTx
      BY <2>5 DEF Commit, InTx
    <3>2. cur[r] \in Visits <=> OfVisits(r)
      BY <1>4, <3>1, PointsFact, VisitKeys
    <3>3. \A v \in Visits : rows'[v] = IF v = cur[r] THEN rows[v] + 1 ELSE rows[v]
      BY <2>5, ConstantsAssumption DEF Commit, TypeInv, TypeOK, Keys
    <3>4. \A v \in Visits : rows'[v] > 0 => v \in earned'
      BY <2>5, <3>2, <3>3 DEF Commit, TypeInv, TypeOK
    <3>5. \A v \in Visits : rows[v] > 0 => rows'[v] > 0
      BY <3>3 DEF TypeInv, TypeOK, Keys
    <3>6. ASSUME NEW q \in Requests, Kind(q) = "BACKFILL", pc'[q] \in Healing
          PROVE  /\ \A v \in found'[q] \ todo'[q] : rows'[v] > 0
                 /\ pc'[q] = "done" => todo'[q] = {}
      <4>1. CASE q = r
        <5>1. todo'[r] = todo[r] \ {cur[r]} /\ found'[r] = found[r] /\ found[r] \subseteq Visits
          BY <2>5, <1>4 DEF Commit, TypeInv, TypeOK
        <5>2. cur[r] \in Visits /\ rows'[cur[r]] > 0
          BY <3>2, <3>3, <3>6, <4>1 DEF OfVisits, TypeInv, TypeOK, Keys
        <5>3. \A v \in found[r] \ todo[r] : rows'[v] > 0
          BY <3>1, <3>5, <3>6, <4>1, <5>1
        <5>4. pc'[r] = NextVisit(todo'[r])
          BY <2>5, <1>4 DEF Commit, Goto, TypeInv, TypeOK
        <5> QED BY <4>1, <5>1, <5>2, <5>3, <5>4 DEF NextVisit
      <4>2. CASE q # r
        <5>1. pc'[q] = pc[q] /\ todo'[q] = todo[q] /\ found'[q] = found[q] /\ found[q] \subseteq Visits
          BY <2>5, <1>4, <4>2 DEF Commit, Goto, TypeInv, TypeOK
        <5> QED BY <3>5, <3>6, <5>1
      <4> QED BY <4>1, <4>2
    <3>7. op' = op
      BY <2>5 DEF Commit
    <3> QED BY <3>4, <3>6, <3>7 DEF Kind
  <2>6. CASE SetEmail(r) \/ PostBonus(r) \/ IncrementBalance(r)
    BY <1>4, <2>6 DEF SetEmail, PostBonus, IncrementBalance, CurInv, TypeInv, TypeOK, Goto, Kind,
          InTx, history
  <2> QED BY <1>4, <2>1, <2>2, <2>3, <2>4, <2>5, <2>6, <2>7, <2>8 DEF Step
<1>5. ASSUME NEW r \in Requests, Fail(r) PROVE HealInv'
  BY <1>5 DEF Fail, TypeInv, TypeOK, Goto, Kind, InTx, store
<1>6. CASE UNCHANGED vars
  BY <1>6 DEF vars, store, request, history, Kind, InTx
<1> QED BY <1>1, <1>2, <1>3, <1>4, <1>5, <1>6 DEF Next

LEMMA HealedIsComplete == TypeInv /\ CreditedAtMostOnce /\ HealInv => BackfillComplete
BY DEF TypeInv, TypeOK, CreditedAtMostOnce, HealInv, Healing, BackfillComplete, Keys

-----------------------------------------------------------------------------
(* No circle of waiting transactions.                                      *)

\* Whatever a request has to credit, or has in hand, is its customer's.
OwnInv ==
    \A r \in Requests :
        /\ \A v \in todo[r] : Owner[v] = Cust(r)
        /\ pc[r] = "ready" /\ OfVisits(r) => todo[r] # {}

LEMMA InitOwnInv == Init => OwnInv
BY DEF Init, OwnInv

LEMMA NextOwnInv == TypeInv /\ OwnInv /\ [Next]_vars => OwnInv'
<1> SUFFICES ASSUME TypeInv, OwnInv, [Next]_vars PROVE OwnInv'
  OBVIOUS
<1>1. CASE (\E v \in Visits : RecordVisit(v)) \/ TimePasses \/ UNCHANGED vars
  BY <1>1 DEF RecordVisit, TimePasses, vars, request, OwnInv, OfVisits, Kind, Cust
<1>2. ASSUME NEW r \in Requests, Begin(r) \/ Step(r) \/ Fail(r) PROVE OwnInv'
  <2>1. /\ op' = op
        /\ \A q \in Requests \ {r} : pc'[q] = pc[q] /\ todo'[q] = todo[q]
    BY <1>2 DEF Begin, BeginAccrue, BeginBackfill, BeginOther, BeginFeedback, BeginWelcome, Step, Scan, Read, Refuse, InsertRow,
       Conflict, UpdateCustomer, Commit, ReadEmail, SetEmail, PostBonus, IncrementBalance, Fail, Goto,
       TypeInv, TypeOK
  <2>2. \A q \in Requests : Cust(q)' = Cust(q) /\ OfVisits(q)' = OfVisits(q)
    BY <2>1 DEF Cust, OfVisits, Kind
  <2>3. /\ \A v \in todo'[r] : Owner[v] = Cust(r)
        /\ pc'[r] = "ready" /\ OfVisits(r) => todo'[r] # {}
    <3> USE DEF OwnInv, TypeInv, TypeOK, Goto
    <3>1. CASE BeginAccrue(r)
      <4>1. todo'[r] = {op[r].key} /\ op[r].key \in Keys
        BY <3>1 DEF BeginAccrue, Keys
      <4>2. WellFormed(op[r]) /\ NoKey \notin Keys
        BY OpFacts, ConstantsAssumption
      <4> QED BY <4>1, <4>2 DEF WellFormed, Cust
    <3>2. CASE BeginBackfill(r)
      BY <3>2 DEF BeginBackfill
    <3>3. CASE BeginOther(r) \/ BeginFeedback(r) \/ BeginWelcome(r)
      BY <3>3 DEF BeginOther, BeginFeedback, BeginWelcome, OfVisits
    <3>4. CASE Scan(r)
      BY <3>4 DEF Scan, NextVisit
    <3>5. CASE Conflict(r)
      BY <3>5 DEF Conflict, NextVisit
    <3>6. CASE Commit(r)
      <4>1. todo'[r] = todo[r] \ {cur[r]} /\ pc'[r] = NextVisit(todo'[r])
        BY <3>6 DEF Commit
      <4> QED BY <4>1 DEF NextVisit
    <3>7. CASE ~(Begin(r) \/ Scan(r) \/ Conflict(r) \/ Commit(r))
      <4>1. todo' = todo /\ pc'[r] # "ready"
        BY <1>2, <3>7 DEF Step, Read, Refuse, InsertRow, UpdateCustomer, ReadEmail, SetEmail, PostBonus,
           IncrementBalance, Fail
      <4> QED BY <4>1
    <3> QED BY <3>1, <3>2, <3>3, <3>4, <3>5, <3>6, <3>7 DEF Begin
  <2> QED BY <2>1, <2>2, <2>3 DEF OwnInv
<1> QED BY <1>1, <1>2 DEF Next

\* Two transactions with one key in hand are of one customer.
LEMMA KeyOwner ==
    ASSUME TypeInv, OwnInv, NEW r \in Requests, pc[r] \in InTx, cur[r] # NoKey
    PROVE  Owner[cur[r]] = Cust(r) /\ Kind(r) # "RECONCILE"
<1>1. CASE OfVisits(r)
  BY <1>1 DEF TypeInv, CurInv, OwnInv, OfVisits
<1>2. CASE ~OfVisits(r)
  <2>1. cur[r] = op[r].key /\ WellFormed(op[r])
    BY <1>2, OpFacts DEF TypeInv, CurInv
  <2> QED BY <2>1, ReconcileHasNoKey DEF WellFormed, Cust
<1> QED BY <1>1, <1>2

\* The locks have an order - visit row, unique key, customer row - and the
\* holder of the last waits for nothing.
LEMMA OwnedIsFree == TypeInv /\ OwnInv => NobodyStuck
<1> SUFFICES ASSUME TypeInv, OwnInv, NEW r \in Requests, pc[r] \in Live, ~CanGo(r)
             PROVE  \E q \in Requests : Cust(q) = Cust(r) /\ pc[q] \in InTx /\ CanGo(q)
  BY DEF NobodyStuck
<1>1. CASE \E q \in Requests : Cust(q) = Cust(r) /\ pc[q] = "updated"
  BY <1>1 DEF CanGo, InTx
<1>2. CASE \A q \in Requests : Cust(q) = Cust(r) => pc[q] # "updated"
  <2>1. \A q \in Requests : Cust(q) = Cust(r) => CustomerRowFree(q)
    BY <1>2 DEF CustomerRowFree
  <2>2. \A q \in Requests : Cust(q) = Cust(r) /\ pc[q] = "inserted" => CanGo(q)
    BY <2>1 DEF CanGo
  <2>3. ASSUME NEW q \in Requests, Cust(q) = Cust(r), pc[q] = "read", ~CanGo(q)
        PROVE  \E p \in Requests : Cust(p) = Cust(r) /\ pc[p] = "inserted"
    <3>1. cur[q] # NoKey /\ ~KeyFree(q)
      BY <2>1, <2>3 DEF CanGo
    <3>2. PICK p \in Requests : cur[p] = cur[q] /\ pc[p] \in {"inserted", "updated"}
      BY <3>1 DEF KeyFree
    <3>3. Cust(p) = Cust(q)
      BY <2>3, <3>1, <3>2, KeyOwner DEF InTx
    <3> QED BY <1>2, <2>3, <3>2, <3>3
  <2>4. CASE pc[r] = "ready"
    <3>1. OfVisits(r) /\ \A k \in todo[r] : ~VisitRowFree(r, k)
      BY <2>4 DEF CanGo
    <3>2. PICK k \in todo[r] : TRUE
      BY <2>4, <3>1 DEF OwnInv
    <3>3. PICK q \in Requests : cur[q] = k /\ pc[q] \in InTx
      BY <3>1 DEF VisitRowFree
    <3>4. k # NoKey /\ Owner[k] = Cust(r)
      BY ConstantsAssumption DEF OwnInv, TypeInv, TypeOK, Keys
    <3>5. Cust(q) = Cust(r)
      BY <3>3, <3>4, KeyOwner
    <3>6. pc[q] \in {"read", "inserted"}
      BY <1>2, <3>3, <3>5 DEF InTx
    <3> QED BY <2>2, <2>3, <3>3, <3>5, <3>6 DEF InTx
  <2>5. CASE pc[r] = "read"
    BY <2>2, <2>3, <2>5 DEF InTx
  <2> QED BY <2>1, <2>4, <2>5 DEF CanGo, Live, InTx
<1> QED BY <1>1, <1>2

-----------------------------------------------------------------------------

\* Every variable keeps its type and an open transaction keeps hold of the
\* key it was begun for.
THEOREM TypeCorrect == Spec => [](TypeOK /\ CurInv)
BY InitTypeInv, NextTypeInv, PTL DEF Spec, TypeInv

\* No visit, referral, challenge or automation is credited twice under one
\* reference, whatever overlaps: the guarantee of the unique index.
THEOREM AtMostOnce == Spec => []CreditedAtMostOnce
<1>1. Spec => []TypeInv
  BY InitTypeInv, NextTypeInv, PTL DEF Spec
<1>2. Spec => []OnceInv
  BY <1>1, InitOnceInv, NextOnceInv, PTL DEF Spec
<1> QED BY <1>2, PTL DEF OnceInv

\* No interleaving of debits, expiries, bonuses and reconciliations, and no
\* lost update, takes a balance further below zero than automations deducted.
THEOREM DebtOnlyDeducted == Spec => []DebtIsDeducted
<1>1. Spec => []TypeInv
  BY InitTypeInv, NextTypeInv, PTL DEF Spec
<1>2. Spec => []SignInv
  BY <1>1, InitSignInv, NextSignInv, PTL DEF Spec
<1> QED BY <1>2, PTL DEF SignInv

\* Balance and ledger part only through an update that overlapped another, or
\* through a bonus that failed half-way.
THEOREM DriftOnlyByOverlap == Spec => []DriftNeedsOverlap
<1>1. Spec => []TypeInv
  BY InitTypeInv, NextTypeInv, PTL DEF Spec
<1>2. Spec => []DriftInv
  BY <1>1, InitDriftInv, NextDriftInv, PTL DEF Spec
<1> QED BY <1>2, PTL DEF DriftInv

\* A backfill that ends normally leaves no visit it found without its points.
THEOREM BackfillHeals == Spec => []BackfillComplete
<1>1. Spec => []TypeInv
  BY InitTypeInv, NextTypeInv, PTL DEF Spec
<1>2. Spec => []CreditedAtMostOnce
  BY AtMostOnce
<1>3. Spec => []HealInv
  BY <1>1, InitHealInv, NextHealInv, PTL DEF Spec
<1> QED BY <1>1, <1>2, <1>3, HealedIsComplete, PTL

\* Transactions on visits, unique keys and customer rows never deadlock,
\* however many of them run.
THEOREM NoCircularWait == Spec => []NobodyStuck
<1>1. Spec => []TypeInv
  BY InitTypeInv, NextTypeInv, PTL DEF Spec
<1>2. Spec => []OwnInv
  BY <1>1, InitOwnInv, NextOwnInv, PTL DEF Spec
<1> QED BY <1>1, <1>2, OwnedIsFree, PTL
=============================================================================
