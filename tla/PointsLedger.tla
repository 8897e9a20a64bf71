---------------------------- MODULE PointsLedger ----------------------------
(***************************************************************************)
(* The points wallet of a customer: the append-only RewardPointsLedger and *)
(* the denormalised Customer.currentPointsBalance, under the concurrent    *)
(* HTTP handlers, workers and cron jobs that write them.                   *)
(*                                                                         *)
(* Every write is a Postgres transaction at the default READ COMMITTED     *)
(* level: the balance is READ, the new balance is computed in TypeScript,  *)
(* a ledger row is INSERTed and the balance is UPDATEd to the computed     *)
(* ABSOLUTE value.  A request below is one call of such an operation.  An  *)
(* uncommitted insert makes an insert of the same unique key wait; an      *)
(* uncommitted update makes an update of the same customer row wait.       *)
(*                                                                         *)
(* The rows of the ledger are abstracted to what the code reads of them:   *)
(* their signed sum, how many carry each unique key, the age of the oldest *)
(* (and, for the documented expiry rule, of the newest) CREDIT row, and    *)
(* how many FEEDBACK rows were written today.                              *)
(***************************************************************************)
EXTENDS Integers

CONSTANTS
    Customers,    \* rows of the Customer table
    Visits,       \* Visit ids; also the keys <<customer, VISIT_ACCRUAL, visit>>
    Refs,         \* every other non-null unique key <<customer, reason, reference>>
    NoKey,        \* a row whose referenceId is NULL is never unique-checked
    Owner,        \* Owner[k]: the customer of the key k
    VisitPoints,  \* visitBasePoints + floor(amountSpent * pointsPerPound)
    Requests,     \* calls in the behaviour; bounds how many there are
    Operations,   \* what a call may ask for
    Openings      \* balances a customer may start with (0, or one earlier CREDIT)

Keys == Visits \cup Refs

Kinds == {"ACCRUE", "BACKFILL", "CREDIT", "DEBIT", "AUTOMATION", "FEEDBACK", "EMAIL",
          "WELCOME", "EXPIRE", "RECONCILE"}

Operation == [kind : Kinds, cust : Customers, key : Keys \cup {NoKey}, points : Int]

\* A request is well formed when its key belongs to its customer; only ACCRUE
\* names a visit, and only CREDIT, DEBIT and AUTOMATION another reference (an
\* automation always its workflow).  DEDUCT_POINTS awards a negative number.
WellFormed(o) ==
    /\ o.key # NoKey => Owner[o.key] = o.cust
    /\ o.kind = "ACCRUE" <=> o.key \in Visits
    /\ o.key \in Refs => o.kind \in {"CREDIT", "DEBIT", "AUTOMATION"}
    /\ o.kind = "AUTOMATION" => o.key \in Refs
    /\ o.points < 0 => o.kind = "AUTOMATION"

ASSUME ConstantsAssumption ==
    /\ NoKey \notin Keys
    /\ Visits \cap Refs = {}
    /\ Owner \in [Keys -> Customers]
    /\ VisitPoints \in [Visits -> Nat]
    /\ Operations \subseteq Operation
    /\ \A o \in Operations : WellFormed(o)
    /\ Openings \subseteq Nat

VARIABLES
    balance,   \* balance[c]: Customer.currentPointsBalance
    posted,    \* posted[c]: CREDIT points minus DEBIT points over the ledger of c
    rows,      \* rows[k]: number of committed ledger rows with the unique key k
    visits,    \* committed Visit rows
    earned,    \* visits whose Visit.pointsEarned has been set
    oldest,    \* oldest[c]: age of the oldest CREDIT row of c
    newest,    \* newest[c]: age of the latest CREDIT row of c
    fed,       \* fed[c]: FEEDBACK rows of c written today
    email,     \* customers with an e-mail address
    pc, op,    \* where each request is, and what it asks for
    seen,      \* the balance (RECONCILE: the ledger sum) the request has read
    todo, cur, \* keys a request has still to credit, and the one in hand
    found,     \* the visits a BACKFILL found missing
    stale,     \* history: the customer was written since the request read it
    owed,      \* history: bonus points posted and not yet in the balance
    tainted,   \* history: an update of c was lost or torn and not reconciled
    deducted   \* history: points automations have taken from c

store == <<balance, posted, rows, visits, earned, oldest, newest, fed, email>>
request == <<pc, op, seen, todo, cur, found>>
history == <<stale, owed, tainted, deducted>>
vars == <<store, request, history>>

Ages == {"none", "fresh", "old"}
InTx == {"read", "inserted", "updated"}
Live == {"scan", "ready", "first", "due", "posted"} \cup InTx
Ended == {"done", "rejected", "failed"}

TypeOK ==
    /\ balance \in [Customers -> Int]
    /\ posted \in [Customers -> Int]
    /\ rows \in [Keys -> Nat]
    /\ visits \subseteq Visits
    /\ earned \subseteq Visits
    /\ oldest \in [Customers -> Ages]
    /\ newest \in [Customers -> Ages]
    /\ fed \in [Customers -> Nat]
    /\ email \subseteq Customers
    /\ pc \in [Requests -> {"idle"} \cup Live \cup Ended]
    /\ op \in [Requests -> Operations]
    /\ seen \in [Requests -> Int]
    /\ todo \in [Requests -> SUBSET Visits]
    /\ cur \in [Requests -> Keys \cup {NoKey}]
    /\ found \in [Requests -> SUBSET Visits]
    /\ stale \in [Requests -> BOOLEAN]
    /\ owed \in [Customers -> Int]
    /\ tainted \in [Customers -> BOOLEAN]
    /\ deducted \in [Customers -> Nat]

Init ==
    /\ balance \in [Customers -> Openings]
    /\ posted = balance
    /\ rows = [k \in Keys |-> 0]
    /\ visits = {}
    /\ earned = {}
    /\ oldest = [c \in Customers |-> IF balance[c] > 0 THEN "fresh" ELSE "none"]
    /\ newest = oldest
    /\ fed = [c \in Customers |-> 0]
    /\ email = {}
    /\ pc = [r \in Requests |-> "idle"]
    /\ op \in [Requests -> Operations]
    /\ seen = [r \in Requests |-> 0]
    /\ todo = [r \in Requests |-> {}]
    /\ cur = [r \in Requests |-> NoKey]
    /\ found = [r \in Requests |-> {}]
    /\ stale = [r \in Requests |-> FALSE]
    /\ owed = [c \in Customers |-> 0]
    /\ tainted = [c \in Customers |-> FALSE]
    /\ deducted = [c \in Customers |-> 0]

-----------------------------------------------------------------------------
(* What a request does, by kind.  A definition X_Fault is a plausible bug  *)
(* in X: no action uses it, the mutation runs put it in the place of X to  *)
(* show that a property notices.                                           *)

Kind(r) == op[r].kind
Cust(r) == op[r].cust
OfVisits(r) == Kind(r) \in {"ACCRUE", "BACKFILL"}
Earns(r) == OfVisits(r) \/ Kind(r) \in {"CREDIT", "AUTOMATION", "FEEDBACK"}
Points(r) == IF OfVisits(r) THEN VisitPoints[cur[r]] ELSE op[r].points

\* debitPoints and wallet-redeem refuse what the balance they read cannot cover;
\* the DEDUCT_POINTS action of an automation asks nothing.
Covers_Fault(r, b) == TRUE
Covers(r, b) == Kind(r) = "DEBIT" => b >= op[r].points

\* pointsExpiryJob: a positive balance whose OLDEST credit passed the cutoff.
Expirable(c, b) == b > 0 /\ oldest[c] = "old"

\* The absolute value the request writes into currentPointsBalance.
NewBalance(r) ==
    CASE Earns(r)              -> seen[r] + Points(r)
      [] Kind(r) = "DEBIT"     -> seen[r] - Points(r)
      [] Kind(r) = "EXPIRE"    -> 0
      [] Kind(r) = "RECONCILE" -> IF seen[r] > 0 THEN seen[r] ELSE 0

\* The signed amount of the ledger row it appends (RECONCILE appends none).
Delta_Fault(r) ==
    IF Kind(r) = "RECONCILE" THEN 0 ELSE IF Kind(r) = "EXPIRE" THEN 0 - seen[r] ELSE Points(r)
Delta(r) ==
    CASE Earns(r)              -> Points(r)
      [] Kind(r) = "DEBIT"     -> 0 - Points(r)
      [] Kind(r) = "EXPIRE"    -> 0 - seen[r]
      [] Kind(r) = "RECONCILE" -> 0

\* Locks.  The visit row is held from visit.update on, a unique key from the
\* insert on, the customer row from the update on; all until the end of the tx.
VisitRowFree(r, k) == \A q \in Requests \ {r} : cur[q] = k => pc[q] \notin InTx
KeyFree(r) == \A q \in Requests \ {r} : cur[q] = cur[r] => pc[q] \notin {"inserted", "updated"}
CustomerRowFree_Fault(r) ==
    \A q \in Requests \ {r} : Cust(q) = Cust(r) => pc[q] \notin {"inserted", "updated"}
CustomerRowFree(r) == \A q \in Requests \ {r} : Cust(q) = Cust(r) => pc[q] # "updated"

\* The unique index of the ledger lets the row of this request in.
Unique_Fault(r) == cur[r] # NoKey => rows[cur[r]] = 0
Unique(r) == cur[r] # NoKey => KeyFree(r) /\ rows[cur[r]] = 0

\* Where a loop over visits goes with these left.
NextVisit_Fault(left) == "done"
NextVisit(left) == IF left = {} THEN "done" ELSE "ready"

\* Requests of these kinds that read this customer and have yet to write it.
Overtaken(r, kinds) ==
    [q \in Requests |-> \/ stale[q]
                        \/ q # r /\ Cust(q) = Cust(r) /\ Kind(q) \in kinds /\ pc[q] \in InTx]
BalanceReaders == Kinds \ {"RECONCILE"}
LedgerReaders == {"RECONCILE"}

Goto(r, l) == pc' = [pc EXCEPT ![r] = l]

-----------------------------------------------------------------------------
(* The environment.                                                        *)

\* A handler commits the Visit row, in a transaction of its own, before it
\* asks for the accrual.
RecordVisit(v) ==
    /\ v \notin visits
    /\ visits' = visits \cup {v}
    /\ UNCHANGED <<balance, posted, rows, earned, oldest, newest, fed, email, request, history>>

\* The calendar moves on: every row is now older than pointsExpiryDays, and
\* no FEEDBACK row was written today.
TimePasses ==
    /\ oldest' = [c \in Customers |-> IF oldest[c] = "fresh" THEN "old" ELSE oldest[c]]
    /\ newest' = [c \in Customers |-> IF newest[c] = "fresh" THEN "old" ELSE newest[c]]
    /\ fed' = [c \in Customers |-> 0]
    /\ UNCHANGED <<balance, posted, rows, visits, earned, email, request, history>>

-----------------------------------------------------------------------------
(* The steps of a request.                                                 *)

BeginAccrue(r) ==
    /\ pc[r] = "idle" /\ Kind(r) = "ACCRUE"
    /\ op[r].key \in visits
    /\ todo' = [todo EXCEPT ![r] = {op[r].key}]
    /\ Goto(r, "ready")
    /\ UNCHANGED <<store, op, seen, cur, found, history>>

\* backfillVisitPoints reads the accrual ledger and the visits in two
\* statements of a Promise.all; this is the first of them.
BeginBackfill(r) ==
    /\ pc[r] = "idle" /\ Kind(r) = "BACKFILL"
    /\ todo' = [todo EXCEPT ![r] = {v \in Visits : Owner[v] = Cust(r) /\ rows[v] = 0}]
    /\ Goto(r, "scan")
    /\ UNCHANGED <<store, op, seen, cur, found, history>>

Scan(r) ==
    LET missing == todo[r] \cap visits IN
    /\ pc[r] = "scan"
    /\ todo' = [todo EXCEPT ![r] = missing]
    /\ found' = [found EXCEPT ![r] = missing]
    /\ Goto(r, NextVisit(missing))
    /\ UNCHANGED <<store, op, seen, cur, history>>

BeginOther(r) ==
    /\ pc[r] = "idle" /\ Kind(r) \in {"CREDIT", "DEBIT", "AUTOMATION", "EMAIL", "EXPIRE", "RECONCILE"}
    /\ Goto(r, "ready")
    /\ UNCHANGED <<store, op, seen, todo, cur, found, history>>

\* portalFeedbackHandler looks for a FEEDBACK row of today before it credits.
BeginFeedback(r) ==
    /\ pc[r] = "idle" /\ Kind(r) = "FEEDBACK"
    /\ Goto(r, IF fed[Cust(r)] > 0 THEN "done" ELSE "ready")
    /\ UNCHANGED <<store, op, seen, todo, cur, found, history>>

\* createCustomerHandler: the row of the customer is new, so nothing of it has
\* begun; its initial points follow in two statements, like the e-mail bonus.
BeginWelcome(r) ==
    /\ pc[r] = "idle" /\ Kind(r) = "WELCOME"
    /\ oldest[Cust(r)] = "none"
    /\ \A q \in Requests \ {r} : Cust(q) = Cust(r) => pc[q] = "idle"
    /\ \A v \in visits : Owner[v] # Cust(r)
    /\ Goto(r, "due")
    /\ UNCHANGED <<store, op, seen, todo, cur, found, history>>

\* The balance is read with the visit row locked (visits) or not at all.
Read(r, k) ==
    LET b == IF Kind(r) = "RECONCILE" THEN posted[Cust(r)] ELSE balance[Cust(r)] IN
    /\ pc[r] = "ready" /\ Kind(r) # "EMAIL"
    /\ IF OfVisits(r) THEN k \in todo[r] /\ VisitRowFree(r, k) ELSE k = op[r].key
    /\ Kind(r) = "EXPIRE" => Expirable(Cust(r), b)
    /\ Covers(r, b)
    /\ seen' = [seen EXCEPT ![r] = b]
    /\ cur' = [cur EXCEPT ![r] = k]
    /\ stale' = [stale EXCEPT ![r] = FALSE]
    /\ Goto(r, "read")
    /\ UNCHANGED <<store, op, todo, found, owed, tainted, deducted>>

\* INSUFFICIENT_POINTS_BALANCE, or nothing to expire: the call ends unwritten.
Refuse(r) ==
    /\ pc[r] = "ready"
    /\ \/ ~Covers(r, balance[Cust(r)])
       \/ Kind(r) = "EXPIRE" /\ ~Expirable(Cust(r), balance[Cust(r)])
    /\ Goto(r, "rejected")
    /\ UNCHANGED <<store, op, seen, todo, cur, found, history>>

InsertRow(r) ==
    /\ pc[r] = "read" /\ Kind(r) # "RECONCILE"
    /\ Unique(r)
    /\ Goto(r, "inserted")
    /\ UNCHANGED <<store, op, seen, todo, cur, found, history>>

\* P2002, unique violation: the transaction rolls back.  An accrual returns
\* zero points, a backfill goes on to its next visit, any other call throws.
Conflict(r) ==
    LET left == todo[r] \ {cur[r]} IN
    /\ pc[r] = "read" /\ cur[r] # NoKey /\ KeyFree(r) /\ rows[cur[r]] > 0
    /\ IF OfVisits(r)
       THEN /\ todo' = [todo EXCEPT ![r] = left]
            /\ Goto(r, NextVisit(left))
       ELSE Goto(r, "failed") /\ UNCHANGED todo
    /\ UNCHANGED <<store, op, seen, cur, found, history>>

UpdateCustomer(r) ==
    /\ pc[r] = IF Kind(r) = "RECONCILE" THEN "read" ELSE "inserted"
    /\ CustomerRowFree(r)
    /\ Goto(r, "updated")
    /\ UNCHANGED <<store, op, seen, todo, cur, found, history>>

\* An aged-out ledger gains a fresh row.
CreditAges(r) ==
    LET c == Cust(r) IN
    IF Earns(r)
    THEN /\ oldest' = [oldest EXCEPT ![c] = IF @ = "none" THEN "fresh" ELSE @]
         /\ newest' = [newest EXCEPT ![c] = "fresh"]
    ELSE UNCHANGED <<oldest, newest>>

Commit(r) ==
    LET c == Cust(r)
        left == todo[r] \ {cur[r]} IN
    /\ pc[r] = "updated"
    /\ balance' = [balance EXCEPT ![c] = NewBalance(r)]
    /\ posted' = [posted EXCEPT ![c] = @ + Delta(r)]
    /\ rows' = IF cur[r] = NoKey THEN rows ELSE [rows EXCEPT ![cur[r]] = @ + 1]
    /\ earned' = IF OfVisits(r) THEN earned \cup {cur[r]} ELSE earned
    /\ fed' = IF Kind(r) = "FEEDBACK" THEN [fed EXCEPT ![c] = @ + 1] ELSE fed
    /\ CreditAges(r)
    /\ todo' = [todo EXCEPT ![r] = left]
    /\ Goto(r, NextVisit(left))
    /\ stale' = Overtaken(r, IF Kind(r) = "RECONCILE" THEN BalanceReaders ELSE Kinds)
    /\ tainted' = [tainted EXCEPT ![c] =
                     IF Kind(r) = "RECONCILE" THEN stale[r] \/ seen[r] < 0 \/ owed[c] # 0
                                              ELSE @ \/ stale[r]]
    /\ deducted' = [deducted EXCEPT ![c] = IF Earns(r) /\ Points(r) < 0 THEN @ - Points(r) ELSE @]
    /\ UNCHANGED <<visits, email, op, seen, cur, found, owed>>

\* verifyOtpHandler's e-mail bonus: four statements, no transaction.  The last
\* two are also how initial points are given.
ReadEmail(r) ==
    /\ pc[r] = "ready" /\ Kind(r) = "EMAIL"
    /\ Goto(r, IF Cust(r) \in email THEN "done" ELSE "first")
    /\ UNCHANGED <<store, op, seen, todo, cur, found, history>>

SetEmail(r) ==
    /\ pc[r] = "first" /\ CustomerRowFree(r)
    /\ email' = email \cup {Cust(r)}
    /\ Goto(r, "due")
    /\ UNCHANGED <<balance, posted, rows, visits, earned, oldest, newest, fed,
                   op, seen, todo, cur, found, history>>

PostBonus(r) ==
    LET c == Cust(r) IN
    /\ pc[r] = "due"
    /\ posted' = [posted EXCEPT ![c] = @ + op[r].points]
    /\ oldest' = [oldest EXCEPT ![c] = IF @ = "none" THEN "fresh" ELSE @]
    /\ newest' = [newest EXCEPT ![c] = "fresh"]
    /\ owed' = [owed EXCEPT ![c] = @ + op[r].points]
    /\ stale' = Overtaken(r, LedgerReaders)
    /\ Goto(r, "posted")
    /\ UNCHANGED <<balance, rows, visits, earned, fed, email, op, seen, todo, cur, found, tainted,
                   deducted>>

IncrementBalance(r) ==
    LET c == Cust(r) IN
    /\ pc[r] = "posted" /\ CustomerRowFree(r)
    /\ balance' = [balance EXCEPT ![c] = @ + op[r].points]
    /\ owed' = [owed EXCEPT ![c] = @ - op[r].points]
    /\ stale' = Overtaken(r, BalanceReaders)
    /\ Goto(r, "done")
    /\ UNCHANGED <<posted, rows, visits, earned, oldest, newest, fed, email,
                   op, seen, todo, cur, found, tainted, deducted>>

\* The process dies or a statement throws: an open transaction rolls back; a
\* bonus already posted stays in the ledger and never reaches the balance.
Fail(r) ==
    LET c == Cust(r)
        torn == pc[r] = "posted" IN
    /\ pc[r] \in Live
    /\ Goto(r, "failed")
    /\ owed' = [owed EXCEPT ![c] = IF torn THEN @ - op[r].points ELSE @]
    /\ tainted' = [tainted EXCEPT ![c] = @ \/ torn]
    /\ UNCHANGED <<store, op, seen, todo, cur, found, stale, deducted>>

Begin(r) ==
    \/ BeginAccrue(r)
    \/ BeginBackfill(r)
    \/ BeginOther(r)
    \/ BeginFeedback(r)
    \/ BeginWelcome(r)

Step(r) ==
    \/ Scan(r)
    \/ \E k \in Keys \cup {NoKey} : Read(r, k)
    \/ Refuse(r)
    \/ InsertRow(r)
    \/ Conflict(r)
    \/ UpdateCustomer(r)
    \/ Commit(r)
    \/ ReadEmail(r)
    \/ SetEmail(r)
    \/ PostBonus(r)
    \/ IncrementBalance(r)

Next ==
    \/ \E v \in Visits : RecordVisit(v)
    \/ TimePasses
    \/ \E r \in Requests : Begin(r) \/ Step(r) \/ Fail(r)

Spec == Init /\ [][Next]_vars

\* A handler that has started runs: node schedules its continuations and
\* Postgres grants a row lock when its holder ends.  Calls need never arrive.
FairSpec == Spec /\ \A r \in Requests : WF_vars(Step(r))

-----------------------------------------------------------------------------
(* Safety.                                                                 *)

\* A unique key is written at most once, whatever accruals, self-healing
\* backfills and retried calls overlap: the idempotency guard that
\* accruePointsForVisit and backfillVisitPoints rely on (P2002).
CreditedAtMostOnce == \A k \in Keys : rows[k] <= 1

\* A backfill that ends normally leaves every visit it found missing credited
\* once and marked with its points, by itself or by whoever overtook it.
BackfillComplete ==
    \A r \in Requests : Kind(r) = "BACKFILL" /\ pc[r] = "done" =>
        \A v \in found[r] : rows[v] = 1 /\ v \in earned

\* The balance differs from the ledger only if some update was lost to an
\* overlapping request or a bonus was torn by a failure: one request at a
\* time never drifts, and an undisturbed reconciliation ends every drift.
DriftNeedsOverlap ==
    \A c \in Customers : ~tainted[c] => balance[c] + owed[c] = posted[c]

\* Whatever is lost, the balance shown to the customer and the till falls below
\* zero by no more than automations have deducted: every debit re-checks the
\* balance it computes from, and nobody else takes what is not there.
DebtIsDeducted == \A c \in Customers : balance[c] + deducted[c] >= 0

\* What lets a request that has started go on: the lock its next statement asks
\* for is free.
CanGo(r) ==
    \/ pc[r] \in {"scan", "due", "updated"}
    \/ pc[r] = "ready" /\ (OfVisits(r) => \E k \in todo[r] : VisitRowFree(r, k))
    \/ pc[r] = "read" /\ Kind(r) # "RECONCILE" /\ (cur[r] # NoKey => KeyFree(r))
    \/ /\ pc[r] \in {"first", "posted", "inserted"} \/ (pc[r] = "read" /\ Kind(r) = "RECONCILE")
       /\ CustomerRowFree(r)

\* Transactions never wait in a circle: while a request waits for a lock, some
\* transaction of its customer can go on.
NobodyStuck ==
    \A r \in Requests : pc[r] \in Live /\ ~CanGo(r) =>
        \E q \in Requests : Cust(q) = Cust(r) /\ pc[q] \in InTx /\ CanGo(q)

-----------------------------------------------------------------------------
(* Liveness.                                                               *)

\* A call that starts ends: the visit, unique-key and customer-row locks are
\* taken in an order in which no two transactions wait for each other.
RequestsEnd == \A r \in Requests : pc[r] \in Live ~> pc[r] \in Ended

-----------------------------------------------------------------------------
(* What the repository says and the code does not do.                      *)

Quiet(c) == \A r \in Requests : Cust(r) = c => pc[r] \notin Live

\* loyalty-service.ts:9: the balance is a cache of the ledger, updated
\* atomically alongside each append.  Checked when no call is under way and
\* none has failed, so that no partial write can explain a difference.
BalanceMatchesLedger ==
    \A c \in Customers :
        Quiet(c) /\ (\A r \in Requests : pc[r] # "failed") => balance[c] = posted[c]

\* loyalty-service.ts:89: a debit is refused if the customer cannot cover it,
\* so a ledger never spends more than it earned.
NoOverspend == \A c \in Customers : posted[c] >= 0

\* cron-service.ts:584: points expire for customers whose LAST credit is
\* older than pointsExpiryDays.
ExpiresOnlyDormant ==
    [][\A r \in Requests :
         Kind(r) = "EXPIRE" /\ pc[r] = "ready" /\ pc'[r] = "read" => newest[Cust(r)] = "old"]_vars
=============================================================================
