------------------------------- MODULE Sales -------------------------------
(***************************************************************************)
(* How a visit enters the system: the till's webhook, a sale at the built- *)
(* in till, a check-in by staff and a check-in by the customer.  All four  *)
(* write a Visit and credit its points; they differ in which counters of   *)
(* the customer they keep, in what stops a repetition (a log row with a    *)
(* unique key, a unique transaction id, or a look at today's visits), and  *)
(* in whether they look for a visit milestone.                             *)
(*                                                                         *)
(* Every statement is an action; only the check-in of staff is a           *)
(* transaction.  A call can stop between any two.  How points are credited *)
(* is in PointsLedger; here it is one step that succeeds or fails.         *)
(***************************************************************************)
EXTENDS Integers, FiniteSets

CONSTANTS
    People,      \* customers, each with a phone number or an address
    Nobody,      \* no phone number and no address
    Walkin,      \* the anonymous record the till makes for such a sale
    Trades,      \* transaction ids
    Calls,       \* deliveries and requests in the behaviour
    Scenarios,   \* what each call is, in [Calls -> Operations]
    PerDay,      \* self check-ins a day (3 in the code)
    Milestone,   \* the visit count that starts the automation (5, 10, ... in the code)
    MaxFaults,   \* bound on calls that stop half-way
    MaxDays      \* bound on midnights

Kinds == {"WEBHOOK", "SALE", "STAFF", "PORTAL"}
CheckIns == {"STAFF", "PORTAL"}
Sources == {"QR_CHECKIN", "POS_WEBHOOK", "MANUAL"}   \* what staff may give a check-in as
Operations == [kind : Kinds, trade : Trades, who : People \cup {Nobody}, source : Sources]

ASSUME ConstantsAssumption ==
    /\ Scenarios \subseteq [Calls -> Operations]
    /\ \A s \in Scenarios, e \in Calls : s[e].kind \in CheckIns => s[e].who \in People
    /\ Walkin \notin People /\ Nobody \notin People /\ Walkin # Nobody
    /\ IsFiniteSet(Calls)
    /\ PerDay \in Nat \ {0} /\ Milestone \in Nat \ {0}
    /\ MaxFaults \in Nat /\ MaxDays \in Nat

VARIABLES
    op,        \* op[e]: what call e is; a delivery of a trade is retried as another call
    pc,        \* where it is
    log,       \* log[t]: PosWebhookLog.status of the webhook's trade t
    known,     \* people with a Customer row
    whose,     \* whose[e]: the record call e books to
    spent,     \* calls whose amount is in the customer's totalSpend
    visits,    \* calls that made a Visit
    counted,   \* calls the customer's visitCount includes
    credited,  \* calls whose points were credited
    triggers,  \* triggers[p]: VISIT_MILESTONE jobs queued for p
    today,     \* calls whose visit is of today, those of the built-in till left out
    recent,    \* people whose last visit of source QR_CHECKIN is less than 6 hours old
    faults,    \* number of calls that stopped half-way
    hurt,      \* history: those calls
    midnights, \* number of days that have ended
    packed,    \* history: <<p, s>> when two check-ins of p of source s were under way at once
    skewed     \* history: people whose milestone another call or a fault disturbed

customer == <<known, spent, counted, triggers>>
booked == <<whose, visits, credited>>
clock == <<today, recent, midnights>>
history == <<faults, hurt, packed, skewed>>
vars == <<op, pc, log, customer, booked, clock, history>>

Kind(e) == op[e].kind
Trade(e) == op[e].trade
Who(e) == op[e].who

\* Visit.source; a look at today's visits never asks for the built-in till's.
Source(e) == CASE Kind(e) = "PORTAL"  -> "QR_CHECKIN"
               [] Kind(e) = "WEBHOOK" -> "POS_WEBHOOK"
               [] OTHER               -> op[e].source

TodayOf(p, s) == {f \in today : whose[f] = p /\ Source(f) = s}

Live == {"log", "find", "spend", "create", "visit", "count", "accrue", "milestone", "processed", "book"}
Ended == {"done", "refused", "dead"}

TypeOK ==
    /\ op \in [Calls -> Operations]
    /\ pc \in [Calls -> {"idle"} \cup Live \cup Ended]
    /\ log \in [Trades -> {"none", "PENDING", "PROCESSED", "DUPLICATE", "MISSING_CUSTOMER_IDENTITY"}]
    /\ known \subseteq People
    /\ whose \in [Calls -> People \cup {Nobody, Walkin}]
    /\ \A e \in visits \cup counted : whose[e] # Nobody
    /\ spent \subseteq Calls /\ visits \subseteq Calls
    /\ counted \subseteq Calls /\ credited \subseteq visits
    /\ triggers \in [People -> Nat]
    /\ today \subseteq visits /\ recent \subseteq People
    /\ faults \in 0..MaxFaults /\ hurt \subseteq Calls
    /\ midnights \in 0..MaxDays
    /\ packed \subseteq People \X Sources /\ skewed \subseteq People

Init ==
    /\ op \in Scenarios
    /\ pc = [e \in Calls |-> "idle"]
    /\ log = [t \in Trades |-> "none"]
    /\ known \in SUBSET People
    /\ whose = [e \in Calls |-> Nobody]
    /\ spent = {} /\ visits = {} /\ counted = {} /\ credited = {}
    /\ triggers = [p \in People |-> 0]
    /\ today = {} /\ recent = {}
    /\ faults = 0 /\ hurt = {} /\ midnights = 0 /\ packed = {} /\ skewed = {}

-----------------------------------------------------------------------------
(* What the handlers decide on.  X_Fault is a plausible bug in X, which no  *)
(* action uses.                                                            *)

Goto(e, l) == pc' = [pc EXCEPT ![e] = l]

\* @@unique([transactionId, businessId]) of PosWebhookLog.
Unlogged_Fault(t) == TRUE
Unlogged(t) == log[t] = "none"

\* @@unique([transactionId, businessId]) of Visit; a check-in has none.
NewVisit(e) == \A f \in visits : Kind(f) = Kind(e) => Trade(f) # Trade(e)

\* What a webhook does after it has looked for the customer.
AfterFind_Fault(e) == IF Who(e) \in known THEN "visit" ELSE "create"
AfterFind(e) == IF Who(e) \in known THEN "spend" ELSE "create"

\* The record of a sale without a customer to book it to.
NoCustomer == Walkin

\* The two rules of the self check-in, both on today's visits of its source.
BelowLimit_Fault(p) == Cardinality(TodayOf(p, "QR_CHECKIN")) <= PerDay
BelowLimit(p) == Cardinality(TodayOf(p, "QR_CHECKIN")) < PerDay
Rested_Fault(p) == p \in recent => Cardinality(TodayOf(p, "QR_CHECKIN")) < 2
Rested(p) == p \in recent => TodayOf(p, "QR_CHECKIN") = {}

\* The one rule of the check-in by staff.
FirstToday(p, s) == TodayOf(p, s) = {}

VisitCount(p) == Cardinality({f \in counted : whose[f] = p})
AtMilestone_Fault(p) == VisitCount(p) >= Milestone
AtMilestone(p) == VisitCount(p) = Milestone

\* Calls that have counted their visit and have yet to look for a milestone.
Looking(p) == {f \in Calls : /\ whose[f] = p
                             /\ Kind(f) \in {"WEBHOOK", "STAFF"}
                             /\ pc[f] \in {"accrue", "milestone"}}

\* visitCount is incremented.  History: the step disturbs a milestone when
\* another call is between its own count and its look, or when the call that
\* reaches it is a sale, which does not look.
Count(e) ==
    LET p == whose[e] IN
    /\ counted' = counted \cup {e}
    /\ skewed' = IF p \in People /\ (Looking(p) # {} \/ (Kind(e) = "SALE" /\ VisitCount(p) + 1 = Milestone))
                 THEN skewed \cup {p} ELSE skewed

\* History: another check-in of the same customer and source has looked at
\* today's visits and is about to add one.
Crowd(e) == packed' = IF \E f \in Calls \ {e} : pc[f] = "book" /\ Who(f) = Who(e) /\ Source(f) = Source(e)
                      THEN packed \cup {<<Who(e), Source(e)>>} ELSE packed

-----------------------------------------------------------------------------
(* processTransaction of the webhook, and the sale of the built-in till.   *)

\* A trade that has a log row is marked DUPLICATE, whatever became of it.
LogLookup(e) ==
    /\ pc[e] = "idle" /\ Kind(e) = "WEBHOOK"
    /\ \/ log[Trade(e)] = "none" /\ Goto(e, "log") /\ UNCHANGED log
       \/ /\ log[Trade(e)] # "none" /\ Goto(e, "refused")
          /\ log' = [log EXCEPT ![Trade(e)] = "DUPLICATE"]
    /\ UNCHANGED <<op, customer, booked, clock, history>>

\* Of two deliveries at once the unique key lets one through.
LogCreate(e) ==
    /\ pc[e] = "log"
    /\ \/ Unlogged(Trade(e)) /\ Goto(e, "find") /\ log' = [log EXCEPT ![Trade(e)] = "PENDING"]
       \/ ~Unlogged(Trade(e)) /\ Goto(e, "refused") /\ UNCHANGED log
    /\ UNCHANGED <<op, customer, booked, clock, history>>

WebhookFind(e) ==
    /\ pc[e] = "find"
    /\ \/ /\ Who(e) = Nobody /\ Goto(e, "refused")
          /\ log' = [log EXCEPT ![Trade(e)] = "MISSING_CUSTOMER_IDENTITY"]
          /\ UNCHANGED whose
       \/ /\ Who(e) # Nobody /\ Goto(e, AfterFind(e))
          /\ whose' = [whose EXCEPT ![e] = Who(e)]
          /\ UNCHANGED log
    /\ UNCHANGED <<op, customer, visits, credited, clock, history>>

\* A sale without a phone number, or with an unknown one and no name, gets an
\* anonymous customer.
SaleFind(e) ==
    /\ pc[e] = "idle" /\ Kind(e) = "SALE"
    /\ \/ /\ Who(e) \in known /\ Goto(e, "visit")
          /\ whose' = [whose EXCEPT ![e] = Who(e)]
       \/ /\ Who(e) \in People \ known /\ Goto(e, "create")
          /\ whose' = [whose EXCEPT ![e] = Who(e)]
       \/ /\ Who(e) \notin known /\ Goto(e, "visit")
          /\ whose' = [whose EXCEPT ![e] = NoCustomer]
    /\ UNCHANGED <<op, log, customer, visits, credited, clock, history>>

AddSpend(e) ==
    /\ pc[e] = "spend"
    /\ spent' = spent \cup {e}
    /\ Goto(e, "visit")
    /\ UNCHANGED <<op, log, known, counted, triggers, booked, clock, history>>

\* The phone number and the address are unique: of two calls that did not find
\* the customer one throws, and nothing of its trade is booked.
CreateCustomer(e) ==
    /\ pc[e] = "create"
    /\ \/ /\ Who(e) \notin known
          /\ known' = known \cup {Who(e)}
          /\ spent' = IF Kind(e) = "WEBHOOK" THEN spent \cup {e} ELSE spent
          /\ Goto(e, "visit")
          /\ UNCHANGED hurt
       \/ /\ Who(e) \in known
          /\ hurt' = hurt \cup {e}
          /\ Goto(e, "dead")
          /\ UNCHANGED <<known, spent>>
    /\ UNCHANGED <<op, log, counted, triggers, booked, clock, faults, packed, skewed>>

\* The time of a webhook's visit is the till's, today's or an earlier one.
CreateVisit(e) ==
    /\ pc[e] = "visit"
    /\ \/ /\ NewVisit(e) /\ visits' = visits \cup {e}
          /\ today' \in IF Kind(e) = "WEBHOOK" THEN {today, today \cup {e}} ELSE {today}
          /\ Goto(e, "count") /\ UNCHANGED hurt
       \/ /\ ~NewVisit(e) /\ hurt' = hurt \cup {e}
          /\ Goto(e, "dead") /\ UNCHANGED <<visits, today>>
    /\ UNCHANGED <<op, log, customer, whose, credited, recent, midnights, faults, packed, skewed>>

AddVisitCount(e) ==
    /\ pc[e] = "count"
    /\ Count(e)
    /\ spent' = IF Kind(e) = "SALE" THEN spent \cup {e} ELSE spent
    /\ Goto(e, "accrue")
    /\ UNCHANGED <<op, log, known, triggers, booked, clock, faults, hurt, packed>>

\* accruePointsForVisit; the sale and the self check-in go on when it fails.
Accrue(e) ==
    /\ pc[e] = "accrue"
    /\ \/ credited' = credited \cup {e} /\ UNCHANGED faults
       \/ /\ Kind(e) \in {"SALE", "PORTAL"} /\ faults < MaxFaults
          /\ faults' = faults + 1 /\ UNCHANGED credited
    /\ Goto(e, IF Kind(e) \in {"WEBHOOK", "STAFF"} THEN "milestone" ELSE "done")
    /\ UNCHANGED <<op, log, customer, whose, visits, clock, hurt, packed, skewed>>

\* The visit count is read again.  A job of the same customer and minute is
\* not added twice, so a second trigger may be swallowed.
CheckMilestone(e) ==
    LET p == whose[e] IN
    /\ pc[e] = "milestone"
    /\ \/ AtMilestone(p) /\ triggers' = [triggers EXCEPT ![p] = @ + 1]
       \/ (AtMilestone(p) => triggers[p] > 0) /\ UNCHANGED triggers
    /\ Goto(e, IF Kind(e) = "WEBHOOK" THEN "processed" ELSE "done")
    /\ UNCHANGED <<op, log, known, spent, counted, booked, clock, history>>

Processed(e) ==
    /\ pc[e] = "processed"
    /\ log' = [log EXCEPT ![Trade(e)] = "PROCESSED"]
    /\ Goto(e, "done")
    /\ UNCHANGED <<op, customer, booked, clock, history>>

-----------------------------------------------------------------------------
(* Check-ins.                                                              *)

\* Staff may check a customer in when no visit of the source they give is of
\* today; one of another source does not stop them ...
StaffLook(e) ==
    /\ pc[e] = "idle" /\ Kind(e) = "STAFF" /\ Who(e) \in known
    /\ \/ FirstToday(Who(e), Source(e)) /\ Goto(e, "book") /\ Crowd(e)
       \/ ~FirstToday(Who(e), Source(e)) /\ Goto(e, "refused") /\ UNCHANGED packed
    /\ UNCHANGED <<op, log, customer, booked, clock, faults, hurt, skewed>>

\* ... a customer may when fewer than PerDay are QR_CHECKIN, the last 6 hours old.
PortalLook(e) ==
    /\ pc[e] = "idle" /\ Kind(e) = "PORTAL" /\ Who(e) \in known
    /\ \/ /\ BelowLimit(Who(e)) /\ Rested(Who(e))
          /\ Goto(e, "book") /\ Crowd(e)
       \/ /\ ~(BelowLimit(Who(e)) /\ Rested(Who(e)))
          /\ Goto(e, "refused") /\ UNCHANGED packed
    /\ UNCHANGED <<op, log, customer, booked, clock, faults, hurt, skewed>>

Visited(e) ==
    /\ pc[e] = "book" /\ Kind(e) \in CheckIns
    /\ whose' = [whose EXCEPT ![e] = Who(e)]
    /\ visits' = visits \cup {e}
    /\ today' = today \cup {e}
    /\ recent' = IF Source(e) = "QR_CHECKIN" THEN recent \cup {Who(e)} ELSE recent
    /\ Goto(e, "accrue")

\* One transaction: the visit, the count and the amount.
StaffBook(e) ==
    /\ Kind(e) = "STAFF"
    /\ Visited(e)
    /\ spent' = spent \cup {e}
    /\ counted' = counted \cup {e}
    /\ skewed' = IF Looking(Who(e)) # {} THEN skewed \cup {Who(e)} ELSE skewed
    /\ UNCHANGED <<op, log, known, triggers, credited, midnights, faults, hurt, packed>>

\* The self check-in leaves visitCount alone.
PortalBook(e) ==
    /\ Kind(e) = "PORTAL"
    /\ Visited(e)
    /\ UNCHANGED <<op, log, customer, credited, midnights, history>>

-----------------------------------------------------------------------------
(* Faults and time.                                                        *)

\* The process stops or a statement fails; what was written stays.
Dies(e) ==
    /\ pc[e] \in Live /\ faults < MaxFaults
    /\ faults' = faults + 1
    /\ hurt' = hurt \cup {e}
    /\ skewed' = IF whose[e] \in People /\ e \in counted THEN skewed \cup {whose[e]} ELSE skewed
    /\ Goto(e, "dead")
    /\ UNCHANGED <<op, log, customer, booked, clock, packed>>

\* The last QR_CHECKIN visit of a customer becomes 6 hours old.
SixHours ==
    /\ \E p \in recent : recent' = recent \ {p}
    /\ UNCHANGED <<op, pc, log, customer, booked, today, midnights, history>>

Midnight ==
    /\ midnights < MaxDays
    /\ midnights' = midnights + 1
    /\ today' = {}
    /\ UNCHANGED <<op, pc, log, customer, booked, recent, history>>

Step(e) ==
    \/ LogLookup(e) \/ LogCreate(e) \/ WebhookFind(e) \/ SaleFind(e) \/ AddSpend(e)
    \/ CreateCustomer(e) \/ CreateVisit(e) \/ AddVisitCount(e) \/ Accrue(e)
    \/ CheckMilestone(e) \/ Processed(e)
    \/ StaffLook(e) \/ PortalLook(e) \/ StaffBook(e) \/ PortalBook(e) \/ Dies(e)

Next == (\E e \in Calls : Step(e)) \/ SixHours \/ Midnight

Spec == Init /\ [][Next]_vars

-----------------------------------------------------------------------------
(* Properties.                                                             *)

Touched(e) == e \in spent \cup visits \cup counted \cup credited
Whole(e) == e \in spent \cap visits \cap counted \cap credited
Deliveries(t) == {e \in Calls : Kind(e) = "WEBHOOK" /\ Trade(e) = t}

\* The webhook implements the inbox of module Inbox: the delivery that wrote
\* the log row of a trade books it, alone, and a trade it stopped half-way is
\* never taken up again.
Handling(e) == Kind(e) = "WEBHOOK" /\ pc[e] \in Live \ {"log"}
Effects == {"amount", "visit", "count", "points"}
DoneBy(x) == CASE x = "amount" -> spent
               [] x = "visit"  -> visits
               [] x = "count"  -> counted
               [] x = "points" -> credited

Taken == {t \in Trades : log[t] # "none"}
Open == {t \in Trades : \E e \in Deliveries(t) : Handling(e)}
Done == [t \in Trades |-> {d \in Deliveries(t) \X Effects : d[1] \in DoneBy(d[2])}]
Lost == {t \in Taken \ Open : \A e \in Deliveries(t) : ~Whole(e)}

I == INSTANCE Inbox WITH
       Items <- Trades, Handlers <- Calls,
       taken <- Taken, open <- Open, done <- Done, lost <- Lost
TradesAreInbox == I!Spec

\* At most one delivery of a trade changes anything, and one sale of a
\* transaction id makes a visit, however deliveries overlap.
SaleBookedOnce ==
    \A e, f \in Calls :
        /\ Kind(e) = Kind(f) /\ Trade(e) = Trade(f)
        /\ \/ Kind(e) = "WEBHOOK" /\ Touched(e) /\ Touched(f)
           \/ Kind(e) = "SALE" /\ e \in visits /\ f \in visits
        => e = f

\* A trade that was delivered, and that no delivery works on, is booked with
\* its amount, its visit, its count and its points, unless a delivery stopped
\* half-way or it names no customer.  Marking a trade DUPLICATE while another
\* delivery works on it loses nothing.
LostSaleExplained ==
    \A t \in Trades :
        /\ \E e \in Deliveries(t) : pc[e] # "idle"
        /\ \A e \in Deliveries(t) : pc[e] \in {"idle"} \cup Ended
        => \E e \in Deliveries(t) : Whole(e) \/ e \in hurt \/ (Who(e) = Nobody /\ pc[e] # "idle")

\* A customer has more than PerDay QR_CHECKIN visits of a day, by staff and by
\* itself together, and more than one check-in by staff of any one source, only
\* when two check-ins of that source were under way at once.
DailyLimit ==
    \A p \in People :
        /\ Cardinality(TodayOf(p, "QR_CHECKIN")) > PerDay => <<p, "QR_CHECKIN">> \in packed
        /\ \A s \in Sources : \A e, f \in TodayOf(p, s) :
               Kind(e) = "STAFF" /\ Kind(f) = "STAFF" /\ e # f => <<p, s>> \in packed

\* Within 6 hours of the last QR_CHECKIN visit another one is added only then,
\* or when that last one is of an earlier day.
CheckInsSpaced ==
    [][\A e \in Calls : LET p == Who(e) IN
          /\ e \in today' \ today /\ Source(e) = "QR_CHECKIN"
          /\ p \in recent /\ TodayOf(p, "QR_CHECKIN") # {}
          => <<p, "QR_CHECKIN">> \in packed]_vars

\* A customer whose visits reached the milestone gets its automation once, and
\* nobody else does, unless two calls counted at once, one stopped after it
\* counted, or a sale of the built-in till took the place of the milestone.
MilestoneOnce ==
    \A p \in People \ skewed :
        Looking(p) = {} => triggers[p] = IF VisitCount(p) >= Milestone THEN 1 ELSE 0

\* webhook-pos.ts:461: "Each transactionId is processed exactly once."
ProcessedExactlyOnce ==
    \A t \in Trades :
        /\ \A e \in Deliveries(t) : Who(e) # Nobody /\ pc[e] \in Ended
        /\ \E e \in Deliveries(t) : pc[e] = "refused"
        => \E e \in Deliveries(t) : Whole(e)

\* customer-portal-controller.ts:613: "at least 6 hours between each."  Only
\* today's visits are looked at, so midnight ends the gap.
GapKept ==
    [][\A e \in Calls : e \in today' \ today /\ Kind(e) = "PORTAL" /\ Who(e) \in recent
          => <<Who(e), "QR_CHECKIN">> \in packed]_vars

\* loyalty-controller.ts:320: "prevent same customer checking in twice today."
\* Only the visits of the same source are looked at.
StaffOnceADay ==
    \A e, f \in today : /\ Kind(e) = "STAFF" /\ Kind(f) = "STAFF" /\ e # f /\ Who(e) = Who(f)
                        => \E s \in Sources : <<Who(e), s>> \in packed
=============================================================================
