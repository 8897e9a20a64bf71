---------------------------- MODULE Sales_proofs ----------------------------
(***************************************************************************)
(* Theorems about Sales, for every set of people, trades, calls and        *)
(* scenarios.                                                              *)
(***************************************************************************)
EXTENDS Sales, FiniteSetTheorems, TLAPS

Booking == {"spend", "create", "visit", "count", "accrue", "milestone", "processed"}

\* A call is at a step of its own kind, and knows whom it books to.
At(e) ==
    /\ Kind(e) \in CheckIns => Who(e) \in People
    /\ pc[e] \in {"log", "find", "spend", "processed"} => Kind(e) = "WEBHOOK"
    /\ pc[e] \in {"create", "visit", "count"} => Kind(e) \in {"WEBHOOK", "SALE"}
    /\ pc[e] = "milestone" => Kind(e) \in {"WEBHOOK", "STAFF"}
    /\ pc[e] = "book" => Kind(e) \in CheckIns
    /\ pc[e] = "create" => Who(e) \in People
    /\ pc[e] \in Booking => whose[e] \in People \cup {Walkin}
    /\ pc[e] \in Booking /\ Kind(e) # "SALE" => whose[e] = Who(e)
    /\ pc[e] \in {"count", "accrue"} => e \in visits

AtInv == \A e \in Calls : At(e)
TypeInv == TypeOK /\ AtInv

LEMMA InitTypeInv == Init => TypeInv
<1> SUFFICES ASSUME Init PROVE TypeInv
  OBVIOUS
<1>1. op \in [Calls -> Operations] /\ \A e \in Calls : Kind(e) \in CheckIns => Who(e) \in People
  BY ConstantsAssumption DEF Init, Kind, Who
<1>2. TypeOK
  BY <1>1, ConstantsAssumption DEF Init, TypeOK
<1>3. AtInv
  BY <1>1 DEF Init, AtInv, At, Booking
<1> QED BY <1>2, <1>3 DEF TypeInv

LEMMA OpFacts ==
    ASSUME TypeOK, NEW e \in Calls
    PROVE  /\ Kind(e) \in Kinds /\ Trade(e) \in Trades /\ Who(e) \in People \cup {Nobody}
           /\ Source(e) \in Sources
BY DEF TypeOK, Operations, Sources, Kind, Trade, Who, Source

\* What each step does to pc and whose, apart from its own call: nothing.
LEMMA OthersStay ==
    ASSUME TypeOK, NEW e \in Calls, Step(e)
    PROVE  /\ op' = op
           /\ \A f \in Calls \ {e} : pc'[f] = pc[f] /\ whose'[f] = whose[f]
           /\ visits \subseteq visits'
BY DEF TypeOK, Step, LogLookup, LogCreate, WebhookFind, SaleFind, AddSpend, CreateCustomer, CreateVisit,
   AddVisitCount, Accrue, CheckMilestone, Processed, StaffLook, PortalLook, StaffBook, PortalBook, Visited,
   Dies, Goto, customer, booked, clock, history

LEMMA StepAt ==
    ASSUME TypeInv, NEW e \in Calls, Step(e)
    PROVE  AtInv'
<1> USE DEF TypeInv
<1>0. Kind(e) \in Kinds /\ Who(e) \in People \cup {Nobody} /\ At(e) /\ Walkin # Nobody
  BY OpFacts, ConstantsAssumption DEF AtInv
<1>1. op' = op /\ \A f \in Calls \ {e} : pc'[f] = pc[f] /\ whose'[f] = whose[f] /\ visits \subseteq visits'
  BY OthersStay
<1>2. ASSUME NEW f \in Calls \ {e} PROVE At(f)'
  BY <1>1 DEF AtInv, At, Kind, Who
<1>3. At(e)'
  <2> USE <1>0 DEF At, Goto, Kinds, CheckIns, Booking, Kind, Who, TypeOK
  <2>1. CASE LogLookup(e) \/ LogCreate(e)
    BY <2>1 DEF LogLookup, LogCreate, booked
  <2>2. CASE WebhookFind(e)
    BY <2>2 DEF WebhookFind, AfterFind
  <2>3. CASE SaleFind(e)
    BY <2>3 DEF SaleFind, NoCustomer
  <2>4. CASE AddSpend(e) \/ CreateCustomer(e)
    BY <2>4 DEF AddSpend, CreateCustomer, booked
  <2>5. CASE CreateVisit(e) \/ AddVisitCount(e) \/ Accrue(e) \/ CheckMilestone(e) \/ Processed(e)
    BY <2>5 DEF CreateVisit, AddVisitCount, Accrue, CheckMilestone, Processed, booked
  <2>6. CASE StaffLook(e) \/ PortalLook(e) \/ Dies(e)
    BY <2>6 DEF StaffLook, PortalLook, Dies, booked
  <2>7. CASE StaffBook(e) \/ PortalBook(e)
    BY <2>7 DEF StaffBook, PortalBook, Visited
  <2> QED BY <2>1, <2>2, <2>3, <2>4, <2>5, <2>6, <2>7 DEF Step
<1> QED BY <1>2, <1>3 DEF AtInv

LEMMA StepTypeOK ==
    ASSUME TypeInv, NEW e \in Calls, Step(e)
    PROVE  TypeOK'
<1> USE DEF TypeInv
<1>0. Kind(e) \in Kinds /\ Trade(e) \in Trades /\ Who(e) \in People \cup {Nobody} /\ At(e)
      /\ Walkin # Nobody /\ Nobody \notin People /\ MaxFaults \in Nat /\ Source(e) \in Sources
  BY OpFacts, ConstantsAssumption DEF AtInv
<1> USE <1>0 DEF TypeOK, Goto, Live, Ended
<1>1. CASE LogLookup(e) \/ LogCreate(e) \/ Processed(e)
  BY <1>1 DEF LogLookup, LogCreate, Processed, customer, booked, clock, history
<1>2. CASE WebhookFind(e)
  BY <1>2 DEF WebhookFind, AfterFind, customer, clock, history
<1>3. CASE SaleFind(e)
  BY <1>3 DEF SaleFind, NoCustomer, customer, clock, history
<1>4. CASE AddSpend(e) \/ CreateCustomer(e)
  BY <1>4 DEF AddSpend, CreateCustomer, At, booked, clock, history
<1>5. CASE CreateVisit(e)
  BY <1>5 DEF CreateVisit, At, Booking, customer
<1>6. CASE AddVisitCount(e)
  BY <1>6 DEF AddVisitCount, Count, At, Booking, booked, clock
<1>7. CASE Accrue(e)
  BY <1>7 DEF Accrue, At, customer, clock
<1>8. CASE CheckMilestone(e)
  BY <1>8 DEF CheckMilestone, booked, clock, history
<1>9. CASE StaffLook(e) \/ PortalLook(e)
  BY <1>9 DEF StaffLook, PortalLook, Crowd, At, CheckIns, customer, booked, clock
<1>10. CASE StaffBook(e)
  BY <1>10 DEF StaffBook, Visited, At
<1>11. CASE PortalBook(e)
  BY <1>11 DEF PortalBook, Visited, At, customer, history
<1>12. CASE Dies(e)
  BY <1>12 DEF Dies, customer, booked, clock
<1> QED BY <1>1, <1>2, <1>3, <1>4, <1>5, <1>6, <1>7, <1>8, <1>9, <1>10, <1>11, <1>12 DEF Step

LEMMA TimeTypeInv == TypeInv /\ (SixHours \/ Midnight) => TypeInv'
<1> SUFFICES ASSUME TypeInv, SixHours \/ Midnight PROVE TypeInv'
  OBVIOUS
<1>1. TypeOK'
  BY ConstantsAssumption DEF TypeInv, TypeOK, SixHours, Midnight, customer, booked, history
<1>2. AtInv'
  BY DEF TypeInv, AtInv, At, SixHours, Midnight, customer, booked, Kind, Who
<1> QED BY <1>1, <1>2 DEF TypeInv

LEMMA StutterTypeInv == TypeInv /\ UNCHANGED vars => TypeInv'
BY DEF TypeInv, TypeOK, AtInv, At, vars, customer, booked, clock, history, Kind, Who

\* Every reachable state is well typed: among the rest, no visit without a
\* customer's record and no points without a visit.
THEOREM TypeCorrect == Spec => []TypeOK
<1>1. TypeInv /\ [Next]_vars => TypeInv'
  BY StepAt, StepTypeOK, TimeTypeInv, StutterTypeInv DEF Next, TypeInv
<1>2. TypeInv => TypeOK
  BY DEF TypeInv
<1> QED BY InitTypeInv, <1>1, <1>2, PTL DEF Spec

-----------------------------------------------------------------------------
(* One delivery of a trade owns its log row; only the owner books.          *)

Owns(e) == pc[e] \in {"find"} \cup Booking \cup {"done"} \/ Touched(e)

OwnerInv ==
    \A e \in Calls : Kind(e) = "WEBHOOK" /\ Owns(e) =>
        /\ log[Trade(e)] # "none"
        /\ \A f \in Calls : Kind(f) = "WEBHOOK" /\ Trade(f) = Trade(e) /\ Owns(f) => f = e

SaleInv ==
    \A e, f \in visits : Kind(e) = "SALE" /\ Kind(f) = "SALE" /\ Trade(e) = Trade(f) => e = f

\* Until it has its log row a delivery has booked nothing, and only a new one
\* of the trade can get there.
LEMMA StepOwns ==
    ASSUME TypeInv, NEW e \in Calls, Step(e)
    PROVE  /\ \A f \in Calls \ {e} : Owns(f)' = Owns(f)
           /\ Kind(e) = "WEBHOOK" /\ Owns(e)' => Owns(e) \/ LogCreate(e)
           /\ \A t \in Trades : log[t] # "none" => log'[t] # "none"
<1> USE DEF TypeInv
<1>0. At(e) /\ Trade(e) \in Trades /\ Kind(e) \in Kinds
  BY OpFacts DEF AtInv
<1>1. /\ op' = op /\ \A f \in Calls \ {e} : pc'[f] = pc[f]
      /\ \A f \in Calls \ {e} : /\ f \in spent' <=> f \in spent
                                /\ f \in visits' <=> f \in visits
                                /\ f \in counted' <=> f \in counted
                                /\ f \in credited' <=> f \in credited
  BY DEF TypeOK, Step, LogLookup, LogCreate, WebhookFind, SaleFind, AddSpend, CreateCustomer, CreateVisit,
     AddVisitCount, Count, Accrue, CheckMilestone, Processed, StaffLook, PortalLook, StaffBook, PortalBook,
     Visited, Dies, Goto, customer, booked, clock, history
<1>2. \A f \in Calls \ {e} : Owns(f)' = Owns(f)
  BY <1>1 DEF Owns, Touched, Booking
<1>3. Kind(e) = "WEBHOOK" /\ Owns(e)' => Owns(e) \/ LogCreate(e)
  BY <1>0 DEF TypeOK, Step, LogLookup, WebhookFind, SaleFind, AddSpend, CreateCustomer, CreateVisit,
     AddVisitCount, Count, Accrue, CheckMilestone, Processed, StaffLook, PortalLook, StaffBook, PortalBook,
     Visited, Dies, Goto, customer, booked, clock, history, Owns, Touched, Booking, At, CheckIns, Kinds
<1>4. \A t \in Trades : log[t] # "none" => log'[t] # "none"
  BY <1>0 DEF TypeOK, Step, LogLookup, LogCreate, WebhookFind, SaleFind, AddSpend, CreateCustomer, CreateVisit,
     AddVisitCount, Accrue, CheckMilestone, Processed, StaffLook, PortalLook, StaffBook, PortalBook,
     Visited, Dies, customer, booked, clock, history
<1> QED BY <1>2, <1>3, <1>4

LEMMA StepOwner ==
    ASSUME TypeInv, OwnerInv, NEW e \in Calls, Step(e)
    PROVE  OwnerInv'
<1>1. /\ \A f \in Calls \ {e} : Owns(f)' = Owns(f)
      /\ Kind(e) = "WEBHOOK" /\ Owns(e)' => Owns(e) \/ LogCreate(e)
      /\ \A t \in Trades : log[t] # "none" => log'[t] # "none"
      /\ op' = op
  BY StepOwns, OthersStay DEF TypeInv
<1>2. \A f \in Calls : Trade(f) \in Trades
  BY OpFacts DEF TypeInv
<1>3. \A f \in Calls : Kind(f)' = Kind(f) /\ Trade(f)' = Trade(f)
  BY <1>1 DEF Kind, Trade
<1>4. CASE Owns(e)' => Owns(e) \/ Kind(e) # "WEBHOOK"
  BY <1>1, <1>2, <1>3, <1>4 DEF OwnerInv
<1>5. CASE ~Owns(e) /\ LogCreate(e)
  <2>1. CASE Unlogged(Trade(e))
    <3>1. log[Trade(e)] = "none" /\ log'[Trade(e)] = "PENDING"
      BY <1>2, <1>5, <2>1 DEF LogCreate, Unlogged, TypeInv, TypeOK
    <3> QED BY <1>1, <1>2, <1>3, <1>5, <3>1 DEF OwnerInv
  <2>2. CASE ~Unlogged(Trade(e))
    <3>1. ~Owns(e)'
      BY <1>5, <2>2 DEF LogCreate, Owns, Touched, Booking, Goto, customer, booked, TypeInv, TypeOK
    <3> QED BY <1>1, <1>2, <1>3, <3>1 DEF OwnerInv
  <2> QED BY <2>1, <2>2
<1> QED BY <1>1, <1>4, <1>5

LEMMA StepSale ==
    ASSUME TypeInv, SaleInv, NEW e \in Calls, Step(e)
    PROVE  SaleInv'
<1>0. op' = op /\ visits \subseteq Calls /\ Kind(e) \in Kinds /\ At(e)
  BY OthersStay, OpFacts DEF TypeInv, TypeOK, AtInv
<1>1. CASE visits' = visits
  BY <1>0, <1>1 DEF SaleInv, Kind, Trade
<1>2. CASE visits' = visits \cup {e} /\ (NewVisit(e) \/ Kind(e) \in CheckIns)
  BY <1>0, <1>2 DEF SaleInv, NewVisit, Kind, Trade, CheckIns
<1>3. visits' = visits \/ (visits' = visits \cup {e} /\ (NewVisit(e) \/ Kind(e) \in CheckIns))
  BY DEF Step, LogLookup, LogCreate, WebhookFind, SaleFind, AddSpend, CreateCustomer, CreateVisit,
     AddVisitCount, Accrue, CheckMilestone, Processed, StaffLook, PortalLook, StaffBook, PortalBook,
     Visited, Dies, customer, booked, clock, history, CheckIns
<1> QED BY <1>1, <1>2, <1>3

LEMMA TimeKeeps ==
    ASSUME SixHours \/ Midnight \/ UNCHANGED vars
    PROVE  /\ UNCHANGED <<op, pc, log, customer, booked, hurt>>
           /\ OwnerInv' = OwnerInv /\ SaleInv' = SaleInv
<1>1. UNCHANGED <<op, pc, log, customer, booked, hurt>>
  BY DEF SixHours, Midnight, vars, history
<1> QED BY <1>1 DEF OwnerInv, SaleInv, Owns, Touched, Kind, Trade, customer, booked

\* A trade is booked at most once, however its deliveries overlap and fail.
THEOREM BookedOnce == Spec => []SaleBookedOnce
<1> DEFINE Inv == TypeInv /\ OwnerInv /\ SaleInv
<1>1. Init => Inv
  <2> SUFFICES ASSUME Init PROVE OwnerInv /\ SaleInv
    BY InitTypeInv
  <2> QED BY DEF Init, OwnerInv, SaleInv, Owns, Touched, Booking
<1>2. Inv /\ [Next]_vars => Inv'
  <2> SUFFICES ASSUME Inv, [Next]_vars PROVE Inv'
    OBVIOUS
  <2>1. CASE \E e \in Calls : Step(e)
    BY <2>1, StepAt, StepTypeOK, StepOwner, StepSale DEF TypeInv
  <2>2. CASE SixHours \/ Midnight \/ UNCHANGED vars
    BY <2>2, TimeTypeInv, StutterTypeInv, TimeKeeps
  <2> QED BY <2>1, <2>2 DEF Next
<1>3. Inv => SaleBookedOnce
  BY DEF SaleBookedOnce, OwnerInv, SaleInv, Owns
<1> QED BY <1>1, <1>2, <1>3, PTL DEF Spec

-----------------------------------------------------------------------------
(* What a delivery has booked by each of its steps.                         *)

Progress(e) ==
    Kind(e) = "WEBHOOK" =>
        /\ pc[e] \in {"visit", "count", "accrue"} => e \in spent
        /\ pc[e] \in {"count", "accrue"} => e \in visits
        /\ pc[e] = "accrue" => e \in counted
        /\ pc[e] \in {"milestone", "processed", "done"} => Whole(e)
        /\ pc[e] = "dead" => e \in hurt
        /\ pc[e] = "refused" /\ Who(e) # Nobody => log[Trade(e)] # "none"

ProgressInv == \A e \in Calls : Progress(e)

\* A delivery that has or had the log row of its trade, or names nobody.
Holds(e) == pc[e] \in {"find"} \cup Booking \cup {"done", "dead"} \/ (Who(e) = Nobody /\ pc[e] # "idle")

HolderInv == \A t \in Trades : log[t] # "none" => \E e \in Deliveries(t) : Holds(e)

LEMMA StepProgress ==
    ASSUME TypeInv, ProgressInv, NEW e \in Calls, Step(e)
    PROVE  ProgressInv'
<1> USE DEF TypeInv
<1>0. At(e) /\ Progress(e) /\ Kind(e) \in Kinds /\ Trade(e) \in Trades
  BY OpFacts DEF AtInv, ProgressInv
<1>1. /\ op' = op /\ \A f \in Calls \ {e} : pc'[f] = pc[f]
      /\ spent \subseteq spent' /\ visits \subseteq visits' /\ counted \subseteq counted'
      /\ credited \subseteq credited' /\ hurt \subseteq hurt'
  BY OthersStay
  DEF Step, LogLookup, LogCreate, WebhookFind, SaleFind, AddSpend, CreateCustomer, CreateVisit,
     AddVisitCount, Count, Accrue, CheckMilestone, Processed, StaffLook, PortalLook, StaffBook, PortalBook,
     Visited, Dies, customer, booked, clock, history
<1>2. \A t \in Trades : log[t] # "none" => log'[t] # "none"
  BY StepOwns
<1>3. ASSUME NEW f \in Calls \ {e} PROVE Progress(f)'
  BY <1>1, <1>2, OpFacts DEF ProgressInv, Progress, Whole, Kind, Trade, Who
<1>4. Progress(e)'
  <2> SUFFICES ASSUME Kind(e) = "WEBHOOK" PROVE Progress(e)'
    BY <1>1 DEF Progress, Kind
  <2> USE <1>0, <1>1 DEF At, Progress, Whole, Goto, TypeOK, Kind, Who, Trade
  <2>1. CASE LogLookup(e)
    BY <2>1 DEF LogLookup, customer, booked, clock, history
  <2>2. CASE LogCreate(e)
    BY <2>2 DEF LogCreate, Unlogged, customer, booked, clock, history
  <2>3. CASE WebhookFind(e)
    BY <2>3 DEF WebhookFind, AfterFind, customer, clock, history
  <2>4. CASE AddSpend(e)
    BY <2>4 DEF AddSpend, booked, clock, history
  <2>5. CASE CreateCustomer(e)
    BY <2>5 DEF CreateCustomer, booked, clock
  <2>6. CASE CreateVisit(e)
    BY <2>6 DEF CreateVisit, customer, clock
  <2>7. CASE AddVisitCount(e)
    BY <2>7 DEF AddVisitCount, Count, booked, clock
  <2>8. CASE Accrue(e)
    BY <2>8 DEF Accrue, customer, clock
  <2>9. CASE CheckMilestone(e) \/ Processed(e)
    BY <2>9 DEF CheckMilestone, Processed, customer, booked, clock, history
  <2>10. CASE Dies(e)
    BY <2>10 DEF Dies, customer, booked, clock
  <2> QED BY <2>1, <2>2, <2>3, <2>4, <2>5, <2>6, <2>7, <2>8, <2>9, <2>10
      DEF Step, SaleFind, StaffLook, PortalLook, StaffBook, PortalBook
<1> QED BY <1>3, <1>4 DEF ProgressInv

LEMMA StepHolder ==
    ASSUME TypeInv, HolderInv, NEW e \in Calls, Step(e)
    PROVE  HolderInv'
<1> USE DEF TypeInv
<1>0. At(e) /\ Kind(e) \in Kinds /\ Trade(e) \in Trades
  BY OpFacts DEF AtInv
<1>1. op' = op /\ \A f \in Calls \ {e} : pc'[f] = pc[f]
  BY OthersStay
<1>2. \A t \in Trades : Deliveries(t)' = Deliveries(t)
  BY <1>1 DEF Deliveries, Kind, Trade
<1>3. Kind(e) = "WEBHOOK" /\ Holds(e) => Holds(e)'
  BY <1>0, <1>1 DEF TypeOK, Step, LogLookup, LogCreate, WebhookFind, SaleFind, AfterFind, AddSpend, CreateCustomer,
     CreateVisit, AddVisitCount, Accrue, CheckMilestone, Processed, StaffLook, PortalLook, StaffBook, PortalBook,
     Visited, Dies, Goto, Holds, Booking, At, Kind, Who
<1>4. \A t \in Trades : \A f \in Deliveries(t) : Holds(f) => Holds(f)'
  BY <1>1, <1>3 DEF Deliveries, Holds, Kind, Who
<1>5. \A t \in Trades : log[t] = "none" /\ log'[t] # "none" => e \in Deliveries(t) /\ Holds(e)'
  BY <1>0, <1>1 DEF TypeOK, Step, LogLookup, LogCreate, WebhookFind, SaleFind, AddSpend, CreateCustomer,
     CreateVisit, AddVisitCount, Accrue, CheckMilestone, Processed, StaffLook, PortalLook, StaffBook, PortalBook,
     Visited, Dies, Goto, Holds, Booking, At, Deliveries, customer, booked, clock, history, Who
<1> QED BY <1>1, <1>2, <1>4, <1>5 DEF HolderInv

\* A trade is lost only when a delivery of it stopped half-way.
THEOREM LostSalesExplained == Spec => []LostSaleExplained
<1> DEFINE Inv == TypeInv /\ ProgressInv /\ HolderInv
<1>1. Init => Inv
  <2> SUFFICES ASSUME Init PROVE ProgressInv /\ HolderInv
    BY InitTypeInv
  <2> QED BY DEF Init, ProgressInv, Progress, HolderInv
<1>2. Inv /\ [Next]_vars => Inv'
  <2> SUFFICES ASSUME Inv, [Next]_vars PROVE Inv'
    OBVIOUS
  <2>1. CASE \E e \in Calls : Step(e)
    BY <2>1, StepAt, StepTypeOK, StepProgress, StepHolder DEF TypeInv
  <2>2. CASE SixHours \/ Midnight \/ UNCHANGED vars
    <3>1. UNCHANGED <<op, pc, log, customer, booked, hurt>>
      BY <2>2, TimeKeeps
    <3>2. ProgressInv' /\ HolderInv'
      BY <3>1 DEF ProgressInv, Progress, Whole, HolderInv, Deliveries, Holds, Kind, Trade, Who, customer, booked
    <3> QED BY <2>2, <3>2, TimeTypeInv, StutterTypeInv
  <2> QED BY <2>1, <2>2 DEF Next
<1>3. Inv => LostSaleExplained
  <2> SUFFICES ASSUME Inv, NEW t \in Trades,
                      \E e \in Deliveries(t) : pc[e] # "idle",
                      \A e \in Deliveries(t) : pc[e] \in {"idle"} \cup Ended
               PROVE  \E e \in Deliveries(t) : Whole(e) \/ e \in hurt \/ (Who(e) = Nobody /\ pc[e] # "idle")
    BY DEF LostSaleExplained
  <2>1. \A e \in Deliveries(t) : e \in Calls /\ Kind(e) = "WEBHOOK" /\ Trade(e) = t /\ Progress(e)
    BY DEF Deliveries, ProgressInv
  <2>2. \A e \in Deliveries(t) : Holds(e) => Whole(e) \/ e \in hurt \/ (Who(e) = Nobody /\ pc[e] # "idle")
    BY <2>1 DEF Holds, Progress, Booking, Ended
  <2>3. \A e \in Deliveries(t) : pc[e] # "idle" =>
             Whole(e) \/ e \in hurt \/ (Who(e) = Nobody /\ pc[e] # "idle") \/ log[t] # "none"
    BY <2>1 DEF Progress, Ended
  <2> QED BY <2>2, <2>3 DEF HolderInv
<1> QED BY <1>1, <1>2, <1>3, PTL DEF Spec

-----------------------------------------------------------------------------
(* Check-ins.                                                               *)

\* Where a call is that has made its visit.
Made == {"count", "accrue", "milestone", "processed", "done", "dead"}
QR(p) == TodayOf(p, "QR_CHECKIN")
ByStaff(p, s) == {f \in TodayOf(p, s) : Kind(f) = "STAFF"}

TodayInv == \A f \in today : pc[f] \in Made /\ (Kind(f) \in CheckIns => whose[f] = Who(f))

\* A check-in books, or has looked and is about to book, or the step touches
\* neither the QR_CHECKIN visits of today nor those of staff.
Books(e) ==
    /\ pc[e] = "book" /\ pc'[e] # "book" /\ packed' = packed
    /\ recent' = IF Source(e) = "QR_CHECKIN" THEN recent \cup {Who(e)} ELSE recent
    /\ today' = today \cup {e} /\ e \notin today
    /\ \A p, s : TodayOf(p, s)' = IF p = Who(e) /\ s = Source(e) THEN TodayOf(p, s) \cup {e} ELSE TodayOf(p, s)

Looks(e) ==
    /\ pc'[e] = "book" /\ Crowd(e) /\ today' = today /\ recent' = recent
    /\ \/ Kind(e) = "STAFF" /\ FirstToday(Who(e), Source(e))
       \/ Kind(e) = "PORTAL" /\ BelowLimit(Who(e)) /\ Rested(Who(e))
    /\ \A p, s : TodayOf(p, s)' = TodayOf(p, s)

Elsewhere(e) ==
    /\ pc'[e] # "book" /\ recent' = recent /\ packed' = packed
    /\ \A f \in today' \ today : Kind(f) = "WEBHOOK"
    /\ \A p : QR(p)' = QR(p)
    /\ \A p, s : ByStaff(p, s)' = ByStaff(p, s)

LEMMA StepToday ==
    ASSUME TypeInv, TodayInv, NEW e \in Calls, Step(e)
    PROVE  /\ op' = op /\ packed \subseteq packed' /\ \A f \in Calls \ {e} : pc'[f] = pc[f]
           /\ TodayInv'
           /\ Books(e) \/ Looks(e) \/ Elsewhere(e)
<1> USE DEF TypeInv
<1>0. At(e) /\ Kind(e) \in Kinds /\ today \subseteq Calls
  BY OpFacts DEF AtInv, TypeOK
<1>1. /\ op' = op /\ packed \subseteq packed'
      /\ \A f \in Calls \ {e} : pc'[f] = pc[f] /\ whose'[f] = whose[f]
  BY OthersStay DEF Step, LogLookup, LogCreate, WebhookFind, SaleFind, AddSpend, CreateCustomer,
     CreateVisit, AddVisitCount, Accrue, CheckMilestone, Processed, StaffLook, PortalLook, StaffBook, PortalBook,
     Visited, Crowd, Dies, history
<1>2. \A f : Who(f)' = Who(f) /\ Kind(f)' = Kind(f) /\ Source(f)' = Source(f)
  BY <1>1 DEF Who, Kind, Source
<1>3. CASE StaffBook(e) \/ PortalBook(e)
  <2>1. /\ pc[e] = "book" /\ pc'[e] = "accrue" /\ whose'[e] = Who(e) /\ Kind(e) \in CheckIns
        /\ today' = today \cup {e} /\ packed' = packed
        /\ recent' = IF Source(e) = "QR_CHECKIN" THEN recent \cup {Who(e)} ELSE recent
    BY <1>3 DEF StaffBook, PortalBook, Visited, Goto, TypeOK, CheckIns, history
  <2>2. e \notin today
    BY <2>1 DEF TodayInv, Made
  <2>3. TodayInv'
    BY <1>0, <1>1, <1>2, <2>1 DEF TodayInv, Made
  <2>4. \A p, s : TodayOf(p, s)' = IF p = Who(e) /\ s = Source(e) THEN TodayOf(p, s) \cup {e} ELSE TodayOf(p, s)
    BY <1>0, <1>1, <1>2, <2>1, <2>2 DEF TodayOf
  <2> QED BY <1>1, <2>1, <2>2, <2>3, <2>4 DEF Books
<1>4. CASE StaffLook(e) \/ PortalLook(e)
  <2>1. today' = today /\ recent' = recent /\ whose' = whose /\ pc[e] = "idle"
    BY <1>4 DEF StaffLook, PortalLook, clock, booked
  <2>2. e \notin today
    BY <2>1 DEF TodayInv, Made
  <2>3. TodayInv'
    BY <1>0, <1>1, <1>2, <2>1, <2>2 DEF TodayInv
  <2>4. \A p, s : TodayOf(p, s)' = TodayOf(p, s)
    BY <1>2, <2>1 DEF TodayOf
  <2>5. CASE pc'[e] = "book"
    <3>1. /\ Crowd(e)
          /\ \/ Kind(e) = "STAFF" /\ FirstToday(Who(e), Source(e))
             \/ Kind(e) = "PORTAL" /\ BelowLimit(Who(e)) /\ Rested(Who(e))
      BY <1>4, <2>5 DEF StaffLook, PortalLook, Goto, TypeOK
    <3> QED BY <1>1, <2>1, <2>3, <2>4, <2>5, <3>1 DEF Looks
  <2>6. CASE pc'[e] # "book"
    <3>1. packed' = packed
      BY <1>4, <2>6 DEF StaffLook, PortalLook, Goto, TypeOK
    <3>2. (\A p : QR(p)' = QR(p)) /\ \A p, s : ByStaff(p, s)' = ByStaff(p, s)
      BY <1>2, <2>4 DEF QR, ByStaff
    <3> QED BY <1>1, <2>1, <2>3, <2>6, <3>1, <3>2 DEF Elsewhere
  <2> QED BY <2>5, <2>6
<1>5. CASE CreateVisit(e)
  <2>1. /\ pc[e] = "visit" /\ pc'[e] \in {"count", "dead"} /\ whose' = whose /\ recent' = recent /\ packed' = packed
        /\ today' = today \/ (today' = today \cup {e} /\ Kind(e) = "WEBHOOK")
    BY <1>5 DEF CreateVisit, Goto, TypeOK
  <2>2. e \notin today
    BY <2>1 DEF TodayInv, Made
  <2>3. TodayInv'
    BY <1>0, <1>1, <1>2, <2>1 DEF TodayInv, Made, CheckIns
  <2>4. \A p : QR(p)' = QR(p)
    BY <1>2, <2>1 DEF QR, TodayOf, Source
  <2>5. \A p, s : ByStaff(p, s)' = ByStaff(p, s)
    BY <1>2, <2>1 DEF ByStaff, TodayOf
  <2> QED BY <1>1, <2>1, <2>3, <2>4, <2>5 DEF Elsewhere
<1>6. CASE ~(StaffBook(e) \/ PortalBook(e)) /\ ~(StaffLook(e) \/ PortalLook(e)) /\ ~CreateVisit(e)
  <2>1. today' = today /\ recent' = recent /\ packed' = packed /\ pc'[e] # "book"
    BY <1>6 DEF Step, LogLookup, LogCreate, WebhookFind, AfterFind, SaleFind, AddSpend, CreateCustomer,
       AddVisitCount, Accrue, CheckMilestone, Processed, Dies, Goto, clock, history, TypeOK
  <2>2. e \in today => whose'[e] = whose[e] /\ pc'[e] \in Made
    <3>1. CASE e \in today
      <4>1. pc[e] \in Made
        BY <3>1 DEF TodayInv
      <4>2. ~WebhookFind(e) /\ ~SaleFind(e)
        BY <4>1 DEF WebhookFind, SaleFind, Made
      <4>3. whose' = whose
        BY <1>6, <4>2 DEF Step, LogLookup, LogCreate, AddSpend, CreateCustomer,
           AddVisitCount, Accrue, CheckMilestone, Processed, Dies, booked
      <4>4. pc'[e] \in Made
        BY <1>6, <4>1, <4>2 DEF Step, LogLookup, LogCreate, AddSpend, CreateCustomer,
           AddVisitCount, Accrue, CheckMilestone, Processed, Dies, Goto, TypeOK, Made
      <4> QED BY <4>3, <4>4
    <3> QED BY <3>1
  <2>3. \A f \in today : whose'[f] = whose[f] /\ pc'[f] \in Made
    BY <1>0, <1>1, <2>2 DEF TodayInv
  <2>4. TodayInv'
    BY <1>2, <2>1, <2>3 DEF TodayInv
  <2>5. \A p, s : TodayOf(p, s)' = TodayOf(p, s)
    BY <1>2, <2>1, <2>3 DEF TodayOf
  <2>6. (\A p : QR(p)' = QR(p)) /\ \A p, s : ByStaff(p, s)' = ByStaff(p, s)
    BY <1>2, <2>5 DEF QR, ByStaff
  <2> QED BY <1>1, <2>1, <2>4, <2>6 DEF Elsewhere
<1> QED BY <1>3, <1>4, <1>5, <1>6

\* Two check-ins of one customer and source about to book were both counted as
\* packed, and a lone one has looked at the visits that are still today's.
PackInv ==
    /\ \A e, f \in Calls :
         pc[e] = "book" /\ pc[f] = "book" /\ Who(e) = Who(f) /\ Source(e) = Source(f) /\ e # f
         => <<Who(e), Source(e)>> \in packed
    /\ \A e \in Calls :
         pc[e] = "book" /\ Source(e) = "QR_CHECKIN" /\ Who(e) \in recent /\ QR(Who(e)) # {}
         => <<Who(e), "QR_CHECKIN">> \in packed

LEMMA StepPack ==
    ASSUME TypeInv, TodayInv, PackInv, NEW e \in Calls, Step(e)
    PROVE  /\ PackInv'
           /\ \A f \in Calls : /\ f \in today' \ today /\ Source(f) = "QR_CHECKIN"
                               /\ Who(f) \in recent /\ QR(Who(f)) # {}
                               => <<Who(f), "QR_CHECKIN">> \in packed
<1>1. /\ op' = op /\ packed \subseteq packed' /\ \A f \in Calls \ {e} : pc'[f] = pc[f]
      /\ Books(e) \/ Looks(e) \/ Elsewhere(e)
  BY StepToday
<1>2. \A f : Who(f)' = Who(f) /\ Source(f)' = Source(f)
  BY <1>1 DEF Who, Kind, Source
<1>3. CASE Books(e)
  <2>1. \A f \in Calls : pc'[f] = "book" => f # e /\ pc[f] = "book"
    BY <1>1, <1>3 DEF Books
  <2>2. \A f \in Calls : pc[f] = "book" /\ f # e /\ Who(f) = Who(e) /\ Source(f) = Source(e)
                         => <<Who(f), Source(f)>> \in packed
    BY <1>3 DEF Books, PackInv
  <2>3. ASSUME NEW f \in Calls, pc'[f] = "book", Source(f) = "QR_CHECKIN", Who(f) \in recent', QR(Who(f))' # {}
        PROVE  <<Who(f), "QR_CHECKIN">> \in packed
    <3>1. f # e /\ pc[f] = "book"
      BY <2>1, <2>3
    <3>2. CASE Who(f) = Who(e) /\ Source(e) = "QR_CHECKIN"
      BY <2>2, <2>3, <3>1, <3>2
    <3>3. CASE ~(Who(f) = Who(e) /\ Source(e) = "QR_CHECKIN")
      <4>1. Who(f) \in recent /\ QR(Who(f)) # {}
        BY <1>2, <1>3, <2>3, <3>3 DEF Books, QR
      <4> QED BY <2>3, <3>1, <4>1 DEF PackInv
    <3> QED BY <3>2, <3>3
  <2>4. PackInv'
    BY <1>1, <1>2, <2>1, <2>3 DEF PackInv, QR
  <2>5. \A f \in Calls : f \in today' \ today => f = e /\ pc[f] = "book"
    BY <1>3 DEF Books
  <2> QED BY <2>4, <2>5 DEF PackInv
<1>4. CASE Looks(e)
  <2>1. \A f \in Calls \ {e} : pc[f] = "book" /\ Who(f) = Who(e) /\ Source(f) = Source(e)
                               => <<Who(e), Source(e)>> \in packed'
    BY <1>4 DEF Looks, Crowd
  <2>2. \A p : QR(p)' = QR(p)
    BY <1>4 DEF Looks, QR
  <2>3. Source(e) = "QR_CHECKIN" => Who(e) \notin recent \/ QR(Who(e)) = {}
    BY <1>4 DEF Looks, FirstToday, Rested, QR
  <2>4. today' = today /\ recent' = recent
    BY <1>4 DEF Looks
  <2> QED BY <1>1, <1>2, <2>1, <2>2, <2>3, <2>4 DEF PackInv
<1>5. CASE Elsewhere(e)
  <2>1. \A f \in Calls : pc'[f] = "book" => pc[f] = "book"
    BY <1>1, <1>5 DEF Elsewhere
  <2>2. PackInv'
    BY <1>1, <1>2, <1>5, <2>1 DEF PackInv, Elsewhere
  <2>3. \A f \in today' \ today : Source(f) # "QR_CHECKIN"
    BY <1>5 DEF Elsewhere, Source
  <2> QED BY <2>2, <2>3
<1> QED BY <1>1, <1>3, <1>4, <1>5

LEMMA TimePack ==
    ASSUME TypeInv, TodayInv, PackInv, SixHours \/ Midnight \/ UNCHANGED vars
    PROVE  /\ UNCHANGED <<op, pc, whose, packed>> /\ TodayInv' /\ PackInv'
           /\ (\A p, s : TodayOf(p, s)' = TodayOf(p, s)) \/ (\A p, s : TodayOf(p, s)' = {})
           /\ today' \subseteq today /\ recent' \subseteq recent
<1>1. UNCHANGED <<op, pc, whose, packed>> /\ recent' \subseteq recent /\ today' \in {today, {}}
  BY DEF SixHours, Midnight, vars, clock, booked, history
<1>2. \A f : Who(f)' = Who(f) /\ Kind(f)' = Kind(f) /\ Source(f)' = Source(f)
  BY <1>1 DEF Who, Kind, Source
<1>3. (\A p, s : TodayOf(p, s)' = TodayOf(p, s)) \/ (\A p, s : TodayOf(p, s)' = {})
  BY <1>1, <1>2 DEF TodayOf
<1>4. TodayInv'
  BY <1>1, <1>2 DEF TodayInv
<1>5. \A p : QR(p)' # {} => QR(p) # {}
  BY <1>3 DEF QR
<1>6. PackInv'
  BY <1>1, <1>2, <1>5 DEF PackInv
<1> QED BY <1>1, <1>3, <1>4, <1>6

\* Within six hours of the last QR_CHECKIN visit of the day another one is
\* added only when two were under way at once.
THEOREM CheckInsAreSpaced == Spec => CheckInsSpaced
<1> DEFINE Inv == TypeInv /\ TodayInv /\ PackInv
           Spaced(e) == /\ e \in today' \ today /\ Source(e) = "QR_CHECKIN"
                        /\ Who(e) \in recent /\ TodayOf(Who(e), "QR_CHECKIN") # {}
                        => <<Who(e), "QR_CHECKIN">> \in packed
<1>1. Init => Inv
  <2> SUFFICES ASSUME Init PROVE TodayInv /\ PackInv
    BY InitTypeInv
  <2> QED BY DEF Init, TodayInv, PackInv
<1>2. Inv /\ [Next]_vars => Inv' /\ \A e \in Calls : Spaced(e)
  <2> SUFFICES ASSUME Inv, [Next]_vars PROVE Inv' /\ \A e \in Calls : Spaced(e)
    OBVIOUS
  <2>1. CASE \E e \in Calls : Step(e)
    BY <2>1, StepAt, StepTypeOK, StepToday, StepPack DEF TypeInv, QR
  <2>2. CASE SixHours \/ Midnight \/ UNCHANGED vars
    BY <2>2, TimePack, TimeTypeInv, StutterTypeInv
  <2> QED BY <2>1, <2>2 DEF Next
<1>3. (\A e \in Calls : Spaced(e)) =>
        \A e \in Calls : LET p == Who(e) IN
          /\ e \in today' \ today /\ Source(e) = "QR_CHECKIN"
          /\ p \in recent /\ TodayOf(p, "QR_CHECKIN") # {}
          => <<p, "QR_CHECKIN">> \in packed
  OBVIOUS
<1> HIDE DEF Inv, Spaced
<1> QED BY <1>1, <1>2, <1>3, PTL DEF Spec, CheckInsSpaced

\* A check-in about to book has found room for itself, or another is with it.
LimitInv ==
    /\ \A p \in People : Cardinality(QR(p)) <= PerDay \/ <<p, "QR_CHECKIN">> \in packed
    /\ \A e \in Calls : pc[e] = "book" /\ Source(e) = "QR_CHECKIN" =>
         Cardinality(QR(Who(e))) < PerDay \/ <<Who(e), "QR_CHECKIN">> \in packed
    /\ \A p \in People, s \in Sources : \A e, f \in ByStaff(p, s) : e = f \/ <<p, s>> \in packed
    /\ \A e \in Calls : pc[e] = "book" /\ Kind(e) = "STAFF" =>
         ByStaff(Who(e), Source(e)) = {} \/ <<Who(e), Source(e)>> \in packed

LEMMA TodayFinite ==
    ASSUME TypeInv, NEW p
    PROVE  IsFiniteSet(QR(p)) /\ Cardinality(QR(p)) \in Nat
<1>1. IsFiniteSet(QR(p))
  <2>1. QR(p) \subseteq Calls
    BY DEF QR, TodayOf, TypeInv, TypeOK
  <2> QED BY <2>1, FS_Subset, ConstantsAssumption
<1> QED BY <1>1, FS_CardinalityType

LEMMA StepLimit ==
    ASSUME TypeInv, TodayInv, PackInv, LimitInv, NEW e \in Calls, Step(e)
    PROVE  LimitInv'
<1>0. At(e) /\ Kind(e) \in Kinds /\ Source(e) \in Sources /\ PerDay \in Nat \ {0}
  BY OpFacts, ConstantsAssumption DEF AtInv, TypeInv
<1>1. /\ op' = op /\ packed \subseteq packed' /\ \A f \in Calls \ {e} : pc'[f] = pc[f]
      /\ Books(e) \/ Looks(e) \/ Elsewhere(e)
  BY StepToday
<1>2. \A f : Who(f)' = Who(f) /\ Kind(f)' = Kind(f) /\ Source(f)' = Source(f)
  BY <1>1 DEF Who, Kind, Source
<1>3. CASE Books(e)
  <2>1. \A f \in Calls : pc'[f] = "book" => f # e /\ pc[f] = "book"
    BY <1>1, <1>3 DEF Books
  <2>2. \A f \in Calls : pc[f] = "book" /\ f # e /\ Who(f) = Who(e) /\ Source(f) = Source(e)
                         => <<Who(e), Source(e)>> \in packed
    BY <1>3 DEF Books, PackInv
  <2>3. packed' = packed /\ pc[e] = "book"
    BY <1>3 DEF Books
  <2>4. \A p : ~(p = Who(e) /\ Source(e) = "QR_CHECKIN") => QR(p)' = QR(p)
    BY <1>3 DEF Books, QR
  <2>5. ASSUME Source(e) = "QR_CHECKIN"
        PROVE  Cardinality(QR(Who(e)))' <= PerDay \/ <<Who(e), "QR_CHECKIN">> \in packed
    <3>1. QR(Who(e))' = QR(Who(e)) \cup {e}
      BY <1>2, <1>3, <2>5 DEF Books, QR
    <3>2. /\ Cardinality(QR(Who(e)) \cup {e}) <= Cardinality(QR(Who(e))) + 1
          /\ Cardinality(QR(Who(e))) \in Nat /\ Cardinality(QR(Who(e)) \cup {e}) \in Nat
      BY TodayFinite, FS_AddElement, FS_CardinalityType
    <3>3. Cardinality(QR(Who(e))) < PerDay \/ <<Who(e), "QR_CHECKIN">> \in packed
      BY <2>3, <2>5 DEF LimitInv
    <3>4. \A m, n \in Nat : n <= m + 1 /\ m < PerDay => n <= PerDay
      BY <1>0
    <3> QED BY ONLY <3>1, <3>2, <3>3, <3>4
  <2>6. \A p \in People : Cardinality(QR(p))' <= PerDay \/ <<p, "QR_CHECKIN">> \in packed
    <3> SUFFICES ASSUME NEW p \in People
                 PROVE  Cardinality(QR(p))' <= PerDay \/ <<p, "QR_CHECKIN">> \in packed
      OBVIOUS
    <3>1. CASE p = Who(e) /\ Source(e) = "QR_CHECKIN"
      <4>1. Cardinality(QR(p))' = Cardinality(QR(Who(e)))'
        BY <1>2, <3>1
      <4> QED BY <2>5, <3>1, <4>1
    <3>2. CASE ~(p = Who(e) /\ Source(e) = "QR_CHECKIN")
      <4>1. QR(p)' = QR(p)
        BY <2>4, <3>2
      <4> QED BY <4>1 DEF LimitInv
    <3> QED BY <3>1, <3>2
  <2>7. ASSUME NEW f \in Calls, pc'[f] = "book", Source(f) = "QR_CHECKIN"
        PROVE  Cardinality(QR(Who(f)))' < PerDay \/ <<Who(f), "QR_CHECKIN">> \in packed
    <3>1. f # e /\ pc[f] = "book"
      BY <2>1, <2>7
    <3>2. CASE Who(f) = Who(e) /\ Source(e) = "QR_CHECKIN"
      BY <2>2, <2>7, <3>1, <3>2
    <3>3. CASE ~(Who(f) = Who(e) /\ Source(e) = "QR_CHECKIN")
      <4>1. QR(Who(f))' = QR(Who(f))
        BY <1>2, <2>4, <3>3
      <4> QED BY <2>7, <3>1, <4>1 DEF LimitInv
    <3> QED BY <3>2, <3>3
  <2>8. \A p, s : ByStaff(p, s)' = IF p = Who(e) /\ s = Source(e) /\ Kind(e) = "STAFF"
                                  THEN ByStaff(p, s) \cup {e} ELSE ByStaff(p, s)
    BY <1>2, <1>3 DEF Books, ByStaff
  <2>9. Kind(e) = "STAFF" => ByStaff(Who(e), Source(e)) = {} \/ <<Who(e), Source(e)>> \in packed
    BY <2>3 DEF LimitInv
  <2>10. \A p \in People, s \in Sources : \A f, g \in ByStaff(p, s)' : f = g \/ <<p, s>> \in packed
    BY <2>8, <2>9 DEF LimitInv
  <2>11. \A f \in Calls : pc'[f] = "book" /\ Kind(f) = "STAFF" =>
           ByStaff(Who(f), Source(f))' = {} \/ <<Who(f), Source(f)>> \in packed
    <3> SUFFICES ASSUME NEW f \in Calls, pc'[f] = "book", Kind(f) = "STAFF"
                 PROVE  ByStaff(Who(f), Source(f))' = {} \/ <<Who(f), Source(f)>> \in packed
      OBVIOUS
    <3>1. f # e /\ pc[f] = "book"
      BY <2>1
    <3>2. CASE Who(f) = Who(e) /\ Source(f) = Source(e)
      BY <2>2, <3>1, <3>2
    <3>3. CASE ~(Who(f) = Who(e) /\ Source(f) = Source(e))
      <4>1. ByStaff(Who(f), Source(f))' = ByStaff(Who(f), Source(f))
        BY <1>2, <2>8, <3>3
      <4> QED BY <3>1, <4>1 DEF LimitInv
    <3> QED BY <3>2, <3>3
  <2> QED BY <1>2, <2>3, <2>6, <2>7, <2>10, <2>11 DEF LimitInv
<1>4. CASE Looks(e)
  <2>1. (\A p : QR(p)' = QR(p)) /\ \A p, s : ByStaff(p, s)' = ByStaff(p, s)
    BY <1>2, <1>4 DEF Looks, QR, ByStaff
  <2>2. Source(e) = "QR_CHECKIN" => Cardinality(QR(Who(e))) < PerDay
    <3>1. CASE Kind(e) = "STAFF" /\ FirstToday(Who(e), Source(e)) /\ Source(e) = "QR_CHECKIN"
      <4>1. QR(Who(e)) = {}
        BY <3>1 DEF FirstToday, QR
      <4> QED BY <1>0, <4>1, FS_EmptySet
    <3>2. CASE Kind(e) = "PORTAL" /\ BelowLimit(Who(e))
      BY <3>2 DEF BelowLimit, QR
    <3> QED BY <1>4, <3>1, <3>2 DEF Looks
  <2>3. Kind(e) = "STAFF" => ByStaff(Who(e), Source(e)) = {}
    BY <1>4 DEF Looks, FirstToday, ByStaff
  <2> QED BY <1>1, <1>2, <2>1, <2>2, <2>3 DEF LimitInv
<1>5. CASE Elsewhere(e)
  <2>1. /\ (\A p : QR(p)' = QR(p)) /\ \A p, s : ByStaff(p, s)' = ByStaff(p, s)
        /\ packed' = packed
    BY <1>5 DEF Elsewhere
  <2>2. \A f \in Calls : pc'[f] = "book" => pc[f] = "book"
    BY <1>1, <1>5 DEF Elsewhere
  <2> QED BY <1>2, <2>1, <2>2 DEF LimitInv
<1> QED BY <1>1, <1>3, <1>4, <1>5

LEMMA TimeLimit ==
    ASSUME TypeInv, TodayInv, PackInv, LimitInv, SixHours \/ Midnight \/ UNCHANGED vars
    PROVE  LimitInv'
<1>1. /\ UNCHANGED <<op, pc, packed>>
      /\ (\A p, s : TodayOf(p, s)' = TodayOf(p, s)) \/ (\A p, s : TodayOf(p, s)' = {})
  BY TimePack
<1>2. \A f : Who(f)' = Who(f) /\ Kind(f)' = Kind(f) /\ Source(f)' = Source(f)
  BY <1>1 DEF Who, Kind, Source
<1>3. CASE \A p, s : TodayOf(p, s)' = TodayOf(p, s)
  <2>1. (\A p : QR(p)' = QR(p)) /\ \A p, s : ByStaff(p, s)' = ByStaff(p, s)
    BY <1>2, <1>3 DEF QR, ByStaff
  <2> QED BY <1>1, <1>2, <2>1 DEF LimitInv
<1>4. CASE \A p, s : TodayOf(p, s)' = {}
  <2>1. (\A p : QR(p)' = {}) /\ \A p, s : ByStaff(p, s)' = {}
    BY <1>2, <1>4 DEF QR, ByStaff
  <2>2. PerDay \in Nat \ {0} /\ Cardinality({}) = 0
    BY ConstantsAssumption, FS_EmptySet
  <2> QED BY <1>2, <2>1, <2>2 DEF LimitInv
<1> QED BY <1>1, <1>3, <1>4

\* A customer passes the daily limit, and staff that of a source, only when two
\* check-ins of that source overlapped.
THEOREM DailyLimitKept == Spec => []DailyLimit
<1> DEFINE Inv == TypeInv /\ TodayInv /\ PackInv /\ LimitInv
<1>1. Init => Inv
  <2> SUFFICES ASSUME Init PROVE TodayInv /\ PackInv /\ LimitInv
    BY InitTypeInv
  <2>1. TodayInv /\ PackInv
    BY DEF Init, TodayInv, PackInv
  <2>2. (\A p : QR(p) = {}) /\ \A p, s : ByStaff(p, s) = {}
    BY DEF Init, QR, ByStaff, TodayOf
  <2>3. PerDay \in Nat \ {0} /\ Cardinality({}) = 0
    BY ConstantsAssumption, FS_EmptySet
  <2>4. LimitInv
    BY <2>2, <2>3 DEF LimitInv, Init
  <2> QED BY <2>1, <2>4
<1>2. Inv /\ [Next]_vars => Inv'
  <2> SUFFICES ASSUME Inv, [Next]_vars PROVE Inv'
    OBVIOUS
  <2>1. CASE \E e \in Calls : Step(e)
    BY <2>1, StepAt, StepTypeOK, StepToday, StepPack, StepLimit DEF TypeInv
  <2>2. CASE SixHours \/ Midnight \/ UNCHANGED vars
    BY <2>2, TimeTypeInv, StutterTypeInv, TimePack, TimeLimit
  <2> QED BY <2>1, <2>2 DEF Next
<1>3. Inv => DailyLimit
  <2> SUFFICES ASSUME Inv, NEW p \in People
      PROVE  /\ Cardinality(QR(p)) > PerDay => <<p, "QR_CHECKIN">> \in packed
             /\ \A s \in Sources : \A e, f \in ByStaff(p, s) : e # f => <<p, s>> \in packed
    BY DEF DailyLimit, QR, ByStaff
  <2>1. Cardinality(QR(p)) \in Nat /\ PerDay \in Nat
    BY TodayFinite, ConstantsAssumption
  <2> QED BY <2>1 DEF LimitInv
<1> QED BY <1>1, <1>2, <1>3, PTL DEF Spec

-----------------------------------------------------------------------------
(* The automation of a milestone starts once.                               *)

\* A call is counted by the step that leads to its look for a milestone.
CountedAt ==
    \A e \in Calls :
        /\ e \in counted => pc[e] \in {"accrue", "milestone", "processed", "done", "dead"}
        /\ Kind(e) \in {"WEBHOOK", "STAFF"} /\ pc[e] \in {"accrue", "milestone"} => e \in counted

\* While nothing has disturbed a customer's milestone, one call at a time has
\* counted without having looked, and the job is queued as soon as the call
\* that reached the milestone has looked.
TriggerInv ==
    \A p \in People \ skewed :
        /\ \A e, f \in Looking(p) : e = f
        /\ triggers[p] = IF VisitCount(p) > Milestone \/ (VisitCount(p) = Milestone /\ Looking(p) = {}) THEN 1 ELSE 0

Counting(p) == {f \in counted : whose[f] = p}

LEMMA StepCountedAt ==
    ASSUME TypeInv, CountedAt, NEW e \in Calls, Step(e)
    PROVE  CountedAt'
<1> USE DEF TypeInv
<1>0. At(e) /\ Kind(e) \in Kinds
  BY OpFacts DEF AtInv
<1>1. /\ op' = op /\ \A f \in Calls \ {e} : pc'[f] = pc[f]
      /\ \A f \in Calls \ {e} : f \in counted' <=> f \in counted
  BY OthersStay DEF Step, LogLookup, LogCreate, WebhookFind, SaleFind, AddSpend, CreateCustomer,
     CreateVisit, AddVisitCount, Count, Accrue, CheckMilestone, Processed, StaffLook, PortalLook, StaffBook,
     PortalBook, Visited, Dies, customer
<1>2. \A f \in Calls : Kind(f)' = Kind(f)
  BY <1>1 DEF Kind
<1>3. /\ e \in counted' => pc'[e] \in {"accrue", "milestone", "processed", "done", "dead"}
      /\ Kind(e) \in {"WEBHOOK", "STAFF"} /\ pc'[e] \in {"accrue", "milestone"} => e \in counted'
  <2> USE <1>0 DEF CountedAt, Goto, TypeOK
  <2>1. CASE AddVisitCount(e) \/ StaffBook(e)
    BY <2>1 DEF AddVisitCount, Count, StaffBook, Visited
  <2>2. CASE PortalBook(e)
    BY <2>2 DEF PortalBook, Visited, customer
  <2>3. CASE Accrue(e) \/ CheckMilestone(e) \/ Processed(e) \/ Dies(e)
    BY <2>3 DEF Accrue, CheckMilestone, Processed, Dies, customer
  <2>4. CASE ~(AddVisitCount(e) \/ StaffBook(e) \/ PortalBook(e) \/ Accrue(e) \/ CheckMilestone(e) \/ Processed(e) \/ Dies(e))
    <3>1. /\ counted' = counted /\ pc'[e] \notin {"accrue", "milestone"}
          /\ pc[e] \in {"idle", "log", "find", "spend", "create", "visit"}
      BY <2>4 DEF Step, LogLookup, LogCreate, WebhookFind, AfterFind, SaleFind, AddSpend, CreateCustomer,
         CreateVisit, StaffLook, PortalLook, customer
    <3> QED BY <3>1
  <2> QED BY <2>1, <2>2, <2>3, <2>4
<1> QED BY <1>1, <1>2, <1>3 DEF CountedAt

\* One more visit of a customer is one more in the count.
LEMMA CountsOneMore ==
    ASSUME TypeInv, NEW p, NEW e \in Calls, e \notin counted
    PROVE  /\ Cardinality(Counting(p)) \in Nat
           /\ Cardinality(Counting(p) \cup {e}) = Cardinality(Counting(p)) + 1
<1>1. IsFiniteSet(Counting(p))
  BY ConstantsAssumption, FS_Subset DEF Counting, TypeInv, TypeOK
<1>2. e \notin Counting(p)
  BY DEF Counting
<1> QED BY <1>1, <1>2, FS_AddElement, FS_CardinalityType

LEMMA CountsNat == TypeInv => \A p : Cardinality(Counting(p)) \in Nat
<1> SUFFICES ASSUME TypeInv, NEW p PROVE Cardinality(Counting(p)) \in Nat
  OBVIOUS
<1>1. IsFiniteSet(Counting(p))
  BY ConstantsAssumption, FS_Subset DEF Counting, TypeInv, TypeOK
<1> QED BY <1>1, FS_CardinalityType

LEMMA StepTrigger ==
    ASSUME TypeInv, CountedAt, TriggerInv, NEW e \in Calls, Step(e)
    PROVE  TriggerInv'
<1> USE DEF TypeInv
<1> DEFINE CountingAfter(p) == {f \in counted' : whose'[f] = p}
           LookingAfter(p) == {f \in Calls : /\ whose'[f] = p
                                             /\ Kind(f) \in {"WEBHOOK", "STAFF"}
                                             /\ pc'[f] \in {"accrue", "milestone"}}
<1>0. /\ At(e) /\ Kind(e) \in Kinds /\ Who(e) \in People \cup {Nobody} /\ Milestone \in Nat \ {0}
      /\ counted \subseteq Calls /\ triggers \in [People -> Nat]
  BY OpFacts, ConstantsAssumption DEF AtInv, TypeOK
<1>1. /\ op' = op /\ \A f \in Calls : Kind(f)' = Kind(f)
      /\ \A f \in Calls \ {e} : pc'[f] = pc[f] /\ whose'[f] = whose[f]
  BY OthersStay DEF Kind
<1>2. SUFFICES ASSUME NEW p \in People, p \notin skewed'
               PROVE  /\ \A f, g \in LookingAfter(p) : f = g
                      /\ triggers'[p] = IF \/ Cardinality(CountingAfter(p)) > Milestone
                                           \/ Cardinality(CountingAfter(p)) = Milestone /\ LookingAfter(p) = {}
                                        THEN 1 ELSE 0
  <2>1. \A p \in People : Looking(p)' = LookingAfter(p)
    BY <1>1 DEF Looking
  <2> QED BY <2>1 DEF TriggerInv, VisitCount
<1>3. skewed \subseteq skewed'
  BY DEF Step, LogLookup, LogCreate, WebhookFind, SaleFind, AddSpend, CreateCustomer,
     CreateVisit, AddVisitCount, Count, Accrue, CheckMilestone, Processed, StaffLook, PortalLook, StaffBook,
     PortalBook, Dies, history
<1>4. /\ \A f, g \in Looking(p) : f = g
      /\ triggers[p] = IF \/ Cardinality(Counting(p)) > Milestone
                          \/ Cardinality(Counting(p)) = Milestone /\ Looking(p) = {}
                       THEN 1 ELSE 0
      /\ Cardinality(Counting(p)) \in Nat
  BY <1>2, <1>3, CountsNat DEF TriggerInv, VisitCount, Counting
\* A step that leaves the customer's visits and calls alone.
<1>5. CASE CountingAfter(p) = Counting(p) /\ LookingAfter(p) = Looking(p) /\ triggers'[p] = triggers[p]
  <2> HIDE DEF CountingAfter, LookingAfter
  <2> QED BY <1>4, <1>5
\* A step that counts a visit of the customer.
<1>6. CASE /\ e \notin counted /\ CountingAfter(p) = Counting(p) \cup {e} /\ Looking(p) = {} /\ triggers'[p] = triggers[p]
           /\ \/ LookingAfter(p) = {e}
              \/ LookingAfter(p) = {} /\ Cardinality(Counting(p)) + 1 # Milestone
  <2>1. Cardinality(CountingAfter(p)) = Cardinality(Counting(p)) + 1
    BY <1>6, CountsOneMore
  <2>2. \A f, g \in LookingAfter(p) : f = g
    BY <1>6
  <2> HIDE DEF CountingAfter, LookingAfter
  <2> QED BY <1>0, <1>4, <1>6, <2>1, <2>2
<1>7. CASE AddVisitCount(e)
  <2>1. /\ pc[e] = "count" /\ pc'[e] = "accrue" /\ whose' = whose /\ counted' = counted \cup {e} /\ triggers' = triggers
        /\ e \notin counted /\ Kind(e) \in {"WEBHOOK", "SALE"}
    BY <1>0, <1>7 DEF AddVisitCount, Count, Goto, booked, CountedAt, At, TypeOK
  <2>2. CASE whose[e] # p
    <3>1. CountingAfter(p) = Counting(p) /\ LookingAfter(p) = Looking(p)
      BY <1>1, <2>1, <2>2 DEF Counting, Looking
    <3> QED BY <1>5, <2>1, <3>1
  <2>3. CASE whose[e] = p
    <3>1. Looking(p) = {} /\ (Kind(e) = "SALE" => Cardinality(Counting(p)) + 1 # Milestone)
      BY <1>2, <1>7, <2>3 DEF AddVisitCount, Count, VisitCount, Counting
    <3>2. CountingAfter(p) = Counting(p) \cup {e}
      BY <1>1, <2>1, <2>3 DEF Counting
    <3>3. Kind(e) = "WEBHOOK" => LookingAfter(p) = {e}
      BY <1>1, <2>1, <2>3, <3>1 DEF Looking
    <3>4. Kind(e) = "SALE" => LookingAfter(p) = {}
      BY <1>1, <2>1, <2>3, <3>1 DEF Looking
    <3> QED BY <1>6, <2>1, <3>1, <3>2, <3>3, <3>4
  <2> QED BY <2>2, <2>3
<1>8. CASE StaffBook(e)
  <2>1. /\ pc[e] = "book" /\ pc'[e] = "accrue" /\ whose'[e] = Who(e) /\ counted' = counted \cup {e} /\ triggers' = triggers
        /\ e \notin counted /\ Kind(e) = "STAFF"
    BY <1>0, <1>8 DEF StaffBook, Visited, Goto, CountedAt, TypeOK
  <2>2. CASE Who(e) # p
    <3>1. CountingAfter(p) = Counting(p) /\ LookingAfter(p) = Looking(p)
      BY <1>0, <1>1, <2>1, <2>2 DEF Counting, Looking
    <3> QED BY <1>5, <2>1, <3>1
  <2>3. CASE Who(e) = p
    <3>1. Looking(p) = {}
      BY <1>2, <1>8, <2>3 DEF StaffBook
    <3>2. CountingAfter(p) = Counting(p) \cup {e}
      BY <1>0, <1>1, <2>1, <2>3 DEF Counting
    <3>3. LookingAfter(p) = {e}
      BY <1>1, <2>1, <2>3, <3>1 DEF Looking
    <3> QED BY <1>6, <2>1, <3>1, <3>2, <3>3
  <2> QED BY <2>2, <2>3
<1>9. CASE CheckMilestone(e)
  <2>1. /\ pc[e] = "milestone" /\ pc'[e] \in {"processed", "done"} /\ whose' = whose /\ counted' = counted
        /\ Kind(e) \in {"WEBHOOK", "STAFF"}
        /\ \A q \in People : q # whose[e] => triggers'[q] = triggers[q]
    BY <1>0, <1>9 DEF CheckMilestone, Goto, booked, At, TypeOK
  <2>2. CountingAfter(p) = Counting(p)
    BY <2>1 DEF Counting
  <2>3. CASE whose[e] # p
    <3>1. LookingAfter(p) = Looking(p)
      BY <1>1, <2>1, <2>3 DEF Looking
    <3> QED BY <1>5, <2>1, <2>2, <2>3, <3>1
  <2>4. CASE whose[e] = p
    <3>1. Looking(p) = {e} /\ LookingAfter(p) = {}
      <4>1. e \in Looking(p)
        BY <2>1, <2>4 DEF Looking
      <4>2. Looking(p) = {e}
        BY <1>4, <4>1
      <4> QED BY <1>1, <2>1, <4>2 DEF Looking
    <3>2. \/ Cardinality(Counting(p)) = Milestone /\ triggers'[p] = triggers[p] + 1
          \/ (Cardinality(Counting(p)) = Milestone => triggers[p] > 0) /\ triggers'[p] = triggers[p]
      BY <1>0, <1>9, <2>4 DEF CheckMilestone, AtMilestone, VisitCount, Counting
    <3>3. triggers'[p] = IF Cardinality(Counting(p)) >= Milestone THEN 1 ELSE 0
      BY <1>0, <1>4, <3>1, <3>2
    <3> HIDE DEF CountingAfter, LookingAfter
    <3> QED BY <1>0, <1>4, <2>2, <3>1, <3>3
  <2> QED BY <2>3, <2>4
<1>10. CASE Dies(e)
  <2>1. /\ pc'[e] = "dead" /\ whose' = whose /\ counted' = counted /\ triggers' = triggers
        /\ e \in counted => whose[e] # p
    BY <1>2, <1>10 DEF Dies, Goto, booked, customer, TypeOK
  <2>2. CountingAfter(p) = Counting(p)
    BY <2>1 DEF Counting
  <2>3. LookingAfter(p) = Looking(p)
    BY <1>1, <2>1 DEF Looking, CountedAt
  <2> QED BY <1>5, <2>1, <2>2, <2>3
<1>11. CASE ~(AddVisitCount(e) \/ StaffBook(e) \/ CheckMilestone(e) \/ Dies(e))
  <2>1. counted' = counted /\ triggers' = triggers
    BY <1>11 DEF Step, LogLookup, LogCreate, WebhookFind, SaleFind, AddSpend, CreateCustomer,
       CreateVisit, Accrue, Processed, StaffLook, PortalLook, PortalBook, customer
  <2>2. e \in counted => whose'[e] = whose[e]
    BY <1>11 DEF Step, LogLookup, LogCreate, WebhookFind, SaleFind, AddSpend, CreateCustomer,
       CreateVisit, Accrue, Processed, StaffLook, PortalLook, PortalBook, Visited, booked, CountedAt
  <2>3. CountingAfter(p) = Counting(p)
    BY <1>0, <1>1, <2>1, <2>2 DEF Counting
  <2>4. e \in LookingAfter(p) <=> e \in Looking(p)
    BY <1>0, <1>11 DEF Step, LogLookup, LogCreate, WebhookFind, AfterFind, SaleFind, AddSpend, CreateCustomer,
       CreateVisit, Accrue, Processed, StaffLook, PortalLook, PortalBook, Visited, Goto, booked, Looking, TypeOK, Kinds
  <2>5. LookingAfter(p) = Looking(p)
    BY <1>1, <2>4 DEF Looking
  <2> QED BY <1>5, <2>1, <2>3, <2>5
<1> QED BY <1>7, <1>8, <1>9, <1>10, <1>11

\* Unless two calls counted at once, one stopped after it counted, or a sale
\* took the place of the milestone, the automation starts once and for nobody
\* else.
THEOREM MilestonesOnce == Spec => []MilestoneOnce
<1> DEFINE Inv == TypeInv /\ CountedAt /\ TriggerInv
<1>1. Init => Inv
  <2> SUFFICES ASSUME Init PROVE CountedAt /\ TriggerInv
    BY InitTypeInv
  <2>1. CountedAt
    BY DEF Init, CountedAt
  <2>2. \A p : {f \in counted : whose[f] = p} = {} /\ Looking(p) = {}
    BY DEF Init, Looking
  <2>3. Milestone \in Nat \ {0} /\ Cardinality({}) = 0
    BY ConstantsAssumption, FS_EmptySet
  <2>4. \A p : VisitCount(p) = 0
    BY <2>2, <2>3 DEF VisitCount
  <2>5. TriggerInv
    BY <2>2, <2>3, <2>4 DEF TriggerInv, Init
  <2> QED BY <2>1, <2>5
<1>2. Inv /\ [Next]_vars => Inv'
  <2> SUFFICES ASSUME Inv, [Next]_vars PROVE Inv'
    OBVIOUS
  <2>1. CASE \E e \in Calls : Step(e)
    BY <2>1, StepAt, StepTypeOK, StepCountedAt, StepTrigger DEF TypeInv
  <2>2. CASE SixHours \/ Midnight \/ UNCHANGED vars
    <3>1. UNCHANGED <<op, pc, log, customer, booked, hurt>> /\ skewed' = skewed
      BY <2>2, TimeKeeps DEF SixHours, Midnight, vars, history
    <3>2. CountedAt' /\ TriggerInv'
      BY <3>1 DEF CountedAt, TriggerInv, Looking, VisitCount, Kind, customer, booked
    <3> QED BY <2>2, <3>2, TimeTypeInv, StutterTypeInv
  <2> QED BY <2>1, <2>2 DEF Next
<1>3. Inv => MilestoneOnce
  <2> SUFFICES ASSUME Inv, NEW p \in People \ skewed, Looking(p) = {}
               PROVE  triggers[p] = IF VisitCount(p) >= Milestone THEN 1 ELSE 0
    BY DEF MilestoneOnce
  <2>1. VisitCount(p) \in Nat /\ Milestone \in Nat
    BY CountsNat, ConstantsAssumption DEF VisitCount, Counting
  <2> QED BY <2>1 DEF TriggerInv
<1> QED BY <1>1, <1>2, <1>3, PTL DEF Spec
-----------------------------------------------------------------------------
(* The webhook implements the inbox.  By OwnerInv the delivery at work is   *)
(* the only one that has done anything for its trade; by ProgressInv it has *)
(* done all of it when it ends well.                                       *)

Did(e, x) == e \in DoneBy(x)
Idles(e) == \A x \in Effects : Did(e, x)' <=> Did(e, x)

\* What a step is to the inbox.
LEMMA StepOfInbox ==
    ASSUME TypeInv, NEW e \in Calls, Step(e)
    PROVE  /\ \A f \in Calls \ {e} : Idles(f) /\ pc'[f] = pc[f]
           /\ \A u \in Trades : u # Trade(e) \/ Kind(e) # "WEBHOOK" => log'[u] = log[u]
           /\ Kind(e) = "WEBHOOK" =>
                \/ /\ ~Handling(e) /\ ~Handling(e)' /\ Idles(e)
                   /\ log'[Trade(e)] = "none" <=> log[Trade(e)] = "none"
                \/ /\ ~Handling(e) /\ Handling(e)' /\ Idles(e)
                   /\ log[Trade(e)] = "none" /\ log'[Trade(e)] # "none"
                \/ /\ Handling(e) /\ Handling(e)'
                   /\ \E x \in Effects : /\ Did(e, x)'
                                         /\ \A y \in Effects \ {x} : Did(e, y)' <=> Did(e, y)
                   /\ log'[Trade(e)] = log[Trade(e)]
                \/ /\ Handling(e) /\ Idles(e)
                   /\ log'[Trade(e)] = "none" => log[Trade(e)] = "none"
<1> USE DEF TypeInv, Did, Idles, DoneBy, Effects
<1>0. Kind(e) \in Kinds /\ Trade(e) \in Trades /\ At(e)
  BY OpFacts DEF AtInv
<1>1. op' = op /\ \A f \in Calls \ {e} : pc'[f] = pc[f]
  BY OthersStay
<1>2. Kind(e)' = Kind(e) /\ Trade(e)' = Trade(e)
  BY <1>1 DEF Kind, Trade
<1>3. ASSUME NEW f \in Calls \ {e} PROVE Idles(f)
  BY DEF TypeOK, Step, LogLookup, LogCreate, WebhookFind, SaleFind, AddSpend, CreateCustomer, CreateVisit,
     AddVisitCount, Count, Accrue, CheckMilestone, Processed, StaffLook, PortalLook, StaffBook, PortalBook,
     Visited, Dies, customer, booked, clock, history
<1>4. \A u \in Trades : u # Trade(e) \/ Kind(e) # "WEBHOOK" => log'[u] = log[u]
  BY <1>0 DEF TypeOK, Step, LogLookup, LogCreate, WebhookFind, SaleFind, AddSpend, CreateCustomer, CreateVisit,
     AddVisitCount, Accrue, CheckMilestone, Processed, StaffLook, PortalLook, StaffBook, PortalBook,
     Visited, Dies, At
<1>5. ASSUME Kind(e) = "WEBHOOK"
      PROVE  \/ /\ ~Handling(e) /\ ~Handling(e)' /\ Idles(e)
                /\ log'[Trade(e)] = "none" <=> log[Trade(e)] = "none"
             \/ /\ ~Handling(e) /\ Handling(e)' /\ Idles(e)
                /\ log[Trade(e)] = "none" /\ log'[Trade(e)] # "none"
             \/ /\ Handling(e) /\ Handling(e)'
                /\ \E x \in Effects : /\ Did(e, x)'
                                      /\ \A y \in Effects \ {x} : Did(e, y)' <=> Did(e, y)
                /\ log'[Trade(e)] = log[Trade(e)]
             \/ /\ Handling(e) /\ Idles(e)
                /\ log'[Trade(e)] = "none" => log[Trade(e)] = "none"
  <2> USE <1>0, <1>2, <1>5 DEF Handling, Live, Goto, TypeOK
  <2>1. CASE LogLookup(e)
    BY <2>1 DEF LogLookup, customer, booked
  <2>2. CASE LogCreate(e)
    BY <2>2 DEF LogCreate, Unlogged, customer, booked
  <2>3. CASE WebhookFind(e)
    BY <2>3 DEF WebhookFind, customer
  <2>4. CASE AddSpend(e)
    <3>1. Did(e, "amount")' /\ \A y \in Effects \ {"amount"} : Did(e, y)' <=> Did(e, y)
      BY <2>4 DEF AddSpend, booked
    <3> QED BY <2>4, <3>1 DEF AddSpend
  <2>5. CASE CreateCustomer(e)
    <3>1. CASE pc'[e] = "visit"
      <4>1. Did(e, "amount")' /\ \A y \in Effects \ {"amount"} : Did(e, y)' <=> Did(e, y)
        BY <2>5, <3>1 DEF CreateCustomer, booked
      <4> QED BY <2>5, <3>1, <4>1 DEF CreateCustomer
    <3>2. CASE pc'[e] # "visit"
      BY <2>5, <3>2 DEF CreateCustomer, booked
    <3> QED BY <3>1, <3>2
  <2>6. CASE CreateVisit(e)
    <3>1. CASE pc'[e] = "count"
      <4>1. Did(e, "visit")' /\ \A y \in Effects \ {"visit"} : Did(e, y)' <=> Did(e, y)
        BY <2>6, <3>1 DEF CreateVisit, customer
      <4> QED BY <2>6, <3>1, <4>1 DEF CreateVisit
    <3>2. CASE pc'[e] # "count"
      BY <2>6, <3>2 DEF CreateVisit, customer
    <3> QED BY <3>1, <3>2
  <2>7. CASE AddVisitCount(e)
    <3>1. Did(e, "count")' /\ \A y \in Effects \ {"count"} : Did(e, y)' <=> Did(e, y)
      BY <2>7 DEF AddVisitCount, Count, booked
    <3> QED BY <2>7, <3>1 DEF AddVisitCount
  <2>8. CASE Accrue(e)
    <3>1. Did(e, "points")' /\ \A y \in Effects \ {"points"} : Did(e, y)' <=> Did(e, y)
      BY <2>8 DEF Accrue, customer
    <3> QED BY <2>8, <3>1 DEF Accrue
  <2>9. CASE CheckMilestone(e) \/ Processed(e)
    BY <2>9 DEF CheckMilestone, Processed, customer, booked
  <2>10. CASE Dies(e)
    BY <2>10 DEF Dies, customer, booked
  <2> QED BY <2>1, <2>2, <2>3, <2>4, <2>5, <2>6, <2>7, <2>8, <2>9, <2>10
      DEF Step, SaleFind, StaffLook, PortalLook, StaffBook, PortalBook
<1> QED BY <1>1, <1>3, <1>4, <1>5

LEMMA WholeIs == \A e : (Whole(e) <=> \A x \in Effects : Did(e, x)) /\ (Whole(e)' <=> \A x \in Effects : Did(e, x)')
BY DEF Whole, Effects, Did, DoneBy

\* The mapped state, element by element.
LEMMA DoneIs ==
    ASSUME NEW t \in Trades
    PROVE  /\ \A d : d \in Done[t] <=> \E f \in Deliveries(t), x \in Effects : d = <<f, x>> /\ Did(f, x)
           /\ \A d : d \in Done'[t] <=> \E f \in Deliveries(t)', x \in Effects : d = <<f, x>> /\ Did(f, x)'
BY DEF Done, Did

LEMMA CompleteIs ==
    ASSUME NEW t \in Trades
    PROVE  /\ I!Complete(t) <=> \E f \in Deliveries(t) : Whole(f)
           /\ I!Complete(t)' <=> \E f \in Deliveries(t)' : Whole(f)'
<1> USE DEF I!Complete
<1>1. ASSUME NEW q \in Calls
      PROVE  {q} \X Effects \subseteq Done[t] <=> q \in Deliveries(t) /\ Whole(q)
  <2>1. "amount" \in Effects
    BY DEF Effects
  <2>2. \A x : <<q, x>> \in Done[t] <=> q \in Deliveries(t) /\ x \in Effects /\ Did(q, x)
    BY DoneIs
  <2>3. {q} \X Effects \subseteq Done[t] <=> \A x \in Effects : <<q, x>> \in Done[t]
    OBVIOUS
  <2>4. (q \in Deliveries(t) /\ \A x \in Effects : Did(q, x)) <=> \A x \in Effects : <<q, x>> \in Done[t]
    BY <2>1, <2>2
  <2> QED BY <2>3, <2>4, WholeIs
<1>2. ASSUME NEW q \in Calls
      PROVE  {q} \X Effects \subseteq Done'[t] <=> q \in Deliveries(t)' /\ Whole(q)'
  <2>1. "amount" \in Effects
    BY DEF Effects
  <2>2. \A x : <<q, x>> \in Done'[t] <=> q \in Deliveries(t)' /\ x \in Effects /\ Did(q, x)'
    BY DoneIs
  <2>3. {q} \X Effects \subseteq Done'[t] <=> \A x \in Effects : <<q, x>> \in Done'[t]
    OBVIOUS
  <2>4. (q \in Deliveries(t)' /\ \A x \in Effects : Did(q, x)') <=> \A x \in Effects : <<q, x>> \in Done'[t]
    BY <2>1, <2>2
  <2> QED BY <2>3, <2>4, WholeIs
<1>3. Deliveries(t) \subseteq Calls /\ Deliveries(t)' \subseteq Calls
  BY DEF Deliveries
<1> QED BY <1>1, <1>2, <1>3

\* A step that leaves the log rows, the deliveries at work and what was done
\* alone is none of the inbox's business.
LEMMA QuietForInbox ==
    ASSUME op' = op,
           \A u \in Trades : log'[u] = "none" <=> log[u] = "none",
           \A f \in Calls : (Handling(f)' <=> Handling(f)) /\ Idles(f)
    PROVE  UNCHANGED I!ivars
<1>1. \A u : Deliveries(u)' = Deliveries(u)
  BY DEF Deliveries, Kind, Trade
<1>2. \A u : Deliveries(u) \subseteq Calls
  BY DEF Deliveries
<1>3. Taken' = Taken /\ Open' = Open
  BY <1>1, <1>2 DEF Taken, Open
<1>4. Done' = Done
  BY <1>1, <1>2 DEF Done, Idles, Did
<1>5. \A f \in Calls : Whole(f)' <=> Whole(f)
  BY WholeIs DEF Idles
<1>6. Lost' = Lost
  BY <1>1, <1>2, <1>3, <1>5 DEF Lost
<1> QED BY <1>3, <1>4, <1>6 DEF I!ivars

LEMMA StepInbox ==
    ASSUME TypeInv, OwnerInv, NEW e \in Calls, Step(e), NEW t \in Trades, t = Trade(e)
    PROVE  [I!Next]_I!ivars
<1>0. /\ op' = op /\ t \in Trades /\ At(e)
      /\ \A f \in Calls : Kind(f)' = Kind(f) /\ Trade(f)' = Trade(f)
  BY OthersStay, OpFacts DEF TypeInv, AtInv, Kind, Trade
<1>1. /\ \A f \in Calls \ {e} : Idles(f) /\ pc'[f] = pc[f]
      /\ \A u \in Trades : u # Trade(e) \/ Kind(e) # "WEBHOOK" => log'[u] = log[u]
      /\ Kind(e) = "WEBHOOK" =>
           \/ /\ ~Handling(e) /\ ~Handling(e)' /\ Idles(e)
              /\ log'[t] = "none" <=> log[t] = "none"
           \/ /\ ~Handling(e) /\ Handling(e)' /\ Idles(e)
              /\ log[t] = "none" /\ log'[t] # "none"
           \/ /\ Handling(e) /\ Handling(e)'
              /\ \E x \in Effects : /\ Did(e, x)'
                                    /\ \A y \in Effects \ {x} : Did(e, y)' <=> Did(e, y)
              /\ log'[t] = log[t]
           \/ /\ Handling(e) /\ Idles(e)
              /\ log'[t] = "none" => log[t] = "none"
  BY StepOfInbox DEF TypeInv
<1>2. \A f \in Calls \ {e} : Handling(f)' <=> Handling(f)
  BY <1>0, <1>1 DEF Handling
<1>3. \A u : Deliveries(u)' = Deliveries(u) /\ Deliveries(u) \subseteq Calls
  BY <1>0 DEF Deliveries
<1>4. \A f \in Calls \ {e} : Whole(f)' <=> Whole(f)
  BY <1>1, WholeIs DEF Idles
<1>5. CASE Kind(e) # "WEBHOOK"
  \* What a sale or a check-in does is no delivery's.
  <2>1. \A u : e \notin Deliveries(u)
    BY <1>5 DEF Deliveries
  <2>2. Taken' = Taken /\ Open' = Open
    BY <1>1, <1>2, <1>3, <1>5, <2>1 DEF Taken, Open
  <2>3. ASSUME NEW u \in Trades PROVE Done'[u] = Done[u]
    <3>1. \A f \in Deliveries(u) : \A x \in Effects : Did(f, x)' <=> Did(f, x)
      BY <1>1, <1>3, <2>1 DEF Idles
    <3>2. \A d : d \in Done'[u] <=> d \in Done[u]
      BY <1>3, <3>1, DoneIs
    <3> QED BY <3>2
  <2>4. Done' = Done
    BY <2>3 DEF Done
  <2>5. Lost' = Lost
    BY <1>3, <1>4, <2>1, <2>2 DEF Lost
  <2> QED BY <2>2, <2>4, <2>5 DEF I!ivars
<1>6. CASE Kind(e) = "WEBHOOK"
  <2>0. e \in Deliveries(t) /\ \A u \in Trades \ {t} : e \notin Deliveries(u)
    BY <1>6 DEF Deliveries
  <2>1. CASE ~Handling(e) /\ ~Handling(e)' /\ Idles(e) /\ (log'[t] = "none" <=> log[t] = "none")
    <3>1. \A u \in Trades : log'[u] = "none" <=> log[u] = "none"
      BY <1>1, <2>1
    <3>2. \A f \in Calls : (Handling(f)' <=> Handling(f)) /\ Idles(f)
      BY <1>1, <1>2, <2>1
    <3> QED BY <1>0, <3>1, <3>2, QuietForInbox
  <2>2. CASE ~Handling(e) /\ Handling(e)' /\ Idles(e) /\ log[t] = "none" /\ log'[t] # "none"
    <3>1. t \notin Taken /\ Taken' = Taken \cup {t}
      BY <1>0, <1>1, <2>2 DEF Taken
    <3>2. Open' = Open \cup {t}
      BY <1>0, <1>2, <1>3, <2>0, <2>2 DEF Open
    <3>3. \A f \in Calls : Idles(f) /\ (Whole(f)' <=> Whole(f))
      BY <1>1, <1>4, <2>2, WholeIs DEF Idles
    <3>4. Done' = Done
      BY <1>3, <3>3 DEF Done, Idles, Did
    <3>5. Lost' = Lost /\ t \notin Lost
      BY <1>3, <3>1, <3>2, <3>3 DEF Lost
    <3>6. I!Take(t)
      BY <3>1, <3>2, <3>4, <3>5 DEF I!Take
    <3> QED BY <1>0, <3>6 DEF I!Next
  \* The delivery at work is the owner of its trade: no other has done or does
  \* anything for it.
  <2>3. ASSUME Handling(e)
        PROVE  /\ t \in Open /\ t \in Taken
               /\ \A f \in Deliveries(t) \ {e} : ~Handling(f) /\ ~Whole(f) /\ \A x \in Effects : ~Did(f, x)
    <3>1. Owns(e)
      BY <1>0, <1>6, <2>3 DEF Handling, Owns, Live, Booking, At, CheckIns
    <3>2. \A f \in Deliveries(t) : Owns(f) => f = e
      BY <1>6, <3>1 DEF OwnerInv, Deliveries
    <3>3. \A f \in Calls : /\ At(f)
                           /\ Handling(f) => Owns(f)
                           /\ \A x \in Effects : Did(f, x) => Owns(f)
      BY DEF TypeInv, AtInv, Handling, Owns, Live, Booking, At, CheckIns, Did, DoneBy, Effects, Touched
    <3>4. \A f \in Deliveries(t) \ {e} : ~Handling(f) /\ ~Whole(f) /\ \A x \in Effects : ~Did(f, x)
      BY <1>3, <3>2, <3>3 DEF Whole, Owns, Touched
    <3> QED BY <1>0, <1>6, <2>0, <2>3, <3>1, <3>4 DEF OwnerInv, Open, Taken
  <2>4. ASSUME Handling(e) PROVE \A d \in Done[t] : d[1] = e
    BY <1>0, <2>3, <2>4, DoneIs
  <2>5. CASE /\ Handling(e) /\ Handling(e)' /\ log'[t] = log[t]
             /\ \E x \in Effects : Did(e, x)' /\ \A y \in Effects \ {x} : Did(e, y)' <=> Did(e, y)
    <3>1. PICK x \in Effects : Did(e, x)' /\ \A y \in Effects \ {x} : Did(e, y)' <=> Did(e, y)
      BY <2>5
    <3>2. Taken' = Taken
      BY <1>1, <2>5 DEF Taken
    <3>3. Open' = Open
      BY <1>2, <1>3, <2>5 DEF Open
    <3>4. Done'[t] = Done[t] \cup {<<e, x>>}
      BY <1>0, <1>1, <1>3, <2>0, <3>1, DoneIs DEF Idles
    <3>5. ASSUME NEW u \in Trades \ {t} PROVE Done'[u] = Done[u]
      <4>1. \A f \in Deliveries(u) : \A y \in Effects : Did(f, y)' <=> Did(f, y)
        BY <1>1, <1>3, <2>0 DEF Idles
      <4>2. \A d : d \in Done'[u] <=> d \in Done[u]
        BY <1>3, <4>1, DoneIs
      <4> QED BY <4>2
    <3>6. Done' = [Done EXCEPT ![t] = @ \cup {<<e, x>>}]
      BY <1>0, <3>4, <3>5 DEF Done
    <3>7. Lost' = Lost
      <4>1. t \in Open
        BY <2>3, <2>5
      <4>2. \A u \in Trades \ {t} : \A f \in Deliveries(u) : Whole(f)' <=> Whole(f)
        BY <1>3, <1>4, <2>0
      <4> QED BY <1>3, <3>2, <3>3, <4>1, <4>2 DEF Lost, Taken
    <3>8. I!Work(t, e, x)
      BY <2>3, <2>4, <2>5, <3>2, <3>3, <3>6, <3>7 DEF I!Work
    <3> QED BY <1>0, <3>1, <3>8 DEF I!Next
  <2>6. CASE Handling(e) /\ Idles(e) /\ (log'[t] = "none" => log[t] = "none")
    <3>1. log[t] # "none"
      BY <2>3, <2>6 DEF Taken
    <3>2. \A u \in Trades : log'[u] = "none" <=> log[u] = "none"
      BY <1>1, <2>6, <3>1
    <3>3. \A f \in Calls : Idles(f) /\ (Whole(f)' <=> Whole(f))
      BY <1>1, <1>4, <2>6, WholeIs DEF Idles
    <3>4. CASE Handling(e)'
      BY <1>0, <1>2, <2>6, <3>2, <3>3, <3>4, QuietForInbox
    <3>5. CASE ~Handling(e)'
      <4>1. Taken' = Taken
        BY <3>2 DEF Taken
      <4>2. Open' = Open \ {t}
        BY <1>2, <1>3, <2>0, <2>3, <2>6, <3>5 DEF Open
      <4>3. Done' = Done
        BY <1>3, <3>3 DEF Done, Idles, Did
      <4>4. CASE Whole(e)
        <5>1. Lost' = Lost
          BY <1>3, <2>0, <3>3, <4>1, <4>2, <4>4 DEF Lost
        <5>2. I!Complete(t)'
          BY <1>0, <1>3, <2>0, <3>3, <4>4, CompleteIs
        <5>3. <<e, "points">> \in Done[t]
          BY <1>0, <2>0, <4>4, WholeIs, DoneIs DEF Effects
        <5>4. Done' = [Done EXCEPT ![t] = @ \cup {<<e, "points">>}]
          BY <1>0, <4>3, <5>3 DEF Done
        <5>5. I!Work(t, e, "points")
          BY <2>3, <2>4, <2>6, <4>1, <4>2, <5>1, <5>2, <5>4 DEF I!Work
        <5> QED BY <1>0, <5>5 DEF I!Next, Effects
      <4>5. CASE ~Whole(e)
        <5>1. \A f \in Deliveries(t) : ~Whole(f)
          BY <2>3, <2>6, <4>5
        <5>2. Lost' = Lost \cup {t}
          BY <1>0, <1>3, <2>3, <2>6, <3>3, <4>1, <4>2, <5>1 DEF Lost
        <5>3. ~I!Complete(t)
          BY <1>0, <5>1, CompleteIs
        <5>4. I!Lose(t)
          BY <2>3, <2>6, <4>1, <4>2, <4>3, <5>2, <5>3 DEF I!Lose
        <5> QED BY <1>0, <5>4 DEF I!Next
      <4> QED BY <4>4, <4>5
    <3> QED BY <3>4, <3>5
  <2> QED BY <1>1, <1>6, <2>1, <2>2, <2>5, <2>6
<1> QED BY <1>5, <1>6

\* The webhook keeps the promise of the inbox: a trade is taken once, one
\* delivery books it, each part once, and what it leaves is never made up for.
THEOREM WebhookIsInbox == Spec => TradesAreInbox
<1> DEFINE Inv == TypeInv /\ OwnerInv
<1>1. Init => Inv
  <2> SUFFICES ASSUME Init PROVE OwnerInv
    BY InitTypeInv
  <2> QED BY DEF Init, OwnerInv, Owns, Touched, Booking
<1>2. Inv /\ [Next]_vars => Inv'
  BY StepAt, StepTypeOK, StepOwner, TimeTypeInv, StutterTypeInv, TimeKeeps DEF Next, TypeInv
<1>3. Init => I!Init
  <2> SUFFICES ASSUME Init PROVE I!Init
    OBVIOUS
  <2>1. Taken = {} /\ Open = {} /\ Lost = {}
    BY DEF Init, Taken, Open, Lost, Handling, Live, Deliveries
  <2>2. \A f \in Calls, x \in Effects : ~Did(f, x)
    BY DEF Init, Did, DoneBy, Effects
  <2>3. \A t \in Trades : Done[t] = {}
    BY <2>2, DoneIs DEF Deliveries
  <2>4. Done = [t \in Trades |-> {}]
    BY <2>3 DEF Done
  <2> QED BY <2>1, <2>4 DEF I!Init
<1>4. Inv /\ [Next]_vars => [I!Next]_I!ivars
  <2> SUFFICES ASSUME Inv, [Next]_vars PROVE [I!Next]_I!ivars
    OBVIOUS
  <2>1. CASE \E e \in Calls : Step(e)
    BY <2>1, StepInbox, OpFacts DEF TypeInv
  <2>2. CASE SixHours \/ Midnight \/ UNCHANGED vars
    <3>1. UNCHANGED <<op, pc, log, customer, booked, hurt>>
      BY <2>2, TimeKeeps
    <3>2. \A f \in Calls : (Handling(f)' <=> Handling(f)) /\ Idles(f)
      BY <3>1 DEF Handling, Kind, Idles, Did, DoneBy, Effects, customer, booked
    <3> QED BY <3>1, <3>2, QuietForInbox
  <2> QED BY <2>1, <2>2 DEF Next
<1> QED BY <1>1, <1>2, <1>3, <1>4, PTL DEF Spec, TradesAreInbox, I!Spec
=============================================================================
