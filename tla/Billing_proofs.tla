--------------------------- MODULE Billing_proofs ---------------------------
(***************************************************************************)
(* Theorems about Billing, for every set of plans, events, calls and       *)
(* scenarios.                                                              *)
(***************************************************************************)
EXTENDS Billing, TLAPS

\* A call is at a step of its own kind.
At(e) ==
    /\ pc[e] = "write" => Kind(e) \in Stripe \cup Lemon
    /\ pc[e] = "sync" => Kind(e) \in Stripe \cup {"FLAGS"}
    /\ pc[e] = "resume" => Kind(e) = "PAID"

AtInv == \A e \in Calls : At(e)
TypeInv == TypeOK /\ AtInv

LEMMA InitTypeInv == Init => TypeInv
<1> SUFFICES ASSUME Init PROVE TypeInv
  OBVIOUS
<1>1. TypeOK
  <2>1. op \in [Calls -> Operations]
    BY ConstantsAssumption DEF Init
  <2>2. /\ tier \in Tiers /\ status \in Statuses /\ features \subseteq Tiers /\ quota \in Tiers
        /\ plan \in [Calls -> Tiers] /\ faults \in 0..MaxFaults
    BY ConstantsAssumption DEF Init, Statuses
  <2>3. linked \in BOOLEAN /\ left \in BOOLEAN /\ paused \in BOOLEAN /\ mirrored \in BOOLEAN /\ stranded \in BOOLEAN
    BY DEF Init
  <2>4. /\ worker \in {"idle", "pausing"} /\ handled \subseteq Events
        /\ pc \in [Calls -> {"idle", "write", "sync", "resume", "done", "lost"}]
        /\ todo \in [Calls -> SUBSET {"quota", "del", "add"}]
        /\ wrote \subseteq Calls /\ lost \subseteq Calls /\ alone \subseteq Calls
    BY DEF Init
  <2> QED BY <2>1, <2>2, <2>3, <2>4 DEF TypeOK
<1>2. AtInv
  BY DEF Init, AtInv, At
<1> QED BY <1>1, <1>2 DEF TypeInv

LEMMA OpFacts ==
    ASSUME TypeOK, NEW e \in Calls
    PROVE  /\ Kind(e) \in Kinds /\ Event(e) \in Events
           /\ op[e].tier \in Tiers \cup {NoTier} /\ op[e].status \in Reported
BY DEF TypeOK, Operations, Kind, Event

LEMMA NewTyped ==
    ASSUME TypeOK, NEW e \in Calls, Kind(e) \in Stripe \cup Lemon \cup {"PROMO"}
    PROVE  NewTier(e) \in Tiers /\ NewStatus(e) \in Statuses
<1>0. /\ op[e].tier \in Tiers \cup {NoTier} /\ op[e].status \in Reported
      /\ Free \in Tiers /\ tier \in Tiers /\ plan[e] \in Tiers
  BY OpFacts, ConstantsAssumption DEF TypeOK
<1>1. NewTier(e) \in Tiers
  <2>1. CASE Kind(e) \in {"DELETED", "LEMON_EXPIRED", "FAILED", "LEMON_FAILED"}
    BY <1>0, <2>1 DEF NewTier
  <2>2. CASE Kind(e) = "PAID"
    BY <1>0, <2>2 DEF NewTier
  <2>3. CASE Kind(e) \in {"UPDATED", "LEMON", "PROMO"}
    BY <1>0, <2>3 DEF NewTier
  <2> QED BY <2>1, <2>2, <2>3 DEF Stripe, Lemon
<1>2. Internal(op[e].status) \in Statuses /\ LemonStatus(op[e].status) \in Statuses
  BY <1>0 DEF Internal, LemonStatus, Reported, Statuses
<1>3. NewStatus(e) \in Statuses
  <2>1. CASE Kind(e) = "UPDATED"
    BY <1>2, <2>1 DEF NewStatus
  <2>2. CASE Kind(e) = "LEMON"
    BY <1>2, <2>2 DEF NewStatus
  <2>3. CASE Kind(e) \in {"PAID", "PROMO", "DELETED", "LEMON_EXPIRED", "FAILED", "LEMON_FAILED"}
    BY <2>3 DEF NewStatus, Statuses
  <2> QED BY <2>1, <2>2, <2>3 DEF Stripe, Lemon
<1> QED BY <1>1, <1>3

LEMMA HandleType ==
    ASSUME TypeInv, NEW e \in Calls, Handle(e) \/ Fails(e)
    PROVE  TypeInv'
<1> USE DEF TypeInv
<1>0. Kind(e) \in Kinds /\ Event(e) \in Events /\ op[e].tier \in Tiers \cup {NoTier} /\ At(e)
      /\ Free \in Tiers /\ NoTier \notin Tiers /\ MaxFaults \in Nat
  BY OpFacts, ConstantsAssumption DEF AtInv
<1>1. op' = op /\ \A f \in Calls \ {e} : pc'[f] = pc[f]
  BY DEF TypeOK, Handle, Checkout, StripeRead, StripeWrite, SetQuota, DelFeatures, AddFeatures, SyncDone, Resume,
     LemonLog, LemonDrop, LemonWrite, Promo, Override, Fails, Goto, locals
<1>2. \A f \in Calls \ {e} : At(f)'
  BY <1>1 DEF AtInv, At, Kind
<1>3. CASE Checkout(e) \/ StripeRead(e) \/ LemonLog(e) \/ LemonDrop(e)
  <2>1. TypeOK'
    <3>1. CASE Checkout(e) \/ StripeRead(e) \/ LemonDrop(e)
      BY <1>0, <3>1 DEF TypeOK, Checkout, StripeRead, LemonDrop, Goto, row, keys, pause, history
    <3>2. CASE LemonLog(e)
      <4>1. /\ UNCHANGED <<tier, status, linked, features, quota, left, paused, worker, op, plan, todo,
                          wrote, alone, mirrored, stranded>>
            /\ handled' \subseteq Events /\ lost' \subseteq Calls
            /\ pc' \in [Calls -> {"idle", "write", "sync", "resume", "done", "lost"}]
        BY <1>0, <3>2 DEF TypeOK, LemonLog, Goto, row, keys, pause
      <4>2. faults' \in 0..MaxFaults
        BY <1>0, <3>2 DEF TypeOK, LemonLog
      <4> QED BY <4>1, <4>2 DEF TypeOK
    <3> QED BY <1>3, <3>1, <3>2
  <2>2. At(e)'
    BY <1>0, <1>1, <1>3 DEF At, TypeOK, Checkout, StripeRead, LemonLog, LemonDrop, Goto, Kind
  <2> QED BY <1>2, <2>1, <2>2 DEF AtInv
<1>4. CASE StripeWrite(e) \/ LemonWrite(e) \/ Promo(e)
  <2>0. NewTier(e) \in Tiers /\ NewStatus(e) \in Statuses
    BY <1>0, <1>4, NewTyped DEF StripeWrite, LemonWrite, Promo
  <2>3. /\ tier' = NewTier(e) /\ status' = NewStatus(e) /\ wrote' = wrote \cup {e}
        /\ alone' \subseteq Calls /\ plan' \in [Calls -> Tiers]
    BY <1>4, <2>0 DEF StripeWrite, LemonWrite, Promo, Writes, TypeOK
  <2>4. mirrored' \in BOOLEAN
    BY <1>4 DEF StripeWrite, LemonWrite, Promo, Writes
  <2>5. /\ todo' \in [Calls -> SUBSET {"quota", "del", "add"}]
        /\ pc' \in [Calls -> {"idle", "write", "sync", "resume", "done", "lost"}]
    BY <1>4 DEF StripeWrite, LemonWrite, Promo, Goto, TypeOK
  <2>6. UNCHANGED <<linked, features, quota, left, paused, worker, handled, op, lost, faults, stranded>>
    BY <1>4 DEF StripeWrite, LemonWrite, Promo, keys, pause
  <2>1. TypeOK'
    BY <2>0, <2>3, <2>4, <2>5, <2>6 DEF TypeOK
  <2>2. At(e)'
    BY <1>0, <1>1, <1>4 DEF At, TypeOK, StripeWrite, LemonWrite, Promo, Goto, Kind
  <2> QED BY <1>2, <2>1, <2>2 DEF AtInv
<1>5. CASE SetQuota(e) \/ DelFeatures(e) \/ AddFeatures(e)
  <2>1. TypeOK'
    <3>1. CASE SetQuota(e)
      <4>1. UNCHANGED <<tier, status, linked, features, paused, worker, handled, op, pc, plan,
                        wrote, lost, faults, alone, mirrored>>
        BY <3>1 DEF SetQuota, row, pause
      <4>2. quota' \in Tiers /\ left' \in BOOLEAN /\ todo' \in [Calls -> SUBSET {"quota", "del", "add"}]
        BY <3>1 DEF SetQuota, TypeOK
      <4>3. stranded' \in BOOLEAN
        BY <3>1 DEF SetQuota
      <4> QED BY <4>1, <4>2, <4>3 DEF TypeOK
    <3>2. CASE DelFeatures(e)
      BY <3>2 DEF TypeOK, DelFeatures, Cleared, row, pause, history
    <3>3. CASE AddFeatures(e)
      BY <3>3 DEF TypeOK, AddFeatures, row, pause, history
    <3> QED BY <1>5, <3>1, <3>2, <3>3
  <2>2. At(e)'
    BY <1>0, <1>1, <1>5 DEF At, SetQuota, DelFeatures, AddFeatures, Kind
  <2> QED BY <1>2, <2>1, <2>2 DEF AtInv
<1>6. CASE SyncDone(e) \/ Resume(e)
  <2>1. TypeOK'
    BY <1>6 DEF TypeOK, SyncDone, Resume, AfterSync, Goto, row, keys, pause
  <2>2. At(e)'
    BY <1>0, <1>1, <1>6 DEF At, TypeOK, SyncDone, Resume, AfterSync, Goto, Kind
  <2> QED BY <1>2, <2>1, <2>2 DEF AtInv
<1>7. CASE Override(e)
  <2>1. TypeOK'
    BY <1>0, <1>7 DEF TypeOK, Override, Cleared, Goto, row, pause
  <2>2. At(e)'
    BY <1>0, <1>1, <1>7 DEF At, TypeOK, Override, Goto, Kind
  <2> QED BY <1>2, <2>1, <2>2 DEF AtInv
<1>8. CASE Fails(e)
  <2>1. TypeOK'
    BY <1>0, <1>8 DEF TypeOK, Fails, AfterFailure, Goto, row, keys, pause
  <2>2. At(e)'
    BY <1>0, <1>1, <1>8 DEF At, TypeOK, Fails, AfterFailure, Goto, Kind
  <2> QED BY <1>2, <2>1, <2>2 DEF AtInv
<1> QED BY <1>3, <1>4, <1>5, <1>6, <1>7, <1>8 DEF Handle

Others == UseUp \/ GiveBack \/ WorkerFindsEmpty \/ WorkerPauses \/ PauseExpires

LEMMA OthersType ==
    ASSUME TypeInv, Others \/ UNCHANGED vars
    PROVE  TypeInv'
BY DEF TypeInv, TypeOK, AtInv, At, Others, UseUp, GiveBack, WorkerFindsEmpty, WorkerPauses, PauseExpires,
   vars, row, keys, pause, locals, history, Kind

\* Every reachable state is well typed: among the rest, the subscription has a
\* plan and a status of the schema whatever price and status an event names.
THEOREM TypeCorrect == Spec => []TypeOK
<1>1. TypeInv /\ [Next]_vars => TypeInv'
  BY HandleType, OthersType DEF Next, Others
<1>2. TypeInv => TypeOK
  BY DEF TypeInv
<1> QED BY InitTypeInv, <1>1, <1>2, PTL DEF Spec

-----------------------------------------------------------------------------
(* The mirror.  While e syncs alone, what it has done so far holds.         *)

MirrorInv ==
    /\ mirrored => features = {tier} /\ quota = tier /\ \A f \in Calls : pc[f] # "sync"
    /\ \A e \in alone :
         /\ pc[e] = "sync" /\ Kind(e) # "FLAGS" /\ plan[e] = tier
         /\ \A f \in Calls \ {e} : pc[f] # "sync"
         /\ "quota" \notin todo[e] => quota = tier
         /\ "add" \in todo[e] => features = {} /\ "del" \notin todo[e]
         /\ "del" \notin todo[e] /\ "add" \notin todo[e] => features = {tier}

LEMMA HandleMirror ==
    ASSUME TypeInv, MirrorInv, NEW e \in Calls, Handle(e) \/ Fails(e)
    PROVE  MirrorInv'
<1> USE DEF TypeInv
<1>0. At(e) /\ alone \subseteq Calls
  BY DEF AtInv, TypeOK
<1>1. CASE Checkout(e) \/ StripeRead(e) \/ LemonLog(e) \/ LemonDrop(e)
  <2>1. /\ UNCHANGED <<tier, features, quota, alone, mirrored, op, todo>>
        /\ pc[e] \in {"idle", "write"} /\ pc'[e] # "sync"
        /\ \A f \in Calls \ {e} : pc'[f] = pc[f] /\ plan'[f] = plan[f]
    BY <1>1 DEF Checkout, StripeRead, LemonLog, LemonDrop, Goto, keys, row, history, TypeOK
  <2> QED BY <1>0, <2>1 DEF MirrorInv, Kind
<1>2. CASE StripeWrite(e) \/ LemonWrite(e) \/ Promo(e)
  <2>1. CASE Syncs(e)
    <3>1. StripeWrite(e)
      BY <1>2, <2>1 DEF Syncs, LemonWrite, Promo, Lemon
    <3>2. /\ mirrored' = FALSE /\ alone' = IF \A f \in Calls : pc[f] # "sync" THEN {e} ELSE {}
          /\ tier' = NewTier(e) /\ plan'[e] = NewTier(e) /\ todo'[e] = {"quota", "del"} /\ op' = op
          /\ pc'[e] = "sync" /\ \A f \in Calls \ {e} : pc'[f] = pc[f]
      BY <2>1, <3>1 DEF StripeWrite, Writes, Goto, TypeOK
    <3>3. Kind(e) # "FLAGS"
      BY <3>1 DEF StripeWrite, Stripe
    <3> QED BY <3>2, <3>3 DEF MirrorInv, Kind
  <2>2. CASE ~Syncs(e)
    <3>1. /\ mirrored' = (mirrored /\ tier' = tier) /\ alone' = {}
          /\ features' = features /\ quota' = quota
          /\ pc'[e] = "done" /\ \A f \in Calls \ {e} : pc'[f] = pc[f]
      BY <1>2, <2>2 DEF StripeWrite, LemonWrite, Promo, Writes, Goto, keys, TypeOK
    <3>2. mirrored' => mirrored /\ tier' = tier
      BY <3>1
    <3> QED BY <3>1, <3>2 DEF MirrorInv
  <2> QED BY <2>1, <2>2
<1>3. CASE SetQuota(e) \/ DelFeatures(e) \/ AddFeatures(e)
  <2>1. UNCHANGED <<tier, alone, mirrored, op, pc, plan>> /\ pc[e] = "sync"
    BY <1>3 DEF SetQuota, DelFeatures, AddFeatures, row, history
  <2>2. ~mirrored
    BY <2>1 DEF MirrorInv
  <2>3. \A f \in alone : f = e
    BY <2>1 DEF MirrorInv
  <2>4. CASE SetQuota(e)
    <3>1. quota' = plan[e] /\ todo'[e] = todo[e] \ {"quota"} /\ features' = features
      BY <2>4 DEF SetQuota, TypeOK
    <3> QED BY <2>1, <2>2, <2>3, <3>1 DEF MirrorInv, Kind
  <2>5. CASE DelFeatures(e)
    <3>1. features' = {} /\ todo'[e] = (todo[e] \ {"del"}) \cup {"add"} /\ quota' = quota
      BY <2>5 DEF DelFeatures, Cleared, TypeOK
    <3> QED BY <2>1, <2>2, <2>3, <3>1 DEF MirrorInv, Kind
  <2>6. CASE AddFeatures(e)
    <3>1. features' = features \cup {plan[e]} /\ todo'[e] = todo[e] \ {"add"} /\ quota' = quota /\ "add" \in todo[e]
      BY <2>6 DEF AddFeatures, TypeOK
    <3> QED BY <2>1, <2>2, <2>3, <3>1 DEF MirrorInv, Kind
  <2> QED BY <1>3, <2>4, <2>5, <2>6
<1>4. CASE SyncDone(e)
  <2>1. /\ UNCHANGED <<tier, features, quota, op, plan, todo>> /\ pc[e] = "sync" /\ todo[e] = {}
        /\ mirrored' = (mirrored \/ e \in alone) /\ alone' = alone \ {e}
        /\ pc'[e] # "sync" /\ \A f \in Calls \ {e} : pc'[f] = pc[f]
    BY <1>4 DEF SyncDone, AfterSync, Goto, row, keys, TypeOK
  <2>2. \A f \in alone : f = e
    BY <2>1 DEF MirrorInv
  <2>3. ~mirrored
    BY <2>1 DEF MirrorInv
  <2>4. mirrored' => e \in alone
    BY <2>1, <2>3
  <2> QED BY <2>1, <2>2, <2>4 DEF MirrorInv
<1>5. CASE Resume(e)
  <2>1. /\ UNCHANGED <<tier, features, quota, alone, mirrored, op, plan, todo>>
        /\ pc[e] = "resume" /\ pc'[e] = "done" /\ \A f \in Calls \ {e} : pc'[f] = pc[f]
    BY <1>5 DEF Resume, Goto, row, keys, TypeOK
  <2> QED BY <1>0, <2>1 DEF MirrorInv, Kind
<1>6. CASE Override(e)
  BY <1>6 DEF Override, MirrorInv
<1>7. CASE Fails(e)
  <2>1. /\ UNCHANGED <<tier, features, quota, mirrored, op, plan>> /\ alone' = alone \ {e}
        /\ pc'[e] # "sync" /\ \A f \in Calls \ {e} : pc'[f] = pc[f] /\ todo'[f] = todo[f]
    BY <1>7 DEF Fails, AfterFailure, Goto, row, keys, TypeOK
  <2>2. alone' \subseteq alone /\ e \notin alone'
    BY <2>1
  <2>3. mirrored' => features' = {tier'} /\ quota' = tier' /\ \A f \in Calls : pc'[f] # "sync"
    BY <2>1 DEF MirrorInv
  <2>4. \A f \in alone' : f \in Calls \ {e}
    BY <1>0, <2>2
  <2> QED BY <2>1, <2>2, <2>3, <2>4 DEF MirrorInv, Kind
<1> QED BY <1>1, <1>2, <1>3, <1>4, <1>5, <1>6, <1>7 DEF Handle

LEMMA OthersMirror ==
    ASSUME MirrorInv, Others \/ UNCHANGED vars
    PROVE  MirrorInv'
BY DEF MirrorInv, Others, UseUp, GiveBack, WorkerFindsEmpty, WorkerPauses, PauseExpires,
   vars, row, keys, pause, locals, history, Kind

\* A handler that nobody crossed leaves features and quota of the plan.
THEOREM MirrorKept == Spec => []MirrorHolds
<1> DEFINE Inv == TypeInv /\ MirrorInv
<1>1. Init => Inv
  <2> SUFFICES ASSUME Init PROVE MirrorInv
    BY InitTypeInv
  <2> QED BY DEF Init, MirrorInv
<1>2. Inv /\ [Next]_vars => Inv'
  BY HandleType, OthersType, HandleMirror, OthersMirror DEF Next, Others
<1>3. Inv => MirrorHolds
  BY DEF MirrorInv, MirrorHolds
<1> QED BY <1>1, <1>2, <1>3, PTL DEF Spec

-----------------------------------------------------------------------------
(* The pause.                                                              *)

PauseInv == TypeInv /\ PauseExplained

LEMMA PauseKept ==
    ASSUME PauseInv, [Next]_vars
    PROVE  PauseExplained'
<1> USE DEF PauseInv, TypeInv
<1>1. CASE \E e \in Calls : Handle(e) \/ Fails(e)
  <2>1. PICK e \in Calls : Handle(e) \/ Fails(e)
    BY <1>1
  <2>2. /\ At(e) /\ op' = op
        /\ \A f \in Calls \ {e} : pc'[f] = pc[f]
    BY <2>1 DEF AtInv, TypeOK, Handle, Checkout, StripeRead, StripeWrite, SetQuota, DelFeatures, AddFeatures,
       SyncDone, Resume, LemonLog, LemonDrop, LemonWrite, Promo, Override, Fails, Goto, locals
  <2>3. CASE \/ Checkout(e) \/ StripeRead(e) \/ LemonLog(e) \/ LemonDrop(e) \/ StripeWrite(e) \/ LemonWrite(e)
             \/ Promo(e) \/ Override(e) \/ DelFeatures(e) \/ AddFeatures(e)
    <3>1. UNCHANGED <<paused, left, stranded>>
      BY <2>3 DEF Checkout, StripeRead, LemonLog, LemonDrop, StripeWrite, LemonWrite, Promo, Override,
         DelFeatures, AddFeatures, keys, pause, history
    <3>2. pc[e] \in {"sync", "resume"} => pc'[e] = pc[e]
      BY <2>3 DEF Checkout, StripeRead, LemonLog, LemonDrop, StripeWrite, LemonWrite, Promo, Override,
         DelFeatures, AddFeatures
    <3> QED BY <2>2, <3>1, <3>2 DEF PauseExplained, Kind
  <2>4. CASE SetQuota(e)
    <3>1. /\ paused' = paused /\ pc' = pc /\ pc[e] = "sync"
          /\ stranded' = (stranded \/ (paused /\ Kind(e) # "PAID"))
      BY <2>4 DEF SetQuota, pause
    <3>2. CASE Kind(e) = "PAID"
      BY <2>2, <3>1, <3>2 DEF PauseExplained, Kind
    <3>3. CASE Kind(e) # "PAID"
      BY <3>1, <3>3 DEF PauseExplained
    <3> QED BY <3>2, <3>3
  <2>5. CASE SyncDone(e)
    <3>1. /\ UNCHANGED <<paused, left, stranded>> /\ pc[e] = "sync"
          /\ pc'[e] = IF Kind(e) = "PAID" THEN "resume" ELSE "done"
      BY <2>5 DEF SyncDone, AfterSync, Goto, keys, pause, TypeOK
    <3> QED BY <2>2, <3>1 DEF PauseExplained, Kind
  <2>6. CASE Resume(e)
    BY <2>6 DEF Resume, PauseExplained
  <2>7. CASE Fails(e)
    <3>1. /\ UNCHANGED <<paused, left>>
          /\ stranded' = (stranded \/ (paused /\ left))
      BY <2>7 DEF Fails, keys, pause
    <3> QED BY <3>1 DEF PauseExplained
  <2> QED BY <2>1, <2>3, <2>4, <2>5, <2>6, <2>7 DEF Handle
<1>2. CASE UseUp \/ PauseExpires
  BY <1>2 DEF UseUp, PauseExpires, PauseExplained
\* A unit that comes back while the tenant is paused is one of the reasons.
<1>5. CASE GiveBack
  <2>1. paused' = paused /\ stranded' = (stranded \/ paused)
    BY <1>5 DEF GiveBack, pause
  <2> QED BY <2>1 DEF PauseExplained
<1>3. CASE WorkerFindsEmpty \/ UNCHANGED vars
  BY <1>3 DEF WorkerFindsEmpty, vars, keys, locals, history, pause, PauseExplained, Kind
<1>4. CASE WorkerPauses
  <2>1. left' = left /\ stranded' = (stranded \/ left)
    BY <1>4 DEF WorkerPauses, keys
  <2> QED BY <2>1 DEF PauseExplained
<1> QED BY <1>1, <1>2, <1>3, <1>4, <1>5 DEF Next

\* A tenant with messages left stays paused only for the listed reasons.
THEOREM PausesAreExplained == Spec => []PauseExplained
<1>1. Init => PauseInv
  BY InitTypeInv DEF Init, PauseInv, PauseExplained
<1>2. PauseInv /\ [Next]_vars => PauseInv'
  BY PauseKept, HandleType, OthersType DEF PauseInv, Next, Others
<1>3. PauseInv => PauseExplained
  BY DEF PauseInv
<1> QED BY <1>1, <1>2, <1>3, PTL DEF Spec

-----------------------------------------------------------------------------
(* Lemon Squeezy.  At most one call works on an event or has applied it.    *)

Owns(e) == Kind(e) \in Lemon /\ (pc[e] = "write" \/ e \in wrote)

LemonInv ==
    /\ \A e \in Calls : Kind(e) \in Lemon /\ pc[e] \in {"idle", "write"} => e \notin wrote /\ e \notin lost
    /\ \A e \in Calls : Owns(e) => Event(e) \in handled
    /\ \A e, f \in Calls : Owns(e) /\ Owns(f) /\ Event(e) = Event(f) => e = f

\* A step of e that neither records an event nor changes what e owns.
LEMMA SameOwners ==
    ASSUME TypeInv, LemonInv, NEW e \in Calls, handled' = handled, op' = op,
           \A f \in Calls \ {e} : pc'[f] = pc[f],
           \A f \in Calls \ {e} : (f \in wrote' <=> f \in wrote) /\ (f \in lost' <=> f \in lost),
           Owns(e)' => Owns(e),
           Kind(e) \in Lemon /\ pc'[e] \in {"idle", "write"} => e \notin wrote' /\ e \notin lost'
    PROVE  LemonInv'
<1>1. \A f \in Calls : (Owns(f)' => Owns(f)) /\ Event(f)' = Event(f) /\ Kind(f)' = Kind(f)
  BY DEF Owns, Event, Kind
<1>2. \A f \in Calls : Kind(f)' \in Lemon /\ pc'[f] \in {"idle", "write"} => f \notin wrote' /\ f \notin lost'
  BY <1>1 DEF LemonInv
<1> QED BY <1>1, <1>2 DEF LemonInv

LEMMA HandleLemon ==
    ASSUME TypeInv, LemonInv, NEW e \in Calls, Handle(e) \/ Fails(e)
    PROVE  LemonInv'
<1> USE DEF TypeInv
<1>0. At(e) /\ Stripe \cap Lemon = {} /\ wrote \subseteq Calls /\ lost \subseteq Calls
  BY DEF AtInv, TypeOK, Stripe, Lemon
<1>1. op' = op /\ \A f \in Calls \ {e} : pc'[f] = pc[f]
  BY DEF TypeOK, Handle, Checkout, StripeRead, StripeWrite, SetQuota, DelFeatures, AddFeatures, SyncDone, Resume,
     LemonLog, LemonDrop, LemonWrite, Promo, Override, Fails, Goto, locals
<1>2. CASE /\ Kind(e) \notin Lemon
           /\ handled' = handled
           /\ \A f \in Calls \ {e} : (f \in wrote' <=> f \in wrote) /\ (f \in lost' <=> f \in lost)
  <2>1. Owns(e)' <=> Owns(e)
    BY <1>1, <1>2 DEF Owns, Kind
  <2> QED BY <1>1, <1>2, <2>1, SameOwners
<1>3. CASE \/ Checkout(e) \/ StripeRead(e) \/ StripeWrite(e) \/ Promo(e) \/ Override(e)
           \/ SetQuota(e) \/ DelFeatures(e) \/ AddFeatures(e) \/ SyncDone(e) \/ Resume(e)
  <2>1. Kind(e) \notin Lemon
    BY <1>0, <1>3 DEF At, Checkout, StripeRead, StripeWrite, Promo, Override, SetQuota, DelFeatures, AddFeatures,
       SyncDone, Resume, Stripe, Lemon
  <2>2. handled' = handled /\ lost' = lost /\ wrote' \in {wrote, wrote \cup {e}}
    BY <1>3 DEF Checkout, StripeRead, StripeWrite, Promo, Override, SetQuota, DelFeatures, AddFeatures,
       SyncDone, Resume, Writes, history
  <2> QED BY <1>2, <2>1, <2>2
<1>4. CASE LemonLog(e)
  <2>1. /\ Kind(e) \in Lemon /\ pc[e] = "idle" /\ wrote' = wrote /\ lost' \in {lost, lost \cup {e}}
        /\ e \notin wrote /\ e \notin lost
    BY <1>4 DEF LemonLog, LemonInv
  <2>2. ~Owns(e)
    BY <2>1 DEF Owns
  <2>3. CASE Fresh(e) /\ handled' = handled \cup {Event(e)} /\ pc'[e] = "write" /\ lost' = lost
    <3>1. \A f \in Calls : Event(f)' = Event(f) /\ Kind(f)' = Kind(f)
      BY <1>1 DEF Event, Kind
    <3>2. Owns(e)' /\ \A f \in Calls \ {e} : Owns(f)' <=> Owns(f)
      BY <1>1, <2>1, <2>3, <3>1 DEF Owns
    <3>3. \A f \in Calls : Owns(f) => Event(f) # Event(e)
      BY <2>3 DEF Fresh, LemonInv
    <3>4. \A f \in Calls : Kind(f)' \in Lemon /\ pc'[f] \in {"idle", "write"} => f \notin wrote' /\ f \notin lost'
      BY <1>1, <2>1, <2>3, <3>1 DEF LemonInv
    <3>5. \A f \in Calls : Owns(f)' => Event(f)' \in handled'
      BY <2>3, <3>1, <3>2 DEF LemonInv
    <3>6. \A f, g \in Calls : Owns(f)' /\ Owns(g)' /\ Event(f)' = Event(g)' => f = g
      BY <3>1, <3>2, <3>3 DEF LemonInv
    <3> QED BY <3>4, <3>5, <3>6 DEF LemonInv
  <2>4. CASE handled' = handled /\ pc'[e] \in {"done", "lost"}
    <3>1. ~Owns(e)'
      BY <2>1, <2>4 DEF Owns
    <3> QED BY <1>1, <2>1, <2>4, <3>1, SameOwners
  <2> QED BY <1>4, <2>3, <2>4 DEF LemonLog, Goto, TypeOK
<1>7. CASE LemonDrop(e)
  <2>1. /\ Kind(e) \in Lemon /\ pc[e] = "write" /\ pc'[e] = "done"
        /\ handled' = handled /\ wrote' = wrote /\ lost' = lost
    BY <1>7 DEF LemonDrop, Goto, history, TypeOK
  <2>2. Owns(e)
    BY <2>1 DEF Owns
  <2> QED BY <1>1, <2>1, <2>2, SameOwners
<1>5. CASE LemonWrite(e)
  <2>1. /\ Kind(e) \in Lemon /\ pc[e] = "write" /\ pc'[e] = "done"
        /\ handled' = handled /\ wrote' = wrote \cup {e} /\ lost' = lost
    BY <1>5 DEF LemonWrite, Writes, Goto, TypeOK
  <2>2. Owns(e) /\ Owns(e)'
    BY <1>1, <2>1 DEF Owns, Kind
  <2> QED BY <1>1, <2>1, <2>2, SameOwners
<1>6. CASE Fails(e)
  <2>1. CASE Kind(e) \in Lemon
    <3>1. /\ pc[e] = "write" /\ pc'[e] = "lost" /\ handled' = handled
          /\ wrote' = wrote /\ lost' = lost \cup {e}
      BY <1>0, <1>6, <2>1 DEF Fails, At, AfterFailure, Goto, TypeOK, Stripe, Lemon
    <3>2. Owns(e)
      BY <2>1, <3>1 DEF Owns
    <3> QED BY <1>1, <3>1, <3>2, SameOwners
  <2>2. CASE Kind(e) \notin Lemon
    <3>1. handled' = handled /\ wrote' = wrote /\ lost' \in {lost, lost \cup {e}}
      BY <1>6 DEF Fails
    <3> QED BY <1>2, <2>2, <3>1
  <2> QED BY <2>1, <2>2
<1> QED BY <1>3, <1>4, <1>5, <1>6, <1>7 DEF Handle

LEMMA OthersLemon ==
    ASSUME LemonInv, Others \/ UNCHANGED vars
    PROVE  LemonInv'
BY DEF LemonInv, Owns, Others, UseUp, GiveBack, WorkerFindsEmpty, WorkerPauses, PauseExpires,
   vars, row, keys, pause, locals, history, Kind, Event

\* A delivery that has ended found its event recorded or failed, and a
\* recorded event with a tenant has a delivery at work, applied or failed.
DeliveredInv ==
    /\ \A e \in Calls : Kind(e) \in Lemon /\ pc[e] # "idle" => Event(e) \in handled \/ e \in lost
    /\ \A v \in handled \ Foreign : \E e \in OfLemon(v) : pc[e] = "write" \/ e \in wrote \/ e \in lost

LEMMA HandleDelivered ==
    ASSUME TypeInv, DeliveredInv, NEW e \in Calls, Handle(e) \/ Fails(e)
    PROVE  DeliveredInv'
<1> USE DEF TypeInv
<1>0. At(e) /\ Stripe \cap Lemon = {}
  BY DEF AtInv, Stripe, Lemon
<1>1. op' = op /\ \A f \in Calls \ {e} : pc'[f] = pc[f]
  BY DEF TypeOK, Handle, Checkout, StripeRead, StripeWrite, SetQuota, DelFeatures, AddFeatures, SyncDone, Resume,
     LemonLog, LemonDrop, LemonWrite, Promo, Override, Fails, Goto, locals
<1>2. wrote \subseteq wrote' /\ lost \subseteq lost' /\ handled \subseteq handled'
  BY DEF Handle, Checkout, StripeRead, StripeWrite, SetQuota, DelFeatures, AddFeatures, SyncDone, Resume,
     LemonLog, LemonDrop, LemonWrite, Promo, Override, Fails, Writes, history
<1>3. \A f : Kind(f)' = Kind(f) /\ Event(f)' = Event(f)
  BY <1>1 DEF Kind, Event
<1>4. \A v : OfLemon(v)' = OfLemon(v) /\ OfLemon(v) \subseteq Calls
  BY <1>3 DEF OfLemon
<1>5. CASE Kind(e) \notin Lemon
  <2>1. handled' = handled
    BY <1>0, <1>5 DEF Handle, Checkout, StripeRead, StripeWrite, SetQuota, DelFeatures, AddFeatures, SyncDone, Resume,
       LemonLog, LemonDrop, LemonWrite, Promo, Override, Fails
  <2>2. \A v : e \notin OfLemon(v)
    BY <1>5 DEF OfLemon
  <2> QED BY <1>1, <1>2, <1>3, <1>4, <1>5, <2>1, <2>2 DEF DeliveredInv
<1>6. CASE Kind(e) \in Lemon
  <2>0. LemonLog(e) \/ LemonDrop(e) \/ LemonWrite(e) \/ (Fails(e) /\ pc[e] = "write")
    BY <1>0, <1>6 DEF Handle, Checkout, StripeRead, StripeWrite, SetQuota, DelFeatures, AddFeatures, SyncDone, Resume,
       Promo, Override, Fails, At, Stripe, Lemon
  <2>1. Event(e) \in handled' \/ e \in lost'
    <3>1. CASE LemonLog(e)
      BY <3>1 DEF LemonLog, Fresh
    <3>2. CASE LemonDrop(e) \/ LemonWrite(e) \/ (Fails(e) /\ pc[e] = "write")
      <4>1. pc[e] = "write"
        BY <3>2 DEF LemonDrop, LemonWrite
      <4> QED BY <1>2, <1>6, <4>1 DEF DeliveredInv
    <3> QED BY <2>0, <3>1, <3>2
  <2>2. pc[e] = "write" => pc'[e] = "write" \/ e \in wrote' \/ e \in lost' \/ Event(e) \in Foreign
    BY <1>0, <1>6, <2>0 DEF LemonLog, LemonDrop, LemonWrite, Writes, Fails, AfterFailure, Stripe, Lemon
  <2>3. handled' = handled \/ (handled' = handled \cup {Event(e)} /\ pc'[e] = "write")
    BY <2>0 DEF LemonLog, LemonDrop, LemonWrite, Fails, Goto, TypeOK
  <2>4. \A v : e \in OfLemon(v) <=> v = Event(e)
    BY <1>6 DEF OfLemon
  <2>5. \A v \in handled' \ Foreign : \E f \in OfLemon(v) : pc'[f] = "write" \/ f \in wrote' \/ f \in lost'
    <3> SUFFICES ASSUME NEW v \in handled' \ Foreign
                 PROVE  \E f \in OfLemon(v) : pc'[f] = "write" \/ f \in wrote' \/ f \in lost'
      OBVIOUS
    <3>1. CASE v \in handled
      <4>1. PICK f \in OfLemon(v) : pc[f] = "write" \/ f \in wrote \/ f \in lost
        BY <3>1 DEF DeliveredInv
      <4> QED BY <1>1, <1>2, <1>4, <2>2, <2>4, <4>1
    <3>2. CASE v \notin handled
      BY <2>3, <2>4, <3>2
    <3> QED BY <3>1, <3>2
  <2>6. \A f \in Calls : Kind(f) \in Lemon /\ pc'[f] # "idle" => Event(f) \in handled' \/ f \in lost'
    BY <1>1, <1>2, <2>1 DEF DeliveredInv
  <2> QED BY <1>3, <1>4, <2>5, <2>6 DEF DeliveredInv
<1> QED BY <1>5, <1>6

LEMMA OthersDelivered ==
    ASSUME DeliveredInv, Others \/ UNCHANGED vars
    PROVE  DeliveredInv'
BY DEF DeliveredInv, OfLemon, Others, UseUp, GiveBack, WorkerFindsEmpty, WorkerPauses, PauseExpires,
   vars, row, keys, pause, locals, history, Kind, Event

\* An event of Lemon Squeezy is applied by one delivery at most, the one that
\* recorded it, and a delivered one is applied unless it has no tenant, its
\* handler failed, or it could not be recorded.
THEOREM LemonHandledOnce == Spec => []LemonOnce
<1> DEFINE Inv == TypeInv /\ LemonInv /\ DeliveredInv
<1>1. Init => Inv
  <2> SUFFICES ASSUME Init PROVE LemonInv /\ DeliveredInv
    BY InitTypeInv
  <2> QED BY DEF Init, LemonInv, DeliveredInv, Owns
<1>2. Inv /\ [Next]_vars => Inv'
  BY HandleType, OthersType, HandleLemon, OthersLemon, HandleDelivered, OthersDelivered DEF Next, Others
<1>3. Inv => LemonOnce
  <2> SUFFICES ASSUME Inv PROVE LemonOnce
    OBVIOUS
  <2>1. \A e, f \in wrote : Kind(e) \in Lemon /\ Kind(f) \in Lemon /\ Event(e) = Event(f) => e = f
    BY DEF TypeInv, TypeOK, LemonInv, Owns
  <2>2. ASSUME NEW v \in Events \ Foreign, \E e \in OfLemon(v) : pc[e] # "idle"
        PROVE  \E e \in OfLemon(v) : pc[e] = "write" \/ e \in wrote \/ e \in lost
    BY <2>2 DEF DeliveredInv, OfLemon
  <2> QED BY <2>1, <2>2 DEF LemonOnce
<1> QED BY <1>1, <1>2, <1>3, PTL DEF Spec

-----------------------------------------------------------------------------
(* Lemon Squeezy's webhook implements the inbox.                            *)

LEMMA CompleteIs ==
    ASSUME TypeOK, NEW v \in Events
    PROVE  I!Complete(v) <=> OfLemon(v) \cap wrote # {}
<1>1. Done[v] = (OfLemon(v) \cap wrote) \X {"plan"}
  BY DEF Done
<1>2. \A q : {q} \X {"plan"} \subseteq Done[v] <=> q \in OfLemon(v) \cap wrote
  <2> SUFFICES ASSUME NEW q
               PROVE  {q} \X {"plan"} \subseteq Done[v] <=> q \in OfLemon(v) \cap wrote
    OBVIOUS
  <2>1. {q} \X {"plan"} \subseteq Done[v] <=> <<q, "plan">> \in Done[v]
    OBVIOUS
  <2> QED BY <1>1, <2>1
<1>3. OfLemon(v) \subseteq Calls
  BY DEF OfLemon
<1> QED BY <1>2, <1>3 DEF I!Complete

\* A step by which no call of Lemon Squeezy begins, writes or is lost.
LEMMA QuietForInbox ==
    ASSUME op' = op, handled' = handled,
           \A f \in Calls : Kind(f) \in Lemon =>
               /\ pc'[f] = "write" <=> pc[f] = "write"
               /\ f \in wrote' <=> f \in wrote
               /\ f \in lost' <=> f \in lost
    PROVE  UNCHANGED I!ivars
<1>1. \A v : OfLemon(v)' = OfLemon(v)
  BY DEF OfLemon, Kind, Event
<1>2. \A v : /\ OfLemon(v)' \cap wrote' = OfLemon(v) \cap wrote
             /\ OfLemon(v)' \cap lost' = OfLemon(v) \cap lost
             /\ \A f \in OfLemon(v) : pc'[f] = "write" <=> pc[f] = "write"
  BY <1>1 DEF OfLemon
<1>3. Open' = Open /\ Done' = Done
  BY <1>1, <1>2 DEF Open, Done
<1>4. Lost' = Lost
  BY <1>2, <1>3 DEF Lost
<1> QED BY <1>3, <1>4 DEF I!ivars

LEMMA HandleInbox ==
    ASSUME TypeInv, LemonInv, NEW e \in Calls, Handle(e) \/ Fails(e), NEW v \in Events, v = Event(e)
    PROVE  [I!Next]_I!ivars
<1> USE DEF TypeInv
<1>0. At(e) /\ v \in Events /\ Stripe \cap Lemon = {} /\ wrote \subseteq Calls /\ lost \subseteq Calls
  BY OpFacts DEF AtInv, TypeOK, Stripe, Lemon
<1>1. op' = op /\ \A f \in Calls \ {e} : pc'[f] = pc[f]
  BY DEF TypeOK, Handle, Checkout, StripeRead, StripeWrite, SetQuota, DelFeatures, AddFeatures, SyncDone, Resume,
     LemonLog, LemonDrop, LemonWrite, Promo, Override, Fails, Goto, locals
<1>2. \A u : OfLemon(u)' = OfLemon(u) /\ OfLemon(u) \subseteq Calls
  BY <1>1 DEF OfLemon, Kind, Event
<1>3. CASE \/ Checkout(e) \/ StripeRead(e) \/ StripeWrite(e) \/ Promo(e) \/ Override(e)
           \/ SetQuota(e) \/ DelFeatures(e) \/ AddFeatures(e) \/ SyncDone(e) \/ Resume(e)
           \/ Fails(e) /\ Kind(e) \notin Lemon
  <2>1. Kind(e) \notin Lemon
    BY <1>0, <1>3 DEF At, Checkout, StripeRead, StripeWrite, Promo, Override, SetQuota, DelFeatures, AddFeatures,
       SyncDone, Resume, Stripe, Lemon
  <2>2. handled' = handled /\ lost' \in {lost, lost \cup {e}} /\ wrote' \in {wrote, wrote \cup {e}}
    BY <1>3 DEF Checkout, StripeRead, StripeWrite, Promo, Override, SetQuota, DelFeatures, AddFeatures,
       SyncDone, Resume, Fails, Writes, history
  <2> QED BY <1>1, <2>1, <2>2, QuietForInbox
<1>4. CASE LemonLog(e)
  <2>1. Kind(e) \in Lemon /\ pc[e] = "idle" /\ wrote' = wrote
    BY <1>4 DEF LemonLog
  <2>0. e \in OfLemon(v) /\ \A u \in Events \ {v} : e \notin OfLemon(u)
    BY <2>1 DEF OfLemon
  <2>5. Done' = Done
    BY <1>2, <2>1 DEF Done
  <2>2. CASE Fresh(e) /\ handled' = handled \cup {v} /\ pc'[e] = "write" /\ lost' = lost
    <3>2. Open' = Open \cup {v}
      BY <1>0, <1>1, <1>2, <2>2, <2>0 DEF Open
    <3>3. Lost' = Lost \ {v}
      BY <1>2, <2>1, <2>2, <3>2 DEF Lost
    <3>4. I!Take(v)
      BY <2>2, <2>5, <3>2, <3>3 DEF I!Take, Fresh
    <3> QED BY <1>0, <3>4 DEF I!Next
  <2>3. CASE handled' = handled /\ pc'[e] = "done" /\ lost' = lost
    BY <1>1, <2>1, <2>3, QuietForInbox
  <2>4. CASE handled' = handled /\ pc'[e] = "lost" /\ lost' = lost \cup {e}
    <3>1. Open' = Open
      BY <1>1, <1>2, <2>1, <2>4 DEF Open
    <3>2. \A u \in Events \ {v} : OfLemon(u)' \cap lost' = OfLemon(u) \cap lost
      BY <1>2, <2>0, <2>4
    <3>3. CASE v \in handled
      <4>1. Lost' = Lost
        BY <1>2, <2>1, <2>4, <3>1, <3>2, <3>3 DEF Lost
      <4> QED BY <2>4, <2>5, <3>1, <4>1 DEF I!ivars
    <3>4. CASE v \notin handled
      <4>1. v \notin Open /\ OfLemon(v) \cap wrote = {}
        BY <1>2, <3>4 DEF LemonInv, Owns, OfLemon, Open
      <4>2. OfLemon(v)' \cap lost' # {}
        BY <1>2, <2>0, <2>4
      <4>3. Lost' = Lost \cup {v}
        BY <1>2, <2>1, <2>4, <3>1, <3>2, <4>1, <4>2 DEF Lost
      <4>4. I!Miss(v)
        BY <2>4, <2>5, <3>1, <3>4, <4>3 DEF I!Miss
      <4> QED BY <1>0, <4>4 DEF I!Next
    <3> QED BY <3>3, <3>4
  <2> QED BY <1>4, <2>2, <2>3, <2>4 DEF LemonLog, Goto, TypeOK
\* The delivery at work owns the event: no other has written for it, or works on it.
<1>5. ASSUME Kind(e) \in Lemon, pc[e] = "write"
      PROVE  /\ v \in Open /\ v \in handled /\ e \in OfLemon(v) /\ e \notin wrote
             /\ \A u \in Events \ {v} : e \notin OfLemon(u)
             /\ \A f \in OfLemon(v) \ {e} : pc[f] # "write" /\ f \notin wrote
  BY <1>0, <1>5 DEF LemonInv, Owns, OfLemon, Open
<1>6. CASE LemonWrite(e)
  <2>1. /\ Kind(e) \in Lemon /\ pc[e] = "write" /\ pc'[e] = "done"
        /\ handled' = handled /\ wrote' = wrote \cup {e} /\ lost' = lost
    BY <1>6 DEF LemonWrite, Writes, Goto, TypeOK
  <2>2. Open' = Open \ {v}
    BY <1>1, <1>2, <1>5, <2>1 DEF Open
  <2>3. OfLemon(v) \cap wrote = {} /\ OfLemon(v) \cap wrote' = {e}
    BY <1>5, <2>1
  <2>4. \A u \in Events \ {v} : OfLemon(u) \cap wrote' = OfLemon(u) \cap wrote
    BY <1>5, <2>1
  <2>5. Done[v] = {} /\ Done'[v] = {<<e, "plan">>}
    BY <1>0, <1>2, <2>3 DEF Done
  <2>6. \A u \in Events \ {v} : Done'[u] = Done[u]
    BY <1>2, <2>4 DEF Done
  <2>7. Done' = [Done EXCEPT ![v] = @ \cup {<<e, "plan">>}]
    BY <1>0, <2>5, <2>6 DEF Done
  <2>8. Lost' = Lost
    BY <1>2, <1>5, <2>1, <2>2, <2>3, <2>4 DEF Lost
  <2>9. I!Complete(v)'
    <3>1. {e} \X {"plan"} \subseteq Done'[v]
      BY <2>5
    <3> QED BY <3>1 DEF I!Complete
  <2>10. I!Work(v, e, "plan")
    BY <1>5, <2>1, <2>2, <2>5, <2>7, <2>8, <2>9 DEF I!Work
  <2> QED BY <1>0, <2>10 DEF I!Next
<1>7. CASE LemonDrop(e) \/ (Fails(e) /\ Kind(e) \in Lemon)
  <2>1. /\ Kind(e) \in Lemon /\ pc[e] = "write" /\ pc'[e] # "write"
        /\ handled' = handled /\ wrote' = wrote /\ lost' \in {lost, lost \cup {e}}
    BY <1>0, <1>7 DEF LemonDrop, Fails, At, AfterFailure, Goto, TypeOK, Stripe, Lemon, history
  <2>2. Open' = Open \ {v}
    BY <1>1, <1>2, <1>5, <2>1 DEF Open
  <2>3. Done' = Done
    BY <1>2, <2>1 DEF Done
  <2>4. Lost' = Lost \cup {v}
    <3>1. OfLemon(v) \cap wrote = {}
      BY <1>5, <2>1
    <3>2. \A u \in Events \ {v} : OfLemon(u) \cap lost' = OfLemon(u) \cap lost
      BY <1>5, <2>1
    <3> QED BY <1>0, <1>2, <1>5, <2>1, <2>2, <3>1, <3>2 DEF Lost
  <2>5. ~I!Complete(v)
    BY <1>0, <1>5, <2>1, CompleteIs
  <2>6. I!Lose(v)
    BY <1>5, <2>1, <2>2, <2>3, <2>4, <2>5 DEF I!Lose
  <2> QED BY <1>0, <2>6 DEF I!Next
<1> QED BY <1>3, <1>4, <1>6, <1>7 DEF Handle

\* Lemon Squeezy's webhook keeps the promise of the inbox: an event is taken
\* once, one delivery writes the subscription, once, and an event that was
\* recorded and not applied is never made up for.
THEOREM LemonIsInbox == Spec => EventsAreInbox
<1> DEFINE Inv == TypeInv /\ LemonInv
<1>1. Init => Inv
  <2> SUFFICES ASSUME Init PROVE LemonInv
    BY InitTypeInv
  <2> QED BY DEF Init, LemonInv, Owns
<1>2. Inv /\ [Next]_vars => Inv'
  BY HandleType, OthersType, HandleLemon, OthersLemon DEF Next, Others
<1>3. Init => I!Init
  BY DEF Init, I!Init, Open, Done, Lost, OfLemon
<1>4. Inv /\ [Next]_vars => [I!Next]_I!ivars
  <2> SUFFICES ASSUME Inv, [Next]_vars PROVE [I!Next]_I!ivars
    OBVIOUS
  <2>1. CASE \E e \in Calls : Handle(e) \/ Fails(e)
    BY <2>1, HandleInbox, OpFacts DEF TypeInv
  <2>2. CASE Others \/ UNCHANGED vars
    <3>1. UNCHANGED <<op, pc, handled, wrote, lost>>
      BY <2>2 DEF Others, UseUp, GiveBack, WorkerFindsEmpty, WorkerPauses, PauseExpires,
         vars, row, keys, pause, locals, history
    <3> QED BY <3>1, QuietForInbox
  <2> QED BY <2>1, <2>2 DEF Next, Others
<1> QED BY <1>1, <1>2, <1>3, <1>4, PTL DEF Spec, EventsAreInbox, I!Spec

-----------------------------------------------------------------------------
(* The missing features key: the safety half of WindowCloses.               *)

\* A handler on its way to the key, and an override that will not put it back.
Coming(e) ==
    \/ pc[e] = "sync" /\ "add" \in todo[e]
    \/ /\ Syncs(e) /\ linked
       /\ pc[e] \in {"idle", "write"} \/ (pc[e] = "sync" /\ "del" \in todo[e])
Torn(e) == Kind(e) = "FLAGS" /\ (e \in lost \/ op[e].tier = NoTier)

\* While the features key is missing, and with it every feature granted, a
\* handler is on its way to write it, or a failed event on its way to be
\* delivered again, unless an override failed half-way or named no feature.
WindowInHand == features = {} => \E e \in Calls : Coming(e) \/ Torn(e)

\* A Stripe event gets past its reading only when the row is linked, and is
\* mirrored only when it syncs; delivered again, it will be so again.
WindowInv ==
    /\ \A e \in Calls : Kind(e) \in Stripe /\ pc[e] \in {"write", "sync", "resume"} => linked
    /\ \A e \in Calls : Kind(e) \in Stripe /\ pc[e] = "sync" => Syncs(e)
    /\ WindowInHand

\* What a step does to the calls, seen from the key.
LEMMA HandleComing ==
    ASSUME TypeInv, WindowInv, NEW e \in Calls, Handle(e) \/ Fails(e)
    PROVE  /\ op' = op /\ (linked => linked') /\ lost \subseteq lost'
           /\ \A f \in Calls \ {e} : pc'[f] = pc[f] /\ todo'[f] = todo[f]
           /\ Kind(e) \in Stripe /\ pc'[e] \in {"write", "sync", "resume"} => linked'
           /\ Kind(e) \in Stripe /\ pc'[e] = "sync" => Syncs(e)
           /\ features' = {} /\ (Coming(e) \/ Torn(e) \/ features # {}) => Coming(e)' \/ Torn(e)'
<1> USE DEF TypeInv
<1>0. At(e) /\ Stripe \cap Lemon = {} /\ "FLAGS" \notin Stripe \cup Lemon
  BY DEF AtInv, Stripe, Lemon
<1>1. /\ op' = op /\ (linked => linked') /\ lost \subseteq lost'
      /\ \A f \in Calls \ {e} : pc'[f] = pc[f] /\ todo'[f] = todo[f]
  BY DEF TypeOK, Handle, Checkout, StripeRead, StripeWrite, SetQuota, DelFeatures, AddFeatures, SyncDone, Resume,
     LemonLog, LemonDrop, LemonWrite, Promo, Override, Fails, Goto, locals, history, row
<1>2. Syncs(e)' = Syncs(e) /\ Kind(e)' = Kind(e) /\ (Syncs(e) => Kind(e) \in Stripe)
  BY <1>1 DEF Syncs, Kind, Stripe
<1>3. Torn(e) => Torn(e)'
  BY <1>1, <1>2 DEF Torn
<1>4. Kind(e) \in Stripe => (pc[e] \in {"write", "sync", "resume"} => linked) /\ (pc[e] = "sync" => Syncs(e))
  BY DEF WindowInv
<1>5. CASE Checkout(e) \/ LemonLog(e) \/ LemonDrop(e) \/ LemonWrite(e) \/ Promo(e)
  <2>1. /\ Kind(e) \notin Stripe /\ pc[e] \in {"idle", "write"} /\ features' = features
    BY <1>0, <1>5 DEF Checkout, LemonLog, LemonDrop, LemonWrite, Promo, keys, Stripe, Lemon
  <2>2. ~Coming(e)
    BY <1>2, <2>1 DEF Coming
  <2> QED BY <1>1, <1>3, <2>1, <2>2
<1>6. CASE StripeRead(e)
  <2>1. /\ pc'[e] \in {"write", "done"} /\ (pc'[e] = "write" <=> linked) /\ pc[e] = "idle"
        /\ features' = features /\ linked' = linked
    BY <1>6 DEF StripeRead, Goto, keys, row, TypeOK
  <2>2. Coming(e) => Coming(e)'
    BY <1>2, <2>1 DEF Coming
  <2> QED BY <1>1, <1>3, <2>1, <2>2
<1>7. CASE StripeWrite(e)
  <2>1. /\ pc[e] = "write" /\ linked' = linked /\ features' = features
        /\ Syncs(e) => pc'[e] = "sync" /\ todo'[e] = {"quota", "del"}
        /\ ~Syncs(e) => pc'[e] = "done"
    BY <1>7 DEF StripeWrite, Goto, keys, TypeOK
  <2>2. Coming(e) => Coming(e)'
    BY <1>2, <2>1 DEF Coming
  <2> QED BY <1>1, <1>3, <1>4, <2>1, <2>2
<1>8. CASE SetQuota(e)
  <2>1. /\ pc' = pc /\ todo'[e] = todo[e] \ {"quota"} /\ linked' = linked /\ features' = features
    BY <1>8 DEF SetQuota, row, TypeOK
  <2>2. Coming(e) => Coming(e)'
    BY <1>2, <2>1 DEF Coming
  <2> QED BY <1>1, <1>3, <1>4, <2>1, <2>2
<1>9. CASE DelFeatures(e)
  <2>1. /\ pc' = pc /\ pc[e] = "sync" /\ "add" \in todo'[e] /\ linked' = linked
    BY <1>9 DEF DelFeatures, row, TypeOK
  <2>2. Coming(e)'
    BY <2>1 DEF Coming
  <2> QED BY <1>1, <1>4, <2>1, <2>2
<1>10. CASE AddFeatures(e)
  <2>1. pc' = pc /\ features' # {} /\ linked' = linked
    BY <1>10 DEF AddFeatures, row
  <2> QED BY <1>1, <1>4, <2>1
<1>11. CASE SyncDone(e) \/ Resume(e)
  <2>1. /\ pc[e] \in {"sync", "resume"} /\ (pc[e] = "sync" => todo[e] = {})
        /\ pc'[e] \in {"resume", "done"} /\ features' = features /\ linked' = linked
    BY <1>11 DEF SyncDone, Resume, AfterSync, Goto, keys, row, TypeOK
  <2>2. ~Coming(e)
    BY <2>1 DEF Coming
  <2> QED BY <1>1, <1>3, <1>4, <2>1, <2>2
<1>12. CASE Override(e)
  <2>1. /\ Kind(e) = "FLAGS" /\ pc'[e] = "sync"
        /\ op[e].tier = NoTier \/ "add" \in todo'[e]
    BY <1>12 DEF Override, Goto, TypeOK
  <2>2. Coming(e)' \/ Torn(e)'
    BY <1>1, <1>2, <2>1 DEF Coming, Torn
  <2> QED BY <1>0, <1>1, <2>1, <2>2
<1>13. CASE Fails(e)
  <2>1. /\ features' = features /\ linked' = linked /\ pc[e] \in {"write", "sync", "resume"}
        /\ Kind(e) \in Stripe => pc'[e] = "idle"
        /\ Kind(e) \notin Stripe => e \in lost'
    BY <1>13 DEF Fails, AfterFailure, Goto, keys, row, TypeOK
  <2>2. Coming(e) => Coming(e)' \/ Torn(e)'
    BY <1>0, <1>2, <1>4, <2>1 DEF Coming, Torn, At
  <2> QED BY <1>1, <1>3, <2>1, <2>2
<1> QED BY <1>5, <1>6, <1>7, <1>8, <1>9, <1>10, <1>11, <1>12, <1>13 DEF Handle

LEMMA HandleWindow ==
    ASSUME TypeInv, WindowInv, NEW e \in Calls, Handle(e) \/ Fails(e)
    PROVE  WindowInv'
<1>1. /\ op' = op /\ (linked => linked') /\ lost \subseteq lost'
      /\ \A f \in Calls \ {e} : pc'[f] = pc[f] /\ todo'[f] = todo[f]
      /\ Kind(e) \in Stripe /\ pc'[e] \in {"write", "sync", "resume"} => linked'
      /\ Kind(e) \in Stripe /\ pc'[e] = "sync" => Syncs(e)
      /\ features' = {} /\ (Coming(e) \/ Torn(e) \/ features # {}) => Coming(e)' \/ Torn(e)'
  BY HandleComing
<1>2. \A f \in Calls : (Syncs(f)' <=> Syncs(f)) /\ Kind(f)' = Kind(f)
  BY <1>1 DEF Syncs, Kind
<1>3. \A f \in Calls \ {e} : Coming(f) \/ Torn(f) => Coming(f)' \/ Torn(f)'
  BY <1>1, <1>2 DEF Coming, Torn
<1>4. WindowInHand'
  BY <1>1, <1>3 DEF WindowInv, WindowInHand
<1> QED BY <1>1, <1>2, <1>4 DEF WindowInv

LEMMA OthersWindow ==
    ASSUME WindowInv, Others \/ UNCHANGED vars
    PROVE  WindowInv'
BY DEF WindowInv, WindowInHand, Coming, Torn, Syncs, Others, UseUp, GiveBack, WorkerFindsEmpty, WorkerPauses, PauseExpires,
   vars, row, keys, pause, locals, history, Kind

\* No event leaves a tenant with every feature granted and nothing under way
\* that ends it.
THEOREM WindowStaysInHand == Spec => []WindowInHand
<1> DEFINE Inv == TypeInv /\ WindowInv
<1>1. Init => Inv
  BY InitTypeInv DEF Init, WindowInv, WindowInHand
<1>2. Inv /\ [Next]_vars => Inv'
  BY HandleType, OthersType, HandleWindow, OthersWindow DEF Next, Others
<1>3. Inv => WindowInHand
  BY DEF WindowInv
<1> QED BY <1>1, <1>2, <1>3, PTL DEF Spec
=============================================================================
