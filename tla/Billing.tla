------------------------------ MODULE Billing ------------------------------
(***************************************************************************)
(* What a tenant has paid for: the Subscription row, and the Redis keys    *)
(* that mirror it for the workers and the feature checks (the message      *)
(* quota, the set of features, the flag that pauses the tenant's queue).   *)
(*                                                                         *)
(* They are written by Stripe's webhook (row, then the keys, then the      *)
(* pause flag, each in a statement of its own, delivered again when it     *)
(* fails), by Lemon Squeezy's webhook and by promo codes (the row only,    *)
(* never delivered again), by the platform's override of the features (the *)
(* keys only), and by the worker, which pauses a tenant without quota.     *)
(* The worker's use of the quota, message by message, is in                *)
(* MessageDelivery.                                                        *)
(***************************************************************************)
EXTENDS Integers, FiniteSets

CONSTANTS
    Tiers, Free,  \* plans; the set of a plan's features stands for its name
    NoTier,       \* a price that no plan has; an override without features
    Events,       \* events of the providers; a duplicate has the same event
    Foreign,      \* those that name no tenant, or one that is not there
    Calls,        \* deliveries and requests
    Scenarios,    \* what each call is, in [Calls -> Operations]
    MaxFaults     \* bound on calls that fail half-way

Stripe == {"PAID", "UPDATED", "DELETED", "FAILED"}
Lemon == {"LEMON", "LEMON_EXPIRED", "LEMON_FAILED"}
Kinds == Stripe \cup Lemon \cup {"CHECKOUT", "PROMO", "FLAGS"}
Reported == {"active", "trialing", "past_due", "paused", "unpaid", "cancelled"}
Statuses == {"ACTIVE", "TRIALING", "PAST_DUE", "PAUSED", "CANCELED"}
Operations == [kind : Kinds, event : Events, tier : Tiers \cup {NoTier}, status : Reported]

ASSUME ConstantsAssumption ==
    /\ Free \in Tiers /\ NoTier \notin Tiers /\ Foreign \subseteq Events
    /\ Scenarios \subseteq [Calls -> Operations]
    /\ MaxFaults \in Nat

VARIABLES
    tier, status,  \* Subscription
    linked,        \* its stripeCustomerId is set
    features,      \* tenant:features: plans whose features are in it; {} is no key
    quota, left,   \* tenant:msg_quota: the plan it was set for; messages are left
    paused,        \* tenant:queue_paused
    worker,        \* a worker that found the quota empty is about to pause
    handled,       \* ProcessedWebhook: events of Lemon Squeezy
    op, pc,        \* what each call is, and where it is
    plan,          \* plan[e]: the tier e read, then the one it wrote
    todo,          \* todo[e]: what syncTierToRedis has still to do
    wrote,         \* history: calls that wrote the Subscription
    lost,          \* history: calls that failed, with no reason to deliver them again
    faults,        \* number of failures
    alone,         \* history: calls that sync while nobody else changes row or keys
    mirrored,      \* history: such a call was the last to change them
    stranded       \* history: the pause flag was left over

row == <<tier, status, linked>>
keys == <<features, quota, left>>
pause == <<paused, worker>>
locals == <<op, pc, plan, todo>>
history == <<wrote, lost, faults, alone, mirrored, stranded>>
vars == <<row, keys, pause, handled, locals, history>>

Kind(e) == op[e].kind
Event(e) == op[e].event

TypeOK ==
    /\ tier \in Tiers /\ status \in Statuses /\ linked \in BOOLEAN
    /\ features \subseteq Tiers /\ quota \in Tiers /\ left \in BOOLEAN
    /\ paused \in BOOLEAN /\ worker \in {"idle", "pausing"}
    /\ handled \subseteq Events
    /\ op \in [Calls -> Operations]
    /\ pc \in [Calls -> {"idle", "write", "sync", "resume", "done", "lost"}]
    /\ plan \in [Calls -> Tiers]
    /\ todo \in [Calls -> SUBSET {"quota", "del", "add"}]
    /\ wrote \subseteq Calls /\ lost \subseteq Calls /\ alone \subseteq Calls
    /\ faults \in 0..MaxFaults
    /\ mirrored \in BOOLEAN /\ stranded \in BOOLEAN

\* registerBusiness: a trial with the features and the quota of the free plan.
Init ==
    /\ tier = Free /\ status = "TRIALING" /\ linked \in BOOLEAN
    /\ features = {Free} /\ quota = Free /\ left = TRUE
    /\ paused = FALSE /\ worker = "idle" /\ handled = {}
    /\ op \in Scenarios
    /\ pc = [e \in Calls |-> "idle"]
    /\ plan = [e \in Calls |-> Free]
    /\ todo = [e \in Calls |-> {}]
    /\ wrote = {} /\ lost = {} /\ faults = 0
    /\ alone = {} /\ mirrored = TRUE /\ stranded = FALSE

-----------------------------------------------------------------------------
(* What the handlers decide on.  X_Fault is a plausible bug in X, which no  *)
(* action uses.                                                            *)

Goto(e, l) == pc' = [pc EXCEPT ![e] = l]

\* Stripe's status in the words of the schema.
Internal(s) == CASE s = "active" -> "ACTIVE" [] s = "trialing" -> "TRIALING"
                 [] s = "past_due" -> "PAST_DUE" [] s = "paused" -> "PAUSED" [] OTHER -> "CANCELED"

\* mapStatus of Lemon Squeezy: a trial is ACTIVE, an unpaid plan PAST_DUE.
LemonStatus(s) == CASE s \in {"active", "trialing"} -> "ACTIVE" [] s = "paused" -> "PAUSED"
                    [] s \in {"past_due", "unpaid"} -> "PAST_DUE" [] s = "cancelled" -> "CANCELED"

\* The plan an event leaves: an unknown price keeps the one that was read for
\* an invoice, and means the free plan for a subscription.
NewTier(e) ==
    CASE Kind(e) \in {"DELETED", "LEMON_EXPIRED"} -> Free
      [] Kind(e) = "FAILED" -> tier
      [] Kind(e) = "LEMON_FAILED" -> tier
      [] Kind(e) = "PAID" /\ op[e].tier = NoTier -> plan[e]
      [] Kind(e) \in {"UPDATED", "LEMON", "PROMO"} /\ op[e].tier = NoTier -> Free
      [] OTHER -> op[e].tier

NewStatus(e) ==
    CASE Kind(e) \in {"PAID", "PROMO"} -> "ACTIVE"
      [] Kind(e) \in {"DELETED", "LEMON_EXPIRED"} -> "CANCELED"
      [] Kind(e) \in {"FAILED", "LEMON_FAILED"} -> "PAST_DUE"
      [] Kind(e) = "UPDATED" -> Internal(op[e].status)
      [] Kind(e) = "LEMON" -> LemonStatus(op[e].status)

\* Handlers that mirror the plan into Redis.
Syncs(e) ==
    \/ Kind(e) \in {"PAID", "DELETED"}
    \/ Kind(e) = "UPDATED" /\ Internal(op[e].status) = "ACTIVE"

\* Only a paid invoice lifts the pause.
AfterSync_Fault(e) == "done"
AfterSync(e) == IF Kind(e) = "PAID" THEN "resume" ELSE "done"

\* @@unique([provider, dedupeKey]) of ProcessedWebhook.
Fresh_Fault(e) == TRUE
Fresh(e) == Event(e) \notin handled

\* The features key when syncTierToRedis, or the override, has deleted it.
Cleared_Fault == features
Cleared == {}

\* A webhook that fails: Stripe gets a 500 and delivers the event again, Lemon
\* Squeezy gets a 200.
AfterFailure_Fault(e) == "lost"
AfterFailure(e) == IF Kind(e) \in Stripe THEN "idle" ELSE "lost"

-----------------------------------------------------------------------------
(* History: row and keys agree after a call that nobody crossed.            *)

\* The subscription becomes that of e; calls that sync are crossed.
Writes(e) ==
    /\ tier' = NewTier(e) /\ status' = NewStatus(e)
    /\ wrote' = wrote \cup {e}
    /\ alone' = IF Syncs(e) /\ \A f \in Calls : pc[f] # "sync" THEN {e} ELSE {}
    /\ mirrored' = (mirrored /\ tier' = tier /\ ~Syncs(e))

-----------------------------------------------------------------------------
(* Stripe.                                                                 *)

\* checkout.session.completed gives the row its Stripe customer.
Checkout(e) ==
    /\ pc[e] = "idle" /\ Kind(e) = "CHECKOUT"
    /\ linked' = TRUE
    /\ Goto(e, "done")
    /\ UNCHANGED <<tier, status, keys, pause, handled, op, plan, todo, history>>

\* An event of a customer no row has is answered and forgotten.
StripeRead(e) ==
    /\ pc[e] = "idle" /\ Kind(e) \in Stripe
    /\ plan' = [plan EXCEPT ![e] = tier]
    /\ Goto(e, IF linked THEN "write" ELSE "done")
    /\ UNCHANGED <<row, keys, pause, handled, op, todo, history>>

StripeWrite(e) ==
    /\ pc[e] = "write" /\ Kind(e) \in Stripe
    /\ Writes(e)
    /\ plan' = [plan EXCEPT ![e] = NewTier(e)]
    /\ todo' = [todo EXCEPT ![e] = IF Syncs(e) THEN {"quota", "del"} ELSE {}]
    /\ Goto(e, IF Syncs(e) THEN "sync" ELSE "done")
    /\ UNCHANGED <<linked, keys, pause, handled, op, lost, faults, stranded>>

\* syncTierToRedis sets the quota and, at the same time, deletes the features
\* and adds them.  Its doc says "Delete + re-populate atomically".
SetQuota(e) ==
    /\ pc[e] = "sync" /\ "quota" \in todo[e]
    /\ quota' = plan[e] /\ left' = TRUE
    /\ todo' = [todo EXCEPT ![e] = @ \ {"quota"}]
    /\ stranded' = (stranded \/ (paused /\ Kind(e) # "PAID"))
    /\ UNCHANGED <<row, features, pause, handled, op, pc, plan, wrote, lost, faults, alone, mirrored>>

DelFeatures(e) ==
    /\ pc[e] = "sync" /\ "del" \in todo[e]
    /\ features' = Cleared
    /\ todo' = [todo EXCEPT ![e] = (@ \ {"del"}) \cup {"add"}]
    /\ UNCHANGED <<row, quota, left, pause, handled, op, pc, plan, history>>

AddFeatures(e) ==
    /\ pc[e] = "sync" /\ "add" \in todo[e]
    /\ features' = features \cup {plan[e]}
    /\ todo' = [todo EXCEPT ![e] = @ \ {"add"}]
    /\ UNCHANGED <<row, quota, left, pause, handled, op, pc, plan, history>>

SyncDone(e) ==
    /\ pc[e] = "sync" /\ todo[e] = {}
    /\ mirrored' = (mirrored \/ e \in alone)
    /\ alone' = alone \ {e}
    /\ Goto(e, AfterSync(e))
    /\ UNCHANGED <<row, keys, pause, handled, op, plan, todo, wrote, lost, faults, stranded>>

Resume(e) ==
    /\ pc[e] = "resume"
    /\ paused' = FALSE /\ stranded' = FALSE
    /\ Goto(e, "done")
    /\ UNCHANGED <<row, keys, worker, handled, op, plan, todo, wrote, lost, faults, alone, mirrored>>

\* A statement fails or the process stops.
Fails(e) ==
    /\ pc[e] \in {"write", "sync", "resume"} /\ faults < MaxFaults
    /\ faults' = faults + 1
    /\ todo' = [todo EXCEPT ![e] = {}]
    /\ alone' = alone \ {e}
    /\ Goto(e, AfterFailure(e))
    /\ lost' = IF AfterFailure(e) = "lost" THEN lost \cup {e} ELSE lost
    /\ stranded' = (stranded \/ (paused /\ left))
    /\ UNCHANGED <<row, keys, pause, handled, op, plan, wrote, mirrored>>

-----------------------------------------------------------------------------
(* Lemon Squeezy, promo codes, the platform's override.                    *)

\* processWebhook records the event before it handles it.  Any failure of the
\* insert, not only the unique key's, is answered as a duplicate, with a 200.
LemonLog(e) ==
    /\ pc[e] = "idle" /\ Kind(e) \in Lemon
    /\ \/ Fresh(e) /\ handled' = handled \cup {Event(e)} /\ Goto(e, "write") /\ UNCHANGED <<lost, faults>>
       \/ ~Fresh(e) /\ Goto(e, "done") /\ UNCHANGED <<handled, lost, faults>>
       \/ /\ faults < MaxFaults /\ faults' = faults + 1
          /\ lost' = lost \cup {e}
          /\ Goto(e, "lost") /\ UNCHANGED handled
    /\ UNCHANGED <<row, keys, pause, op, plan, todo, wrote, alone, mirrored, stranded>>

\* An event without a tenant has been recorded, and changes nothing.
LemonDrop(e) ==
    /\ pc[e] = "write" /\ Kind(e) \in Lemon /\ Event(e) \in Foreign
    /\ Goto(e, "done")
    /\ UNCHANGED <<row, keys, pause, handled, op, plan, todo, history>>

\* applyPlan writes the row; the keys in Redis stay.
LemonWrite(e) ==
    /\ pc[e] = "write" /\ Kind(e) \in Lemon /\ Event(e) \notin Foreign
    /\ Writes(e)
    /\ Goto(e, "done")
    /\ UNCHANGED <<linked, keys, pause, handled, op, plan, todo, lost, faults, stranded>>

Promo(e) ==
    /\ pc[e] = "idle" /\ Kind(e) = "PROMO"
    /\ Writes(e)
    /\ Goto(e, "done")
    /\ UNCHANGED <<linked, keys, pause, handled, op, plan, todo, lost, faults, stranded>>

\* The override deletes the features and adds the given ones; an override
\* with none leaves no key.
Override(e) ==
    /\ pc[e] = "idle" /\ Kind(e) = "FLAGS"
    /\ features' = Cleared
    /\ plan' = [plan EXCEPT ![e] = IF op[e].tier = NoTier THEN Free ELSE op[e].tier]
    /\ todo' = [todo EXCEPT ![e] = IF op[e].tier = NoTier THEN {} ELSE {"add"}]
    /\ alone' = {} /\ mirrored' = FALSE
    /\ Goto(e, "sync")
    /\ UNCHANGED <<row, quota, left, pause, handled, op, wrote, lost, faults, stranded>>

-----------------------------------------------------------------------------
(* The worker.                                                             *)

UseUp ==
    /\ left
    /\ left' = FALSE
    /\ UNCHANGED <<row, features, quota, pause, handled, locals, history>>

\* The message that took the last unit puts it back, when the warm-up stops it
\* or the gateway throws or refuses it; or one that had read the quota before
\* takes it below zero, where it counts as unlimited.
GiveBack ==
    /\ ~left
    /\ left' = TRUE
    /\ stranded' = (stranded \/ paused)
    /\ UNCHANGED <<row, features, quota, pause, handled, locals, wrote, lost, faults, alone, mirrored>>

\* It reads the quota, and pauses the tenant in a later statement.
WorkerFindsEmpty ==
    /\ worker = "idle" /\ ~paused /\ ~left
    /\ worker' = "pausing"
    /\ UNCHANGED <<row, keys, paused, handled, locals, history>>

WorkerPauses ==
    /\ worker = "pausing"
    /\ worker' = "idle" /\ paused' = TRUE
    /\ stranded' = (stranded \/ left)
    /\ UNCHANGED <<row, keys, handled, locals, wrote, lost, faults, alone, mirrored>>

\* The flag expires after 24 hours.
PauseExpires ==
    /\ paused
    /\ paused' = FALSE /\ stranded' = FALSE
    /\ UNCHANGED <<row, keys, worker, handled, locals, wrote, lost, faults, alone, mirrored>>

Handle(e) ==
    \/ Checkout(e) \/ StripeRead(e) \/ StripeWrite(e)
    \/ SetQuota(e) \/ DelFeatures(e) \/ AddFeatures(e) \/ SyncDone(e) \/ Resume(e)
    \/ LemonLog(e) \/ LemonDrop(e) \/ LemonWrite(e) \/ Promo(e) \/ Override(e)

Next ==
    \/ \E e \in Calls : Handle(e) \/ Fails(e)
    \/ UseUp \/ GiveBack \/ WorkerFindsEmpty \/ WorkerPauses \/ PauseExpires

Spec == Init /\ [][Next]_vars

\* A handler goes on, and Stripe delivers again what failed.
FairSpec == Spec /\ \A e \in Calls : WF_vars(Handle(e))

-----------------------------------------------------------------------------
(* Properties.                                                             *)

\* Once a handler has mirrored the plan while no other wrote the row or the
\* keys, and until one does, the features and the quota in Redis are those of
\* the plan in the database, whatever failed before.
MirrorHolds == mirrored => features = {tier} /\ quota = tier

\* Without the features key every feature is granted (hasFeature).  The key
\* comes back, because Stripe delivers a failed event again, unless an
\* override failed between its two statements or named no feature.
WindowCloses ==
    (features = {}) ~>
        (features # {} \/ \E e \in Calls : Kind(e) = "FLAGS" /\ (e \in lost \/ op[e].tier = NoTier))

\* A tenant with messages left is paused only while a paid invoice is on its
\* way to lift the pause, or because the worker found the quota empty before
\* it was filled, the quota was filled by an event that lifts no pause, a
\* message under way changed it after another had found it empty, or a handler
\* failed.
PauseExplained ==
    paused /\ left /\ (\A e \in Calls : Kind(e) = "PAID" => pc[e] \notin {"sync", "resume"}) => stranded

\* Lemon Squeezy's webhook implements the inbox of module Inbox: the delivery
\* that recorded an event writes the subscription, alone and once, and an event
\* that was recorded and not applied is lost for good; one that could not be
\* recorded is lost unless it is delivered again.
OfLemon(v) == {e \in Calls : Kind(e) \in Lemon /\ Event(e) = v}
Open == {v \in Events : \E e \in OfLemon(v) : pc[e] = "write"}
Done == [v \in Events |-> (OfLemon(v) \cap wrote) \X {"plan"}]
Lost == {v \in Events \ Open : /\ OfLemon(v) \cap wrote = {}
                               /\ v \in handled \/ OfLemon(v) \cap lost # {}}

I == INSTANCE Inbox WITH
       Items <- Events, Handlers <- Calls, Effects <- {"plan"},
       taken <- handled, open <- Open, done <- Done, lost <- Lost
EventsAreInbox == I!Spec

\* An event of Lemon Squeezy changes the subscription once, however often it
\* is delivered, and one that was delivered does so unless it has no tenant, its
\* handler failed, or it could not be recorded.
LemonOnce ==
    /\ \A e, f \in wrote : Kind(e) \in Lemon /\ Kind(f) \in Lemon /\ Event(e) = Event(f) => e = f
    /\ \A v \in Events \ Foreign :
         /\ \E e \in OfLemon(v) : pc[e] # "idle"
         => \E e \in OfLemon(v) : pc[e] = "write" \/ e \in wrote \/ e \in lost
=============================================================================
