-------------------------- MODULE MessageDelivery --------------------------
(***************************************************************************)
(* Outbound WhatsApp messages of one tenant: the MessageQueue rows in      *)
(* Postgres, the BullMQ job of each row, the tenant's Redis keys (pause    *)
(* flag, monthly quota, daily warm-up counter, pacing stamp), and the      *)
(* worker slots that run processMessageJob, one await at a time.           *)
(*                                                                         *)
(* Around the workers: the producers that create and enqueue a message,    *)
(* the stuck-message reaper, delivery acknowledgements, a customer's       *)
(* opt-out, midnight, crashes of a worker and failing database or Redis    *)
(* calls.  BullMQ and the WhatsApp gateway are external: a job is run at   *)
(* least once; a call of the gateway is accepted, refused or throws, and a *)
(* refused one (a timeout) may have been delivered all the same.           *)
(***************************************************************************)
EXTENDS Integers, FiniteSets

CONSTANTS
    Messages, Customers, Workers,
    NoMsg,       \* the message of an idle slot
    Recipient,   \* Recipient[m]: the customer m is for
    Promo,       \* the promotional messages (isPromotional)
    Staff,       \* customers flagged isStaff
    Movers,      \* customers who change consent in the behaviour (bound)
    AckKinds,    \* the acknowledgements the gateway may send back (bound)
    Plan,        \* the tenant's monthly quota; -1 is unlimited
    WarmupCap,   \* promotional sends the number is allowed today
    Attempts,    \* BullMQ attempts of a job (3 in the code)
    MaxMishaps   \* bound on failing calls, crashes and midnights

ASSUME ConstantsAssumption ==
    /\ IsFiniteSet(Workers) /\ NoMsg \notin Messages
    /\ Recipient \in [Messages -> Customers]
    /\ Promo \subseteq Messages /\ Staff \subseteq Customers /\ Movers \subseteq Customers
    /\ AckKinds \subseteq {"SENT", "DELIVERED", "READ", "FAILED"}
    /\ Plan \in Nat \cup {-1}
    /\ WarmupCap \in Nat
    /\ Attempts \in Nat \ {0}
    /\ MaxMishaps \in Nat

VARIABLES
    row,        \* row[m]: MessageQueue.status, "none" before the row exists
    recent,     \* rows whose sentAt lies within messageCooldownHours
    known,      \* rows with a providerMessageId
    overdue,    \* rows created more than STUCK_GRACE_MINUTES ago
    job,        \* job[m]: state of the BullMQ job msg-<id> (a delayed one is waiting)
    attempts,   \* attempts[m]: attemptsMade
    stalls,     \* stalls[m]: times the job was found stalled
    ending,     \* jobs out of attempts whose 'failed' handler has yet to run
    suppressed, consent, resting,  \* Customer.isSuppressed, .marketingConsentWhatsapp, .marketingPausedUntil
    paused,     \* tenant:queue_paused
    quota,      \* tenant:msg_quota
    warmed,     \* wa:warmup:<today>
    pace,       \* age of wa:last_sent: within the 45 seconds, or not
    pc, msg,    \* where each worker slot is, and its message
    answer,     \* what the gateway answered
    paid, slot, \* slots that took a quota unit; that hold a warm-up place
    mishaps,    \* counter of the bounded events
    deliveries, \* history, deliveries[m]: times the customer received m
    faults,     \* history, faults[m]: deliveries the worker was kept from recording
    spent, leaked, \* history: quota units of recorded sends; never given back
    accepted,   \* history: recorded sends of today that held a warm-up place
    slack,      \* history: places given today that today's counter cannot see
    hits        \* history, hits[w][c]: sends of w to c since c was suppressed

rows == <<row, recent, known, overdue>>
jobs == <<job, attempts, stalls, ending>>
customers == <<suppressed, consent, resting>>
redis == <<paused, quota, warmed, pace>>
worker == <<pc, msg, answer, paid, slot>>
history == <<deliveries, faults, spent, leaked, accepted, slack, hits>>
vars == <<rows, jobs, customers, redis, worker, mishaps, history>>

Unresolved == {"QUEUED", "PENDING"}
Delivered == {"SENT", "DELIVERED", "READ"}
Drops == {"FAILED", "CONSENT_REVOKED", "DROPPED_COOLDOWN", "DROPPED_QUOTA"}
Status == {"none"} \cup Unresolved \cup Delivered \cup Drops

\* A slot whose pc is a status of Drops is about to write it (resolveDropped).
Checking == {"gate", "consent"}
Aiming == {"cooldown", "quota", "pause", "decr", "slot", "giveback", "repay",
           "pace", "sleep", "stamp", "mark", "route"}
Answered == {"record", "usage", "refund", "release", "unslot", "fail", "throw", "complete"}
Labels == {"idle"} \cup Checking \cup Aiming \cup Answered \cup Drops

RowsOK ==
    /\ row \in [Messages -> Status]
    /\ recent \subseteq Messages /\ known \subseteq Messages /\ overdue \subseteq Messages
JobsOK ==
    /\ job \in [Messages -> {"none", "waiting", "active", "completed", "failed"}]
    /\ attempts \in [Messages -> 0..Attempts]
    /\ stalls \in [Messages -> Nat]
    /\ ending \subseteq Messages
CustomersOK ==
    suppressed \subseteq Customers /\ consent \subseteq Customers /\ resting \subseteq Customers
RedisOK ==
    paused \in BOOLEAN /\ quota \in Int /\ warmed \in Int /\ pace \in {"fresh", "rested"}
WorkerOK ==
    /\ pc \in [Workers -> Labels]
    /\ msg \in [Workers -> Messages \cup {NoMsg}]
    /\ answer \in [Workers -> {"none", "accepted", "rejected", "threw"}]
    /\ paid \subseteq Workers /\ slot \subseteq Workers
MishapsOK == mishaps \in 0..MaxMishaps
HistoryOK ==
    /\ deliveries \in [Messages -> Nat] /\ faults \in [Messages -> Nat]
    /\ spent \in Nat /\ leaked \in Nat /\ accepted \in Nat /\ slack \in Nat
    /\ hits \in [Workers -> [Customers -> Nat]]

TypeOK == RowsOK /\ JobsOK /\ CustomersOK /\ RedisOK /\ WorkerOK /\ MishapsOK /\ HistoryOK

Init ==
    /\ row = [m \in Messages |-> "none"]
    /\ recent = {} /\ known = {} /\ overdue = {}
    /\ job = [m \in Messages |-> "none"]
    /\ attempts = [m \in Messages |-> 0]
    /\ stalls = [m \in Messages |-> 0]
    /\ ending = {}
    /\ suppressed = {} /\ consent = Customers /\ resting = {}
    /\ paused = FALSE /\ quota = Plan /\ warmed = 0 /\ pace = "rested"
    /\ pc = [w \in Workers |-> "idle"]
    /\ msg = [w \in Workers |-> NoMsg]
    /\ answer = [w \in Workers |-> "none"]
    /\ paid = {} /\ slot = {}
    /\ mishaps = 0
    /\ deliveries = [m \in Messages |-> 0] /\ faults = [m \in Messages |-> 0]
    /\ spent = 0 /\ leaked = 0 /\ accepted = 0 /\ slack = 0
    /\ hits = [w \in Workers |-> [c \in Customers |-> 0]]

-----------------------------------------------------------------------------
(* Helpers.  A definition X_Fault is a plausible bug in X: no action uses  *)
(* it, the mutation runs put it in the place of X to show that a property  *)
(* notices.                                                                *)

To(w) == Recipient[msg[w]]
Goto(w, l) == pc' = [pc EXCEPT ![w] = l]
SetRow(w, s) == row' = [row EXCEPT ![msg[w]] = s]
Release(w) == /\ Goto(w, "idle")
              /\ msg' = [msg EXCEPT ![w] = NoMsg]
              /\ answer' = [answer EXCEPT ![w] = "none"]

\* BullMQ hands out a job under a lock.
Takable_Fault(m) == job[m] \in {"waiting", "active"}
Takable(m) == job[m] = "waiting"

\* Pre-flights 2 to 5, in the order the code asks them of one customer row.
Preflight_Fault(m, c) ==
    IF c \in Staff THEN "FAILED"
    ELSE IF m \in Promo /\ c \notin consent THEN "CONSENT_REVOKED"
    ELSE IF c \in resting THEN "DROPPED_COOLDOWN"
    ELSE IF m \in Promo THEN "cooldown" ELSE "quota"
Preflight(m, c) ==
    IF c \in Staff THEN "FAILED"
    ELSE IF c \in suppressed \/ (m \in Promo /\ c \notin consent) THEN "CONSENT_REVOKED"
    ELSE IF c \in resting THEN "DROPPED_COOLDOWN"
    ELSE IF m \in Promo THEN "cooldown" ELSE "quota"

\* Pre-flight 6: another promotional message reached the customer of late.
RecentPromo(m) ==
    \E n \in Promo \ {m} : Recipient[n] = Recipient[m] /\ row[n] \in Delivered /\ n \in recent

\* The claimed place is beyond today's cap.
OverCap_Fault(n) == n > WarmupCap + 1
OverCap(n) == n > WarmupCap

\* A unit taken is given back, when the send is off.
GiveBack_Fault(w) == UNCHANGED quota /\ paid' = paid \ {w}
GiveBack(w) ==
    /\ quota' = IF w \in paid THEN quota + 1 ELSE quota
    /\ paid' = paid \ {w}

\* A unit still held when the job is cut short is never given back.
Forfeit(w) ==
    /\ paid' = paid \ {w} /\ slot' = slot \ {w}
    /\ leaked' = IF w \in paid THEN leaked + 1 ELSE leaked

\* Where the worker goes with the answer of the gateway.
AfterAnswer_Fault(a) == IF a = "accepted" THEN "usage" ELSE "refund"
AfterAnswer(a) == IF a = "accepted" THEN "record" ELSE "refund"
AfterRefund(w) == IF answer[w] = "rejected" THEN "fail" ELSE "throw"

\* The message reached the customer in this attempt, as the gateway said.
\* When such an attempt is repeated, the repetition is a duplicate.
Repeats(w) == IF answer[w] = "accepted" THEN [faults EXCEPT ![msg[w]] = @ + 1] ELSE faults

LastAttempt_Fault(m) == FALSE
LastAttempt(m) == attempts[m] + 1 >= Attempts

-----------------------------------------------------------------------------
(* Producers, customers and time.                                          *)

\* launchCampaign, an automation or a birthday bonus writes the row ...
CreateRow(m) ==
    /\ row[m] = "none"
    /\ row' = [row EXCEPT ![m] = "PENDING"]
    /\ UNCHANGED <<recent, known, overdue, jobs, customers, redis, worker, mishaps, history>>

\* ... and then enqueues the job, unless the process dies in between.
Enqueue(m) ==
    /\ row[m] # "none" /\ job[m] = "none"
    /\ job' = [job EXCEPT ![m] = "waiting"]
    /\ UNCHANGED <<rows, attempts, stalls, ending, customers, redis, worker, mishaps, history>>

\* processOptOut: a STOP keyword.
OptOut(c) ==
    /\ c \in Movers
    /\ suppressed' = suppressed \cup {c}
    /\ consent' = consent \ {c}
    /\ hits' = [w \in Workers |-> [hits[w] EXCEPT ![c] = 0]]
    /\ UNCHANGED <<rows, jobs, resting, redis, worker, mishaps,
                   deliveries, faults, spent, leaked, accepted, slack>>

\* updateConsent: the customer changes the WhatsApp flag or another one.  The
\* new isSuppressed is computed over the OLD and the NEW value of the changed
\* flag, one of which is TRUE: it always ends up FALSE.
ChangeConsent(c) ==
    /\ c \in Movers
    /\ consent' \in {consent \cup {c}, consent \ {c}}
    /\ suppressed' = suppressed \ {c}
    /\ UNCHANGED <<rows, jobs, resting, redis, worker, mishaps, history>>

\* processInboundSentiment pauses marketing for 72 hours, which then end.
Rest(c) ==
    /\ c \in Movers
    /\ resting' \in {resting \cup {c}, resting \ {c}}
    /\ UNCHANGED <<rows, jobs, suppressed, consent, redis, worker, mishaps, history>>

\* handleWahaAck: whatever order they come in, the last one is written.
Ack(m, s) ==
    /\ m \in known
    /\ row' = [row EXCEPT ![m] = s]
    /\ UNCHANGED <<recent, known, overdue, jobs, customers, redis, worker, mishaps, history>>

CooldownEnds(m) ==
    /\ m \in recent
    /\ recent' = recent \ {m}
    /\ UNCHANGED <<row, known, overdue, jobs, customers, redis, worker, mishaps, history>>

GraceEnds(m) ==
    /\ row[m] # "none" /\ m \notin overdue
    /\ overdue' = overdue \cup {m}
    /\ UNCHANGED <<row, recent, known, jobs, customers, redis, worker, mishaps, history>>

\* stuckMessageReaperJob: one updateMany over every row past its grace.
Stuck_Fault(m) == m \notin overdue /\ row[m] \in Unresolved
Stuck(m) == m \in overdue /\ row[m] \in Unresolved

Reap ==
    /\ \E m \in Messages : Stuck(m)
    /\ row' = [m \in Messages |-> IF Stuck(m) THEN "FAILED" ELSE row[m]]
    /\ UNCHANGED <<recent, known, overdue, jobs, customers, redis, worker, mishaps, history>>

\* The pause flag expires after 24 hours, or a payment lifts it.
ResumeTenant ==
    /\ paused /\ paused' = FALSE
    /\ UNCHANGED <<rows, jobs, customers, quota, warmed, pace, worker, mishaps, history>>

\* The 45 seconds are over for the stamp that the sleeping slots have read.
GapEnds ==
    /\ pace = "fresh"
    /\ pace' = "rested"
    /\ pc' = [w \in Workers |-> IF pc[w] = "sleep" THEN "stamp" ELSE pc[w]]
    /\ UNCHANGED <<rows, jobs, customers, paused, quota, warmed, msg, answer, paid, slot,
                   mishaps, history>>

\* Midnight UTC: today's counter is a new key.  A DECR still to come of a slot
\* that has read its key touches yesterday's counter only.
NewDay ==
    /\ mishaps < MaxMishaps /\ mishaps' = mishaps + 1
    /\ slot' = {w \in slot : pc[w] # "unslot"}
    /\ warmed' = 0 /\ accepted' = 0 /\ slack' = Cardinality(slot')
    /\ pc' = [w \in Workers |-> CASE pc[w] = "giveback" -> "repay"
                                  [] pc[w] = "unslot"   -> AfterRefund(w)
                                  [] OTHER              -> pc[w]]
    /\ UNCHANGED <<rows, jobs, customers, paused, quota, pace, msg, answer, paid,
                   deliveries, faults, spent, leaked, hits>>

-----------------------------------------------------------------------------
(* processMessageJob, one await per step.                                  *)

Take(w, m) ==
    /\ pc[w] = "idle" /\ Takable(m)
    /\ job' = [job EXCEPT ![m] = "active"]
    /\ msg' = [msg EXCEPT ![w] = m]
    /\ Goto(w, "gate")
    /\ UNCHANGED <<rows, attempts, stalls, ending, customers, redis, answer, paid, slot,
                   mishaps, history>>

\* A pre-flight that only reads: it drops the message or lets it pass.
Check(w) ==
    LET m == msg[w] IN
    /\ \/ pc[w] = "gate" /\ Goto(w, IF paused THEN "DROPPED_QUOTA" ELSE "consent")
       \/ pc[w] = "consent" /\ Goto(w, Preflight(m, To(w)))
       \/ pc[w] = "cooldown" /\ Goto(w, IF RecentPromo(m) THEN "DROPPED_COOLDOWN" ELSE "quota")
    /\ UNCHANGED <<rows, jobs, customers, redis, msg, answer, paid, slot, mishaps, history>>

\* Pre-flight 7: GET of the quota, then DECR of whatever it is by now.
ReadQuota(w) ==
    /\ pc[w] = "quota"
    /\ Goto(w, CASE quota = 0  -> "pause"
                 [] quota = -1 -> IF msg[w] \in Promo THEN "slot" ELSE "mark"
                 [] OTHER      -> "decr")
    /\ UNCHANGED <<rows, jobs, customers, redis, msg, answer, paid, slot, mishaps, history>>

PauseTenant(w) ==
    /\ pc[w] = "pause"
    /\ paused' = TRUE
    /\ Goto(w, "DROPPED_QUOTA")
    /\ UNCHANGED <<rows, jobs, customers, quota, warmed, pace, msg, answer, paid, slot,
                   mishaps, history>>

Decrement(w) ==
    /\ pc[w] = "decr"
    /\ quota' = quota - 1
    /\ paid' = paid \cup {w}
    /\ Goto(w, IF msg[w] \in Promo THEN "slot" ELSE "mark")
    /\ UNCHANGED <<rows, jobs, customers, paused, warmed, pace, msg, answer, slot, mishaps, history>>

\* Pre-flight 8, consumeWarmupSlot: INCR, and DECR again beyond the cap.
ConsumeSlot(w) ==
    /\ pc[w] = "slot"
    /\ warmed' = warmed + 1
    /\ slot' = IF OverCap(warmed + 1) THEN slot ELSE slot \cup {w}
    /\ Goto(w, IF OverCap(warmed + 1) THEN "giveback" ELSE "pace")
    /\ UNCHANGED <<rows, jobs, customers, paused, quota, pace, msg, answer, paid, mishaps, history>>

GiveSlotBack(w) ==
    /\ pc[w] = "giveback"
    /\ warmed' = warmed - 1
    /\ Goto(w, "repay")
    /\ UNCHANGED <<rows, jobs, customers, paused, quota, pace, msg, answer, paid, slot,
                   mishaps, history>>

RepayRefused(w) ==
    /\ pc[w] = "repay"
    /\ GiveBack(w)
    /\ Goto(w, "DROPPED_QUOTA")
    /\ UNCHANGED <<rows, jobs, customers, paused, warmed, pace, msg, answer, slot, mishaps, history>>

\* enforceWhatsAppDelay: sleep off the stamp that was READ, then stamp.
ReadPace(w) ==
    /\ pc[w] = "pace"
    /\ Goto(w, IF pace = "fresh" THEN "sleep" ELSE "stamp")
    /\ UNCHANGED <<rows, jobs, customers, redis, msg, answer, paid, slot, mishaps, history>>

Stamp(w) ==
    /\ pc[w] = "stamp"
    /\ pace' = "fresh"
    /\ Goto(w, "mark")
    /\ UNCHANGED <<rows, jobs, customers, paused, quota, warmed, msg, answer, paid, slot,
                   mishaps, history>>

\* In-flight, whatever the row says by now.
Mark(w) ==
    /\ pc[w] = "mark"
    /\ SetRow(w, "PENDING")
    /\ Goto(w, "route")
    /\ UNCHANGED <<recent, known, overdue, jobs, customers, redis, msg, answer, paid, slot,
                   mishaps, history>>

\* The customer receives the message of w.
Reaches(w) ==
    /\ deliveries' = [deliveries EXCEPT ![msg[w]] = @ + 1]
    /\ hits' = IF To(w) \in suppressed THEN [hits EXCEPT ![w][To(w)] = @ + 1] ELSE hits

\* routeMessage.  An open circuit breaker or an unconfigured session is a
\* rejection, and so is an HTTP timeout after the gateway took the message.
Route(w, a, reached) ==
    LET m == msg[w] IN
    /\ pc[w] = "route"
    /\ a = "accepted" => reached
    /\ a = "threw" => ~reached
    /\ answer' = [answer EXCEPT ![w] = a]
    /\ IF reached THEN Reaches(w) ELSE UNCHANGED <<deliveries, hits>>
    /\ faults' = IF reached /\ a = "rejected" THEN [faults EXCEPT ![m] = @ + 1] ELSE faults
    /\ Goto(w, AfterAnswer(a))
    /\ UNCHANGED <<rows, jobs, customers, redis, msg, paid, slot, mishaps,
                   spent, leaked, accepted, slack>>

\* The transaction: SENT, providerMessageId, sentAt (and the campaign's count).
RecordSent(w) ==
    /\ pc[w] = "record"
    /\ SetRow(w, "SENT")
    /\ known' = known \cup {msg[w]} /\ recent' = recent \cup {msg[w]}
    /\ spent' = IF w \in paid THEN spent + 1 ELSE spent
    /\ accepted' = IF w \in slot THEN accepted + 1 ELSE accepted
    /\ paid' = paid \ {w} /\ slot' = slot \ {w}
    /\ Goto(w, "usage")
    /\ UNCHANGED <<overdue, jobs, customers, redis, msg, answer, mishaps,
                   deliveries, faults, leaked, slack, hits>>

\* Subscription.messagesUsedThisPeriod, in a statement of its own.
CountUsage(w) ==
    /\ pc[w] = "usage"
    /\ Goto(w, "complete")
    /\ UNCHANGED <<rows, jobs, customers, redis, msg, answer, paid, slot, mishaps, history>>

Refund(w) ==
    /\ pc[w] = "refund"
    /\ GiveBack(w)
    /\ Goto(w, IF w \in slot THEN "release" ELSE AfterRefund(w))
    /\ UNCHANGED <<rows, jobs, customers, paused, warmed, pace, msg, answer, slot, mishaps, history>>

\* releaseWarmupSlot: GET of today's counter, DECR if it is positive.
ReadWarmed(w) ==
    /\ pc[w] = "release"
    /\ Goto(w, IF warmed > 0 THEN "unslot" ELSE AfterRefund(w))
    /\ slot' = IF warmed > 0 THEN slot ELSE slot \ {w}
    /\ UNCHANGED <<rows, jobs, customers, redis, msg, answer, paid, mishaps, history>>

ReleaseSlot(w) ==
    /\ pc[w] = "unslot"
    /\ warmed' = warmed - 1
    /\ slot' = slot \ {w}
    /\ Goto(w, AfterRefund(w))
    /\ UNCHANGED <<rows, jobs, customers, paused, quota, pace, msg, answer, paid, mishaps, history>>

RecordFailed(w) ==
    /\ pc[w] = "fail"
    /\ SetRow(w, "FAILED")
    /\ Goto(w, "throw")
    /\ UNCHANGED <<recent, known, overdue, jobs, customers, redis, msg, answer, paid, slot,
                   mishaps, history>>

\* resolveDropped: a terminal status, and the job completes.
ResolveDropped(w) ==
    /\ pc[w] \in Drops
    /\ SetRow(w, pc[w])
    /\ Goto(w, "complete")
    /\ UNCHANGED <<recent, known, overdue, jobs, customers, redis, msg, answer, paid, slot,
                   mishaps, history>>

Complete(w) ==
    /\ pc[w] = "complete"
    /\ job' = [job EXCEPT ![msg[w]] = "completed"]
    /\ Release(w)
    /\ UNCHANGED <<rows, attempts, stalls, ending, customers, redis, paid, slot, mishaps, history>>

\* The processor threw: BullMQ retries, or the job has failed for good.
Throw(w) ==
    LET m == msg[w] IN
    /\ pc[w] = "throw"
    /\ attempts' = [attempts EXCEPT ![m] = @ + 1]
    /\ job' = [job EXCEPT ![m] = IF LastAttempt(m) THEN "failed" ELSE "waiting"]
    /\ ending' = IF LastAttempt(m) THEN ending \cup {m} ELSE ending
    /\ Release(w)
    /\ UNCHANGED <<rows, stalls, customers, redis, paid, slot, mishaps, history>>

\* worker.on('failed'): a row left at PENDING becomes FAILED.
Finalize(m) ==
    /\ m \in ending
    /\ ending' = ending \ {m}
    /\ row' = IF row[m] = "PENDING" THEN [row EXCEPT ![m] = "FAILED"] ELSE row
    /\ UNCHANGED <<recent, known, overdue, job, attempts, stalls, customers, redis, worker,
                   mishaps, history>>

-----------------------------------------------------------------------------
(* Failures.                                                               *)

\* A database or Redis call rejects outside every try block: nothing is
\* refunded, the error reaches BullMQ as any other.
Fragile == {"consent", "cooldown", "quota", "pause", "decr", "repay", "pace", "stamp", "mark",
            "record", "usage", "refund", "fail"} \cup Drops

CallFails(w) ==
    /\ mishaps < MaxMishaps /\ mishaps' = mishaps + 1
    /\ pc[w] \in Fragile
    /\ Goto(w, "throw")
    /\ Forfeit(w)
    /\ faults' = Repeats(w)
    /\ answer' = [answer EXCEPT ![w] = "none"]
    /\ UNCHANGED <<rows, jobs, customers, redis, msg,
                   deliveries, spent, accepted, slack, hits>>

\* isTenantQueuePaused and the warm-up helpers swallow a Redis error: the
\* message passes, holding a place of today that nobody counted.
FailOpen(w) ==
    /\ mishaps < MaxMishaps /\ mishaps' = mishaps + 1
    /\ \/ /\ pc[w] = "gate" /\ Goto(w, "consent")
          /\ UNCHANGED <<slot, slack>>
       \/ /\ pc[w] \in {"slot", "giveback"} /\ Goto(w, "pace")
          /\ slot' = slot \cup {w} /\ slack' = slack + 1
       \/ /\ pc[w] \in {"release", "unslot"} /\ Goto(w, AfterRefund(w))
          /\ slot' = slot \ {w} /\ UNCHANGED slack
    /\ UNCHANGED <<rows, jobs, customers, redis, msg, answer, paid,
                   deliveries, faults, spent, leaked, accepted, hits>>

\* The worker process dies.  The lock of the job expires; it is handed out
\* once more the first time, and failed the second.
Crash(w) ==
    LET m == msg[w] IN
    /\ mishaps < MaxMishaps /\ mishaps' = mishaps + 1
    /\ pc[w] # "idle"
    /\ stalls' = [stalls EXCEPT ![m] = @ + 1]
    /\ job' = [job EXCEPT ![m] = IF stalls[m] = 0 THEN "waiting" ELSE "failed"]
    /\ Release(w)
    /\ Forfeit(w)
    /\ faults' = Repeats(w)
    /\ UNCHANGED <<rows, attempts, ending, customers, redis,
                   deliveries, spent, accepted, slack, hits>>

-----------------------------------------------------------------------------
Send(w) ==
    \/ Check(w) \/ ReadQuota(w) \/ PauseTenant(w) \/ Decrement(w)
    \/ ConsumeSlot(w) \/ GiveSlotBack(w) \/ RepayRefused(w) \/ ReadPace(w) \/ Stamp(w)
    \/ Mark(w)
    \/ \E a \in {"accepted", "rejected", "threw"}, reached \in BOOLEAN : Route(w, a, reached)
    \/ RecordSent(w) \/ CountUsage(w)
    \/ Refund(w) \/ ReadWarmed(w) \/ ReleaseSlot(w) \/ RecordFailed(w)
    \/ ResolveDropped(w) \/ Complete(w) \/ Throw(w)

Work(w) == (\E m \in Messages : Take(w, m)) \/ Send(w)

Environment ==
    \/ \E m \in Messages : CreateRow(m) \/ Enqueue(m) \/ CooldownEnds(m) \/ GraceEnds(m)
    \/ \E m \in Messages, s \in AckKinds : Ack(m, s)
    \/ \E c \in Customers : OptOut(c) \/ ChangeConsent(c) \/ Rest(c)
    \/ ResumeTenant \/ GapEnds \/ NewDay \/ Reap
    \/ \E m \in Messages : Finalize(m)

Next ==
    \/ Environment
    \/ \E w \in Workers : Work(w) \/ CallFails(w) \/ FailOpen(w) \/ Crash(w)

Spec == Init /\ [][Next]_vars

\* Node runs the continuations of a slot, BullMQ hands it the jobs there are,
\* sleep ends, and cron runs the reaper.  Nothing else has to happen: neither
\* an enqueue, nor the 'failed' handler, nor an acknowledgement.
FairSpec ==
    /\ Spec
    /\ \A w \in Workers : WF_vars(Work(w))
    /\ WF_vars(GapEnds) /\ WF_vars(Reap)
    /\ \A m \in Messages : WF_vars(GraceEnds(m))

-----------------------------------------------------------------------------
(* Safety.                                                                 *)

\* An opt-out stops everything but the messages already past the check: a
\* worker slot sends at most one more message to a suppressed customer,
\* however many are queued, retried or redelivered.
OptOutStopsQueue == \A w \in Workers, c \in Customers : hits[w][c] <= 1

\* Every duplicate a customer receives is paid for by a fault: a gateway that
\* refused what it delivered, a crash, or a failed write after the send.
\* Retries, redeliveries and the reaper alone never send a message twice.
DuplicatesOnlyFromFaults == \A m \in Messages : deliveries[m] <= 1 + faults[m]

\* However faults, retries and redeliveries follow one another, a customer
\* receives a message at most once per attempt of its job, and once more for
\* the one time a worker may die with it.
DeliveriesBounded == \A m \in Messages : deliveries[m] <= Attempts + 1

\* BullMQ forgets a completed job, so its row must tell how it ended.
CompletedJobResolved == \A m \in Messages : job[m] = "completed" => row[m] \notin Unresolved

\* Quota is neither created nor destroyed: the Redis counter, the units in the
\* hands of workers, those of recorded sends and those lost to failures add up
\* to the plan (an unlimited plan is never touched).
QuotaConserved == quota + Cardinality(paid) + spent + leaked = Plan

\* Promotional sends of a day exceed the warm-up cap only by the places that
\* today's counter cannot see: those held across midnight or let through by a
\* failing Redis.
WarmupOverrunExplained == accepted + Cardinality(slot) <= WarmupCap + slack

-----------------------------------------------------------------------------
(* Liveness.                                                               *)

\* No message stays PENDING for ever, whatever is lost on the way.
EventuallyAllResolved == <>[](\A m \in Messages : row[m] \notin Unresolved)

-----------------------------------------------------------------------------
(* What the repository says and the code does not do.                      *)

\* messaging-worker.ts:231: there is no race between concurrent workers on the
\* quota, so a metered tenant never reaches -1, which means unlimited.
NeverUnlimited == Plan >= 0 => quota >= 0

\* README.md:257: no second promotional message within the cooldown.
CooldownRespected ==
    \A m, n \in Promo :
        m # n /\ Recipient[m] = Recipient[n] => ~({m, n} \subseteq recent)

\* cron-service.ts:93: the reaper resolves rows whose job was lost.
ReapedOnlyLost ==
    [][\A m \in Messages : Reap /\ Stuck(m) => job[m] \notin {"waiting", "active"}]_vars

\* messaging-worker.ts:321: a failure to count usage does not undo SENT.
SentNotUndone == [][\A m \in Messages : row[m] = "SENT" => row'[m] # "PENDING"]_vars
=============================================================================
