---------------------- MODULE MessageDelivery_proofs ----------------------
(***************************************************************************)
(* Theorems about MessageDelivery, for every set of messages, customers    *)
(* and worker slots, every plan, cap and number of attempts, and any       *)
(* bound on failures and midnights.                                        *)
(***************************************************************************)
EXTENDS MessageDelivery, FiniteSetTheorems, TLAPS

Busy(w) == pc[w] # "idle"

\* BullMQ's lock: an active job is in one slot, and has an attempt left.
LockInv ==
    /\ \A w \in Workers : Busy(w) => msg[w] \in Messages /\ job[msg[w]] = "active"
    /\ \A v, w \in Workers : Busy(v) /\ Busy(w) /\ msg[v] = msg[w] => v = w
    /\ \A m \in Messages : job[m] \in {"none", "waiting", "active"} => attempts[m] < Attempts

TypeInv == TypeOK /\ LockInv

-----------------------------------------------------------------------------
(* Type correctness, and the lock of BullMQ.                               *)

LEMMA InitTypeInv == Init => TypeInv
<1> SUFFICES ASSUME Init PROVE TypeInv
  OBVIOUS
<1>1. /\ quota \in Int /\ mishaps \in 0..MaxMishaps
      /\ attempts \in [Messages -> 0..Attempts]
      /\ \A m \in Messages : attempts[m] < Attempts
  BY ConstantsAssumption DEF Init
<1>2. RowsOK
  BY DEF Init, RowsOK, Status
<1>3. JobsOK
  BY <1>1 DEF Init, JobsOK
<1>4. CustomersOK /\ RedisOK /\ MishapsOK
  <2>1. paused \in BOOLEAN
    BY DEF Init
  <2> QED BY <1>1, <2>1 DEF Init, CustomersOK, RedisOK, MishapsOK
<1>5. WorkerOK
  BY DEF Init, WorkerOK, Labels
<1>6. HistoryOK
  BY DEF Init, HistoryOK
<1>7. LockInv
  BY <1>1 DEF Init, LockInv, Busy
<1> QED BY <1>2, <1>3, <1>4, <1>5, <1>6, <1>7 DEF TypeInv, TypeOK

LEMMA FiniteSlots ==
    ASSUME NEW S \in SUBSET Workers
    PROVE  IsFiniteSet(S) /\ Cardinality(S) \in Nat
BY ConstantsAssumption, FS_Subset, FS_CardinalityType

\* What a step leaves alone stays well typed.
LEMMA Untouched ==
    ASSUME TypeOK
    PROVE  /\ UNCHANGED rows => RowsOK'
           /\ UNCHANGED jobs => JobsOK'
           /\ UNCHANGED customers => CustomersOK'
           /\ UNCHANGED redis => RedisOK'
           /\ UNCHANGED worker => WorkerOK'
           /\ UNCHANGED mishaps => MishapsOK'
           /\ UNCHANGED history => HistoryOK'
<1>1. UNCHANGED rows => RowsOK'
  BY DEF TypeOK, rows, RowsOK
<1>2. UNCHANGED jobs => JobsOK'
  BY DEF TypeOK, jobs, JobsOK
<1>3. UNCHANGED customers => CustomersOK'
  BY DEF TypeOK, customers, CustomersOK
<1>4. UNCHANGED redis => RedisOK'
  BY DEF TypeOK, redis, RedisOK
<1>5. UNCHANGED worker => WorkerOK'
  BY DEF TypeOK, worker, WorkerOK
<1>6. UNCHANGED mishaps => MishapsOK'
  BY DEF TypeOK, MishapsOK
<1>7. UNCHANGED history => HistoryOK'
  BY DEF TypeOK, history, HistoryOK
<1> QED BY <1>1, <1>2, <1>3, <1>4, <1>5, <1>6, <1>7

\* Jobs change hands in Take, Complete, Throw and Crash only.
LEMMA LockKept ==
    ASSUME LockInv, UNCHANGED <<msg, job, attempts>>,
           \A w \in Workers : pc'[w] # "idle" => pc[w] # "idle"
    PROVE  LockInv'
BY DEF LockInv, Busy

\* What a producer, a customer or time does.
LEMMA EnvironmentTypeInv == TypeInv /\ Environment => TypeInv'
<1> SUFFICES ASSUME TypeInv, Environment PROVE TypeInv'
  OBVIOUS
<1> USE Untouched DEF TypeInv, TypeOK
<1>1. ASSUME NEW m \in Messages, CreateRow(m) \/ CooldownEnds(m) \/ GraceEnds(m) PROVE TypeInv'
  <2>1. TypeOK'
    BY <1>1 DEF CreateRow, CooldownEnds, GraceEnds, RowsOK, Status, Unresolved
  <2> QED BY <1>1, <2>1, LockKept DEF CreateRow, CooldownEnds, GraceEnds, jobs, worker
<1>2. ASSUME NEW m \in Messages, Enqueue(m) PROVE TypeInv'
  <2>1. TypeOK'
    BY <1>2 DEF Enqueue, JobsOK
  <2>2. LockInv'
    BY <1>2 DEF Enqueue, LockInv, Busy, JobsOK, worker
  <2> QED BY <2>1, <2>2
<1>3. ASSUME NEW m \in Messages, NEW s \in AckKinds, Ack(m, s) PROVE TypeInv'
  <2>1. TypeOK'
    BY <1>3, ConstantsAssumption DEF Ack, RowsOK, Status, Delivered, Drops
  <2> QED BY <1>3, <2>1, LockKept DEF Ack, jobs, worker
<1>4. ASSUME NEW c \in Customers, OptOut(c) PROVE TypeInv'
  <2>1. CustomersOK'
    BY <1>4 DEF OptOut, CustomersOK
  <2>2. HistoryOK'
    BY <1>4 DEF OptOut, HistoryOK
  <2>3. TypeOK'
    BY <1>4, <2>1, <2>2 DEF OptOut
  <2> QED BY <1>4, <2>3, LockKept DEF OptOut, jobs, worker
<1>5. ASSUME NEW c \in Customers, ChangeConsent(c) \/ Rest(c) PROVE TypeInv'
  <2>1. TypeOK'
    BY <1>5 DEF ChangeConsent, Rest, CustomersOK
  <2> QED BY <1>5, <2>1, LockKept DEF ChangeConsent, Rest, jobs, worker
<1>6. CASE ResumeTenant
  <2>1. TypeOK'
    BY <1>6 DEF ResumeTenant, RedisOK
  <2> QED BY <1>6, <2>1, LockKept DEF ResumeTenant, jobs, worker
<1>7. CASE GapEnds
  <2>1. RedisOK' /\ WorkerOK'
    BY <1>7 DEF GapEnds, RedisOK, WorkerOK, Labels, Aiming
  <2>2. TypeOK'
    BY <1>7, <2>1 DEF GapEnds
  <2>3. LockInv'
    BY <1>7, LockKept DEF GapEnds, WorkerOK, jobs
  <2> QED BY <2>2, <2>3
<1>8. CASE NewDay
  <2>1. \A w \in Workers : AfterRefund(w) \in {"fail", "throw"}
    BY DEF AfterRefund
  <2>2. /\ pc' \in [Workers -> Labels]
        /\ \A w \in Workers : pc'[w] # "idle" => pc[w] # "idle"
    BY <1>8, <2>1 DEF NewDay, WorkerOK, Labels, Aiming, Answered
  <2>3. WorkerOK'
    BY <1>8, <2>2 DEF NewDay, WorkerOK
  <2>4. HistoryOK'
    BY <1>8, <2>3, FiniteSlots DEF NewDay, HistoryOK, WorkerOK
  <2>5. MishapsOK' /\ RedisOK'
    <3>1. paused' \in BOOLEAN
      BY <1>8 DEF NewDay, RedisOK
    <3> QED BY <1>8, <3>1, ConstantsAssumption DEF NewDay, MishapsOK, RedisOK
  <2>6. TypeOK'
    BY <1>8, <2>3, <2>4, <2>5 DEF NewDay
  <2>7. LockInv'
    BY <1>8, <2>2, LockKept DEF NewDay, jobs
  <2> QED BY <2>6, <2>7
<1>9. CASE Reap
  <2>1. TypeOK'
    BY <1>9 DEF Reap, RowsOK, Status, Drops
  <2> QED BY <1>9, <2>1, LockKept DEF Reap, jobs, worker
<1>10. ASSUME NEW m \in Messages, Finalize(m) PROVE TypeInv'
  <2>1. RowsOK' /\ JobsOK'
    BY <1>10 DEF Finalize, RowsOK, JobsOK, Status, Drops
  <2>2. TypeOK'
    BY <1>10, <2>1 DEF Finalize
  <2> QED BY <1>10, <2>2, LockKept DEF Finalize, worker
<1> QED BY <1>1, <1>2, <1>3, <1>4, <1>5, <1>6, <1>7, <1>8, <1>9, <1>10 DEF Environment

\* A slot that does not change hands keeps the lock.
LEMMA SendKept ==
    ASSUME TypeInv, NEW w \in Workers, NEW l, pc[w] # "idle", Goto(w, l),
           UNCHANGED <<msg, job, attempts>>
    PROVE  LockInv'
BY LockKept DEF TypeInv, TypeOK, WorkerOK, Goto

\* The steps of processMessageJob.
LEMMA SendTypeInv == ASSUME TypeInv, NEW w \in Workers, Send(w) PROVE TypeInv'
<1> USE Untouched DEF TypeInv, TypeOK
<1>1. Busy(w) => msg[w] \in Messages
  BY DEF LockInv
<1>2. AfterRefund(w) \in {"fail", "throw"}
  BY DEF AfterRefund
<1>3. CASE Check(w)
  <2>1. PICK l \in Labels : Goto(w, l)
    BY <1>3 DEF Check, Preflight, Labels, Checking, Aiming, Drops
  <2>2. TypeOK'
    BY <1>3, <2>1 DEF Check, WorkerOK, Goto
  <2>3. LockInv'
    BY <1>3, <2>1, SendKept DEF Check, jobs
  <2> QED BY <2>2, <2>3
<1>4. CASE ReadQuota(w)
  <2>1. PICK l \in Labels : Goto(w, l)
    BY <1>4 DEF ReadQuota, Labels, Aiming
  <2>2. TypeOK'
    BY <1>4, <2>1 DEF ReadQuota, WorkerOK, Goto
  <2>3. LockInv'
    BY <1>4, <2>1, SendKept DEF ReadQuota, jobs
  <2> QED BY <2>2, <2>3
<1>5. CASE PauseTenant(w)
  <2>1. RedisOK' /\ WorkerOK'
    BY <1>5 DEF PauseTenant, RedisOK, WorkerOK, Goto, Labels, Drops
  <2>2. TypeOK'
    BY <1>5, <2>1 DEF PauseTenant
  <2>3. LockInv'
    BY <1>5, SendKept DEF PauseTenant, jobs
  <2> QED BY <2>2, <2>3
<1>6. CASE Decrement(w)
  <2>1. RedisOK' /\ WorkerOK'
    BY <1>6 DEF Decrement, RedisOK, WorkerOK, Goto, Labels, Aiming
  <2>2. TypeOK'
    BY <1>6, <2>1 DEF Decrement
  <2>3. LockInv'
    BY <1>6, SendKept DEF Decrement, jobs
  <2> QED BY <2>2, <2>3
<1>7. CASE ConsumeSlot(w)
  <2>1. RedisOK' /\ WorkerOK'
    BY <1>7 DEF ConsumeSlot, RedisOK, WorkerOK, Goto, Labels, Aiming
  <2>2. TypeOK'
    BY <1>7, <2>1 DEF ConsumeSlot
  <2>3. LockInv'
    BY <1>7, SendKept DEF ConsumeSlot, jobs
  <2> QED BY <2>2, <2>3
<1>8. CASE GiveSlotBack(w)
  <2>1. RedisOK' /\ WorkerOK'
    BY <1>8 DEF GiveSlotBack, RedisOK, WorkerOK, Goto, Labels, Aiming
  <2>2. TypeOK'
    BY <1>8, <2>1 DEF GiveSlotBack
  <2>3. LockInv'
    BY <1>8, SendKept DEF GiveSlotBack, jobs
  <2> QED BY <2>2, <2>3
<1>9. CASE RepayRefused(w)
  <2>1. RedisOK' /\ WorkerOK'
    BY <1>9 DEF RepayRefused, GiveBack, RedisOK, WorkerOK, Goto, Labels, Drops
  <2>2. TypeOK'
    BY <1>9, <2>1 DEF RepayRefused
  <2>3. LockInv'
    BY <1>9, SendKept DEF RepayRefused, jobs
  <2> QED BY <2>2, <2>3
<1>10. CASE ReadPace(w)
  <2>1. PICK l \in Labels : Goto(w, l)
    BY <1>10 DEF ReadPace, Labels, Aiming
  <2>2. TypeOK'
    BY <1>10, <2>1 DEF ReadPace, WorkerOK, Goto
  <2>3. LockInv'
    BY <1>10, <2>1, SendKept DEF ReadPace, jobs
  <2> QED BY <2>2, <2>3
<1>11. CASE Stamp(w)
  <2>1. RedisOK' /\ WorkerOK'
    BY <1>11 DEF Stamp, RedisOK, WorkerOK, Goto, Labels, Aiming
  <2>2. TypeOK'
    BY <1>11, <2>1 DEF Stamp
  <2>3. LockInv'
    BY <1>11, SendKept DEF Stamp, jobs
  <2> QED BY <2>2, <2>3
<1>12. CASE Mark(w)
  <2>1. RowsOK' /\ WorkerOK'
    BY <1>12 DEF Mark, SetRow, RowsOK, WorkerOK, Goto, Labels, Aiming, Status, Unresolved
  <2>2. TypeOK'
    BY <1>12, <2>1 DEF Mark
  <2>3. LockInv'
    BY <1>12, SendKept DEF Mark, jobs
  <2> QED BY <2>2, <2>3
<1>13. ASSUME NEW a \in {"accepted", "rejected", "threw"}, NEW reached \in BOOLEAN,
              Route(w, a, reached)
       PROVE  TypeInv'
  <2>1. msg[w] \in Messages /\ To(w) \in Customers
    BY <1>1, <1>13, ConstantsAssumption DEF Route, Busy, To
  <2>2. deliveries' \in [Messages -> Nat] /\ hits' \in [Workers -> [Customers -> Nat]]
    <3>1. CASE ~reached
      BY <1>13, <3>1 DEF Route, HistoryOK
    <3>2. CASE reached
      <4>1. deliveries' \in [Messages -> Nat]
        BY <1>13, <2>1, <3>2 DEF Route, Reaches, HistoryOK
      <4>2. [hits EXCEPT ![w][To(w)] = @ + 1] \in [Workers -> [Customers -> Nat]]
        BY <2>1 DEF HistoryOK
      <4>3. hits' \in [Workers -> [Customers -> Nat]]
        BY <1>13, <3>2, <4>2 DEF Route, Reaches, HistoryOK
      <4> QED BY <4>1, <4>3
    <3> QED BY <3>1, <3>2
  <2>3. faults' \in [Messages -> Nat]
    BY <1>13, <2>1 DEF Route, HistoryOK
  <2>4. HistoryOK'
    BY <1>13, <2>2, <2>3 DEF Route, HistoryOK
  <2>5. AfterAnswer(a) \in Labels
    BY DEF AfterAnswer, Labels, Answered
  <2>6. WorkerOK'
    BY <1>13, <2>5 DEF Route, WorkerOK, Goto
  <2>7. TypeOK'
    BY <1>13, <2>4, <2>6 DEF Route
  <2>8. LockInv'
    BY <1>13, SendKept DEF Route, jobs
  <2> QED BY <2>7, <2>8
<1>14. CASE RecordSent(w)
  <2>1. RowsOK'
    BY <1>1, <1>14 DEF RecordSent, SetRow, RowsOK, Busy, Status, Delivered
  <2>2. WorkerOK'
    BY <1>14 DEF RecordSent, WorkerOK, Goto, Labels, Answered
  <2>3. HistoryOK'
    BY <1>14 DEF RecordSent, HistoryOK
  <2>4. TypeOK'
    BY <1>14, <2>1, <2>2, <2>3 DEF RecordSent
  <2>5. LockInv'
    BY <1>14, SendKept DEF RecordSent, jobs
  <2> QED BY <2>4, <2>5
<1>15. CASE CountUsage(w)
  <2>1. TypeOK'
    BY <1>15 DEF CountUsage, WorkerOK, Goto, Labels, Answered
  <2>2. LockInv'
    BY <1>15, SendKept DEF CountUsage, jobs
  <2> QED BY <2>1, <2>2
<1>16. CASE Refund(w)
  <2>1. RedisOK'
    BY <1>16 DEF Refund, GiveBack, RedisOK
  <2>2. WorkerOK'
    BY <1>2, <1>16 DEF Refund, GiveBack, WorkerOK, Goto, Labels, Answered
  <2>3. TypeOK'
    BY <1>16, <2>1, <2>2 DEF Refund
  <2>4. LockInv'
    BY <1>16, SendKept DEF Refund, jobs
  <2> QED BY <2>3, <2>4
<1>17. CASE ReadWarmed(w)
  <2>1. WorkerOK'
    BY <1>2, <1>17 DEF ReadWarmed, WorkerOK, Goto, Labels, Answered
  <2>2. TypeOK'
    BY <1>17, <2>1 DEF ReadWarmed
  <2>3. LockInv'
    BY <1>17, SendKept DEF ReadWarmed, jobs
  <2> QED BY <2>2, <2>3
<1>18. CASE ReleaseSlot(w)
  <2>1. RedisOK' /\ WorkerOK'
    BY <1>2, <1>18 DEF ReleaseSlot, RedisOK, WorkerOK, Goto, Labels, Answered
  <2>2. TypeOK'
    BY <1>18, <2>1 DEF ReleaseSlot
  <2>3. LockInv'
    BY <1>18, SendKept DEF ReleaseSlot, jobs
  <2> QED BY <2>2, <2>3
<1>19. CASE RecordFailed(w)
  <2>1. RowsOK' /\ WorkerOK'
    BY <1>19 DEF RecordFailed, SetRow, RowsOK, WorkerOK, Goto, Labels, Answered, Status, Drops
  <2>2. TypeOK'
    BY <1>19, <2>1 DEF RecordFailed
  <2>3. LockInv'
    BY <1>19, SendKept DEF RecordFailed, jobs
  <2> QED BY <2>2, <2>3
<1>20. CASE ResolveDropped(w)
  <2>1. RowsOK' /\ WorkerOK'
    BY <1>20 DEF ResolveDropped, SetRow, RowsOK, WorkerOK, Goto, Labels, Answered, Status
  <2>2. TypeOK'
    BY <1>20, <2>1 DEF ResolveDropped
  <2>3. LockInv'
    BY <1>20, SendKept DEF ResolveDropped, Drops, jobs
  <2> QED BY <2>2, <2>3
<1>21. CASE Complete(w)
  <2>1. WorkerOK' /\ JobsOK'
    BY <1>21 DEF Complete, Release, WorkerOK, JobsOK, Goto, Labels
  <2>2. TypeOK'
    BY <1>21, <2>1 DEF Complete
  <2>3. LockInv'
    BY <1>21 DEF Complete, Release, Goto, LockInv, Busy, WorkerOK, JobsOK
  <2> QED BY <2>2, <2>3
<1>22. CASE Throw(w)
  <2>1. /\ msg[w] \in Messages
        /\ attempts[msg[w]] < Attempts /\ attempts[msg[w]] \in Nat /\ Attempts \in Nat
    BY <1>1, <1>22, ConstantsAssumption DEF Throw, LockInv, Busy, JobsOK
  <2>2. JobsOK'
    BY <1>22, <2>1 DEF Throw, JobsOK
  <2>3. WorkerOK'
    BY <1>22 DEF Throw, Release, WorkerOK, Goto, Labels
  <2>4. TypeOK'
    BY <1>22, <2>2, <2>3 DEF Throw
  <2>5. LockInv'
    BY <1>22, <2>1 DEF Throw, LastAttempt, Release, Goto, LockInv, Busy, WorkerOK, JobsOK
  <2> QED BY <2>4, <2>5
<1> QED BY <1>3, <1>4, <1>5, <1>6, <1>7, <1>8, <1>9, <1>10, <1>11, <1>12, <1>13, <1>14, <1>15,
           <1>16, <1>17, <1>18, <1>19, <1>20, <1>21, <1>22 DEF Send

LEMMA NextTypeInv == TypeInv /\ [Next]_vars => TypeInv'
<1> SUFFICES ASSUME TypeInv, [Next]_vars PROVE TypeInv'
  OBVIOUS
<1> USE Untouched DEF TypeInv, TypeOK
<1>1. ASSUME NEW w \in Workers, NEW m \in Messages, Take(w, m) PROVE TypeInv'
  <2>1. WorkerOK' /\ JobsOK'
    BY <1>1 DEF Take, WorkerOK, JobsOK, Goto, Labels, Checking
  <2>2. TypeOK'
    BY <1>1, <2>1 DEF Take
  <2>3. LockInv'
    BY <1>1 DEF Take, Takable, Goto, LockInv, Busy, WorkerOK, JobsOK
  <2> QED BY <2>2, <2>3
<1>2. ASSUME NEW w \in Workers, CallFails(w) \/ FailOpen(w) \/ Crash(w) PROVE TypeInv'
  <2>1. pc[w] # "idle" /\ msg[w] \in Messages
    BY <1>2 DEF CallFails, FailOpen, Crash, Fragile, Drops, LockInv, Busy
  <2>2. MishapsOK'
    BY <1>2, ConstantsAssumption DEF CallFails, FailOpen, Crash, MishapsOK
  <2>3. Repeats(w) \in [Messages -> Nat]
    BY <2>1 DEF Repeats, HistoryOK
  <2>4. HistoryOK'
    BY <1>2, <2>3 DEF CallFails, FailOpen, Crash, Forfeit, HistoryOK
  <2>5. CASE CallFails(w)
    <3>1. WorkerOK'
      BY <2>5 DEF CallFails, Forfeit, Goto, WorkerOK, Labels, Answered
    <3>2. TypeOK'
      BY <2>2, <2>4, <2>5, <3>1 DEF CallFails
    <3>3. LockInv'
      BY <2>1, <2>5, SendKept DEF CallFails, jobs
    <3> QED BY <3>2, <3>3
  <2>6. CASE FailOpen(w)
    <3>1. PICK l \in Labels : Goto(w, l)
      BY <2>6 DEF FailOpen, AfterRefund, Labels, Checking, Aiming, Answered
    <3>2. WorkerOK'
      BY <2>6, <3>1 DEF FailOpen, Goto, WorkerOK
    <3>3. TypeOK'
      BY <2>2, <2>4, <2>6, <3>2 DEF FailOpen
    <3>4. LockInv'
      BY <2>1, <2>6, <3>1, SendKept DEF FailOpen, jobs
    <3> QED BY <3>3, <3>4
  <2>7. CASE Crash(w)
    <3>1. WorkerOK'
      BY <2>7 DEF Crash, Release, Forfeit, Goto, WorkerOK, Labels
    <3>2. JobsOK'
      BY <2>1, <2>7 DEF Crash, JobsOK
    <3>3. TypeOK'
      BY <2>2, <2>4, <2>7, <3>1, <3>2 DEF Crash
    <3>4. LockInv'
      BY <2>1, <2>7 DEF Crash, Release, Goto, LockInv, Busy, WorkerOK, JobsOK
    <3> QED BY <3>3, <3>4
  <2> QED BY <1>2, <2>5, <2>6, <2>7
<1>3. CASE UNCHANGED vars
  BY <1>3, LockKept DEF vars, jobs, worker
<1> QED BY <1>1, <1>2, <1>3, EnvironmentTypeInv, SendTypeInv DEF Next, Work

\* Every reachable state is well typed.
THEOREM TypeCorrect == Spec => []TypeOK
<1>1. Spec => []TypeInv
  BY InitTypeInv, NextTypeInv, PTL DEF Spec
<1> QED BY <1>1, PTL DEF TypeInv

-----------------------------------------------------------------------------
(* Opt-outs.  A slot on its way to a suppressed customer has not sent to   *)
(* that customer since the opt-out, and no slot starts on such a way.      *)

OptOutInv ==
    /\ OptOutStopsQueue
    /\ \A w \in Workers : pc[w] \in Aiming /\ To(w) \in suppressed => hits[w][To(w)] = 0

LEMMA OptOutKept ==
    ASSUME OptOutInv, hits' = hits, suppressed' \subseteq suppressed,
           \A w \in Workers : pc'[w] \in Aiming =>
               /\ msg'[w] = msg[w]
               /\ pc[w] \in Aiming \/ To(w) \notin suppressed
    PROVE  OptOutInv'
BY DEF OptOutInv, OptOutStopsQueue, To

LEMMA OptOutSend == ASSUME TypeInv, OptOutInv, NEW w \in Workers, Send(w) PROVE OptOutInv'
<1> USE OptOutKept DEF TypeInv, TypeOK, WorkerOK, Goto, customers, history
<1>1. CASE Check(w)
  BY <1>1 DEF Check, Preflight, Checking, Aiming, Drops
<1>2. CASE ReadQuota(w) \/ PauseTenant(w) \/ Decrement(w)
  BY <1>2 DEF ReadQuota, PauseTenant, Decrement, Aiming, redis
<1>3. CASE ConsumeSlot(w) \/ GiveSlotBack(w) \/ RepayRefused(w)
  BY <1>3 DEF ConsumeSlot, GiveSlotBack, RepayRefused, Aiming
<1>4. CASE ReadPace(w) \/ Stamp(w) \/ Mark(w)
  BY <1>4 DEF ReadPace, Stamp, Mark, Aiming
<1>5. ASSUME NEW a \in {"accepted", "rejected", "threw"}, NEW reached \in BOOLEAN,
             Route(w, a, reached)
      PROVE  OptOutInv'
  <2>1. pc'[w] \notin Aiming /\ \A v \in Workers \ {w} : pc'[v] = pc[v]
    BY <1>5 DEF Route, AfterAnswer, Aiming
  <2>2. msg' = msg /\ suppressed' = suppressed
    BY <1>5 DEF Route
  <2>3. CASE ~(reached /\ To(w) \in suppressed)
    <3>1. hits' = hits
      BY <1>5, <2>3 DEF Route, Reaches
    <3> QED BY <2>1, <2>2, <3>1
  <2>4. CASE reached /\ To(w) \in suppressed
    <3>1. hits' = [hits EXCEPT ![w][To(w)] = @ + 1] /\ hits[w][To(w)] = 0
      BY <1>5, <2>4 DEF Route, Reaches, OptOutInv, Aiming
    <3>2. \A v \in Workers, c \in Customers : hits'[v][c] \in {hits[v][c], 1}
      BY <3>1 DEF HistoryOK
    <3>3. \A v \in Workers \ {w} : hits'[v] = hits[v]
      BY <3>1 DEF HistoryOK
    <3>4. OptOutStopsQueue'
      BY <3>2 DEF OptOutInv, OptOutStopsQueue
    <3> QED BY <2>1, <2>2, <3>3, <3>4 DEF OptOutInv, To
  <2> QED BY <2>3, <2>4
<1>6. CASE RecordSent(w) \/ CountUsage(w) \/ Complete(w) \/ Throw(w)
  BY <1>6 DEF RecordSent, CountUsage, Complete, Throw, Release, Aiming
<1>7. CASE Refund(w) \/ ReadWarmed(w) \/ ReleaseSlot(w)
  BY <1>7 DEF Refund, ReadWarmed, ReleaseSlot, AfterRefund, Aiming
<1>8. CASE RecordFailed(w) \/ ResolveDropped(w)
  BY <1>8 DEF RecordFailed, ResolveDropped, Aiming
<1> QED BY <1>1, <1>2, <1>3, <1>4, <1>5, <1>6, <1>7, <1>8 DEF Send

LEMMA OptOutEnvironment == ASSUME TypeInv, OptOutInv, Environment PROVE OptOutInv'
<1> USE OptOutKept DEF TypeInv, TypeOK, WorkerOK, worker, history
<1>1. ASSUME NEW m \in Messages, NEW s,
             CreateRow(m) \/ Enqueue(m) \/ CooldownEnds(m) \/ GraceEnds(m) \/ Ack(m, s) \/ Finalize(m)
      PROVE  OptOutInv'
  BY <1>1 DEF CreateRow, Enqueue, CooldownEnds, GraceEnds, Ack, Finalize, customers
<1>2. ASSUME NEW c \in Customers, OptOut(c) PROVE OptOutInv'
  <2>1. \A w \in Workers, d \in Customers : hits'[w][d] = IF d = c THEN 0 ELSE hits[w][d]
    BY <1>2 DEF OptOut, HistoryOK
  <2>2. pc' = pc /\ msg' = msg /\ suppressed' = suppressed \cup {c}
    BY <1>2 DEF OptOut
  <2>3. c \in Customers /\ suppressed \subseteq Customers
    BY DEF CustomersOK
  <2> QED BY <2>1, <2>2, <2>3 DEF OptOutInv, OptOutStopsQueue, To
<1>3. ASSUME NEW c \in Customers, ChangeConsent(c) \/ Rest(c) PROVE OptOutInv'
  BY <1>3 DEF ChangeConsent, Rest
<1>4. CASE ResumeTenant \/ Reap
  BY <1>4 DEF ResumeTenant, Reap, customers
<1>5. CASE GapEnds
  BY <1>5 DEF GapEnds, Aiming, customers
<1>6. CASE NewDay
  BY <1>6 DEF NewDay, AfterRefund, Aiming, customers
<1> QED BY <1>1, <1>2, <1>3, <1>4, <1>5, <1>6 DEF Environment

\* However many messages are queued, retried or redelivered, a worker slot
\* sends a suppressed customer at most the one it had already checked.
THEOREM OptOutObeyed == Spec => []OptOutStopsQueue
<1>1. Init => OptOutInv
  BY DEF Init, OptOutInv, OptOutStopsQueue, Aiming
<1>2. TypeInv /\ OptOutInv /\ [Next]_vars => OptOutInv'
  <2> SUFFICES ASSUME TypeInv, OptOutInv, [Next]_vars PROVE OptOutInv'
    OBVIOUS
  <2> USE OptOutKept DEF TypeInv, TypeOK, WorkerOK
  <2>1. ASSUME NEW w \in Workers, NEW m \in Messages, Take(w, m) PROVE OptOutInv'
    BY <2>1 DEF Take, Goto, Aiming, customers, history
  <2>2. ASSUME NEW w \in Workers, CallFails(w) \/ Crash(w) PROVE OptOutInv'
    BY <2>2 DEF CallFails, Crash, Release, Goto, Aiming, customers
  <2>3. ASSUME NEW w \in Workers, FailOpen(w) PROVE OptOutInv'
    BY <2>3 DEF FailOpen, AfterRefund, Goto, Aiming, customers
  <2>4. CASE UNCHANGED vars
    BY <2>4 DEF vars, worker, customers, history
  <2> QED BY <2>1, <2>2, <2>3, <2>4, OptOutSend, OptOutEnvironment DEF Next, Work
<1>3. Spec => []OptOutInv
  BY InitTypeInv, NextTypeInv, <1>1, <1>2, PTL DEF Spec
<1> QED BY <1>3, PTL DEF OptOutInv

-----------------------------------------------------------------------------
(* Quota.  A slot holds a unit only between the decrement and the outcome  *)
(* of the send, so each unit is counted in one place.                      *)

Paying == {"slot", "giveback", "repay", "pace", "sleep", "stamp", "mark", "route", "record",
           "refund"}

QuotaInv == QuotaConserved /\ \A w \in paid : pc[w] \in Paying

\* Cardinalities of sets of slots, as one slot enters or leaves.
LEMMA CountSlots ==
    ASSUME NEW S \in SUBSET Workers, NEW w \in Workers
    PROVE  /\ Cardinality(S) \in Nat
           /\ w \notin S => Cardinality(S \cup {w}) = Cardinality(S) + 1
           /\ w \in S => Cardinality(S \ {w}) = Cardinality(S) - 1
           /\ Cardinality(S \ {w}) <= Cardinality(S)
<1>1. IsFiniteSet(S)
  BY FiniteSlots
<1>2. w \notin S => Cardinality(S \cup {w}) = Cardinality(S) + 1
  BY <1>1, FS_AddElement
<1>3. w \in S => Cardinality(S \ {w}) = Cardinality(S) - 1
  BY <1>1, FS_RemoveElement
<1>4. Cardinality(S) \in Nat
  BY FiniteSlots
<1>5. Cardinality(S \ {w}) <= Cardinality(S)
  <2>1. CASE w \in S
    BY <1>3, <1>4, <2>1
  <2>2. CASE w \notin S
    <3>1. S \ {w} = S
      BY <2>2
    <3> QED BY <1>4, <3>1
  <2> QED BY <2>1, <2>2
<1> QED BY <1>2, <1>3, <1>4, <1>5

LEMMA QuotaKept ==
    ASSUME QuotaInv, UNCHANGED <<quota, paid, spent, leaked>>,
           \A w \in paid : pc'[w] \in Paying
    PROVE  QuotaInv'
BY DEF QuotaInv, QuotaConserved

LEMMA QuotaForfeit ==
    ASSUME TypeInv, QuotaInv, NEW w \in Workers, Forfeit(w), UNCHANGED <<quota, spent>>,
           \A v \in Workers \ {w} : pc'[v] = pc[v]
    PROVE  QuotaInv'
<1>1. /\ paid \subseteq Workers /\ quota \in Int /\ spent \in Nat /\ leaked \in Nat /\ Plan \in Int
      /\ quota + Cardinality(paid) + spent + leaked = Plan
  BY ConstantsAssumption
     DEF TypeInv, TypeOK, RedisOK, WorkerOK, HistoryOK, QuotaInv, QuotaConserved
<1>2. paid' = paid \ {w} /\ UNCHANGED <<quota, spent>> /\ leaked' = IF w \in paid THEN leaked + 1 ELSE leaked
  BY DEF Forfeit
<1>3. CASE w \in paid
  <2>1. Cardinality(paid) \in Nat /\ Cardinality(paid \ {w}) = Cardinality(paid) - 1
    BY <1>1, <1>3, CountSlots
  <2>2. /\ Cardinality(paid') = Cardinality(paid) - 1
        /\ leaked' = leaked + 1 /\ quota' = quota /\ spent' = spent
    BY <1>2, <1>3, <2>1
  <2>3. QuotaConserved'
    BY <1>1, <2>1, <2>2 DEF QuotaConserved
  <2>4. \A v \in paid' : pc'[v] \in Paying
    BY <1>1, <1>2 DEF QuotaInv
  <2> QED BY <2>3, <2>4 DEF QuotaInv
<1>4. CASE w \notin paid
  <2>1. paid' = paid /\ QuotaConserved'
    BY <1>1, <1>2, <1>4 DEF QuotaConserved
  <2> QED BY <1>1, <1>2, <2>1 DEF QuotaInv
<1> QED BY <1>3, <1>4

LEMMA QuotaGiveBack ==
    ASSUME TypeInv, QuotaInv, NEW w \in Workers, GiveBack(w), UNCHANGED <<spent, leaked>>,
           \A v \in Workers \ {w} : pc'[v] = pc[v]
    PROVE  QuotaInv'
<1>1. /\ paid \subseteq Workers /\ quota \in Int /\ spent \in Nat /\ leaked \in Nat /\ Plan \in Int
      /\ quota + Cardinality(paid) + spent + leaked = Plan
  BY ConstantsAssumption
     DEF TypeInv, TypeOK, RedisOK, WorkerOK, HistoryOK, QuotaInv, QuotaConserved
<1>2. paid' = paid \ {w} /\ UNCHANGED <<spent, leaked>> /\ quota' = IF w \in paid THEN quota + 1 ELSE quota
  BY DEF GiveBack
<1>3. CASE w \in paid
  <2>1. Cardinality(paid) \in Nat /\ Cardinality(paid \ {w}) = Cardinality(paid) - 1
    BY <1>1, <1>3, CountSlots
  <2>2. QuotaConserved'
    BY <1>1, <1>2, <1>3, <2>1 DEF QuotaConserved
  <2>3. \A v \in paid' : pc'[v] \in Paying
    BY <1>1, <1>2 DEF QuotaInv
  <2> QED BY <2>2, <2>3 DEF QuotaInv
<1>4. CASE w \notin paid
  <2>1. paid' = paid /\ QuotaConserved'
    BY <1>1, <1>2, <1>4 DEF QuotaConserved
  <2> QED BY <1>1, <1>2, <2>1 DEF QuotaInv
<1> QED BY <1>3, <1>4

LEMMA QuotaSend == ASSUME TypeInv, QuotaInv, NEW w \in Workers, Send(w) PROVE QuotaInv'
<1> USE QuotaKept DEF TypeInv, TypeOK, WorkerOK, Goto, history, redis
<1>1. CASE Check(w)
  BY <1>1 DEF Check, QuotaInv, Paying
<1>2. CASE ReadQuota(w) \/ PauseTenant(w)
  BY <1>2 DEF ReadQuota, PauseTenant, QuotaInv, Paying
<1>3. CASE Decrement(w)
  <2>1. w \notin paid
    BY <1>3 DEF Decrement, QuotaInv, Paying
  <2>2. QuotaConserved'
    <3>1. Cardinality(paid) \in Nat /\ Cardinality(paid \cup {w}) = Cardinality(paid) + 1
      BY <2>1, CountSlots
    <3> QED BY <1>3, <3>1, ConstantsAssumption
            DEF Decrement, QuotaInv, QuotaConserved, RedisOK, HistoryOK
  <2>3. \A v \in paid' : pc'[v] \in Paying
    <3>1. pc'[w] \in Paying
      BY <1>3, <2>2 DEF Decrement, Paying
    <3>2. \A v \in paid : pc'[v] \in Paying
      BY <1>3, <3>1 DEF Decrement, QuotaInv
    <3> QED BY <1>3, <3>1, <3>2 DEF Decrement
  <2> QED BY <2>2, <2>3 DEF QuotaInv
<1>4. CASE ConsumeSlot(w) \/ GiveSlotBack(w) \/ ReadPace(w) \/ Stamp(w) \/ Mark(w)
  BY <1>4 DEF ConsumeSlot, GiveSlotBack, ReadPace, Stamp, Mark, QuotaInv, Paying
<1>5. CASE RepayRefused(w) \/ Refund(w)
  BY <1>5, QuotaGiveBack DEF RepayRefused, Refund
<1>6. ASSUME NEW a \in {"accepted", "rejected", "threw"}, NEW reached \in BOOLEAN,
             Route(w, a, reached)
      PROVE  QuotaInv'
  BY <1>6 DEF Route, AfterAnswer, QuotaInv, Paying
<1>7. CASE RecordSent(w)
  <2>1. QuotaConserved'
    <3>1. /\ Cardinality(paid) \in Nat
          /\ w \in paid => Cardinality(paid \ {w}) = Cardinality(paid) - 1
          /\ w \notin paid => paid \ {w} = paid
      BY CountSlots
    <3> QED BY <1>7, <3>1, ConstantsAssumption
            DEF RecordSent, QuotaInv, QuotaConserved, RedisOK, HistoryOK
  <2>2. \A v \in paid' : v \in paid /\ pc'[v] = pc[v]
    BY <1>7 DEF RecordSent
  <2> QED BY <2>1, <2>2 DEF QuotaInv
<1>8. CASE CountUsage(w) \/ ReadWarmed(w) \/ ReleaseSlot(w) \/ RecordFailed(w)
  BY <1>8 DEF CountUsage, ReadWarmed, ReleaseSlot, RecordFailed, QuotaInv, Paying
<1>9. CASE ResolveDropped(w)
  BY <1>9 DEF ResolveDropped, QuotaInv, Paying, Drops
<1>10. CASE Complete(w) \/ Throw(w)
  BY <1>10 DEF Complete, Throw, Release, QuotaInv, Paying
<1> QED BY <1>1, <1>2, <1>3, <1>4, <1>5, <1>6, <1>7, <1>8, <1>9, <1>10 DEF Send

LEMMA QuotaEnvironment == ASSUME TypeInv, QuotaInv, Environment PROVE QuotaInv'
<1> USE QuotaKept DEF TypeInv, TypeOK, WorkerOK, worker, redis, history, QuotaInv
<1>1. ASSUME NEW m \in Messages, NEW s,
             CreateRow(m) \/ Enqueue(m) \/ CooldownEnds(m) \/ GraceEnds(m) \/ Ack(m, s) \/ Finalize(m)
      PROVE  QuotaInv'
  BY <1>1 DEF CreateRow, Enqueue, CooldownEnds, GraceEnds, Ack, Finalize
<1>2. ASSUME NEW c \in Customers, OptOut(c) \/ ChangeConsent(c) \/ Rest(c) PROVE QuotaInv'
  BY <1>2 DEF OptOut, ChangeConsent, Rest
<1>3. CASE ResumeTenant \/ Reap
  BY <1>3 DEF ResumeTenant, Reap
<1>4. CASE GapEnds
  BY <1>4 DEF GapEnds, Paying
<1>5. CASE NewDay
  <2>1. \A v \in paid : pc'[v] \in Paying
    BY <1>5 DEF NewDay, Paying
  <2> QED BY <1>5, <2>1 DEF NewDay
<1> QED BY <1>1, <1>2, <1>3, <1>4, <1>5 DEF Environment

\* Whatever overlaps, fails or crashes, every unit of the plan is in Redis, in
\* a worker's hands, in a recorded send or lost to a failure.
THEOREM QuotaAccounted == Spec => []QuotaConserved
<1>1. Init => QuotaInv
  BY ConstantsAssumption, FS_EmptySet DEF Init, QuotaInv, QuotaConserved
<1>2. TypeInv /\ QuotaInv /\ [Next]_vars => QuotaInv'
  <2> SUFFICES ASSUME TypeInv, QuotaInv, [Next]_vars PROVE QuotaInv'
    OBVIOUS
  <2> USE QuotaKept DEF TypeInv, TypeOK, WorkerOK, Goto
  <2>1. ASSUME NEW w \in Workers, NEW m \in Messages, Take(w, m) PROVE QuotaInv'
    BY <2>1 DEF Take, QuotaInv, Paying, redis, history
  <2>2. ASSUME NEW w \in Workers, CallFails(w) \/ Crash(w) PROVE QuotaInv'
    BY <2>2, QuotaForfeit DEF CallFails, Crash, Release, redis
  <2>3. ASSUME NEW w \in Workers, FailOpen(w) PROVE QuotaInv'
    BY <2>3 DEF FailOpen, QuotaInv, Paying, redis
  <2>4. CASE UNCHANGED vars
    BY <2>4 DEF vars, worker, redis, history, QuotaInv
  <2> QED BY <2>1, <2>2, <2>3, <2>4, QuotaSend, QuotaEnvironment DEF Next, Work
<1>3. Spec => []QuotaInv
  BY InitTypeInv, NextTypeInv, <1>1, <1>2, PTL DEF Spec
<1> QED BY <1>3, PTL DEF QuotaInv

-----------------------------------------------------------------------------
(* The warm-up cap.  The counter covers the places in use, those of        *)
(* recorded sends and those refused and not yet taken off it again.        *)

Holding == {"pace", "sleep", "stamp", "mark", "route", "record", "refund", "release", "unslot"}
Returning == {w \in Workers : pc[w] = "giveback"}

PlaceInv ==
    /\ \A w \in slot : pc[w] \in Holding
    /\ \A w \in Workers : pc[w] \in {"release", "unslot"} => w \in slot

Covered == accepted + Cardinality(slot) + Cardinality(Returning) <= warmed + slack

WarmupInv == PlaceInv /\ Covered /\ WarmupOverrunExplained

LEMMA WarmupTypes ==
    ASSUME TypeInv
    PROVE  /\ slot \in SUBSET Workers /\ Returning \in SUBSET Workers
           /\ accepted \in Nat /\ slack \in Nat /\ warmed \in Int /\ WarmupCap \in Nat
           /\ Cardinality(slot) \in Nat /\ Cardinality(Returning) \in Nat
<1>1. slot \in SUBSET Workers /\ Returning \in SUBSET Workers
  BY DEF TypeInv, TypeOK, WorkerOK, Returning
<1>2. accepted \in Nat /\ slack \in Nat /\ warmed \in Int /\ WarmupCap \in Nat
  BY ConstantsAssumption DEF TypeInv, TypeOK, HistoryOK, RedisOK
<1> QED BY <1>1, <1>2, FiniteSlots

LEMMA WarmupKept ==
    ASSUME WarmupInv, UNCHANGED <<warmed, slot, accepted, slack>>,
           \A w \in Workers : pc'[w] = "giveback" <=> pc[w] = "giveback",
           PlaceInv'
    PROVE  WarmupInv'
<1>1. Returning' = Returning
  BY DEF Returning
<1> QED BY <1>1 DEF WarmupInv, Covered, WarmupOverrunExplained

\* A slot loses its place, and the counter keeps it.
LEMMA WarmupLost ==
    ASSUME TypeInv, WarmupInv, NEW w \in Workers,
           slot' = slot \ {w}, UNCHANGED <<warmed, accepted, slack>>,
           Returning' = Returning \ {w}, PlaceInv'
    PROVE  WarmupInv'
<1>1. /\ Cardinality(slot') \in Nat /\ Cardinality(slot') <= Cardinality(slot)
      /\ Cardinality(Returning') \in Nat /\ Cardinality(Returning') <= Cardinality(Returning)
  BY WarmupTypes, FiniteSlots, CountSlots
<1>2. Covered' /\ WarmupOverrunExplained'
  BY <1>1, WarmupTypes DEF WarmupInv, Covered, WarmupOverrunExplained
<1> QED BY <1>2 DEF WarmupInv

LEMMA WarmupConsume == ASSUME TypeInv, WarmupInv, NEW w \in Workers, ConsumeSlot(w) PROVE WarmupInv'
<1>1. /\ pc' \in [Workers -> Labels]
      /\ pc[w] = "slot" /\ w \notin slot /\ w \notin Returning
      /\ accepted' = accepted /\ slack' = slack /\ warmed' = warmed + 1
      /\ \A v \in Workers \ {w} : pc'[v] = pc[v]
  BY SendTypeInv DEF ConsumeSlot, Send, WarmupInv, PlaceInv, Holding, Returning, Goto, TypeInv, TypeOK,
     WorkerOK, history
<1>2. CASE OverCap(warmed + 1)
  <2>1. slot' = slot /\ pc'[w] = "giveback" /\ Returning' = Returning \cup {w}
    BY <1>1, <1>2 DEF ConsumeSlot, Returning, Goto, TypeInv, TypeOK, WorkerOK
  <2>2. Cardinality(Returning') = Cardinality(Returning) + 1
    BY <1>1, <2>1, WarmupTypes, CountSlots
  <2>3. Covered' /\ WarmupOverrunExplained'
    BY <1>1, <2>1, <2>2, WarmupTypes DEF WarmupInv, Covered, WarmupOverrunExplained
  <2>4. PlaceInv'
    BY <1>1, <2>1, WarmupTypes DEF WarmupInv, PlaceInv, Holding
  <2> QED BY <2>3, <2>4 DEF WarmupInv
<1>3. CASE ~OverCap(warmed + 1)
  <2>1. slot' = slot \cup {w} /\ pc'[w] = "pace" /\ Returning' = Returning
    BY <1>1, <1>3 DEF ConsumeSlot, Returning, Goto, TypeInv, TypeOK, WorkerOK
  <2>2. Cardinality(slot') = Cardinality(slot) + 1
    BY <1>1, <2>1, WarmupTypes, CountSlots
  <2>3. warmed + 1 <= WarmupCap
    BY <1>3, WarmupTypes DEF OverCap
  <2>4. Covered' /\ WarmupOverrunExplained'
    BY <1>1, <2>1, <2>2, <2>3, WarmupTypes DEF WarmupInv, Covered, WarmupOverrunExplained
  <2>5. PlaceInv'
    BY <1>1, <2>1, WarmupTypes DEF WarmupInv, PlaceInv, Holding
  <2> QED BY <2>4, <2>5 DEF WarmupInv
<1> QED BY <1>2, <1>3

LEMMA WarmupSend == ASSUME TypeInv, WarmupInv, NEW w \in Workers, Send(w) PROVE WarmupInv'
<1> USE DEF TypeInv, TypeOK, WorkerOK, Goto
<1>1. CASE Check(w) \/ ReadQuota(w) \/ PauseTenant(w) \/ Decrement(w)
  <2>1. PlaceInv'
    BY <1>1 DEF Check, Preflight, Drops, ReadQuota, PauseTenant, Decrement, WarmupInv, PlaceInv, Holding, redis
  <2> QED BY <1>1, <2>1, WarmupKept
          DEF Check, Preflight, ReadQuota, PauseTenant, Decrement, redis, history
<1>2. CASE ConsumeSlot(w)
  BY <1>2, WarmupConsume
<1>3. CASE GiveSlotBack(w)
  <2>1. /\ Returning' = Returning \ {w} /\ w \in Returning
        /\ slot' = slot /\ accepted' = accepted /\ slack' = slack /\ warmed' = warmed - 1
    BY <1>3 DEF GiveSlotBack, Returning, history
  <2>2. Cardinality(Returning') = Cardinality(Returning) - 1
    BY <2>1, WarmupTypes, CountSlots
  <2>3. Covered' /\ WarmupOverrunExplained'
    BY <2>1, <2>2, WarmupTypes DEF WarmupInv, Covered, WarmupOverrunExplained
  <2>4. PlaceInv'
    BY <1>3 DEF GiveSlotBack, WarmupInv, PlaceInv, Holding
  <2> QED BY <2>3, <2>4 DEF WarmupInv
<1>4. CASE RepayRefused(w) \/ ReadPace(w) \/ Stamp(w) \/ Mark(w)
  <2>1. PlaceInv'
    BY <1>4 DEF RepayRefused, ReadPace, Stamp, Mark, WarmupInv, PlaceInv, Holding
  <2> QED BY <1>4, <2>1, WarmupKept DEF RepayRefused, ReadPace, Stamp, Mark, redis, history
<1>5. ASSUME NEW a \in {"accepted", "rejected", "threw"}, NEW reached \in BOOLEAN,
             Route(w, a, reached)
      PROVE  WarmupInv'
  <2>1. PlaceInv'
    BY <1>5 DEF Route, AfterAnswer, WarmupInv, PlaceInv, Holding
  <2> QED BY <1>5, <2>1, WarmupKept DEF Route, AfterAnswer, redis
<1>6. CASE RecordSent(w)
  <2>1. /\ slot' = slot \ {w} /\ Returning' = Returning
        /\ slack' = slack /\ warmed' = warmed
        /\ accepted' = IF w \in slot THEN accepted + 1 ELSE accepted
    BY <1>6 DEF RecordSent, Returning, redis
  <2>2. PlaceInv'
    BY <1>6 DEF RecordSent, WarmupInv, PlaceInv, Holding
  <2>3. CASE w \in slot
    <3>1. Cardinality(slot') = Cardinality(slot) - 1 /\ accepted' = accepted + 1
      BY <2>1, <2>3, WarmupTypes, CountSlots
    <3>2. Covered' /\ WarmupOverrunExplained'
      BY <2>1, <3>1, WarmupTypes DEF WarmupInv, Covered, WarmupOverrunExplained
    <3> QED BY <2>2, <3>2 DEF WarmupInv
  <2>4. CASE w \notin slot
    <3>1. slot' = slot /\ accepted' = accepted
      BY <2>1, <2>4
    <3> QED BY <2>1, <2>2, <3>1 DEF WarmupInv, Covered, WarmupOverrunExplained
  <2> QED BY <2>3, <2>4
<1>7. CASE CountUsage(w) \/ Complete(w) \/ Throw(w)
  <2>1. PlaceInv'
    BY <1>7 DEF CountUsage, Complete, Throw, Release, WarmupInv, PlaceInv, Holding
  <2> QED BY <1>7, <2>1, WarmupKept DEF CountUsage, Complete, Throw, Release, redis, history
<1>8. CASE Refund(w)
  <2>1. PlaceInv'
    BY <1>8 DEF Refund, AfterRefund, WarmupInv, PlaceInv, Holding
  <2> QED BY <1>8, <2>1, WarmupKept DEF Refund, AfterRefund, history
<1>9. CASE ReadWarmed(w)
  <2>1. PlaceInv'
    BY <1>9 DEF ReadWarmed, AfterRefund, WarmupInv, PlaceInv, Holding
  <2>2. CASE warmed > 0
    BY <1>9, <2>1, <2>2, WarmupKept DEF ReadWarmed, redis, history
  <2>3. CASE ~(warmed > 0)
    <3>1. Returning' = Returning \ {w} /\ slot' = slot \ {w}
      BY <1>9, <2>3 DEF ReadWarmed, AfterRefund, Returning
    <3> QED BY <1>9, <2>1, <3>1, WarmupLost DEF ReadWarmed, redis, history
  <2> QED BY <2>2, <2>3
<1>10. CASE ReleaseSlot(w)
  <2>1. /\ slot' = slot \ {w} /\ w \in slot /\ Returning' = Returning
        /\ slack' = slack /\ accepted' = accepted /\ warmed' = warmed - 1
    BY <1>10 DEF ReleaseSlot, AfterRefund, Returning, WarmupInv, PlaceInv, history
  <2>2. Cardinality(slot') = Cardinality(slot) - 1
    BY <2>1, WarmupTypes, CountSlots
  <2>3. Covered' /\ WarmupOverrunExplained'
    BY <2>1, <2>2, WarmupTypes DEF WarmupInv, Covered, WarmupOverrunExplained
  <2>4. PlaceInv'
    BY <1>10 DEF ReleaseSlot, AfterRefund, WarmupInv, PlaceInv, Holding
  <2> QED BY <2>3, <2>4 DEF WarmupInv
<1>11. CASE RecordFailed(w) \/ ResolveDropped(w)
  <2>1. PlaceInv'
    BY <1>11 DEF RecordFailed, ResolveDropped, Drops, WarmupInv, PlaceInv, Holding
  <2> QED BY <1>11, <2>1, WarmupKept DEF RecordFailed, ResolveDropped, Drops, redis, history
<1> QED BY <1>1, <1>2, <1>3, <1>4, <1>5, <1>6, <1>7, <1>8, <1>9, <1>10, <1>11 DEF Send

LEMMA WarmupEnvironment == ASSUME TypeInv, WarmupInv, Environment PROVE WarmupInv'
<1> USE DEF TypeInv, TypeOK, WorkerOK, worker, redis, history
<1>1. ASSUME UNCHANGED <<pc, slot, warmed, accepted, slack>> PROVE WarmupInv'
  BY <1>1, WarmupKept DEF WarmupInv, PlaceInv
<1>2. ASSUME NEW m \in Messages, NEW s,
             CreateRow(m) \/ Enqueue(m) \/ CooldownEnds(m) \/ GraceEnds(m) \/ Ack(m, s) \/ Finalize(m)
      PROVE  WarmupInv'
  BY <1>1, <1>2 DEF CreateRow, Enqueue, CooldownEnds, GraceEnds, Ack, Finalize
<1>3. ASSUME NEW c \in Customers, OptOut(c) \/ ChangeConsent(c) \/ Rest(c) PROVE WarmupInv'
  BY <1>1, <1>3 DEF OptOut, ChangeConsent, Rest
<1>4. CASE ResumeTenant \/ Reap
  BY <1>1, <1>4 DEF ResumeTenant, Reap
<1>5. CASE GapEnds
  <2>1. PlaceInv'
    BY <1>5 DEF GapEnds, WarmupInv, PlaceInv, Holding
  <2> QED BY <1>5, <2>1, WarmupKept DEF GapEnds
<1>6. CASE NewDay
  <2>1. \A v \in Workers : AfterRefund(v) \notin {"giveback", "release", "unslot"}
    BY DEF AfterRefund
  <2>2. PlaceInv'
    BY <1>6, <2>1 DEF NewDay, WarmupInv, PlaceInv, Holding
  <2>3. Returning' = {}
    BY <1>6, <2>1 DEF NewDay, Returning
  <2>4. Cardinality(slot') \in Nat /\ Cardinality(Returning') = 0
    BY <1>6, <2>3, FiniteSlots, FS_EmptySet DEF NewDay
  <2>5. warmed' = 0 /\ accepted' = 0 /\ slack' = Cardinality(slot')
    BY <1>6 DEF NewDay
  <2>6. Covered' /\ WarmupOverrunExplained'
    BY <2>4, <2>5, WarmupTypes DEF Covered, WarmupOverrunExplained
  <2> QED BY <2>2, <2>6 DEF WarmupInv
<1> QED BY <1>2, <1>3, <1>4, <1>5, <1>6 DEF Environment

\* The warm-up helpers swallow a Redis error: the place is not counted, or
\* not given back.
LEMMA WarmupFailOpen == ASSUME TypeInv, WarmupInv, NEW w \in Workers, FailOpen(w) PROVE WarmupInv'
<1> USE DEF TypeInv, TypeOK, WorkerOK, Goto
<1>1. CASE pc[w] = "gate"
  <2>1. PlaceInv'
    BY <1>1 DEF FailOpen, WarmupInv, PlaceInv, Holding
  <2> QED BY <1>1, <2>1, WarmupKept DEF FailOpen, redis
<1>2. CASE pc[w] \in {"slot", "giveback"}
  <2>1. /\ slot' = slot \cup {w} /\ w \notin slot /\ Returning' = Returning \ {w}
        /\ slack' = slack + 1 /\ accepted' = accepted /\ warmed' = warmed
    BY <1>2 DEF FailOpen, Returning, WarmupInv, PlaceInv, Holding, redis
  <2>2. /\ Cardinality(slot') = Cardinality(slot) + 1
        /\ Cardinality(Returning') \in Nat /\ Cardinality(Returning') <= Cardinality(Returning)
    BY <2>1, WarmupTypes, CountSlots, FiniteSlots
  <2>3. Covered' /\ WarmupOverrunExplained'
    BY <2>1, <2>2, WarmupTypes DEF WarmupInv, Covered, WarmupOverrunExplained
  <2>4. PlaceInv'
    BY <1>2 DEF FailOpen, WarmupInv, PlaceInv, Holding
  <2> QED BY <2>3, <2>4 DEF WarmupInv
<1>3. CASE pc[w] \in {"release", "unslot"}
  <2>1. PlaceInv'
    BY <1>3 DEF FailOpen, AfterRefund, WarmupInv, PlaceInv, Holding
  <2>2. Returning' = Returning \ {w} /\ slot' = slot \ {w}
    BY <1>3 DEF FailOpen, AfterRefund, Returning
  <2> QED BY <1>3, <2>1, <2>2, WarmupLost DEF FailOpen, redis
<1> QED BY <1>1, <1>2, <1>3 DEF FailOpen

\* The promotional sends of a day exceed the cap by no more than the places
\* held across midnight or let through by a failing Redis.
THEOREM WarmupCapKept == Spec => []WarmupOverrunExplained
<1>1. Init => WarmupInv
  <2> SUFFICES ASSUME Init PROVE WarmupInv
    OBVIOUS
  <2>1. slot = {} /\ Returning = {} /\ PlaceInv
    BY DEF Init, Returning, PlaceInv
  <2>2. Cardinality(slot) = 0 /\ Cardinality(Returning) = 0
    BY <2>1, FS_EmptySet
  <2> QED BY <2>1, <2>2, ConstantsAssumption DEF Init, WarmupInv, Covered, WarmupOverrunExplained
<1>2. TypeInv /\ WarmupInv /\ [Next]_vars => WarmupInv'
  <2> SUFFICES ASSUME TypeInv, WarmupInv, [Next]_vars PROVE WarmupInv'
    OBVIOUS
  <2> USE DEF TypeInv, TypeOK, WorkerOK, Goto
  <2>1. ASSUME NEW w \in Workers, NEW m \in Messages, Take(w, m) PROVE WarmupInv'
    <3>1. PlaceInv'
      BY <2>1 DEF Take, WarmupInv, PlaceInv, Holding
    <3> QED BY <2>1, <3>1, WarmupKept DEF Take, redis, history
  <2>2. ASSUME NEW w \in Workers, CallFails(w) \/ Crash(w) PROVE WarmupInv'
    <3>1. PlaceInv'
      BY <2>2 DEF CallFails, Crash, Release, Forfeit, WarmupInv, PlaceInv
    <3>2. Returning' = Returning \ {w} /\ slot' = slot \ {w}
      BY <2>2 DEF CallFails, Crash, Release, Forfeit, Returning
    <3> QED BY <2>2, <3>1, <3>2, WarmupLost DEF CallFails, Crash, redis
  <2>3. CASE UNCHANGED vars
    <3>1. PlaceInv'
      BY <2>3 DEF vars, worker, WarmupInv, PlaceInv
    <3> QED BY <2>3, <3>1, WarmupKept DEF vars, worker, redis, history
  <2> QED BY <2>1, <2>2, <2>3, WarmupSend, WarmupFailOpen, WarmupEnvironment DEF Next, Work
<1>3. Spec => []WarmupInv
  BY InitTypeInv, NextTypeInv, <1>1, <1>2, PTL DEF Spec
<1> QED BY <1>3, PTL DEF WarmupInv

-----------------------------------------------------------------------------
(* Duplicates.  A message that is not completed, and that no slot knows to *)
(* be accepted, has reached the customer only as often as faults explain.  *)

Spare(m) == job[m] # "completed" /\ \A w \in Workers : msg[w] = m => answer[w] # "accepted"

AnswerInv == \A w \in Workers : answer[w] = "accepted" => pc[w] \in {"record", "usage", "complete"}

DuplicateInv ==
    /\ AnswerInv
    /\ DuplicatesOnlyFromFaults
    /\ \A m \in Messages : Spare(m) => deliveries[m] <= faults[m]

LEMMA DuplicateKept ==
    ASSUME DuplicateInv, UNCHANGED <<deliveries, faults>>, AnswerInv',
           \A m \in Messages : Spare(m)' => Spare(m)
    PROVE  DuplicateInv'
BY DEF DuplicateInv, DuplicatesOnlyFromFaults

\* The message of a slot whose call is still open, or has not been accepted,
\* is spare: no other slot has it.
LEMMA SpareInHand ==
    ASSUME TypeInv, AnswerInv, NEW w \in Workers, pc[w] # "idle", answer[w] # "accepted"
    PROVE  msg[w] \in Messages /\ Spare(msg[w])
BY DEF TypeInv, LockInv, Busy, AnswerInv, Spare

LEMMA DuplicateRoute ==
    ASSUME TypeInv, DuplicateInv, NEW w \in Workers,
           NEW a \in {"accepted", "rejected", "threw"}, NEW reached \in BOOLEAN,
           Route(w, a, reached)
    PROVE  DuplicateInv'
<1>1. PICK m \in Messages : msg[w] = m /\ Spare(m) /\ deliveries[m] <= faults[m]
  BY SpareInHand DEF Route, DuplicateInv, AnswerInv
<1>2. /\ deliveries \in [Messages -> Nat] /\ faults \in [Messages -> Nat]
      /\ pc \in [Workers -> Labels] /\ answer \in [Workers -> {"none", "accepted", "rejected", "threw"}]
  BY DEF TypeInv, TypeOK, HistoryOK, WorkerOK
<1>3. AnswerInv'
  BY <1>2 DEF Route, AfterAnswer, Goto, DuplicateInv, AnswerInv
<1>4. \A n \in Messages \ {m} : /\ deliveries'[n] = deliveries[n] /\ faults'[n] = faults[n]
                                /\ Spare(n)' => Spare(n)
  BY <1>1, <1>2 DEF Route, Reaches, Spare, jobs
<1>5. /\ deliveries'[m] <= 1 + faults'[m]
      /\ Spare(m)' => deliveries'[m] <= faults'[m]
  <2>1. CASE a = "accepted"
    <3>1. reached /\ deliveries'[m] = deliveries[m] + 1 /\ faults' = faults /\ ~Spare(m)'
      BY <1>1, <1>2, <2>1 DEF Route, Reaches, Spare
    <3> QED BY <1>1, <1>2, <3>1
  <2>2. CASE a = "rejected" /\ reached
    <3>1. deliveries'[m] = deliveries[m] + 1 /\ faults'[m] = faults[m] + 1
      BY <1>1, <1>2, <2>2 DEF Route, Reaches
    <3> QED BY <1>1, <1>2, <3>1
  <2>3. CASE a # "accepted" /\ ~(a = "rejected" /\ reached)
    <3>1. deliveries' = deliveries /\ faults' = faults
      BY <2>3 DEF Route
    <3> QED BY <1>1, <1>2, <3>1
  <2> QED BY <2>1, <2>2, <2>3
<1>6. \A n \in Messages : /\ deliveries'[n] <= 1 + faults'[n]
                          /\ Spare(n)' => deliveries'[n] <= faults'[n]
  <2> SUFFICES ASSUME NEW n \in Messages
               PROVE  /\ deliveries'[n] <= 1 + faults'[n]
                      /\ Spare(n)' => deliveries'[n] <= faults'[n]
    OBVIOUS
  <2>1. CASE n = m
    BY <1>5, <2>1
  <2>2. CASE n # m
    BY <1>4, <2>2 DEF DuplicateInv, DuplicatesOnlyFromFaults
  <2> QED BY <2>1, <2>2
<1> QED BY <1>3, <1>6 DEF DuplicateInv, DuplicatesOnlyFromFaults

\* A slot is cut short: if the gateway had accepted, that is a fault.
LEMMA DuplicateCut ==
    ASSUME TypeInv, DuplicateInv, NEW w \in Workers, pc[w] # "idle",
           UNCHANGED deliveries, faults' = Repeats(w), AnswerInv',
           \A m \in Messages \ {msg[w]} : Spare(m)' => Spare(m)
    PROVE  DuplicateInv'
<1>1. msg[w] \in Messages
  BY DEF TypeInv, LockInv, Busy
<1>2. deliveries \in [Messages -> Nat] /\ faults \in [Messages -> Nat]
  BY DEF TypeInv, TypeOK, HistoryOK
<1>3. CASE answer[w] = "accepted"
  <2>1. faults'[msg[w]] = faults[msg[w]] + 1
    BY <1>1, <1>2, <1>3 DEF Repeats
  <2>2. \A m \in Messages \ {msg[w]} : faults'[m] = faults[m]
    BY <1>2, <1>3 DEF Repeats
  <2>3. deliveries[msg[w]] <= 1 + faults[msg[w]]
    BY <1>1 DEF DuplicateInv, DuplicatesOnlyFromFaults
  <2>4. deliveries'[msg[w]] <= faults'[msg[w]] /\ deliveries'[msg[w]] <= 1 + faults'[msg[w]]
    BY <1>1, <1>2, <2>1, <2>3
  <2>5. \A m \in Messages : /\ deliveries'[m] <= 1 + faults'[m]
                            /\ Spare(m)' => deliveries'[m] <= faults'[m]
    BY <2>2, <2>4 DEF DuplicateInv, DuplicatesOnlyFromFaults
  <2> QED BY <2>5 DEF DuplicateInv, DuplicatesOnlyFromFaults
<1>4. CASE answer[w] # "accepted"
  <2>1. Spare(msg[w])
    BY <1>4, SpareInHand DEF DuplicateInv
  <2>2. \A m \in Messages : Spare(m)' => Spare(m)
    BY <2>1
  <2> QED BY <1>4, <2>2, DuplicateKept DEF Repeats
<1> QED BY <1>3, <1>4

LEMMA DuplicateSend == ASSUME TypeInv, DuplicateInv, NEW w \in Workers, Send(w) PROVE DuplicateInv'
<1> USE DEF TypeInv, TypeOK, WorkerOK, Goto
<1>1. ASSUME UNCHANGED <<jobs, msg, answer, deliveries, faults>>, NEW l, Goto(w, l),
             pc[w] \in {"record", "usage"} => l \in {"usage", "complete"},
             pc[w] # "complete"
      PROVE  DuplicateInv'
  <2>1. AnswerInv'
    BY <1>1 DEF DuplicateInv, AnswerInv
  <2>2. \A m \in Messages : Spare(m)' => Spare(m)
    BY <1>1 DEF Spare, jobs
  <2> QED BY <1>1, <2>1, <2>2, DuplicateKept
<1>2. CASE Check(w)
  BY <1>1, <1>2 DEF Check, history
<1>3. CASE ReadQuota(w) \/ PauseTenant(w) \/ Decrement(w) \/ ConsumeSlot(w) \/ GiveSlotBack(w)
  BY <1>1, <1>3 DEF ReadQuota, PauseTenant, Decrement, ConsumeSlot, GiveSlotBack, history
<1>4. CASE RepayRefused(w) \/ ReadPace(w) \/ Stamp(w) \/ Mark(w)
  BY <1>1, <1>4 DEF RepayRefused, ReadPace, Stamp, Mark, history
<1>5. CASE RecordSent(w) \/ CountUsage(w)
  BY <1>1, <1>5 DEF RecordSent, CountUsage, history
<1>6. CASE Refund(w) \/ ReadWarmed(w) \/ ReleaseSlot(w)
  BY <1>1, <1>6 DEF Refund, ReadWarmed, ReleaseSlot, history
<1>7. CASE RecordFailed(w) \/ ResolveDropped(w)
  BY <1>1, <1>7 DEF RecordFailed, ResolveDropped, Drops, history
<1>8. CASE Complete(w) \/ Throw(w)
  <2>1. PICK m \in Messages : msg[w] = m /\ job[m] = "active"
    BY <1>8 DEF Complete, Throw, LockInv, Busy
  <2>2. AnswerInv'
    BY <1>8 DEF Complete, Throw, Release, DuplicateInv, AnswerInv
  <2>3. \A n \in Messages \ {m} : Spare(n)' => Spare(n)
    BY <1>8, <2>1 DEF Complete, Throw, Release, Spare, JobsOK
  <2>4. Spare(m)' => Spare(m)
    <3>1. CASE Complete(w)
      BY <2>1, <3>1 DEF Complete, Spare, JobsOK
    <3>2. CASE Throw(w)
      BY <2>1, <3>2, SpareInHand DEF Throw, DuplicateInv, AnswerInv
    <3> QED BY <1>8, <3>1, <3>2
  <2> QED BY <1>8, <2>2, <2>3, <2>4, DuplicateKept DEF Complete, Throw, history
<1> QED BY <1>2, <1>3, <1>4, <1>5, <1>6, <1>7, <1>8, DuplicateRoute DEF Send

LEMMA DuplicateEnvironment == ASSUME TypeInv, DuplicateInv, Environment PROVE DuplicateInv'
<1> USE DEF TypeInv, TypeOK, WorkerOK, worker, history
<1>1. ASSUME UNCHANGED <<job, msg, answer, deliveries, faults>>,
             \A w \in Workers : pc[w] \in {"record", "usage", "complete"} => pc'[w] = pc[w]
      PROVE  DuplicateInv'
  <2>1. AnswerInv'
    BY <1>1 DEF DuplicateInv, AnswerInv
  <2>2. \A m \in Messages : Spare(m)' => Spare(m)
    BY <1>1 DEF Spare
  <2> QED BY <1>1, <2>1, <2>2, DuplicateKept
<1>2. ASSUME NEW m \in Messages, NEW s,
             CreateRow(m) \/ CooldownEnds(m) \/ GraceEnds(m) \/ Ack(m, s) \/ Finalize(m)
      PROVE  DuplicateInv'
  BY <1>1, <1>2 DEF CreateRow, CooldownEnds, GraceEnds, Ack, Finalize, jobs
<1>3. ASSUME NEW m \in Messages, Enqueue(m) PROVE DuplicateInv'
  <2>1. AnswerInv'
    BY <1>3 DEF Enqueue, DuplicateInv, AnswerInv
  <2>2. \A n \in Messages : Spare(n)' => Spare(n)
    BY <1>3 DEF Enqueue, Spare, JobsOK
  <2> QED BY <1>3, <2>1, <2>2, DuplicateKept DEF Enqueue
<1>4. ASSUME NEW c \in Customers, OptOut(c) \/ ChangeConsent(c) \/ Rest(c) PROVE DuplicateInv'
  BY <1>1, <1>4 DEF OptOut, ChangeConsent, Rest, jobs
<1>5. CASE ResumeTenant \/ Reap
  BY <1>1, <1>5 DEF ResumeTenant, Reap, jobs
<1>6. CASE GapEnds
  BY <1>1, <1>6 DEF GapEnds, jobs
<1>7. CASE NewDay
  BY <1>1, <1>7 DEF NewDay, jobs
<1> QED BY <1>2, <1>3, <1>4, <1>5, <1>6, <1>7 DEF Environment

\* For every number of attempts and slots: no retry, redelivery or reaping
\* sends a message again unless a fault kept a delivery from being recorded.
THEOREM NoUnexplainedDuplicate == Spec => []DuplicatesOnlyFromFaults
<1>1. Init => DuplicateInv
  BY DEF Init, DuplicateInv, AnswerInv, DuplicatesOnlyFromFaults
<1>2. TypeInv /\ DuplicateInv /\ [Next]_vars => DuplicateInv'
  <2> SUFFICES ASSUME TypeInv, DuplicateInv, [Next]_vars PROVE DuplicateInv'
    OBVIOUS
  <2> USE DEF TypeInv, TypeOK, WorkerOK, Goto
  <2>1. ASSUME NEW w \in Workers, NEW m \in Messages, Take(w, m) PROVE DuplicateInv'
    <3>1. AnswerInv' /\ answer[w] # "accepted"
      BY <2>1 DEF Take, DuplicateInv, AnswerInv
    <3>2. \A n \in Messages : Spare(n)' => Spare(n)
      <4> SUFFICES ASSUME NEW n \in Messages, Spare(n)' PROVE Spare(n)
        OBVIOUS
      <4>1. job[n] # "completed"
        BY <2>1 DEF Take, Takable, Spare, JobsOK
      <4>2. \A v \in Workers \ {w} : msg[v] = n => answer[v] # "accepted"
        BY <2>1 DEF Take, Spare
      <4> QED BY <3>1, <4>1, <4>2 DEF Spare
    <3> QED BY <2>1, <3>1, <3>2, DuplicateKept DEF Take, history
  <2>2. ASSUME NEW w \in Workers, CallFails(w) \/ Crash(w) PROVE DuplicateInv'
    <3>1. pc[w] # "idle"
      BY <2>2 DEF CallFails, Crash, Fragile, Drops
    <3>2. AnswerInv'
      BY <2>2 DEF CallFails, Crash, Release, DuplicateInv, AnswerInv
    <3>3. \A n \in Messages \ {msg[w]} : Spare(n)' => Spare(n)
      BY <2>2 DEF CallFails, Crash, Release, Spare, JobsOK, jobs
    <3> QED BY <2>2, <3>1, <3>2, <3>3, DuplicateCut DEF CallFails, Crash
  <2>3. ASSUME NEW w \in Workers, FailOpen(w) PROVE DuplicateInv'
    <3>1. AnswerInv'
      BY <2>3 DEF FailOpen, DuplicateInv, AnswerInv
    <3>2. \A n \in Messages : Spare(n)' => Spare(n)
      BY <2>3 DEF FailOpen, Spare, jobs
    <3> QED BY <2>3, <3>1, <3>2, DuplicateKept DEF FailOpen
  <2>4. CASE UNCHANGED vars
    <3>1. AnswerInv' /\ \A n \in Messages : Spare(n)' => Spare(n)
      BY <2>4 DEF vars, worker, jobs, DuplicateInv, AnswerInv, Spare
    <3> QED BY <2>4, <3>1, DuplicateKept DEF vars, history
  <2> QED BY <2>1, <2>2, <2>3, <2>4, DuplicateSend, DuplicateEnvironment DEF Next, Work
<1>3. Spec => []DuplicateInv
  BY InitTypeInv, NextTypeInv, <1>1, <1>2, PTL DEF Spec
<1> QED BY <1>3, PTL DEF DuplicateInv

-----------------------------------------------------------------------------
(* Completed jobs.  A slot about to complete its job has just written how  *)
(* the message ended, and nobody but the holder of the job writes PENDING. *)

Settled(m) == row[m] \notin Unresolved \cup {"none"}

CompletedInv ==
    /\ \A m \in Messages : job[m] = "completed" => Settled(m)
    /\ \A m \in Messages : row[m] = "none" => job[m] = "none"
    /\ \A w \in Workers : pc[w] \in {"usage", "complete"} => Settled(msg[w])

\* Nothing settled is opened again, and no job completes.
LEMMA CompletedKept ==
    ASSUME TypeInv, CompletedInv,
           \A m \in Messages : /\ Settled(m) => Settled(m)'
                               /\ row'[m] = "none" => row[m] = "none"
                               /\ job'[m] = "completed" => job[m] = "completed"
                               /\ row[m] = "none" => job'[m] = job[m],
           \A w \in Workers : pc'[w] \in {"usage", "complete"} =>
               pc[w] \in {"usage", "complete"} /\ msg'[w] = msg[w]
    PROVE  CompletedInv'
<1>1. \A m \in Messages : job'[m] = "completed" => Settled(m)'
  BY DEF CompletedInv
<1>2. \A m \in Messages : row'[m] = "none" => job'[m] = "none"
  BY DEF CompletedInv
<1>3. ASSUME NEW w \in Workers, pc'[w] \in {"usage", "complete"} PROVE Settled(msg[w])'
  <2>1. PICK m \in Messages : msg[w] = m /\ msg'[w] = m
    BY <1>3 DEF TypeInv, LockInv, Busy
  <2>2. Settled(m)'
    BY <1>3, <2>1 DEF CompletedInv
  <2> QED BY <2>1, <2>2 DEF Settled
<1> QED BY <1>1, <1>2, <1>3 DEF CompletedInv

\* A slot writes the outcome s of its message and goes on to l.
LEMMA CompletedWrite ==
    ASSUME TypeInv, CompletedInv, NEW w \in Workers, pc[w] # "idle",
           NEW s, NEW l, s \in Status \ {"none"}, SetRow(w, s), Goto(w, l),
           l \in {"usage", "complete"} => s \notin Unresolved,
           UNCHANGED <<job, msg>>
    PROVE  CompletedInv'
<1>1. PICK m \in Messages : msg[w] = m /\ job[m] = "active"
  BY DEF TypeInv, LockInv, Busy
<1>2. row'[m] = s /\ \A n \in Messages \ {m} : row'[n] = row[n]
  BY <1>1 DEF SetRow, TypeInv, TypeOK, RowsOK
<1>3. \A n \in Messages : job'[n] = "completed" => Settled(n)'
  BY <1>1, <1>2 DEF CompletedInv, Settled
<1>4. \A n \in Messages : row'[n] = "none" => job'[n] = "none"
  BY <1>1, <1>2 DEF CompletedInv
<1>5. ASSUME NEW v \in Workers, pc'[v] \in {"usage", "complete"} PROVE Settled(msg[v])'
  <2>1. CASE v = w
    <3>1. pc'[w] = l
      BY DEF Goto, TypeInv, TypeOK, WorkerOK
    <3> QED BY <1>1, <1>2, <1>5, <2>1, <3>1 DEF Settled
  <2>2. CASE v # w
    <3>1. pc'[v] = pc[v] /\ pc[v] # "idle"
      BY <1>5, <2>2 DEF Goto, TypeInv, TypeOK, WorkerOK
    <3>2. PICK n \in Messages : msg[v] = n /\ n # m
      BY <1>1, <2>2, <3>1 DEF TypeInv, LockInv, Busy
    <3>3. Settled(n)'
      BY <1>2, <1>5, <3>1, <3>2 DEF CompletedInv, Settled
    <3> QED BY <3>2, <3>3 DEF Settled
  <2> QED BY <2>1, <2>2
<1> QED BY <1>3, <1>4, <1>5 DEF CompletedInv

LEMMA CompletedSend == ASSUME TypeInv, CompletedInv, NEW w \in Workers, Send(w) PROVE CompletedInv'
<1> USE DEF TypeInv, TypeOK, WorkerOK
<1>1. ASSUME UNCHANGED <<row, job, msg>>, NEW l, Goto(w, l),
             l \notin {"usage", "complete"} \/ pc[w] \in {"usage", "complete"}
      PROVE  CompletedInv'
  BY <1>1, CompletedKept DEF Goto, Settled
<1>2. CASE Check(w)
  BY <1>1, <1>2 DEF Check, Preflight, rows, jobs
<1>3. CASE ReadQuota(w) \/ PauseTenant(w) \/ Decrement(w) \/ ConsumeSlot(w) \/ GiveSlotBack(w)
  BY <1>1, <1>3 DEF ReadQuota, PauseTenant, Decrement, ConsumeSlot, GiveSlotBack, rows, jobs
<1>4. CASE RepayRefused(w) \/ ReadPace(w) \/ Stamp(w)
  BY <1>1, <1>4 DEF RepayRefused, ReadPace, Stamp, rows, jobs
<1>5. CASE Mark(w)
  BY <1>5, CompletedWrite DEF Mark, Status, Unresolved, jobs
<1>6. ASSUME NEW a \in {"accepted", "rejected", "threw"}, NEW reached \in BOOLEAN,
             Route(w, a, reached)
      PROVE  CompletedInv'
  BY <1>1, <1>6 DEF Route, AfterAnswer, rows, jobs
<1>7. CASE RecordSent(w)
  BY <1>7, CompletedWrite DEF RecordSent, Status, Unresolved, Delivered, jobs
<1>8. CASE CountUsage(w)
  BY <1>1, <1>8 DEF CountUsage, rows, jobs
<1>9. CASE Refund(w) \/ ReadWarmed(w) \/ ReleaseSlot(w)
  BY <1>1, <1>9 DEF Refund, ReadWarmed, ReleaseSlot, AfterRefund, rows, jobs
<1>10. CASE RecordFailed(w)
  BY <1>10, CompletedWrite DEF RecordFailed, Status, Drops, jobs
<1>11. CASE ResolveDropped(w)
  BY <1>11, CompletedWrite DEF ResolveDropped, Status, Unresolved, Drops, jobs
<1>12. CASE Complete(w)
  <2>1. PICK m \in Messages : msg[w] = m /\ job[m] = "active" /\ Settled(m)
    BY <1>12 DEF Complete, LockInv, Busy, CompletedInv
  <2>2. \A n \in Messages : Settled(n)' <=> Settled(n)
    BY <1>12 DEF Complete, rows, Settled
  <2>3. \A n \in Messages : job'[n] = IF n = m THEN "completed" ELSE job[n]
    BY <1>12, <2>1 DEF Complete, JobsOK
  <2>4. \A v \in Workers : pc'[v] \in {"usage", "complete"} => pc'[v] = pc[v] /\ msg'[v] = msg[v]
    BY <1>12 DEF Complete, Release, Goto
  <2>5. \A v \in Workers : pc'[v] \in {"usage", "complete"} => Settled(msg[v])'
    BY <1>12, <2>4 DEF Complete, rows, CompletedInv, Settled
  <2>6. \A n \in Messages : row'[n] = "none" => job'[n] = "none"
    BY <1>12, <2>1, <2>3 DEF Complete, rows, CompletedInv, Settled
  <2>7. \A n \in Messages : job'[n] = "completed" => Settled(n)'
    BY <2>1, <2>2, <2>3 DEF CompletedInv
  <2> QED BY <2>5, <2>6, <2>7 DEF CompletedInv
<1>13. CASE Throw(w)
  <2>1. PICK m \in Messages : msg[w] = m /\ job[m] = "active"
    BY <1>13 DEF Throw, LockInv, Busy
  <2>2. \A n \in Messages : /\ job'[n] = "completed" => job[n] = "completed"
                            /\ row[n] = "none" => job'[n] = job[n]
    BY <1>13, <2>1 DEF Throw, JobsOK, CompletedInv
  <2> QED BY <1>13, <2>2, CompletedKept DEF Throw, Release, Goto, rows, Settled
<1> QED BY <1>2, <1>3, <1>4, <1>5, <1>6, <1>7, <1>8, <1>9, <1>10, <1>11, <1>12, <1>13 DEF Send

LEMMA CompletedEnvironment == ASSUME TypeInv, CompletedInv, Environment PROVE CompletedInv'
<1> USE DEF TypeInv, TypeOK, WorkerOK, worker, jobs
<1>1. ASSUME NEW m \in Messages, CreateRow(m) PROVE CompletedInv'
  <2>1. \A n \in Messages : /\ Settled(n) => Settled(n)'
                            /\ row'[n] = "none" => row[n] = "none"
    BY <1>1 DEF CreateRow, Settled, RowsOK
  <2> QED BY <1>1, <2>1, CompletedKept DEF CreateRow
<1>2. ASSUME NEW m \in Messages, Enqueue(m) PROVE CompletedInv'
  BY <1>2, CompletedKept DEF Enqueue, JobsOK, rows, Settled
<1>3. ASSUME NEW m \in Messages, NEW s \in AckKinds, Ack(m, s) PROVE CompletedInv'
  <2>1. s \notin Unresolved \cup {"none"}
    BY ConstantsAssumption DEF Unresolved
  <2>2. \A n \in Messages : /\ Settled(n) => Settled(n)'
                            /\ row'[n] = "none" => row[n] = "none"
    BY <1>3, <2>1 DEF Ack, Settled, RowsOK
  <2> QED BY <1>3, <2>2, CompletedKept DEF Ack
<1>4. ASSUME NEW m \in Messages, Finalize(m) PROVE CompletedInv'
  <2>1. \A n \in Messages : /\ Settled(n) => Settled(n)'
                            /\ row'[n] = "none" => row[n] = "none"
    BY <1>4 DEF Finalize, Settled, RowsOK, Unresolved
  <2> QED BY <1>4, <2>1, CompletedKept DEF Finalize
<1>5. CASE Reap
  <2>1. \A n \in Messages : /\ Settled(n) => Settled(n)'
                            /\ row'[n] = "none" => row[n] = "none"
    BY <1>5 DEF Reap, Settled, RowsOK, Unresolved
  <2> QED BY <1>5, <2>1, CompletedKept DEF Reap
<1>6. ASSUME NEW m \in Messages, CooldownEnds(m) \/ GraceEnds(m) PROVE CompletedInv'
  BY <1>6, CompletedKept DEF CooldownEnds, GraceEnds, Settled
<1>7. ASSUME NEW c \in Customers, OptOut(c) \/ ChangeConsent(c) \/ Rest(c) PROVE CompletedInv'
  BY <1>7, CompletedKept DEF OptOut, ChangeConsent, Rest, Settled, rows
<1>8. CASE ResumeTenant
  BY <1>8, CompletedKept DEF ResumeTenant, Settled, rows
<1>9. CASE GapEnds
  BY <1>9, CompletedKept DEF GapEnds, Settled, rows
<1>10. CASE NewDay
  <2>1. \A v \in Workers : AfterRefund(v) \notin {"usage", "complete"}
    BY DEF AfterRefund
  <2>2. \A v \in Workers : pc'[v] \in {"usage", "complete"} => pc[v] \in {"usage", "complete"}
    BY <1>10, <2>1 DEF NewDay
  <2> QED BY <1>10, <2>2, CompletedKept DEF NewDay, Settled, rows
<1> QED BY <1>1, <1>2, <1>3, <1>4, <1>5, <1>6, <1>7, <1>8, <1>9, <1>10 DEF Environment

\* A job that BullMQ has forgotten never leaves its row QUEUED or PENDING.
THEOREM CompletedIsResolved == Spec => []CompletedJobResolved
<1>1. Init => CompletedInv
  BY DEF Init, CompletedInv
<1>2. TypeInv /\ CompletedInv /\ [Next]_vars => CompletedInv'
  <2> SUFFICES ASSUME TypeInv, CompletedInv, [Next]_vars PROVE CompletedInv'
    OBVIOUS
  <2> USE DEF TypeInv, TypeOK, WorkerOK, Goto
  <2>1. ASSUME NEW w \in Workers, NEW m \in Messages, Take(w, m) PROVE CompletedInv'
    <3>1. \A n \in Messages : /\ job'[n] = "completed" => job[n] = "completed"
                              /\ row[n] = "none" => job'[n] = job[n]
      BY <2>1 DEF Take, Takable, JobsOK, CompletedInv
    <3> QED BY <2>1, <3>1, CompletedKept DEF Take, rows, Settled
  <2>2. ASSUME NEW w \in Workers, CallFails(w) \/ FailOpen(w) PROVE CompletedInv'
    <3>1. \A v \in Workers : pc'[v] \in {"usage", "complete"} => pc[v] \in {"usage", "complete"}
      BY <2>2 DEF CallFails, FailOpen, AfterRefund
    <3> QED BY <2>2, <3>1, CompletedKept DEF CallFails, FailOpen, rows, jobs, Settled
  <2>3. ASSUME NEW w \in Workers, Crash(w) PROVE CompletedInv'
    <3>1. PICK m \in Messages : msg[w] = m /\ job[m] = "active"
      BY <2>3 DEF Crash, LockInv, Busy
    <3>2. \A n \in Messages : /\ job'[n] = "completed" => job[n] = "completed"
                              /\ row[n] = "none" => job'[n] = job[n]
      BY <2>3, <3>1 DEF Crash, JobsOK, CompletedInv
    <3> QED BY <2>3, <3>2, CompletedKept DEF Crash, Release, rows, Settled
  <2>4. CASE UNCHANGED vars
    BY <2>4, CompletedKept DEF vars, rows, jobs, worker, Settled
  <2> QED BY <2>1, <2>2, <2>3, <2>4, CompletedSend, CompletedEnvironment DEF Next, Work
<1>3. Spec => []CompletedInv
  BY InitTypeInv, NextTypeInv, <1>1, <1>2, PTL DEF Spec
<1>4. CompletedInv => CompletedJobResolved
  BY DEF CompletedInv, CompletedJobResolved, Settled
<1> QED BY <1>3, <1>4, PTL

-----------------------------------------------------------------------------
(* How often a customer may receive one message.  A delivery belongs to an *)
(* attempt of the job.  Until that attempt is counted, as a failed attempt *)
(* or as a stall, the slot that made it is past the send; once it has      *)
(* completed, the job is not handed out any more.                          *)

Runs(m) == attempts[m] + stalls[m]
Ahead(m) == deliveries[m] > Runs(m)
Carried(m) == \E w \in Workers : msg[w] = m /\ pc[w] \in Answered

BoundInv ==
    /\ \A m \in Messages : stalls[m] <= 2 /\ Runs(m) <= Attempts + 1
    /\ \A m \in Messages : job[m] # "failed" => attempts[m] < Attempts /\ stalls[m] <= 1
    /\ \A m \in Messages : deliveries[m] <= Runs(m) + 1
    /\ \A m \in Messages : Ahead(m) => job[m] = "completed" \/ Carried(m)

\* The numbers that the arithmetic below is about.
LEMMA BoundNumbers ==
    ASSUME TypeInv, NEW m \in Messages
    PROVE  /\ attempts[m] \in Nat /\ stalls[m] \in Nat /\ deliveries[m] \in Nat
           /\ Attempts \in Nat /\ Runs(m) \in Nat
BY ConstantsAssumption DEF TypeInv, TypeOK, JobsOK, HistoryOK, Runs

\* No send, no job that ends badly, and no slot that loses its message
\* after a send, unless the job is completed.
LEMMA BoundKept ==
    ASSUME TypeInv, BoundInv, UNCHANGED <<deliveries, attempts, stalls>>,
           \A m \in Messages : /\ job[m] = "failed" => job'[m] = "failed"
                               /\ job[m] = "completed" => job'[m] = "completed",
           \A w \in Workers : pc[w] \in Answered =>
               (pc'[w] \in Answered /\ msg'[w] = msg[w]) \/ job'[msg[w]] = "completed"
    PROVE  BoundInv'
<1>1. \A m \in Messages : (Runs(m)' = Runs(m)) /\ (Ahead(m)' <=> Ahead(m))
  BY DEF Runs, Ahead
<1>2. \A m \in Messages : Carried(m) => job'[m] = "completed" \/ Carried(m)'
  BY DEF Carried
<1> QED BY <1>1, <1>2 DEF BoundInv

\* The send: the attempt under way has not delivered yet.
LEMMA BoundRoute ==
    ASSUME TypeInv, BoundInv, NEW w \in Workers,
           NEW a \in {"accepted", "rejected", "threw"}, NEW reached \in BOOLEAN,
           Route(w, a, reached)
    PROVE  BoundInv'
<1>1. PICK m \in Messages : msg[w] = m /\ job[m] = "active"
  BY DEF Route, TypeInv, LockInv, Busy
<1>2. pc'[w] \in Answered /\ \A v \in Workers \ {w} : pc'[v] = pc[v]
  BY DEF Route, AfterAnswer, Answered, Goto, TypeInv, TypeOK, WorkerOK
<1>3. UNCHANGED <<msg, job, attempts, stalls>> /\ pc[w] = "route"
  BY DEF Route, jobs
<1>4. ~Carried(m)
  BY <1>1, <1>3 DEF Carried, Answered, TypeInv, LockInv, Busy
<1>5. deliveries[m] <= Runs(m)
  BY <1>1, <1>4, BoundNumbers DEF BoundInv, Ahead
<1>6. /\ deliveries'[m] \in {deliveries[m], deliveries[m] + 1}
      /\ \A n \in Messages \ {m} : deliveries'[n] = deliveries[n]
  BY <1>1 DEF Route, Reaches, TypeInv, TypeOK, HistoryOK
<1>7. \A n \in Messages : Runs(n)' = Runs(n)
  BY <1>3 DEF Runs
<1>8. ASSUME NEW n \in Messages
      PROVE  deliveries'[n] <= Runs(n)' + 1 /\ (Ahead(n)' => job'[n] = "completed" \/ Carried(n)')
  <2>1. CASE n = m
    <3>1. Carried(m)'
      BY <1>1, <1>2, <1>3 DEF Carried
    <3>2. deliveries'[m] <= Runs(m)' + 1
      BY <1>5, <1>6, <1>7, BoundNumbers
    <3> QED BY <2>1, <3>1, <3>2
  <2>2. CASE n # m
    <3>1. deliveries'[n] = deliveries[n] /\ Runs(n)' = Runs(n)
      BY <1>6, <1>7, <2>2
    <3>2. Carried(n) => Carried(n)'
      BY <1>1, <1>2, <1>3, <2>2 DEF Carried
    <3> QED BY <1>3, <3>1, <3>2 DEF BoundInv, Ahead
  <2> QED BY <2>1, <2>2
<1> QED BY <1>3, <1>7, <1>8 DEF BoundInv

\* An attempt that is cut short or throws is counted.
LEMMA BoundCut ==
    ASSUME TypeInv, BoundInv, NEW w \in Workers, Throw(w) \/ Crash(w)
    PROVE  BoundInv'
<1> USE DEF TypeInv, TypeOK, WorkerOK, JobsOK
<1>1. PICK m \in Messages : msg[w] = m /\ job[m] = "active"
  BY DEF Throw, Crash, LockInv, Busy
<1>2. deliveries' = deliveries /\ \A v \in Workers \ {w} : pc'[v] = pc[v] /\ msg'[v] = msg[v]
  BY DEF Throw, Crash, Release, Goto, history
<1>3. \A n \in Messages \ {m} :
         attempts'[n] = attempts[n] /\ stalls'[n] = stalls[n] /\ job'[n] = job[n]
  BY <1>1 DEF Throw, Crash
<1>4. attempts[m] < Attempts /\ stalls[m] <= 1 /\ deliveries[m] <= Runs(m) + 1
  BY <1>1 DEF BoundInv
<1>5. /\ stalls'[m] <= 2 /\ Runs(m)' = Runs(m) + 1 /\ Runs(m)' <= Attempts + 1
      /\ job'[m] # "failed" => attempts'[m] < Attempts /\ stalls'[m] <= 1
  <2>1. CASE Throw(w)
    <3>1. attempts'[m] = attempts[m] + 1 /\ stalls'[m] = stalls[m]
      BY <1>1, <2>1 DEF Throw
    <3>2. job'[m] # "failed" => attempts[m] + 1 < Attempts
      BY <1>1, <2>1, BoundNumbers DEF Throw, LastAttempt
    <3>3. /\ attempts[m] \in Nat /\ stalls[m] \in Nat /\ Attempts \in Nat
          /\ Runs(m) = attempts[m] + stalls[m] /\ Runs(m)' = attempts'[m] + stalls'[m]
      BY BoundNumbers DEF Runs
    <3> HIDE DEF TypeInv, TypeOK, JobsOK, WorkerOK
    <3> QED BY <1>4, <3>1, <3>2, <3>3
  <2>2. CASE Crash(w)
    <3>1. attempts'[m] = attempts[m] /\ stalls'[m] = stalls[m] + 1
      BY <1>1, <2>2 DEF Crash
    <3>2. job'[m] # "failed" => stalls[m] = 0
      BY <1>1, <2>2 DEF Crash
    <3> QED BY <1>4, <3>1, <3>2, BoundNumbers DEF Runs
  <2> QED BY <2>1, <2>2
<1>6. ~Ahead(m)' /\ deliveries'[m] <= Runs(m)' + 1
  <2>1. Runs(m)' = Runs(m) + 1 /\ Runs(m) \in Nat /\ deliveries'[m] = deliveries[m]
    BY <1>2, <1>5, BoundNumbers
  <2>2. deliveries[m] \in Nat /\ deliveries[m] <= Runs(m) + 1
    BY <1>4, BoundNumbers
  <2> QED BY <2>1, <2>2 DEF Ahead
<1>7. ASSUME NEW n \in Messages \ {m}
      PROVE  /\ Runs(n)' = Runs(n) /\ stalls'[n] = stalls[n] /\ attempts'[n] = attempts[n]
             /\ deliveries'[n] = deliveries[n] /\ job'[n] = job[n]
             /\ Ahead(n)' => job'[n] = "completed" \/ Carried(n)'
  <2>1. /\ Runs(n)' = Runs(n) /\ stalls'[n] = stalls[n] /\ attempts'[n] = attempts[n]
        /\ deliveries'[n] = deliveries[n] /\ job'[n] = job[n]
    BY <1>2, <1>3 DEF Runs
  <2>2. Carried(n) => Carried(n)'
    BY <1>1, <1>2 DEF Carried
  <2> QED BY <2>1, <2>2 DEF BoundInv, Ahead
<1>8. \A n \in Messages : stalls'[n] <= 2 /\ Runs(n)' <= Attempts + 1
  BY <1>5, <1>7 DEF BoundInv
<1>9. \A n \in Messages : job'[n] # "failed" => attempts'[n] < Attempts /\ stalls'[n] <= 1
  BY <1>5, <1>7 DEF BoundInv
<1>10. \A n \in Messages : deliveries'[n] <= Runs(n)' + 1
  BY <1>6, <1>7 DEF BoundInv
<1>11. \A n \in Messages : Ahead(n)' => job'[n] = "completed" \/ Carried(n)'
  BY <1>6, <1>7
<1> QED BY <1>8, <1>9, <1>10, <1>11 DEF BoundInv

LEMMA BoundSend == ASSUME TypeInv, BoundInv, NEW w \in Workers, Send(w) PROVE BoundInv'
<1> USE DEF TypeInv, TypeOK, WorkerOK
<1>1. ASSUME UNCHANGED <<deliveries, job, attempts, stalls, msg>>, NEW l, Goto(w, l),
             pc[w] \in Answered => l \in Answered
      PROVE  BoundInv'
  <2>1. \A v \in Workers : pc[v] \in Answered => pc'[v] \in Answered /\ msg'[v] = msg[v]
    BY <1>1 DEF Goto
  <2> QED BY <1>1, <2>1, BoundKept
<1>2. CASE Check(w) \/ ReadQuota(w) \/ PauseTenant(w) \/ Decrement(w)
  <2>1. PICK l : Goto(w, l)
    BY <1>2 DEF Check, ReadQuota, PauseTenant, Decrement
  <2> QED BY <1>1, <1>2, <2>1
     DEF Check, ReadQuota, PauseTenant, Decrement, Answered, jobs, history
<1>3. CASE ConsumeSlot(w) \/ GiveSlotBack(w) \/ RepayRefused(w)
  <2>1. PICK l : Goto(w, l)
    BY <1>3 DEF ConsumeSlot, GiveSlotBack, RepayRefused
  <2> QED BY <1>1, <1>3, <2>1
     DEF ConsumeSlot, GiveSlotBack, RepayRefused, Answered, jobs, history
<1>4. CASE ReadPace(w) \/ Stamp(w) \/ Mark(w)
  <2>1. PICK l : Goto(w, l)
    BY <1>4 DEF ReadPace, Stamp, Mark
  <2> QED BY <1>1, <1>4, <2>1 DEF ReadPace, Stamp, Mark, Answered, jobs, history
<1>5. CASE RecordSent(w) \/ CountUsage(w) \/ RecordFailed(w) \/ ResolveDropped(w)
  BY <1>1, <1>5 DEF RecordSent, CountUsage, RecordFailed, ResolveDropped, Answered, jobs, history
<1>6. CASE Refund(w) \/ ReadWarmed(w) \/ ReleaseSlot(w)
  <2>1. PICK l \in Answered : Goto(w, l)
    BY <1>6 DEF Refund, ReadWarmed, ReleaseSlot, AfterRefund, Answered
  <2> QED BY <1>1, <1>6, <2>1 DEF Refund, ReadWarmed, ReleaseSlot, jobs, history
<1>7. CASE Complete(w)
  <2>1. PICK m \in Messages : msg[w] = m /\ job[m] = "active"
    BY <1>7 DEF Complete, LockInv, Busy
  <2>2. \A n \in Messages : job'[n] = IF n = m THEN "completed" ELSE job[n]
    BY <1>7, <2>1 DEF Complete, JobsOK
  <2>3. \A v \in Workers \ {w} : pc'[v] = pc[v] /\ msg'[v] = msg[v]
    BY <1>7 DEF Complete, Release, Goto
  <2>4. UNCHANGED <<deliveries, attempts, stalls>>
    BY <1>7 DEF Complete, history
  <2> QED BY <2>1, <2>2, <2>3, <2>4, BoundKept
<1> QED BY <1>2, <1>3, <1>4, <1>5, <1>6, <1>7, BoundRoute, BoundCut DEF Send

LEMMA BoundEnvironment == ASSUME TypeInv, BoundInv, Environment PROVE BoundInv'
<1> USE DEF TypeInv, TypeOK, WorkerOK, worker, jobs, history
<1>1. ASSUME NEW m \in Messages, NEW s,
             CreateRow(m) \/ CooldownEnds(m) \/ GraceEnds(m) \/ Ack(m, s) \/ Finalize(m)
      PROVE  BoundInv'
  BY <1>1, BoundKept DEF CreateRow, CooldownEnds, GraceEnds, Ack, Finalize
<1>2. ASSUME NEW m \in Messages, Enqueue(m) PROVE BoundInv'
  BY <1>2, BoundKept DEF Enqueue, JobsOK
<1>3. ASSUME NEW c \in Customers, OptOut(c) \/ ChangeConsent(c) \/ Rest(c) PROVE BoundInv'
  BY <1>3, BoundKept DEF OptOut, ChangeConsent, Rest
<1>4. CASE ResumeTenant \/ Reap
  BY <1>4, BoundKept DEF ResumeTenant, Reap
<1>5. CASE GapEnds
  BY <1>5, BoundKept DEF GapEnds, Answered
<1>6. CASE NewDay
  <2>1. \A v \in Workers : AfterRefund(v) \in Answered
    BY DEF AfterRefund, Answered
  <2>2. \A v \in Workers : pc[v] \in Answered => pc'[v] \in Answered
    BY <1>6, <2>1 DEF NewDay, Answered
  <2> QED BY <1>6, <2>2, BoundKept DEF NewDay
<1> QED BY <1>1, <1>2, <1>3, <1>4, <1>5, <1>6 DEF Environment

\* However faults, retries and redeliveries follow one another, a customer
\* receives a message at most once per attempt of its job, and once more for
\* the one time a worker may die with it.
THEOREM DeliveriesAreBounded == Spec => []DeliveriesBounded
<1>1. Init => BoundInv
  <2> SUFFICES ASSUME Init PROVE BoundInv
    OBVIOUS
  <2>1. \A m \in Messages :
           /\ attempts[m] = 0 /\ stalls[m] = 0 /\ deliveries[m] = 0 /\ Runs(m) = 0
           /\ ~Ahead(m)
    BY DEF Init, Runs, Ahead
  <2> QED BY <2>1, ConstantsAssumption DEF BoundInv
<1>2. TypeInv /\ BoundInv /\ [Next]_vars => BoundInv'
  <2> SUFFICES ASSUME TypeInv, BoundInv, [Next]_vars PROVE BoundInv'
    OBVIOUS
  <2> USE DEF TypeInv, TypeOK, WorkerOK, Goto
  <2>1. ASSUME NEW w \in Workers, NEW m \in Messages, Take(w, m) PROVE BoundInv'
    BY <2>1, BoundKept DEF Take, Takable, Answered, JobsOK, history
  <2>2. ASSUME NEW w \in Workers, CallFails(w) PROVE BoundInv'
    BY <2>2, BoundKept DEF CallFails, Answered, jobs
  <2>3. ASSUME NEW w \in Workers, FailOpen(w) PROVE BoundInv'
    <3>1. AfterRefund(w) \in Answered
      BY DEF AfterRefund, Answered
    <3>2. pc[w] \in Answered => pc'[w] \in Answered
      BY <2>3, <3>1 DEF FailOpen, Answered
    <3>3. \A v \in Workers \ {w} : pc'[v] = pc[v]
      BY <2>3 DEF FailOpen
    <3> QED BY <2>3, <3>2, <3>3, BoundKept DEF FailOpen, jobs
  <2>4. CASE UNCHANGED vars
    BY <2>4, BoundKept DEF vars, jobs, worker, history
  <2> QED BY <2>1, <2>2, <2>3, <2>4, BoundCut, BoundSend, BoundEnvironment DEF Next, Work
<1>3. Spec => [](TypeInv /\ BoundInv)
  BY InitTypeInv, NextTypeInv, <1>1, <1>2, PTL DEF Spec
<1>4. TypeInv /\ BoundInv => DeliveriesBounded
  <2> SUFFICES ASSUME TypeInv, BoundInv, NEW m \in Messages PROVE deliveries[m] <= Attempts + 1
    BY DEF DeliveriesBounded
  <2>1. CASE job[m] = "failed"
    <3>1. ~Carried(m)
      BY <2>1 DEF Carried, Answered, TypeInv, LockInv, Busy
    <3> QED BY <2>1, <3>1, BoundNumbers DEF BoundInv, Ahead
  <2>2. CASE job[m] # "failed"
    BY <2>2, BoundNumbers DEF BoundInv, Runs
  <2> QED BY <2>1, <2>2
<1> QED BY <1>3, <1>4, PTL
=============================================================================
