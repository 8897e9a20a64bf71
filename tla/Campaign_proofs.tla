-------------------------- MODULE Campaign_proofs ---------------------------
(***************************************************************************)
(* Theorems about Campaign, for every set of customers and calls, every    *)
(* chunk size, number of attempts and quota.                               *)
(***************************************************************************)
EXTENDS Campaign, FiniteSetTheorems, TLAPS

\* Each kind of call goes through its own steps, and the launch job waits only
\* while attempts are left.
KindInv ==
    /\ \A e \in Calls :
         /\ Running(e) => kind[e] \in Launching
         /\ pc[e] = "add" => kind[e] = "SCHEDULE"
    /\ timer = "delayed" => tries < Attempts

TypeInv == TypeOK /\ KindInv

\* One step of a call, and of the world around it.
Step(e) ==
    \/ Check(e) \/ Update(e) \/ Decide(e) \/ Pause(e) \/ ScheduleWrite(e) \/ ScheduleAdd(e) \/ ScheduleLost(e)
    \/ Launch(e) \/ LaunchDies(e)
World ==
    \/ \E x \in Rows : WorkerSends(x) \/ WorkerDrops(x)
    \/ \E c \in Customers : OptOut(c)
    \/ JobForgotten

LEMMA InitTypeInv == Init => TypeInv
<1> SUFFICES ASSUME Init PROVE TypeInv
  OBVIOUS
<1>1. status \in {"DRAFT", "PENDING_APPROVAL"} /\ gated \in BOOLEAN
  BY DEF Init
<1>2. tries \in 0..Attempts /\ deaths \in 0..MaxDeaths /\ kind \in [Calls -> Kinds]
  BY ConstantsAssumption DEF Init
<1>3. TypeOK
  BY <1>1, <1>2 DEF Init, TypeOK
<1> QED BY <1>3 DEF Init, TypeInv, KindInv, Running, Steps

LEMMA RowsFinite == \A S \in SUBSET Rows : IsFiniteSet(S) /\ Cardinality(S) \in Nat
<1>1. IsFiniteSet(Rows)
  BY ConstantsAssumption, FS_Product DEF Rows
<1> QED BY <1>1, FS_Subset, FS_CardinalityType

LEMMA StepTypeOK ==
    ASSUME TypeInv, NEW e \in Calls, Step(e)
    PROVE  TypeOK'
<1> USE ConstantsAssumption DEF TypeInv, Goto, state, messages, schedule, locals, history
<1>1. CASE Check(e)
  BY <1>1 DEF Check, TypeOK
<1>2. CASE Update(e)
  BY <1>2 DEF Update, TypeOK
<1>3. CASE Decide(e)
  BY <1>3 DEF Decide, Verdict, SetStatus, TypeOK
<1>4. CASE Pause(e)
  BY <1>4 DEF Pause, SetStatus, TypeOK
<1>5. CASE ScheduleWrite(e)
  BY <1>5 DEF ScheduleWrite, SetStatus, TypeOK
<1>6. CASE ScheduleAdd(e)
  <2>1. tries' \in 0..Attempts /\ timer' \in {"none", "delayed", "active", "kept"}
    BY <1>6 DEF ScheduleAdd, TypeOK
  <2>2. mute' \in BOOLEAN
    BY <1>6 DEF ScheduleAdd, TypeOK
  <2> QED BY <1>6, <2>1, <2>2 DEF ScheduleAdd, TypeOK
<1>14. CASE ScheduleLost(e)
  BY <1>14 DEF ScheduleLost, TypeOK
<1>7. CASE LaunchRead(e)
  <2>1. tries' \in 0..Attempts
    BY <1>7 DEF LaunchRead, TypeOK, KindInv
  <2> QED BY <1>7, <2>1 DEF LaunchRead, TypeOK, Steps
<1>8. CASE LaunchResolve(e)
  BY <1>8 DEF LaunchResolve, Returns, Throws, AfterFailure, TypeOK, Steps
<1>9. CASE LaunchInsert(e)
  BY <1>9 DEF LaunchInsert, Batch, TypeOK, Steps
<1>10. CASE LaunchFetch(e)
  <2>1. \A T \in Fetchable(e) : T \subseteq Rows
    BY DEF Fetchable
  <2> QED BY <1>10, <2>1 DEF LaunchFetch, TypeOK, Steps
<1>11. CASE LaunchEnqueue(e)
  BY <1>11 DEF LaunchEnqueue, TypeOK
<1>12. CASE LaunchActivate(e)
  <2>1. Counted(e) \in Nat
    BY RowsFinite DEF Counted, TypeOK
  <2> QED BY <1>12, <2>1 DEF LaunchActivate, SetStatus, Returns, TypeOK
<1>13. CASE LaunchDies(e)
  BY <1>13 DEF LaunchDies, Throws, AfterFailure, TypeOK
<1> QED BY <1>1, <1>2, <1>3, <1>4, <1>5, <1>6, <1>7, <1>8, <1>9, <1>10, <1>11, <1>12, <1>13,
       <1>14 DEF Step, Launch

LEMMA StepKind ==
    ASSUME TypeInv, NEW e \in Calls, Step(e)
    PROVE  KindInv'
<1> USE ConstantsAssumption DEF TypeInv
<1>1. kind' = kind /\ \A f \in Calls \ {e} : pc'[f] = pc[f]
  BY DEF Step, Launch, Check, Update, Decide, Pause, ScheduleWrite, ScheduleAdd, ScheduleLost, LaunchRead, LaunchResolve,
     LaunchInsert, LaunchFetch, LaunchEnqueue, LaunchActivate, LaunchDies, Goto, locals, TypeOK
<1>2. /\ pc'[e] \in Steps => kind[e] \in Launching
      /\ pc'[e] = "add" => kind[e] = "SCHEDULE"
  BY DEF Step, Launch, Check, Update, Decide, Pause, ScheduleWrite, ScheduleAdd, ScheduleLost, LaunchRead, LaunchResolve,
     LaunchInsert, LaunchFetch, LaunchEnqueue, LaunchActivate, LaunchDies, Goto, TypeOK, KindInv, Running, Steps
<1>3. timer' = "delayed" => tries' < Attempts
  BY DEF Step, Launch, Check, Update, Decide, Pause, ScheduleWrite, ScheduleAdd, ScheduleLost, LaunchRead, LaunchResolve,
     LaunchInsert, LaunchFetch, LaunchEnqueue, LaunchActivate, LaunchDies, Returns, Throws, AfterFailure,
     schedule, TypeOK, KindInv
<1> QED BY <1>1, <1>2, <1>3 DEF KindInv, Running

LEMMA NextTypeInv == TypeInv /\ [Next]_vars => TypeInv'
<1> SUFFICES ASSUME TypeInv, [Next]_vars PROVE TypeInv'
  OBVIOUS
<1>1. CASE \E e \in Calls : Step(e)
  BY <1>1, StepTypeOK, StepKind DEF TypeInv
<1>2. CASE World
  <2>1. TypeOK'
    <3> USE DEF TypeInv, TypeOK, state, messages, schedule, locals, history
    <3>1. ASSUME NEW x \in Rows, WorkerSends(x) PROVE TypeOK'
      BY <3>1 DEF WorkerSends
    <3>2. ASSUME NEW x \in Rows, WorkerDrops(x) PROVE TypeOK'
      BY <3>2 DEF WorkerDrops
    <3>3. ASSUME NEW c \in Customers, OptOut(c) PROVE TypeOK'
      BY <3>3 DEF OptOut
    <3>4. CASE JobForgotten
      BY <3>4 DEF JobForgotten
    <3> QED BY <1>2, <3>1, <3>2, <3>3, <3>4 DEF World
  <2>2. KindInv'
    BY <1>2 DEF World, WorkerSends, WorkerDrops, OptOut, JobForgotten, TypeInv, KindInv, Running, schedule, locals
  <2> QED BY <2>1, <2>2 DEF TypeInv
<1>3. CASE UNCHANGED vars
  <2>1. TypeOK'
    BY <1>3 DEF vars, TypeInv, TypeOK, state, messages, schedule, locals, history
  <2>2. KindInv'
    BY <1>3 DEF vars, TypeInv, KindInv, Running, schedule, locals
  <2> QED BY <2>1, <2>2 DEF TypeInv
<1> QED BY <1>1, <1>2, <1>3 DEF Next, Step, World

\* The variables of a campaign keep their types, and its launch job is never
\* tried more often than BullMQ's attempts.
THEOREM TypeCorrect == Spec => []TypeOK
<1>1. TypeInv => TypeOK
  BY DEF TypeInv
<1> QED BY <1>1, InitTypeInv, NextTypeInv, PTL DEF Spec

-----------------------------------------------------------------------------
(* A finished launch has left a job for everyone.                          *)

\* Whom a launch has dealt with: all but those whose rows it has not inserted,
\* or not fetched back, has a job coming.
QueueInv ==
    /\ \A x \in Rows : row[x] \notin {"none", "PENDING"} => job[x] # "none"
    /\ \A e \in Calls :
         /\ pc[e] \in {"insert", "fetch", "enqueue"} =>
              \A c \in audience[e] \ (left[e] \cup chunk[e]) : <<e, c>> \in picked[e] \/ job[<<e, c>>] # "none"
         /\ pc[e] = "fetch" => \A c \in chunk[e] : row[<<e, c>>] # "none"
         /\ pc[e] \in {"resolve", "insert", "enqueue"} => chunk[e] = {}
         /\ pc[e] = "enqueue" => left[e] = {}
         /\ pc[e] = "idle" => chunk[e] = {}
    /\ LaunchedAllQueued

LEMMA InitQueueInv == Init => QueueInv
BY DEF Init, QueueInv, LaunchedAllQueued

\* Rows and jobs never go back, and the locals of a call are its own.
LEMMA StepLocal ==
    ASSUME TypeInv, NEW e \in Calls, Step(e)
    PROVE  /\ \A x \in Rows : job[x] # "none" => job'[x] # "none"
           /\ \A x \in Rows : row'[x] = row[x] \/ (x[1] = e /\ row'[x] = "PENDING")
           /\ \A f \in Calls \ {e} : /\ pc'[f] = pc[f] /\ picked'[f] = picked[f] /\ left'[f] = left[f]
                                     /\ chunk'[f] = chunk[f] /\ audience'[f] = audience[f]
           /\ kind' = kind
<1> USE DEF TypeInv, TypeOK, Goto, state, messages, schedule, locals, history
<1>1. CASE LaunchInsert(e)
  BY <1>1 DEF LaunchInsert, Rows
<1>2. CASE LaunchEnqueue(e)
  BY <1>2 DEF LaunchEnqueue
<1>3. CASE ~(LaunchInsert(e) \/ LaunchEnqueue(e))
  BY <1>3 DEF Step, Launch, Check, Update, Decide, Pause, ScheduleWrite, ScheduleAdd, ScheduleLost, LaunchRead, LaunchResolve,
     LaunchFetch, LaunchActivate, LaunchDies
<1> QED BY <1>1, <1>2, <1>3

LEMMA StepQueueInv ==
    ASSUME TypeInv, QueueInv, NEW e \in Calls, Step(e)
    PROVE  QueueInv'
<1> USE StepLocal
<1>1. \A x \in Rows : row'[x] \notin {"none", "PENDING"} => job'[x] # "none"
  BY DEF QueueInv
<1>2. ASSUME NEW f \in Calls, f # e
      PROVE  /\ pc'[f] \in {"insert", "fetch", "enqueue"} =>
                  \A c \in audience'[f] \ (left'[f] \cup chunk'[f]) : <<f, c>> \in picked'[f] \/ job'[<<f, c>>] # "none"
             /\ pc'[f] = "fetch" => \A c \in chunk'[f] : row'[<<f, c>>] # "none"
             /\ pc'[f] \in {"resolve", "insert", "enqueue"} => chunk'[f] = {}
             /\ pc'[f] = "enqueue" => left'[f] = {}
             /\ pc'[f] = "idle" => chunk'[f] = {}
             /\ kind[f] \in Launching /\ pc'[f] = "done" => \A c \in audience'[f] : job'[<<f, c>>] # "none"
  <2>1. \A c \in audience[f] : <<f, c>> \in Rows
    BY DEF TypeInv, TypeOK, Rows
  <2>2. \A c \in chunk[f] : <<f, c>> \in Rows
    BY DEF TypeInv, TypeOK, Rows
  <2> QED BY <1>2, <2>1, <2>2 DEF QueueInv, LaunchedAllQueued
<1>3. /\ pc'[e] \in {"insert", "fetch", "enqueue"} =>
           \A c \in audience'[e] \ (left'[e] \cup chunk'[e]) : <<e, c>> \in picked'[e] \/ job'[<<e, c>>] # "none"
      /\ pc'[e] = "fetch" => \A c \in chunk'[e] : row'[<<e, c>>] # "none"
      /\ pc'[e] \in {"resolve", "insert", "enqueue"} => chunk'[e] = {}
      /\ pc'[e] = "enqueue" => left'[e] = {}
      /\ pc'[e] = "idle" => chunk'[e] = {}
      /\ kind[e] \in Launching /\ pc'[e] = "done" => \A c \in audience'[e] : job'[<<e, c>>] # "none"
  <2>0. \A c \in audience[e] \cup chunk[e] : <<e, c>> \in Rows
    BY DEF TypeInv, TypeOK, Rows
  <2> USE DEF TypeInv, TypeOK, Goto
  <2>1. CASE LaunchRead(e)
    BY <2>1 DEF LaunchRead, QueueInv
  <2>2. CASE LaunchResolve(e)
    BY <2>2 DEF LaunchResolve, QueueInv, messages
  <2>3. CASE LaunchInsert(e)
    <3>1. Batch(left[e]) \subseteq left[e]
      BY DEF Batch
    <3>2. /\ pc[e] = "insert" /\ pc'[e] = "fetch" /\ job' = job /\ picked' = picked /\ audience' = audience
          /\ chunk'[e] = Batch(left[e]) /\ left'[e] = left[e] \ Batch(left[e])
          /\ \A c \in Batch(left[e]) : row'[<<e, c>>] = "PENDING"
      BY <2>3, <3>1 DEF LaunchInsert, Rows, history
    <3> QED BY <3>1, <3>2 DEF QueueInv
  <2>4. CASE LaunchFetch(e)
    <3>1. /\ pc[e] = "fetch" /\ pc'[e] \in {"insert", "enqueue"} /\ row' = row /\ job' = job
          /\ chunk'[e] = {} /\ left' = left /\ audience' = audience
          /\ pc'[e] = "enqueue" => left[e] = {}
      BY <2>4 DEF LaunchFetch, messages, history
    <3>2. PICK T \in Fetchable(e) : picked' = [picked EXCEPT ![e] = @ \cup T]
      BY <2>4 DEF LaunchFetch
    <3>3. \A c \in chunk[e] : <<e, c>> \in T \/ job[<<e, c>>] # "none"
      BY <2>0, <3>1, <3>2 DEF Fetchable, QueueInv
    <3> QED BY <3>1, <3>2, <3>3 DEF QueueInv
  <2>5. CASE LaunchEnqueue(e)
    BY <2>5, <2>0 DEF LaunchEnqueue, QueueInv, locals, history
  <2>6. CASE LaunchActivate(e)
    BY <2>6, <2>0 DEF LaunchActivate, QueueInv, messages
  <2>7. CASE LaunchDies(e)
    BY <2>7 DEF LaunchDies
  <2>8. CASE ~(Launch(e) \/ LaunchDies(e))
    BY <2>8 DEF Step, Check, Update, Decide, Pause, ScheduleWrite, ScheduleAdd, ScheduleLost, Launching, KindInv
  <2> QED BY <2>1, <2>2, <2>3, <2>4, <2>5, <2>6, <2>7, <2>8 DEF Launch
<1> QED BY <1>1, <1>2, <1>3 DEF QueueInv, LaunchedAllQueued

LEMMA NextQueueInv == TypeInv /\ QueueInv /\ [Next]_vars => QueueInv'
<1> SUFFICES ASSUME TypeInv, QueueInv, [Next]_vars PROVE QueueInv'
  OBVIOUS
<1>1. CASE \E e \in Calls : Step(e)
  BY <1>1, StepQueueInv
<1>2. CASE World \/ UNCHANGED vars
  <2>1. /\ \A x \in Rows : job[x] # "none" => job'[x] # "none"
        /\ \A x \in Rows : row[x] # "none" => row'[x] # "none"
        /\ \A x \in Rows : row'[x] \notin {"none", "PENDING"} => row'[x] = row[x] \/ job'[x] # "none"
        /\ pc' = pc /\ UNCHANGED locals /\ audience' = audience
    BY <1>2 DEF World, WorkerSends, WorkerDrops, OptOut, JobForgotten, vars, TypeInv, TypeOK, messages, history
  <2>2. \A f \in Calls : \A c \in audience[f] \cup chunk[f] : <<f, c>> \in Rows
    BY DEF TypeInv, TypeOK, Rows
  <2> QED BY <2>1, <2>2 DEF QueueInv, LaunchedAllQueued, locals
<1> QED BY <1>1, <1>2 DEF Next, Step, World

\* A launch that has marked its campaign ACTIVE left a job for everyone it was
\* to reach.
THEOREM LaunchesQueueEveryone == Spec => []LaunchedAllQueued
<1>1. QueueInv => LaunchedAllQueued
  BY DEF QueueInv
<1> QED BY <1>1, InitTypeInv, NextTypeInv, InitQueueInv, NextQueueInv, PTL DEF Spec

-----------------------------------------------------------------------------
(* Why a customer may hear of a campaign twice.                            *)

\* Without an excuse, at most one launch is under way or has made rows, and the
\* campaign is ACTIVE once it has finished.
AloneInv ==
    excuses = {} =>
        /\ \A e \in Calls : Running(e) => status # "ACTIVE"
        /\ \A e, f \in Calls : Running(e) /\ (Running(f) \/ HasRows(f)) => e = f
        /\ \A e \in Calls : HasRows(e) => Running(e) \/ status = "ACTIVE"
        /\ \A e \in Calls : pc[e] \in {"idle", "resolve"} => ~HasRows(e)
        /\ RepeatNeedsExcuse

LEMMA InitAloneInv == Init => AloneInv
<1> SUFFICES ASSUME Init PROVE AloneInv
  OBVIOUS
<1>1. \A e \in Calls : ~Running(e)
  BY DEF Init, Running, Steps
<1>2. \A e \in Calls : ~HasRows(e)
  BY DEF Init, HasRows, Rows
<1> QED BY <1>1, <1>2 DEF AloneInv, RepeatNeedsExcuse

LEMMA StepAloneInv ==
    ASSUME TypeInv, AloneInv, NEW e \in Calls, Step(e)
    PROVE  AloneInv'
<1> SUFFICES ASSUME excuses' = {} PROVE AloneInv'
  BY DEF AloneInv
<1>1. excuses = {}
  BY DEF Step, Launch, Check, Update, Decide, Pause, ScheduleWrite, ScheduleAdd, ScheduleLost, LaunchRead, LaunchResolve,
     LaunchInsert, LaunchFetch, LaunchEnqueue, LaunchActivate, LaunchDies, SetStatus, history
<1> USE <1>1, StepLocal DEF AloneInv
<1>2. \A f \in Calls : HasRows(f)' => HasRows(f) \/ f = e
  BY DEF HasRows, Rows
<1>3. \A f \in Calls : HasRows(f) => HasRows(f)'
  BY DEF HasRows, Rows
<1>4. CASE LaunchInsert(e) \/ LaunchFetch(e) \/ LaunchEnqueue(e)
  <2>1. Running(e) /\ Running(e)' /\ pc'[e] \notin {"idle", "resolve"} /\ status' = status
    BY <1>4 DEF LaunchInsert, LaunchFetch, LaunchEnqueue, Running, Steps, Goto, TypeInv, TypeOK, state
  <2>2. \A f \in Calls : HasRows(f)' => f = e
    BY <1>1, <1>2, <2>1
  <2>3. \A f \in Calls : Running(f)' <=> Running(f)
    BY <2>1 DEF Running
  <2> QED BY <2>1, <2>2, <2>3 DEF RepeatNeedsExcuse
<1>5. CASE ~(LaunchInsert(e) \/ LaunchFetch(e) \/ LaunchEnqueue(e))
  <2>1. row' = row
    BY <1>5 DEF Step, Launch, Check, Update, Decide, Pause, ScheduleWrite, ScheduleAdd, ScheduleLost, LaunchRead, LaunchResolve,
       LaunchActivate, LaunchDies, messages
  <2>2. \A f \in Calls : HasRows(f)' <=> HasRows(f)
    BY <2>1 DEF HasRows
  <2>3. RepeatNeedsExcuse'
    BY <2>2 DEF RepeatNeedsExcuse
  <2>4. \A f \in Calls \ {e} : Running(f)' <=> Running(f)
    BY DEF Running
  <2>5. CASE LaunchRead(e)
    <3>1. /\ pc[e] = "idle" /\ status' = status /\ pc'[e] \in {"resolve", "refused"}
          /\ pc'[e] = "resolve" => status # "ACTIVE" /\ \A f \in Calls \ {e} : ~Running(f)
      BY <1>5, <2>5 DEF LaunchRead, Launchable, Goto, state, TypeInv, TypeOK
    <3>2. ~HasRows(e)
      BY <3>1
    <3>3. Running(e)' <=> pc'[e] = "resolve"
      BY <3>1 DEF Running, Steps
    <3> QED BY <2>2, <2>3, <2>4, <3>1, <3>2, <3>3
  <2>6. CASE LaunchResolve(e)
    <3>1. Running(e) /\ ~HasRows(e) /\ status' = status /\ pc'[e] \notin {"idle", "resolve"}
      BY <2>6 DEF LaunchResolve, Running, Steps, Goto, state, TypeInv, TypeOK
    <3> QED BY <2>2, <2>3, <2>4, <3>1
  <2>7. CASE LaunchActivate(e)
    <3>1. Running(e) /\ ~Running(e)' /\ status' = "ACTIVE" /\ pc'[e] \notin {"idle", "resolve"}
      BY <2>7 DEF LaunchActivate, SetStatus, Running, Steps, Goto, TypeInv, TypeOK
    <3> QED BY <2>2, <2>3, <2>4, <3>1
  <2>8. CASE LaunchDies(e)
    <3>1. Running(e) /\ ~HasRows(e) /\ ~Running(e)' /\ status' = status /\ pc'[e] \notin {"idle", "resolve"}
      BY <2>8 DEF LaunchDies, HasRows, Running, Steps, Goto, state, TypeInv, TypeOK
    <3> QED BY <2>2, <2>3, <2>4, <3>1
  <2>9. CASE ~(Launch(e) \/ LaunchDies(e))
    <3>1. /\ ~Running(e)' /\ ~Running(e) /\ pc'[e] \notin {"idle", "resolve"}
          /\ status' # "ACTIVE" => status # "ACTIVE"
          /\ status' = "ACTIVE" => status = "ACTIVE"
      BY <2>9 DEF Step, Check, Update, Decide, Pause, ScheduleWrite, ScheduleAdd, ScheduleLost, Verdict, SetStatus, Running, Steps,
         Goto, state, TypeInv, TypeOK
    <3> QED BY <2>2, <2>3, <2>4, <3>1
  <2> QED BY <1>5, <2>5, <2>6, <2>7, <2>8, <2>9 DEF Launch
<1> QED BY <1>4, <1>5

LEMMA NextAloneInv == TypeInv /\ AloneInv /\ [Next]_vars => AloneInv'
<1> SUFFICES ASSUME TypeInv, AloneInv, [Next]_vars PROVE AloneInv'
  OBVIOUS
<1>1. CASE \E e \in Calls : Step(e)
  BY <1>1, StepAloneInv
<1>2. CASE World \/ UNCHANGED vars
  <2>1. /\ \A x \in Rows : row[x] = "none" <=> row'[x] = "none"
        /\ pc' = pc /\ status' = status /\ excuses' = excuses
    BY <1>2 DEF World, WorkerSends, WorkerDrops, OptOut, JobForgotten, vars, TypeInv, TypeOK, messages, history, state
  <2>2. \A f \in Calls : (HasRows(f)' <=> HasRows(f)) /\ (Running(f)' <=> Running(f))
    BY <2>1 DEF HasRows, Rows, Running
  <2> QED BY <2>1, <2>2 DEF AloneInv, RepeatNeedsExcuse
<1> QED BY <1>1, <1>2 DEF Next, Step, World

\* Two launches write to customers only if they overlapped, one died half-way,
\* or somebody took the campaign out of ACTIVE.
THEOREM RepeatsAreExcused == Spec => []RepeatNeedsExcuse
<1>1. AloneInv => RepeatNeedsExcuse
  BY DEF AloneInv, RepeatNeedsExcuse
<1> QED BY <1>1, InitTypeInv, NextTypeInv, InitAloneInv, NextAloneInv, PTL DEF Spec

-----------------------------------------------------------------------------
(* What a campaign launched once reports.                                   *)

LaunchedOnce == \A e, f \in Calls : HasRows(e) /\ HasRows(f) => e = f

\* A launch inserts a row once, and only rows that exist are fetched and get a
\* job; a launch at work has somebody to reach.
RowInv ==
    /\ \A x \in Rows : job[x] # "none" => row[x] # "none"
    /\ \A e \in Calls :
         /\ \A x \in picked[e] : row[x] # "none"
         /\ picked[e] # {} => HasRows(e)
         /\ pc[e] \in {"idle", "resolve"} => ~HasRows(e)
         /\ pc[e] \in {"insert", "fetch", "enqueue"} => audience[e] # {}
         /\ pc[e] \in {"insert", "fetch"} => \A c \in left[e] : row[<<e, c>>] = "none"

LEMMA InitRowInv == Init => RowInv
<1> SUFFICES ASSUME Init PROVE RowInv
  OBVIOUS
<1>1. \A e \in Calls : ~HasRows(e) /\ picked[e] = {} /\ pc[e] = "idle"
  BY DEF Init, HasRows, Rows
<1>2. \A x \in Rows : job[x] = "none"
  BY DEF Init
<1> QED BY <1>1, <1>2 DEF RowInv

LEMMA StepRowInv ==
    ASSUME TypeInv, QueueInv, RowInv, NEW e \in Calls, Step(e)
    PROVE  RowInv'
<1> USE StepLocal DEF TypeInv
<1>0. \A x \in Rows : row[x] # "none" => row'[x] # "none"
  OBVIOUS
<1>1. \A f \in Calls : HasRows(f) => HasRows(f)'
  BY <1>0 DEF HasRows, Rows
<1>2. \A f \in Calls \ {e} : HasRows(f)' => HasRows(f)
  BY DEF HasRows, Rows
<1>3. \A x \in picked[e] : x \in Rows
  BY DEF TypeOK
<1>4. \A x \in Rows : job'[x] # "none" => row'[x] # "none"
  <2>1. CASE LaunchEnqueue(e)
    <3>1. row' = row /\ \A x \in Rows : job'[x] # "none" => job[x] # "none" \/ x \in picked[e]
      BY <2>1 DEF LaunchEnqueue
    <3> QED BY <3>1 DEF RowInv
  <2>2. CASE ~LaunchEnqueue(e)
    <3>1. job' = job
      BY <2>2 DEF Step, Launch, Check, Update, Decide, Pause, ScheduleWrite, ScheduleAdd, ScheduleLost, LaunchRead, LaunchResolve,
         LaunchInsert, LaunchFetch, LaunchActivate, LaunchDies, messages
    <3> QED BY <1>0, <3>1 DEF RowInv
  <2> QED BY <2>1, <2>2
<1>5. ASSUME NEW f \in Calls \ {e}
      PROVE  /\ \A x \in picked'[f] : row'[x] # "none"
             /\ picked'[f] # {} => HasRows(f)'
             /\ pc'[f] \in {"idle", "resolve"} => ~HasRows(f)'
             /\ pc'[f] \in {"insert", "fetch", "enqueue"} => audience'[f] # {}
             /\ pc'[f] \in {"insert", "fetch"} => \A c \in left'[f] : row'[<<f, c>>] = "none"
  <2>1. \A x \in picked[f] : x \in Rows
    BY DEF TypeOK
  <2>2. \A c \in left[f] : <<f, c>> \in Rows
    BY DEF TypeOK, Rows
  <2> QED BY <1>0, <1>1, <1>2, <2>1, <2>2 DEF RowInv
<1>6. /\ \A x \in picked'[e] : row'[x] # "none"
      /\ picked'[e] # {} => HasRows(e)'
      /\ pc'[e] \in {"idle", "resolve"} => ~HasRows(e)'
      /\ pc'[e] \in {"insert", "fetch", "enqueue"} => audience'[e] # {}
      /\ pc'[e] \in {"insert", "fetch"} => \A c \in left'[e] : row'[<<e, c>>] = "none"
  <2> USE DEF TypeOK, Goto
  <2>1. CASE LaunchRead(e)
    <3>1. row' = row /\ picked' = picked /\ pc[e] = "idle" /\ pc'[e] \in {"resolve", "refused"}
      BY <2>1 DEF LaunchRead, messages
    <3> QED BY <3>1 DEF RowInv, HasRows
  <2>2. CASE LaunchResolve(e)
    <3>1. /\ row' = row /\ picked' = picked /\ pc[e] = "resolve" /\ pc'[e] \in {"nobody", "refused", "insert"}
          /\ left'[e] = eligible /\ audience'[e] = eligible
          /\ pc'[e] \in {"insert", "fetch", "enqueue"} => eligible # {}
      BY <2>2 DEF LaunchResolve, messages
    <3>2. ~HasRows(e)
      BY <3>1 DEF RowInv
    <3>3. \A c \in Customers : row[<<e, c>>] = "none"
      BY <3>2 DEF HasRows
    <3>4. picked[e] = {}
      BY <3>2 DEF RowInv
    <3>5. ~HasRows(e)'
      BY <3>1, <3>2 DEF HasRows
    <3>6. picked'[e] = {} /\ \A c \in left'[e] : row'[<<e, c>>] = "none"
      BY <3>1, <3>3, <3>4
    <3>7. pc'[e] \in {"insert", "fetch", "enqueue"} => audience'[e] # {}
      BY <3>1
    <3> QED BY ONLY <3>5, <3>6, <3>7
  <2>3. CASE LaunchInsert(e)
    <3>1. /\ pc[e] = "insert" /\ pc'[e] = "fetch" /\ picked' = picked /\ audience' = audience
          /\ left'[e] = left[e] \ Batch(left[e])
          /\ \A x \in Rows : x \notin {e} \X Batch(left[e]) => row'[x] = row[x]
      BY <2>3 DEF LaunchInsert, history
    <3>2. \A c \in left'[e] : <<e, c>> \in Rows /\ <<e, c>> \notin {e} \X Batch(left[e])
      BY <3>1 DEF Rows
    <3>3. \A c \in left'[e] : row'[<<e, c>>] = "none"
      BY <3>1, <3>2 DEF RowInv
    <3> QED BY <1>0, <1>1, <1>3, <3>1, <3>3 DEF RowInv
  <2>4. CASE LaunchFetch(e)
    <3>1. PICK T \in Fetchable(e) : picked' = [picked EXCEPT ![e] = @ \cup T]
      BY <2>4 DEF LaunchFetch
    <3>2. /\ pc[e] = "fetch" /\ pc'[e] \in {"insert", "enqueue"} /\ row' = row /\ left' = left /\ audience' = audience
      BY <2>4 DEF LaunchFetch, messages, history
    <3>3. \A x \in T : row[x] # "none" /\ x[2] \in chunk[e]
      BY DEF Fetchable
    <3>4. \A c \in chunk[e] : c \in Customers /\ row[<<e, c>>] # "none"
      BY <3>2 DEF QueueInv
    <3>5. T # {} => HasRows(e)
      BY <3>3, <3>4 DEF HasRows
    <3> QED BY <1>1, <3>1, <3>2, <3>3, <3>5 DEF RowInv
  <2>5. CASE LaunchEnqueue(e)
    <3>1. pc' = pc /\ row' = row /\ picked' = picked /\ left' = left /\ audience' = audience /\ pc[e] = "enqueue"
      BY <2>5 DEF LaunchEnqueue, locals, history
    <3> QED BY <3>1 DEF RowInv, HasRows
  <2>6. CASE LaunchActivate(e) \/ LaunchDies(e)
    <3>1. picked'[e] = {} /\ pc'[e] \in {"done", "dead"}
      BY <2>6 DEF LaunchActivate, LaunchDies
    <3> QED BY <3>1
  <2>7. CASE ~(Launch(e) \/ LaunchDies(e))
    <3>1. picked' = picked /\ row' = row /\ pc'[e] \in {"checked", "refused", "done", "add", "dead"}
      BY <2>7 DEF Step, Check, Update, Decide, Pause, ScheduleWrite, ScheduleAdd, ScheduleLost, locals, messages
    <3> QED BY <3>1 DEF RowInv, HasRows
  <2> QED BY <2>1, <2>2, <2>3, <2>4, <2>5, <2>6, <2>7 DEF Launch
<1> QED BY <1>4, <1>5, <1>6 DEF RowInv

LEMMA NextRowInv == TypeInv /\ QueueInv /\ RowInv /\ [Next]_vars => RowInv'
<1> SUFFICES ASSUME TypeInv, QueueInv, RowInv, [Next]_vars PROVE RowInv'
  OBVIOUS
<1>1. CASE \E e \in Calls : Step(e)
  BY <1>1, StepRowInv
<1>2. CASE World \/ UNCHANGED vars
  <2>1. /\ \A x \in Rows : row'[x] = "none" <=> row[x] = "none"
        /\ \A x \in Rows : job'[x] = "none" <=> job[x] = "none"
        /\ pc' = pc /\ left' = left /\ picked' = picked /\ audience' = audience
    BY <1>2 DEF World, WorkerSends, WorkerDrops, OptOut, JobForgotten, vars, TypeInv, TypeOK, messages, locals, history
  <2>2. \A f \in Calls : HasRows(f)' <=> HasRows(f)
    BY <2>1 DEF HasRows, Rows
  <2>3. \A f \in Calls : picked[f] \subseteq Rows /\ \A c \in left[f] : <<f, c>> \in Rows
    BY DEF TypeInv, TypeOK, Rows
  <2> QED BY <2>1, <2>2, <2>3 DEF RowInv
<1> QED BY <1>1, <1>2 DEF Next, Step, World

Sent == {x \in Rows : row[x] = "SENT"}

\* As long as one launch alone has made rows, all of them are among its jobs or
\* in the chunk it is about to fetch, none of which has a job, and the counter
\* has kept up with the worker.
CountInv ==
    LaunchedOnce =>
        /\ \A e \in Calls : pc[e] = "fetch" => \A c \in chunk[e] : job[<<e, c>>] = "none"
        /\ \A e \in Calls : pc[e] \in {"insert", "fetch", "enqueue"} =>
             \A c \in Customers : row[<<e, c>>] # "none" => <<e, c>> \in picked[e] \/ c \in chunk[e]
        /\ Cardinality(Sent) <= sentCount

LEMMA InitCountInv == Init => CountInv
<1> SUFFICES ASSUME Init PROVE CountInv
  OBVIOUS
<1>1. Sent = {}
  BY DEF Init, Sent
<1>2. Cardinality(Sent) = 0
  BY <1>1, FS_EmptySet
<1> QED BY <1>2 DEF Init, CountInv

\* Rows do not disappear, so a second launch stays one.
LEMMA OnceBefore ==
    ASSUME \A x \in Rows : row[x] # "none" => row'[x] # "none", LaunchedOnce'
    PROVE  LaunchedOnce
BY DEF LaunchedOnce, HasRows, Rows

LEMMA StepCountInv ==
    ASSUME TypeInv, QueueInv, RowInv, CountInv, NEW e \in Calls, Step(e)
    PROVE  CountInv'
<1> USE StepLocal DEF TypeInv
<1> SUFFICES ASSUME LaunchedOnce' PROVE CountInv'
  BY DEF CountInv
<1>0. \A x \in Rows : row[x] # "none" => row'[x] # "none"
  OBVIOUS
<1>1. LaunchedOnce
  BY <1>0, OnceBefore
<1>2. Cardinality(Sent') <= Cardinality(Sent) /\ Cardinality(Sent') \in Nat /\ Cardinality(Sent) \in Nat
  <2>1. Sent' \subseteq Sent /\ Sent \subseteq Rows
    BY DEF Sent
  <2>2. IsFiniteSet(Sent) /\ IsFiniteSet(Sent')
    BY <2>1, RowsFinite
  <2> QED BY <2>1, <2>2, FS_Subset, FS_CardinalityType
<1>3. ASSUME NEW f \in Calls, pc'[f] = "fetch", NEW c \in chunk'[f]
      PROVE  job'[<<f, c>>] = "none"
  <2>1. CASE LaunchInsert(e) /\ f = e
    <3>1. c \in left[e] /\ job' = job /\ pc[e] = "insert" /\ <<e, c>> \in Rows
      BY <1>3, <2>1 DEF LaunchInsert, TypeOK, Batch, Rows
    <3> QED BY <2>1, <3>1 DEF RowInv
  <2>2. CASE f # e
    <3>1. pc[f] = "fetch" /\ c \in chunk[f] /\ job[<<f, c>>] = "none" /\ row[<<f, c>>] # "none" /\ <<f, c>> \in Rows
      BY <1>1, <1>3, <2>2 DEF CountInv, QueueInv, TypeOK, Rows
    <3>2. HasRows(f)
      BY <3>1 DEF HasRows, Rows
    <3>3. CASE LaunchEnqueue(e)
      <4>1. \A x \in Rows : job'[x] # job[x] => x \in picked[e]
        BY <3>3 DEF LaunchEnqueue, TypeOK
      <4>2. picked[e] = {}
        BY <1>1, <2>2, <3>2 DEF RowInv, LaunchedOnce
      <4> QED BY <3>1, <4>1, <4>2
    <3>4. CASE ~LaunchEnqueue(e)
      BY <3>1, <3>4 DEF Step, Launch, Check, Update, Decide, Pause, ScheduleWrite, ScheduleAdd, ScheduleLost, LaunchRead,
         LaunchResolve, LaunchInsert, LaunchFetch, LaunchActivate, LaunchDies, messages
    <3> QED BY <3>3, <3>4
  <2>3. CASE ~LaunchInsert(e) /\ f = e
    BY <1>3, <2>3 DEF Step, Launch, Check, Update, Decide, Pause, ScheduleWrite, ScheduleAdd, ScheduleLost, LaunchRead,
       LaunchResolve, LaunchFetch, LaunchEnqueue, LaunchActivate, LaunchDies, Goto, TypeOK
  <2> QED BY <2>1, <2>2, <2>3
<1>4. ASSUME NEW f \in Calls, pc'[f] \in {"insert", "fetch", "enqueue"}, NEW c \in Customers, row'[<<f, c>>] # "none"
      PROVE  <<f, c>> \in picked'[f] \/ c \in chunk'[f]
  <2>0. <<f, c>> \in Rows
    BY DEF Rows
  <2> USE <1>4 DEF Goto, TypeOK
  <2>1. CASE f # e
    BY <1>1, <2>0, <2>1 DEF CountInv
  <2>2. CASE f = e /\ LaunchResolve(e)
    <3>1. row' = row /\ pc[e] = "resolve"
      BY <2>2 DEF LaunchResolve, messages
    <3>2. HasRows(e)
      BY <2>2, <3>1 DEF HasRows
    <3> QED BY <3>1, <3>2 DEF RowInv
  <2>3. CASE f = e /\ LaunchInsert(e)
    <3>1. /\ pc[e] = "insert" /\ picked' = picked /\ chunk'[e] = Batch(left[e]) /\ chunk[e] = {}
          /\ c \in Batch(left[e]) \/ row'[<<e, c>>] = row[<<e, c>>]
      BY <2>0, <2>3 DEF LaunchInsert, QueueInv
    <3> QED BY <1>1, <2>3, <3>1 DEF CountInv
  <2>4. CASE f = e /\ LaunchFetch(e)
    <3>1. PICK T \in Fetchable(e) : picked' = [picked EXCEPT ![e] = @ \cup T]
      BY <2>4 DEF LaunchFetch
    <3>2. pc[e] = "fetch" /\ row' = row
      BY <2>4 DEF LaunchFetch, messages
    <3>3. c \in chunk[e] => row[<<e, c>>] = "PENDING"
      BY <1>1, <2>0, <2>4, <3>2 DEF CountInv, QueueInv
    <3>4. c \in chunk[e] => <<e, c>> \in T
      BY <2>0, <2>4, <3>3 DEF Fetchable
    <3>5. picked'[e] = picked[e] \cup T
      BY <3>1
    <3> QED BY <1>1, <2>4, <3>2, <3>4, <3>5 DEF CountInv
  <2>5. CASE f = e /\ LaunchEnqueue(e)
    <3>1. row' = row /\ pc' = pc /\ picked' = picked /\ chunk' = chunk
      BY <2>5 DEF LaunchEnqueue, locals
    <3> QED BY <1>1, <3>1 DEF CountInv
  <2>6. CASE f = e /\ ~(LaunchResolve(e) \/ LaunchInsert(e) \/ LaunchFetch(e) \/ LaunchEnqueue(e))
    BY <2>6 DEF Step, Launch, Check, Update, Decide, Pause, ScheduleWrite, ScheduleAdd, ScheduleLost, LaunchRead, LaunchActivate,
       LaunchDies
  <2> QED BY <2>1, <2>2, <2>3, <2>4, <2>5, <2>6
<1>5. Cardinality(Sent') <= sentCount'
  <2>1. CASE LaunchActivate(e)
    <3>1. pc[e] = "enqueue" /\ row' = row /\ sentCount' = Cardinality(picked[e]) /\ chunk[e] = {} /\ left[e] = {}
      BY <2>1 DEF LaunchActivate, Counted, messages, QueueInv
    <3>2. HasRows(e)
      <4>1. PICK c \in audience[e] : TRUE
        BY <3>1 DEF RowInv
      <4>2. <<e, c>> \in Rows /\ (<<e, c>> \in picked[e] \/ job[<<e, c>>] # "none")
        BY <3>1 DEF QueueInv, TypeOK, Rows
      <4>3. row[<<e, c>>] # "none"
        BY <4>2 DEF RowInv
      <4> QED BY <4>2, <4>3 DEF HasRows, Rows
    <3>3. \A x \in Sent : x \in picked[e]
      <4> SUFFICES ASSUME NEW x \in Sent PROVE x \in picked[e]
        OBVIOUS
      <4>1. PICK f \in Calls, c \in Customers : x = <<f, c>>
        BY DEF Sent, Rows
      <4>2. HasRows(f)
        BY <4>1 DEF HasRows, Sent
      <4>3. f = e
        BY <1>1, <3>2, <4>2 DEF LaunchedOnce
      <4> QED BY <1>1, <3>1, <4>1, <4>3 DEF CountInv, Sent
    <3>4. Sent' = Sent
      BY <3>1 DEF Sent
    <3>5. IsFiniteSet(picked[e])
      BY RowsFinite DEF TypeOK
    <3> QED BY <3>1, <3>3, <3>4, <3>5, FS_Subset
  <2>2. CASE ~LaunchActivate(e)
    <3>1. sentCount' = sentCount /\ sentCount \in Nat
      BY <2>2 DEF Step, Launch, Check, Update, Decide, Pause, ScheduleWrite, ScheduleAdd, ScheduleLost, LaunchRead, LaunchResolve,
         LaunchInsert, LaunchFetch, LaunchEnqueue, LaunchDies, state, TypeOK
    <3> QED BY <1>1, <1>2, <3>1 DEF CountInv
  <2> QED BY <2>1, <2>2
<1> QED BY <1>3, <1>4, <1>5 DEF CountInv

LEMMA NextCountInv == TypeInv /\ QueueInv /\ RowInv /\ CountInv /\ [Next]_vars => CountInv'
<1> SUFFICES ASSUME TypeInv, QueueInv, RowInv, CountInv, [Next]_vars PROVE CountInv'
  OBVIOUS
<1> USE DEF TypeInv, TypeOK
<1>1. CASE \E e \in Calls : Step(e)
  BY <1>1, StepCountInv
<1>2. CASE World \/ UNCHANGED vars
  <2>1. /\ \A x \in Rows : row'[x] = "none" <=> row[x] = "none"
        /\ \A x \in Rows : job'[x] = "none" <=> job[x] = "none"
        /\ pc' = pc /\ picked' = picked /\ chunk' = chunk
    BY <1>2 DEF World, WorkerSends, WorkerDrops, OptOut, JobForgotten, vars, messages, locals
  <2>2. LaunchedOnce' => LaunchedOnce
    BY <2>1, OnceBefore
  <2>3. IsFiniteSet(Sent) /\ Cardinality(Sent) \in Nat /\ sentCount \in Nat
    BY RowsFinite DEF Sent
  <2>4. CASE \E x \in Rows : WorkerSends(x)
    <3>1. PICK x \in Rows : WorkerSends(x)
      BY <2>4
    <3>2. Sent' = Sent \cup {x} /\ sentCount' = sentCount + 1
      BY <3>1 DEF WorkerSends, Sent
    <3>3. Cardinality(Sent \cup {x}) <= Cardinality(Sent) + 1 /\ Cardinality(Sent \cup {x}) \in Nat
      <4>1. /\ IsFiniteSet(Sent \cup {x})
            /\ Cardinality(Sent \cup {x}) = IF x \in Sent THEN Cardinality(Sent) ELSE Cardinality(Sent) + 1
        BY <2>3, FS_AddElement
      <4> QED BY <2>3, <4>1
    <3>4. LaunchedOnce' => Cardinality(Sent) <= sentCount
      BY <2>2 DEF CountInv
    <3>5. LaunchedOnce' => Cardinality(Sent') <= sentCount'
      BY ONLY <2>3, <3>2, <3>3, <3>4
    <3> QED BY <2>1, <2>2, <3>5 DEF CountInv, Rows
  <2>5. CASE ~\E x \in Rows : WorkerSends(x)
    <3>1. sentCount' = sentCount /\ Sent' = Sent
      BY <1>2, <2>5 DEF World, WorkerDrops, OptOut, JobForgotten, vars, messages, state, Sent
    <3> QED BY <2>1, <2>2, <3>1 DEF CountInv, Rows
  <2> QED BY <2>4, <2>5
<1> QED BY <1>1, <1>2 DEF Next, Step, World

\* A campaign launched once never reports fewer messages than it sent, although
\* the launch overwrites the counter the worker increments.
THEOREM CountersKeepUp == Spec => []NeverUnderreports
<1> DEFINE Inv == TypeInv /\ QueueInv /\ RowInv /\ CountInv
<1>1. Init => Inv
  BY InitTypeInv, InitQueueInv, InitRowInv, InitCountInv
<1>2. Inv /\ [Next]_vars => Inv'
  BY NextTypeInv, NextQueueInv, NextRowInv, NextCountInv
<1>3. Inv => NeverUnderreports
  BY DEF CountInv, NeverUnderreports, LaunchedOnce, Sent
<1> QED BY <1>1, <1>2, <1>3, PTL DEF Spec

-----------------------------------------------------------------------------
(* What becomes of a schedule: the safety half of ScheduledGoesOut.         *)

\* A scheduled campaign is in somebody's hand: its request is about to add the
\* job, or the job waits, or runs in a worker, unless it was never added, was
\* ignored, gave up or found nobody.
ScheduledInHand ==
    status = "SCHEDULED" =>
        \/ mute
        \/ \E e \in Calls : pc[e] = "add"
        \/ timer = "delayed"
        \/ timer = "active" /\ \E e \in Calls : kind[e] = "JOB" /\ Running(e)

\* The launch job is run by one worker at a time, and marked while it is.
WorksOn(e) == kind[e] = "JOB" /\ Running(e)
HandInv ==
    /\ \A e \in Calls : WorksOn(e) => timer = "active"
    /\ \A e, f \in Calls : WorksOn(e) /\ WorksOn(f) => e = f
    /\ timer = "active" => \E e \in Calls : WorksOn(e)
    /\ ScheduledInHand

\* What a step does to the launch job, and to a campaign that is scheduled.
LEMMA StepOfJob ==
    ASSUME TypeInv, NEW e \in Calls, Step(e)
    PROVE  \/ (WorksOn(e)' <=> WorksOn(e)) /\ timer' = timer
           \/ (WorksOn(e)' <=> WorksOn(e)) /\ timer = "none" /\ timer' = "delayed"
           \/ ~WorksOn(e) /\ WorksOn(e)' /\ timer = "delayed" /\ timer' = "active"
           \/ ~WorksOn(e) /\ ~WorksOn(e)' /\ timer = "delayed" /\ timer' \in {"delayed", "kept"} /\ status' = "ACTIVE"
           \/ /\ WorksOn(e) /\ ~WorksOn(e)'
              /\ timer' = "delayed" \/ (timer' = "kept" /\ (mute' \/ status' = "ACTIVE"))
<1> USE DEF TypeInv, TypeOK, WorksOn, Running, Steps, Goto
<1>0. kind' = kind
  BY DEF Step, Launch, Check, Update, Decide, Pause, ScheduleWrite, ScheduleAdd, ScheduleLost, LaunchRead, LaunchResolve,
     LaunchInsert, LaunchFetch, LaunchEnqueue, LaunchActivate, LaunchDies, locals
<1>1. CASE Check(e) \/ Update(e) \/ Decide(e) \/ Pause(e) \/ ScheduleWrite(e) \/ ScheduleAdd(e) \/ ScheduleLost(e)
  BY <1>0, <1>1 DEF Check, Update, Decide, Pause, ScheduleWrite, ScheduleAdd, ScheduleLost, schedule, KindInv
<1>2. CASE LaunchRead(e)
  BY <1>0, <1>2 DEF LaunchRead, Launchable, Launching, state
<1>3. CASE LaunchResolve(e)
  BY <1>0, <1>3 DEF LaunchResolve, Returns, Throws, AfterFailure
<1>4. CASE LaunchInsert(e) \/ LaunchFetch(e) \/ LaunchEnqueue(e)
  BY <1>0, <1>4 DEF LaunchInsert, LaunchFetch, LaunchEnqueue, schedule
<1>5. CASE LaunchActivate(e)
  BY <1>0, <1>5 DEF LaunchActivate, SetStatus, Returns
<1>6. CASE LaunchDies(e)
  BY <1>0, <1>6 DEF LaunchDies, Throws, AfterFailure
<1> QED BY <1>1, <1>2, <1>3, <1>4, <1>5, <1>6 DEF Step, Launch

LEMMA StepOfSchedule ==
    ASSUME TypeInv, NEW e \in Calls, Step(e)
    PROVE  /\ status' = "SCHEDULED" => status = "SCHEDULED" \/ pc'[e] = "add"
           /\ pc[e] = "add" => \/ timer' = "delayed" \/ mute'
                               \/ timer' = timer /\ timer = "active"
           /\ mute => mute'
<1> USE DEF TypeInv, TypeOK, Goto
<1>1. CASE Check(e) \/ Update(e) \/ Decide(e) \/ Pause(e) \/ ScheduleWrite(e) \/ ScheduleAdd(e) \/ ScheduleLost(e)
  BY <1>1 DEF Check, Update, Decide, Verdict, Pause, SetStatus, ScheduleWrite, ScheduleAdd, ScheduleLost, state, schedule, history
<1>2. CASE Launch(e) \/ LaunchDies(e)
  BY <1>2 DEF Launch, LaunchRead, LaunchResolve, LaunchInsert, LaunchFetch, LaunchEnqueue, LaunchActivate, LaunchDies,
     SetStatus, Running, Steps, state, history
<1> QED BY <1>1, <1>2 DEF Step

LEMMA StepHand ==
    ASSUME TypeInv, HandInv, NEW e \in Calls, Step(e)
    PROVE  HandInv'
<1>1. \A f \in Calls \ {e} : (WorksOn(f)' <=> WorksOn(f)) /\ pc'[f] = pc[f]
  <2>1. kind' = kind /\ \A f \in Calls \ {e} : pc'[f] = pc[f]
    BY DEF Step, Launch, Check, Update, Decide, Pause, ScheduleWrite, ScheduleAdd, ScheduleLost, LaunchRead, LaunchResolve,
       LaunchInsert, LaunchFetch, LaunchEnqueue, LaunchActivate, LaunchDies, Goto, locals, TypeInv, TypeOK
  <2> QED BY <2>1 DEF WorksOn, Running
<1>2. \/ (WorksOn(e)' <=> WorksOn(e)) /\ timer' = timer
      \/ (WorksOn(e)' <=> WorksOn(e)) /\ timer = "none" /\ timer' = "delayed"
      \/ ~WorksOn(e) /\ WorksOn(e)' /\ timer = "delayed" /\ timer' = "active"
      \/ ~WorksOn(e) /\ ~WorksOn(e)' /\ timer = "delayed" /\ timer' \in {"delayed", "kept"} /\ status' = "ACTIVE"
      \/ /\ WorksOn(e) /\ ~WorksOn(e)'
         /\ timer' = "delayed" \/ (timer' = "kept" /\ (mute' \/ status' = "ACTIVE"))
  BY StepOfJob
<1>3. /\ \A f \in Calls : WorksOn(f)' => timer' = "active"
      /\ \A f, g \in Calls : WorksOn(f)' /\ WorksOn(g)' => f = g
      /\ timer' = "active" => \E f \in Calls : WorksOn(f)'
  BY <1>1, <1>2 DEF HandInv
<1>4. ScheduledInHand'
  <2>1. /\ status' = "SCHEDULED" => status = "SCHEDULED" \/ pc'[e] = "add"
        /\ pc[e] = "add" => timer' = "delayed" \/ mute' \/ (timer' = timer /\ timer = "active")
        /\ mute => mute'
    BY StepOfSchedule
  <2> SUFFICES ASSUME status' = "SCHEDULED"
               PROVE  mute' \/ (\E f \in Calls : pc'[f] = "add") \/ timer' \in {"delayed", "active"}
    BY <1>3 DEF ScheduledInHand, WorksOn
  <2>2. CASE pc'[e] = "add"
    BY <2>2
  <2>3. CASE status = "SCHEDULED"
    BY <1>1, <1>2, <2>1, <2>3 DEF HandInv, ScheduledInHand
  <2> QED BY <2>1, <2>2, <2>3
<1> QED BY <1>3, <1>4 DEF HandInv

LEMMA WorldHand == HandInv /\ (World \/ UNCHANGED vars) => HandInv'
<1> SUFFICES ASSUME HandInv, World \/ UNCHANGED vars PROVE HandInv'
  OBVIOUS
<1>1. UNCHANGED <<status, pc, kind, mute>> /\ (timer' = timer \/ (timer = "kept" /\ timer' = "none"))
  BY DEF World, WorkerSends, WorkerDrops, OptOut, JobForgotten, vars, state, messages, schedule, locals, history
<1> QED BY <1>1 DEF HandInv, ScheduledInHand, WorksOn, Running

\* As long as a campaign is SCHEDULED its launch job is being added, waits or
\* runs, unless a failure struck between the status and the queue, or the job
\* was ignored, gave up or found nobody.
THEOREM SchedulesStayInHand == Spec => []ScheduledInHand
<1>1. Init => HandInv
  BY DEF Init, HandInv, ScheduledInHand, WorksOn, Running, Steps
<1>2. TypeInv /\ HandInv /\ [Next]_vars => HandInv'
  BY StepHand, WorldHand DEF Next, Step, World
<1>3. HandInv => ScheduledInHand
  BY DEF HandInv
<1> QED BY InitTypeInv, NextTypeInv, <1>1, <1>2, <1>3, PTL DEF Spec
=============================================================================
