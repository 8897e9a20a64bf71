------------------------------ MODULE Campaign ------------------------------
(***************************************************************************)
(* One campaign of a tenant: its status, the requests that approve, edit,  *)
(* schedule, pause and launch it, the delayed BullMQ job of a schedule,    *)
(* and the MessageQueue rows and message jobs a launch leaves behind.      *)
(*                                                                         *)
(* Every request reads the status, decides, and writes it by id in a later *)
(* statement.  A launch takes many: it reads the campaign, resolves the    *)
(* audience, inserts the rows chunk by chunk and fetches each chunk back,  *)
(* adds the jobs, and only then marks the campaign ACTIVE.  It can die     *)
(* between any two of them.  The life of a message after its job was added *)
(* is in MessageDelivery; here it is sent or dropped in one step.          *)
(***************************************************************************)
EXTENDS Integers, FiniteSets

CONSTANTS
    Customers,  \* customers, numbered in the order a query returns them
    Calls,      \* requests and runs of the launch job in the behaviour
    Scenarios,  \* what each call may be, in [Calls -> Kinds]
    Chunk,      \* rows inserted and jobs added by one statement (500 in the code)
    Attempts,   \* BullMQ attempts of the launch job (3 in the code)
    Quota,      \* messages left in the tenant's month at the start
    MaxDeaths   \* bound on launches and schedules that die half-way

Kinds == {"LAUNCH", "JOB", "SCHEDULE", "PAUSE", "UPDATE", "APPROVE", "REJECT"}
Launching == {"LAUNCH", "JOB"}

ASSUME ConstantsAssumption ==
    /\ Scenarios \subseteq [Calls -> Kinds]
    /\ Customers \subseteq Nat /\ IsFiniteSet(Customers) /\ IsFiniteSet(Calls)
    /\ Chunk \in Nat \ {0} /\ Attempts \in Nat \ {0}
    /\ Quota \in Nat /\ MaxDeaths \in Nat

VARIABLES
    status,    \* Campaign.status
    content,   \* number of edits so far
    sentCount, \* Campaign.sentCount
    eligible,  \* customers of the segment who may be written to
    row,       \* row[<<e, c>>]: status of the row launch e made for c
    job,       \* job[<<e, c>>]: the job msg-<id> of that row
    timer,     \* the job launch-<id>
    tries,     \* attempts the launch job has begun
    pc, kind,  \* where each call is, and what it does
    text,      \* text[e]: the content launch e read
    left,      \* left[e]: records still to insert
    chunk,     \* chunk[e]: customers whose rows were just inserted
    picked,    \* picked[e]: the jobs of e
    gated,     \* the owner had to approve the campaign
    approved,  \* history: contents the owner has approved
    audience,  \* history: whom launch e was to reach
    excuses,   \* history: why the campaign may be launched again
    mute,      \* history: a launch job was never added, was ignored, gave up or found nobody
    deaths     \* number of launches and schedules that were cut short

state == <<status, content, sentCount>>
messages == <<row, job>>
schedule == <<timer, tries>>
locals == <<kind, text, left, chunk, picked>>
history == <<gated, approved, audience, excuses, mute, deaths>>
vars == <<state, eligible, messages, schedule, pc, locals, history>>

Rows == Calls \X Customers
Steps == {"resolve", "insert", "fetch", "enqueue"}

TypeOK ==
    /\ status \in {"DRAFT", "PENDING_APPROVAL", "REJECTED", "SCHEDULED", "ACTIVE", "PAUSED"}
    /\ content \in Nat /\ sentCount \in Nat
    /\ eligible \subseteq Customers
    /\ row \in [Rows -> {"none", "PENDING", "SENT", "DROPPED"}]
    /\ job \in [Rows -> {"none", "waiting", "kept"}]
    /\ timer \in {"none", "delayed", "active", "kept"}
    /\ tries \in 0..Attempts
    /\ pc \in [Calls -> {"idle", "checked", "add", "done", "refused", "nobody", "dead"} \cup Steps]
    /\ kind \in [Calls -> Kinds]
    /\ text \in [Calls -> Nat]
    /\ left \in [Calls -> SUBSET Customers] /\ chunk \in [Calls -> SUBSET Customers]
    /\ picked \in [Calls -> SUBSET Rows]
    /\ gated \in BOOLEAN /\ approved \subseteq Nat
    /\ audience \in [Calls -> SUBSET Customers]
    /\ excuses \subseteq {"overlap", "death", "reopened"}
    /\ mute \in BOOLEAN /\ deaths \in 0..MaxDeaths

\* createCampaign: DRAFT, or PENDING_APPROVAL when marketing staff of a tenant
\* with requiresCampaignApproval made it.
Init ==
    /\ gated \in BOOLEAN
    /\ status = IF gated THEN "PENDING_APPROVAL" ELSE "DRAFT"
    /\ content = 0 /\ sentCount = 0
    /\ eligible = Customers
    /\ row = [x \in Rows |-> "none"] /\ job = [x \in Rows |-> "none"]
    /\ timer = "none" /\ tries = 0
    /\ pc = [e \in Calls |-> "idle"]
    /\ kind \in Scenarios
    /\ text = [e \in Calls |-> 0]
    /\ left = [e \in Calls |-> {}] /\ chunk = [e \in Calls |-> {}]
    /\ picked = [e \in Calls |-> {}]
    /\ approved = {} /\ audience = [e \in Calls |-> {}]
    /\ excuses = {} /\ mute = FALSE /\ deaths = 0

-----------------------------------------------------------------------------
(* What the handlers decide on.  X_Fault is a plausible bug in X, which no  *)
(* action uses.                                                            *)

Goto(e, l) == pc' = [pc EXCEPT ![e] = l]
Running(e) == pc[e] \in Steps

\* launchCampaign refuses an ACTIVE campaign; no code writes COMPLETED.
Launchable_Fault == TRUE
Launchable == status # "ACTIVE"

\* assertQuotaHeadroom: each message sent has taken one of the quota.
Headroom(n) == n <= Quota - Cardinality({x \in Rows : row[x] = "SENT"})

\* The rows the fetch after an insert finds: pending, of the customers of the
\* chunk, created since a second before the insert.  The age of a row is not
\* modelled: rows of other launches may be young enough, or not.
Fetchable_Fault(e) == {T \in SUBSET {x \in Rows : row[x] = "PENDING" /\ x[2] \in chunk[e]} :
                         \A x, y \in T : x[2] = y[2] => x = y}
Fetchable(e) ==
    LET found == {x \in Rows : row[x] = "PENDING" /\ x[2] \in chunk[e]} IN
    {T \in SUBSET found : {x \in found : x[1] = e} \subseteq T}

\* What the owner's decision makes of the campaign.
Verdict(e) == IF kind[e] = "APPROVE" THEN "DRAFT" ELSE "REJECTED"

\* The counter a finished launch writes over what the worker counted.
Counted_Fault(e) == 0
Counted(e) == Cardinality(picked[e])

\* The launch job is done with: it is kept, or run again while attempts last.
AfterFailure_Fault == "active"
AfterFailure == IF tries < Attempts THEN "delayed" ELSE "kept"

\* The first Chunk of the customers in S.
Batch(S) == {c \in S : Cardinality({d \in S : d <= c}) <= Chunk}

\* Writing the status: a campaign that leaves ACTIVE can be launched again.
SetStatus(s) ==
    /\ status' = s
    /\ excuses' = IF status = "ACTIVE" /\ s # "ACTIVE" THEN excuses \cup {"reopened"} ELSE excuses

-----------------------------------------------------------------------------
(* The requests of the editor, the marketing staff and the owner.          *)

\* Each reads the status and decides.
Check(e) ==
    /\ pc[e] = "idle" /\ kind[e] \in {"SCHEDULE", "UPDATE", "APPROVE", "REJECT"}
    /\ Goto(e, IF \/ kind[e] \in {"SCHEDULE", "UPDATE"} /\ status # "ACTIVE"
                  \/ kind[e] \in {"APPROVE", "REJECT"} /\ status = "PENDING_APPROVAL"
               THEN "checked" ELSE "refused")
    /\ UNCHANGED <<state, eligible, messages, schedule, locals, history>>

Update(e) ==
    /\ pc[e] = "checked" /\ kind[e] = "UPDATE"
    /\ content' = content + 1
    /\ Goto(e, "done")
    /\ UNCHANGED <<status, sentCount, eligible, messages, schedule, locals, history>>

Decide(e) ==
    /\ pc[e] = "checked" /\ kind[e] \in {"APPROVE", "REJECT"}
    /\ SetStatus(Verdict(e))
    /\ approved' = IF kind[e] = "APPROVE" THEN approved \cup {content} ELSE approved
    /\ Goto(e, "done")
    /\ UNCHANGED <<content, sentCount, eligible, messages, schedule, locals, gated, audience, mute, deaths>>

\* pauseCampaign reads nothing and stops no job.
Pause(e) ==
    /\ pc[e] = "idle" /\ kind[e] = "PAUSE"
    /\ SetStatus("PAUSED")
    /\ Goto(e, "done")
    /\ UNCHANGED <<content, sentCount, eligible, messages, schedule, locals, gated, approved, audience, mute, deaths>>

\* scheduleCampaign writes the status, then adds the delayed job.
ScheduleWrite(e) ==
    /\ pc[e] = "checked" /\ kind[e] = "SCHEDULE"
    /\ SetStatus("SCHEDULED")
    /\ Goto(e, "add")
    /\ UNCHANGED <<content, sentCount, eligible, messages, schedule, locals, gated, approved, audience, mute, deaths>>

\* A job id that BullMQ still holds, delayed, running or kept, is not added
\* again: an earlier schedule's time stays, a kept job never runs.
ScheduleAdd(e) ==
    /\ pc[e] = "add"
    /\ \/ timer = "none" /\ timer' = "delayed" /\ tries' = 0 /\ UNCHANGED mute
       \/ timer # "none" /\ UNCHANGED schedule /\ mute' = (mute \/ timer = "kept")
    /\ Goto(e, "done")
    /\ UNCHANGED <<state, eligible, messages, locals, gated, approved, audience, excuses, deaths>>

\* Redis refuses the job, or the process stops before it: SCHEDULED is written,
\* and only an earlier schedule's job can still launch the campaign.
ScheduleLost(e) ==
    /\ pc[e] = "add" /\ deaths < MaxDeaths
    /\ deaths' = deaths + 1
    /\ mute' = (mute \/ timer \in {"none", "kept"})
    /\ Goto(e, "dead")
    /\ UNCHANGED <<state, eligible, messages, schedule, locals, gated, approved, audience, excuses>>

-----------------------------------------------------------------------------
(* launchCampaign.                                                         *)

\* It throws: the job is tried again or kept, a request just fails.
Throws(e) ==
    timer' = IF kind[e] = "JOB" THEN AfterFailure ELSE timer

\* It ends well: the launch job is kept.
Returns(e) ==
    timer' = IF kind[e] = "JOB" THEN "kept" ELSE timer

\* A request, or a worker that takes the due launch job, reads the campaign.
LaunchRead(e) ==
    /\ pc[e] = "idle" /\ kind[e] \in Launching
    /\ kind[e] = "JOB" => timer = "delayed"
    /\ tries' = IF kind[e] = "JOB" THEN tries + 1 ELSE tries
    /\ text' = [text EXCEPT ![e] = content]
    /\ \/ /\ Launchable
          /\ timer' = IF kind[e] = "JOB" THEN "active" ELSE timer
          /\ excuses' = IF \E f \in Calls \ {e} : Running(f) THEN excuses \cup {"overlap"} ELSE excuses
          /\ Goto(e, "resolve")
       \/ /\ ~Launchable
          /\ timer' = IF kind[e] = "JOB" THEN (IF tries' < Attempts THEN "delayed" ELSE "kept") ELSE timer
          /\ Goto(e, "refused")
          /\ UNCHANGED excuses
    /\ UNCHANGED <<state, eligible, messages, kind, left, chunk, picked, gated, approved, audience, mute, deaths>>

\* The audience is resolved and the quota looked at.
LaunchResolve(e) ==
    /\ pc[e] = "resolve"
    /\ left' = [left EXCEPT ![e] = eligible]
    /\ audience' = [audience EXCEPT ![e] = eligible]
    /\ CASE eligible = {} ->
              Goto(e, "nobody") /\ Returns(e) /\ mute' = (mute \/ kind[e] = "JOB")
         [] eligible # {} /\ ~Headroom(Cardinality(eligible)) ->
              Goto(e, "refused") /\ Throws(e) /\ mute' = (mute \/ timer' = "kept")
         [] OTHER ->
              Goto(e, "insert") /\ UNCHANGED <<timer, mute>>
    /\ UNCHANGED <<state, eligible, messages, tries, kind, text, chunk, picked, gated, approved, excuses, deaths>>

\* createMany of one chunk.
LaunchInsert(e) ==
    LET C == Batch(left[e]) IN
    /\ pc[e] = "insert"
    /\ row' = [x \in Rows |-> IF x \in {e} \X C THEN "PENDING" ELSE row[x]]
    /\ chunk' = [chunk EXCEPT ![e] = C]
    /\ left' = [left EXCEPT ![e] = @ \ C]
    /\ Goto(e, "fetch")
    /\ UNCHANGED <<state, eligible, job, schedule, kind, text, picked, history>>

\* findMany gives the ids back.
LaunchFetch(e) ==
    /\ pc[e] = "fetch"
    /\ \E T \in Fetchable(e) : picked' = [picked EXCEPT ![e] = @ \cup T]
    /\ chunk' = [chunk EXCEPT ![e] = {}]
    /\ Goto(e, IF left[e] = {} THEN "enqueue" ELSE "insert")
    /\ UNCHANGED <<state, eligible, messages, schedule, kind, text, left, history>>

\* addBulk, chunk by chunk; a job that exists is not added again.
LaunchEnqueue(e) ==
    LET missing == {x \in picked[e] : job[x] = "none"}
        C == Batch({x[2] : x \in missing}) IN
    /\ pc[e] = "enqueue" /\ missing # {}
    /\ job' = [x \in Rows |-> IF x \in missing /\ x[2] \in C THEN "waiting" ELSE job[x]]
    /\ UNCHANGED <<state, eligible, row, schedule, pc, locals, history>>

LaunchActivate(e) ==
    /\ pc[e] = "enqueue" /\ \A x \in picked[e] : job[x] # "none"
    /\ SetStatus("ACTIVE")
    /\ sentCount' = Counted(e)
    /\ Returns(e)
    /\ picked' = [picked EXCEPT ![e] = {}]
    /\ Goto(e, "done")
    /\ UNCHANGED <<content, eligible, messages, tries, kind, text, left, chunk, gated, approved, audience, mute, deaths>>

\* The process stops, or a statement fails: what was written stays.
LaunchDies(e) ==
    /\ Running(e) /\ deaths < MaxDeaths
    /\ deaths' = deaths + 1
    /\ Throws(e)
    /\ excuses' = IF \E c \in Customers : row[<<e, c>>] # "none" THEN excuses \cup {"death"} ELSE excuses
    /\ mute' = (mute \/ (kind[e] = "JOB" /\ timer' = "kept"))
    /\ left' = [left EXCEPT ![e] = {}]
    /\ chunk' = [chunk EXCEPT ![e] = {}]
    /\ picked' = [picked EXCEPT ![e] = {}]
    /\ Goto(e, "dead")
    /\ UNCHANGED <<state, eligible, messages, tries, kind, text, gated, approved, audience>>

Launch(e) ==
    \/ LaunchRead(e) \/ LaunchResolve(e) \/ LaunchInsert(e) \/ LaunchFetch(e)
    \/ LaunchEnqueue(e) \/ LaunchActivate(e)

-----------------------------------------------------------------------------
(* The rest of the world.                                                  *)

\* The worker sends a message, whatever the campaign's status, and counts it ...
WorkerSends(x) ==
    /\ job[x] = "waiting" /\ row[x] = "PENDING" /\ x[2] \in eligible
    /\ row' = [row EXCEPT ![x] = "SENT"]
    /\ job' = [job EXCEPT ![x] = "kept"]
    /\ sentCount' = sentCount + 1
    /\ UNCHANGED <<status, content, eligible, schedule, pc, locals, history>>

\* ... or finds that the customer has opted out meanwhile.
WorkerDrops(x) ==
    /\ job[x] = "waiting" /\ row[x] = "PENDING" /\ x[2] \notin eligible
    /\ row' = [row EXCEPT ![x] = "DROPPED"]
    /\ job' = [job EXCEPT ![x] = "kept"]
    /\ UNCHANGED <<state, eligible, schedule, pc, locals, history>>

\* A customer opts out.
OptOut(c) ==
    /\ c \in eligible
    /\ eligible' = eligible \ {c}
    /\ UNCHANGED <<state, messages, schedule, pc, locals, history>>

\* removeOnComplete, removeOnFail: a day, a week later the job id is free.
JobForgotten ==
    /\ timer = "kept"
    /\ timer' = "none"
    /\ UNCHANGED <<state, eligible, messages, tries, pc, locals, history>>

Next ==
    \/ \E e \in Calls :
         \/ Check(e) \/ Update(e) \/ Decide(e) \/ Pause(e) \/ ScheduleWrite(e) \/ ScheduleAdd(e)
         \/ ScheduleLost(e)
         \/ Launch(e) \/ LaunchDies(e)
    \/ \E x \in Rows : WorkerSends(x) \/ WorkerDrops(x)
    \/ \E c \in Customers : OptOut(c)
    \/ JobForgotten

Spec == Init /\ [][Next]_vars

\* A request goes on, to its end or to its death; BullMQ runs the launch job when
\* it is due.
Fairness == \A e \in Calls : WF_vars(Launch(e)) /\ WF_vars(ScheduleAdd(e) \/ ScheduleLost(e))
FairSpec == Spec /\ Fairness

-----------------------------------------------------------------------------
(* Properties.                                                             *)

HasRows(e) == \E c \in Customers : row[<<e, c>>] # "none"

\* A launch that has marked the campaign ACTIVE left a job for everyone it was
\* to reach, however its inserts, fetches and jobs were mixed with another's.
LaunchedAllQueued ==
    \A e \in Calls : kind[e] \in Launching /\ pc[e] = "done" =>
        \A c \in audience[e] : job[<<e, c>>] # "none"

\* Two launches write to customers only if one began while the other was under
\* way, if the first died half-way, or if somebody took the campaign out of
\* ACTIVE.
RepeatNeedsExcuse ==
    \A e, f \in Calls : HasRows(e) /\ HasRows(f) => e = f \/ excuses # {}

\* A campaign launched once reports at least the messages it sent, although a
\* launch overwrites the counter the worker increments meanwhile.
NeverUnderreports ==
    (\A e, f \in Calls : HasRows(e) /\ HasRows(f) => e = f) =>
        Cardinality({x \in Rows : row[x] = "SENT"}) <= sentCount

\* A scheduled campaign goes out, or is taken off the schedule, unless its job
\* was lost between the status and the queue, was ignored because an old one is
\* kept, gave up, or found nobody to write to.
ScheduledGoesOut == (status = "SCHEDULED") ~> (status # "SCHEDULED" \/ mute)

\* CRM.tsx:6382: campaigns that need approval must be approved before launch.
OnlyApprovedSent ==
    gated => \A x \in Rows : row[x] = "SENT" => text[x[1]] \in approved
=============================================================================
