-------------------------- MODULE WhatsAppSession --------------------------
(***************************************************************************)
(* The WhatsApp connection of one business in baileys-service: at most one *)
(* entry in the sessions map, a start that tears the old socket down and   *)
(* makes a new one over several awaits, the close handler of every socket, *)
(* a bounded number of reconnects behind a timer, and the flag that tells  *)
(* a deliberate close from a lost connection.                              *)
(*                                                                         *)
(* The flag belongs to the business, not to a socket, and stays up for two *)
(* seconds; the close event of a socket that was ended comes when the      *)
(* server has answered, before or after that.  Everything here but the     *)
(* credentials is memory of one process.                                   *)
(***************************************************************************)
EXTENDS Integers, FiniteSets

CONSTANTS
    MaxReconnects,  \* MAX_RECONNECTS
    MaxSockets,     \* bound on the sockets made
    MaxDrops,       \* bound on the connections the server or the network closes
    MaxCommands,    \* bound on the clicks on connect and disconnect
    MaxFaults       \* bound on calls to Redis that fail and on restarts

Sockets == 1..MaxSockets
NoSocket == 0

ASSUME ConstantsAssumption ==
    /\ MaxReconnects \in Nat \ {0}
    /\ MaxSockets \in Nat /\ MaxDrops \in Nat /\ MaxCommands \in Nat /\ MaxFaults \in Nat

VARIABLES
    session,     \* sessions: the socket in the map
    start,       \* startBaileysSession: where it is; starting has the business unless idle
    fresh,       \* its forceFresh
    linked,      \* the credentials it read
    saved,       \* credentials are stored in Redis
    net,         \* net[s]: the connection of socket s
    status,      \* status[s]: the status of its session object
    handler,     \* handler[s]: the await its close handler is at
    manualStop,  \* manualStop has the business
    releases,    \* timers that will take it out again
    loggingOut,  \* loggingOut has the business
    timer,       \* reconnectTimers has the business
    attempts,    \* reconnectAttempts
    made, drops, commands, faults,  \* counters of the bounds
    skipped,     \* history: sockets that got no reconnect because of another
    late,        \* history: close handlers that went on when the entry was another's
    fired        \* history: reconnects since the last success, click or restart

memory == <<session, start, fresh, linked>>
flags == <<manualStop, releases, loggingOut>>
retry == <<timer, attempts>>
bounds == <<made, drops, commands, faults>>
history == <<skipped, late, fired>>
vars == <<memory, saved, net, status, handler, flags, retry, bounds, history>>

Live == {"linking", "resuming", "open"}

TypeOK ==
    /\ session \in {NoSocket} \cup Sockets
    /\ start \in {"idle", "stopped", "cleared", "read"} /\ fresh \in BOOLEAN /\ linked \in BOOLEAN
    /\ saved \in BOOLEAN
    /\ net \in [Sockets -> {"none", "ended", "closed"} \cup Live]
    /\ status \in [Sockets -> {"STOPPED", "STARTING", "SCAN_QR_CODE", "WORKING", "FAILED"}]
    /\ handler \in [Sockets -> {"none", "creds", "clearing"}]
    /\ manualStop \in BOOLEAN /\ releases \in Nat /\ loggingOut \in BOOLEAN
    /\ timer \in BOOLEAN /\ attempts \in 0..MaxReconnects
    /\ made \in 0..MaxSockets /\ drops \in 0..MaxDrops
    /\ commands \in 0..MaxCommands /\ faults \in 0..MaxFaults
    /\ skipped \subseteq Sockets /\ late \subseteq Sockets /\ fired \in Nat

Init ==
    /\ session = NoSocket /\ start = "idle" /\ fresh = FALSE /\ linked = FALSE
    /\ saved \in BOOLEAN
    /\ net = [s \in Sockets |-> "none"]
    /\ status = [s \in Sockets |-> "STOPPED"]
    /\ handler = [s \in Sockets |-> "none"]
    /\ manualStop = FALSE /\ releases = 0 /\ loggingOut = FALSE
    /\ timer = FALSE /\ attempts = 0
    /\ made = 0 /\ drops = 0 /\ commands = 0 /\ faults = 0
    /\ skipped = {} /\ late = {} /\ fired = 0

-----------------------------------------------------------------------------
(* What the code decides on.  X_Fault is a plausible bug in X, which no     *)
(* action uses.                                                            *)

\* getBaileysStatus.
Status == IF session = NoSocket THEN "STOPPED" ELSE status[session]

\* The guard against overlapping starts.
Startable_Fault == start = "idle" /\ session = NoSocket
Startable == start = "idle"

\* Reconnects that are left after a failures.
Exhausted(a) == a > MaxReconnects

\* Only a forced start forgets the failures.
AttemptsAfterStart_Fault(f) == 0
AttemptsAfterStart(f) == IF f THEN 0 ELSE attempts

\* A close is taken for deliberate while the flag is up.
Ignored == manualStop

-----------------------------------------------------------------------------
(* stopBaileysSession, up to its first await, and startBaileysSession.      *)

\* The entry leaves the map, its socket is ended, the flag goes up, and a
\* timer to take it down is set.
TearDown ==
    /\ timer' = FALSE
    /\ session' = NoSocket
    /\ IF session = NoSocket
       THEN UNCHANGED <<net, manualStop, releases>>
       ELSE /\ net' = [net EXCEPT ![session] = IF @ \in Live THEN "ended" ELSE @]
            /\ manualStop' = TRUE /\ releases' = releases + 1

\* A start runs up to its first await; while another is under way it returns.
Begin(f) ==
    IF Startable
    THEN TearDown /\ start' = "stopped" /\ fresh' = f
    ELSE UNCHANGED <<session, start, fresh, net, manualStop, releases>>

\* With forceFresh it deletes the stored credentials; a failure is ignored.
ClearAuth ==
    /\ start = "stopped"
    /\ start' = "cleared"
    /\ \/ saved' = (saved /\ ~fresh) /\ UNCHANGED faults
       \/ fresh /\ faults < MaxFaults /\ faults' = faults + 1 /\ UNCHANGED saved
    /\ attempts' = AttemptsAfterStart(fresh)
    /\ UNCHANGED <<session, fresh, linked, net, status, handler, flags, timer, made, drops, commands, history>>

\* A read that fails counts as no credentials.
ReadAuth ==
    /\ start = "cleared"
    /\ start' = "read"
    /\ \/ linked' = saved /\ UNCHANGED faults
       \/ faults < MaxFaults /\ faults' = faults + 1 /\ linked' = FALSE
    /\ UNCHANGED <<session, fresh, saved, net, status, handler, flags, retry, made, drops, commands, history>>

\* The entry is set and its socket is made.
Make ==
    /\ start = "read" /\ made < MaxSockets
    /\ made' = made + 1
    /\ session' = made'
    /\ net' = [net EXCEPT ![made'] = IF linked THEN "resuming" ELSE "linking"]
    /\ status' = [status EXCEPT ![made'] = "STARTING"]
    /\ start' = "idle"
    /\ UNCHANGED <<fresh, linked, saved, handler, flags, retry, drops, commands, faults, history>>

\* Connect: nothing while the session works or, if the code is not expired,
\* waits for its scan; else a forced start.
Connect ==
    /\ commands < MaxCommands
    /\ commands' = commands + 1
    /\ Status # "WORKING"
    /\ Begin(TRUE)
    /\ IF Startable THEN fired' = 0 ELSE UNCHANGED <<timer, fired>>
    /\ UNCHANGED <<linked, saved, status, handler, loggingOut, attempts, made, drops, faults, skipped, late>>

Disconnect ==
    /\ commands < MaxCommands
    /\ commands' = commands + 1
    /\ TearDown
    /\ UNCHANGED <<start, fresh, linked, saved, status, handler, loggingOut, attempts, made, drops, faults, history>>

\* The reconnect timer.
TimerFires ==
    /\ timer
    /\ timer' = FALSE
    /\ Begin(FALSE)
    /\ fired' = IF Startable THEN fired + 1 ELSE fired
    /\ UNCHANGED <<linked, saved, status, handler, loggingOut, attempts, bounds, skipped, late>>

\* The two seconds after a stop are over.
Release ==
    /\ releases > 0
    /\ releases' = releases - 1 /\ manualStop' = FALSE
    /\ UNCHANGED <<memory, saved, net, status, handler, loggingOut, retry, bounds, history>>

-----------------------------------------------------------------------------
(* connection.update.                                                      *)

Qr(s) ==
    /\ net[s] = "linking"
    /\ status' = [status EXCEPT ![s] = "SCAN_QR_CODE"]
    /\ UNCHANGED <<memory, saved, net, handler, flags, retry, bounds, history>>

\* creds.update: the code is scanned; the server then asks for a restart.
Pair(s) ==
    /\ net[s] = "linking" /\ status[s] = "SCAN_QR_CODE"
    /\ saved' = TRUE
    /\ UNCHANGED <<memory, net, status, handler, flags, retry, bounds, history>>

Opens(s) ==
    /\ net[s] = "resuming"
    /\ net' = [net EXCEPT ![s] = "open"]
    /\ status' = [status EXCEPT ![s] = "WORKING"]
    /\ attempts' = 0 /\ timer' = FALSE /\ fired' = 0
    /\ skipped' = IF timer /\ session \notin {s, NoSocket} THEN skipped \cup {session} ELSE skipped
    /\ UNCHANGED <<memory, saved, handler, flags, bounds, late>>

\* The close handler up to its first await.
OnClose(s, loggedOut) ==
    /\ net' = [net EXCEPT ![s] = "closed"]
    /\ IF Ignored \/ (loggedOut /\ loggingOut)
       THEN /\ skipped' = IF net[s] = "ended" THEN skipped ELSE skipped \cup {s}
            /\ UNCHANGED <<session, status, handler, loggingOut, retry>>
       ELSE /\ handler' = [handler EXCEPT ![s] = IF loggedOut THEN "clearing" ELSE "creds"]
            /\ IF loggedOut
               THEN /\ loggingOut' = TRUE
                    /\ status' = [status EXCEPT ![s] = "STOPPED"]
                    /\ session' = NoSocket /\ timer' = FALSE /\ attempts' = 0
               ELSE UNCHANGED <<session, status, loggingOut, retry>>
            /\ UNCHANGED skipped
    /\ UNCHANGED <<start, fresh, linked, saved, manualStop, releases, late, fired>>

\* The server or the network closes a connection; only one with credentials
\* can be logged out.
Drops(s) ==
    /\ net[s] \in Live /\ drops < MaxDrops
    /\ drops' = drops + 1
    /\ \E loggedOut \in BOOLEAN : (loggedOut => net[s] # "linking") /\ OnClose(s, loggedOut)
    /\ UNCHANGED <<made, commands, faults>>

\* The close event of a socket that was ended.
EndedCloses(s) ==
    /\ net[s] = "ended"
    /\ OnClose(s, FALSE)
    /\ UNCHANGED bounds

\* The second half after a log-out: the stored credentials go, unless Redis
\* fails, which clearAuthState ignores.
LogOutEnds(s) ==
    /\ handler[s] = "clearing"
    /\ handler' = [handler EXCEPT ![s] = "none"]
    /\ \/ saved' = FALSE /\ UNCHANGED faults
       \/ faults < MaxFaults /\ faults' = faults + 1 /\ UNCHANGED saved
    /\ loggingOut' = FALSE
    /\ UNCHANGED <<memory, net, status, manualStop, releases, retry, made, drops, commands, history>>

\* The second half after any other close: without credentials, or after too
\* many failures, the entry goes; else a reconnect is set.
Resumes(s) ==
    /\ handler[s] = "creds"
    /\ handler' = [handler EXCEPT ![s] = "none"]
    /\ late' = IF session = s THEN late ELSE late \cup {s}
    /\ \E found \in {saved, FALSE} :
        /\ faults' = faults + (IF found = saved THEN 0 ELSE 1) /\ faults' <= MaxFaults
        /\ \/ /\ ~found
              /\ session' = NoSocket /\ timer' = FALSE
              /\ status' = [status EXCEPT ![s] = "STOPPED"]
              /\ UNCHANGED attempts
           \/ /\ found /\ Exhausted(attempts + 1)
              /\ session' = NoSocket /\ timer' = FALSE /\ attempts' = 0
              /\ status' = [status EXCEPT ![s] = "FAILED"]
           \/ /\ found /\ ~Exhausted(attempts + 1)
              /\ timer' = TRUE /\ attempts' = attempts + 1
              /\ status' = [status EXCEPT ![s] = "STARTING"]
              /\ UNCHANGED session
    /\ UNCHANGED <<start, fresh, linked, saved, net, flags, made, drops, commands, skipped, fired>>

-----------------------------------------------------------------------------

\* The process dies; bootBaileySessions starts what has credentials.
Restart ==
    /\ faults < MaxFaults
    /\ faults' = faults + 1
    /\ session' = NoSocket /\ fresh' = FALSE
    /\ start' = IF saved THEN "stopped" ELSE "idle"
    /\ net' = [s \in Sockets |-> IF net[s] = "none" THEN "none" ELSE "closed"]
    /\ handler' = [s \in Sockets |-> "none"]
    /\ manualStop' = FALSE /\ releases' = 0 /\ loggingOut' = FALSE
    /\ timer' = FALSE /\ attempts' = 0
    /\ skipped' = {} /\ late' = {} /\ fired' = 0
    /\ UNCHANGED <<linked, saved, status, made, drops, commands>>

Next ==
    \/ ClearAuth \/ ReadAuth \/ Make
    \/ Connect \/ Disconnect \/ TimerFires \/ Release \/ Restart
    \/ \E s \in Sockets :
        Qr(s) \/ Pair(s) \/ Opens(s) \/ Drops(s) \/ EndedCloses(s) \/ LogOutEnds(s) \/ Resumes(s)

Spec == Init /\ [][Next]_vars

-----------------------------------------------------------------------------
(* Properties.                                                             *)

\* The session in the map has lost its connection and nothing is on its way
\* to give it another.
Dead ==
    /\ session # NoSocket /\ net[session] = "closed" /\ handler[session] = "none"
    /\ ~timer /\ start = "idle"

\* A business is left with a dead session only if its close was taken for the
\* deliberate close, or the log-out, of an earlier socket, or if an earlier
\* socket cancelled the reconnect.
DeadSessionExplained == Dead => session \in skipped

\* A connection that keeps failing is tried MaxReconnects times and then
\* given up, unless the close of a socket that was replaced came late.
ReconnectsBounded == fired > MaxReconnects => late # {}

\* "Transient disconnect on a *linked* session - bounded reconnect."
LostSessionReconnects == ~Dead
=============================================================================
