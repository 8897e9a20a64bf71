----------------------- MODULE WhatsAppSession_proofs -----------------------
(***************************************************************************)
(* Theorems about WhatsAppSession, for any number of sockets, drops,        *)
(* commands, faults and reconnects.                                        *)
(***************************************************************************)
EXTENDS WhatsAppSession, TLAPS

LEMMA TearDownType ==
    ASSUME TypeOK, TearDown
    PROVE  /\ timer' = FALSE /\ session' = NoSocket
           /\ net' \in [Sockets -> {"none", "ended", "closed"} \cup Live]
           /\ manualStop' \in BOOLEAN /\ releases' \in Nat
<1>1. CASE session = NoSocket
  BY <1>1 DEF TearDown, TypeOK
<1>2. CASE session # NoSocket
  BY <1>2 DEF TearDown, TypeOK
<1> QED BY <1>1, <1>2

LEMMA BeginType ==
    ASSUME TypeOK, NEW f \in BOOLEAN, Begin(f)
    PROVE  /\ session' \in {NoSocket} \cup Sockets
           /\ start' \in {"idle", "stopped", "cleared", "read"} /\ fresh' \in BOOLEAN
           /\ net' \in [Sockets -> {"none", "ended", "closed"} \cup Live]
           /\ manualStop' \in BOOLEAN /\ releases' \in Nat
<1>1. CASE Startable
  BY <1>1, TearDownType DEF Begin
<1>2. CASE ~Startable
  BY <1>2 DEF Begin, TypeOK
<1> QED BY <1>1, <1>2

LEMMA OnCloseType ==
    ASSUME TypeOK, NEW s \in Sockets, NEW l \in BOOLEAN, OnClose(s, l)
    PROVE  /\ session' \in {NoSocket, session}
           /\ net' \in [Sockets -> {"none", "ended", "closed"} \cup Live]
           /\ status' \in [Sockets -> {"STOPPED", "STARTING", "SCAN_QR_CODE", "WORKING", "FAILED"}]
           /\ handler' \in [Sockets -> {"none", "creds", "clearing"}]
           /\ loggingOut' \in BOOLEAN /\ timer' \in BOOLEAN /\ attempts' \in 0..MaxReconnects
           /\ skipped' \subseteq Sockets
           /\ UNCHANGED <<start, fresh, linked, saved, manualStop, releases, late, fired>>
<1>0. MaxReconnects \in Nat
  BY ConstantsAssumption
<1>1. CASE Ignored \/ (l /\ loggingOut)
  <2>1. UNCHANGED <<session, status, handler, loggingOut, timer, attempts>> /\ skipped' \subseteq Sockets
    BY <1>1 DEF OnClose, TypeOK, retry
  <2> QED BY <2>1 DEF OnClose, TypeOK
<1>2. CASE ~(Ignored \/ (l /\ loggingOut)) /\ l
  <2>1. /\ loggingOut' = TRUE /\ session' = NoSocket /\ timer' = FALSE /\ attempts' = 0 /\ skipped' = skipped
        /\ status' = [status EXCEPT ![s] = "STOPPED"] /\ handler' = [handler EXCEPT ![s] = "clearing"]
    BY <1>2 DEF OnClose
  <2>2. net' = [net EXCEPT ![s] = "closed"]
        /\ UNCHANGED <<start, fresh, linked, saved, manualStop, releases, late, fired>>
    BY DEF OnClose
  <2>3. session' \in {NoSocket, session} /\ attempts' \in 0..MaxReconnects
    BY <1>0, <2>1
  <2>5. loggingOut' \in BOOLEAN /\ timer' \in BOOLEAN
    BY <2>1
  <2>4. /\ status' \in [Sockets -> {"STOPPED", "STARTING", "SCAN_QR_CODE", "WORKING", "FAILED"}]
        /\ handler' \in [Sockets -> {"none", "creds", "clearing"}] /\ skipped' \subseteq Sockets
        /\ net' \in [Sockets -> {"none", "ended", "closed"} \cup Live]
    BY <2>1, <2>2 DEF TypeOK
  <2> QED BY <2>2, <2>3, <2>4, <2>5
<1>3. CASE ~(Ignored \/ (l /\ loggingOut)) /\ ~l
  BY <1>0, <1>3 DEF OnClose, TypeOK, retry
<1> QED BY <1>1, <1>2, <1>3

LEMMA ResumesType ==
    ASSUME TypeOK, NEW s \in Sockets, Resumes(s)
    PROVE  TypeOK'
<1>0. MaxReconnects \in Nat /\ MaxFaults \in Nat
  BY ConstantsAssumption
<1>1. PICK found \in {saved, FALSE} :
        /\ faults' = faults + (IF found = saved THEN 0 ELSE 1) /\ faults' <= MaxFaults
        /\ \/ /\ ~found
              /\ session' = NoSocket /\ timer' = FALSE
              /\ status' = [status EXCEPT ![s] = "STOPPED"]
              /\ UNCHANGED attempts
           \/ /\ found /\ Exhausted(attempts + 1)
              /\ session' = NoSocket /\ timer' = FALSE /\ attempts' = 0
              /\ status' = [status EXCEPT ![s] = "FAILED"]
           \/ /\ found /\ ~Exhausted(attempts + 1)
              /\ timer' = TRUE /\ attempts' = attempts + 1
              /\ status' = [status EXCEPT ![s] = "STARTING"]
              /\ UNCHANGED session
  BY DEF Resumes
<1>2. faults' \in 0..MaxFaults
  BY <1>0, <1>1 DEF TypeOK
<1>3. /\ session' \in {NoSocket} \cup Sockets /\ timer' \in BOOLEAN
      /\ status' \in [Sockets -> {"STOPPED", "STARTING", "SCAN_QR_CODE", "WORKING", "FAILED"}]
  BY <1>1 DEF TypeOK
<1>4. attempts' \in 0..MaxReconnects
  BY <1>0, <1>1 DEF TypeOK, Exhausted
<1>5. /\ handler' \in [Sockets -> {"none", "creds", "clearing"}] /\ late' \subseteq Sockets
      /\ UNCHANGED <<start, fresh, linked, saved, net, manualStop, releases, loggingOut,
                     made, drops, commands, skipped, fired>>
  BY DEF Resumes, TypeOK, flags
<1> QED BY <1>2, <1>3, <1>4, <1>5 DEF TypeOK

LEMMA TypeStep ==
    ASSUME TypeOK, [Next]_vars
    PROVE  TypeOK'
<1>0. /\ MaxReconnects \in Nat \ {0} /\ MaxSockets \in Nat /\ MaxDrops \in Nat
      /\ MaxCommands \in Nat /\ MaxFaults \in Nat
  BY ConstantsAssumption
<1>1. CASE ClearAuth
  <2>1. saved' \in BOOLEAN
    BY <1>1, Zenon DEF ClearAuth, TypeOK
  <2>2. faults' \in 0..MaxFaults
    <3>1. faults' = faults \/ (faults < MaxFaults /\ faults' = faults + 1)
      BY <1>1, Zenon DEF ClearAuth
    <3> QED BY <1>0, <3>1 DEF TypeOK
  <2>3. attempts' \in 0..MaxReconnects /\ start' = "cleared"
    BY <1>0, <1>1 DEF ClearAuth, AttemptsAfterStart, TypeOK
  <2>4. UNCHANGED <<session, fresh, linked, net, status, handler, flags, timer,
                    made, drops, commands, history>>
    BY <1>1, Zenon DEF ClearAuth
  <2> QED BY <2>1, <2>2, <2>3, <2>4 DEF TypeOK, flags, history
<1>2. CASE ReadAuth
  <2>0. linked' \in {saved, FALSE}
    BY <1>2 DEF ReadAuth
  <2>1. linked' \in BOOLEAN
    BY <2>0 DEF TypeOK
  <2>2. faults' \in 0..MaxFaults /\ start' = "read"
    BY <1>0, <1>2 DEF ReadAuth, TypeOK
  <2> QED BY <1>2, <2>1, <2>2 DEF ReadAuth, TypeOK, flags, retry, history
<1>3. CASE Make
  <2>1. made' \in Sockets /\ made' \in 0..MaxSockets /\ session' = made'
    BY <1>0, <1>3 DEF Make, TypeOK, Sockets
  <2>2. /\ net' \in [Sockets -> {"none", "ended", "closed"} \cup Live]
        /\ status' \in [Sockets -> {"STOPPED", "STARTING", "SCAN_QR_CODE", "WORKING", "FAILED"}]
    BY <1>3 DEF Make, TypeOK, Live
  <2> QED BY <1>3, <2>1, <2>2 DEF Make, TypeOK, flags, retry, history
<1>4. CASE Connect
  <2>1. commands' \in 0..MaxCommands
    BY <1>0, <1>4 DEF Connect, TypeOK
  <2>2. timer' \in BOOLEAN /\ fired' \in Nat
    <3>1. CASE Startable
      <4>1. TearDown /\ fired' = 0
        BY <1>4, <3>1 DEF Connect, Begin
      <4> QED BY <4>1 DEF TearDown
    <3>2. CASE ~Startable
      BY <1>4, <3>2 DEF Connect, TypeOK
    <3> QED BY <3>1, <3>2
  <2> QED BY <1>4, <2>1, <2>2, BeginType DEF Connect, TypeOK
<1>5. CASE Disconnect
  <2>1. commands' \in 0..MaxCommands
    BY <1>0, <1>5 DEF Disconnect, TypeOK
  <2> QED BY <1>5, <2>1, TearDownType DEF Disconnect, TypeOK, history
<1>6. CASE TimerFires
  <2>1. fired' \in Nat /\ timer' = FALSE
    BY <1>6 DEF TimerFires, TypeOK
  <2> QED BY <1>6, <2>1, BeginType DEF TimerFires, TypeOK, bounds
<1>7. CASE Release
  <2>1. releases' \in Nat
    BY <1>7 DEF Release, TypeOK
  <2>2. manualStop' = FALSE
    BY <1>7 DEF Release
  <2> QED BY <1>7, <2>1, <2>2 DEF Release, TypeOK, memory, retry, bounds, history
<1>8. CASE Restart
  <2>1. faults' \in 0..MaxFaults /\ attempts' \in 0..MaxReconnects /\ releases' \in Nat /\ fired' \in Nat
    BY <1>0, <1>8 DEF Restart, TypeOK
  <2>2. /\ net' \in [Sockets -> {"none", "ended", "closed"} \cup Live]
        /\ handler' \in [Sockets -> {"none", "creds", "clearing"}]
        /\ session' = NoSocket /\ start' \in {"idle", "stopped", "cleared", "read"}
    BY <1>8 DEF Restart
  <2> QED BY <1>8, <2>1, <2>2 DEF Restart, TypeOK
<1>9. CASE \E s \in Sockets : Qr(s) \/ Pair(s)
  BY <1>9 DEF Qr, Pair, TypeOK, memory, flags, retry, bounds, history
<1>10. CASE \E s \in Sockets : Opens(s)
  <2>1. PICK s \in Sockets : Opens(s)
    BY <1>10
  <2>2. /\ net' \in [Sockets -> {"none", "ended", "closed"} \cup Live]
        /\ status' \in [Sockets -> {"STOPPED", "STARTING", "SCAN_QR_CODE", "WORKING", "FAILED"}]
        /\ attempts' \in 0..MaxReconnects /\ fired' \in Nat
    BY <1>0, <2>1 DEF Opens, TypeOK, Live
  <2>3. skipped' \subseteq Sockets
    BY <2>1 DEF Opens, TypeOK
  <2> QED BY <2>1, <2>2, <2>3 DEF Opens, TypeOK, memory, flags, bounds
<1>11. CASE \E s \in Sockets : Drops(s)
  <2>1. PICK s \in Sockets, l \in BOOLEAN : Drops(s) /\ OnClose(s, l)
    BY <1>11 DEF Drops
  <2>2. drops' \in 0..MaxDrops /\ UNCHANGED <<made, commands, faults>>
    BY <1>0, <2>1 DEF Drops, TypeOK
  <2> QED BY <2>1, <2>2, OnCloseType DEF TypeOK
<1>12. CASE \E s \in Sockets : EndedCloses(s)
  <2>1. PICK s \in Sockets : OnClose(s, FALSE) /\ UNCHANGED <<made, drops, commands, faults>>
    BY <1>12 DEF EndedCloses, bounds
  <2> QED BY <2>1, OnCloseType DEF TypeOK
<1>13. CASE \E s \in Sockets : LogOutEnds(s)
  <2>1. PICK s \in Sockets : LogOutEnds(s)
    BY <1>13
  <2>2. faults' \in 0..MaxFaults
    BY <1>0, <2>1 DEF LogOutEnds, TypeOK
  <2>3. saved' \in BOOLEAN
    BY <2>1 DEF LogOutEnds, TypeOK
  <2>4. handler' \in [Sockets -> {"none", "creds", "clearing"}]
    BY <2>1 DEF LogOutEnds, TypeOK
  <2> QED BY <2>1, <2>2, <2>3, <2>4 DEF LogOutEnds, TypeOK, memory, retry, history
<1>14. CASE \E s \in Sockets : Resumes(s)
  BY <1>14, ResumesType
<1>15. CASE UNCHANGED vars
  BY <1>15 DEF TypeOK, vars, memory, flags, retry, bounds, history
<1> QED BY <1>1, <1>2, <1>3, <1>4, <1>5, <1>6, <1>7, <1>8, <1>9, <1>10, <1>11, <1>12, <1>13, <1>14, <1>15
    DEF Next

LEMMA TypeInit == Init => TypeOK
<1> SUFFICES ASSUME Init PROVE TypeOK
  OBVIOUS
<1>0. /\ MaxReconnects \in Nat \ {0} /\ MaxSockets \in Nat /\ MaxDrops \in Nat
      /\ MaxCommands \in Nat /\ MaxFaults \in Nat
  BY ConstantsAssumption
<1>1. fresh \in BOOLEAN /\ linked \in BOOLEAN /\ manualStop \in BOOLEAN /\ loggingOut \in BOOLEAN /\ timer \in BOOLEAN
  BY DEF Init
<1>2. /\ attempts \in 0..MaxReconnects /\ made \in 0..MaxSockets /\ drops \in 0..MaxDrops
      /\ commands \in 0..MaxCommands /\ faults \in 0..MaxFaults /\ releases \in Nat /\ fired \in Nat
  BY <1>0 DEF Init
<1> QED BY <1>1, <1>2 DEF Init, TypeOK

\* Every reachable state is well typed: among the rest, the counter of
\* failures stays within its limit.
THEOREM TypeCorrect == Spec => []TypeOK
BY TypeInit, TypeStep, PTL DEF Spec

-----------------------------------------------------------------------------
(* What the map, the connections and the handlers have to do with each      *)
(* other.                                                                  *)

Shape ==
    /\ start # "idle" => session = NoSocket
    /\ session # NoSocket => net[session] \in Live \cup {"closed"}
    /\ \A s \in Sockets :
         /\ handler[s] # "none" => net[s] = "closed"
         /\ handler[s] = "clearing" => session # s
         /\ s > made => net[s] = "none" /\ handler[s] = "none"

\* Effects of the operations on what Shape and the other invariants read.
LEMMA StopEffect ==
    ASSUME TypeOK, Shape, TearDown
    PROVE  /\ session' = NoSocket /\ timer' = FALSE
           /\ \A s \in Sockets : net'[s] = net[s] \/ (s = session /\ net[s] \in Live /\ net'[s] = "ended")
           /\ session # NoSocket => net'[session] \notin Live
<1>1. CASE session = NoSocket
  BY <1>1 DEF TearDown
<1>2. CASE session # NoSocket
  <2>1. session \in Sockets /\ net' = [net EXCEPT ![session] = IF @ \in Live THEN "ended" ELSE @]
    BY <1>2 DEF TearDown, TypeOK
  <2>2. net'[session] \notin Live
    BY <2>1 DEF TypeOK, Live
  <2> QED BY <1>2, <2>1, <2>2 DEF TearDown, TypeOK
<1> QED BY <1>1, <1>2

LEMMA CloseEffect ==
    ASSUME TypeOK, NEW s \in Sockets, NEW l \in BOOLEAN, OnClose(s, l)
    PROVE  /\ net'[s] = "closed" /\ \A t \in Sockets \ {s} : net'[t] = net[t] /\ handler'[t] = handler[t]
           /\ UNCHANGED <<start, late, fired, fresh>>
           /\ \/ /\ UNCHANGED <<session, timer, attempts, handler>>
                 /\ skipped' = IF net[s] = "ended" THEN skipped ELSE skipped \cup {s}
              \/ /\ l /\ session' = NoSocket /\ timer' = FALSE /\ attempts' = 0
                 /\ handler'[s] = "clearing" /\ skipped' = skipped
              \/ /\ ~l /\ UNCHANGED <<session, timer, attempts>>
                 /\ handler'[s] = "creds" /\ skipped' = skipped
<1>1. net'[s] = "closed" /\ (\A t \in Sockets \ {s} : net'[t] = net[t]) /\ UNCHANGED <<start, late, fired, fresh>>
  BY DEF OnClose, TypeOK
<1>2. CASE Ignored \/ (l /\ loggingOut)
  BY <1>1, <1>2 DEF OnClose, retry
<1>3. CASE ~(Ignored \/ (l /\ loggingOut)) /\ l
  <2>1. /\ session' = NoSocket /\ timer' = FALSE /\ attempts' = 0 /\ skipped' = skipped
        /\ handler' = [handler EXCEPT ![s] = "clearing"]
    BY <1>3 DEF OnClose
  <2> QED BY <1>1, <1>3, <2>1 DEF TypeOK
<1>4. CASE ~(Ignored \/ (l /\ loggingOut)) /\ ~l
  <2>1. /\ UNCHANGED <<session, timer, attempts>> /\ skipped' = skipped
        /\ handler' = [handler EXCEPT ![s] = "creds"]
    BY <1>4 DEF OnClose, retry
  <2> QED BY <1>1, <1>4, <2>1 DEF TypeOK
<1> QED BY <1>2, <1>3, <1>4

LEMMA ResumeEffect ==
    ASSUME TypeOK, NEW s \in Sockets, Resumes(s)
    PROVE  /\ handler[s] = "creds" /\ handler'[s] = "none"
           /\ \A t \in Sockets \ {s} : handler'[t] = handler[t]
           /\ late' = (IF session = s THEN late ELSE late \cup {s})
           /\ UNCHANGED <<start, fresh, net, made, skipped, fired>>
           /\ \/ session' = NoSocket /\ timer' = FALSE
              \/ session' = session /\ timer' = TRUE /\ attempts' = attempts + 1
BY DEF Resumes, TypeOK

\* A step is of one of these kinds.
Starts ==
    /\ Startable /\ TearDown /\ start' = "stopped"
    /\ UNCHANGED <<handler, made, skipped, late, attempts>>
    /\ \/ fresh' = TRUE /\ fired' = 0
       \/ fresh' = FALSE /\ timer /\ fired' = fired + 1

Declines ==
    /\ ~Startable /\ UNCHANGED <<session, start, fresh, net, handler, made, skipped, late, attempts, fired>>
    /\ timer' \in {timer, FALSE}

Stops == TearDown /\ UNCHANGED <<start, fresh, handler, made, skipped, late, attempts, fired>>

Kept ==
    UNCHANGED <<session, start, fresh, net, handler, timer, attempts, made, skipped, late, fired>>

Reads ==
    /\ start = "cleared" /\ start' = "read"
    /\ UNCHANGED <<session, fresh, net, handler, timer, attempts, made, skipped, late, fired>>

ClosesNow(s, l) == net[s] \in Live \cup {"ended"} /\ (l => net[s] \in Live) /\ made' = made

LEMMA Kinds ==
    ASSUME TypeOK, [Next]_vars
    PROVE  \/ Starts \/ Declines \/ Stops \/ Kept \/ ClearAuth \/ Reads \/ Make \/ Restart
           \/ \E s \in Sockets :
                \/ Opens(s) \/ Resumes(s) \/ LogOutEnds(s)
                \/ \E l \in BOOLEAN : OnClose(s, l) /\ ClosesNow(s, l)
<1>1. CASE Connect
  <2>1. CASE Startable
    BY <1>1, <2>1 DEF Connect, Begin, Starts
  <2>2. CASE ~Startable
    BY <1>1, <2>2 DEF Connect, Begin, Declines
  <2> QED BY <2>1, <2>2
<1>2. CASE TimerFires
  <2>1. CASE Startable
    BY <1>2, <2>1 DEF TimerFires, Begin, Starts, bounds
  <2>2. CASE ~Startable
    BY <1>2, <2>2 DEF TimerFires, Begin, Declines, bounds
  <2> QED BY <2>1, <2>2
<1>3. CASE Disconnect
  BY <1>3 DEF Disconnect, Stops, history
<1>4. CASE ReadAuth
  BY <1>4 DEF ReadAuth, Reads, retry, history
<1>5. CASE Release \/ UNCHANGED vars \/ \E s \in Sockets : Qr(s) \/ Pair(s)
  BY <1>5 DEF Release, Qr, Pair, Kept, vars, memory, retry, bounds, history
<1>6. CASE \E s \in Sockets : Drops(s)
  BY <1>6 DEF Drops, ClosesNow, Live
<1>7. CASE \E s \in Sockets : EndedCloses(s)
  <2>1. PICK s \in Sockets : OnClose(s, FALSE) /\ ClosesNow(s, FALSE)
    BY <1>7 DEF EndedCloses, ClosesNow, bounds
  <2> QED BY <2>1
<1> QED BY <1>1, <1>2, <1>3, <1>4, <1>5, <1>6, <1>7 DEF Next

LEMMA ShapeStep ==
    ASSUME TypeOK, Shape, [Next]_vars
    PROVE  Shape'
<1>1. CASE Starts \/ Stops
  <2>1. TearDown /\ UNCHANGED <<handler, made>>
    BY <1>1 DEF Starts, Stops
  <2>2. /\ session' = NoSocket
        /\ \A s \in Sockets : net'[s] = net[s] \/ net[s] \in Live
    BY <2>1, StopEffect
  <2> QED BY <2>1, <2>2 DEF Shape, Live, Sockets, NoSocket
<1>2. CASE Declines \/ Kept
  BY <1>2 DEF Declines, Kept, Shape
<1>3. CASE ClearAuth
  BY <1>3 DEF ClearAuth, Shape
<1>4. CASE Reads
  BY <1>4 DEF Reads, Shape
<1>5. CASE Make
  <2>1. /\ made' = made + 1 /\ made' \in Sockets /\ session' = made' /\ start' = "idle" /\ handler' = handler
        /\ net' = [net EXCEPT ![made'] = IF linked THEN "resuming" ELSE "linking"]
    BY <1>5, ConstantsAssumption DEF Make, TypeOK, Sockets
  <2>2. /\ net'[made'] \in Live /\ \A s \in Sockets \ {made'} : net'[s] = net[s]
    BY <2>1 DEF TypeOK, Live
  <2>3. handler[made'] = "none" /\ made \in Nat
    BY <2>1 DEF Shape, TypeOK
  <2>4. \A s \in Sockets : s > made' => s > made /\ s # made'
    BY <2>1, <2>3 DEF Sockets
  <2> QED BY <2>1, <2>2, <2>3, <2>4 DEF Shape
<1>6. CASE Restart
  <2>1. /\ session' = NoSocket /\ made' = made /\ \A s \in Sockets : handler'[s] = "none"
        /\ \A s \in Sockets : net[s] = "none" => net'[s] = "none"
    BY <1>6 DEF Restart
  <2> QED BY <2>1 DEF Shape
<1>7. ASSUME NEW s \in Sockets, Opens(s) PROVE Shape'
  <2>1. /\ net[s] = "resuming" /\ net'[s] = "open" /\ \A t \in Sockets \ {s} : net'[t] = net[t]
        /\ UNCHANGED <<session, start, handler, made>>
    BY <1>7 DEF Opens, TypeOK, memory, bounds
  <2> QED BY <2>1 DEF Shape, Live, TypeOK
<1>8. ASSUME NEW s \in Sockets, Resumes(s) PROVE Shape'
  <2>1. /\ handler'[s] = "none" /\ \A t \in Sockets \ {s} : handler'[t] = handler[t]
        /\ UNCHANGED <<start, net, made>> /\ session' \in {NoSocket, session} /\ handler[s] = "creds"
    BY <1>8, ResumeEffect
  <2>2. \A t \in Sockets : session' = t => session = t
    BY <2>1 DEF Sockets, NoSocket
  <2> QED BY <2>1, <2>2 DEF Shape
<1>9. ASSUME NEW s \in Sockets, LogOutEnds(s) PROVE Shape'
  <2>1. /\ handler'[s] = "none" /\ \A t \in Sockets \ {s} : handler'[t] = handler[t]
        /\ UNCHANGED <<session, start, net, made>>
    BY <1>9 DEF LogOutEnds, TypeOK, memory, bounds
  <2> QED BY <2>1 DEF Shape
<1>10. ASSUME NEW s \in Sockets, NEW l \in BOOLEAN, OnClose(s, l), ClosesNow(s, l) PROVE Shape'
  <2>1. /\ net'[s] = "closed" /\ \A t \in Sockets \ {s} : net'[t] = net[t] /\ handler'[t] = handler[t]
        /\ UNCHANGED <<start, made>> /\ session' \in {NoSocket, session}
        /\ handler'[s] = "clearing" => handler[s] = "clearing" \/ session' = NoSocket
    BY <1>10, CloseEffect DEF ClosesNow
  <2>2. net[s] \notin {"none", "closed"}
    BY <1>10 DEF ClosesNow, Live
  <2>3. \A t \in Sockets : session' = t => session' # NoSocket /\ session = t
    BY <2>1 DEF Sockets, NoSocket
  <2>4. \A t \in Sockets : handler'[t] = "clearing" => session' # t
    BY <2>1, <2>3 DEF Shape
  <2>5. session' # NoSocket => net'[session'] \in Live \cup {"closed"}
    BY <2>1 DEF Shape, TypeOK
  <2>6. \A t \in Sockets : (handler'[t] # "none" => net'[t] = "closed") /\ (t > made' => net'[t] = "none" /\ handler'[t] = "none")
    BY <2>1, <2>2 DEF Shape
  <2> QED BY <2>1, <2>4, <2>5, <2>6 DEF Shape
<1> QED BY <1>1, <1>2, <1>3, <1>4, <1>5, <1>6, <1>7, <1>8, <1>9, <1>10, Kinds

-----------------------------------------------------------------------------
(* The reconnects.  While no close came late, only the session in the map   *)
(* has a live connection, and every reconnect has a failure counted.        *)

Counted ==
    late = {} =>
        /\ \A s \in Sockets : net[s] \in Live => s = session
        /\ fired <= MaxReconnects
        /\ timer => session # NoSocket
        /\ session # NoSocket => fired + (IF timer THEN 1 ELSE 0) <= attempts
        /\ start \in {"cleared", "read"} \/ (start = "stopped" /\ ~fresh) => fired <= attempts
        /\ start = "stopped" /\ fresh => fired = 0

LEMMA CountedStep ==
    ASSUME TypeOK, Shape, Counted, [Next]_vars
    PROVE  Counted'
<1>0. MaxReconnects \in Nat /\ fired \in Nat /\ attempts \in 0..MaxReconnects /\ timer \in BOOLEAN
      /\ late \subseteq Sockets /\ NoSocket \notin Sockets
  BY ConstantsAssumption DEF TypeOK, Sockets, NoSocket
<1>1. CASE Starts
  <2>1. /\ session' = NoSocket /\ timer' = FALSE /\ start' = "stopped" /\ late' = late /\ attempts' = attempts
        /\ \A s \in Sockets : net'[s] \in Live => net[s] \in Live /\ s # session
    BY <1>0, <1>1, StopEffect DEF Starts, Live
  <2>2. CASE fresh' = TRUE /\ fired' = 0
    BY <1>0, <2>1, <2>2 DEF Counted
  <2>3. CASE fresh' = FALSE /\ timer /\ fired' = fired + 1
    BY <1>0, <2>1, <2>3 DEF Counted
  <2> QED BY <1>1, <2>2, <2>3 DEF Starts
<1>2. CASE Declines
  BY <1>0, <1>2 DEF Declines, Startable, Shape, Counted
<1>3. CASE Stops
  <2>1. /\ session' = NoSocket /\ timer' = FALSE /\ UNCHANGED <<start, fresh, late, attempts, fired>>
        /\ \A s \in Sockets : net'[s] \in Live => net[s] \in Live /\ s # session
    BY <1>0, <1>3, StopEffect DEF Stops, Live
  <2> QED BY <1>0, <2>1 DEF Counted
<1>4. CASE Kept \/ Reads
  BY <1>4 DEF Kept, Reads, Counted
<1>5. CASE ClearAuth
  <2>1. /\ start = "stopped" /\ start' = "cleared" /\ UNCHANGED <<session, fresh, net, timer, late, fired>>
        /\ attempts' = IF fresh THEN 0 ELSE attempts
    BY <1>5 DEF ClearAuth, AttemptsAfterStart, history
  <2>2. session = NoSocket
    BY <2>1 DEF Shape
  <2> QED BY <1>0, <2>1, <2>2 DEF Counted
<1>6. CASE Make
  <2>1. /\ made' \in Sockets /\ session' = made' /\ start = "read" /\ start' = "idle"
        /\ UNCHANGED <<timer, attempts, late, fired>>
        /\ \A s \in Sockets \ {made'} : net'[s] = net[s]
    BY <1>6, ConstantsAssumption DEF Make, TypeOK, Sockets, retry, history
  <2>2. session = NoSocket
    BY <2>1 DEF Shape
  <2> QED BY <1>0, <2>1, <2>2 DEF Counted
<1>7. CASE Restart
  <2>1. /\ session' = NoSocket /\ timer' = FALSE /\ fired' = 0 /\ attempts' = 0
        /\ start' \in {"idle", "stopped"} /\ \A s \in Sockets : net'[s] \notin Live
    BY <1>7 DEF Restart, Live
  <2> QED BY <1>0, <2>1 DEF Counted
<1>8. ASSUME NEW s \in Sockets, Opens(s) PROVE Counted'
  <2>1. /\ net[s] \in Live /\ \A t \in Sockets \ {s} : net'[t] = net[t]
        /\ timer' = FALSE /\ fired' = 0 /\ attempts' = 0
        /\ UNCHANGED <<session, start, fresh, late>>
    BY <1>8 DEF Opens, TypeOK, memory, Live
  <2> QED BY <1>0, <2>1 DEF Counted
<1>9. ASSUME NEW s \in Sockets, Resumes(s) PROVE Counted'
  <2>1. CASE late' # {}
    BY <2>1 DEF Counted
  <2>2. CASE late' = {}
    <3>1. late = {} /\ session = s /\ UNCHANGED <<start, fresh, net, fired>> /\ handler[s] = "creds"
      BY <1>9, <2>2, ResumeEffect
    <3>2. start = "idle" /\ net[s] \notin Live
      BY <1>0, <3>1 DEF Shape, Live, TypeOK
    <3>3. CASE session' = NoSocket /\ timer' = FALSE
      BY <1>0, <2>2, <3>1, <3>2, <3>3 DEF Counted
    <3>4. CASE session' = session /\ timer' = TRUE /\ attempts' = attempts + 1
      BY <1>0, <2>2, <3>1, <3>2, <3>4 DEF Counted
    <3> QED BY <1>9, <3>3, <3>4, ResumeEffect
  <2> QED BY <2>1, <2>2
<1>10. ASSUME NEW s \in Sockets, LogOutEnds(s) PROVE Counted'
  BY <1>10 DEF LogOutEnds, memory, retry, history, Counted
<1>11. ASSUME NEW s \in Sockets, NEW l \in BOOLEAN, OnClose(s, l), ClosesNow(s, l) PROVE Counted'
  <2>1. /\ net'[s] \notin Live /\ \A t \in Sockets \ {s} : net'[t] = net[t]
        /\ UNCHANGED <<start, fresh, late, fired>>
    BY <1>11, CloseEffect DEF Live
  <2>2. CASE UNCHANGED <<session, timer, attempts>>
    BY <2>1, <2>2 DEF Counted
  <2>3. CASE l /\ session' = NoSocket /\ timer' = FALSE /\ attempts' = 0
    <3>1. late = {} => s = session /\ start = "idle"
      BY <1>0, <1>11, <2>3 DEF ClosesNow, Counted, Shape
    <3> QED BY <1>0, <2>1, <2>3, <3>1 DEF Counted
  <2> QED BY <1>11, <2>2, <2>3, CloseEffect
<1> QED BY <1>1, <1>2, <1>3, <1>4, <1>5, <1>6, <1>7, <1>8, <1>9, <1>10, <1>11, Kinds

LEMMA ShapeInit == Init => Shape /\ Counted
<1> SUFFICES ASSUME Init PROVE Shape /\ Counted
  OBVIOUS
<1>1. MaxReconnects \in Nat /\ NoSocket = 0
  BY ConstantsAssumption DEF NoSocket
<1> QED BY <1>1 DEF Init, Shape, Counted, Live

\* Reconnects stop after MaxReconnects failures in a row as long as the close
\* event of every replaced socket comes while the flag is up.
THEOREM ReconnectsAreBounded == Spec => []ReconnectsBounded
<1> DEFINE Inv == TypeOK /\ Shape /\ Counted
<1>1. Init => Inv
  BY TypeInit, ShapeInit
<1>2. Inv /\ [Next]_vars => Inv'
  BY TypeStep, ShapeStep, CountedStep
<1>3. Inv => ReconnectsBounded
  <2> SUFFICES ASSUME Inv, late = {} PROVE ~(fired > MaxReconnects)
    BY DEF ReconnectsBounded
  <2>1. fired <= MaxReconnects /\ fired \in Nat /\ MaxReconnects \in Nat
    BY ConstantsAssumption DEF Counted, TypeOK
  <2> QED BY <2>1
<1> QED BY <1>1, <1>2, <1>3, PTL DEF Spec

-----------------------------------------------------------------------------
(* Dead sessions.                                                          *)

Waiting ==
    session # NoSocket /\ net[session] = "closed" /\ handler[session] = "none" => timer \/ session \in skipped

LEMMA WaitingStep ==
    ASSUME TypeOK, Shape, Waiting, [Next]_vars
    PROVE  Waiting'
<1>0. timer \in BOOLEAN /\ NoSocket \notin Sockets /\ session \in {NoSocket} \cup Sockets
  BY DEF TypeOK, Sockets, NoSocket
<1>1. CASE Starts \/ Stops \/ Restart
  BY <1>1, StopEffect DEF Starts, Stops, Restart, Waiting
<1>2. CASE Declines
  BY <1>2 DEF Declines, Startable, Shape, Waiting
<1>3. CASE Kept \/ Reads
  BY <1>3 DEF Kept, Reads, Waiting
<1>4. CASE ClearAuth
  BY <1>4 DEF ClearAuth, history, Waiting
<1>5. CASE Make
  <2>1. made' \in Sockets /\ session' = made' /\ net' = [net EXCEPT ![made'] = IF linked THEN "resuming" ELSE "linking"]
    BY <1>5, ConstantsAssumption DEF Make, TypeOK, Sockets
  <2>2. net'[session'] # "closed"
    BY <2>1 DEF TypeOK
  <2> QED BY <2>2 DEF Waiting
<1>6. ASSUME NEW s \in Sockets, Opens(s) PROVE Waiting'
  <2>1. /\ net'[s] = "open" /\ \A t \in Sockets \ {s} : net'[t] = net[t]
        /\ UNCHANGED <<session, handler>>
        /\ skipped' = IF timer /\ session \notin {s, NoSocket} THEN skipped \cup {session} ELSE skipped
    BY <1>6 DEF Opens, TypeOK, memory
  <2> QED BY <1>0, <2>1 DEF Waiting
<1>7. ASSUME NEW s \in Sockets, Resumes(s) PROVE Waiting'
  <2>1. /\ UNCHANGED <<net, skipped>> /\ \A t \in Sockets \ {s} : handler'[t] = handler[t]
        /\ \/ session' = NoSocket
           \/ session' = session /\ timer' = TRUE
    BY <1>7, ResumeEffect
  <2> QED BY <2>1 DEF Waiting
<1>8. ASSUME NEW s \in Sockets, LogOutEnds(s) PROVE Waiting'
  <2>1. /\ handler[s] = "clearing" /\ \A t \in Sockets \ {s} : handler'[t] = handler[t]
        /\ UNCHANGED <<session, net, timer, skipped>>
    BY <1>8 DEF LogOutEnds, TypeOK, memory, retry, history
  <2>2. session # s
    BY <2>1 DEF Shape
  <2> QED BY <1>0, <2>1, <2>2 DEF Waiting
<1>9. ASSUME NEW s \in Sockets, NEW l \in BOOLEAN, OnClose(s, l), ClosesNow(s, l) PROVE Waiting'
  <2>1. /\ net'[s] = "closed" /\ \A t \in Sockets \ {s} : net'[t] = net[t] /\ handler'[t] = handler[t]
    BY <1>9, CloseEffect
  <2>2. CASE /\ UNCHANGED <<session, timer, attempts, handler>>
             /\ skipped' = IF net[s] = "ended" THEN skipped ELSE skipped \cup {s}
    <3>1. session = s => net[s] # "ended"
      BY <1>0 DEF Shape, Live
    <3> QED BY <1>0, <2>1, <2>2, <3>1 DEF Waiting
  <2>3. CASE session' = NoSocket
    BY <2>3 DEF Waiting
  <2>4. CASE ~l /\ UNCHANGED <<session, timer, attempts>> /\ handler'[s] = "creds" /\ skipped' = skipped
    BY <1>0, <2>1, <2>4 DEF Waiting
  <2> QED BY <1>9, <2>2, <2>3, <2>4, CloseEffect
<1> QED BY <1>1, <1>2, <1>3, <1>4, <1>5, <1>6, <1>7, <1>8, <1>9, Kinds

\* A dead session that nobody reconnects had its close, or its reconnect,
\* taken by another socket.
THEOREM DeadSessionsExplained == Spec => []DeadSessionExplained
<1> DEFINE Inv == TypeOK /\ Shape /\ Waiting
<1>1. Init => Inv
  BY TypeInit, ShapeInit DEF Init, Waiting
<1>2. Inv /\ [Next]_vars => Inv'
  BY TypeStep, ShapeStep, WaitingStep
<1>3. Inv => DeadSessionExplained
  BY DEF Waiting, Dead, DeadSessionExplained
<1> QED BY <1>1, <1>2, <1>3, PTL DEF Spec
=============================================================================
