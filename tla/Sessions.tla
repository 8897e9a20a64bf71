------------------------------ MODULE Sessions ------------------------------
(***************************************************************************)
(* The sessions of one user on several devices: log-in, rotation of the    *)
(* refresh token, log-out, password reset by a mailed link, forced log-out *)
(* by an administrator, deactivation and termination.  A device keeps a    *)
(* refresh token in a cookie and, apart from it, the id of its session;    *)
(* the server keeps a row per session with the hash of its token, and on   *)
(* the user the hash of one more token, where it falls back when a row     *)
(* cannot be written.                                                      *)
(*                                                                         *)
(* A token pair is named by the call that issued it, or by the device when *)
(* the device had it from the start.  Every statement is an action, and a  *)
(* call can stop between any two.                                          *)
(***************************************************************************)
EXTENDS Integers, FiniteSets

CONSTANTS
    Devices,     \* browsers of the user
    Links,       \* password-reset links
    Calls,       \* requests in the behaviour
    Scenarios,   \* what each call is, in [Calls -> Operations]
    None,        \* no token, no session id
    MaxFaults    \* bound on calls that stop half-way

Tokens == Devices \cup Calls
Kinds == {"LOGIN", "REFRESH", "LOGOUT", "RESET", "FORCE", "DEACTIVATE", "TERMINATE", "ACTIVATE"}
Operations == [kind : Kinds, dev : Devices, link : Links]

ASSUME ConstantsAssumption ==
    /\ Scenarios \subseteq [Calls -> Operations]
    /\ Devices \cap Calls = {}
    /\ None \notin Tokens
    /\ IsFiniteSet(Devices) /\ IsFiniteSet(Calls)
    /\ MaxFaults \in Nat

VARIABLES
    op,       \* op[c]: what call c is
    pc,       \* where it is
    cookie,   \* cookie[d]: the refresh token in the cookie of device d
    sid,      \* sid[d]: the session id device d has stored
    access,   \* access[d]: the pair whose access token d has stored
    rows,     \* tokens with a UserSession row
    serial,   \* serial[t]: lastUsedAt of the row, which is when it was made
    legacy,   \* User.refreshTokenHash
    unbound,  \* tokens issued without a row: their pair carries no session id
    sent,     \* sent[c]: the refresh token and the session id of call c
    found,    \* found[c]: the row call c goes by
    active,   \* User.isActive
    password, \* number of password resets so far
    links,    \* reset links that are still in Redis
    faults,   \* number of calls that failed or whose answer was lost
    proof,    \* history: proof[t]: the password that was current when t, or the
              \* first of the tokens it was rotated from, was asked for
    slipped,  \* history: calls already verified at a reset, and their successors
    raced,    \* history: tokens two calls presented at once, or that a failed call left
    reused,   \* history: reused[l]: passwords set through link l
    shared,   \* history: links two resets used at once, or that were not deleted
    forced,   \* history: <<c, t>> for a call c that began and a token t that was
              \* there when the user was forced out
    upset     \* history: devices something else than a refresh of theirs happened to

device == <<cookie, sid, access>>
stored == <<rows, serial, legacy, unbound>>
account == <<active, password, links>>
history == <<proof, slipped, raced, reused, shared, forced, upset>>
vars == <<op, pc, device, stored, sent, found, account, faults, history>>

Kind(c) == op[c].kind
Dev(c) == op[c].dev
Link(c) == op[c].link
Owner(t) == IF t \in Calls THEN Dev(t) ELSE t

Live == {"find", "take", "drop", "legacy", "clear", "issue", "fallback", "answer", "end", "deny", "set", "spend", "purge"}
Ended == {"done", "refused", "barred", "dead"}

TypeOK ==
    /\ op \in [Calls -> Operations]
    /\ pc \in [Calls -> {"idle"} \cup Live \cup Ended]
    /\ cookie \in [Devices -> Tokens \cup {None}]
    /\ sid \in [Devices -> (Tokens \ unbound) \cup {None}]
    /\ access \in [Devices -> Tokens \cup {None}]
    /\ rows \subseteq Tokens /\ unbound \subseteq Calls
    /\ serial \in [Tokens -> Nat]
    /\ legacy \in Tokens \cup {None}
    /\ sent \in [Calls -> [token : Tokens \cup {None}, sid : Tokens \cup {None}]]
    /\ found \in [Calls -> Tokens \cup {None}]
    /\ active \in BOOLEAN /\ password \in Nat /\ links \subseteq Links
    /\ faults \in 0..MaxFaults
    /\ proof \in [Tokens -> Nat]
    /\ slipped \subseteq Calls /\ raced \subseteq Tokens
    /\ reused \in [Links -> Nat] /\ shared \subseteq Links
    /\ forced \subseteq Calls \X Tokens /\ upset \subseteq Devices

\* Each device has a session.  A device that signed in by registering or by
\* accepting an invitation was not told its id.
Init ==
    /\ op \in Scenarios
    /\ pc = [c \in Calls |-> "idle"]
    /\ cookie = [d \in Devices |-> d] /\ access = cookie
    /\ sid \in [Devices -> Devices \cup {None}]
    /\ \A d \in Devices : sid[d] \in {d, None}
    /\ rows = Devices /\ unbound = {}
    /\ serial \in [Tokens -> 0..Cardinality(Devices)]
    /\ \A d, e \in Devices : serial[d] > 0 /\ (serial[d] = serial[e] => d = e)
    /\ \A c \in Calls : serial[c] = 0
    /\ legacy = None
    /\ sent = [c \in Calls |-> [token |-> None, sid |-> None]]
    /\ found = [c \in Calls |-> None]
    /\ active = TRUE /\ password = 0 /\ links = Links /\ faults = 0
    /\ proof = [t \in Tokens |-> 0]
    /\ slipped = {} /\ raced = {} /\ shared = {} /\ forced = {} /\ upset = {}
    /\ reused = [l \in Links |-> 0]

-----------------------------------------------------------------------------
(* What the handlers decide on.  X_Fault is a plausible bug in X, which no  *)
(* action uses.                                                            *)

Goto(c, l) == pc' = [pc EXCEPT ![c] = l]

\* The row a refresh goes by: the one of its session id, or without an id the
\* one last used.
Latest(t) == t \in rows /\ \A u \in rows : serial[u] <= serial[t]
RowOf_Fault(c) == {t \in rows : Latest(t)}
RowOf(c) == IF sent[c].sid # None THEN rows \cap {sent[c].sid} ELSE {t \in rows : Latest(t)}

\* The rows a log-out deletes: the one its access token names, or all.
RowsEnded(c) == IF sent[c].sid # None THEN {sent[c].sid} ELSE rows

\* The rows a rotation deletes, and what a password reset leaves.
RowsTaken_Fault(c) == {}
RowsTaken(c) == {found[c]}
RowsKept_Fault == {t \in rows : t \in Calls}
RowsKept == {}

\* The session id a device stores from an answer; an empty one is not stored.
NewSid_Fault(c) == sid[Dev(c)]
NewSid(c) == IF c \in unbound THEN sid[Dev(c)] ELSE c

\* A link works while it is in Redis.
Works_Fault(l) == TRUE
Works(l) == l \in links

\* History: the owners of the rows in gone, other than device d.
Robbed(gone, d) == {Owner(t) : t \in gone \cap rows} \ {d}

\* History: another call of the same device is under way.
Busy(c) == \E b \in Calls \ {c} : Dev(b) = Dev(c) /\ pc[b] \in Live \ {"set", "spend", "purge"}

\* What the page does when a refresh is not answered with a new token: it
\* forgets the access token and the session id; the cookie stays.
SignedOut(d) ==
    /\ access' = [access EXCEPT ![d] = None]
    /\ sid' = [sid EXCEPT ![d] = None]

-----------------------------------------------------------------------------
(* Log-in and refresh.                                                     *)

\* The password is right, or it is not, the user is not active, or the second
\* factor is missing.
Login(c) ==
    /\ pc[c] = "idle" /\ Kind(c) = "LOGIN"
    /\ \/ active /\ Goto(c, "issue") /\ proof' = [proof EXCEPT ![c] = password]
       \/ Goto(c, "barred") /\ UNCHANGED proof
    /\ upset' = IF Busy(c) THEN upset \cup {Dev(c)} ELSE upset
    /\ UNCHANGED <<op, device, stored, sent, found, account, faults, slipped, raced, reused, shared, forced>>

\* The request carries what the device has stored.  The user is read first.
Refresh(c) ==
    LET d == Dev(c) IN
    /\ pc[c] = "idle" /\ Kind(c) = "REFRESH" /\ cookie[d] # None
    /\ sent' = [sent EXCEPT ![c] = [token |-> cookie[d], sid |-> sid[d]]]
    /\ proof' = [proof EXCEPT ![c] = proof[cookie[d]]]
    /\ slipped' = IF cookie[d] \in slipped THEN slipped \cup {c} ELSE slipped
    /\ upset' = IF Busy(c) THEN upset \cup {d} ELSE upset
    /\ \/ active /\ Goto(c, "find") /\ UNCHANGED <<sid, access>>
       \/ ~active /\ Goto(c, "barred") /\ SignedOut(d)
    /\ UNCHANGED <<op, cookie, stored, found, account, faults, raced, reused, shared, forced>>

\* A statement fails and the handler goes on.
Fails(c) ==
    /\ faults < MaxFaults
    /\ faults' = faults + 1
    /\ upset' = upset \cup {Dev(c)}

\* The row and its hash are read; without a row, or when the read fails, the
\* hash on the user is next.
FindRow(c) ==
    /\ pc[c] = "find"
    /\ \/ RowOf(c) = {} /\ Goto(c, "legacy") /\ UNCHANGED <<found, raced, faults, upset>>
       \/ Fails(c) /\ Goto(c, "legacy") /\ UNCHANGED <<found, raced>>
       \/ \E t \in RowOf(c) :
             /\ found' = [found EXCEPT ![c] = t]
             /\ \/ /\ t = sent[c].token /\ Goto(c, "take")
                   /\ raced' = IF \E b \in Calls \ {c} : pc[b] = "take" /\ found[b] = t
                               THEN raced \cup {t} ELSE raced
                \/ t # sent[c].token /\ Goto(c, "drop") /\ UNCHANGED raced
             /\ UNCHANGED <<faults, upset>>
    /\ UNCHANGED <<op, device, stored, sent, account, proof, slipped, reused, shared, forced>>

\* deleteMany does not mind when the row is gone.
TakeRow(c) ==
    /\ pc[c] = "take"
    /\ rows' = rows \ RowsTaken(c)
    /\ upset' = upset \cup Robbed(RowsTaken(c), Dev(c))
    /\ Goto(c, "issue")
    /\ UNCHANGED <<op, device, serial, legacy, unbound, sent, found, account, faults, proof, slipped, raced, reused, shared, forced>>

\* The token is not the row's: the row is deleted, if it can be.
DropRow(c) ==
    /\ pc[c] = "drop"
    /\ \/ /\ rows' = rows \ {found[c]}
          /\ upset' = upset \cup Robbed({found[c]}, Dev(c))
          /\ UNCHANGED faults
       \/ Fails(c) /\ UNCHANGED rows
    /\ Goto(c, "refused")
    /\ SignedOut(Dev(c))
    /\ UNCHANGED <<op, cookie, serial, legacy, unbound, sent, found, account, proof, slipped, raced, reused, shared, forced>>

\* The hash on the user stays when it matches.
ReadLegacy(c) ==
    /\ pc[c] = "legacy"
    /\ \/ legacy = None /\ Goto(c, "refused") /\ SignedOut(Dev(c))
       \/ legacy = sent[c].token /\ Goto(c, "issue") /\ UNCHANGED <<sid, access>>
       \/ legacy \notin {None, sent[c].token} /\ Goto(c, "clear") /\ UNCHANGED <<sid, access>>
    /\ UNCHANGED <<op, cookie, stored, sent, found, account, faults, history>>

ClearLegacy(c) ==
    /\ pc[c] = "clear"
    /\ legacy' = None
    /\ Goto(c, "refused")
    /\ SignedOut(Dev(c))
    /\ UNCHANGED <<op, cookie, rows, serial, unbound, sent, found, account, faults, history>>

\* A new row; when it cannot be written, the hash on the user is next.
Issue(c) ==
    /\ pc[c] = "issue"
    /\ \/ /\ rows' = rows \cup {c}
          /\ serial' = [serial EXCEPT ![c] = Cardinality({t \in Tokens : serial[t] # 0}) + 1]
          /\ Goto(c, "answer")
          /\ UNCHANGED <<unbound, faults, upset>>
       \/ /\ Fails(c)
          /\ unbound' = unbound \cup {c}
          /\ Goto(c, "fallback")
          /\ UNCHANGED <<rows, serial>>
    /\ UNCHANGED <<op, device, legacy, sent, found, account, proof, slipped, raced, reused, shared, forced>>

Fallback(c) ==
    /\ pc[c] = "fallback"
    /\ legacy' = c
    /\ Goto(c, "answer")
    /\ UNCHANGED <<op, device, rows, serial, unbound, sent, found, account, faults, history>>

Answer(c) ==
    LET d == Dev(c) IN
    /\ pc[c] = "answer"
    /\ cookie' = [cookie EXCEPT ![d] = c]
    /\ access' = [access EXCEPT ![d] = c]
    /\ sid' = [sid EXCEPT ![d] = NewSid(c)]
    /\ Goto(c, "done")
    /\ UNCHANGED <<op, stored, sent, found, account, faults, history>>

-----------------------------------------------------------------------------
(* Ends of sessions.                                                       *)

Logout(c) ==
    LET a == access[Dev(c)] IN
    /\ pc[c] = "idle" /\ Kind(c) = "LOGOUT" /\ a # None
    /\ sent' = [sent EXCEPT ![c] = [token |-> a, sid |-> IF a \in unbound THEN None ELSE a]]
    /\ upset' = IF Busy(c) THEN upset \cup {Dev(c)} ELSE upset
    /\ Goto(c, "end")
    /\ UNCHANGED <<op, device, stored, found, account, faults, proof, slipped, raced, reused, shared, forced>>

\* When the rows of a token without an id cannot be deleted, the hash on the
\* user is cleared.
EndSession(c) ==
    /\ pc[c] = "end"
    /\ \/ /\ rows' = rows \ RowsEnded(c)
          /\ upset' = upset \cup Robbed(RowsEnded(c), Dev(c))
          /\ UNCHANGED <<legacy, faults>>
       \/ /\ Fails(c)
          /\ legacy' = IF sent[c].sid = None THEN None ELSE legacy
          /\ UNCHANGED rows
    /\ Goto(c, "deny")
    /\ UNCHANGED <<op, device, serial, unbound, sent, found, account, proof, slipped, raced, reused, shared, forced>>

\* The access token is denied and the answer clears the cookie.
LoggedOut(c) ==
    /\ pc[c] = "deny"
    /\ cookie' = [cookie EXCEPT ![Dev(c)] = None]
    /\ SignedOut(Dev(c))
    /\ Goto(c, "done")
    /\ UNCHANGED <<op, stored, sent, found, account, faults, history>>

\* resetPassword looks for the link ...
Reset(c) ==
    /\ pc[c] = "idle" /\ Kind(c) = "RESET"
    /\ \/ Works(Link(c)) /\ Goto(c, "set")
       \/ ~Works(Link(c)) /\ Goto(c, "barred")
    /\ shared' = IF \E b \in Calls \ {c} : Link(b) = Link(c) /\ pc[b] \in {"set", "spend"}
                 THEN shared \cup {Link(c)} ELSE shared
    /\ UNCHANGED <<op, device, stored, sent, found, account, faults, proof, slipped, raced, reused, forced, upset>>

\* ... sets the password and ends the sessions in one transaction ...
SetPassword(c) ==
    /\ pc[c] = "set"
    /\ password' = password + 1
    /\ legacy' = None /\ rows' = RowsKept
    /\ reused' = [reused EXCEPT ![Link(c)] = @ + 1]
    /\ slipped' = slipped \cup {b \in Calls : pc[b] \in {"take", "issue", "fallback"}}
    /\ upset' = Devices
    /\ Goto(c, "spend")
    /\ UNCHANGED <<op, device, serial, unbound, sent, found, active, links, faults, proof, raced, shared, forced>>

\* ... and deletes the link.
SpendLink(c) ==
    /\ pc[c] = "spend"
    /\ links' = links \ {Link(c)}
    /\ Goto(c, "done")
    /\ UNCHANGED <<op, device, stored, sent, found, active, password, faults, history>>

\* An administrator's forced log-out clears the hash on the user.
ForceLogout(c) ==
    /\ pc[c] = "idle" /\ Kind(c) = "FORCE"
    /\ legacy' = None
    /\ forced' = {b \in Calls : pc[b] = "idle"} \X {t \in Tokens : serial[t] > 0}
    /\ Goto(c, "done")
    /\ UNCHANGED <<op, device, rows, serial, unbound, sent, found, account, faults, proof, slipped, raced, reused, shared, upset>>

\* The owner removes a staff member, whose sessions stay, or HR restores one.
SetActive(c) ==
    /\ pc[c] = "idle" /\ Kind(c) \in {"DEACTIVATE", "ACTIVATE"}
    /\ active' = (Kind(c) = "ACTIVATE")
    /\ Goto(c, "done")
    /\ UNCHANGED <<op, device, stored, sent, found, password, links, faults, history>>

\* Terminating or suspending an employee ends the sessions as well; a statement
\* that fails is passed over.
Terminate(c) ==
    /\ pc[c] = "idle" /\ Kind(c) = "TERMINATE"
    /\ \/ active' = FALSE /\ UNCHANGED <<faults, upset>>
       \/ Fails(c) /\ UNCHANGED active
    /\ Goto(c, "purge")
    /\ UNCHANGED <<op, device, stored, sent, found, password, links, proof, slipped, raced, reused, shared, forced>>

Purge(c) ==
    /\ pc[c] = "purge"
    /\ \/ rows' = {} /\ upset' = Devices /\ UNCHANGED faults
       \/ Fails(c) /\ UNCHANGED rows
    /\ Goto(c, "done")
    /\ UNCHANGED <<op, device, serial, legacy, unbound, sent, found, account, proof, slipped, raced, reused, shared, forced>>

\* A statement fails, the process stops, or the answer is lost; what was
\* written stays.  A refresh leaves the device signed out.
Dies(c) ==
    LET d == Dev(c) IN
    /\ pc[c] \in Live /\ Fails(c)
    /\ shared' = IF pc[c] = "spend" THEN shared \cup {Link(c)} ELSE shared
    /\ raced' = IF pc[c] = "take" THEN raced \cup {found[c]} ELSE raced
    /\ Goto(c, "dead")
    /\ \/ Kind(c) = "REFRESH" /\ SignedOut(d)
       \/ Kind(c) # "REFRESH" /\ UNCHANGED <<sid, access>>
    /\ UNCHANGED <<op, cookie, stored, sent, found, account, proof, slipped, reused, forced>>

Step(c) ==
    \/ Login(c) \/ Refresh(c) \/ FindRow(c) \/ TakeRow(c) \/ DropRow(c)
    \/ ReadLegacy(c) \/ ClearLegacy(c) \/ Issue(c) \/ Fallback(c) \/ Answer(c)
    \/ Logout(c) \/ EndSession(c) \/ LoggedOut(c)
    \/ Reset(c) \/ SetPassword(c) \/ SpendLink(c)
    \/ ForceLogout(c) \/ SetActive(c) \/ Terminate(c) \/ Purge(c) \/ Dies(c)

Next == \E c \in Calls : Step(c)

Spec == Init /\ [][Next]_vars

-----------------------------------------------------------------------------
(* Properties.                                                             *)

Refused(c) == Kind(c) = "REFRESH" /\ pc[c] = "refused"
Accepted(c) == found[c] # None /\ found[c] = sent[c].token

\* A device that has stored its session id is refused a refresh only when its
\* own requests overlapped or failed, a reset or a termination ended all
\* sessions, or another device without a session id ended this one.
RefusedForAReason ==
    \A c \in Calls : Refused(c) => Dev(c) \in upset \/ sent[c].sid = None

\* Two refreshes that present one token are both let through by its row only
\* when they overlapped or the first failed before it deleted the row.
RotatedOnce ==
    \A b, c \in Calls :
        b # c /\ Accepted(b) /\ Accepted(c) /\ found[b] = found[c] => found[c] \in raced

\* A session, or the token on the user, outlives a password reset only when
\* the request that made it had been verified before.
StaleSessionExplained ==
    \A t \in rows \cup ({legacy} \ {None}) : proof[t] = password \/ t \in slipped

\* A link sets one password, unless two resets used it at once or the first
\* failed before it deleted the link.
LinkSpentOnce == \A l \in Links : reused[l] > 1 => l \in shared

\* A session ends by a request of its own device, by a reset or a termination,
\* or by a request that carries no session id.
OnlyOwnSession ==
    [][\A t \in rows : t \notin rows' =>
          \E c \in Calls : /\ pc'[c] # pc[c]
                           /\ Kind(c) \in {"RESET", "TERMINATE"} \/ Dev(c) = Owner(t) \/ sent[c].sid = None]_vars

\* auth-controller.ts:259: "30 concurrent devices can each refresh
\* independently."
RefreshIndependently ==
    [][\A t \in rows : t \notin rows' =>
          \E c \in Calls : pc'[c] # pc[c] /\ (Kind(c) # "REFRESH" \/ Dev(c) = Owner(t))]_vars

\* super-admin.ts:335: "forced out. Their next refresh will fail."
NextRefreshFails ==
    \A c \in Calls : Kind(c) = "REFRESH" /\ <<c, sent[c].token>> \in forced => ~Accepted(c)
=============================================================================
