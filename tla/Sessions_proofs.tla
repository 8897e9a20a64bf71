--------------------------- MODULE Sessions_proofs ---------------------------
(***************************************************************************)
(* Theorems about Sessions, for every set of devices, links, calls and     *)
(* scenarios.                                                              *)
(***************************************************************************)
EXTENDS Sessions, FiniteSetTheorems, TLAPS

Rotation == {"find", "take", "drop", "legacy", "clear"}
Early == {"idle", "issue"} \cup Rotation

\* A call is at a step of its own kind, and goes by what it has sent.
At(c) ==
    /\ pc[c] \in Rotation \cup {"refused"} => Kind(c) = "REFRESH"
    /\ pc[c] \in {"issue", "fallback", "answer"} => Kind(c) \in {"LOGIN", "REFRESH"}
    /\ pc[c] \in {"end", "deny"} => Kind(c) = "LOGOUT"
    /\ pc[c] \in {"set", "spend"} => Kind(c) = "RESET"
    /\ pc[c] = "purge" => Kind(c) = "TERMINATE"
    /\ pc[c] \in {"idle", "find"} => found[c] = None
    /\ pc[c] \in {"take", "drop"} => found[c] \in Tokens
    /\ pc[c] = "idle" => sent[c].token = None /\ sent[c].sid = None
    /\ pc[c] = "take" => found[c] = sent[c].token
    /\ found[c] # None /\ sent[c].sid # None => found[c] = sent[c].sid
    /\ pc[c] # "idle" /\ Kind(c) = "REFRESH" => sent[c].token # None

\* What a device holds was issued to it, and its answer has arrived.
Holds(d, t) == t # None => Owner(t) = d /\ (t \in Calls => pc[t] = "done")
HeldInv ==
    /\ \A d \in Devices : Holds(d, cookie[d]) /\ Holds(d, sid[d]) /\ Holds(d, access[d])
    /\ \A c \in Calls : Holds(Dev(c), sent[c].token) /\ Holds(Dev(c), sent[c].sid)

\* What the server knows has been issued.
Issued(t) == t \in Calls => pc[t] \notin Early
IssuedInv ==
    /\ \A t \in rows \cup unbound : Issued(t)
    /\ Issued(legacy)
    /\ \A c \in Calls : Issued(found[c])

AtInv == \A c \in Calls : At(c)
BaseInv == TypeOK /\ AtInv /\ HeldInv /\ IssuedInv

TakenInv ==
    \A c \in Calls : Accepted(c) => pc[c] = "take" \/ found[c] \notin rows \/ found[c] \in raced

Current(t) == proof[t] = password \/ t \in slipped
StaleInv ==
    /\ \A t \in rows \cup ({legacy} \ {None}) : Current(t)
    /\ \A c \in Calls : pc[c] \in {"take", "issue", "fallback"} => Current(c)
    /\ \A c \in Calls : /\ Kind(c) = "REFRESH" /\ pc[c] # "idle"
                        => /\ proof[c] = proof[sent[c].token]
                           /\ sent[c].token \in slipped => c \in slipped

AtLink(c, l) == Link(c) = l /\ pc[c] \in {"set", "spend"}
LinkInv ==
    \A l \in Links \ shared :
        /\ \A b, c \in Calls : AtLink(b, l) /\ AtLink(c, l) => b = c
        /\ \A c \in Calls : AtLink(c, l) => l \in links
        /\ \/ reused[l] = 0
           \/ reused[l] = 1 /\ (l \in links => \E c \in Calls : Link(c) = l /\ pc[c] = "spend")

Underway(c) == pc[c] \in Live \ {"set", "spend", "purge"}
Matched(d) == cookie[d] = None \/ sid[d] = None \/ (sid[d] = cookie[d] /\ sid[d] \in rows)
Alone(d) ==
    /\ \A b, c \in Calls : Dev(b) = d /\ Dev(c) = d /\ Underway(b) /\ Underway(c) => b = c
    /\ (\A c \in Calls : Dev(c) = d => ~Underway(c) \/ pc[c] = "find") => Matched(d)
    /\ \A c \in Calls : Dev(c) = d =>
          /\ pc[c] = "find" => sent[c].token = cookie[d] /\ sent[c].sid = sid[d]
          /\ pc[c] \in {"drop", "legacy", "clear", "refused"} => sent[c].sid = None
          /\ pc[c] # "fallback"
          /\ pc[c] = "answer" => c \in rows /\ c \notin unbound
AloneInv == \A d \in Devices \ upset : Alone(d)

-----------------------------------------------------------------------------
(* Types, and what is held and issued.                                     *)

LEMMA OpFacts ==
    ASSUME TypeOK, NEW c \in Calls
    PROVE  Kind(c) \in Kinds /\ Dev(c) \in Devices /\ Link(c) \in Links /\ c \in Tokens
           /\ None \notin Tokens /\ MaxFaults \in Nat /\ Owner(c) = Dev(c)
BY ConstantsAssumption DEF TypeOK, Operations, Kind, Dev, Link, Tokens, Owner

LEMMA InitBase == Init => BaseInv
<1> SUFFICES ASSUME Init PROVE BaseInv
  OBVIOUS
<1>0. op \in [Calls -> Operations] /\ Devices \cap Calls = {} /\ None \notin Tokens /\ MaxFaults \in Nat
  BY ConstantsAssumption DEF Init
<1>1. 0..Cardinality(Devices) \subseteq Nat
  BY ConstantsAssumption, FS_CardinalityType
<1>2. TypeOK
  BY <1>0, <1>1 DEF Init, TypeOK, Tokens
<1>3. AtInv
  BY <1>0 DEF Init, AtInv, At, Rotation
<1>4. HeldInv
  BY <1>0 DEF Init, HeldInv, Holds, Owner, Tokens
<1>5. IssuedInv
  BY <1>0 DEF Init, IssuedInv, Issued, Tokens
<1> QED BY <1>2, <1>3, <1>4, <1>5 DEF BaseInv

\* A step changes the state of its own call only.
LEMMA StepPc ==
    ASSUME NEW c \in Calls, Step(c)
    PROVE  \E l \in Live \cup Ended : pc' = [pc EXCEPT ![c] = l]
<1> USE DEF Goto, Live, Ended
<1>1. CASE Login(c) \/ Refresh(c) \/ FindRow(c)
  BY <1>1 DEF Login, Refresh, FindRow
<1>2. CASE TakeRow(c) \/ DropRow(c) \/ ReadLegacy(c) \/ ClearLegacy(c)
  BY <1>2 DEF TakeRow, DropRow, ReadLegacy, ClearLegacy
<1>3. CASE Issue(c) \/ Fallback(c) \/ Answer(c) \/ Logout(c) \/ EndSession(c) \/ LoggedOut(c)
  BY <1>3 DEF Issue, Fallback, Answer, Logout, EndSession, LoggedOut
<1>4. CASE Reset(c) \/ SetPassword(c) \/ SpendLink(c) \/ ForceLogout(c) \/ SetActive(c) \/ Terminate(c) \/ Purge(c) \/ Dies(c)
  BY <1>4 DEF Reset, SetPassword, SpendLink, ForceLogout, SetActive, Terminate, Purge, Dies
<1> QED BY <1>1, <1>2, <1>3, <1>4 DEF Step

LEMMA OthersStay ==
    ASSUME TypeOK, NEW c \in Calls, Step(c)
    PROVE  /\ op' = op
           /\ \A b \in Calls \ {c} :
                 pc'[b] = pc[b] /\ sent'[b] = sent[b] /\ found'[b] = found[b] /\ proof'[b] = proof[b]
           /\ \A d \in Devices : proof'[d] = proof[d]
<1>1. c \notin Devices /\ Calls \subseteq Tokens /\ Devices \subseteq Tokens
  BY ConstantsAssumption DEF Tokens
<1>2. pc \in [Calls -> {"idle"} \cup Live \cup Ended] /\ proof \in [Tokens -> Nat]
      /\ sent \in [Calls -> [token : Tokens \cup {None}, sid : Tokens \cup {None}]]
      /\ found \in [Calls -> Tokens \cup {None}]
  BY DEF TypeOK
<1>3. /\ \E l : pc' = [pc EXCEPT ![c] = l]
      /\ \E x : sent' = [sent EXCEPT ![c] = x] \/ sent' = sent
      /\ \E x : found' = [found EXCEPT ![c] = x] \/ found' = found
      /\ \E x : proof' = [proof EXCEPT ![c] = x] \/ proof' = proof
      /\ op' = op
  <2>1. \E l : pc' = [pc EXCEPT ![c] = l]
    BY StepPc
  <2> USE DEF device, stored, account, history
  <2>2. CASE Login(c) \/ Refresh(c) \/ FindRow(c)
    BY <2>1, <2>2 DEF Login, Refresh, FindRow
  <2>3. CASE TakeRow(c) \/ DropRow(c) \/ ReadLegacy(c) \/ ClearLegacy(c)
    BY <2>1, <2>3 DEF TakeRow, DropRow, ReadLegacy, ClearLegacy
  <2>4. CASE Issue(c) \/ Fallback(c) \/ Answer(c) \/ Logout(c) \/ EndSession(c) \/ LoggedOut(c)
    BY <2>1, <2>4 DEF Issue, Fallback, Answer, Logout, EndSession, LoggedOut
  <2>5. CASE Reset(c) \/ SetPassword(c) \/ SpendLink(c) \/ ForceLogout(c) \/ SetActive(c) \/ Terminate(c) \/ Purge(c) \/ Dies(c)
    BY <2>1, <2>5 DEF Reset, SetPassword, SpendLink, ForceLogout, SetActive, Terminate, Purge, Dies
  <2> QED BY <2>2, <2>3, <2>4, <2>5 DEF Step
<1> QED BY <1>1, <1>2, <1>3

LEMMA FailsType ==
    ASSUME TypeOK, NEW c \in Calls, Fails(c)
    PROVE  faults' \in 0..MaxFaults /\ upset' \subseteq Devices
BY OpFacts DEF Fails, TypeOK

LEMMA RobbedType ==
    ASSUME TypeOK, NEW S, NEW d
    PROVE  Robbed(S, d) \subseteq Devices
<1>1. \A t \in Tokens : Owner(t) \in Devices
  BY OpFacts DEF Owner, Tokens
<1> QED BY <1>1 DEF Robbed, TypeOK

LEMMA StepTypeOK ==
    ASSUME BaseInv, NEW c \in Calls, Step(c)
    PROVE  TypeOK'
<1> USE DEF BaseInv
<1>0. Kind(c) \in Kinds /\ Dev(c) \in Devices /\ Link(c) \in Links /\ c \in Tokens
      /\ None \notin Tokens /\ MaxFaults \in Nat /\ At(c)
  BY OpFacts DEF AtInv
<1>p. pc' \in [Calls -> {"idle"} \cup Live \cup Ended]
  BY StepPc DEF TypeOK
<1> USE <1>0, <1>p DEF TypeOK
<1>1. CASE Login(c)
  BY <1>1 DEF Login, device, stored, account
<1>2. CASE Refresh(c)
  <2>1. access' \in [Devices -> Tokens \cup {None}] /\ sid' \in [Devices -> (Tokens \ unbound) \cup {None}]
    BY <1>2 DEF Refresh, SignedOut
  <2>2. sent' \in [Calls -> [token : Tokens \cup {None}, sid : Tokens \cup {None}]]
    BY <1>2 DEF Refresh
  <2>3. proof' \in [Tokens -> Nat] /\ slipped' \subseteq Calls /\ upset' \subseteq Devices
    BY <1>2 DEF Refresh
  <2> QED BY <1>2, <2>1, <2>2, <2>3 DEF Refresh, stored, account
<1>3. CASE FindRow(c)
  <2>1. RowOf(c) \subseteq Tokens
    BY DEF RowOf
  <2>2. found' \in [Calls -> Tokens \cup {None}] /\ raced' \subseteq Tokens
    BY <1>3, <2>1 DEF FindRow
  <2>3. faults' \in 0..MaxFaults /\ upset' \subseteq Devices
    BY <1>3, FailsType DEF FindRow
  <2> QED BY <1>3, <2>2, <2>3 DEF FindRow, device, stored, account
<1>4. CASE TakeRow(c)
  BY <1>4, RobbedType DEF TakeRow, device, account
<1>5. CASE DropRow(c)
  <2>1. faults' \in 0..MaxFaults /\ upset' \subseteq Devices /\ rows' \subseteq Tokens
    BY <1>5, RobbedType, FailsType DEF DropRow
  <2> QED BY <1>5, <2>1 DEF DropRow, SignedOut, account
<1>6. CASE ReadLegacy(c) \/ ClearLegacy(c)
  BY <1>6 DEF ReadLegacy, ClearLegacy, SignedOut, stored, account, history
<1>7. CASE Issue(c)
  <2>1. Cardinality({t \in Tokens : serial[t] # 0}) + 1 \in Nat
    <3>1. IsFiniteSet(Tokens)
      BY ConstantsAssumption, FS_Union DEF Tokens
    <3>2. IsFiniteSet({t \in Tokens : serial[t] # 0})
      BY <3>1, FS_Subset
    <3> QED BY <3>2, FS_CardinalityType
  <2>2. \A d \in Devices : sid[d] # c
    <3>1. pc[c] = "issue" /\ c # None
      BY <1>7 DEF Issue
    <3> QED BY <3>1 DEF HeldInv, Holds
  <2>3. serial' \in [Tokens -> Nat] /\ rows' \subseteq Tokens /\ unbound' \subseteq Calls
    BY <1>7, <2>1 DEF Issue
  <2>4. sid' \in [Devices -> (Tokens \ unbound') \cup {None}]
    BY <1>7, <2>2 DEF Issue, device
  <2>5. faults' \in 0..MaxFaults /\ upset' \subseteq Devices
    BY <1>7, FailsType DEF Issue
  <2> QED BY <1>7, <2>3, <2>4, <2>5 DEF Issue, device, account
<1>8. CASE Fallback(c)
  BY <1>8 DEF Fallback, device, account, history
<1>9. CASE Answer(c)
  <2>1. NewSid(c) \in (Tokens \ unbound) \cup {None}
    BY DEF NewSid
  <2> QED BY <1>9, <2>1 DEF Answer, stored, account, history
<1>10. CASE Logout(c)
  <2>1. sent' \in [Calls -> [token : Tokens \cup {None}, sid : Tokens \cup {None}]]
    BY <1>10 DEF Logout
  <2> QED BY <1>10, <2>1 DEF Logout, device, stored, account
<1>11. CASE EndSession(c)
  <2>1. faults' \in 0..MaxFaults /\ upset' \subseteq Devices /\ rows' \subseteq Tokens
    BY <1>11, RobbedType, FailsType DEF EndSession
  <2> QED BY <1>11, <2>1 DEF EndSession, device, account
<1>12. CASE LoggedOut(c)
  BY <1>12 DEF LoggedOut, SignedOut, stored, account, history
<1>13. CASE Reset(c) \/ SpendLink(c)
  BY <1>13 DEF Reset, SpendLink, device, stored, account, history
<1>14. CASE SetPassword(c)
  BY <1>14 DEF SetPassword, RowsKept, device
<1>15. CASE ForceLogout(c) \/ SetActive(c)
  BY <1>15 DEF ForceLogout, SetActive, device, stored, account, history
<1>17. CASE Terminate(c) \/ Purge(c)
  <2>1. faults' \in 0..MaxFaults /\ upset' \subseteq Devices /\ rows' \subseteq Tokens /\ active' \in BOOLEAN
    BY <1>17, FailsType DEF Terminate, Purge, stored, account
  <2> QED BY <1>17, <2>1 DEF Terminate, Purge, device, stored, account
<1>16. CASE Dies(c)
  <2>1. access' \in [Devices -> Tokens \cup {None}] /\ sid' \in [Devices -> (Tokens \ unbound) \cup {None}]
    BY <1>16 DEF Dies, SignedOut
  <2>2. raced' \subseteq Tokens
    BY <1>16 DEF Dies, At
  <2>3. faults' \in 0..MaxFaults /\ upset' \subseteq Devices
    BY <1>16, FailsType DEF Dies
  <2> QED BY <1>16, <2>1, <2>2, <2>3 DEF Dies, stored, account
<1> QED BY <1>1, <1>2, <1>3, <1>4, <1>5, <1>6, <1>7, <1>8, <1>9, <1>10, <1>11, <1>12, <1>13, <1>14, <1>15, <1>16, <1>17 DEF Step

LEMMA StepAt ==
    ASSUME BaseInv, NEW c \in Calls, Step(c)
    PROVE  AtInv'
<1> USE DEF BaseInv
<1>0. Kind(c) \in Kinds /\ Dev(c) \in Devices /\ At(c) /\ Kind(c)' = Kind(c) /\ None \notin Tokens
  BY OpFacts, OthersStay DEF AtInv, Kind
<1>1. ASSUME NEW b \in Calls \ {c} PROVE At(b)'
  BY <1>1, OthersStay DEF AtInv, At, Kind
<1>2. At(c)'
  <2> USE <1>0 DEF At, Goto, Kinds, Rotation, TypeOK
  <2>1. CASE Login(c) \/ Refresh(c)
    BY <2>1 DEF Login, Refresh
  <2>2. CASE FindRow(c)
    BY <2>2 DEF FindRow, RowOf
  <2>3. CASE TakeRow(c) \/ DropRow(c) \/ ReadLegacy(c) \/ ClearLegacy(c)
    BY <2>3 DEF TakeRow, DropRow, ReadLegacy, ClearLegacy
  <2>4. CASE Issue(c) \/ Fallback(c) \/ Answer(c)
    BY <2>4 DEF Issue, Fallback, Answer
  <2>5. CASE Logout(c) \/ EndSession(c) \/ LoggedOut(c)
    BY <2>5 DEF Logout, EndSession, LoggedOut
  <2>6. CASE Reset(c) \/ SetPassword(c) \/ SpendLink(c)
    <3>1. found' = found /\ sent' = sent /\ pc[c] \in {"idle", "set", "spend"}
          /\ \E l \in {"set", "spend", "barred", "done"} : pc' = [pc EXCEPT ![c] = l]
      BY <2>6 DEF Reset, SetPassword, SpendLink
    <3>2. Kind(c) = "RESET"
      BY <2>6 DEF Reset, SetPassword, SpendLink
    <3>3. sent'[c] = sent[c] /\ found'[c] = found[c] /\ pc'[c] \in {"set", "spend", "barred", "done"}
      BY <3>1
    <3>4. pc[c] = "idle" => found[c] = None
      OBVIOUS
    <3> QED
      <4> HIDE <1>0 DEF TypeOK, BaseInv
      <4> QED BY <3>2, <3>3, <1>0
  <2>7. CASE ForceLogout(c) \/ SetActive(c) \/ Terminate(c) \/ Purge(c)
    BY <2>7 DEF ForceLogout, SetActive, Terminate, Purge
  <2>8. CASE Dies(c)
    BY <2>8 DEF Dies, Live
  <2> QED BY <2>1, <2>2, <2>3, <2>4, <2>5, <2>6, <2>7, <2>8 DEF Step
<1> QED BY <1>1, <1>2 DEF AtInv

LEMMA StepIssued ==
    ASSUME BaseInv, NEW c \in Calls, Step(c)
    PROVE  IssuedInv'
<1> USE DEF BaseInv
<1>0. c \in Tokens /\ At(c) /\ None \notin Tokens
  BY OpFacts DEF AtInv
<1>1. PICK l \in Live \cup Ended : pc' = [pc EXCEPT ![c] = l]
  BY StepPc
<1>2. \A b \in Calls \ {c} : pc'[b] = pc[b] /\ found'[b] = found[b]
  BY OthersStay
<1>3. pc'[c] = l /\ pc \in [Calls -> {"idle"} \cup Live \cup Ended] /\ found \in [Calls -> Tokens \cup {None}]
  BY <1>1 DEF TypeOK
\* No step leads back to where nothing was issued yet.
<1>4. Issued(c) => Issued(c)'
  <2>1. SUFFICES ASSUME pc[c] \notin Early PROVE pc'[c] \notin Early
    BY DEF Issued
  <2> USE <2>1, <1>3 DEF Early, Rotation, Goto
  <2>2. CASE Login(c) \/ Refresh(c) \/ FindRow(c) \/ TakeRow(c) \/ DropRow(c) \/ ReadLegacy(c) \/ ClearLegacy(c) \/ Issue(c)
    BY <2>2 DEF Login, Refresh, FindRow, TakeRow, DropRow, ReadLegacy, ClearLegacy, Issue
  <2>3. CASE Fallback(c) \/ Answer(c) \/ Logout(c) \/ EndSession(c) \/ LoggedOut(c)
    BY <2>3 DEF Fallback, Answer, Logout, EndSession, LoggedOut
  <2>4. CASE Reset(c) \/ SetPassword(c) \/ SpendLink(c) \/ ForceLogout(c) \/ SetActive(c) \/ Terminate(c) \/ Purge(c) \/ Dies(c)
    BY <2>4 DEF Reset, SetPassword, SpendLink, ForceLogout, SetActive, Terminate, Purge, Dies
  <2> QED BY <2>2, <2>3, <2>4 DEF Step
<1>5. \A t : Issued(t) => Issued(t)'
  BY <1>2, <1>4 DEF Issued
\* What is new to the server is what is issued in the step.
<1>6. /\ rows' \subseteq rows \cup {c} /\ unbound' \subseteq unbound \cup {c}
      /\ legacy' \in {legacy, None, c} /\ found'[c] \in {found[c]} \cup rows
      /\ c \in rows' \ rows \/ c \in unbound' \ unbound \/ legacy' = c => Issued(c)' \/ legacy = c
  <2> USE <1>0, <1>3 DEF Issued, Early, Rotation, Goto
  <2>2. CASE Login(c) \/ Refresh(c) \/ ReadLegacy(c) \/ Answer(c) \/ Logout(c) \/ LoggedOut(c)
    BY <2>2 DEF Login, Refresh, ReadLegacy, Answer, Logout, LoggedOut, stored
  <2>3. CASE FindRow(c)
    BY <2>3 DEF FindRow, stored, RowOf
  <2>4. CASE TakeRow(c) \/ DropRow(c) \/ ClearLegacy(c)
    BY <2>4 DEF TakeRow, DropRow, ClearLegacy
  <2>5. CASE Issue(c) \/ Fallback(c)
    BY <2>5 DEF Issue, Fallback
  <2>6. CASE EndSession(c) \/ SetPassword(c)
    BY <2>6 DEF EndSession, SetPassword, RowsKept
  <2>7. CASE Reset(c) \/ SpendLink(c) \/ ForceLogout(c) \/ SetActive(c) \/ Terminate(c) \/ Purge(c) \/ Dies(c)
    BY <2>7 DEF Reset, SpendLink, ForceLogout, SetActive, Terminate, Purge, Dies, stored
  <2> QED BY <2>2, <2>3, <2>4, <2>5, <2>6, <2>7 DEF Step
<1>7. Issued(None) /\ Issued(None)'
  BY <1>0 DEF Issued, Tokens
<1>8. ASSUME NEW t \in rows' \cup unbound' PROVE Issued(t)'
  BY <1>5, <1>6, <1>8 DEF IssuedInv
<1>9. Issued(legacy)'
  BY <1>5, <1>6, <1>7 DEF IssuedInv, Issued
<1>10. ASSUME NEW b \in Calls PROVE Issued(found[b])'
  <2>1. CASE b # c
    BY <1>2, <1>5, <2>1 DEF IssuedInv, Issued
  <2>2. CASE b = c
    BY <1>5, <1>6, <2>2 DEF IssuedInv, Issued
  <2> QED BY <2>1, <2>2
<1> QED BY <1>8, <1>9, <1>10 DEF IssuedInv

\* A call that is over takes no step.
LEMMA DoneStays ==
    ASSUME NEW c \in Calls, Step(c)
    PROVE  pc[c] \notin Ended
<1> USE DEF Ended, Live
<1>1. CASE Login(c) \/ Refresh(c) \/ FindRow(c) \/ TakeRow(c) \/ DropRow(c) \/ ReadLegacy(c) \/ ClearLegacy(c)
  BY <1>1 DEF Login, Refresh, FindRow, TakeRow, DropRow, ReadLegacy, ClearLegacy
<1>2. CASE Issue(c) \/ Fallback(c) \/ Answer(c) \/ Logout(c) \/ EndSession(c) \/ LoggedOut(c)
  BY <1>2 DEF Issue, Fallback, Answer, Logout, EndSession, LoggedOut
<1>3. CASE Reset(c) \/ SetPassword(c) \/ SpendLink(c) \/ ForceLogout(c) \/ SetActive(c) \/ Terminate(c) \/ Purge(c) \/ Dies(c)
  BY <1>3 DEF Reset, SetPassword, SpendLink, ForceLogout, SetActive, Terminate, Purge, Dies
<1> QED BY <1>1, <1>2, <1>3 DEF Step

LEMMA StepHeld ==
    ASSUME BaseInv, NEW c \in Calls, Step(c)
    PROVE  HeldInv'
<1> DEFINE d == Dev(c)
           Still(e, t) == t # None => Owner(t) = e /\ (t \in Calls => pc'[t] = "done")
<1> USE DEF BaseInv
<1>0. c \in Tokens /\ d \in Devices /\ None \notin Tokens /\ Owner(c) = d
  BY OpFacts
<1>1. op' = op /\ \A b \in Calls \ {c} : pc'[b] = pc[b] /\ sent'[b] = sent[b]
  BY OthersStay
<1>2. pc[c] # "done"
  BY DoneStays DEF Ended
<1>3. \A e, t : Holds(e, t) => Still(e, t)
  BY <1>1, <1>2 DEF Holds
<1>h. Still(d, cookie[d]) /\ Still(d, sid[d]) /\ Still(d, access[d]) /\ Still(d, sent[c].token) /\ Still(d, sent[c].sid)
      /\ Still(d, None)
  BY <1>0, <1>3 DEF HeldInv, Holds
<1>t. /\ cookie \in [Devices -> Tokens \cup {None}] /\ access \in [Devices -> Tokens \cup {None}]
      /\ sid \in [Devices -> (Tokens \ unbound) \cup {None}]
      /\ sent \in [Calls -> [token : Tokens \cup {None}, sid : Tokens \cup {None}]]
      /\ pc \in [Calls -> {"idle"} \cup Live \cup Ended]
  BY DEF TypeOK
\* The device of the call keeps what it has, forgets it, or takes the answer.
<1>5. /\ \A e \in Devices \ {d} : cookie'[e] = cookie[e] /\ sid'[e] = sid[e] /\ access'[e] = access[e]
      /\ Still(d, cookie'[d]) /\ Still(d, sid'[d]) /\ Still(d, access'[d])
      /\ Still(d, sent'[c].token) /\ Still(d, sent'[c].sid)
  <2> HIDE DEF Still, BaseInv
  <2> USE <1>0, <1>h, <1>t DEF Goto
  <2>1. CASE Login(c) \/ FindRow(c) \/ TakeRow(c) \/ Issue(c) \/ Fallback(c) \/ EndSession(c)
    BY <2>1 DEF Login, FindRow, TakeRow, Issue, Fallback, EndSession, device
  <2>2. CASE Reset(c) \/ SetPassword(c) \/ SpendLink(c) \/ ForceLogout(c) \/ SetActive(c) \/ Terminate(c) \/ Purge(c)
    BY <2>2 DEF Reset, SetPassword, SpendLink, ForceLogout, SetActive, Terminate, Purge, device
  <2>3. CASE DropRow(c) \/ ReadLegacy(c) \/ ClearLegacy(c) \/ LoggedOut(c) \/ Dies(c)
    BY <2>3 DEF DropRow, ReadLegacy, ClearLegacy, LoggedOut, Dies, SignedOut
  <2>4. CASE Refresh(c)
    <3>1. sent'[c].token = cookie[d] /\ sent'[c].sid = sid[d] /\ cookie' = cookie
      BY <2>4 DEF Refresh
    <3>2. UNCHANGED <<sid, access>> \/ SignedOut(d)
      BY <2>4 DEF Refresh
    <3> QED BY <3>1, <3>2 DEF SignedOut
  <2>5. CASE Logout(c)
    <3>1. sent'[c].token = access[d] /\ sent'[c].sid \in {access[d], None} /\ UNCHANGED <<cookie, sid, access>>
      BY <2>5 DEF Logout, device
    <3> QED BY <3>1
  <2>6. CASE Answer(c)
    <3>1. pc'[c] = "done" /\ sent' = sent
      BY <2>6 DEF Answer
    <3>2. Still(d, c)
      BY <3>1 DEF Still
    <3>3. NewSid(c) \in {sid[d], c}
      BY DEF NewSid
    <3> QED BY <2>6, <3>1, <3>2, <3>3 DEF Answer
  <2> QED BY <2>1, <2>2, <2>3, <2>4, <2>5, <2>6 DEF Step
<1>6. ASSUME NEW e \in Devices PROVE (Holds(e, cookie[e]) /\ Holds(e, sid[e]) /\ Holds(e, access[e]))'
  <2>1. Still(e, cookie'[e]) /\ Still(e, sid'[e]) /\ Still(e, access'[e])
    BY <1>3, <1>5 DEF HeldInv
  <2> QED BY <2>1, <1>1 DEF Holds, Owner, Dev
<1>7. ASSUME NEW b \in Calls PROVE (Holds(Dev(b), sent[b].token) /\ Holds(Dev(b), sent[b].sid))'
  <2>1. Still(Dev(b), sent'[b].token) /\ Still(Dev(b), sent'[b].sid)
    BY <1>1, <1>3, <1>5 DEF HeldInv
  <2> QED BY <2>1, <1>1 DEF Holds, Owner, Dev
<1> QED BY <1>6, <1>7 DEF HeldInv

LEMMA BaseStep ==
    ASSUME BaseInv, [Next]_vars
    PROVE  BaseInv'
<1>1. CASE Next
  BY <1>1, StepTypeOK, StepAt, StepHeld, StepIssued DEF Next, BaseInv
<1>2. CASE UNCHANGED vars
  <2> USE <1>2 DEF vars, device, stored, account, history
  <2>1. TypeOK'
    BY DEF BaseInv, TypeOK
  <2>2. AtInv'
    BY DEF BaseInv, AtInv, At, Kind
  <2>3. HeldInv'
    BY DEF BaseInv, HeldInv, Holds, Owner, Dev
  <2>4. IssuedInv'
    BY DEF BaseInv, IssuedInv, Issued
  <2> QED BY <2>1, <2>2, <2>3, <2>4 DEF BaseInv
<1> QED BY <1>1, <1>2

\* The stored sessions, tokens and accounts are of their types in every state.
THEOREM TypeCorrect == Spec => []TypeOK
<1>1. BaseInv => TypeOK
  BY DEF BaseInv
<1> QED BY <1>1, InitBase, BaseStep, PTL DEF Spec

-----------------------------------------------------------------------------
(* Whose sessions end.                                                     *)

\* A step that deletes a row is a step of a call of the row's owner, of a
\* reset, or of a call without a session id.
LEMMA StepOwn ==
    ASSUME BaseInv, NEW c \in Calls, Step(c), NEW t \in rows, t \notin rows'
    PROVE  pc'[c] # pc[c] /\ (Kind(c) \in {"RESET", "TERMINATE"} \/ Dev(c) = Owner(t) \/ sent[c].sid = None)
<1>0. At(c) /\ Holds(Dev(c), sent[c].token) /\ Holds(Dev(c), sent[c].sid) /\ None \notin Tokens /\ t \in Tokens
      /\ pc \in [Calls -> {"idle"} \cup Live \cup Ended]
  BY OpFacts DEF BaseInv, AtInv, HeldInv, TypeOK
<1> USE <1>0 DEF Goto
<1>1. CASE TakeRow(c)
  <2>1. t = sent[c].token /\ t # None
    BY <1>1 DEF TakeRow, RowsTaken, At
  <2> QED BY <1>1, <2>1 DEF TakeRow, Holds
<1>2. CASE DropRow(c)
  <2>1. t = found[c] /\ t # None
    BY <1>2 DEF DropRow
  <2>2. sent[c].sid = None \/ t = sent[c].sid
    BY <2>1 DEF At
  <2> QED BY <1>2, <2>1, <2>2 DEF DropRow, Holds
<1>3. CASE EndSession(c)
  <2>1. sent[c].sid = None \/ t = sent[c].sid
    BY <1>3 DEF EndSession, RowsEnded
  <2> QED BY <1>3, <2>1 DEF EndSession, Holds
<1>4. CASE SetPassword(c)
  BY <1>4 DEF SetPassword, At
<1>5. CASE Login(c) \/ Refresh(c) \/ FindRow(c) \/ ReadLegacy(c) \/ ClearLegacy(c) \/ Issue(c)
  BY <1>5 DEF Login, Refresh, FindRow, ReadLegacy, ClearLegacy, Issue, stored
<1>6. CASE Fallback(c) \/ Answer(c) \/ Logout(c) \/ LoggedOut(c) \/ Reset(c)
  BY <1>6 DEF Fallback, Answer, Logout, LoggedOut, Reset, stored, history
<1>7. CASE SpendLink(c) \/ ForceLogout(c) \/ SetActive(c) \/ Terminate(c) \/ Dies(c)
  BY <1>7 DEF SpendLink, ForceLogout, SetActive, Terminate, Dies, stored
<1>8. CASE Purge(c)
  BY <1>8 DEF Purge, At
<1> QED BY <1>1, <1>2, <1>3, <1>4, <1>5, <1>6, <1>7, <1>8 DEF Step

\* A session ends by a request of its own device, by a reset, or by a request
\* that carries no session id: no refresh or log-out that names its session
\* signs another device out.
THEOREM SessionsApart == Spec => OnlyOwnSession
<1> DEFINE Own == \A t \in rows : t \notin rows' =>
                     \E c \in Calls : /\ pc'[c] # pc[c]
                                      /\ Kind(c) \in {"RESET", "TERMINATE"} \/ Dev(c) = Owner(t) \/ sent[c].sid = None
<1>1. BaseInv /\ [Next]_vars => [Own]_vars
  <2> SUFFICES ASSUME BaseInv, Next PROVE Own
    OBVIOUS
  <2> QED BY StepOwn DEF Next
<1>2. OnlyOwnSession <=> [][Own]_vars
  BY DEF OnlyOwnSession
<1> QED BY <1>1, <1>2, InitBase, BaseStep, PTL DEF Spec

-----------------------------------------------------------------------------
(* A token is taken once.                                                  *)

LEMMA RacedGrows ==
    ASSUME NEW c \in Calls, Step(c)
    PROVE  raced \subseteq raced'
<1>1. CASE Login(c) \/ Refresh(c) \/ FindRow(c) \/ TakeRow(c) \/ DropRow(c) \/ ReadLegacy(c) \/ ClearLegacy(c) \/ Issue(c)
  BY <1>1 DEF Login, Refresh, FindRow, TakeRow, DropRow, ReadLegacy, ClearLegacy, Issue, history
<1>2. CASE Fallback(c) \/ Answer(c) \/ Logout(c) \/ EndSession(c) \/ LoggedOut(c) \/ Reset(c) \/ SetPassword(c)
  BY <1>2 DEF Fallback, Answer, Logout, EndSession, LoggedOut, Reset, SetPassword, history
<1>3. CASE SpendLink(c) \/ ForceLogout(c) \/ SetActive(c) \/ Terminate(c) \/ Purge(c) \/ Dies(c)
  BY <1>3 DEF SpendLink, ForceLogout, SetActive, Terminate, Purge, Dies, history
<1> QED BY <1>1, <1>2, <1>3 DEF Step

LEMMA StepTaken ==
    ASSUME BaseInv, TakenInv, NEW c \in Calls, Step(c)
    PROVE  TakenInv'
<1>0. At(c) /\ None \notin Tokens /\ c \in Tokens /\ Issued(found[c]) /\ rows \subseteq Tokens
      /\ pc \in [Calls -> {"idle"} \cup Live \cup Ended] /\ found \in [Calls -> Tokens \cup {None}]
      /\ sent \in [Calls -> [token : Tokens \cup {None}, sid : Tokens \cup {None}]]
  BY OpFacts DEF BaseInv, AtInv, IssuedInv, TypeOK
<1>1. \A b \in Calls \ {c} : pc'[b] = pc[b] /\ sent'[b] = sent[b] /\ found'[b] = found[b]
  BY OthersStay DEF BaseInv
\* A row is new only when its call has just issued it, and nobody has found it.
<1>2. \A b \in Calls : found[b] # None /\ found[b] \notin rows => found[b] \notin rows'
  <2> SUFFICES ASSUME NEW b \in Calls, found[b] # None, found[b] \notin rows PROVE found[b] \notin rows'
    OBVIOUS
  <2>1. CASE Issue(c)
    <3>1. Issued(found[b])
      BY DEF BaseInv, IssuedInv
    <3>2. found[b] # c
      BY <3>1, <2>1 DEF Issued, Issue, Early
    <3> QED BY <2>1, <3>2 DEF Issue
  <2>2. CASE ~Issue(c)
    <3>1. rows' \subseteq rows
      <4>1. CASE Login(c) \/ Refresh(c) \/ FindRow(c) \/ TakeRow(c) \/ DropRow(c) \/ ReadLegacy(c) \/ ClearLegacy(c)
        BY <4>1 DEF Login, Refresh, FindRow, TakeRow, DropRow, ReadLegacy, ClearLegacy, stored
      <4>2. CASE Fallback(c) \/ Answer(c) \/ Logout(c) \/ EndSession(c) \/ LoggedOut(c) \/ Reset(c) \/ SetPassword(c)
        BY <4>2 DEF Fallback, Answer, Logout, EndSession, LoggedOut, Reset, SetPassword, RowsKept, stored
      <4>3. CASE SpendLink(c) \/ ForceLogout(c) \/ SetActive(c) \/ Terminate(c) \/ Purge(c) \/ Dies(c)
        BY <4>3 DEF SpendLink, ForceLogout, SetActive, Terminate, Purge, Dies, stored
      <4> QED BY <2>2, <4>1, <4>2, <4>3 DEF Step
    <3> QED BY <3>1
  <2> QED BY <2>1, <2>2
<1>3. raced \subseteq raced'
  BY RacedGrows
<1>4. ASSUME NEW b \in Calls \ {c}, Accepted(b)' 
      PROVE  pc'[b] = "take" \/ found'[b] \notin rows' \/ found'[b] \in raced'
  BY <1>1, <1>2, <1>3, <1>4 DEF TakenInv, Accepted
<1>5. ASSUME Accepted(c)'
      PROVE  pc'[c] = "take" \/ found'[c] \notin rows' \/ found'[c] \in raced'
  <2> USE <1>0, <1>5 DEF Accepted, Goto
  <2>s. CASE found'[c] = found[c] /\ sent'[c] = sent[c] /\ pc[c] # "take"
    BY <2>s, <1>2, <1>3 DEF TakenInv
  <2>1. CASE TakeRow(c)
    BY <2>1 DEF TakeRow, RowsTaken
  <2>2. CASE FindRow(c)
    BY <2>2 DEF FindRow, At
  <2>3. CASE Dies(c)
    <3>1. CASE pc[c] = "take"
      BY <2>3, <3>1 DEF Dies
    <3>2. CASE pc[c] # "take"
      BY <2>3, <3>2, <2>s DEF Dies
    <3> QED BY <3>1, <3>2
  <2>4. CASE Refresh(c) \/ Logout(c)
    BY <2>4 DEF Refresh, Logout, At
  <2>5. CASE Login(c) \/ DropRow(c) \/ ReadLegacy(c) \/ ClearLegacy(c) \/ Issue(c) \/ Fallback(c) \/ Answer(c)
    BY <2>5, <2>s DEF Login, DropRow, ReadLegacy, ClearLegacy, Issue, Fallback, Answer
  <2>6. CASE EndSession(c) \/ LoggedOut(c) \/ Reset(c) \/ SetPassword(c) \/ SpendLink(c) \/ ForceLogout(c) \/ SetActive(c) \/ Terminate(c) \/ Purge(c)
    BY <2>6, <2>s DEF EndSession, LoggedOut, Reset, SetPassword, SpendLink, ForceLogout, SetActive, Terminate, Purge
  <2> QED BY <2>1, <2>2, <2>3, <2>4, <2>5, <2>6 DEF Step
<1> QED BY <1>4, <1>5 DEF TakenInv

\* The second of two calls to be let through by a row finds the first still at
\* it, or dead before it deleted it.
LEMMA StepRotated ==
    ASSUME BaseInv, TakenInv, RotatedOnce, NEW c \in Calls, Step(c)
    PROVE  RotatedOnce'
<1>0. At(c) /\ None \notin Tokens /\ rows \subseteq Tokens
      /\ pc \in [Calls -> {"idle"} \cup Live \cup Ended] /\ found \in [Calls -> Tokens \cup {None}]
      /\ sent \in [Calls -> [token : Tokens \cup {None}, sid : Tokens \cup {None}]]
  BY OpFacts DEF BaseInv, AtInv, TypeOK
<1>1. \A b \in Calls \ {c} : pc'[b] = pc[b] /\ sent'[b] = sent[b] /\ found'[b] = found[b]
  BY OthersStay DEF BaseInv
<1>2. raced \subseteq raced'
  BY RacedGrows
<1>3. ASSUME NEW b \in Calls \ {c}, Accepted(b)', Accepted(c)', found'[b] = found'[c]
      PROVE  found'[c] \in raced'
  <2>0. Accepted(b) /\ found[b] = found'[c]
    BY <1>1, <1>3 DEF Accepted
  <2> USE <1>0
  <2>s. CASE found'[c] = found[c] /\ sent'[c] = sent[c]
    BY <2>0, <2>s, <1>2, <1>3 DEF Accepted, RotatedOnce
  <2>1. CASE FindRow(c)
    <3>1. CASE found' = found /\ sent' = sent
      BY <2>s, <3>1
    <3>2. CASE \E t \in RowOf(c) : /\ found' = [found EXCEPT ![c] = t]
                                   /\ t = sent[c].token
                                   /\ raced' = IF \E a \in Calls \ {c} : pc[a] = "take" /\ found[a] = t
                                               THEN raced \cup {t} ELSE raced
      <4>1. found'[c] \in rows
        BY <3>2 DEF RowOf
      <4>2. pc[b] = "take" \/ found[b] \in raced
        BY <2>0, <4>1 DEF TakenInv
      <4> QED BY <2>0, <3>2, <4>2, <1>2
    <3>3. CASE \E t \in RowOf(c) : found' = [found EXCEPT ![c] = t] /\ t # sent[c].token /\ sent' = sent
      BY <3>3, <1>3 DEF Accepted
    <3> QED BY <2>1, <3>1, <3>2, <3>3 DEF FindRow
  <2>2. CASE Refresh(c) \/ Logout(c)
    BY <2>2, <1>3 DEF Refresh, Logout, At, Accepted
  <2>3. CASE Login(c) \/ TakeRow(c) \/ DropRow(c) \/ ReadLegacy(c) \/ ClearLegacy(c) \/ Issue(c) \/ Fallback(c) \/ Answer(c)
    BY <2>3, <2>s DEF Login, TakeRow, DropRow, ReadLegacy, ClearLegacy, Issue, Fallback, Answer
  <2>4. CASE EndSession(c) \/ LoggedOut(c) \/ Reset(c) \/ SetPassword(c) \/ SpendLink(c) \/ ForceLogout(c) \/ SetActive(c) \/ Terminate(c) \/ Purge(c) \/ Dies(c)
    BY <2>4, <2>s DEF EndSession, LoggedOut, Reset, SetPassword, SpendLink, ForceLogout, SetActive, Terminate, Purge, Dies
  <2> QED BY <2>1, <2>2, <2>3, <2>4 DEF Step
<1>4. SUFFICES ASSUME NEW a \in Calls, NEW b \in Calls, a # b, Accepted(a)', Accepted(b)', found'[a] = found'[b]
               PROVE  found'[b] \in raced'
  BY DEF RotatedOnce
<1>5. CASE a = c
  BY <1>3, <1>4, <1>5
<1>6. CASE b = c
  BY <1>3, <1>4, <1>6
<1>7. CASE a # c /\ b # c
  BY <1>1, <1>2, <1>4, <1>7 DEF RotatedOnce, Accepted
<1> QED BY <1>5, <1>6, <1>7

\* A refresh token is let through by its row once, unless two requests
\* presented it at once or the first failed before it deleted the row.
THEOREM TokenRotatedOnce == Spec => []RotatedOnce
<1> DEFINE IInv == BaseInv /\ TakenInv /\ RotatedOnce
<1>1. Init => IInv
  BY InitBase DEF Init, TakenInv, RotatedOnce, Accepted
<1>2. IInv /\ [Next]_vars => IInv'
  <2> SUFFICES ASSUME IInv, [Next]_vars PROVE IInv'
    OBVIOUS
  <2>1. BaseInv'
    BY BaseStep
  <2>2. CASE Next
    BY <2>1, <2>2, StepTaken, StepRotated DEF Next
  <2>3. CASE UNCHANGED vars
    BY <2>1, <2>3 DEF vars, stored, history, TakenInv, RotatedOnce, Accepted
  <2> QED BY <2>2, <2>3
<1> QED BY <1>1, <1>2, PTL DEF Spec

-----------------------------------------------------------------------------
(* What outlives a password reset.                                         *)

\* Only a log-in or a refresh that begins writes proof, of its own call; only a
\* refresh and a reset write slipped; only a reset writes the password.
LEMMA StepProof ==
    ASSUME BaseInv, NEW c \in Calls, Step(c)
    PROVE  \/ Login(c)
           \/ Refresh(c)
           \/ SetPassword(c)
           \/ UNCHANGED <<proof, slipped, password>>
<1>1. CASE FindRow(c) \/ TakeRow(c) \/ DropRow(c) \/ ReadLegacy(c) \/ ClearLegacy(c) \/ Issue(c)
  BY <1>1 DEF FindRow, TakeRow, DropRow, ReadLegacy, ClearLegacy, Issue, account, history
<1>2. CASE Fallback(c) \/ Answer(c) \/ Logout(c) \/ EndSession(c) \/ LoggedOut(c) \/ Reset(c)
  BY <1>2 DEF Fallback, Answer, Logout, EndSession, LoggedOut, Reset, account, history
<1>3. CASE SpendLink(c) \/ ForceLogout(c) \/ SetActive(c) \/ Terminate(c) \/ Purge(c) \/ Dies(c)
  BY <1>3 DEF SpendLink, ForceLogout, SetActive, Terminate, Purge, Dies, account, history
<1> QED BY <1>1, <1>2, <1>3 DEF Step

LEMMA StepStale ==
    ASSUME BaseInv, StaleInv, NEW c \in Calls, Step(c)
    PROVE  StaleInv'
<1> DEFINE Verified == {"take", "issue", "fallback"}
           Now(t) == proof'[t] = password' \/ t \in slipped'
           Known(t) == t \in rows \/ t = legacy \/ (t \in Calls /\ pc[t] = "done") \/ t \in Devices
           Follows(b) == /\ proof'[b] = proof'[sent'[b].token]
                         /\ sent'[b].token \in slipped' => b \in slipped'
<1>0. /\ c \in Tokens /\ None \notin Tokens /\ At(c) /\ c \notin Devices /\ Tokens = Devices \cup Calls
      /\ rows \subseteq Tokens /\ legacy \in Tokens \cup {None} /\ slipped \subseteq Calls
      /\ pc \in [Calls -> {"idle"} \cup Live \cup Ended] /\ proof \in [Tokens -> Nat] /\ password \in Nat
      /\ cookie \in [Devices -> Tokens \cup {None}]
      /\ sent \in [Calls -> [token : Tokens \cup {None}, sid : Tokens \cup {None}]]
      /\ Dev(c) \in Devices
  BY OpFacts, ConstantsAssumption DEF BaseInv, AtInv, TypeOK, Tokens
<1>1. /\ op' = op
      /\ \A b \in Calls \ {c} : pc'[b] = pc[b] /\ sent'[b] = sent[b] /\ proof'[b] = proof[b]
      /\ \A d \in Devices : proof'[d] = proof[d]
  BY OthersStay DEF BaseInv
\* A token somebody has seen is not that of a call that has not begun.
<1>2. \A t \in rows \cup {legacy} : t = c => pc[c] # "idle" /\ pc[c] # "issue"
  BY DEF BaseInv, IssuedInv, Issued, Early
<1>3. /\ \A b \in Calls : sent[b].token \in Calls => pc[sent[b].token] = "done"
      /\ \A d \in Devices : cookie[d] \in Calls => pc[cookie[d]] = "done"
  BY <1>0 DEF BaseInv, HeldInv, Holds
<1>4. \A b \in Calls : Kind(b) = "REFRESH" /\ pc[b] # "idle" => sent[b].token \in Tokens
  BY <1>0 DEF BaseInv, AtInv, At
<1> SUFFICES /\ \A t \in rows' \cup ({legacy'} \ {None}) : Now(t)
             /\ \A b \in Calls : pc'[b] \in Verified => Now(b)
             /\ \A b \in Calls : Kind(b) = "REFRESH" /\ pc'[b] # "idle" => Follows(b)
  BY <1>1 DEF StaleInv, Current, Kind
<1>s. /\ \A t \in rows \cup ({legacy} \ {None}) : Current(t)
      /\ \A b \in Calls : pc[b] \in Verified => Current(b)
      /\ \A b \in Calls : Kind(b) = "REFRESH" /\ pc[b] # "idle"
            => proof[b] = proof[sent[b].token] /\ (sent[b].token \in slipped => b \in slipped)
  BY DEF StaleInv
<1>5. CASE Login(c) \/ Refresh(c)
  <2>1. /\ pc[c] = "idle" /\ UNCHANGED <<rows, legacy, password>> /\ pc'[c] \in {"issue", "barred", "find"}
        /\ slipped \subseteq slipped' /\ slipped' \subseteq slipped \cup {c}
    BY <1>5, <1>0 DEF Login, Refresh, stored, account, Goto
  <2>2. \A t \in Tokens \ {c} : Current(t) => Now(t)
    BY <2>1, <1>0, <1>1 DEF Current
  <2>3. \A t \in rows' \cup ({legacy'} \ {None}) : Now(t)
    BY <2>1, <2>2, <1>2, <1>s, <1>0
  <2>4. \A b \in Calls \ {c} : pc'[b] \in Verified => Now(b)
    BY <2>2, <1>1, <1>s, <1>0
  <2>5. ASSUME NEW b \in Calls \ {c}, Kind(b) = "REFRESH", pc'[b] # "idle" PROVE Follows(b)
    <3>1. sent[b].token \in Tokens \ {c}
      BY <1>1, <1>3, <1>4, <2>1, <2>5
    <3> QED BY <3>1, <1>1, <1>s, <2>1, <2>5, <1>0
  <2>6. CASE Login(c)
    <3>1. pc'[c] = "issue" => proof'[c] = password
      BY <2>6, <1>0 DEF Login, Goto
    <3>2. Kind(c) # "REFRESH"
      BY <2>6 DEF Login
    <3> QED BY <2>1, <2>3, <2>4, <2>5, <3>1, <3>2
  <2>7. CASE Refresh(c)
    <3>1. /\ sent'[c].token = cookie[Dev(c)] /\ proof'[c] = proof[cookie[Dev(c)]]
          /\ cookie[Dev(c)] \in slipped => c \in slipped'
          /\ cookie[Dev(c)] \in Tokens /\ pc'[c] \in {"barred", "find"}
      BY <2>7, <1>0 DEF Refresh, Goto
    <3>2. cookie[Dev(c)] # c
      BY <2>1, <1>3, <1>0
    <3>3. Follows(c)
      BY <3>1, <3>2, <1>0, <1>1, <2>1
    <3> QED BY <2>1, <2>3, <2>4, <2>5, <3>1, <3>3
  <2> QED BY <1>5, <2>6, <2>7
<1>6. CASE SetPassword(c)
  <2>1. /\ rows' = {} /\ legacy' = None /\ UNCHANGED <<proof, sent>>
        /\ slipped' = slipped \cup {b \in Calls : pc[b] \in Verified}
        /\ pc' = [pc EXCEPT ![c] = "spend"] /\ pc[c] = "set"
    BY <1>6 DEF SetPassword, RowsKept, Goto
  <2>2. \A b \in Calls : pc'[b] \in Verified => Now(b)
    BY <2>1, <1>0
  <2>3. ASSUME NEW b \in Calls, Kind(b) = "REFRESH", pc'[b] # "idle" PROVE Follows(b)
    <3>1. pc[b] # "idle"
      BY <2>1, <2>3, <1>0
    <3>2. sent[b].token \in slipped' => sent[b].token \in slipped
      BY <2>1, <1>3
    <3> QED BY <2>1, <2>3, <3>1, <3>2, <1>s
  <2> QED BY <2>1, <2>2, <2>3
<1>7. CASE /\ UNCHANGED <<proof, slipped, password>>
           /\ ~Login(c) /\ ~Refresh(c) /\ ~SetPassword(c)
  <2>0. \A t : Current(t) => Now(t)
    BY <1>7 DEF Current
  \* A token that is new to the server is that of a verified call; a refresh
  \* becomes one when its token is among those of the server.
  <2>1. /\ rows' \subseteq rows \cup {c} /\ (c \in rows' => c \in rows \/ pc[c] \in Verified)
        /\ legacy' \in {legacy, None, c} /\ (legacy' = c => legacy = c \/ pc[c] \in Verified)
        /\ pc'[c] \in Verified => \/ pc[c] \in Verified
                                  \/ Kind(c) = "REFRESH" /\ pc[c] # "idle" /\ sent[c].token \in rows \cup ({legacy} \ {None})
        /\ Kind(c) = "REFRESH" => pc[c] # "idle" /\ sent'[c] = sent[c]
    <3> USE <1>0 DEF Goto, stored, account
    <3>1. CASE FindRow(c)
      BY <3>1 DEF FindRow, RowOf, At, Rotation
    <3>2. CASE TakeRow(c) \/ DropRow(c) \/ ClearLegacy(c)
      BY <3>2 DEF TakeRow, DropRow, ClearLegacy
    <3>3. CASE ReadLegacy(c)
      BY <3>3 DEF ReadLegacy, At, Rotation
    <3>4. CASE Issue(c) \/ Fallback(c) \/ Answer(c)
      BY <3>4 DEF Issue, Fallback, Answer
    <3>5. CASE Logout(c) \/ EndSession(c) \/ LoggedOut(c)
      BY <3>5 DEF Logout, EndSession, LoggedOut
    <3>6. CASE Reset(c) \/ SpendLink(c) \/ ForceLogout(c) \/ SetActive(c) \/ Terminate(c) \/ Purge(c)
      BY <3>6 DEF Reset, SpendLink, ForceLogout, SetActive, Terminate, Purge
    <3>7. CASE Dies(c)
      BY <3>7 DEF Dies, Live
    <3> QED BY <1>7, <3>1, <3>2, <3>3, <3>4, <3>5, <3>6, <3>7 DEF Step
  <2>2. pc[c] \in Verified \/ pc'[c] \in Verified => Current(c)
    <3>1. CASE pc[c] \in Verified
      BY <3>1, <1>s
    <3>2. CASE pc[c] \notin Verified /\ pc'[c] \in Verified
      BY <3>2, <2>1, <1>s DEF Current
    <3> QED BY <3>1, <3>2
  <2>3. \A t \in rows' \cup ({legacy'} \ {None}) : Now(t)
    BY <2>0, <2>1, <2>2, <1>s
  <2>4. \A b \in Calls : pc'[b] \in Verified => Now(b)
    BY <2>0, <2>2, <1>1, <1>s
  <2>5. \A b \in Calls : Kind(b) = "REFRESH" /\ pc'[b] # "idle" => Follows(b)
    BY <1>7, <2>1, <1>1, <1>s
  <2> QED BY <2>3, <2>4, <2>5
<1> QED BY <1>5, <1>6, <1>7, StepProof

\* A session or a fallback token outlives a password reset only when the
\* request that made it, or one it was rotated from, was verified before.
THEOREM ResetEndsSessions == Spec => []StaleSessionExplained
<1>1. Init => BaseInv /\ StaleInv
  BY InitBase, ConstantsAssumption DEF Init, StaleInv, Current, Tokens
<1>2. BaseInv /\ StaleInv /\ [Next]_vars => (BaseInv /\ StaleInv)'
  <2> SUFFICES ASSUME BaseInv, StaleInv, [Next]_vars PROVE (BaseInv /\ StaleInv)'
    OBVIOUS
  <2>1. BaseInv'
    BY BaseStep
  <2>2. CASE Next
    BY <2>1, <2>2, StepStale DEF Next
  <2>3. CASE UNCHANGED vars
    BY <2>1, <2>3 DEF vars, stored, account, history, StaleInv, Current, Kind
  <2> QED BY <2>2, <2>3
<1>3. StaleInv => StaleSessionExplained
  BY DEF StaleInv, StaleSessionExplained, Current
<1> QED BY <1>1, <1>2, <1>3, PTL DEF Spec

-----------------------------------------------------------------------------
(* A reset link sets one password.                                         *)

LEMMA StepLink ==
    ASSUME BaseInv, LinkInv, NEW c \in Calls, Step(c)
    PROVE  LinkInv'
<1> DEFINE k == Link(c)
           There(b, l) == Link(b) = l /\ pc'[b] \in {"set", "spend"}
           Once(l) == /\ \A a, b \in Calls : There(a, l) /\ There(b, l) => a = b
                      /\ \A b \in Calls : There(b, l) => l \in links'
                      /\ \/ reused'[l] = 0
                         \/ reused'[l] = 1 /\ (l \in links' => \E b \in Calls : Link(b) = l /\ pc'[b] = "spend")
<1>0. /\ k \in Links /\ At(c) /\ links \subseteq Links /\ reused \in [Links -> Nat]
      /\ pc \in [Calls -> {"idle"} \cup Live \cup Ended]
  BY OpFacts DEF BaseInv, AtInv, TypeOK
<1>1. op' = op /\ \A b \in Calls \ {c} : pc'[b] = pc[b]
  BY OthersStay DEF BaseInv
<1>2. SUFFICES ASSUME NEW l \in Links \ shared' PROVE Once(l)
  BY <1>1 DEF LinkInv, AtLink, Link
<1>3. shared \subseteq shared'
  <2>1. CASE Login(c) \/ Refresh(c) \/ FindRow(c) \/ TakeRow(c) \/ DropRow(c) \/ ReadLegacy(c) \/ ClearLegacy(c) \/ Issue(c)
    BY <2>1 DEF Login, Refresh, FindRow, TakeRow, DropRow, ReadLegacy, ClearLegacy, Issue, history
  <2>2. CASE Fallback(c) \/ Answer(c) \/ Logout(c) \/ EndSession(c) \/ LoggedOut(c) \/ Reset(c) \/ SetPassword(c)
    BY <2>2 DEF Fallback, Answer, Logout, EndSession, LoggedOut, Reset, SetPassword, history
  <2>3. CASE SpendLink(c) \/ ForceLogout(c) \/ SetActive(c) \/ Terminate(c) \/ Purge(c) \/ Dies(c)
    BY <2>3 DEF SpendLink, ForceLogout, SetActive, Terminate, Purge, Dies, history
  <2> QED BY <2>1, <2>2, <2>3 DEF Step
<1>4. /\ \A a, b \in Calls : AtLink(a, l) /\ AtLink(b, l) => a = b
      /\ \A b \in Calls : AtLink(b, l) => l \in links
      /\ \/ reused[l] = 0
         \/ reused[l] = 1 /\ (l \in links => \E b \in Calls : Link(b) = l /\ pc[b] = "spend")
  BY <1>2, <1>3 DEF LinkInv
<1>5. \A b \in Calls \ {c} : There(b, l) <=> AtLink(b, l)
  BY <1>1 DEF AtLink
<1>s. ASSUME UNCHANGED <<links, reused>>, pc[c] # "spend", pc'[c] \notin {"set", "spend"}
      PROVE  Once(l)
  BY <1>s, <1>1, <1>4, <1>5
<1> USE <1>0 DEF Goto
<1>6. CASE Reset(c)
  <2>1. UNCHANGED <<links, reused>> /\ pc[c] = "idle"
    BY <1>6 DEF Reset, account
  <2>2. CASE k = l /\ pc'[c] = "set"
    <3>1. l \in links
      BY <1>6, <2>2 DEF Reset, Works
    <3>2. \A b \in Calls \ {c} : ~AtLink(b, l)
      BY <1>6, <2>2, <1>2 DEF Reset, AtLink
    <3>3. reused[l] = 0
      BY <3>1, <3>2, <1>4, <2>1 DEF AtLink
    <3> QED BY <2>1, <3>1, <3>2, <3>3, <1>5
  <2>3. CASE k # l /\ pc'[c] = "set"
    BY <2>1, <2>3, <1>1, <1>4, <1>5
  <2>4. CASE pc'[c] = "barred"
    BY <2>1, <2>4, <1>s
  <2> QED BY <1>6, <2>2, <2>3, <2>4 DEF Reset
<1>7. CASE SetPassword(c)
  <2>1. links' = links /\ pc[c] = "set" /\ pc'[c] = "spend" /\ reused' = [reused EXCEPT ![k] = @ + 1]
    BY <1>7 DEF SetPassword
  <2>2. CASE k = l
    <3>1. AtLink(c, l) /\ There(c, l)
      BY <2>1, <2>2 DEF AtLink
    <3>2. l \in links /\ \A b \in Calls \ {c} : ~AtLink(b, l)
      BY <3>1, <1>4
    <3>3. reused[l] = 0
      BY <3>2, <1>4, <2>1 DEF AtLink
    <3>4. reused'[l] = 1
      BY <3>3, <2>1, <2>2
    <3> QED BY <2>1, <2>2, <3>1, <3>2, <3>4, <1>5
  <2>3. CASE k # l
    BY <2>1, <2>3, <1>1, <1>4, <1>5
  <2> QED BY <2>2, <2>3
<1>8. CASE SpendLink(c)
  <2>1. links' = links \ {k} /\ pc[c] = "spend" /\ pc'[c] = "done" /\ reused' = reused
    BY <1>8 DEF SpendLink, history
  <2>2. CASE k = l
    <3>1. \A b \in Calls : ~There(b, l)
      BY <2>1, <2>2, <1>4, <1>5 DEF AtLink
    <3> QED BY <3>1, <2>1, <2>2, <1>4
  <2>3. CASE k # l
    BY <2>1, <2>3, <1>1, <1>4, <1>5
  <2> QED BY <2>2, <2>3
<1>9. CASE Dies(c)
  <2>1. UNCHANGED <<links, reused>> /\ pc'[c] = "dead" /\ (pc[c] = "spend" => shared' = shared \cup {k})
    BY <1>9 DEF Dies, account
  <2>2. CASE pc[c] = "spend"
    BY <2>1, <2>2, <1>1, <1>2, <1>4, <1>5
  <2>3. CASE pc[c] # "spend"
    BY <2>1, <2>3, <1>s
  <2> QED BY <2>2, <2>3
<1>10. CASE ~Reset(c) /\ ~SetPassword(c) /\ ~SpendLink(c) /\ ~Dies(c)
  <2>1. UNCHANGED <<links, reused>> /\ pc[c] # "spend" /\ pc'[c] \notin {"set", "spend"}
    <3>1. CASE Login(c) \/ Refresh(c) \/ FindRow(c) \/ TakeRow(c) \/ DropRow(c) \/ ReadLegacy(c) \/ ClearLegacy(c)
      BY <3>1 DEF Login, Refresh, FindRow, TakeRow, DropRow, ReadLegacy, ClearLegacy, account, history
    <3>2. CASE Issue(c) \/ Fallback(c) \/ Answer(c) \/ Logout(c) \/ EndSession(c) \/ LoggedOut(c)
      BY <3>2 DEF Issue, Fallback, Answer, Logout, EndSession, LoggedOut, account, history
    <3>3. CASE ForceLogout(c) \/ SetActive(c) \/ Terminate(c) \/ Purge(c)
      BY <3>3 DEF ForceLogout, SetActive, Terminate, Purge, account, history
    <3> QED BY <1>10, <3>1, <3>2, <3>3 DEF Step
  <2> QED BY <2>1, <1>s
<1> QED BY <1>6, <1>7, <1>8, <1>9, <1>10

\* A reset link sets one password, unless two resets used it at once or the
\* first failed before it deleted the link.
THEOREM LinkWorksOnce == Spec => []LinkSpentOnce
<1>1. Init => BaseInv /\ LinkInv
  BY InitBase DEF Init, LinkInv, AtLink
<1>2. BaseInv /\ LinkInv /\ [Next]_vars => (BaseInv /\ LinkInv)'
  <2> SUFFICES ASSUME BaseInv, LinkInv, [Next]_vars PROVE (BaseInv /\ LinkInv)'
    OBVIOUS
  <2>1. BaseInv'
    BY BaseStep
  <2>2. CASE Next
    BY <2>1, <2>2, StepLink DEF Next
  <2>3. CASE UNCHANGED vars
    BY <2>1, <2>3 DEF vars, account, history, LinkInv, AtLink, Link
  <2> QED BY <2>2, <2>3
<1>3. LinkInv => LinkSpentOnce
  BY DEF LinkInv, LinkSpentOnce
<1> QED BY <1>1, <1>2, <1>3, PTL DEF Spec

-----------------------------------------------------------------------------
(* Why a refresh is refused.                                               *)

LEMMA UpsetGrows ==
    ASSUME BaseInv, NEW c \in Calls, Step(c)
    PROVE  upset \subseteq upset'
<1>0. upset \subseteq Devices
  BY DEF BaseInv, TypeOK
<1> USE DEF Fails
<1>1. CASE Login(c) \/ Refresh(c) \/ FindRow(c) \/ TakeRow(c) \/ DropRow(c) \/ ReadLegacy(c) \/ ClearLegacy(c) \/ Issue(c)
  BY <1>1 DEF Login, Refresh, FindRow, TakeRow, DropRow, ReadLegacy, ClearLegacy, Issue, history
<1>2. CASE Fallback(c) \/ Answer(c) \/ Logout(c) \/ EndSession(c) \/ LoggedOut(c) \/ Reset(c) \/ SetPassword(c)
  BY <1>0, <1>2 DEF Fallback, Answer, Logout, EndSession, LoggedOut, Reset, SetPassword, history
<1>3. CASE SpendLink(c) \/ ForceLogout(c) \/ SetActive(c) \/ Terminate(c) \/ Dies(c)
  BY <1>3 DEF SpendLink, ForceLogout, SetActive, Terminate, Dies, history
<1>4. CASE Purge(c)
  BY <1>0, <1>4 DEF Purge
<1> QED BY <1>1, <1>2, <1>3, <1>4 DEF Step

\* Whoever loses a row by the request of another is upset.
LEMMA RowsOwned ==
    ASSUME BaseInv, NEW c \in Calls, Step(c), NEW t \in rows, t \notin rows'
    PROVE  Owner(t) = Dev(c) \/ Owner(t) \in upset'
<1>0. t \in Tokens /\ Owner(t) \in Devices
  BY OpFacts DEF BaseInv, TypeOK, Tokens, Owner
<1>1. CASE TakeRow(c) \/ DropRow(c) \/ EndSession(c)
  BY <1>1 DEF TakeRow, DropRow, EndSession, Robbed
<1>2. CASE SetPassword(c)
  BY <1>0, <1>2 DEF SetPassword
<1>3. CASE Login(c) \/ Refresh(c) \/ FindRow(c) \/ ReadLegacy(c) \/ ClearLegacy(c) \/ Issue(c)
  BY <1>3 DEF Login, Refresh, FindRow, ReadLegacy, ClearLegacy, Issue, stored
<1>4. CASE Fallback(c) \/ Answer(c) \/ Logout(c) \/ LoggedOut(c) \/ Reset(c)
  BY <1>4 DEF Fallback, Answer, Logout, LoggedOut, Reset, stored
<1>5. CASE SpendLink(c) \/ ForceLogout(c) \/ SetActive(c) \/ Terminate(c) \/ Dies(c)
  BY <1>5 DEF SpendLink, ForceLogout, SetActive, Terminate, Dies, stored
<1>6. CASE Purge(c)
  BY <1>0, <1>6 DEF Purge
<1> QED BY <1>1, <1>2, <1>3, <1>4, <1>5, <1>6 DEF Step

\* Another device keeps what it has, and none of its calls becomes unbound.
LEMMA DevicesApart ==
    ASSUME BaseInv, NEW c \in Calls, Step(c)
    PROVE  /\ \A d \in Devices \ {Dev(c)} : cookie'[d] = cookie[d] /\ sid'[d] = sid[d]
           /\ unbound' \subseteq unbound \cup {c}
<1>0. cookie \in [Devices -> Tokens \cup {None}] /\ sid \in [Devices -> (Tokens \ unbound) \cup {None}]
  BY DEF BaseInv, TypeOK
<1> USE <1>0 DEF device, stored, SignedOut
<1>1. CASE Login(c) \/ Refresh(c) \/ FindRow(c) \/ TakeRow(c)
  BY <1>1 DEF Login, Refresh, FindRow, TakeRow
<1>2. CASE DropRow(c) \/ ReadLegacy(c) \/ ClearLegacy(c) \/ Issue(c)
  BY <1>2 DEF DropRow, ReadLegacy, ClearLegacy, Issue
<1>3. CASE Fallback(c) \/ Answer(c) \/ Logout(c) \/ EndSession(c)
  BY <1>3 DEF Fallback, Answer, Logout, EndSession
<1>4. CASE LoggedOut(c) \/ Reset(c) \/ SetPassword(c) \/ SpendLink(c)
  BY <1>4 DEF LoggedOut, Reset, SetPassword, SpendLink
<1>5. CASE ForceLogout(c) \/ SetActive(c) \/ Terminate(c) \/ Purge(c) \/ Dies(c)
  BY <1>5 DEF ForceLogout, SetActive, Terminate, Purge, Dies
<1> QED BY <1>1, <1>2, <1>3, <1>4, <1>5 DEF Step

LEMMA AloneOther ==
    ASSUME BaseInv, NEW c \in Calls, Step(c), NEW d \in Devices \ upset', d # Dev(c), Alone(d)
    PROVE  Alone(d)'
<1>1. op' = op /\ \A b \in Calls \ {c} : pc'[b] = pc[b] /\ sent'[b] = sent[b]
  BY OthersStay DEF BaseInv
<1>2. cookie'[d] = cookie[d] /\ sid'[d] = sid[d] /\ unbound' \subseteq unbound \cup {c}
  BY DevicesApart
<1>3. \A t \in rows : Owner(t) = d => t \in rows'
  BY RowsOwned
<1>4. sid[d] # None => Owner(sid[d]) = d
  BY DEF BaseInv, HeldInv, Holds
<1>5. \A b \in Calls : Dev(b) = d => b # c /\ Owner(b) = d
  BY DEF Owner
<1>6. Matched(d) => Matched(d)'
  BY <1>2, <1>3, <1>4 DEF Matched
<1> QED BY <1>1, <1>2, <1>3, <1>5, <1>6 DEF Alone, Underway, Dev

LEMMA AloneOwn ==
    ASSUME BaseInv, NEW c \in Calls, Step(c), Dev(c) \notin upset', Alone(Dev(c))
    PROVE  Alone(Dev(c))'
<1> DEFINE d == Dev(c)
           Going(b) == pc'[b] \in Live \ {"set", "spend", "purge"}
           Fits == cookie'[d] = None \/ sid'[d] = None \/ (sid'[d] = cookie'[d] /\ sid'[d] \in rows')
           Fine(b) == /\ pc'[b] = "find" => sent'[b].token = cookie'[d] /\ sent'[b].sid = sid'[d]
                      /\ pc'[b] \in {"drop", "legacy", "clear", "refused"} => sent'[b].sid = None
                      /\ pc'[b] # "fallback"
                      /\ pc'[b] = "answer" => b \in rows' /\ b \notin unbound'
           Quiet == \A b \in Calls \ {c} : Dev(b) = d => ~Underway(b)
           Goal == /\ \A a, b \in Calls : Dev(a) = d /\ Dev(b) = d /\ Going(a) /\ Going(b) => a = b
                   /\ (\A b \in Calls : Dev(b) = d => ~Going(b) \/ pc'[b] = "find") => Fits
                   /\ \A b \in Calls : Dev(b) = d => Fine(b)
<1>0. /\ c \in Tokens /\ None \notin Tokens /\ At(c) /\ d \in Devices /\ rows \subseteq Tokens
      /\ pc \in [Calls -> {"idle"} \cup Live \cup Ended] /\ found \in [Calls -> Tokens \cup {None}]
      /\ cookie \in [Devices -> Tokens \cup {None}] /\ sid \in [Devices -> (Tokens \ unbound) \cup {None}]
      /\ sent \in [Calls -> [token : Tokens \cup {None}, sid : Tokens \cup {None}]]
  BY OpFacts DEF BaseInv, AtInv, TypeOK
<1>1. op' = op /\ \A b \in Calls \ {c} : pc'[b] = pc[b] /\ sent'[b] = sent[b]
  BY OthersStay DEF BaseInv
<1>2. SUFFICES Goal
  BY <1>1 DEF Alone, Underway, Dev, Matched
<1>3. /\ \A a, b \in Calls : Dev(a) = d /\ Dev(b) = d /\ Underway(a) /\ Underway(b) => a = b
      /\ (\A b \in Calls : Dev(b) = d => ~Underway(b) \/ pc[b] = "find") => Matched(d)
      /\ \A b \in Calls : Dev(b) = d =>
            /\ pc[b] = "find" => sent[b].token = cookie[d] /\ sent[b].sid = sid[d]
            /\ pc[b] \in {"drop", "legacy", "clear", "refused"} => sent[b].sid = None
            /\ pc[b] # "fallback"
            /\ pc[b] = "answer" => b \in rows /\ b \notin unbound
  BY DEF Alone
<1>f. ~Fails(c)
  BY DEF Fails
\* When no other request of the device is under way, only the call matters.
<1>4. ASSUME Quiet, Fine(c), ~Going(c) \/ pc'[c] = "find" => Fits
      PROVE  Goal
  <2>1. \A b \in Calls \ {c} : Dev(b) = d => ~Going(b) /\ Fine(b)
    BY <1>1, <1>3, <1>4 DEF Underway, Live
  <2> HIDE DEF Fine, Going, Fits
  <2> QED BY <2>1, <1>4
<1>5. pc[c] \in Live \ {"set", "spend", "purge"} => Quiet
  BY <1>3 DEF Underway
<1>6. Quiet /\ (~Underway(c) \/ pc[c] = "find") => Matched(d)
  BY <1>3
<1> HIDE DEF Quiet, Goal
<1> USE <1>0 DEF Goto
<1>7. CASE Login(c) \/ Logout(c)
  <2>1. Quiet
    <3>1. ~Busy(c)
      BY <1>7 DEF Login, Logout
    <3> QED BY <3>1 DEF Busy, Quiet, Underway
  <2>2. pc[c] = "idle" /\ pc'[c] \in {"issue", "barred", "end"} /\ UNCHANGED <<cookie, sid, rows>>
    BY <1>7 DEF Login, Logout, device, stored
  <2>3. Fits
    BY <2>1, <2>2, <1>6 DEF Matched, Underway, Live
  <2> QED BY <2>1, <2>2, <2>3, <1>4
<1>8. CASE Refresh(c)
  <2>1. Quiet
    <3>1. ~Busy(c)
      BY <1>8 DEF Refresh
    <3> QED BY <3>1 DEF Busy, Quiet, Underway
  <2>2. pc[c] = "idle" /\ pc'[c] \in {"find", "barred"} /\ UNCHANGED <<cookie, rows>>
        /\ sent'[c].token = cookie[d] /\ sent'[c].sid = sid[d]
        /\ \/ pc'[c] = "find" /\ sid' = sid
           \/ pc'[c] = "barred" /\ sid'[d] = None
    BY <1>8 DEF Refresh, stored, SignedOut
  <2>3. Fits
    BY <2>1, <2>2, <1>6 DEF Matched, Underway, Live
  <2> QED BY <2>1, <2>2, <2>3, <1>4
<1>9. CASE FindRow(c)
  <2>1. pc[c] = "find" /\ Quiet
    BY <1>9, <1>5 DEF FindRow, Live
  <2>2. Matched(d) /\ sent[c].token = cookie[d] /\ sent[c].sid = sid[d]
    BY <2>1, <1>3, <1>6
  <2>3. Kind(c) = "REFRESH" /\ cookie[d] # None
    BY <2>1, <2>2 DEF At, Rotation
  <2>4. sent[c].sid # None => RowOf(c) = {sent[c].token}
    BY <2>2, <2>3 DEF Matched, RowOf
  <2>5. sent' = sent /\ pc'[c] \in {"legacy", "take", "drop"} /\ (pc'[c] # "take" => sent[c].sid = None)
    BY <1>9, <1>f, <2>4 DEF FindRow
  <2> QED BY <2>1, <2>5, <1>4 DEF Live
<1>10. CASE TakeRow(c) \/ EndSession(c)
  <2>1. Quiet /\ pc'[c] \in {"issue", "deny"}
    BY <1>10, <1>5 DEF TakeRow, EndSession, Live
  <2> QED BY <2>1, <1>4 DEF Live
<1>11. CASE DropRow(c) \/ ReadLegacy(c) \/ ClearLegacy(c)
  <2>1. Quiet /\ sent[c].sid = None /\ sent' = sent
    BY <1>11, <1>3, <1>5 DEF DropRow, ReadLegacy, ClearLegacy, Live
  <2>2. pc'[c] \in {"refused", "issue", "clear"} /\ (pc'[c] = "refused" => sid'[d] = None)
    BY <1>11 DEF DropRow, ReadLegacy, ClearLegacy, SignedOut
  <2> QED BY <2>1, <2>2, <1>4 DEF Live
<1>12. CASE Issue(c)
  <2>1. pc[c] = "issue" /\ c \notin unbound
    <3>1. pc[c] = "issue"
      BY <1>12 DEF Issue
    <3> QED BY <3>1 DEF BaseInv, IssuedInv, Issued, Early
  <2>2. Quiet
    BY <2>1, <1>5 DEF Live
  <2>3. pc'[c] = "answer" /\ c \in rows' /\ unbound' = unbound
    BY <1>12, <1>f DEF Issue
  <2> QED BY <2>1, <2>2, <2>3, <1>4 DEF Live
<1>13. CASE Fallback(c)
  BY <1>13, <1>3 DEF Fallback
<1>14. CASE Answer(c)
  <2>1. Quiet /\ c \in rows /\ c \notin unbound
    BY <1>14, <1>3, <1>5 DEF Answer, Live
  <2>2. pc'[c] = "done" /\ cookie'[d] = c /\ sid'[d] = c /\ rows' = rows
    BY <1>14, <2>1 DEF Answer, NewSid, stored
  <2> QED BY <2>1, <2>2, <1>4
<1>15. CASE LoggedOut(c)
  <2>1. Quiet
    BY <1>15, <1>5 DEF LoggedOut, Live
  <2>2. pc'[c] = "done" /\ cookie'[d] = None
    BY <1>15 DEF LoggedOut
  <2> QED BY <2>1, <2>2, <1>4
<1>16. CASE SetPassword(c)
  BY <1>16 DEF SetPassword
<1>17. CASE Dies(c)
  BY <1>17, <1>f DEF Dies
<1>18. CASE Reset(c) \/ SpendLink(c) \/ ForceLogout(c) \/ SetActive(c) \/ Terminate(c)
  <2>1. /\ pc[c] \in {"idle", "spend"} /\ pc'[c] \in {"set", "barred", "done", "purge"}
        /\ UNCHANGED <<cookie, sid, rows, unbound>>
    BY <1>18 DEF Reset, SpendLink, ForceLogout, SetActive, Terminate, device, stored
  <2>2. \A b \in Calls : (Going(b) <=> Underway(b)) /\ (pc'[b] = "find" <=> pc[b] = "find")
    BY <2>1, <1>1 DEF Underway, Live
  <2>3. Fine(c)
    BY <2>1
  <2>4. \A b \in Calls \ {c} : Dev(b) = d => Fine(b)
    BY <2>1, <1>1, <1>3
  <2>5. Matched(d) => Fits
    BY <2>1 DEF Matched
  <2> HIDE DEF Fine, Going, Fits
  <2> QED BY <2>2, <2>3, <2>4, <2>5, <1>3 DEF Goal
<1>19. CASE Purge(c)
  BY <1>19, <1>f DEF Purge
<1> QED BY <1>7, <1>8, <1>9, <1>10, <1>11, <1>12, <1>13, <1>14, <1>15, <1>16, <1>17, <1>18, <1>19 DEF Step

\* A device that has stored its session id is refused a refresh only when its
\* own requests overlapped or failed, a reset ended all sessions, or a device
\* without a session id ended this one.
THEOREM RefusalsExplained == Spec => []RefusedForAReason
<1>1. Init => BaseInv /\ AloneInv
  <2> SUFFICES ASSUME Init PROVE AloneInv
    BY InitBase
  <2> QED BY DEF Init, AloneInv, Alone, Matched, Underway, Live
<1>2. BaseInv /\ AloneInv /\ [Next]_vars => (BaseInv /\ AloneInv)'
  <2> SUFFICES ASSUME BaseInv, AloneInv, [Next]_vars PROVE AloneInv'
    BY BaseStep
  <2>1. ASSUME NEW c \in Calls, Step(c), NEW d \in Devices \ upset' PROVE Alone(d)'
    <3>1. Alone(d)
      BY <2>1, UpsetGrows DEF AloneInv
    <3>2. CASE d # Dev(c)
      BY <2>1, <3>1, <3>2, AloneOther
    <3>3. CASE d = Dev(c)
      <4>1. Dev(c) \notin upset' /\ Alone(Dev(c)) /\ Dev(c)' = Dev(c)
        BY <2>1, <3>1, <3>3, OthersStay DEF BaseInv, Dev
      <4>2. Alone(Dev(c))'
        BY <2>1, <4>1, AloneOwn
      <4> QED BY <4>1, <4>2, <3>3 DEF Alone
    <3> QED BY <3>2, <3>3
  <2>2. CASE Next
    BY <2>1, <2>2 DEF Next, AloneInv
  <2>3. CASE UNCHANGED vars
    BY <2>3 DEF vars, device, stored, history, AloneInv, Alone, Matched, Underway, Dev
  <2> QED BY <2>2, <2>3
<1>3. BaseInv /\ AloneInv => RefusedForAReason
  <2> SUFFICES ASSUME BaseInv, AloneInv, NEW c \in Calls, Refused(c), Dev(c) \notin upset PROVE sent[c].sid = None
    BY DEF RefusedForAReason
  <2>1. Dev(c) \in Devices
    BY OpFacts DEF BaseInv
  <2> QED BY <2>1 DEF AloneInv, Alone, Refused
<1> QED BY <1>1, <1>2, <1>3, PTL DEF Spec
=============================================================================
