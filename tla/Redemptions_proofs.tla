------------------------- MODULE Redemptions_proofs -------------------------
(***************************************************************************)
(* Theorems about Redemptions, for every set of customers, coupons, cards, *)
(* rewards, calls and operations.                                          *)
(***************************************************************************)
EXTENDS Redemptions, TLAPS

\* A call is at a step of its own kind of operation.
KindInv ==
    \A q \in Calls :
        /\ pc[q] = "locked" => Kind(q) = "TILL"
        /\ pc[q] \in {"looked", "lapsed"} => Kind(q) \in Claims
        /\ pc[q] = "purse" => Kind(q) \in Claims \cup {"SPEND"}

TypeInv == TypeOK /\ KindInv

LEMMA OpFacts ==
    ASSUME TypeOK, NEW r \in Calls
    PROVE  /\ Kind(r) \in Kinds
           /\ Who(r) \in Customers
           /\ Kind(r) \in OnCoupons => Item(r) \in Coupons
           /\ Kind(r) \in OnCards => Item(r) \in Cards
           /\ Kind(r) = "REWARD" => Item(r) \in Rewards
           /\ Kind(r) \in {"TRANSFER", "REFER"} => op[r].other \in Customers
BY ConstantsAssumption DEF TypeOK, Kind, Who, Item, Operation, WellFormed

LEMMA ReadsReadable ==
    ASSUME TypeOK, NEW q \in Calls
    PROVE  Reads(q) \subseteq Readable
BY OpFacts DEF Reads, Subject, Readable, Wallet, Referral, Kinds, OnCoupons, OnCards, Claims, CardEdits

LEMMA WritesTyped ==
    ASSUME TypeOK, NEW r \in Calls, NEW W, Writes(r, W)
    PROVE  /\ stale' \in [Calls -> SUBSET Readable]
           /\ overrun' \subseteq Readable
<1>1. stale \in [Calls -> SUBSET Readable] /\ overrun \subseteq Readable
  BY DEF TypeOK
<1>2. \A q \in Calls : Reads(q) \subseteq Readable
  BY ReadsReadable
<1> QED BY <1>1, <1>2 DEF Writes

LEMMA InitTypeInv == Init => TypeInv
BY ConstantsAssumption DEF Init, TypeInv, TypeOK, KindInv, Live

LEMMA StepKind ==
    ASSUME TypeInv, NEW r \in Calls, Step(r)
    PROVE  KindInv'
<1> USE DEF TypeInv
<1>0. Kind(r) \in Kinds
  BY OpFacts
<1>1. op' = op /\ pc \in [Calls -> {"idle", "done", "refused", "failed"} \cup Live]
  BY DEF Step, TillLock, TillCommit, PortalRead, PortalUse, Erase, PortalLook, ClaimRead, Lapse,
     ReadPurse, ClaimCommit, SpendCommit, EditRead, EditWrite, RewardRead, RewardCommit,
     ReferralRead, ReferralCommit, Fail, call, TypeOK
<1>2. /\ \A q \in Calls \ {r} : pc'[q] = pc[q]
      /\ pc'[r] = "locked" => Kind(r) = "TILL"
      /\ pc'[r] \in {"looked", "lapsed"} => Kind(r) \in Claims
      /\ pc'[r] = "purse" => Kind(r) \in Claims \cup {"SPEND"}
  BY <1>0, <1>1 DEF Step, TillLock, TillCommit, PortalRead, PortalUse, Erase, PortalLook, ClaimRead, Lapse,
     ReadPurse, ClaimCommit, SpendCommit, EditRead, EditWrite, RewardRead, RewardCommit,
     ReferralRead, ReferralCommit, Fail, Goto, Claims, KindInv
<1> QED BY <1>1, <1>2 DEF KindInv, Kind

\* Every action keeps the variables well typed.
LEMMA StepType ==
    ASSUME TypeInv, NEW r \in Calls, Step(r)
    PROVE  TypeOK'
<1> USE OpFacts DEF TypeInv
<1>1. CASE TillLock(r)
  BY <1>1 DEF TillLock, TypeOK, Goto, Live, coupons, cards, wallets, rewards, referrals, call
<1>2. CASE TillCommit(r)
  <2>1. Item(r) \in Coupons
    BY <1>2 DEF TillCommit, KindInv, OnCoupons
  <2> QED BY <1>2, <2>1, WritesTyped DEF TillCommit, TypeOK, Goto, cards, wallets, rewards, referrals, call
<1>3. CASE PortalRead(r)
  BY <1>3 DEF PortalRead, TypeOK, Goto, Live, coupons, cards, wallets, rewards, referrals, call
<1>4. CASE PortalUse(r)
  <2>1. Item(r) \in Coupons
    BY <1>4 DEF PortalUse, OnCoupons
  <2> QED BY <1>4, <2>1, WritesTyped DEF PortalUse, TypeOK, Goto, cards, wallets, rewards, referrals, call
<1>5. CASE Erase(r)
  BY <1>5, WritesTyped DEF Erase, TypeOK, Goto, cards, call
<1>6. CASE PortalLook(r)
  BY <1>6 DEF PortalLook, TypeOK, Goto, Live, coupons, cards, wallets, rewards, referrals, call
<1>7. CASE ClaimRead(r)
  <2>1. Item(r) \in Cards
    BY <1>7 DEF ClaimRead, OnCards
  <2> QED BY <1>7, <2>1 DEF ClaimRead, TypeOK, Goto, Live, coupons, cards, wallets, rewards, referrals
<1>8. CASE Lapse(r)
  <2>1. Item(r) \in Cards
    BY <1>8 DEF Lapse, KindInv, OnCards
  <2> QED BY <1>8, <2>1, WritesTyped DEF Lapse, TypeOK, Goto, coupons, wallets, rewards, referrals, call
<1>9. CASE ReadPurse(r)
  BY <1>9 DEF ReadPurse, TypeOK, Goto, Live, coupons, cards, wallets, rewards, referrals
<1>10. ASSUME WriteWallet(r)
       PROVE  wallet' \in [Customers -> Int] /\ entered' \in [Customers -> Int]
  <2>1. seen[r] \in Int /\ purse[r] \in Int /\ Price \in Int
    BY ConstantsAssumption DEF TypeOK
  <2>2. Entry(r) \in Int
    BY <2>1 DEF Entry
  <2> QED BY <1>10, <2>1, <2>2 DEF WriteWallet, TypeOK
<1>11. CASE ClaimCommit(r)
  <2>1. Item(r) \in Cards
    BY <1>11 DEF ClaimCommit, OnCards
  <2> QED BY <1>11, <2>1, <1>10, WritesTyped DEF ClaimCommit, TypeOK, Goto, coupons, rewards, referrals, call
<1>12. CASE SpendCommit(r)
  BY <1>12, <1>10, WritesTyped DEF SpendCommit, TypeOK, Goto, coupons, cards, rewards, referrals, call
<1>13. CASE EditRead(r)
  BY <1>13 DEF EditRead, TypeOK, Goto, Live, coupons, cards, wallets, rewards, referrals, call
<1>14. CASE EditWrite(r)
  <2>1. Item(r) \in Cards
    BY <1>14 DEF EditWrite, OnCards
  <2>2. StatusAfter(r, Item(r)) \in {"none", "ACTIVE", "REDEEMED", "EXPIRED", "VOIDED", "PENDING_DELETE", "gone"}
    BY <2>1 DEF StatusAfter, TypeOK
  <2>3. MoneyAfter(r, Item(r)) \in Nat
    BY <2>1 DEF MoneyAfter, TypeOK
  <2>4. holder' \in [Cards -> Customers \cup {Nobody}]
    BY <1>14 DEF EditWrite, TypeOK
  <2> QED BY <1>14, <2>1, <2>2, <2>3, <2>4, WritesTyped
          DEF EditWrite, TypeOK, Goto, coupons, wallets, rewards, referrals, call
<1>15. CASE RewardRead(r)
  BY <1>15 DEF RewardRead, TypeOK, Goto, Live, coupons, cards, wallets, rewards, referrals, call
<1>16. CASE RewardCommit(r)
  <2>1. Item(r) \in Rewards
    BY <1>16 DEF RewardCommit
  <2>2. Cashback[Item(r)] \in Int
    BY <2>1, ConstantsAssumption
  <2>3. /\ coupon' \in [Coupons -> {"none", "ACTIVE", "USED", "VOIDED"}]
        /\ owner' \in [Coupons -> Customers \cup {Nobody}]
        /\ wallet' \in [Customers -> Int] /\ entered' \in [Customers -> Int]
        /\ pending' \subseteq Customers \X Rewards
    BY <1>16, <2>1, <2>2 DEF RewardCommit, Materialise, Mint, TypeOK, wallets
  <2>4. /\ bought' \subseteq Customers \X Rewards
        /\ stock' \in [Rewards -> Int]
    BY <1>16, <2>1 DEF RewardCommit, TypeOK
  <2> QED BY <1>16, <2>3, <2>4, WritesTyped DEF RewardCommit, TypeOK, Goto, cards, referrals, call
<1>17. CASE ReferralRead(r)
  BY <1>17 DEF ReferralRead, TypeOK, Goto, Live, coupons, cards, wallets, rewards, referrals, call
<1>18. CASE ReferralCommit(r)
  <2>1. op[r].other \in Customers
    BY <1>18 DEF ReferralCommit
  <2> QED BY <1>18, <2>1, WritesTyped DEF ReferralCommit, Mint, TypeOK, Goto, cards, wallets, rewards, call
<1>19. CASE Fail(r)
  BY <1>19 DEF Fail, TypeOK, Goto, coupons, cards, wallets, rewards, referrals, call
<1> QED BY <1>1, <1>2, <1>3, <1>4, <1>5, <1>6, <1>7, <1>8, <1>9, <1>11, <1>12, <1>13, <1>14, <1>15,
           <1>16, <1>17, <1>18, <1>19 DEF Step

\* A step of the environment moves no call.
Environment ==
    \/ \E g \in Cards, h \in Grantees \cup {Nobody} : IssueGiftCard(g, h)
    \/ \E k \in Coupons, c \in Grantees : GrantCoupon(k, c)
    \/ \E p \in pending : Fulfill(p)
    \/ ExpiryPasses

LEMMA NextTypeInv == TypeInv /\ [Next]_vars => TypeInv'
<1> SUFFICES ASSUME TypeInv, [Next]_vars PROVE TypeInv'
  OBVIOUS
<1>1. ASSUME NEW r \in Calls, Step(r) PROVE TypeInv'
  BY <1>1, StepKind, StepType DEF TypeInv
<1>2. CASE Environment
  <2>1. TypeOK'
    BY <1>2, ConstantsAssumption DEF Environment, IssueGiftCard, GrantCoupon, Mint, Fulfill, ExpiryPasses, TypeInv,
       TypeOK, coupons, cards, wallets, rewards, referrals, call
  <2>2. KindInv'
    BY <1>2 DEF Environment, IssueGiftCard, GrantCoupon, Fulfill, ExpiryPasses, TypeInv, KindInv, Kind, call
  <2> QED BY <2>1, <2>2 DEF TypeInv
<1>3. CASE UNCHANGED vars
  BY <1>3 DEF vars, coupons, cards, wallets, rewards, referrals, call, TypeInv, TypeOK, KindInv, Kind
<1> QED BY <1>1, <1>2, <1>3 DEF Next, Environment

\* Every reachable state is well typed: no handler leaves a status, a balance or
\* an owner outside its range.
THEOREM TypeCorrect == Spec => []TypeOK
<1>1. Spec => []TypeInv
  BY InitTypeInv, NextTypeInv, PTL DEF Spec
<1> QED BY <1>1, PTL DEF TypeInv

-----------------------------------------------------------------------------
(* The row lock.  A till that holds it is alone, and its coupon is active. *)

LockInv ==
    /\ \A q \in Calls : pc[q] = "locked" => coupon[Item(q)] = "ACTIVE"
    /\ \A q, r \in Calls :
         pc[q] = "locked" /\ pc[r] = "locked" /\ Item(q) = Item(r) => q = r

\* What a step of call r can do to a coupon and to a lock.
LEMMA StepLockInv ==
    ASSUME TypeInv, LockInv, NEW r \in Calls, Step(r)
    PROVE  LockInv'
<1> USE OpFacts DEF TypeInv, LockInv, Item
<1>1. CASE TillLock(r)
  <2>1. \A q \in Calls : pc'[q] = "locked" =>
            (q # r /\ pc[q] = "locked") \/ (q = r /\ coupon[Item(r)] = "ACTIVE" /\ Unlocked(Item(r)))
    BY <1>1 DEF TillLock, Goto, TypeOK
  <2> QED BY <1>1, <2>1 DEF TillLock, Unlocked, call, coupons
<1>2. CASE TillCommit(r) \/ PortalUse(r)
  <2>1. \A q \in Calls : pc'[q] = "locked" => q # r /\ pc[q] = "locked" /\ Item(q) # Item(r)
    BY <1>2 DEF TillCommit, PortalUse, Goto, TypeOK, Unlocked
  <2>2. /\ op' = op
        /\ \A k \in Coupons \ {Item(r)} : coupon'[k] = coupon[k]
    BY <1>2 DEF TillCommit, PortalUse, TypeOK, call
  <2>3. \A q \in Calls : pc[q] = "locked" => Item(q) \in Coupons
    BY DEF KindInv, OnCoupons
  <2> QED BY <2>1, <2>2, <2>3
<1>3. CASE Erase(r)
  <2>1. \A q \in Calls : pc'[q] = "locked" => pc[q] = "locked" /\ owner[Item(q)] # Who(r) /\ Item(q) \in Coupons
    BY <1>3 DEF Erase, Goto, TypeOK, Unlocked, KindInv, OnCoupons
  <2> QED BY <1>3, <2>1 DEF Erase, call
<1>4. CASE RewardCommit(r) \/ ReferralCommit(r)
  <2>1. \A k \in Coupons : coupon[k] = "ACTIVE" => coupon'[k] = "ACTIVE"
    BY <1>4 DEF RewardCommit, ReferralCommit, Materialise, Mint, TypeOK
  <2>2. \A q \in Calls : pc'[q] = "locked" => pc[q] = "locked" /\ Item(q) \in Coupons
    BY <1>4 DEF RewardCommit, ReferralCommit, Goto, TypeOK, KindInv, OnCoupons
  <2> QED BY <1>4, <2>1, <2>2 DEF RewardCommit, ReferralCommit, call
<1>5. CASE \/ PortalRead(r) \/ PortalLook(r) \/ ClaimRead(r) \/ Lapse(r) \/ ReadPurse(r) \/ ClaimCommit(r)
           \/ SpendCommit(r) \/ EditRead(r) \/ EditWrite(r) \/ RewardRead(r) \/ ReferralRead(r) \/ Fail(r)
  <2>1. coupon' = coupon /\ op' = op
    BY <1>5 DEF PortalRead, PortalLook, ClaimRead, Lapse, ReadPurse, ClaimCommit, SpendCommit, EditRead,
       EditWrite, RewardRead, ReferralRead, Fail, coupons, call
  <2>2. \A q \in Calls : pc'[q] = "locked" => pc[q] = "locked"
    BY <1>5 DEF PortalRead, PortalLook, ClaimRead, Lapse, ReadPurse, ClaimCommit, SpendCommit, EditRead,
       EditWrite, RewardRead, ReferralRead, Fail, Goto, TypeOK
  <2> QED BY <2>1, <2>2
<1> QED BY <1>1, <1>2, <1>3, <1>4, <1>5 DEF Step

LEMMA NextLockInv == TypeInv /\ LockInv /\ [Next]_vars => LockInv'
<1> SUFFICES ASSUME TypeInv, LockInv, [Next]_vars PROVE LockInv'
  OBVIOUS
<1>1. ASSUME NEW r \in Calls, Step(r) PROVE LockInv'
  BY <1>1, StepLockInv
<1>2. CASE Environment
  <2>1. op' = op /\ pc' = pc /\ \A k \in Coupons : coupon[k] = "ACTIVE" => coupon'[k] = "ACTIVE"
    BY <1>2 DEF Environment, IssueGiftCard, GrantCoupon, Mint, Fulfill, ExpiryPasses, coupons, call, TypeInv, TypeOK
  <2>2. \A q \in Calls : pc[q] = "locked" => Item(q) \in Coupons
    BY OpFacts DEF TypeInv, KindInv, OnCoupons
  <2> QED BY <2>1, <2>2 DEF LockInv, Item
<1>3. CASE UNCHANGED vars
  BY <1>3 DEF vars, coupons, call, LockInv, Item
<1> QED BY <1>1, <1>2, <1>3 DEF Next, Environment

-----------------------------------------------------------------------------
(* Coupons are vouchers.                                                   *)

\* A step that leaves coupons and portal readers alone is a stutter.
LEMMA Stutter ==
    ASSUME UNCHANGED <<coupon, uses, op>>,
           \A q \in Calls : (pc[q] = "checked" /\ Kind(q) = "PORTAL") <=> (pc'[q] = "checked" /\ Kind(q) = "PORTAL")
    PROVE  UNCHANGED V!vvars
<1>1. \A k \in Coupons : VoucherStatus(k)' = VoucherStatus(k)
  BY DEF VoucherStatus
<1>2. \A k \in Coupons : PortalReaders(k)' = PortalReaders(k)
  BY DEF PortalReaders, Kind, Item
<1> QED BY <1>1, <1>2 DEF V!vvars

LEMMA StepRefines ==
    ASSUME TypeInv, TypeInv', LockInv, NEW r \in Calls, Step(r)
    PROVE  [V!Next]_V!vvars
<1> USE OpFacts DEF TypeInv
<1> DEFINE st == [k \in Coupons |-> VoucherStatus(k)]
           ad == [k \in Coupons |-> PortalReaders(k)]
<1>1. CASE TillCommit(r)
  <2>1. Item(r) \in Coupons /\ coupon[Item(r)] = "ACTIVE"
    BY <1>1 DEF TillCommit, KindInv, OnCoupons, LockInv
  <2>2. ad' = ad
    <3>1. \A q \in Calls : pc'[q] = "checked" <=> pc[q] = "checked"
      BY <1>1 DEF TillCommit, Goto, TypeOK
    <3> QED BY <1>1, <3>1 DEF TillCommit, PortalReaders, Kind, Item, call
  <2>3. st[Item(r)] = "unspent" /\ st' = [st EXCEPT ![Item(r)] = "spent"]
    BY <1>1, <2>1 DEF TillCommit, VoucherStatus, TypeOK
  <2>4. V!Honour(Item(r))
    BY <1>1, <2>1, <2>2, <2>3 DEF TillCommit, V!Honour, V!Spend
  <2> QED BY <2>1, <2>4 DEF V!Next
<1>2. CASE PortalRead(r)
  <2>1. Item(r) \in Coupons
    BY <1>2 DEF PortalRead, OnCoupons
  <2>2. CASE pc'[r] = "checked"
    <3>1. st[Item(r)] = "unspent"
      BY <1>2, <2>1, <2>2 DEF PortalRead, Goto, VoucherStatus, TypeOK
    <3>2. ad' = [ad EXCEPT ![Item(r)] = @ \cup {r}]
      <4>1. \A k \in Coupons : PortalReaders(k)' = IF k = Item(r) THEN PortalReaders(k) \cup {r} ELSE PortalReaders(k)
        BY <1>2, <2>2 DEF PortalRead, Goto, PortalReaders, Kind, Item, TypeOK, call
      <4> QED BY <2>1, <4>1
    <3>3. st' = st /\ uses' = uses
      BY <1>2 DEF PortalRead, coupons, VoucherStatus
    <3>4. V!Admit(Item(r), r)
      BY <3>1, <3>2, <3>3 DEF V!Admit
    <3> QED BY <2>1, <3>4 DEF V!Next
  <2>3. CASE pc'[r] # "checked"
    BY <1>2, <2>3, Stutter DEF PortalRead, Goto, TypeOK, coupons, call
  <2> QED BY <2>2, <2>3
<1>3. CASE PortalUse(r)
  <2>1. Item(r) \in Coupons /\ r \in ad[Item(r)]
    BY <1>3 DEF PortalUse, OnCoupons, PortalReaders
  <2>2. st' = [st EXCEPT ![Item(r)] = "spent"]
    BY <1>3, <2>1 DEF PortalUse, VoucherStatus, TypeOK
  <2>3. ad' = [ad EXCEPT ![Item(r)] = @ \ {r}]
    <3>1. \A k \in Coupons : PortalReaders(k)' = IF k = Item(r) THEN PortalReaders(k) \ {r} ELSE PortalReaders(k)
      BY <1>3 DEF PortalUse, Goto, PortalReaders, Kind, Item, TypeOK, call
    <3> QED BY <2>1, <3>1
  <2>4. V!HonourLate(Item(r), r)
    BY <1>3, <2>1, <2>2, <2>3 DEF PortalUse, V!HonourLate, V!Spend
  <2> QED BY <2>1, <2>4 DEF V!Next
<1>4. CASE Erase(r)
  <2> DEFINE mine == {k \in Coupons : owner[k] = Who(r)}
  <2>1. st' = [k \in Coupons |-> IF k \in mine THEN "void" ELSE st[k]]
    <3>1. \A k \in Coupons : coupon'[k] = IF k \in mine THEN "VOIDED" ELSE coupon[k]
      BY <1>4 DEF Erase
    <3>2. \A k \in mine : VoucherStatus(k)' = "void"
      BY <3>1 DEF VoucherStatus
    <3>3. \A k \in Coupons \ mine : VoucherStatus(k)' = VoucherStatus(k)
      BY <3>1 DEF VoucherStatus
    <3>4. \A k \in Coupons : st'[k] = IF k \in mine THEN "void" ELSE st[k]
      BY <3>2, <3>3
    <3> QED BY <3>4
  <2>2. ad' = ad
    <3>1. \A q \in Calls : pc'[q] = "checked" <=> pc[q] = "checked"
      BY <1>4 DEF Erase, Goto, TypeOK
    <3> QED BY <1>4, <3>1 DEF Erase, PortalReaders, Kind, Item, call
  <2>3. V!Void(mine)
    BY <1>4, <2>1, <2>2 DEF Erase, V!Void
  <2> QED BY <2>3 DEF V!Next
<1>5. CASE Fail(r)
  <2>1. CASE pc[r] = "checked" /\ Kind(r) = "PORTAL"
    <3>1. Item(r) \in Coupons
      BY <2>1 DEF OnCoupons
    <3>2. ad' = [ad EXCEPT ![Item(r)] = @ \ {r}]
      <4>1. \A k \in Coupons : PortalReaders(k)' = IF k = Item(r) THEN PortalReaders(k) \ {r} ELSE PortalReaders(k)
        BY <1>5, <2>1 DEF Fail, Goto, PortalReaders, Kind, Item, TypeOK, call
      <4> QED BY <3>1, <4>1
    <3>3. st' = st /\ uses' = uses
      BY <1>5 DEF Fail, coupons, VoucherStatus
    <3>4. V!Leave(Item(r), r)
      BY <3>2, <3>3 DEF V!Leave
    <3> QED BY <3>1, <3>4 DEF V!Next
  <2>2. CASE ~(pc[r] = "checked" /\ Kind(r) = "PORTAL")
    BY <1>5, <2>2, Stutter DEF Fail, Goto, TypeOK, coupons, call
  <2> QED BY <2>1, <2>2
<1>6. ASSUME NEW k \in Coupons, NEW c \in Customers, Mint(k, c), uses' = uses, op' = op,
             \A q \in Calls : (pc[q] = "checked" /\ Kind(q) = "PORTAL") <=> (pc'[q] = "checked" /\ Kind(q) = "PORTAL")
      PROVE  V!Grant(k)
  <2>1. st[k] = "none" /\ st' = [st EXCEPT ![k] = "unspent"]
    BY <1>6 DEF Mint, VoucherStatus, TypeOK
  <2>2. ad' = ad
    BY <1>6 DEF PortalReaders, Kind, Item
  <2> QED BY <1>6, <2>1, <2>2 DEF V!Grant
<1>7. CASE RewardCommit(r) \/ ReferralCommit(r)
  <2>1. op' = op /\ uses' = uses
        /\ \A q \in Calls : (pc[q] = "checked" /\ Kind(q) = "PORTAL") <=> (pc'[q] = "checked" /\ Kind(q) = "PORTAL")
    BY <1>7 DEF RewardCommit, ReferralCommit, Goto, TypeOK, call
  <2>2. CASE coupon' = coupon
    BY <2>1, <2>2, Stutter
  <2>3. CASE \E k \in Coupons : Mint(k, Who(r))
    BY <1>6, <2>1, <2>3 DEF V!Next
  <2> QED BY <1>7, <2>2, <2>3 DEF RewardCommit, ReferralCommit, Materialise
<1>8. CASE \/ TillLock(r) \/ PortalLook(r) \/ ClaimRead(r) \/ Lapse(r) \/ ReadPurse(r) \/ ClaimCommit(r)
           \/ SpendCommit(r) \/ EditRead(r) \/ EditWrite(r) \/ RewardRead(r) \/ ReferralRead(r)
  <2>1. coupon' = coupon /\ uses' = uses /\ op' = op
    BY <1>8 DEF TillLock, PortalLook, ClaimRead, Lapse, ReadPurse, ClaimCommit, SpendCommit, EditRead,
       EditWrite, RewardRead, ReferralRead, coupons, call
  <2>2. Kind(r) # "PORTAL"
    BY <1>8 DEF TillLock, PortalLook, ClaimRead, Lapse, ReadPurse, ClaimCommit, SpendCommit, EditRead,
       EditWrite, RewardRead, ReferralRead, KindInv, Claims, CardEdits
  <2>3. \A q \in Calls \ {r} : pc'[q] = pc[q]
    BY <1>8 DEF TillLock, PortalLook, ClaimRead, Lapse, ReadPurse, ClaimCommit, SpendCommit, EditRead,
       EditWrite, RewardRead, ReferralRead, Goto, TypeOK
  <2> QED BY <2>1, <2>2, <2>3, Stutter
<1> QED BY <1>1, <1>2, <1>3, <1>4, <1>5, <1>7, <1>8 DEF Step

LEMMA EnvironmentRefines ==
    ASSUME TypeInv, Environment
    PROVE  [V!Next]_V!vvars
<1> DEFINE st == [k \in Coupons |-> VoucherStatus(k)]
           ad == [k \in Coupons |-> PortalReaders(k)]
<1>1. ASSUME NEW k \in Coupons, NEW c \in Grantees, GrantCoupon(k, c)
      PROVE  V!Next
  <2>1. st[k] = "none" /\ st' = [st EXCEPT ![k] = "unspent"]
    BY <1>1 DEF GrantCoupon, Mint, VoucherStatus, TypeInv, TypeOK
  <2>2. ad' = ad /\ uses' = uses
    BY <1>1 DEF GrantCoupon, PortalReaders, Kind, Item, call
  <2>3. V!Grant(k)
    BY <2>1, <2>2 DEF V!Grant
  <2> QED BY <2>3 DEF V!Next
<1>2. CASE ~\E k \in Coupons, c \in Grantees : GrantCoupon(k, c)
  BY <1>2, Stutter DEF Environment, IssueGiftCard, Fulfill, ExpiryPasses, coupons, call
<1> QED BY <1>1, <1>2

\* The coupon code keeps the promise of module Vouchers: a till honours a coupon
\* only while it is unspent and alone, and nothing but a portal call that saw the
\* coupon unspent can honour it again.
THEOREM CouponsImplementVouchers == Spec => CouponsAreVouchers
<1>1. Init => V!Init
  BY DEF Init, V!Init, VoucherStatus, PortalReaders
<1>2. Init => LockInv
  BY DEF Init, LockInv
<1>3. TypeInv /\ TypeInv' /\ LockInv /\ [Next]_vars => [V!Next]_V!vvars
  <2> SUFFICES ASSUME TypeInv, TypeInv', LockInv, [Next]_vars PROVE [V!Next]_V!vvars
    OBVIOUS
  <2>1. CASE UNCHANGED vars
    BY <2>1, Stutter DEF vars, coupons, call
  <2> QED BY <2>1, StepRefines, EnvironmentRefines DEF Next, Environment
<1> QED BY <1>1, <1>2, <1>3, InitTypeInv, NextTypeInv, NextLockInv, PTL DEF Spec, V!Spec, CouponsAreVouchers

-----------------------------------------------------------------------------
(* What overtaking means.  A call whose reading is not stale still sees     *)
(* what it read.                                                           *)

\* What a claim has read is stale once another claim has paid the card; a
\* redemption's stock, a conversion's customer and a purse likewise.
FreshInv ==
    \A q \in Calls :
        /\ Kind(q) \in Claims /\ pc[q] \in {"checked", "purse"} /\ Item(q) \notin stale[q] =>
              paid[Item(q)] = 0
        /\ Kind(q) = "REWARD" /\ pc[q] = "checked" /\ Item(q) \notin stale[q] => stock[Item(q)] > 0
        /\ Kind(q) = "REFER" /\ pc[q] = "checked" /\ Referral(Who(q)) \notin stale[q] =>
              Who(q) \in erased \/ \A a \in Customers : <<a, Who(q)>> \notin credited
        /\ pc[q] = "purse" /\ Wallet(Who(q)) \notin stale[q] => purse[q] = wallet[Who(q)]

CardInv ==
    /\ PaidCardStaysEmpty
    /\ \A g \in Cards : card[g] = "none" => paid[g] = 0

ReferralInv ==
    \A c \in Customers : referred[c] = Nobody => c \in erased \/ \A a \in Customers : <<a, c>> \notin credited

OverlapInv ==
    /\ CardInv
    /\ FreshInv
    /\ CardPaidOnce
    /\ OversoldNeedsOverlap
    /\ ReferralInv /\ ReferralPaidOnce
    /\ WalletDriftNeedsOverlap

LEMMA InitOverlapInv == Init => OverlapInv
BY ConstantsAssumption DEF Init, OverlapInv, CardInv, PaidCardStaysEmpty, FreshInv, CardPaidOnce, OversoldNeedsOverlap,
   ReferralInv, ReferralPaidOnce, WalletDriftNeedsOverlap

\* Staleness only grows while a call is under way.
LEMMA StaleGrows ==
    ASSUME TypeOK, NEW r \in Calls, NEW W, Writes(r, W)
    PROVE  /\ \A q \in Calls \ {r} : stale[q] \subseteq stale'[q] /\ Reads(q) \cap W \subseteq stale'[q]
           /\ overrun \subseteq overrun'
           /\ stale[r] \cap W \subseteq overrun'
BY DEF Writes, TypeOK

LEMMA StepCardInv ==
    ASSUME TypeInv, OverlapInv, NEW r \in Calls, Step(r)
    PROVE  CardInv'
<1> USE OpFacts DEF TypeInv, OverlapInv, CardInv, PaidCardStaysEmpty
<1>1. CASE ClaimCommit(r)
  BY <1>1 DEF ClaimCommit, TypeOK
<1>2. CASE EditWrite(r)
  <2>1. Item(r) \in Cards
    BY <1>2 DEF EditWrite, OnCards
  <2>2. /\ money' = [money EXCEPT ![Item(r)] = MoneyAfter(r, Item(r))]
        /\ card' = [card EXCEPT ![Item(r)] = StatusAfter(r, Item(r))]
        /\ paid' = paid
    BY <1>2 DEF EditWrite
  <2>3. money[Item(r)] = 0 => MoneyAfter(r, Item(r)) = 0
    BY DEF MoneyAfter
  <2>4. StatusAfter(r, Item(r)) = "none" => card[Item(r)] = "none"
    BY DEF StatusAfter
  <2> QED BY <2>1, <2>2, <2>3, <2>4 DEF TypeOK
<1>3. CASE Lapse(r)
  BY <1>3 DEF Lapse, TypeOK
<1>4. CASE ~(ClaimCommit(r) \/ EditWrite(r) \/ Lapse(r))
  <2>1. card' = card /\ money' = money /\ paid' = paid
    BY <1>4 DEF Step, TillLock, TillCommit, PortalRead, PortalUse, Erase, PortalLook, ClaimRead, ReadPurse,
       SpendCommit, EditRead, RewardRead, RewardCommit, ReferralRead, ReferralCommit, Fail, cards
  <2> QED BY <2>1
<1> QED BY <1>1, <1>2, <1>3, <1>4

\* The step of a call leaves the other calls alone; what they have read can
\* only become stale.
LEMMA Others ==
    ASSUME TypeInv, NEW r \in Calls, Step(r)
    PROVE  /\ op' = op
           /\ \A q \in Calls \ {r} : pc'[q] = pc[q] /\ stale[q] \subseteq stale'[q]
           /\ overrun \subseteq overrun'
<1>1. op' = op /\ \A q \in Calls \ {r} : pc'[q] = pc[q]
  BY DEF Step, TillLock, TillCommit, PortalRead, PortalUse, Erase, PortalLook, ClaimRead, Lapse, ReadPurse,
     ClaimCommit, SpendCommit, EditRead, EditWrite, RewardRead, RewardCommit, ReferralRead, ReferralCommit, Fail,
     call, Goto, TypeInv, TypeOK
<1>2. CASE UNCHANGED <<stale, overrun>>
  BY <1>1, <1>2
<1>3. CASE \E W : Writes(r, W)
  BY <1>1, <1>3, StaleGrows DEF TypeInv
<1>4. UNCHANGED <<stale, overrun>> \/ \E W : Writes(r, W)
  BY DEF Step, TillLock, TillCommit, PortalRead, PortalUse, Erase, PortalLook, ClaimRead, Lapse, ReadPurse,
     ClaimCommit, SpendCommit, EditRead, EditWrite, RewardRead, RewardCommit, ReferralRead, ReferralCommit, Fail
<1> QED BY <1>2, <1>3, <1>4

\* A claim that has read a card, and whose reading is not stale, reads an
\* unpaid one.
LEMMA ClaimFresh ==
    ASSUME TypeInv, OverlapInv, NEW r \in Calls, Step(r), NEW q \in Calls,
           Kind(q)' \in Claims, pc'[q] \in {"checked", "purse"}, Item(q)' \notin stale'[q]
    PROVE  paid'[Item(q)'] = 0
<1> USE OpFacts, Others DEF TypeInv
<1>1. Kind(q) \in Claims /\ Kind(q)' = Kind(q) /\ Item(q)' = Item(q) /\ Item(q) \in Cards
  BY DEF Kind, Item, OnCards
<1>2. CASE ClaimRead(r)
  <2>1. paid' = paid /\ stale' = stale
    BY <1>2 DEF ClaimRead, cards
  <2>2. CASE q = r
    <3>1. Redeemable(Item(r))
      BY <1>2, <2>2 DEF ClaimRead, Goto, TypeOK
    <3> QED BY <3>1, <2>1, <2>2, <1>1 DEF Redeemable, OverlapInv, CardInv, PaidCardStaysEmpty, TypeOK
  <2>3. CASE q # r
    BY <1>1, <2>1, <2>3 DEF OverlapInv, FreshInv
  <2> QED BY <2>2, <2>3
<1>3. CASE ClaimCommit(r)
  <2>1. q # r /\ pc[q] = pc'[q]
    BY <1>3 DEF ClaimCommit, Goto, TypeOK
  <2>2. Item(q) \in Reads(q)
    <3>1. Subject(q) = {Item(q)}
      <4>1. Kind(q) \in OnCoupons \cup OnCards \cup {"REWARD"} /\ Kind(q) # "REFER"
        BY <1>1 DEF OnCards, Claims
      <4> HIDE OpFacts, Others DEF TypeInv
      <4> QED BY <4>1 DEF Subject
    <3> QED BY <2>1, <3>1 DEF Reads
  <2> DEFINE W == {Item(r), Wallet(Who(r))}
  <2>3. Item(q) # Item(r) /\ Item(q) \notin stale[q]
    <3>1. Writes(r, W)
      BY <1>3 DEF ClaimCommit
    <3>2. stale[q] \subseteq stale'[q] /\ Reads(q) \cap W \subseteq stale'[q]
      <4> HIDE DEF W
      <4> QED BY <2>1, <3>1, StaleGrows
    <3> QED BY <1>1, <2>2, <3>2
  <2>4. paid[Item(q)] = 0
    BY <1>1, <2>1, <2>3 DEF OverlapInv, FreshInv
  <2>5. paid' = [paid EXCEPT ![Item(r)] = @ + 1]
    BY <1>3 DEF ClaimCommit
  <2> QED BY <1>1, <2>3, <2>4, <2>5 DEF TypeOK
<1>4. CASE ReadPurse(r)
  <2>1. paid' = paid /\ stale' = stale
    BY <1>4 DEF ReadPurse, cards
  <2>2. pc[q] \in {"checked", "purse"}
    <3>1. CASE q = r
      BY <1>1, <1>4, <3>1 DEF ReadPurse, Claims
    <3>2. CASE q # r
      BY <3>2
    <3> QED BY <3>1, <3>2
  <2> QED BY <1>1, <2>1, <2>2 DEF OverlapInv, FreshInv
<1>5. CASE ~(ClaimRead(r) \/ ClaimCommit(r) \/ ReadPurse(r))
  <2>1. paid' = paid /\ q # r
    BY <1>1, <1>5 DEF Step, TillLock, TillCommit, PortalRead, PortalUse, Erase, PortalLook, Lapse,
       SpendCommit, EditRead, EditWrite, RewardRead, RewardCommit, ReferralRead, ReferralCommit, Fail, Goto, TypeOK,
       cards, Claims, CardEdits
  <2> QED BY <1>1, <2>1 DEF OverlapInv, FreshInv
<1> QED BY <1>2, <1>3, <1>4, <1>5

\* Likewise the stock a redemption has read.
LEMMA StockFresh ==
    ASSUME TypeInv, OverlapInv, NEW r \in Calls, Step(r), NEW q \in Calls,
           Kind(q)' = "REWARD", pc'[q] = "checked", Item(q)' \notin stale'[q]
    PROVE  stock'[Item(q)'] > 0
<1> USE OpFacts, Others DEF TypeInv
<1>1. Kind(q) = "REWARD" /\ Item(q)' = Item(q) /\ Item(q) \in Rewards
  BY DEF Kind, Item
<1>2. CASE RewardRead(r)
  <2>1. stock' = stock /\ stale' = stale
    BY <1>2 DEF RewardRead, rewards
  <2>2. CASE q = r
    BY <1>1, <1>2, <2>1, <2>2 DEF RewardRead, InStock, Goto, TypeOK
  <2>3. CASE q # r
    BY <1>1, <2>1, <2>3 DEF OverlapInv, FreshInv
  <2> QED BY <2>2, <2>3
<1>3. CASE RewardCommit(r)
  <2>1. q # r /\ pc[q] = "checked"
    BY <1>3 DEF RewardCommit, Goto, TypeOK
  <2>2. Item(q) \in Reads(q)
    BY <1>1, <2>1 DEF Reads, Subject
  <2>3. Item(q) # Item(r) /\ Item(q) \notin stale[q]
    BY <1>1, <1>3, <2>1, <2>2, StaleGrows DEF RewardCommit
  <2> QED BY <1>1, <1>3, <2>1, <2>3 DEF RewardCommit, OverlapInv, FreshInv, TypeOK
<1>4. CASE ~(RewardRead(r) \/ RewardCommit(r))
  <2>1. stock' = stock /\ q # r
    BY <1>1, <1>4 DEF Step, TillLock, TillCommit, PortalRead, PortalUse, Erase, PortalLook, ClaimRead, Lapse, ReadPurse,
       ClaimCommit, SpendCommit, EditRead, EditWrite, ReferralRead, ReferralCommit, Fail, Goto, TypeOK,
       rewards, Claims, CardEdits
  <2> QED BY <1>1, <2>1 DEF OverlapInv, FreshInv
<1> QED BY <1>2, <1>3, <1>4

\* The referral of a customer.
LEMMA ReferralFresh ==
    ASSUME TypeInv, OverlapInv, NEW r \in Calls, Step(r), NEW q \in Calls,
           Kind(q)' = "REFER", pc'[q] = "checked", Referral(Who(q)') \notin stale'[q]
    PROVE  Who(q)' \in erased' \/ \A a \in Customers : <<a, Who(q)'>> \notin credited'
<1> USE OpFacts, Others DEF TypeInv
<1>1. Kind(q) = "REFER" /\ Who(q)' = Who(q) /\ Who(q) \in Customers
  BY DEF Kind, Who
<1>2. CASE ReferralRead(r)
  <2>1. credited' = credited /\ erased' = erased /\ stale' = stale
    BY <1>2 DEF ReferralRead, referrals
  <2>2. CASE q = r
    BY <1>1, <1>2, <2>1, <2>2 DEF ReferralRead, Convertible, Goto, TypeOK, OverlapInv, ReferralInv
  <2>3. CASE q # r
    BY <1>1, <2>1, <2>3 DEF OverlapInv, FreshInv
  <2> QED BY <2>2, <2>3
<1>3. CASE ReferralCommit(r)
  <2>1. q # r /\ pc[q] = "checked"
    BY <1>3 DEF ReferralCommit, Goto, TypeOK
  <2>2. Referral(Who(q)) \in Reads(q)
    BY <1>1, <2>1 DEF Reads, Subject, OnCoupons, OnCards, Claims, CardEdits
  <2>3. Who(q) # Who(r) /\ Referral(Who(q)) \notin stale[q]
    BY <1>1, <1>3, <2>1, <2>2, StaleGrows DEF ReferralCommit
  <2>4. \A a \in Customers : <<a, Who(q)>> \in credited' => <<a, Who(q)>> \in credited
    BY <1>3, <2>3 DEF ReferralCommit
  <2> QED BY <1>1, <1>3, <2>1, <2>3, <2>4 DEF ReferralCommit, OverlapInv, FreshInv
<1>4. CASE Erase(r)
  <2>1. q # r /\ credited' \subseteq credited /\ erased \subseteq erased'
    BY <1>1, <1>4 DEF Erase
  <2> QED BY <1>1, <2>1 DEF OverlapInv, FreshInv
<1>5. CASE ~(ReferralRead(r) \/ ReferralCommit(r) \/ Erase(r))
  <2>1. credited' = credited /\ erased' = erased /\ q # r
    BY <1>1, <1>5 DEF Step, TillLock, TillCommit, PortalRead, PortalUse, PortalLook, ClaimRead, Lapse, ReadPurse,
       ClaimCommit, SpendCommit, EditRead, EditWrite, RewardRead, RewardCommit, Fail, Goto, TypeOK, referrals,
       Claims, CardEdits
  <2> QED BY <1>1, <2>1 DEF OverlapInv, FreshInv
<1> QED BY <1>2, <1>3, <1>4, <1>5

\* The wallet balance a call has read.
LEMMA PurseFresh ==
    ASSUME TypeInv, OverlapInv, NEW r \in Calls, Step(r), NEW q \in Calls,
           pc'[q] = "purse", Wallet(Who(q)') \notin stale'[q]
    PROVE  purse'[q] = wallet'[Who(q)']
<1> USE OpFacts, Others DEF TypeInv
<1>1. Who(q)' = Who(q) /\ Who(q) \in Customers
  BY DEF Who
<1>2. CASE ReadPurse(r)
  <2>1. wallet' = wallet /\ stale' = stale
    BY <1>2 DEF ReadPurse, wallets
  <2>2. CASE q = r
    BY <1>1, <1>2, <2>1, <2>2 DEF ReadPurse, TypeOK
  <2>3. CASE q # r
    BY <1>1, <1>2, <2>1, <2>3 DEF ReadPurse, TypeOK, OverlapInv, FreshInv
  <2> QED BY <2>2, <2>3
<1>3. ASSUME q # r, pc[q] = "purse", NEW W, Writes(r, W), Wallet(Who(r)) \in W, purse' = purse,
             \A c \in Customers \ {Who(r)} : wallet'[c] = wallet[c]
      PROVE  purse'[q] = wallet'[Who(q)']
  <2>1. Wallet(Who(q)) \in Reads(q)
    BY <1>3 DEF Reads
  <2>2. Who(q) # Who(r) /\ Wallet(Who(q)) \notin stale[q]
    BY <1>1, <1>3, <2>1, StaleGrows
  <2> QED BY <1>1, <1>3, <2>2 DEF OverlapInv, FreshInv
<1>4. CASE ClaimCommit(r) \/ SpendCommit(r)
  <2>1. q # r /\ pc[q] = "purse"
    BY <1>4 DEF ClaimCommit, SpendCommit, Goto, TypeOK
  <2>2. purse' = purse /\ \A c \in Customers \ {Who(r)} : wallet'[c] = wallet[c]
    BY <1>4 DEF ClaimCommit, SpendCommit, WriteWallet, call, TypeOK
  <2> QED BY <1>3, <1>4, <2>1, <2>2 DEF ClaimCommit, SpendCommit
<1>5. CASE RewardCommit(r)
  <2>1. q # r /\ pc[q] = "purse" /\ purse' = purse
    BY <1>5 DEF RewardCommit, Goto, TypeOK, call
  <2>2. CASE RewardKind[Item(r)] = "CASHBACK"
    <3>1. \A c \in Customers \ {Who(r)} : wallet'[c] = wallet[c]
      BY <1>5, <2>2 DEF RewardCommit, Materialise, TypeOK
    <3> QED BY <1>3, <1>5, <2>1, <2>2, <3>1 DEF RewardCommit
  <2>3. CASE RewardKind[Item(r)] # "CASHBACK"
    <3>1. wallet' = wallet
      BY <1>5, <2>3 DEF RewardCommit, Materialise, wallets
    <3> QED BY <1>1, <2>1, <3>1 DEF OverlapInv, FreshInv
  <2> QED BY <2>2, <2>3
<1>6. CASE ~(ReadPurse(r) \/ ClaimCommit(r) \/ SpendCommit(r) \/ RewardCommit(r))
  <2>1. wallet' = wallet /\ purse' = purse /\ q # r
    BY <1>6 DEF Step, TillLock, TillCommit, PortalRead, PortalUse, Erase, PortalLook, ClaimRead, Lapse, EditRead,
       EditWrite, RewardRead, ReferralRead, ReferralCommit, Fail, Goto, TypeOK, wallets, call
  <2> QED BY <1>1, <2>1 DEF OverlapInv, FreshInv
<1> QED BY <1>2, <1>4, <1>5, <1>6

LEMMA StepFresh ==
    ASSUME TypeInv, OverlapInv, NEW r \in Calls, Step(r)
    PROVE  FreshInv'
<1> SUFFICES ASSUME NEW q \in Calls
    PROVE  /\ Kind(q)' \in Claims /\ pc'[q] \in {"checked", "purse"} /\ Item(q)' \notin stale'[q] =>
                 paid'[Item(q)'] = 0
           /\ Kind(q)' = "REWARD" /\ pc'[q] = "checked" /\ Item(q)' \notin stale'[q] =>
                 stock'[Item(q)'] > 0
           /\ Kind(q)' = "REFER" /\ pc'[q] = "checked" /\ Referral(Who(q)') \notin stale'[q] =>
                 Who(q)' \in erased' \/ \A a \in Customers : <<a, Who(q)'>> \notin credited'
           /\ pc'[q] = "purse" /\ Wallet(Who(q)') \notin stale'[q] => purse'[q] = wallet'[Who(q)']
  BY DEF FreshInv, Referral, Wallet
<1> QED BY ClaimFresh, StockFresh, ReferralFresh, PurseFresh

\* A card is paid a second time only by a claim that was overtaken.
LEMMA StepPaidOnce ==
    ASSUME TypeInv, OverlapInv, NEW r \in Calls, Step(r)
    PROVE  CardPaidOnce'
<1> USE OpFacts, Others DEF TypeInv
<1>1. CASE ClaimCommit(r)
  <2>1. Item(r) \in Cards /\ paid' = [paid EXCEPT ![Item(r)] = @ + 1]
    BY <1>1 DEF ClaimCommit, OnCards
  <2>2. CASE Item(r) \in stale[r]
    <3>1. Item(r) \in overrun'
      BY <1>1, <2>2, StaleGrows DEF ClaimCommit
    <3> QED BY <2>1, <3>1 DEF OverlapInv, CardPaidOnce, TypeOK
  <2>3. CASE Item(r) \notin stale[r]
    <3>1. paid[Item(r)] = 0
      BY <1>1, <2>3 DEF ClaimCommit, OverlapInv, FreshInv
    <3> QED BY <2>1, <3>1 DEF OverlapInv, CardPaidOnce, TypeOK
  <2> QED BY <2>2, <2>3
<1>2. CASE ~ClaimCommit(r)
  <2>1. paid' = paid
    BY <1>2 DEF Step, TillLock, TillCommit, PortalRead, PortalUse, Erase, PortalLook, ClaimRead, Lapse, ReadPurse,
       SpendCommit, EditRead, EditWrite, RewardRead, RewardCommit, ReferralRead, ReferralCommit, Fail, cards
  <2> QED BY <2>1 DEF OverlapInv, CardPaidOnce
<1> QED BY <1>1, <1>2

\* The stock of a reward becomes negative only by a redemption that was overtaken.
LEMMA StepOversold ==
    ASSUME TypeInv, OverlapInv, NEW r \in Calls, Step(r)
    PROVE  OversoldNeedsOverlap'
<1> USE OpFacts, Others DEF TypeInv
<1>1. CASE RewardCommit(r)
  <2>1. Item(r) \in Rewards /\ stock' = [stock EXCEPT ![Item(r)] = @ - 1]
    BY <1>1 DEF RewardCommit
  <2>2. CASE Item(r) \in stale[r]
    <3>1. Item(r) \in overrun'
      BY <1>1, <2>2, StaleGrows DEF RewardCommit
    <3> QED BY <2>1, <3>1 DEF OverlapInv, OversoldNeedsOverlap, TypeOK
  <2>3. CASE Item(r) \notin stale[r]
    <3>1. stock[Item(r)] > 0
      BY <1>1, <2>3 DEF RewardCommit, OverlapInv, FreshInv
    <3> QED BY <2>1, <3>1 DEF OverlapInv, OversoldNeedsOverlap, TypeOK
  <2> QED BY <2>2, <2>3
<1>2. CASE ~RewardCommit(r)
  <2>1. stock' = stock
    BY <1>2 DEF Step, TillLock, TillCommit, PortalRead, PortalUse, Erase, PortalLook, ClaimRead, Lapse, ReadPurse,
       ClaimCommit, SpendCommit, EditRead, EditWrite, RewardRead, ReferralRead, ReferralCommit, Fail, rewards
  <2> QED BY <2>1 DEF OverlapInv, OversoldNeedsOverlap
<1> QED BY <1>1, <1>2

\* A second referrer is credited only by a conversion that was overtaken, or
\* after the referred customer was purged.
LEMMA StepReferral ==
    ASSUME TypeInv, OverlapInv, NEW r \in Calls, Step(r)
    PROVE  ReferralInv' /\ ReferralPaidOnce'
<1> USE OpFacts, Others DEF TypeInv
<1>1. CASE ReferralCommit(r)
  <2> DEFINE c == Who(r)
             b == op[r].other
  <2>1. /\ credited' = credited \cup {<<b, c>>} /\ erased' = erased
        /\ referred' = [referred EXCEPT ![c] = b]
        /\ c \in Customers /\ b \in Customers
    BY <1>1 DEF ReferralCommit
  <2>2. ReferralInv'
    <3> SUFFICES ASSUME NEW d \in Customers, referred'[d] = Nobody
        PROVE  d \in erased \/ \A a \in Customers : <<a, d>> \notin credited'
      BY <2>1 DEF ReferralInv
    <3>1. d # c /\ referred[d] = Nobody
      BY <2>1, ConstantsAssumption DEF TypeOK
    <3>2. d \in erased \/ \A a \in Customers : <<a, d>> \notin credited
      BY <3>1 DEF OverlapInv, ReferralInv
    <3> QED BY <2>1, <3>1, <3>2
  <2>3. Referral(c) \in overrun' \/ c \in erased \/ \A a \in Customers : <<a, c>> \notin credited
    <3>1. CASE Referral(c) \in stale[r]
      BY <1>1, <3>1, StaleGrows DEF ReferralCommit
    <3>2. CASE Referral(c) \notin stale[r]
      BY <1>1, <3>2 DEF ReferralCommit, OverlapInv, FreshInv
    <3> QED BY <3>1, <3>2
  <2>4. ReferralPaidOnce'
    <3> SUFFICES ASSUME NEW d \in Customers, NEW x \in Customers, NEW y \in Customers,
                        <<x, d>> \in credited', <<y, d>> \in credited'
        PROVE  x = y \/ Referral(d) \in overrun' \/ d \in erased
      BY <2>1 DEF ReferralPaidOnce, Referral
    <3>1. CASE d = c
      BY <2>1, <2>3, <3>1
    <3>2. CASE d # c
      BY <2>1, <3>2 DEF OverlapInv, ReferralPaidOnce
    <3> QED BY <3>1, <3>2
  <2> QED BY <2>2, <2>4
<1>2. CASE Erase(r)
  <2>1. /\ credited' \subseteq credited /\ erased' = erased \cup {Who(r)}
        /\ referred' = [referred EXCEPT ![Who(r)] = Nobody]
    BY <1>2 DEF Erase
  <2>2. ReferralInv'
    BY <2>1 DEF OverlapInv, ReferralInv, TypeOK
  <2>3. ReferralPaidOnce'
    BY <2>1 DEF OverlapInv, ReferralPaidOnce, Referral
  <2> QED BY <2>2, <2>3
<1>3. CASE ~(ReferralCommit(r) \/ Erase(r))
  <2>1. referred' = referred /\ credited' = credited /\ erased' = erased
    BY <1>3 DEF Step, TillLock, TillCommit, PortalRead, PortalUse, PortalLook, ClaimRead, Lapse, ReadPurse,
       ClaimCommit, SpendCommit, EditRead, EditWrite, RewardRead, RewardCommit, ReferralRead, Fail, referrals
  <2> QED BY <2>1 DEF OverlapInv, ReferralInv, ReferralPaidOnce, Referral
<1> QED BY <1>1, <1>2, <1>3

\* A write of the wallet that was not overtaken adds to the wallet what it
\* enters in the ledger.
LEMMA StepDrift ==
    ASSUME TypeInv, OverlapInv, NEW r \in Calls, Step(r)
    PROVE  WalletDriftNeedsOverlap'
<1> USE OpFacts, Others DEF TypeInv
<1>1. CASE ClaimCommit(r) \/ SpendCommit(r)
  <2> DEFINE c == Who(r)
  <2>1. /\ pc[r] = "purse" /\ c \in Customers /\ erased' = erased
        /\ WriteWallet(r)
        /\ Kind(r) \in Claims \cup {"SPEND"}
        /\ Wallet(c) \in stale[r] => Wallet(c) \in overrun'
    BY <1>1, StaleGrows DEF ClaimCommit, SpendCommit
  <2>2. /\ wallet' = [wallet EXCEPT ![c] = purse[r] + Entry(r)]
        /\ entered' = [entered EXCEPT ![c] = @ + Entry(r)]
        /\ Entry(r) \in Int
    <3>1. seen[r] \in Nat /\ purse[r] \in Int /\ Price \in Nat
      BY ConstantsAssumption DEF TypeOK
    <3>2. /\ wallet' = [wallet EXCEPT ![c] = IF Kind(r) = "SPEND" THEN purse[r] - Price ELSE purse[r] + seen[r]]
          /\ entered' = [entered EXCEPT ![c] = @ + Entry(r)]
      BY <2>1 DEF WriteWallet
    <3>3. CASE Kind(r) = "SPEND"
      <4>1. Entry(r) = 0 - Price
        BY <3>3 DEF Entry
      <4>2. purse[r] - Price = purse[r] + Entry(r) /\ Entry(r) \in Int
        BY <3>1, <4>1
      <4>3. wallet' = [wallet EXCEPT ![c] = purse[r] - Price]
        BY <3>2, <3>3
      <4> QED BY <3>2, <4>2, <4>3
    <3>4. CASE Kind(r) # "SPEND"
      <4>1. Entry(r) = seen[r]
        BY <3>4 DEF Entry
      <4> QED BY <3>1, <3>2, <3>4, <4>1
    <3> QED BY <3>3, <3>4
  <2>3. Wallet(c) \in stale[r] \/ purse[r] = wallet[c]
    BY <2>1 DEF OverlapInv, FreshInv
  <2>4. \A d \in Customers : wallet'[d] # entered'[d] => Wallet(d) \in overrun' \/ d \in erased
    <3> SUFFICES ASSUME NEW d \in Customers, wallet'[d] # entered'[d]
        PROVE  Wallet(d) \in overrun' \/ d \in erased
      OBVIOUS
    <3>1. CASE d = c
      BY <2>1, <2>2, <2>3, <3>1 DEF OverlapInv, WalletDriftNeedsOverlap, TypeOK
    <3>2. CASE d # c
      BY <2>2, <3>2 DEF OverlapInv, WalletDriftNeedsOverlap, TypeOK
    <3> QED BY <3>1, <3>2
  <2> QED BY <2>1, <2>4 DEF WalletDriftNeedsOverlap, Wallet
<1>2. CASE RewardCommit(r)
  <2>1. erased' = erased /\ Item(r) \in Rewards /\ Who(r) \in Customers
    BY <1>2 DEF RewardCommit
  <2>2. \A d \in Customers : wallet'[d] # entered'[d] => wallet[d] # entered[d]
    BY <1>2, <2>1, ConstantsAssumption DEF RewardCommit, Materialise, wallets, TypeOK
  <2> QED BY <2>1, <2>2 DEF OverlapInv, WalletDriftNeedsOverlap, Wallet
<1>3. CASE Erase(r)
  <2>1. /\ wallet' = wallet /\ erased' = erased \cup {Who(r)}
        /\ entered' = [entered EXCEPT ![Who(r)] = 0]
    BY <1>3 DEF Erase
  <2> QED BY <2>1 DEF OverlapInv, WalletDriftNeedsOverlap, Wallet, TypeOK
<1>4. CASE ~(ClaimCommit(r) \/ SpendCommit(r) \/ RewardCommit(r) \/ Erase(r))
  <2>1. wallet' = wallet /\ entered' = entered /\ erased' = erased
    BY <1>4 DEF Step, TillLock, TillCommit, PortalRead, PortalUse, PortalLook, ClaimRead, Lapse, ReadPurse,
       EditRead, EditWrite, RewardRead, ReferralRead, ReferralCommit, Fail, wallets
  <2> QED BY <2>1 DEF OverlapInv, WalletDriftNeedsOverlap, Wallet
<1> QED BY <1>1, <1>2, <1>3, <1>4

LEMMA EnvironmentOverlap ==
    ASSUME TypeInv, OverlapInv, Environment
    PROVE  OverlapInv'
<1>1. CASE \E g \in Cards, h \in Grantees \cup {Nobody} : IssueGiftCard(g, h)
  <2>1. PICK g \in Cards, h \in Grantees \cup {Nobody} : IssueGiftCard(g, h)
    BY <1>1
  <2>2. CardInv'
    BY <2>1 DEF IssueGiftCard, OverlapInv, CardInv, PaidCardStaysEmpty, TypeInv, TypeOK
  <2>3. FreshInv'
    BY <2>1 DEF IssueGiftCard, OverlapInv, FreshInv, Kind, Who, Item, Wallet, Referral, rewards, referrals, wallets, call
  <2>4. CardPaidOnce' /\ OversoldNeedsOverlap' /\ ReferralInv' /\ ReferralPaidOnce' /\ WalletDriftNeedsOverlap'
    BY <2>1 DEF IssueGiftCard, OverlapInv, CardPaidOnce, OversoldNeedsOverlap, ReferralInv, ReferralPaidOnce,
       WalletDriftNeedsOverlap, rewards, referrals, wallets, Wallet, Referral
  <2> QED BY <2>2, <2>3, <2>4 DEF OverlapInv
<1>2. CASE ~\E g \in Cards, h \in Grantees \cup {Nobody} : IssueGiftCard(g, h)
  <2>1. /\ UNCHANGED <<cards, wallets, stock, referrals, erased, pc, call, stale, overrun>>
    BY <1>2 DEF Environment, GrantCoupon, Fulfill, ExpiryPasses, rewards
  <2>2. FreshInv'
    BY <2>1 DEF OverlapInv, FreshInv, Kind, Who, Item, Wallet, Referral, referrals, wallets, cards, call
  <2> QED BY <2>1, <2>2 DEF OverlapInv, CardInv, PaidCardStaysEmpty, CardPaidOnce, OversoldNeedsOverlap,
       ReferralInv, ReferralPaidOnce, WalletDriftNeedsOverlap, referrals, wallets, cards, Wallet, Referral
<1> QED BY <1>1, <1>2

LEMMA NextOverlapInv ==
    ASSUME TypeInv, OverlapInv, [Next]_vars
    PROVE  OverlapInv'
<1>1. CASE UNCHANGED vars
  <2>1. UNCHANGED <<cards, wallets, stock, referrals, erased, pc, call, stale, overrun>>
    BY <1>1 DEF vars, rewards
  <2>2. FreshInv'
    BY <2>1 DEF OverlapInv, FreshInv, Kind, Who, Item, Wallet, Referral, referrals, wallets, cards, call
  <2> QED BY <2>1, <2>2 DEF OverlapInv, CardInv, PaidCardStaysEmpty, CardPaidOnce, OversoldNeedsOverlap,
       ReferralInv, ReferralPaidOnce, WalletDriftNeedsOverlap, referrals, wallets, cards, Wallet, Referral
<1>2. CASE \E r \in Calls : Step(r)
  BY <1>2, StepCardInv, StepFresh, StepPaidOnce, StepOversold, StepReferral, StepDrift DEF OverlapInv
<1> QED BY <1>1, <1>2, EnvironmentOverlap DEF Next, Environment

LEMMA OverlapAlways == Spec => []OverlapInv
BY InitTypeInv, NextTypeInv, InitOverlapInv, NextOverlapInv, PTL DEF Spec

\* A card that was cashed in never holds money again, whatever requests for its
\* deletion are answered and whoever gets it.
THEOREM PaidCardsStayEmpty == Spec => []PaidCardStaysEmpty
<1>1. OverlapInv => PaidCardStaysEmpty
  BY DEF OverlapInv, CardInv
<1> QED BY <1>1, OverlapAlways, PTL

\* A card is cashed in twice only by claims that overlapped, or where an edit
\* overtook one.
THEOREM CardsPaidOnce == Spec => []CardPaidOnce
<1>1. OverlapInv => CardPaidOnce
  BY DEF OverlapInv, CardInv
<1> QED BY <1>1, OverlapAlways, PTL

\* A reward is handed out beyond its stock only by redemptions that overlapped.
THEOREM StockHolds == Spec => []OversoldNeedsOverlap
<1>1. OverlapInv => OversoldNeedsOverlap
  BY DEF OverlapInv
<1> QED BY <1>1, OverlapAlways, PTL

\* Two referrers are paid for one customer only by conversions that overlapped,
\* or after an erasure.
THEOREM ReferralsPaidOnce == Spec => []ReferralPaidOnce
<1>1. OverlapInv => ReferralPaidOnce
  BY DEF OverlapInv
<1> QED BY <1>1, OverlapAlways, PTL

\* A wallet differs from the sum of its ledger only where claims, purchases
\* and cashbacks overlapped, or after an erasure.
THEOREM WalletsMatch == Spec => []WalletDriftNeedsOverlap
<1>1. OverlapInv => WalletDriftNeedsOverlap
  BY DEF OverlapInv
<1> QED BY <1>1, OverlapAlways, PTL

-----------------------------------------------------------------------------
(* Who moves a card.                                                       *)

\* A transfer that has read the card, and was not overtaken, is its holder's.
HolderInv ==
    /\ \A g \in Cards : card[g] = "none" => holder[g] = Nobody
    /\ \A q \in Calls : Kind(q) = "TRANSFER" /\ pc[q] = "checked" =>
         /\ card[Item(q)] # "none"
         /\ Item(q) \in stale[q] \/ holder[Item(q)] = Who(q)

LEMMA StepHolderInv ==
    ASSUME TypeInv, HolderInv, NEW r \in Calls, Step(r)
    PROVE  HolderInv'
<1> USE OpFacts, Others DEF TypeInv
<1>1. CASE EditWrite(r)
  <2>1. /\ Item(r) \in Cards /\ card[Item(r)] # "none" => StatusAfter(r, Item(r)) # "none"
        /\ card' = [card EXCEPT ![Item(r)] = StatusAfter(r, Item(r))]
        /\ Writes(r, {Item(r)}) /\ pc'[r] = "done"
        /\ holder' = IF Kind(r) = "TRANSFER" THEN [holder EXCEPT ![Item(r)] = op[r].other] ELSE holder
        /\ Kind(r) \in CardEdits
    BY <1>1 DEF EditWrite, OnCards, StatusAfter, Goto, TypeOK
  <2>2. Kind(r) = "TRANSFER" => card[Item(r)] # "none"
    BY <1>1 DEF EditWrite, HolderInv
  <2>3. \A g \in Cards : card'[g] = "none" => holder'[g] = Nobody
    <3> SUFFICES ASSUME NEW g \in Cards, card'[g] = "none" PROVE holder'[g] = Nobody
      OBVIOUS
    <3>1. CASE g = Item(r)
      <4>1. card[g] = "none"
        BY <2>1, <3>1 DEF TypeOK
      <4>2. holder' = holder
        BY <2>1, <2>2, <3>1, <4>1
      <4> QED BY <4>1, <4>2 DEF HolderInv
    <3>2. CASE g # Item(r)
      BY <2>1, <3>2 DEF HolderInv, TypeOK
    <3> QED BY <3>1, <3>2
  <2>4. ASSUME NEW q \in Calls, Kind(q) = "TRANSFER", pc'[q] = "checked"
        PROVE  card'[Item(q)] # "none" /\ (Item(q) \in stale'[q] \/ holder'[Item(q)] = Who(q))
    <3>1. q # r /\ pc[q] = "checked" /\ Item(q) \in Cards
      BY <2>1, <2>4 DEF OnCards, CardEdits
    <3>2. card[Item(q)] # "none" /\ (Item(q) \in stale[q] \/ holder[Item(q)] = Who(q))
      BY <2>4, <3>1 DEF HolderInv
    <3>3. CASE Item(q) = Item(r)
      <4>1. Subject(q) = {Item(q)}
        BY <2>4 DEF Subject, OnCards, CardEdits
      <4>2. Item(q) \in stale'[q]
        BY <2>1, <3>1, <3>3, <4>1, StaleGrows DEF Reads
      <4>3. card'[Item(q)] # "none"
        BY <2>1, <3>1, <3>2, <3>3 DEF TypeOK
      <4> QED BY <4>2, <4>3
    <3>4. CASE Item(q) # Item(r)
      BY <2>1, <3>1, <3>2, <3>4 DEF TypeOK
    <3> QED BY <3>3, <3>4
  <2> QED BY <2>3, <2>4 DEF HolderInv, Kind, Item, Who
<1>2. CASE EditRead(r)
  <2>1. card' = card /\ holder' = holder /\ stale' = stale
    BY <1>2 DEF EditRead, cards
  <2>2. Kind(r) = "TRANSFER" /\ pc'[r] = "checked" => card[Item(r)] # "none" /\ holder[Item(r)] = Who(r)
    BY <1>2 DEF EditRead, Permits, Goto, TypeOK
  <2> QED BY <2>1, <2>2 DEF HolderInv, Kind, Item, Who
<1>3. CASE ~(EditRead(r) \/ EditWrite(r))
  <2>1. /\ holder' = holder
        /\ \A g \in Cards : card'[g] = "none" => card[g] = "none"
    BY <1>3 DEF Step, TillLock, TillCommit, PortalRead, PortalUse, Erase, PortalLook, ClaimRead, Lapse, ReadPurse,
       ClaimCommit, SpendCommit, RewardRead, RewardCommit, ReferralRead, ReferralCommit, Fail, cards, HolderInv, TypeOK
  <2>2. Kind(r) = "TRANSFER" => pc'[r] # "checked"
    BY <1>3 DEF Step, TillLock, TillCommit, PortalRead, PortalUse, Erase, PortalLook, ClaimRead, Lapse, ReadPurse,
       ClaimCommit, SpendCommit, RewardRead, RewardCommit, ReferralRead, ReferralCommit, Fail, Goto, TypeOK,
       Claims, KindInv
  <2>3. ASSUME NEW q \in Calls, Kind(q) = "TRANSFER", pc'[q] = "checked"
        PROVE  card'[Item(q)] # "none" /\ (Item(q) \in stale'[q] \/ holder'[Item(q)] = Who(q))
    <3>1. pc[q] = "checked" /\ Item(q) \in Cards /\ stale[q] \subseteq stale'[q]
      BY <2>2, <2>3 DEF OnCards, CardEdits
    <3> QED BY <2>1, <2>3, <3>1 DEF HolderInv
  <2>4. \A g \in Cards : card'[g] = "none" => holder'[g] = Nobody
    BY <2>1 DEF HolderInv
  <2> QED BY <2>3, <2>4 DEF HolderInv, Kind, Item, Who
<1> QED BY <1>1, <1>2, <1>3

LEMMA NextHolderInv ==
    ASSUME TypeInv, HolderInv, [Next]_vars
    PROVE  HolderInv'
<1>1. CASE \E g \in Cards, h \in Grantees \cup {Nobody} : IssueGiftCard(g, h)
  <2>1. PICK g \in Cards, h \in Grantees \cup {Nobody} : IssueGiftCard(g, h)
    BY <1>1
  <2>2. /\ card[g] = "none" /\ card' = [card EXCEPT ![g] = "ACTIVE"]
        /\ holder' = [holder EXCEPT ![g] = h]
        /\ pc' = pc /\ stale' = stale /\ op' = op
    BY <2>1 DEF IssueGiftCard, call
  <2>3. ASSUME NEW q \in Calls, Kind(q) = "TRANSFER", pc[q] = "checked"
        PROVE  card'[Item(q)] # "none" /\ (Item(q) \in stale[q] \/ holder'[Item(q)] = Who(q))
    <3>1. Item(q) # g /\ Item(q) \in Cards
      BY <2>2, <2>3, OpFacts DEF HolderInv, OnCards, CardEdits, TypeInv
    <3> QED BY <2>2, <2>3, <3>1 DEF HolderInv, TypeInv, TypeOK
  <2>4. \A d \in Cards : card'[d] = "none" => holder'[d] = Nobody
    BY <2>2 DEF HolderInv, TypeInv, TypeOK
  <2> QED BY <2>2, <2>3, <2>4 DEF HolderInv, Kind, Item, Who
<1>2. CASE \E r \in Calls : Step(r)
  BY <1>2, StepHolderInv
<1>3. CASE UNCHANGED <<card, holder, pc, op, stale>>
  BY <1>3 DEF HolderInv, Kind, Item, Who
<1>4. UNCHANGED <<card, holder, pc, op, stale>>
      \/ (\E g \in Cards, h \in Grantees \cup {Nobody} : IssueGiftCard(g, h))
      \/ \E r \in Calls : Step(r)
  BY DEF Next, GrantCoupon, Fulfill, ExpiryPasses, vars, cards, call
<1> QED BY <1>1, <1>2, <1>3, <1>4

\* A card leaves its holder only by a transfer of that holder, or by one that
\* another write of the card overtook.
THEOREM CardsMoveByTheirHolders == Spec => HeldCardMovesByHolder
<1> DEFINE Moves ==
        \A g \in Cards : holder[g] \in Customers /\ holder'[g] # holder[g] =>
           \/ g \in overrun'
           \/ \E r \in Calls : /\ pc[r] # pc'[r] /\ Kind(r) = "TRANSFER"
                               /\ Item(r) = g /\ Who(r) = holder[g]
<1>1. Init => HolderInv
  BY DEF Init, HolderInv
<1>2. TypeInv /\ TypeInv' /\ HolderInv /\ [Next]_vars => [Moves]_vars
  <2> SUFFICES ASSUME TypeInv, HolderInv, [Next]_vars,
                      NEW g \in Cards, holder[g] \in Customers, holder'[g] # holder[g]
               PROVE  \/ g \in overrun'
                      \/ \E r \in Calls : /\ pc[r] # pc'[r] /\ Kind(r) = "TRANSFER"
                                          /\ Item(r) = g /\ Who(r) = holder[g]
    OBVIOUS
  <2>1. ~\E d \in Cards, h \in Grantees \cup {Nobody} : IssueGiftCard(d, h)
    BY ConstantsAssumption DEF IssueGiftCard, HolderInv, TypeInv, TypeOK
  <2>2. PICK r \in Calls : EditWrite(r)
    BY <2>1 DEF Next, Step, TillLock, TillCommit, PortalRead, PortalUse, Erase, PortalLook, ClaimRead, Lapse, ReadPurse,
       ClaimCommit, SpendCommit, EditRead, RewardRead, RewardCommit, ReferralRead, ReferralCommit, Fail,
       GrantCoupon, Fulfill, ExpiryPasses, cards, vars
  <2>3. /\ Kind(r) = "TRANSFER" /\ Item(r) = g
        /\ pc[r] = "checked" /\ pc'[r] = "done" /\ Writes(r, {Item(r)})
    BY <2>2 DEF EditWrite, Goto, TypeInv, TypeOK
  <2>4. CASE g \in stale[r]
    BY <2>3, <2>4, StaleGrows DEF TypeInv
  <2>5. CASE g \notin stale[r]
    BY <2>3, <2>5 DEF HolderInv
  <2> QED BY <2>4, <2>5
<1> QED BY <1>1, <1>2, InitTypeInv, NextTypeInv, NextHolderInv, PTL DEF Spec, HeldCardMovesByHolder
=============================================================================
