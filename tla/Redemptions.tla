---------------------------- MODULE Redemptions -----------------------------
(***************************************************************************)
(* What a customer can turn into value: coupons (redeemed at the till      *)
(* under a row lock, or in the portal without one), gift cards and the     *)
(* money wallet they are cashed into, rewards bought for points, referral  *)
(* bonuses, and the erasure that voids them.                               *)
(*                                                                         *)
(* Nearly every call reads, decides in TypeScript and writes in a later    *)
(* statement: a check and an act with other calls in between.  A call is   *)
(* one request of Operations; Check reads, Act writes.  What debitPoints   *)
(* and creditPoints do to the points is in PointsLedger: here a debit may  *)
(* be refused at any time, and a unique key of theirs is kept in keys.     *)
(***************************************************************************)
EXTENDS Integers

CONSTANTS
    Customers, Coupons, Cards, Rewards,
    Calls,        \* requests in the behaviour
    Operations,   \* what a request may ask for
    Grantees,     \* bounds whom the business gives coupons and gift cards
    Nobody,       \* a null customer id
    Nothing,      \* an operation about no item
    RewardKind,   \* RewardKind[w]: what redeeming the reward w yields
    Stock,        \* Stock[w]: RewardTemplate.stock at the start
    Cashback,     \* Cashback[w]: money a CASHBACK reward is worth
    Face,         \* Face[g]: initialBalance of the card g
    Price         \* what SPEND takes from the wallet

Kinds == {"TILL", "PORTAL", "ERASE", "CLAIM", "PORTAL_CLAIM", "SPEND",
          "TRANSFER", "ASK_DELETE", "ACCEPT", "DECLINE", "DELETE", "REWARD", "REFER"}
OnCoupons == {"TILL", "PORTAL"}
Claims == {"CLAIM", "PORTAL_CLAIM"}
CardEdits == {"TRANSFER", "ASK_DELETE", "ACCEPT", "DECLINE", "DELETE"}
OnCards == Claims \cup CardEdits

\* who asks, about which item, and the other customer concerned: the recipient
\* of a transfer, the referrer of a referral.
Operation == [kind : Kinds, who : Customers, item : Coupons \cup Cards \cup Rewards \cup {Nothing},
              other : Customers \cup {Nobody}]

WellFormed(o) ==
    /\ o.kind \in OnCoupons => o.item \in Coupons
    /\ o.kind \in OnCards => o.item \in Cards
    /\ o.kind = "REWARD" => o.item \in Rewards
    /\ o.kind \in {"TRANSFER", "REFER"} => o.other \in Customers \ {o.who}

ASSUME ConstantsAssumption ==
    /\ Nobody \notin Customers
    /\ Operations \subseteq Operation
    /\ \A o \in Operations : WellFormed(o)
    /\ Grantees \subseteq Customers
    /\ RewardKind \in [Rewards -> {"CASHBACK", "COUPON", "ITEM"}]
    /\ Stock \in [Rewards -> Nat]
    /\ Cashback \in [Rewards -> Nat]
    /\ Face \in [Cards -> Nat \ {0}]
    /\ Price \in Nat

VARIABLES
    coupon,    \* coupon[k]: Coupon.status, "none" before the row exists
    owner,     \* owner[k]: Coupon.customerId
    uses,      \* uses[k]: Coupon.redemptionCount
    logs,      \* logs[k]: CouponRedemptionLog rows of k
    card,      \* card[g]: GiftCard.status, "none" before and "gone" after the row
    money,     \* money[g]: GiftCard.currentBalance
    holder,    \* holder[g]: GiftCard.issuedToCustomerId
    due,       \* coupons and cards whose expiresAt has passed
    wallet,    \* wallet[c]: Customer.currentWalletBalance
    entered,   \* entered[c]: CREDIT minus DEBIT over the WalletLedger of c
    stock,     \* stock[w]: RewardTemplate.stock
    bought,    \* <<c, w>>: points-ledger keys REWARD_REDEMPTION:w of c
    pending,   \* <<c, w>>: RewardRedemption rows waiting for staff
    referred,  \* referred[c]: Customer.referredByCode, as the referrer
    credited,  \* <<referrer, c>>: points-ledger keys REFERRAL_CREDIT c
    erased,    \* customers whose data was purged
    pc, op,    \* where each call is, and what it asks for
    seen,      \* balance of the card a claim has read
    purse,     \* wallet balance a call has read
    paid,      \* paid[g]: how often g was cashed; redeemedByCustomerId is set if ever
    stale,     \* history: stale[r] is what r has read and others wrote since
    overrun    \* history: what was written by a call that had read it stale

coupons == <<coupon, owner, uses, logs>>
cards == <<card, money, holder, paid>>
wallets == <<wallet, entered>>
rewards == <<stock, bought, pending>>
referrals == <<referred, credited>>
call == <<op, seen, purse>>
vars == <<coupons, cards, due, wallets, rewards, referrals, erased, pc, call, stale, overrun>>

\* What a call can read and later write: an item, a wallet, a referral.
Wallet(c) == <<"wallet", c>>
Referral(c) == <<"referral", c>>
Readable == Coupons \cup Cards \cup Rewards \cup ({"wallet", "referral"} \X Customers)

Live == {"looked", "locked", "checked", "lapsed", "purse"}

TypeOK ==
    /\ coupon \in [Coupons -> {"none", "ACTIVE", "USED", "VOIDED"}]
    /\ owner \in [Coupons -> Customers \cup {Nobody}]
    /\ uses \in [Coupons -> Nat] /\ logs \in [Coupons -> Nat]
    /\ card \in [Cards -> {"none", "ACTIVE", "REDEEMED", "EXPIRED", "VOIDED",
                           "PENDING_DELETE", "gone"}]
    /\ money \in [Cards -> Nat]
    /\ holder \in [Cards -> Customers \cup {Nobody}]
    /\ due \subseteq Coupons \cup Cards
    /\ wallet \in [Customers -> Int] /\ entered \in [Customers -> Int]
    /\ stock \in [Rewards -> Int]
    /\ bought \subseteq Customers \X Rewards /\ pending \subseteq Customers \X Rewards
    /\ referred \in [Customers -> Customers \cup {Nobody}]
    /\ credited \subseteq Customers \X Customers
    /\ erased \subseteq Customers
    /\ pc \in [Calls -> {"idle", "done", "refused", "failed"} \cup Live]
    /\ op \in [Calls -> Operations]
    /\ seen \in [Calls -> Nat] /\ purse \in [Calls -> Int]
    /\ paid \in [Cards -> Nat]
    /\ stale \in [Calls -> SUBSET Readable]
    /\ overrun \subseteq Readable

Init ==
    /\ coupon = [k \in Coupons |-> "none"]
    /\ owner = [k \in Coupons |-> Nobody]
    /\ uses = [k \in Coupons |-> 0] /\ logs = [k \in Coupons |-> 0]
    /\ card = [g \in Cards |-> "none"]
    /\ money = [g \in Cards |-> 0]
    /\ holder = [g \in Cards |-> Nobody]
    /\ due = {}
    /\ wallet = [c \in Customers |-> 0] /\ entered = [c \in Customers |-> 0]
    /\ stock = Stock
    /\ bought = {} /\ pending = {}
    /\ referred = [c \in Customers |-> Nobody]
    /\ credited = {}
    /\ erased = {}
    /\ pc = [r \in Calls |-> "idle"]
    /\ op \in [Calls -> Operations]
    /\ seen = [r \in Calls |-> 0] /\ purse = [r \in Calls |-> 0]
    /\ paid = [g \in Cards |-> 0]
    /\ stale = [r \in Calls |-> {}]
    /\ overrun = {}

-----------------------------------------------------------------------------
(* Who reads what, and who overtakes whom.                                 *)

Kind(r) == op[r].kind
Who(r) == op[r].who
Item(r) == op[r].item
Goto(r, l) == pc' = [pc EXCEPT ![r] = l]

\* A portal claim looks at its card before redeemGiftCard reads it again.
Subject(r) ==
    CASE Kind(r) \in OnCoupons \cup OnCards \cup {"REWARD"} -> {Item(r)}
      [] Kind(r) = "REFER" -> {Referral(Who(r))}
      [] OTHER -> {}
Reads(r) ==
    CASE pc[r] \in {"looked", "checked", "lapsed"} -> Subject(r)
      [] pc[r] = "purse" -> Subject(r) \cup {Wallet(Who(r))}
      [] OTHER -> {}

\* Call r writes the things in W.
Writes(r, W) ==
    /\ stale' = [q \in Calls |-> IF q = r THEN {} ELSE stale[q] \cup (Reads(q) \cap W)]
    /\ overrun' = overrun \cup (stale[r] \cap W)

-----------------------------------------------------------------------------
(* What the handlers decide on.  X_Fault is a plausible bug in X, which no  *)
(* action uses.                                                            *)

\* The row lock of SELECT ... FOR UPDATE, which any UPDATE of the row waits for.
Unlocked_Fault(k) == TRUE
Unlocked(k) == \A q \in Calls : Item(q) = k => pc[q] # "locked"

\* redeemGiftCard: the card is active and has money on it.
Redeemable_Fault(g) == card[g] \notin {"none", "gone"}
Redeemable(g) == card[g] = "ACTIVE" /\ money[g] > 0

\* redeemReward, before its transaction.
InStock_Fault(w) == stock[w] >= 0
InStock(w) == stock[w] > 0

\* processReferralConversion, before its transaction; a purged referrer's
\* code no longer exists.
Convertible_Fault(c, referrer) == referrer \notin erased
Convertible(c, referrer) == referrer \notin erased /\ referred[c] = Nobody

\* The gift-card edits: what each requires of the card it reads (a card has
\* its redeemedByCustomerId once it was paid) ...
Permits_Fault(r, g) ==
    CASE Kind(r) = "TRANSFER"   -> card[g] = "ACTIVE"
      [] Kind(r) = "ASK_DELETE" -> holder[g] # Nobody /\ card[g] # "REDEEMED"
      [] Kind(r) \in {"ACCEPT", "DECLINE"} -> holder[g] = Who(r) /\ card[g] = "PENDING_DELETE"
      [] Kind(r) = "DELETE"     -> holder[g] = Nobody /\ card[g] # "REDEEMED" /\ paid[g] = 0
Permits(r, g) ==
    CASE Kind(r) = "TRANSFER"   -> holder[g] = Who(r) /\ card[g] = "ACTIVE"
      [] Kind(r) = "ASK_DELETE" -> holder[g] # Nobody /\ card[g] # "REDEEMED"
      [] Kind(r) \in {"ACCEPT", "DECLINE"} -> holder[g] = Who(r) /\ card[g] = "PENDING_DELETE"
      [] Kind(r) = "DELETE"     -> holder[g] = Nobody /\ card[g] # "REDEEMED" /\ paid[g] = 0

\* ... and the status and balance it then writes, whatever the card is by now.
StatusAfter(r, g) ==
    CASE Kind(r) = "ASK_DELETE" -> "PENDING_DELETE"
      [] Kind(r) = "ACCEPT"     -> "VOIDED"
      [] Kind(r) = "DECLINE"    -> "ACTIVE"
      [] Kind(r) = "DELETE"     -> "gone"
      [] OTHER                  -> card[g]
MoneyAfter_Fault(r, g) ==
    CASE Kind(r) = "ACCEPT" -> 0 [] Kind(r) = "DECLINE" -> Face[g] [] OTHER -> money[g]
MoneyAfter(r, g) == IF Kind(r) = "ACCEPT" THEN 0 ELSE money[g]

\* The signed wallet-ledger row of a claim or a purchase.
Entry_Fault(r) == IF Kind(r) = "SPEND" THEN Price ELSE seen[r]
Entry(r) == IF Kind(r) = "SPEND" THEN 0 - Price ELSE seen[r]

-----------------------------------------------------------------------------
(* The environment.                                                        *)

\* issueGiftCard, to a customer or to nobody yet.
IssueGiftCard(g, h) ==
    /\ card[g] = "none"
    /\ card' = [card EXCEPT ![g] = "ACTIVE"]
    /\ money' = [money EXCEPT ![g] = Face[g]]
    /\ holder' = [holder EXCEPT ![g] = h]
    /\ UNCHANGED <<coupons, paid, due, wallets, rewards, referrals, erased, pc, call, stale, overrun>>

Mint(k, c) ==
    /\ coupon[k] = "none"
    /\ coupon' = [coupon EXCEPT ![k] = "ACTIVE"]
    /\ owner' = [owner EXCEPT ![k] = c]

\* The CREATE_COUPON action of an automation.
GrantCoupon(k, c) ==
    /\ Mint(k, c)
    /\ UNCHANGED <<uses, logs, cards, due, wallets, rewards, referrals, erased, pc, call, stale, overrun>>

\* Staff hands over a free item; the update is conditional on PENDING.
Fulfill(p) ==
    /\ p \in pending
    /\ pending' = pending \ {p}
    /\ UNCHANGED <<coupons, cards, due, wallets, stock, bought, referrals, erased, pc, call, stale, overrun>>

ExpiryPasses ==
    /\ due' = Coupons \cup Cards
    /\ UNCHANGED <<coupons, cards, wallets, rewards, referrals, erased, pc, call, stale, overrun>>

-----------------------------------------------------------------------------
(* Coupons.                                                                *)

\* redeemCoupon: the lock and the status are got by one statement, after the
\* holder of the lock has ended.  It does not look at expiresAt.
TillLock(r) ==
    LET k == Item(r) IN
    /\ pc[r] = "idle" /\ Kind(r) = "TILL" /\ Unlocked(k)
    /\ Goto(r, IF coupon[k] = "ACTIVE" THEN "locked" ELSE "refused")
    /\ UNCHANGED <<coupons, cards, due, wallets, rewards, referrals, erased, call, stale, overrun>>

TillCommit(r) ==
    LET k == Item(r) IN
    /\ pc[r] = "locked"
    /\ coupon' = [coupon EXCEPT ![k] = "USED"]
    /\ uses' = [uses EXCEPT ![k] = @ + 1]
    /\ logs' = [logs EXCEPT ![k] = @ + 1]
    /\ Writes(r, {k})
    /\ Goto(r, "done")
    /\ UNCHANGED <<owner, cards, due, wallets, rewards, referrals, erased, call>>

\* The portal's redeemHandler: a read, then an unconditional update.
PortalRead(r) ==
    LET k == Item(r) IN
    /\ pc[r] = "idle" /\ Kind(r) = "PORTAL"
    /\ Goto(r, IF coupon[k] = "ACTIVE" /\ owner[k] = Who(r) /\ k \notin due
               THEN "checked" ELSE "refused")
    /\ UNCHANGED <<coupons, cards, due, wallets, rewards, referrals, erased, call, stale, overrun>>

PortalUse(r) ==
    LET k == Item(r) IN
    /\ pc[r] = "checked" /\ Kind(r) = "PORTAL" /\ Unlocked(k)
    /\ coupon' = [coupon EXCEPT ![k] = "USED"]
    /\ uses' = [uses EXCEPT ![k] = @ + 1]
    /\ Writes(r, {k})
    /\ Goto(r, "done")
    /\ UNCHANGED <<owner, logs, cards, due, wallets, rewards, referrals, erased, call>>

\* purgeCustomerData: one transaction; the points and wallet ledgers lose the
\* customer's rows, the cached balances stay, every coupon is voided.
Erase(r) ==
    LET c == Who(r)
        mine == {k \in Coupons : owner[k] = c} IN
    /\ pc[r] = "idle" /\ Kind(r) = "ERASE"
    /\ \A k \in mine : Unlocked(k)
    /\ coupon' = [k \in Coupons |-> IF k \in mine THEN "VOIDED" ELSE coupon[k]]
    /\ owner' = [k \in Coupons |-> IF k \in mine THEN Nobody ELSE owner[k]]
    /\ entered' = [entered EXCEPT ![c] = 0]
    /\ bought' = {b \in bought : b[1] # c}
    /\ credited' = {b \in credited : b[1] # c}
    /\ referred' = [referred EXCEPT ![c] = Nobody]
    /\ erased' = erased \cup {c}
    /\ Writes(r, mine \cup {Referral(c)})
    /\ Goto(r, "done")
    /\ UNCHANGED <<uses, logs, cards, due, wallet, stock, pending, call>>

-----------------------------------------------------------------------------
(* Gift cards and the wallet.                                              *)

\* portalGiftRedeemHandler looks at the card before redeemGiftCard does.
PortalLook(r) ==
    LET g == Item(r) IN
    /\ pc[r] = "idle" /\ Kind(r) = "PORTAL_CLAIM"
    /\ Goto(r, IF /\ card[g] \notin {"none", "gone", "PENDING_DELETE"}
                  /\ holder[g] \in {Nobody, Who(r)}
               THEN "looked" ELSE "refused")
    /\ UNCHANGED <<coupons, cards, due, wallets, rewards, referrals, erased, call, stale, overrun>>

ClaimRead(r) ==
    LET g == Item(r) IN
    /\ Kind(r) \in Claims
    /\ pc[r] = IF Kind(r) = "CLAIM" THEN "idle" ELSE "looked"
    /\ seen' = [seen EXCEPT ![r] = money[g]]
    /\ Goto(r, CASE card[g] = "ACTIVE" /\ g \in due -> "lapsed"
                 [] Redeemable(g) /\ g \notin due   -> "checked"
                 [] OTHER                           -> "refused")
    /\ UNCHANGED <<coupons, cards, due, wallets, rewards, referrals, erased, op, purse, stale, overrun>>

\* The card was found expired: it is marked so, whatever it is by now.
Lapse(r) ==
    LET g == Item(r) IN
    /\ pc[r] = "lapsed"
    /\ card' = [card EXCEPT ![g] = IF @ = "gone" THEN @ ELSE "EXPIRED"]
    /\ Writes(r, {g})
    /\ Goto(r, "refused")
    /\ UNCHANGED <<coupons, money, holder, paid, due, wallets, rewards, referrals, erased, call>>

\* The wallet balance is read in the transaction of a claim, before that of a
\* purchase; neither locks the row.
ReadPurse(r) ==
    LET c == Who(r) IN
    /\ \/ Kind(r) \in Claims /\ pc[r] = "checked"
       \/ Kind(r) = "SPEND" /\ pc[r] = "idle"
    /\ purse' = [purse EXCEPT ![r] = wallet[c]]
    /\ Goto(r, IF Kind(r) = "SPEND" /\ wallet[c] < Price THEN "refused" ELSE "purse")
    /\ UNCHANGED <<coupons, cards, due, wallets, rewards, referrals, erased, op, seen, stale, overrun>>

WriteWallet(r) ==
    LET c == Who(r) IN
    /\ wallet' = [wallet EXCEPT ![c] = IF Kind(r) = "SPEND" THEN purse[r] - Price
                                                            ELSE purse[r] + seen[r]]
    /\ entered' = [entered EXCEPT ![c] = @ + Entry(r)]

ClaimCommit(r) ==
    LET g == Item(r) IN
    /\ pc[r] = "purse" /\ Kind(r) \in Claims
    /\ card[g] # "gone"
    /\ WriteWallet(r)
    /\ card' = [card EXCEPT ![g] = "REDEEMED"]
    /\ money' = [money EXCEPT ![g] = 0]
    /\ paid' = [paid EXCEPT ![g] = @ + 1]
    /\ Writes(r, {g, Wallet(Who(r))})
    /\ Goto(r, "done")
    /\ UNCHANGED <<coupons, holder, due, rewards, referrals, erased, call>>

SpendCommit(r) ==
    /\ pc[r] = "purse" /\ Kind(r) = "SPEND"
    /\ WriteWallet(r)
    /\ Writes(r, {Wallet(Who(r))})
    /\ Goto(r, "done")
    /\ UNCHANGED <<coupons, cards, due, rewards, referrals, erased, call>>

\* transferGiftCard, requestGiftCardDeletion, respondToGiftCardDeletion and
\* deleteGiftCard: the card is read and judged ...
EditRead(r) ==
    LET g == Item(r) IN
    /\ pc[r] = "idle" /\ Kind(r) \in CardEdits
    /\ Goto(r, IF card[g] \notin {"none", "gone"} /\ Permits(r, g) THEN "checked" ELSE "refused")
    /\ UNCHANGED <<coupons, cards, due, wallets, rewards, referrals, erased, call, stale, overrun>>

\* ... and written by its id; the write of a deleted row fails.
EditWrite(r) ==
    LET g == Item(r) IN
    /\ pc[r] = "checked" /\ Kind(r) \in CardEdits
    /\ card[g] # "gone"
    /\ card' = [card EXCEPT ![g] = StatusAfter(r, g)]
    /\ money' = [money EXCEPT ![g] = MoneyAfter(r, g)]
    /\ holder' = IF Kind(r) = "TRANSFER" THEN [holder EXCEPT ![g] = op[r].other] ELSE holder
    /\ Writes(r, {g})
    /\ Goto(r, "done")
    /\ UNCHANGED <<coupons, paid, due, wallets, rewards, referrals, erased, call>>

-----------------------------------------------------------------------------
(* Rewards and referrals.                                                  *)

\* redeemReward also refuses an inactive reward, a customer below its tier,
\* balance or limit: as late as by Fail, the key allows one redemption anyway.
RewardRead(r) ==
    /\ pc[r] = "idle" /\ Kind(r) = "REWARD"
    /\ Goto(r, IF InStock(Item(r)) THEN "checked" ELSE "refused")
    /\ UNCHANGED <<coupons, cards, due, wallets, rewards, referrals, erased, call, stale, overrun>>

\* What the customer gets.  debitPoints has locked the customer row by now, so
\* the wallet a cashback reads is the one it writes.
Materialise(r) ==
    LET w == Item(r)
        c == Who(r) IN
    CASE RewardKind[w] = "CASHBACK" ->
           /\ wallet' = [wallet EXCEPT ![c] = @ + Cashback[w]]
           /\ entered' = [entered EXCEPT ![c] = @ + Cashback[w]]
           /\ UNCHANGED <<coupon, owner, pending>>
      [] RewardKind[w] = "COUPON" ->
           /\ \E k \in Coupons : Mint(k, c)
           /\ pending' = pending \cup {<<c, w>>}
           /\ UNCHANGED wallets
      [] OTHER ->
           /\ pending' = pending \cup {<<c, w>>}
           /\ UNCHANGED <<coupon, owner, wallets>>

\* The debit takes the key <<customer, REWARD_REDEMPTION, reward>>, the stock
\* is decremented without a condition.
RewardCommit(r) ==
    LET w == Item(r)
        c == Who(r) IN
    /\ pc[r] = "checked" /\ Kind(r) = "REWARD"
    /\ <<c, w>> \notin bought
    /\ bought' = bought \cup {<<c, w>>}
    /\ stock' = [stock EXCEPT ![w] = @ - 1]
    /\ Materialise(r)
    /\ Writes(r, {w} \cup IF RewardKind[w] = "CASHBACK" THEN {Wallet(c)} ELSE {})
    /\ Goto(r, "done")
    /\ UNCHANGED <<uses, logs, cards, due, referrals, erased, call>>

ReferralRead(r) ==
    /\ pc[r] = "idle" /\ Kind(r) = "REFER"
    /\ Goto(r, IF Convertible(Who(r), op[r].other) THEN "checked" ELSE "refused")
    /\ UNCHANGED <<coupons, cards, due, wallets, rewards, referrals, erased, call, stale, overrun>>

ReferralCommit(r) ==
    LET c == Who(r)
        key == <<op[r].other, c>> IN
    /\ pc[r] = "checked" /\ Kind(r) = "REFER"
    /\ key \notin credited
    /\ credited' = credited \cup {key}
    /\ referred' = [referred EXCEPT ![c] = op[r].other]
    /\ \E k \in Coupons : Mint(k, c)
    /\ Writes(r, {Referral(c)})
    /\ Goto(r, "done")
    /\ UNCHANGED <<uses, logs, cards, due, wallets, rewards, erased, call>>

\* A wrong PIN, too few points, a unique key already taken, a row gone, a lost
\* connection: the transaction rolls back and nothing of it remains.
Fail(r) ==
    /\ pc[r] \in Live
    /\ Goto(r, "failed")
    /\ UNCHANGED <<coupons, cards, due, wallets, rewards, referrals, erased, call, stale, overrun>>

Step(r) ==
    \/ TillLock(r) \/ TillCommit(r) \/ PortalRead(r) \/ PortalUse(r) \/ Erase(r)
    \/ PortalLook(r) \/ ClaimRead(r) \/ Lapse(r) \/ ReadPurse(r) \/ ClaimCommit(r)
    \/ SpendCommit(r) \/ EditRead(r) \/ EditWrite(r)
    \/ RewardRead(r) \/ RewardCommit(r) \/ ReferralRead(r) \/ ReferralCommit(r)
    \/ Fail(r)

Next ==
    \/ \E r \in Calls : Step(r)
    \/ \E g \in Cards, h \in Grantees \cup {Nobody} : IssueGiftCard(g, h)
    \/ \E k \in Coupons, c \in Grantees : GrantCoupon(k, c)
    \/ \E p \in pending : Fulfill(p)
    \/ ExpiryPasses

Spec == Init /\ [][Next]_vars

-----------------------------------------------------------------------------
(* Properties.                                                             *)

\* The coupons implement the vouchers of module Vouchers: a till honours a
\* coupon only while it is unspent, and only a portal call that saw it unspent
\* can honour it again.
VoucherStatus(k) ==
    CASE coupon[k] = "none"   -> "none"
      [] coupon[k] = "ACTIVE" -> "unspent"
      [] coupon[k] = "USED"   -> "spent"
      [] coupon[k] = "VOIDED" -> "void"
PortalReaders(k) == {q \in Calls : pc[q] = "checked" /\ Kind(q) = "PORTAL" /\ Item(q) = k}

V == INSTANCE Vouchers WITH
       Items <- Coupons,
       Claimants <- Calls,
       status <- [k \in Coupons |-> VoucherStatus(k)],
       honoured <- uses,
       admitted <- [k \in Coupons |-> PortalReaders(k)]
CouponsAreVouchers == V!Spec

\* A card that has been cashed into a wallet never holds money again, whatever
\* deletion requests, refusals and transfers were under way.
PaidCardStaysEmpty == \A g \in Cards : paid[g] > 0 => money[g] = 0

\* A card is cashed twice only when two claims overlap, or an edit overtook one.
CardPaidOnce == \A g \in Cards : paid[g] > 1 => g \in overrun

\* A card leaves its holder only by the holder's own transfer, unless that
\* transfer was overtaken by another write of the card.
HeldCardMovesByHolder ==
    [][\A g \in Cards : holder[g] \in Customers /\ holder'[g] # holder[g] =>
         \/ g \in overrun'
         \/ \E r \in Calls : /\ pc[r] # pc'[r] /\ Kind(r) = "TRANSFER"
                             /\ Item(r) = g /\ Who(r) = holder[g]]_vars

\* Without an overtaken write and an erasure the wallet is its ledger's sum.
WalletDriftNeedsOverlap ==
    \A c \in Customers :
        wallet[c] # entered[c] => Wallet(c) \in overrun \/ c \in erased

\* A reward is handed out beyond its stock only by overlapping redemptions.
OversoldNeedsOverlap == \A w \in Rewards : stock[w] < 0 => w \in overrun

\* Two referrers are paid for one customer only by overlapping conversions, or
\* after the erasure of that customer.
ReferralPaidOnce ==
    \A c \in Customers : \A a, b \in Customers :
        <<a, c>> \in credited /\ <<b, c>> \in credited =>
            a = b \/ Referral(c) \in overrun \/ c \in erased

\* loyalty-service.ts:358: a concurrent request that finds the coupon USED is
\* rejected, double-spending is structurally impossible.
CouponSpentOnce == \A k \in Coupons : uses[k] <= 1
=============================================================================
