--------------------------- MODULE MCRedemptions ----------------------------
(* A small instance of Redemptions for TLC: three customers, of whom one is *)
(* granted things, two coupons, one card, a cashback and a coupon reward.   *)
EXTENDS Redemptions, TLC

CONSTANTS c1, c2, c3, k1, k2, g1, w1, w2, r1, r2, r3

ThreeCustomers == {c1, c2, c3}
OneGrantee == {c1}
TwoCoupons == {k1, k2}
OneCard == {g1}
TwoRewards == {w1, w2}
ThreeCalls == {r1, r2, r3}
TwoCalls == {r1, r2}
KindOfReward == w1 :> "CASHBACK" @@ w2 :> "COUPON"
OneEach == [w \in Rewards |-> 1]
CashbackOfOne == [w \in Rewards |-> 1]
FaceOfTwo == [g \in Cards |-> 2]

Ask(kind, who, item, other) == [kind |-> kind, who |-> who, item |-> item, other |-> other]

AllCalls == {Ask("TILL", c1, k1, Nobody), Ask("PORTAL", c1, k1, Nobody),
             Ask("ERASE", c1, Nothing, Nobody),
             Ask("CLAIM", c1, g1, Nobody), Ask("PORTAL_CLAIM", c2, g1, Nobody),
             Ask("SPEND", c1, Nothing, Nobody),
             Ask("TRANSFER", c1, g1, c2), Ask("TRANSFER", c1, g1, c3),
             Ask("ASK_DELETE", c1, g1, Nobody), Ask("ACCEPT", c1, g1, Nobody),
             Ask("DECLINE", c1, g1, Nobody), Ask("DELETE", c1, g1, Nobody),
             Ask("REWARD", c1, w1, Nobody), Ask("REWARD", c2, w1, Nobody),
             Ask("REWARD", c1, w2, Nobody),
             Ask("REFER", c1, Nothing, c2), Ask("REFER", c1, Nothing, c3)}
CouponCalls == {Ask("TILL", c1, k1, Nobody), Ask("PORTAL", c1, k1, Nobody)}

CallSymmetry == Permutations(Calls)
=============================================================================
