------------------------------ MODULE Vouchers ------------------------------
(* What the coupons promise, without tills, locks or tables: a voucher is   *)
(* honoured while it is unspent.  A claimant that has looked at it unspent   *)
(* without locking it is admitted, and may be honoured late.                 *)
EXTENDS Naturals

CONSTANTS Items, Claimants

VARIABLES
    status,     \* status[i]: what has become of voucher i
    honoured,   \* honoured[i]: how often i has been honoured
    admitted    \* admitted[i]: claimants that saw i unspent and have not claimed

vvars == <<status, honoured, admitted>>

Init ==
    /\ status = [i \in Items |-> "none"]
    /\ honoured = [i \in Items |-> 0]
    /\ admitted = [i \in Items |-> {}]

Grant(i) ==
    /\ status[i] = "none"
    /\ status' = [status EXCEPT ![i] = "unspent"]
    /\ UNCHANGED <<honoured, admitted>>

Admit(i, q) ==
    /\ status[i] = "unspent"
    /\ admitted' = [admitted EXCEPT ![i] = @ \cup {q}]
    /\ UNCHANGED <<status, honoured>>

Leave(i, q) ==
    /\ admitted' = [admitted EXCEPT ![i] = @ \ {q}]
    /\ UNCHANGED <<status, honoured>>

Spend(i) ==
    /\ status' = [status EXCEPT ![i] = "spent"]
    /\ honoured' = [honoured EXCEPT ![i] = @ + 1]

Honour(i) == status[i] = "unspent" /\ Spend(i) /\ UNCHANGED admitted

HonourLate(i, q) ==
    /\ q \in admitted[i]
    /\ Spend(i)
    /\ admitted' = [admitted EXCEPT ![i] = @ \ {q}]

Void(S) ==
    /\ status' = [i \in Items |-> IF i \in S THEN "void" ELSE status[i]]
    /\ UNCHANGED <<honoured, admitted>>

Next ==
    \/ \E i \in Items :
         \/ Grant(i) \/ Honour(i)
         \/ \E q \in Claimants : Admit(i, q) \/ Leave(i, q) \/ HonourLate(i, q)
    \/ \E S \in SUBSET Items : Void(S)

Spec == Init /\ [][Next]_vvars
=============================================================================
