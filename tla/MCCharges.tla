------------------------------- MODULE MCCharges ------------------------------
(* Charges of a few satoshis, for TLC. *)
EXTENDS Charges

CONSTANTS sale, lease, till1, till2

\* An amount that two installments divide unevenly, and three too.
MCAmount == [i \in Charges |-> IF i = sale THEN 3 ELSE 5]

\* Each process has a charge of its own, or both have all.
MCOwn == [c \in Clerks |-> IF c = till1 THEN Charges \ {lease} ELSE {lease}]
MCShared == [c \in Clerks |-> Charges]

EscrowOps == {"hold", "authorize", "release", "capture", "void", "refund"}
PlanOps == {"installments", "pay-installment", "dun", "refund"}

\* The sale goes through escrow, the lease is paid by installments; or anything goes.
MCByKind == [i \in Charges |-> IF i = sale THEN EscrowOps ELSE PlanOps]
MCAnyUse == [i \in Charges |-> Op]
=============================================================================
