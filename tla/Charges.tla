------------------------------- MODULE Charges --------------------------------
(***************************************************************************)
(* The commerce charges of a merchant (api-account-charge): escrow by hold *)
(* and release, authorization and capture, refunds, installments and       *)
(* dunning.  A verb loads the charge, checks its state, moves money by one *)
(* atomic ledger batch (two for a partial capture), then writes back the   *)
(* state in an UPDATE of its own, and at last appends to the event log.    *)
(* Nothing keeps two verbs from working on one charge, or a verb from      *)
(* dying in between.                                                       *)
(*                                                                         *)
(* All charges have one merchant (Shop) and one customer (Buyer), both     *)
(* with overdraft policy 'deny'.  The levels of dunning are one state.     *)
(***************************************************************************)
EXTENDS Integers, Functions

CONSTANTS Charges,    \* charge ids
          Amount,     \* [Charges -> amount_sat]
          Buyer, Shop, Escrow,
          None,       \* no charge
          Funds,      \* what Buyer holds before
          Clerks,     \* verb processes
          Handles,    \* [Clerks -> the charges a process works on]
          Uses,       \* [Charges -> the operations used on a charge]
          MaxParts,   \* bound: installments of a plan
          MaxPlans,   \* bound: plans made for a charge
          MaxFaults   \* bound: processes that die

Op == {"hold", "authorize", "release", "capture", "void", "refund",
       "installments", "pay-installment", "dun"}
Parties == {Buyer, Shop, Escrow}
Largest == CHOOSE m \in Range(Amount) : \A x \in Range(Amount) : x =< m

ASSUME ChargesAssumption ==
    /\ Charges # {}
    /\ Amount \in [Charges -> Nat \ {0}]
    /\ None \notin Charges
    /\ Buyer # Shop /\ Buyer # Escrow /\ Shop # Escrow
    /\ Funds \in Nat
    /\ Handles \in [Clerks -> SUBSET Charges]
    /\ Uses \in [Charges -> SUBSET Op]
    /\ MaxParts \in Nat /\ MaxPlans \in Nat /\ MaxFaults \in Nat

VARIABLES
    charge,  \* commerce_charges
    rows,    \* [Charges -> [Parties -> net of the ledger rows tagged with the charge]]
    due,     \* charges past their due date
    told,    \* the state of a charge by the last entry of commerce_events
    clerk,   \* verb processes
    plans,   \* plans made for each charge
    faults

vars == <<charge, rows, due, told, clerk, plans, faults>>

States == {"none", "issued", "held", "authorized", "released", "captured", "voided",
           "paid", "partially_refunded", "refunded", "overdue", "dunning"}
ChargeRow == [state : States, captured : Nat, refunded : Nat, n : Nat, paid : Nat]
Absent == [state |-> "none", captured |-> 0, refunded |-> 0, n |-> 0, paid |-> 0]

\* What a verb process remembers: its operation and charge, the money to move, and the
\* state and number to write back.
Payment == [from : Parties, to : Parties, sat : Nat, rem : Nat]
Job == [pc : {"idle", "move", "rest", "update", "log"}, id : Charges \cup {None},
        op : Op \cup {"none"}, move : Payment, state : States, num : Nat]

Pays(p, q, sat, rem) == [from |-> p, to |-> q, sat |-> sat, rem |-> rem]
NoPayment == Pays(Buyer, Buyer, 0, 0)
Idle == [pc |-> "idle", id |-> None, op |-> "none", move |-> NoPayment,
         state |-> "none", num |-> 0]

Balance(p) == (IF p = Buyer THEN Funds ELSE 0) + SumFunction([i \in Charges |-> rows[i][p]])

\* True unless a debit would overdraw the account.
DebitAlwaysOK(p, sat) == TRUE  \* a slip: the balance is not asked for
DebitOK(p, sat) == Balance(p) - sat >= 0

\* What reached the merchant and may be refunded.
BaseUncaptured(i) == Amount[i]  \* a slip: a partial capture is refunded in full
Base(i) == IF charge[i].captured > 0 THEN charge[i].captured ELSE Amount[i]

\* The next installment: the floors of two consecutive parts, which sum to the amount.
PartialRoundedUp(i) == (Amount[i] + charge[i].n - 1) \div charge[i].n  \* a slip
Partial(i) ==
    (Amount[i] * (charge[i].paid + 1)) \div charge[i].n - (Amount[i] * charge[i].paid) \div charge[i].n

-----------------------------------------------------------------------------

Init ==
    /\ charge = [i \in Charges |-> Absent]
    /\ rows = [i \in Charges |-> [p \in Parties |-> 0]]
    /\ due = {}
    /\ told = [i \in Charges |-> "none"]
    /\ clerk = [c \in Clerks |-> Idle]
    /\ plans = [i \in Charges |-> 0]
    /\ faults = 0

\* The INSERT of `create`; its event follows.
Create(c, i) ==
    /\ clerk[c].pc = "idle" /\ i \in Handles[c]
    /\ charge[i].state = "none"
    /\ charge' = [charge EXCEPT ![i].state = "issued"]
    /\ clerk' = [clerk EXCEPT ![c] = [Idle EXCEPT !.pc = "log", !.id = i, !.state = "issued"]]
    /\ UNCHANGED <<rows, due, told, plans, faults>>

Capturable(i, x) == x \in 1 .. Amount[i]

\* What a verb finds when it loads the charge, and lets it go on; the balance it asks
\* for right after belongs to the same step.  x is the amount to capture or refund, or
\* the number of installments.
Legal(op, i, x) ==
    LET s == charge[i].state
    IN CASE op \in {"hold", "authorize"} -> s = "issued" /\ DebitOK(Buyer, Amount[i])
         [] op = "release" -> s = "held"
         [] op = "capture" -> s = "authorized" /\ Capturable(i, x)
         [] op = "void" -> s = "authorized"
         [] op = "refund" -> /\ s \in {"released", "captured", "paid", "partially_refunded"}
                             /\ x \in 1 .. Base(i) - charge[i].refunded
                             /\ DebitOK(Shop, x)
         [] op = "installments" -> s = "issued" /\ x \in 2 .. MaxParts /\ plans[i] < MaxPlans
         [] op = "pay-installment" -> /\ charge[i].n >= 2 /\ charge[i].paid < charge[i].n
                                      /\ DebitOK(Buyer, Partial(i))
         [] op = "dun" -> i \in due /\ s \in {"issued", "overdue", "dunning"}

RemainderKept(i, x) == 0  \* a slip: what was not captured stays in escrow
Remainder(i, x) == Amount[i] - x

\* The money a verb moves: from, to, how much, and how much goes back to the customer.
Transfer(op, i, x) ==
    CASE op \in {"hold", "authorize"} -> Pays(Buyer, Escrow, Amount[i], 0)
      [] op = "release" -> Pays(Escrow, Shop, Amount[i], 0)
      [] op = "capture" -> Pays(Escrow, Shop, x, Remainder(i, x))
      [] op = "void" -> Pays(Escrow, Buyer, Amount[i], 0)
      [] op = "refund" -> Pays(Shop, Buyer, x, 0)
      [] op = "pay-installment" -> Pays(Buyer, Shop, Partial(i), 0)
      [] OTHER -> NoPayment

\* The state a verb writes back, worked out from what it loaded.
NewState(op, i, x) ==
    LET row == charge[i]
    IN CASE op = "hold" -> "held"
         [] op = "authorize" -> "authorized"
         [] op = "release" -> "released"
         [] op = "capture" -> "captured"
         [] op = "void" -> "voided"
         [] op = "refund" -> IF row.refunded + x >= Base(i) THEN "refunded" ELSE "partially_refunded"
         [] op = "pay-installment" -> IF row.paid + 1 >= row.n THEN "paid" ELSE row.state
         [] op = "dun" -> IF row.state = "issued" THEN "overdue" ELSE "dunning"
         [] OTHER -> row.state

\* The number it writes with it: captured_sat, refunded_sat, installments_n or
\* installments_paid.
NewNumber(op, i, x) ==
    CASE op = "refund" -> charge[i].refunded + x
      [] op = "pay-installment" -> charge[i].paid + 1
      [] OTHER -> x

Begin(c, op, i, x) ==
    /\ clerk[c].pc = "idle" /\ i \in Handles[c] /\ op \in Uses[i]
    /\ charge[i].state # "none"
    /\ Legal(op, i, x)
    /\ clerk' = [clerk EXCEPT ![c] =
                   [pc |-> IF op \in {"installments", "dun"} THEN "update" ELSE "move",
                    id |-> i, op |-> op, move |-> Transfer(op, i, x),
                    state |-> NewState(op, i, x), num |-> NewNumber(op, i, x)]]
    /\ plans' = IF op = "installments" THEN [plans EXCEPT ![i] = @ + 1] ELSE plans
    /\ UNCHANGED <<charge, rows, due, told, faults>>

\* _move: debit and credit in one transaction.
Move(c) ==
    LET j == clerk[c]  m == j.move
    IN /\ j.pc = "move"
       /\ rows' = [rows EXCEPT ![j.id][m.from] = @ - m.sat, ![j.id][m.to] = @ + m.sat]
       /\ clerk' = [clerk EXCEPT ![c].pc = IF m.rem > 0 THEN "rest" ELSE "update"]
       /\ UNCHANGED <<charge, due, told, plans, faults>>

\* The remainder of a partial capture, in a transaction of its own.
MoveRest(c) ==
    LET j == clerk[c]
    IN /\ j.pc = "rest"
       /\ rows' = [rows EXCEPT ![j.id][Escrow] = @ - j.move.rem, ![j.id][Buyer] = @ + j.move.rem]
       /\ clerk' = [clerk EXCEPT ![c].pc = "update"]
       /\ UNCHANGED <<charge, due, told, plans, faults>>

\* The UPDATE: by id alone, whatever the row has become since it was loaded.
Written(row, j) ==
    [state |-> IF j.op = "installments" THEN row.state ELSE j.state,
     captured |-> IF j.op = "capture" THEN j.num ELSE row.captured,
     refunded |-> IF j.op = "refund" THEN j.num ELSE row.refunded,
     n |-> IF j.op = "installments" THEN j.num ELSE row.n,
     paid |-> IF j.op = "installments" THEN 0
              ELSE IF j.op = "pay-installment" THEN j.num ELSE row.paid]

Update(c) ==
    LET j == clerk[c]
    IN /\ j.pc = "update"
       /\ charge' = [charge EXCEPT ![j.id] = Written(@, j)]
       /\ clerk' = [clerk EXCEPT ![c] = [Idle EXCEPT !.pc = "log", !.id = j.id, !.state = j.state]]
       /\ UNCHANGED <<rows, due, told, plans, faults>>

\* _event
Log(c) ==
    /\ clerk[c].pc = "log"
    /\ told' = [told EXCEPT ![clerk[c].id] = clerk[c].state]
    /\ clerk' = [clerk EXCEPT ![c] = Idle]
    /\ UNCHANGED <<charge, rows, due, plans, faults>>

\* The process dies, or a statement fails: `set -e`.
Die(c) ==
    /\ clerk[c].pc # "idle"
    /\ faults < MaxFaults
    /\ faults' = faults + 1
    /\ clerk' = [clerk EXCEPT ![c] = Idle]
    /\ UNCHANGED <<charge, rows, due, told, plans>>

\* The due date passes.
FallDue(i) ==
    /\ charge[i].state # "none" /\ i \notin due /\ "dun" \in Uses[i]
    /\ due' = due \cup {i}
    /\ UNCHANGED <<charge, rows, told, clerk, plans, faults>>

Next ==
    \/ \E c \in Clerks :
         \/ Move(c) \/ MoveRest(c) \/ Update(c) \/ Log(c) \/ Die(c)
         \/ \E i \in Charges : Create(c, i)
         \/ \E i \in Charges, op \in Op, x \in 0 .. Largest : Begin(c, op, i, x)
    \/ \E i \in Charges : FallDue(i)

Spec == Init /\ [][Next]_vars

-----------------------------------------------------------------------------
(* Properties. *)

Free(i) == \A c \in Clerks : clerk[c].pc # "idle" => clerk[c].id # i

\* Every variable has its type: what was captured, refunded and paid in parts never
\* falls below zero, nor does an amount a verb is about to move.
TypeOK ==
    /\ charge \in [Charges -> ChargeRow]
    /\ rows \in [Charges -> [Parties -> Int]]
    /\ due \subseteq Charges
    /\ told \in [Charges -> States]
    /\ clerk \in [Clerks -> Job]
    /\ plans \in [Charges -> 0 .. MaxPlans] /\ faults \in 0 .. MaxFaults

\* "Funds in flight sit in the escrow holding account": unless a verb died, and while
\* none is at work on a charge, its escrow is its amount if it is held or authorized,
\* and nothing otherwise.
EscrowExact ==
    faults = 0 => \A i \in Charges : Free(i) =>
        rows[i][Escrow] = IF charge[i].state \in {"held", "authorized"} THEN Amount[i] ELSE 0

\* Unless a verb died, and while none is at work on a charge, what the merchant has of
\* it is what its state says: the capture or the amount, less what was refunded.
EarningsExact ==
    faults = 0 => \A i \in Charges : Free(i) =>
        rows[i][Shop] = IF charge[i].state \in {"released", "captured", "paid",
                                                "partially_refunded", "refunded"}
                        THEN Base(i) - charge[i].refunded
                        ELSE IF charge[i].n > 0 THEN (Amount[i] * charge[i].paid) \div charge[i].n
                        ELSE 0

\* No charge pays out of escrow more than was put in for it.
EscrowCovered == \A i \in Charges : rows[i][Escrow] >= 0

\* "One invoice amortised into N partial payments" that "sum to exactly amount": a
\* customer pays no more for a charge than its amount, unless a verb died.
NeverOvercharged == faults = 0 => \A i \in Charges : 0 - rows[i][Buyer] =< Amount[i]

NeverOverdrawn == Balance(Buyer) >= 0 /\ Balance(Shop) >= 0

\* No two verbs are about to take from the customer, or from the merchant.
OneDebitAtATime ==
    \A c, d \in Clerks :
        (/\ clerk[c].pc = "move" /\ clerk[d].pc = "move"
         /\ clerk[c].move.from = clerk[d].move.from /\ clerk[c].move.from # Escrow) => c = d

\* The balance check of a verb, a call before its money move, keeps the customer and
\* the merchant from debt as long as such moves do not overlap, even when verbs die
\* and are run again.
ExclusiveDebitsStaySolvent == []OneDebitAtATime => []NeverOverdrawn
=============================================================================
