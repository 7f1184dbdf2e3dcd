---------------------------- MODULE ChargesProofs -----------------------------
(***************************************************************************)
(* Theorems about Charges, for any charges, amounts, processes and bounds. *)
(***************************************************************************)
EXTENDS Charges, Sums

-----------------------------------------------------------------------------
(* Arithmetic of the installments. *)

\* Floors of quotients grow with the dividend.
LEMMA DivMonotone ==
    ASSUME NEW a \in Nat, NEW b \in Nat, NEW n \in Nat \ {0}, a =< b
    PROVE  a \div n \in Nat /\ b \div n \in Nat /\ a \div n =< b \div n
<1> DEFINE q == a \div n
           r == b \div n
<1>1. /\ q \in Int /\ n * q =< a /\ a < n * q + n
      /\ r \in Int /\ n * r =< b /\ b < n * r + n
    BY Z3
<1>2. q \in Nat /\ r \in Nat
    BY <1>1
<1>3. ASSUME r < q PROVE FALSE
    <2>1. n * (r + 1) =< n * q
        BY <1>1, <1>2, <1>3, Z3
    <2> QED
        BY <1>1, <1>2, <2>1
<1> QED
    BY <1>1, <1>2, <1>3

\* The floor of the whole is the whole.
LEMMA DivWhole ==
    ASSUME NEW a \in Nat, NEW n \in Nat \ {0}
    PROVE  (a * n) \div n = a
BY Z3

-----------------------------------------------------------------------------
(* Types. *)

\* What a verb works out from a row that it may go on with.
LEMMA JobTyped ==
    ASSUME TypeOK, NEW op \in Op, NEW i \in Charges, NEW x \in Nat, Legal(op, i, x)
    PROVE  /\ Transfer(op, i, x) \in Payment
           /\ NewState(op, i, x) \in States
           /\ NewNumber(op, i, x) \in Nat
<1> DEFINE row == charge[i]
<1>0. /\ row \in ChargeRow /\ Amount[i] \in Nat \ {0}
      /\ Buyer \in Parties /\ Shop \in Parties /\ Escrow \in Parties
    BY ChargesAssumption DEF TypeOK, Parties
<1>1. CASE op \in {"hold", "authorize", "release", "void"}
    BY <1>0, <1>1 DEF Transfer, Pays, Payment, NewState, NewNumber, States
<1>2. CASE op = "capture"
    <2>1. x \in 1 .. Amount[i] /\ Amount[i] - x \in Nat
        BY <1>0, <1>2 DEF Legal, Capturable
    <2> QED
        BY <1>0, <1>2, <2>1 DEF Transfer, Pays, Payment, NewState, NewNumber, States, Remainder
<1>3. CASE op = "refund"
    <2>1. row.refunded + x \in Nat
        BY <1>0 DEF ChargeRow
    <2>2. Transfer(op, i, x) = Pays(Shop, Buyer, x, 0) /\ NewNumber(op, i, x) = row.refunded + x
        BY <1>3 DEF Transfer, NewNumber
    <2>3. NewState(op, i, x) \in {"refunded", "partially_refunded"}
        BY <1>3 DEF NewState
    <2> QED
        BY <1>0, <2>1, <2>2, <2>3 DEF Pays, Payment, States
<1>4. CASE op = "pay-installment"
    <2>1. row.n \in Nat \ {0} /\ row.paid \in Nat
        BY <1>0, <1>4 DEF Legal, ChargeRow
    <2>2. /\ Amount[i] * row.paid \in Nat
          /\ Amount[i] * (row.paid + 1) \in Nat
          /\ Amount[i] * row.paid =< Amount[i] * (row.paid + 1)
        BY <1>0, <2>1
    <2>3. Partial(i) \in Nat
        BY <2>1, <2>2, DivMonotone DEF Partial
    <2> QED
        BY <1>0, <1>4, <2>1, <2>3
        DEF Transfer, Pays, Payment, NewState, NewNumber, States, ChargeRow
<1>5. CASE op \in {"installments", "dun"}
    BY <1>0, <1>5
    DEF Transfer, NoPayment, Pays, Payment, NewState, NewNumber, States, ChargeRow
<1> QED
    BY <1>1, <1>2, <1>3, <1>4, <1>5 DEF Op

\* The row an UPDATE leaves.
LEMMA WrittenTyped ==
    ASSUME NEW row \in ChargeRow, NEW j \in Job
    PROVE  Written(row, j) \in ChargeRow
BY DEF Written, ChargeRow, Job

LEMMA IdleTyped == Idle \in Job
BY ChargesAssumption DEF Idle, Job, NoPayment, Pays, Payment, Parties, States

LEMMA InitTyped == Init => TypeOK
BY IdleTyped, ChargesAssumption DEF Init, TypeOK, Absent, ChargeRow, States

LEMMA StepTyped == TypeOK /\ [Next]_vars => TypeOK'
<1> SUFFICES ASSUME TypeOK, [Next]_vars PROVE TypeOK'
    OBVIOUS
<1>1. ASSUME NEW c \in Clerks, NEW i \in Charges, Create(c, i) PROVE TypeOK'
    <2>1. [Idle EXCEPT !.pc = "log", !.id = i, !.state = "issued"] \in Job
        BY IdleTyped DEF Job, States
    <2>2. [charge EXCEPT ![i].state = "issued"] \in [Charges -> ChargeRow]
        BY DEF TypeOK, ChargeRow, States
    <2> QED
        BY <1>1, <2>1, <2>2 DEF Create, TypeOK
<1>2. ASSUME NEW c \in Clerks, NEW i \in Charges, NEW op \in Op, NEW x \in 0 .. Largest,
             Begin(c, op, i, x)
      PROVE  TypeOK'
    <2>0. x \in Nat
        BY <1>2
    <2>1. /\ Transfer(op, i, x) \in Payment /\ NewState(op, i, x) \in States
          /\ NewNumber(op, i, x) \in Nat
        BY <1>2, <2>0, JobTyped DEF Begin
    <2> DEFINE j == [pc |-> IF op \in {"installments", "dun"} THEN "update" ELSE "move",
                     id |-> i, op |-> op, move |-> Transfer(op, i, x),
                     state |-> NewState(op, i, x), num |-> NewNumber(op, i, x)]
    <2>2. j \in Job
        BY <2>1 DEF Job
    <2>3. clerk' = [clerk EXCEPT ![c] = j]
        BY <1>2 DEF Begin
    <2> HIDE DEF j
    <2>4. clerk' \in [Clerks -> Job]
        BY <2>2, <2>3 DEF TypeOK
    <2>5. plans' \in [Charges -> 0 .. MaxPlans]
        <3>1. CASE op = "installments"
            <4>1. plans[i] \in 0 .. MaxPlans /\ plans[i] < MaxPlans
                BY <1>2, <3>1 DEF Begin, Legal, TypeOK
            <4>2. plans[i] + 1 \in 0 .. MaxPlans
                BY <4>1, ChargesAssumption
            <4> QED
                BY <1>2, <3>1, <4>2 DEF Begin, TypeOK
        <3>2. CASE op # "installments"
            BY <1>2, <3>2 DEF Begin, TypeOK
        <3> QED
            BY <3>1, <3>2
    <2> QED
        BY <1>2, <2>4, <2>5 DEF Begin, TypeOK
<1>3. ASSUME NEW c \in Clerks, Move(c) \/ MoveRest(c) PROVE TypeOK'
    <2>1. clerk[c] \in Job /\ clerk[c].pc # "idle" => clerk[c].move \in Payment
        BY DEF TypeOK, Job
    <2>2. clerk' \in [Clerks -> Job]
        <3>1. PICK s \in {"rest", "update"} : clerk' = [clerk EXCEPT ![c].pc = s]
            BY <1>3 DEF Move, MoveRest
        <3> QED
            BY <3>1 DEF TypeOK, Job
    <2>3. rows' \in [Charges -> [Parties -> Int]]
        BY <1>3, <2>1 DEF Move, MoveRest, TypeOK, Job, Payment
    <2> QED
        BY <1>3, <2>2, <2>3 DEF Move, MoveRest, TypeOK
<1>4. ASSUME NEW c \in Clerks, Update(c) PROVE TypeOK'
    <2> DEFINE j == clerk[c]
    <2>1. j \in Job
        BY DEF TypeOK
    <2>2. charge' \in [Charges -> ChargeRow]
        BY <1>4, <2>1, WrittenTyped DEF Update, TypeOK
    <2>3. [Idle EXCEPT !.pc = "log", !.id = j.id, !.state = j.state] \in Job
        BY <2>1, IdleTyped DEF Job
    <2> QED
        BY <1>4, <2>2, <2>3 DEF Update, TypeOK
<1>5. ASSUME NEW c \in Clerks, Log(c) PROVE TypeOK'
    BY <1>5, IdleTyped DEF Log, TypeOK, Job
<1>6. ASSUME NEW c \in Clerks, Die(c) PROVE TypeOK'
    BY <1>6, IdleTyped, ChargesAssumption DEF Die, TypeOK
<1>7. ASSUME NEW i \in Charges, FallDue(i) PROVE TypeOK'
    BY <1>7 DEF FallDue, TypeOK
<1>8. CASE UNCHANGED vars
    BY <1>8 DEF vars, TypeOK
<1> QED
    BY <1>1, <1>2, <1>3, <1>4, <1>5, <1>6, <1>7, <1>8 DEF Next

\* Every variable keeps its type, whatever processes overlap or die: amounts to move, parts
\* paid and sums refunded are natural numbers.
THEOREM ChargesTyped == Spec => []TypeOK
BY InitTyped, StepTyped, PTL DEF Spec

-----------------------------------------------------------------------------
(* Escrow and earnings, where charges are kept apart. *)

\* Each charge is worked on by one process, is either paid through escrow or by
\* installments, and has one plan.
Apart ==
    /\ MaxPlans = 1
    /\ \A c, d \in Clerks : Handles[c] \cap Handles[d] # {} => c = d
    /\ \A i \in Charges : "installments" \in Uses[i] => Uses[i] \cap {"hold", "authorize"} = {}

Earning == {"released", "captured", "paid", "partially_refunded", "refunded"}

\* What escrow and the merchant should have of charge i when its row is `row'.
BaseOf(i, row) == IF row.captured > 0 THEN row.captured ELSE Amount[i]
InEscrow(i, row) == IF row.state \in {"held", "authorized"} THEN Amount[i] ELSE 0
Earned(i, row) ==
    IF row.state \in Earning THEN BaseOf(i, row) - row.refunded
    ELSE IF row.n > 0 THEN (Amount[i] * row.paid) \div row.n ELSE 0

\* A row a charge can have after k plans.
RowOK(i, row, k) ==
    /\ row.n > 0 => "installments" \in Uses[i] /\ k >= 1
    /\ row.state \in {"held", "authorized", "released", "captured", "voided"}
           => Uses[i] \cap {"hold", "authorize"} # {}
    /\ row.state \notin Earning => row.captured = 0 /\ row.refunded = 0
    /\ row.state \in Earning /\ row.n > 0 => row.paid = row.n
    /\ row.captured =< Amount[i] /\ row.paid =< row.n

\* What a process is still to move into escrow and to the merchant.
EscrowAhead(j) ==
    IF j.pc = "move" THEN (IF j.move.to = Escrow THEN j.move.sat ELSE 0)
                            - (IF j.move.from = Escrow THEN j.move.sat ELSE 0) - j.move.rem
    ELSE IF j.pc = "rest" THEN 0 - j.move.rem ELSE 0
ShopAhead(j) ==
    IF j.pc = "move" THEN (IF j.move.to = Shop THEN j.move.sat ELSE 0)
                            - (IF j.move.from = Shop THEN j.move.sat ELSE 0)
    ELSE 0

Settled(i, row) == rows[i][Escrow] = InEscrow(i, row) /\ rows[i][Shop] = Earned(i, row)

Working(c) == clerk[c].pc \in {"move", "rest", "update"}

\* A process works on a charge of its own; what it is still to move and write makes
\* the money agree with the row again.
JobOK(c) ==
    LET j == clerk[c]  w == Written(charge[j.id], j)
    IN /\ j.pc # "idle" => j.id \in Handles[c]
       /\ j.pc = "log" => Settled(j.id, charge[j.id])
       /\ Working(c) => /\ RowOK(j.id, w, plans[j.id])
                        /\ rows[j.id][Escrow] + EscrowAhead(j) = InEscrow(j.id, w)
                        /\ rows[j.id][Shop] + ShopAhead(j) = Earned(j.id, w)
       /\ j.pc = "move" /\ j.move.from = Buyer => j.move.rem = 0

Inv == /\ TypeOK
       /\ \A i \in Charges : RowOK(i, charge[i], plans[i])
       /\ \A c \in Clerks : JobOK(c)
       /\ \A i \in Charges : Free(i) => Settled(i, charge[i])

\* The job of operation op on charge i.
NewJob(op, i, x) ==
    [pc |-> IF op \in {"installments", "dun"} THEN "update" ELSE "move",
     id |-> i, op |-> op, move |-> Transfer(op, i, x),
     state |-> NewState(op, i, x), num |-> NewNumber(op, i, x)]

\* Each operation, once begun, moves what its new row says.
LEMMA Accounted ==
    ASSUME TypeOK, Apart, NEW op \in Op, NEW i \in Charges, NEW x \in Nat,
           op \in Uses[i], Legal(op, i, x), RowOK(i, charge[i], plans[i])
    PROVE  LET j == NewJob(op, i, x)  row == charge[i]  w == Written(row, j)
               k == IF op = "installments" THEN plans[i] + 1 ELSE plans[i]
           IN /\ RowOK(i, w, k)
              /\ InEscrow(i, row) + EscrowAhead(j) = InEscrow(i, w)
              /\ Earned(i, row) + ShopAhead(j) = Earned(i, w)
<1> DEFINE j == NewJob(op, i, x)
           row == charge[i]
           w == Written(row, j)
           k == IF op = "installments" THEN plans[i] + 1 ELSE plans[i]
<1> SUFFICES /\ RowOK(i, w, k)
             /\ InEscrow(i, row) + EscrowAhead(j) = InEscrow(i, w)
             /\ Earned(i, row) + ShopAhead(j) = Earned(i, w)
    OBVIOUS
<1>0. /\ row \in ChargeRow /\ Amount[i] \in Nat \ {0} /\ plans[i] \in {0, 1}
      /\ Buyer # Shop /\ Buyer # Escrow /\ Shop # Escrow
    BY ChargesAssumption DEF TypeOK, Apart
<1>1. /\ row.state \in States /\ row.captured \in Nat /\ row.refunded \in Nat
      /\ row.n \in Nat /\ row.paid \in Nat
    BY <1>0 DEF ChargeRow
<1>2. Uses[i] \cap {"hold", "authorize"} # {} => row.n = 0 /\ "installments" \notin Uses[i]
    BY <1>1 DEF Apart, RowOK
<1>3. /\ w.state = IF op = "installments" THEN row.state ELSE NewState(op, i, x)
      /\ w.captured = IF op = "capture" THEN NewNumber(op, i, x) ELSE row.captured
      /\ w.refunded = IF op = "refund" THEN NewNumber(op, i, x) ELSE row.refunded
      /\ w.n = IF op = "installments" THEN NewNumber(op, i, x) ELSE row.n
      /\ w.paid = IF op = "installments" THEN 0
                  ELSE IF op = "pay-installment" THEN NewNumber(op, i, x) ELSE row.paid
    BY DEF Written, NewJob
<1>4. /\ j.pc = IF op \in {"installments", "dun"} THEN "update" ELSE "move"
      /\ j.move = Transfer(op, i, x)
    BY DEF NewJob
<1> HIDE DEF j, w
<1>5. CASE op \in {"hold", "authorize"}
    <2>1. row.state = "issued" /\ row.n = 0 /\ row.captured = 0 /\ row.refunded = 0
        BY <1>1, <1>2, <1>5 DEF Legal, RowOK, Earning
    <2>2. /\ w.state \in {"held", "authorized"} /\ w.captured = 0 /\ w.refunded = 0 /\ w.n = 0
          /\ w.paid = row.paid
          /\ j.pc = "move" /\ j.move = Pays(Buyer, Escrow, Amount[i], 0)
        BY <1>3, <1>4, <1>5, <2>1 DEF NewState, Transfer
    <2> QED
        BY <1>0, <1>1, <1>5, <2>1, <2>2
        DEF RowOK, InEscrow, Earned, EscrowAhead, ShopAhead, Pays, Earning
<1>6. CASE op = "release"
    <2>1. row.state = "held" /\ row.n = 0 /\ row.captured = 0 /\ row.refunded = 0
        BY <1>1, <1>2, <1>6 DEF Legal, RowOK, Earning
    <2>2. /\ w.state = "released" /\ w.captured = 0 /\ w.refunded = 0 /\ w.n = 0
          /\ w.paid = row.paid
          /\ j.pc = "move" /\ j.move = Pays(Escrow, Shop, Amount[i], 0)
        BY <1>3, <1>4, <1>6, <2>1 DEF NewState, Transfer
    <2> QED
        BY <1>0, <1>1, <1>6, <2>1, <2>2
        DEF RowOK, InEscrow, Earned, BaseOf, EscrowAhead, ShopAhead, Pays, Earning
<1>7. CASE op = "capture"
    <2>1. /\ row.state = "authorized" /\ row.n = 0 /\ row.captured = 0 /\ row.refunded = 0
          /\ x >= 1 /\ x =< Amount[i]
        BY <1>0, <1>1, <1>2, <1>7 DEF Legal, Capturable, RowOK, Earning
    <2>2. /\ w.state = "captured" /\ w.captured = x /\ w.refunded = 0 /\ w.n = 0
          /\ w.paid = row.paid
          /\ j.pc = "move" /\ j.move = Pays(Escrow, Shop, x, Amount[i] - x)
        BY <1>3, <1>4, <1>7, <2>1 DEF NewState, NewNumber, Transfer, Remainder
    <2> QED
        BY <1>0, <1>1, <1>7, <2>1, <2>2
        DEF RowOK, InEscrow, Earned, BaseOf, EscrowAhead, ShopAhead, Pays, Earning
<1>8. CASE op = "void"
    <2>1. row.state = "authorized" /\ row.n = 0 /\ row.captured = 0 /\ row.refunded = 0
        BY <1>1, <1>2, <1>8 DEF Legal, RowOK, Earning
    <2>2. /\ w.state = "voided" /\ w.captured = 0 /\ w.refunded = 0 /\ w.n = 0
          /\ w.paid = row.paid
          /\ j.pc = "move" /\ j.move = Pays(Escrow, Buyer, Amount[i], 0)
        BY <1>3, <1>4, <1>8, <2>1 DEF NewState, Transfer
    <2> QED
        BY <1>0, <1>1, <1>8, <2>1, <2>2
        DEF RowOK, InEscrow, Earned, EscrowAhead, ShopAhead, Pays, Earning
<1>9. CASE op = "refund"
    <2>1. row.state \in {"released", "captured", "paid", "partially_refunded"}
        BY <1>9 DEF Legal
    <2>2. /\ w.state \in {"refunded", "partially_refunded"}
          /\ w.captured = row.captured /\ w.refunded = row.refunded + x
          /\ w.n = row.n /\ w.paid = row.paid
          /\ j.pc = "move" /\ j.move = Pays(Shop, Buyer, x, 0)
        BY <1>3, <1>4, <1>9 DEF NewState, NewNumber, Transfer
    <2> QED
        BY <1>0, <1>1, <1>9, <2>1, <2>2
        DEF RowOK, InEscrow, Earned, BaseOf, EscrowAhead, ShopAhead, Pays, Earning
<1>10. CASE op = "installments"
    <2>1. /\ row.state = "issued" /\ row.n = 0 /\ row.captured = 0 /\ row.refunded = 0
          /\ x >= 2 /\ plans[i] = 0
        BY <1>0, <1>1, <1>10 DEF Legal, RowOK, Earning, Apart
    <2>2. /\ w.state = "issued" /\ w.captured = 0 /\ w.refunded = 0 /\ w.n = x /\ w.paid = 0
          /\ j.pc = "update"
        BY <1>3, <1>4, <1>10, <2>1 DEF NewNumber
    <2>3. (Amount[i] * 0) \div x = 0
        BY <1>0, <2>1, DivWhole
    <2> QED
        BY <1>0, <1>10, <2>1, <2>2, <2>3
        DEF RowOK, InEscrow, Earned, EscrowAhead, ShopAhead, Earning
<1>11. CASE op = "pay-installment"
    <2>1. row.n >= 2 /\ row.paid < row.n /\ "installments" \in Uses[i]
        BY <1>1, <1>11 DEF Legal, RowOK
    <2>2. /\ row.state \notin Earning /\ row.state \notin {"held", "authorized"}
          /\ row.captured = 0 /\ row.refunded = 0 /\ Uses[i] \cap {"hold", "authorize"} = {}
        BY <1>1, <1>2, <2>1 DEF RowOK, Apart
    <2>3. /\ w.state = IF row.paid + 1 >= row.n THEN "paid" ELSE row.state
          /\ w.captured = 0 /\ w.refunded = 0 /\ w.n = row.n /\ w.paid = row.paid + 1
          /\ j.pc = "move" /\ j.move = Pays(Buyer, Shop, Partial(i), 0)
        BY <1>3, <1>4, <1>11, <2>2 DEF NewState, NewNumber, Transfer
    <2> DEFINE before == (Amount[i] * row.paid) \div row.n
               after == (Amount[i] * (row.paid + 1)) \div row.n
    <2>4. before \in Int /\ after \in Int /\ Partial(i) = after - before
        <3>1. Amount[i] * row.paid \in Nat /\ Amount[i] * (row.paid + 1) \in Nat
            BY <1>0, <1>1
        <3> QED
            BY <1>1, <2>1, <3>1 DEF Partial
    <2>5. row.paid + 1 >= row.n => after = Amount[i]
        <3> SUFFICES ASSUME row.paid + 1 >= row.n PROVE after = Amount[i]
            OBVIOUS
        <3>1. row.paid + 1 = row.n /\ row.n \in Nat \ {0} /\ Amount[i] \in Nat
            BY <1>0, <1>1, <2>1
        <3>2. (Amount[i] * row.n) \div row.n = Amount[i]
            BY <3>1, DivWhole
        <3>3. after = (Amount[i] * row.n) \div row.n
            BY <3>1
        <3> QED
            BY <3>2, <3>3
    <2>6. Earned(i, row) = before
        BY <1>1, <2>1, <2>2 DEF Earned
    <2>7. Earned(i, w) = after
        <3>1. CASE row.paid + 1 >= row.n
            BY <1>0, <2>3, <2>5, <3>1 DEF Earned, BaseOf, Earning
        <3>2. CASE ~(row.paid + 1 >= row.n)
            BY <1>1, <2>1, <2>2, <2>3, <3>2 DEF Earned, Earning
        <3> QED
            BY <3>1, <3>2
    <2> HIDE DEF before, after
    <2>8. ShopAhead(j) = after - before /\ EscrowAhead(j) = 0
        BY <1>0, <2>3, <2>4 DEF ShopAhead, EscrowAhead, Pays
    <2>9. InEscrow(i, row) = 0 /\ InEscrow(i, w) = 0
        BY <2>2, <2>3 DEF InEscrow
    <2>10. RowOK(i, w, k)
        BY <1>1, <1>11, <2>1, <2>2, <2>3 DEF RowOK, Earning
    <2> QED
        BY <2>4, <2>6, <2>7, <2>8, <2>9, <2>10
<1>12. CASE op = "dun"
    <2>1. /\ row.state \in {"issued", "overdue", "dunning"}
          /\ row.captured = 0 /\ row.refunded = 0
        BY <1>1, <1>12 DEF Legal, RowOK, Earning
    <2>2. /\ w.state \in {"overdue", "dunning"} /\ w.captured = 0 /\ w.refunded = 0
          /\ w.n = row.n /\ w.paid = row.paid /\ j.pc = "update"
        BY <1>3, <1>4, <1>12, <2>1 DEF NewState
    <2>3. Earned(i, row) = Earned(i, w) /\ Earned(i, row) \in Int
        <3>1. row.n > 0 => (Amount[i] * row.paid) \div row.n \in Int
            BY <1>0, <1>1
        <3> QED
            BY <1>1, <2>1, <2>2, <3>1 DEF Earned, Earning
    <2> QED
        BY <1>0, <1>12, <2>1, <2>2, <2>3 DEF RowOK, InEscrow, EscrowAhead, ShopAhead, Earning
<1> QED
    BY <1>5, <1>6, <1>7, <1>8, <1>9, <1>10, <1>11, <1>12 DEF Op

\* While an idle process may work on a charge, no other does.
LEMMA NobodyElse ==
    ASSUME Inv, Apart, NEW c \in Clerks, NEW i \in Handles[c], clerk[c].pc = "idle"
    PROVE  Free(i)
BY DEF Inv, JobOK, Apart, Free

\* A step of process c on charge i: what remains to be shown of it.
LEMMA StepFrame ==
    ASSUME Inv, Apart, TypeOK', NEW c \in Clerks, NEW i \in Handles[c], NEW q \in Job,
           clerk' = [clerk EXCEPT ![c] = q],
           q.pc # "idle" => q.id = i,
           clerk[c].pc # "idle" => clerk[c].id = i,
           \A k \in Charges \ {i} : /\ charge'[k] = charge[k] /\ rows'[k] = rows[k]
                                    /\ plans'[k] = plans[k],
           RowOK(i, charge'[i], plans'[i]),
           JobOK(c)',
           q.pc = "idle" => Settled(i, charge[i])'
    PROVE  Inv'
<1>0. /\ clerk \in [Clerks -> Job] /\ i \in Charges /\ Handles \in [Clerks -> SUBSET Charges]
      /\ clerk'[c] = q /\ \A d \in Clerks : d # c => clerk'[d] = clerk[d]
    BY ChargesAssumption DEF Inv, TypeOK
<1>1. \A k \in Charges : RowOK(k, charge'[k], plans'[k])
    BY DEF Inv
<1>2. ASSUME NEW d \in Clerks PROVE JobOK(d)'
    <2>1. CASE d = c
        BY <2>1
    <2>2. CASE d # c /\ clerk[d].pc = "idle"
        BY <1>0, <2>2 DEF JobOK, Working
    <2>3. CASE d # c /\ clerk[d].pc # "idle"
        <3>1. clerk'[d] = clerk[d] /\ JobOK(d) /\ clerk[d].id \in Handles[d]
            BY <1>0, <2>3 DEF Inv, JobOK
        <3>2. clerk[d].id \in Charges \ {i}
            BY <1>0, <2>3, <3>1 DEF Apart
        <3>3. /\ charge'[clerk[d].id] = charge[clerk[d].id]
              /\ rows'[clerk[d].id] = rows[clerk[d].id]
              /\ plans'[clerk[d].id] = plans[clerk[d].id]
            BY <3>2
        <3> QED
            BY <3>1, <3>3 DEF JobOK, Working, Settled
    <2> QED
        BY <2>1, <2>2, <2>3
<1>3. ASSUME NEW k \in Charges, Free(k)' PROVE Settled(k, charge[k])'
    <2>1. CASE k = i
        <3>1. q.pc = "idle"
            BY <1>0, <1>3, <2>1 DEF Free
        <3> QED
            BY <2>1, <3>1
    <2>2. CASE k # i
        <3>1. Free(k)
            BY <1>0, <1>3, <2>2 DEF Free
        <3> QED
            BY <2>2, <3>1 DEF Inv, Settled
    <2> QED
        BY <2>1, <2>2
<1> QED
    BY <1>1, <1>2, <1>3 DEF Inv

LEMMA InitInv == Init => Inv
<1> SUFFICES ASSUME Init PROVE Inv
    OBVIOUS
<1>1. TypeOK
    BY InitTyped
<1>2. /\ \A i \in Charges : charge[i] = Absent /\ rows[i][Escrow] = 0 /\ rows[i][Shop] = 0
      /\ \A c \in Clerks : clerk[c].pc = "idle"
    BY DEF Init, Idle, Parties
<1>3. \A i \in Charges : RowOK(i, charge[i], plans[i]) /\ Settled(i, charge[i])
    BY <1>2, ChargesAssumption DEF Absent, RowOK, Settled, InEscrow, Earned, Earning
<1> QED
    BY <1>1, <1>2, <1>3 DEF Inv, JobOK, Working

LEMMA StepInv == Inv /\ Apart /\ [Next]_vars /\ faults' = 0 => Inv'
<1> SUFFICES ASSUME Inv, Apart, [Next]_vars, faults' = 0 PROVE Inv'
    OBVIOUS
<1>0. TypeOK /\ TypeOK' /\ Handles \in [Clerks -> SUBSET Charges]
    BY StepTyped, ChargesAssumption DEF Inv
<1>1. ASSUME NEW c \in Clerks, NEW i \in Charges, Create(c, i) PROVE Inv'
    <2> DEFINE q == [Idle EXCEPT !.pc = "log", !.id = i, !.state = "issued"]
    <2>1. /\ i \in Handles[c] /\ clerk[c].pc = "idle" /\ charge[i].state = "none"
          /\ clerk' = [clerk EXCEPT ![c] = q]
          /\ charge' = [charge EXCEPT ![i].state = "issued"]
          /\ rows' = rows /\ plans' = plans
        BY <1>1 DEF Create
    <2>2. q \in Job /\ q.pc = "log" /\ q.id = i
        BY IdleTyped DEF Job, States, Idle
    <2>3. Free(i) /\ Settled(i, charge[i]) /\ RowOK(i, charge[i], plans[i])
        BY <2>1, NobodyElse DEF Inv
    <2>4. /\ charge'[i] = [charge[i] EXCEPT !.state = "issued"] /\ charge[i] \in ChargeRow
          /\ \A k \in Charges \ {i} : charge'[k] = charge[k]
        BY <1>0, <2>1 DEF TypeOK
    <2>5. RowOK(i, charge'[i], plans'[i])
        BY <2>1, <2>3, <2>4 DEF RowOK, Earning, ChargeRow
    <2>6. Settled(i, charge[i])'
        BY <2>1, <2>3, <2>4 DEF Settled, InEscrow, Earned, Earning, ChargeRow
    <2>7. clerk'[c] = q
        BY <1>0, <2>1 DEF TypeOK
    <2> HIDE DEF q
    <2>8. JobOK(c)'
        BY <2>1, <2>2, <2>6, <2>7 DEF JobOK, Working
    <2> QED
        BY <1>0, <2>1, <2>2, <2>4, <2>5, <2>8, StepFrame
<1>2. ASSUME NEW c \in Clerks, NEW i \in Charges, NEW op \in Op, NEW x \in 0 .. Largest,
             Begin(c, op, i, x)
      PROVE  Inv'
    <2> DEFINE q == NewJob(op, i, x)
    <2>1. /\ i \in Handles[c] /\ clerk[c].pc = "idle" /\ op \in Uses[i] /\ Legal(op, i, x)
          /\ clerk' = [clerk EXCEPT ![c] = q]
          /\ charge' = charge /\ rows' = rows /\ x \in Nat
        BY <1>2 DEF Begin, NewJob
    <2>2. q \in Job /\ q.pc \in {"move", "update"} /\ q.id = i
        BY <2>1, <1>0, JobTyped DEF Job, NewJob
    <2>3. Free(i) /\ Settled(i, charge[i]) /\ RowOK(i, charge[i], plans[i])
        BY <2>1, NobodyElse DEF Inv
    <2> DEFINE k == IF op = "installments" THEN plans[i] + 1 ELSE plans[i]
               w == Written(charge[i], q)
    <2>4. /\ RowOK(i, w, k)
          /\ InEscrow(i, charge[i]) + EscrowAhead(q) = InEscrow(i, w)
          /\ Earned(i, charge[i]) + ShopAhead(q) = Earned(i, w)
        BY <1>0, <2>1, <2>3, Accounted
    <2>5. plans'[i] = k /\ \A l \in Charges \ {i} : plans'[l] = plans[l]
        BY <1>0, <1>2 DEF Begin, TypeOK
    <2>6. RowOK(i, charge[i], k)
        BY <1>0, <2>3 DEF RowOK, TypeOK
    <2>7. clerk'[c] = q
        BY <1>0, <2>1 DEF TypeOK
    <2> HIDE DEF q, k
    <2>8. q.move.from = Buyer => q.move.rem = 0
        <3>1. Transfer(op, i, x).from = Buyer => Transfer(op, i, x).rem = 0
            BY ChargesAssumption DEF Transfer, Pays, NoPayment, Op
        <3> QED
            BY <3>1 DEF NewJob, q
    <2>9. JobOK(c)'
        BY <2>1, <2>2, <2>3, <2>4, <2>5, <2>7, <2>8 DEF JobOK, Working, Settled
    <2> QED
        BY <1>0, <2>1, <2>2, <2>5, <2>6, <2>9, StepFrame
<1>3. ASSUME NEW c \in Clerks, Move(c) PROVE Inv'
    <2> DEFINE j == clerk[c]
               i == j.id
               m == j.move
               q == [j EXCEPT !.pc = IF m.rem > 0 THEN "rest" ELSE "update"]
               w == Written(charge[i], j)
    <2>0. j \in Job /\ j.pc = "move" /\ m \in Payment /\ JobOK(c)
        BY <1>0, <1>3 DEF Move, TypeOK, Inv, Job
    <2>1. i \in Handles[c] /\ i \in Charges
        BY <1>0, <2>0 DEF JobOK
    <2>2. /\ clerk' = [clerk EXCEPT ![c] = q] /\ charge' = charge /\ plans' = plans
          /\ rows' = [rows EXCEPT ![i][m.from] = @ - m.sat, ![i][m.to] = @ + m.sat]
        BY <1>3 DEF Move
    <2>3. /\ q \in Job /\ q.pc = IF m.rem > 0 THEN "rest" ELSE "update"
          /\ q.id = i /\ q.move = m /\ q.op = j.op /\ q.state = j.state /\ q.num = j.num
        BY <2>0 DEF Job
    <2>4. /\ RowOK(i, w, plans[i])
          /\ rows[i][Escrow] + EscrowAhead(j) = InEscrow(i, w)
          /\ rows[i][Shop] + ShopAhead(j) = Earned(i, w)
        BY <2>0 DEF JobOK, Working
    <2>5. /\ rows[i] \in [Parties -> Int] /\ Escrow \in Parties /\ Shop \in Parties
          /\ m.from \in Parties /\ m.to \in Parties /\ m.sat \in Nat /\ m.rem \in Nat
        BY <1>0, <2>0, <2>1 DEF TypeOK, Payment, Parties
    <2>6. /\ \A p \in Parties : rows'[i][p] = rows[i][p] - (IF m.from = p THEN m.sat ELSE 0)
                                                + (IF m.to = p THEN m.sat ELSE 0)
          /\ \A k \in Charges \ {i} : rows'[k] = rows[k]
        <3>1. rows \in [Charges -> [Parties -> Int]]
            BY <1>0 DEF TypeOK
        <3> HIDE DEF i, m
        <3> QED
            BY <2>1, <2>2, <2>5, <3>1
    <2>7. clerk'[c] = q
        BY <1>0, <2>2 DEF TypeOK
    <2>8. Written(charge[i], q) = w
        BY <2>3 DEF Written
    <2> HIDE DEF q, w
    <2>9. rows'[i][Escrow] + EscrowAhead(q) = rows[i][Escrow] + EscrowAhead(j)
        BY <2>0, <2>3, <2>5, <2>6 DEF EscrowAhead
    <2>10. rows'[i][Shop] + ShopAhead(q) = rows[i][Shop] + ShopAhead(j)
        BY <2>0, <2>3, <2>5, <2>6 DEF ShopAhead
    <2>11. JobOK(c)'
        BY <2>1, <2>2, <2>3, <2>4, <2>7, <2>8, <2>9, <2>10 DEF JobOK, Working
    <2> QED
        BY <1>0, <2>0, <2>1, <2>2, <2>3, <2>6, <2>11, StepFrame DEF Inv
<1>4. ASSUME NEW c \in Clerks, MoveRest(c) PROVE Inv'
    <2> DEFINE j == clerk[c]
               i == j.id
               rem == j.move.rem
               q == [j EXCEPT !.pc = "update"]
               w == Written(charge[i], j)
    <2>0. j \in Job /\ j.pc = "rest" /\ rem \in Nat /\ JobOK(c)
        BY <1>0, <1>4 DEF MoveRest, TypeOK, Inv, Job, Payment
    <2>1. i \in Handles[c] /\ i \in Charges
        BY <1>0, <2>0 DEF JobOK
    <2>2. /\ clerk' = [clerk EXCEPT ![c] = q] /\ charge' = charge /\ plans' = plans
          /\ rows' = [rows EXCEPT ![i][Escrow] = @ - rem, ![i][Buyer] = @ + rem]
        BY <1>4 DEF MoveRest
    <2>3. /\ q \in Job /\ q.pc = "update" /\ q.id = i
          /\ q.op = j.op /\ q.state = j.state /\ q.num = j.num
        BY <2>0 DEF Job
    <2>4. /\ RowOK(i, w, plans[i])
          /\ rows[i][Escrow] + EscrowAhead(j) = InEscrow(i, w)
          /\ rows[i][Shop] + ShopAhead(j) = Earned(i, w)
        BY <2>0 DEF JobOK, Working
    <2>5. /\ rows[i] \in [Parties -> Int] /\ {Escrow, Shop, Buyer} \subseteq Parties
          /\ Buyer # Shop /\ Buyer # Escrow /\ Shop # Escrow
        BY <1>0, <2>1, ChargesAssumption DEF TypeOK, Parties
    <2>6. /\ rows'[i][Escrow] = rows[i][Escrow] - rem /\ rows'[i][Shop] = rows[i][Shop]
          /\ \A k \in Charges \ {i} : rows'[k] = rows[k]
        <3>1. rows \in [Charges -> [Parties -> Int]]
            BY <1>0 DEF TypeOK
        <3> HIDE DEF i, rem
        <3> QED
            BY <2>0, <2>1, <2>2, <2>5, <3>1
    <2>7. clerk'[c] = q
        BY <1>0, <2>2 DEF TypeOK
    <2>8. Written(charge[i], q) = w
        BY <2>3 DEF Written
    <2> HIDE DEF q, w
    <2>9. /\ rows'[i][Escrow] + EscrowAhead(q) = rows[i][Escrow] + EscrowAhead(j)
          /\ rows'[i][Shop] + ShopAhead(q) = rows[i][Shop] + ShopAhead(j)
        BY <2>0, <2>3, <2>5, <2>6 DEF EscrowAhead, ShopAhead
    <2>10. JobOK(c)'
        BY <2>1, <2>2, <2>3, <2>4, <2>7, <2>8, <2>9 DEF JobOK, Working
    <2> QED
        BY <1>0, <2>0, <2>1, <2>2, <2>3, <2>6, <2>10, StepFrame DEF Inv
<1>5. ASSUME NEW c \in Clerks, Update(c) PROVE Inv'
    <2> DEFINE j == clerk[c]
               i == j.id
               q == [Idle EXCEPT !.pc = "log", !.id = i, !.state = j.state]
               w == Written(charge[i], j)
    <2>0. j \in Job /\ j.pc = "update" /\ JobOK(c)
        BY <1>0, <1>5 DEF Update, TypeOK, Inv
    <2>1. i \in Handles[c] /\ i \in Charges
        BY <1>0, <2>0 DEF JobOK
    <2>2. /\ clerk' = [clerk EXCEPT ![c] = q] /\ rows' = rows /\ plans' = plans
          /\ charge' = [charge EXCEPT ![i] = w]
        BY <1>5 DEF Update
    <2>3. q \in Job /\ q.pc = "log" /\ q.id = i
        BY <2>0, <2>1, IdleTyped DEF Job, Idle
    <2>4. /\ RowOK(i, w, plans[i])
          /\ rows[i][Escrow] = InEscrow(i, w) /\ rows[i][Shop] = Earned(i, w)
        <3>1. /\ RowOK(i, w, plans[i])
              /\ rows[i][Escrow] + EscrowAhead(j) = InEscrow(i, w)
              /\ rows[i][Shop] + ShopAhead(j) = Earned(i, w)
            BY <2>0 DEF JobOK, Working
        <3>2. EscrowAhead(j) = 0 /\ ShopAhead(j) = 0
            BY <2>0 DEF EscrowAhead, ShopAhead
        <3>3. rows[i][Escrow] \in Int /\ rows[i][Shop] \in Int
            BY <1>0, <2>1 DEF TypeOK, Parties
        <3> QED
            BY <3>1, <3>2, <3>3
    <2>5. charge'[i] = w /\ \A k \in Charges \ {i} : charge'[k] = charge[k]
        BY <1>0, <2>1, <2>2 DEF TypeOK
    <2>6. clerk'[c] = q
        BY <1>0, <2>2 DEF TypeOK
    <2> HIDE DEF q, w
    <2>7. JobOK(c)'
        BY <2>1, <2>2, <2>3, <2>4, <2>5, <2>6 DEF JobOK, Working, Settled
    <2> QED
        BY <1>0, <2>0, <2>1, <2>2, <2>3, <2>4, <2>5, <2>7, StepFrame DEF Inv
<1>6. ASSUME NEW c \in Clerks, Log(c) PROVE Inv'
    <2>0. clerk[c].pc = "log" /\ JobOK(c)
        BY <1>6 DEF Log, Inv
    <2>1. PICK i \in Charges : clerk[c].id = i /\ i \in Handles[c] /\ Settled(i, charge[i])
        BY <1>0, <2>0 DEF JobOK
    <2>2. /\ clerk' = [clerk EXCEPT ![c] = Idle] /\ rows' = rows /\ plans' = plans
          /\ charge' = charge
        BY <1>6 DEF Log
    <2>3. Idle \in Job /\ Idle.pc = "idle" /\ clerk'[c] = Idle
        BY <1>0, <2>2, IdleTyped DEF TypeOK, Idle
    <2>4. JobOK(c)' /\ Settled(i, charge[i])'
        BY <2>1, <2>2, <2>3 DEF JobOK, Working, Settled
    <2>5. RowOK(i, charge'[i], plans'[i])
        BY <2>1, <2>2 DEF Inv
    <2> QED
        BY <1>0, <2>0, <2>1, <2>2, <2>3, <2>4, <2>5, StepFrame DEF Inv
<1>7. ASSUME NEW c \in Clerks, Die(c) PROVE Inv'
    <2>1. faults \in 0 .. MaxFaults /\ faults' = faults + 1 /\ MaxFaults \in Nat
        BY <1>0, <1>7, ChargesAssumption DEF Die, TypeOK
    <2> QED
        BY <2>1
<1>8. CASE UNCHANGED <<charge, rows, clerk, plans>>
    BY <1>0, <1>8 DEF Inv, JobOK, Working, Settled, Free
<1> QED
    BY <1>1, <1>2, <1>3, <1>4, <1>5, <1>6, <1>7, <1>8 DEF Next, FallDue, vars

\* Deaths are counted, and never taken back.
LEMMA DeathsCounted == TypeOK /\ [Next]_vars /\ faults' = 0 => faults = 0
<1> SUFFICES ASSUME TypeOK, [Next]_vars, faults' = 0 PROVE faults = 0
    OBVIOUS
<1>1. faults \in 0 .. MaxFaults /\ MaxFaults \in Nat
    BY ChargesAssumption DEF TypeOK
<1>2. faults' = faults \/ faults' = faults + 1
    BY DEF Next, Create, Begin, Move, MoveRest, Update, Log, Die, FallDue, vars
<1> QED
    BY <1>1, <1>2

LEMMA Kept == Apart => (Spec => [](TypeOK /\ (faults = 0 => Inv)))
<1> SUFFICES ASSUME Apart PROVE Spec => [](TypeOK /\ (faults = 0 => Inv))
    OBVIOUS
<1> DEFINE Until == TypeOK /\ (faults = 0 => Inv)
<1>1. Init => Until
    BY InitTyped, InitInv
<1>2. Until /\ [Next]_vars => Until'
    BY StepTyped, StepInv, DeathsCounted
<1> QED
    BY <1>1, <1>2, PTL DEF Spec

\* "Funds in flight sit in the escrow holding account": with charges kept apart, and unless
\* a verb died, escrow holds of a charge nobody works on its amount while it is held or authorized, and
\* nothing otherwise, for any charges, amounts and processes.
THEOREM EscrowKept == Apart => (Spec => []EscrowExact)
<1>1. (faults = 0 => Inv) => EscrowExact
    BY DEF Inv, EscrowExact, Settled, InEscrow
<1> QED
    BY <1>1, Kept, PTL

\* With charges kept apart, and unless a verb died, the merchant has of a charge nobody works on what was captured
\* or released less what was refunded, or the installments paid so far to the satoshi.
THEOREM EarningsKept == Apart => (Spec => []EarningsExact)
<1>1. (faults = 0 => Inv) => EarningsExact
    BY DEF Inv, EarningsExact, Settled, Earned, BaseOf, Base, Earning
<1> QED
    BY <1>1, Kept, PTL

-----------------------------------------------------------------------------
(* What the customer pays. *)

\* A row with at most the amount in escrow and earned.
LEMMA RowWithin ==
    ASSUME NEW i \in Charges, NEW row \in ChargeRow, NEW k \in Nat, Apart, RowOK(i, row, k)
    PROVE  InEscrow(i, row) + Earned(i, row) =< Amount[i]
<1>0. /\ Amount[i] \in Nat \ {0} /\ row.captured \in Nat /\ row.refunded \in Nat
      /\ row.n \in Nat /\ row.paid \in Nat /\ row.captured =< Amount[i] /\ row.paid =< row.n
    BY ChargesAssumption DEF ChargeRow, RowOK
<1>1. CASE row.state \in Earning
    BY <1>0, <1>1 DEF InEscrow, Earned, BaseOf, Earning
<1>2. CASE row.state \notin Earning /\ row.n > 0
    <2>1. row.state \notin {"held", "authorized"}
        BY <1>0, <1>2 DEF RowOK, Apart
    <2>2. /\ Amount[i] * row.paid \in Nat /\ Amount[i] * row.n \in Nat
          /\ Amount[i] * row.paid =< Amount[i] * row.n
        BY <1>0, Z3
    <2>3. (Amount[i] * row.n) \div row.n = Amount[i]
        BY <1>0, <1>2, DivWhole
    <2>4. /\ (Amount[i] * row.paid) \div row.n \in Nat
          /\ (Amount[i] * row.paid) \div row.n =< Amount[i]
        BY <1>0, <1>2, <2>2, <2>3, DivMonotone
    <2> QED
        BY <1>0, <1>2, <2>1, <2>4 DEF InEscrow, Earned
<1>3. CASE row.state \notin Earning /\ row.n = 0
    BY <1>0, <1>3 DEF InEscrow, Earned
<1> QED
    BY <1>0, <1>1, <1>2, <1>3

\* What the customer has paid is in escrow or with the merchant, and at most the amount.
Within(i) ==
    /\ rows[i][Buyer] + rows[i][Escrow] + rows[i][Shop] = 0
    /\ rows[i][Escrow] + rows[i][Shop] =< Amount[i]

LEMMA StepWithin ==
    ASSUME Inv, Inv', Apart, \A i \in Charges : Within(i), [Next]_vars
    PROVE  \A i \in Charges : Within(i)'
<1>0. /\ TypeOK /\ TypeOK' /\ Handles \in [Clerks -> SUBSET Charges]
      /\ Buyer # Shop /\ Buyer # Escrow /\ Shop # Escrow
    BY ChargesAssumption DEF Inv
<1>1. ASSUME NEW c \in Clerks, Move(c) PROVE \A k \in Charges : Within(k)'
    <2>1. PICK j \in Job, i \in Charges, m \in Payment :
             /\ j = clerk[c] /\ i = j.id /\ m = j.move /\ j.pc = "move" /\ JobOK(c)
        <3>1. clerk[c] \in Job /\ clerk[c].pc = "move" /\ JobOK(c)
            BY <1>0, <1>1 DEF TypeOK, Inv, Move
        <3> QED
            BY <1>0, <3>1 DEF JobOK, Job
    <2>2. /\ rows' = [rows EXCEPT ![i][m.from] = @ - m.sat, ![i][m.to] = @ + m.sat]
          /\ clerk' = [clerk EXCEPT ![c].pc = IF m.rem > 0 THEN "rest" ELSE "update"]
        BY <1>1, <2>1 DEF Move
    <2>3. /\ rows \in [Charges -> [Parties -> Int]] /\ m.from \in Parties /\ m.to \in Parties
          /\ m.sat \in Nat /\ m.rem \in Nat /\ Amount[i] \in Nat
        BY <1>0, <2>1, ChargesAssumption DEF TypeOK, Payment
    <2>4. /\ \A p \in Parties : rows'[i][p] = rows[i][p] - (IF m.from = p THEN m.sat ELSE 0)
                                                + (IF m.to = p THEN m.sat ELSE 0)
          /\ \A k \in Charges \ {i} : rows'[k] = rows[k]
        BY <2>2, <2>3
    <2>5. /\ rows[i][Buyer] \in Int /\ rows[i][Escrow] \in Int /\ rows[i][Shop] \in Int
          /\ Buyer \in Parties /\ Escrow \in Parties /\ Shop \in Parties
        BY <2>3 DEF Parties
    <2>6. rows'[i][Buyer] + rows'[i][Escrow] + rows'[i][Shop] = 0
        BY <1>0, <2>3, <2>4, <2>5 DEF Within, Parties
    <2>7. rows'[i][Escrow] + rows'[i][Shop] =< Amount[i]
        <3>1. CASE m.from = Buyer
            <4>1. m.rem = 0
                BY <2>1, <3>1 DEF JobOK
            <4>2. clerk'[c].pc = "update" /\ clerk'[c].id = i
                BY <1>0, <2>1, <2>2, <4>1 DEF TypeOK, Job
            <4> DEFINE w == Written(charge'[i], clerk'[c])
            <4>3. /\ RowOK(i, w, plans'[i])
                  /\ rows'[i][Escrow] + EscrowAhead(clerk'[c]) = InEscrow(i, w)
                  /\ rows'[i][Shop] + ShopAhead(clerk'[c]) = Earned(i, w)
                BY <4>2 DEF Inv, JobOK, Working
            <4>4. EscrowAhead(clerk'[c]) = 0 /\ ShopAhead(clerk'[c]) = 0
                BY <4>2 DEF EscrowAhead, ShopAhead
            <4>5. rows'[i][Escrow] \in Int /\ rows'[i][Shop] \in Int
                BY <1>0, <2>5 DEF TypeOK
            <4>6. w \in ChargeRow /\ plans'[i] \in Nat
                <5>1. /\ charge'[i] \in ChargeRow /\ clerk'[c] \in Job
                      /\ plans'[i] \in 0 .. MaxPlans
                    BY <1>0 DEF TypeOK
                <5> QED
                    BY <5>1, WrittenTyped, ChargesAssumption
            <4> HIDE DEF w
            <4> QED
                <5>1. InEscrow(i, w) + Earned(i, w) =< Amount[i]
                    BY <2>1, <4>3, <4>6, RowWithin
                <5> QED
                    BY <4>3, <4>4, <4>5, <5>1
        <3>2. CASE m.from # Buyer
            BY <1>0, <2>1, <2>3, <2>4, <2>5, <3>2 DEF Within, Parties
        <3> QED
            BY <3>1, <3>2
    <2> QED
        BY <2>4, <2>6, <2>7 DEF Within
<1>2. ASSUME NEW c \in Clerks, MoveRest(c) PROVE \A k \in Charges : Within(k)'
    <2>1. PICK i \in Charges, rem \in Nat : i = clerk[c].id /\ rem = clerk[c].move.rem
        <3>1. clerk[c] \in Job /\ clerk[c].pc = "rest" /\ JobOK(c)
            BY <1>0, <1>2 DEF TypeOK, Inv, MoveRest
        <3> QED
            BY <1>0, <3>1 DEF JobOK, Job, Payment
    <2>2. rows' = [rows EXCEPT ![i][Escrow] = @ - rem, ![i][Buyer] = @ + rem]
        BY <1>2, <2>1 DEF MoveRest
    <2>3. /\ rows \in [Charges -> [Parties -> Int]] /\ Amount[i] \in Nat
          /\ Buyer \in Parties /\ Escrow \in Parties /\ Shop \in Parties
        BY <1>0, ChargesAssumption DEF TypeOK, Parties
    <2>4. /\ rows'[i][Escrow] = rows[i][Escrow] - rem /\ rows'[i][Shop] = rows[i][Shop]
          /\ rows'[i][Buyer] = rows[i][Buyer] + rem
          /\ \A k \in Charges \ {i} : rows'[k] = rows[k]
        BY <1>0, <2>1, <2>2, <2>3
    <2> QED
        BY <2>1, <2>3, <2>4 DEF Within
<1>3. CASE rows' = rows
    BY <1>3 DEF Within
<1> QED
    BY <1>1, <1>2, <1>3
    DEF Next, Create, Begin, Update, Log, Die, FallDue, vars

\* "One invoice amortised into N partial payments" that "sum to exactly amount": with
\* charges kept apart, and unless a verb died, a customer never pays more for a charge than its amount, not even
\* between two statements of a verb.
THEOREM OverchargeExcluded == Apart => (Spec => []NeverOvercharged)
<1> SUFFICES ASSUME Apart PROVE Spec => []NeverOvercharged
    OBVIOUS
<1> DEFINE All == \A i \in Charges : Within(i)
           Until == TypeOK /\ (faults = 0 => Inv)
           AllUntil == faults = 0 => All
<1>1. Init => AllUntil
    BY ChargesAssumption DEF Init, Within, Parties
<1>2. AllUntil /\ Until /\ Until' /\ [Next]_vars => AllUntil'
    <2> SUFFICES ASSUME AllUntil, Until, Until', [Next]_vars, faults' = 0 PROVE All'
        OBVIOUS
    <2>1. faults = 0
        BY DeathsCounted
    <2> QED
        BY <2>1, StepWithin
<1>3. Until /\ AllUntil => NeverOvercharged
    <2> SUFFICES ASSUME Inv, All, NEW i \in Charges PROVE 0 - rows[i][Buyer] =< Amount[i]
        BY DEF NeverOvercharged
    <2>1. /\ rows[i][Buyer] \in Int /\ rows[i][Escrow] \in Int /\ rows[i][Shop] \in Int
          /\ Amount[i] \in Nat
        BY ChargesAssumption DEF Inv, TypeOK, Parties
    <2> QED
        BY <2>1 DEF Within
<1>4. Spec => []Until
    BY Kept
<1> HIDE DEF Until, AllUntil
<1> QED
    BY <1>1, <1>2, <1>3, <1>4, PTL DEF Spec

-----------------------------------------------------------------------------
(* The balances of the customer and the merchant. *)

Holders == {Buyer, Shop}

\* What a verb is about to take from the customer or the merchant is there.
DebitCovered(c, p) ==
    clerk[c].pc = "move" /\ clerk[c].move.from = p => Balance(p) >= clerk[c].move.sat

SolventInv ==
    /\ TypeOK
    /\ \A c \in Clerks : clerk[c].pc # "idle" => clerk[c].id \in Charges
    /\ \A c \in Clerks, p \in Holders : DebitCovered(c, p)
    /\ NeverOverdrawn

\* A balance is the opening one and the sum of the party's rows, one per charge.
LEMMA BalanceSum ==
    ASSUME TypeOK, IsFiniteSet(Charges), NEW p \in Parties
    PROVE  /\ SumFunctionOnSet([i \in Charges |-> rows[i][p]], Charges) \in Int
           /\ Balance(p) = (IF p = Buyer THEN Funds ELSE 0)
                              + SumFunctionOnSet([i \in Charges |-> rows[i][p]], Charges)
           /\ Balance(p) \in Int
<1> DEFINE own == [i \in Charges |-> rows[i][p]]
<1>1. \A i \in Charges : own[i] \in Int
    BY DEF TypeOK
<1>2. SumFunction(own) = SumFunctionOnSet(own, Charges)
    BY DEF SumFunction
<1> HIDE DEF own
<1>3. SumFunctionOnSet(own, Charges) \in Int
    BY <1>1, SumInt
<1> QED
    BY <1>2, <1>3, ChargesAssumption DEF Balance, own

\* It follows a change of the rows of one charge.
LEMMA BalanceChange ==
    ASSUME TypeOK, TypeOK', IsFiniteSet(Charges), NEW p \in Parties, NEW i \in Charges,
           \A k \in Charges \ {i} : rows'[k][p] = rows[k][p]
    PROVE  /\ Balance(p) \in Int /\ Balance(p)' \in Int
           /\ Balance(p)' = Balance(p) - rows[i][p] + rows'[i][p]
<1> DEFINE own == [k \in Charges |-> rows[k][p]]
           now == [k \in Charges |-> rows'[k][p]]
<1>1. /\ \A k \in Charges : own[k] \in Int /\ now[k] \in Int
      /\ \A k \in Charges \ {i} : now[k] = own[k]
      /\ own[i] = rows[i][p] /\ now[i] = rows'[i][p]
    BY DEF TypeOK
<1>2. SumFunction(own) = SumFunctionOnSet(own, Charges) /\ SumFunction(now) = SumFunctionOnSet(now, Charges)
    BY DEF SumFunction
<1>3. Balance(p)' = (IF p = Buyer THEN Funds ELSE 0) + SumFunction(now)
    BY DEF Balance
<1>4. Balance(p) = (IF p = Buyer THEN Funds ELSE 0) + SumFunction(own)
    BY DEF Balance
<1> HIDE DEF own, now
<1>5. SumFunctionOnSet(now, Charges) = SumFunctionOnSet(own, Charges) - own[i] + now[i]
    <2>1. \A k \in Charges : own[k] \in Int /\ now[k] \in Int
        BY <1>1
    <2>2. \A k \in Charges \ {i} : now[k] = own[k]
        BY <1>1
    <2> QED
        BY <2>1, <2>2, SumChange
<1>6. SumFunctionOnSet(own, Charges) \in Int /\ SumFunctionOnSet(now, Charges) \in Int
    BY <1>1, SumInt
<1>7. own[i] \in Int /\ now[i] \in Int
    BY <1>1
<1> QED
    BY <1>1, <1>2, <1>3, <1>4, <1>5, <1>6, <1>7, ChargesAssumption

\* The verb whose move commits is the only one about to take from that party.
LEMMA MoveSolvent ==
    ASSUME SolventInv, OneDebitAtATime, TypeOK', IsFiniteSet(Charges), NEW c \in Clerks, Move(c)
    PROVE  SolventInv'
<1> DEFINE j == clerk[c]
           i == j.id
           m == j.move
<1>0. /\ TypeOK /\ j \in Job /\ j.pc = "move" /\ i \in Charges /\ \A p \in Holders : DebitCovered(c, p)
      /\ Buyer # Escrow /\ Shop # Escrow
    BY ChargesAssumption DEF SolventInv, Move, TypeOK
<1>1. m.from \in Parties /\ m.to \in Parties /\ m.sat \in Nat
    BY <1>0 DEF Job, Payment
<1>2. /\ rows' = [rows EXCEPT ![i][m.from] = @ - m.sat, ![i][m.to] = @ + m.sat]
      /\ clerk' = [clerk EXCEPT ![c].pc = IF m.rem > 0 THEN "rest" ELSE "update"]
    BY DEF Move
<1>3. /\ \A p \in Parties : rows'[i][p] = rows[i][p] - (IF m.from = p THEN m.sat ELSE 0)
                                            + (IF m.to = p THEN m.sat ELSE 0)
      /\ \A k \in Charges \ {i} : rows'[k] = rows[k]
      /\ \A p \in Parties : rows[i][p] \in Int
    <2>1. rows \in [Charges -> [Parties -> Int]]
        BY <1>0 DEF TypeOK
    <2> HIDE DEF i, m
    <2> QED
        BY <1>0, <1>1, <1>2, <2>1
<1>4. \A p \in Parties : /\ Balance(p) \in Int /\ Balance(p)' \in Int
                         /\ p # m.from => Balance(p)' >= Balance(p)
                         /\ Balance(p)' >= Balance(p) - m.sat
    <2> SUFFICES ASSUME NEW p \in Parties
                 PROVE  /\ Balance(p) \in Int /\ Balance(p)' \in Int
                        /\ p # m.from => Balance(p)' >= Balance(p)
                        /\ Balance(p)' >= Balance(p) - m.sat
        OBVIOUS
    <2>1. /\ Balance(p) \in Int /\ Balance(p)' \in Int
          /\ Balance(p)' = Balance(p) - rows[i][p] + rows'[i][p]
        BY <1>0, <1>3, BalanceChange
    <2> QED
        BY <1>1, <1>3, <2>1
<1>5. clerk'[c].pc \in {"rest", "update"} /\ \A d \in Clerks \ {c} : clerk'[d] = clerk[d]
    BY <1>0, <1>2 DEF TypeOK, Job
<1>6. \A d \in Clerks : clerk'[d].id = clerk[d].id
    BY <1>0, <1>2 DEF TypeOK, Job
<1>7. \A d \in Clerks, p \in Holders : DebitCovered(d, p)'
    <2> SUFFICES ASSUME NEW d \in Clerks, NEW p \in Holders,
                        clerk'[d].pc = "move", clerk'[d].move.from = p
                 PROVE  Balance(p)' >= clerk'[d].move.sat
        BY DEF DebitCovered
    <2>1. d # c /\ clerk'[d] = clerk[d]
        BY <1>5
    <2>2. p # m.from /\ DebitCovered(d, p)
        BY <1>0, <2>1 DEF OneDebitAtATime, SolventInv, Holders
    <2>3. p \in Parties /\ clerk[d].move.sat \in Nat
        BY <1>0 DEF TypeOK, Job, Payment, Holders, Parties
    <2> QED
        BY <1>4, <2>1, <2>2, <2>3 DEF DebitCovered
<1>8. NeverOverdrawn'
    <2> SUFFICES ASSUME NEW p \in Holders PROVE Balance(p)' >= 0
        BY DEF NeverOverdrawn, Holders
    <2>1. p \in Parties /\ p # Escrow /\ Balance(p) >= 0
        BY <1>0 DEF Parties, Holders, SolventInv, NeverOverdrawn
    <2>2. CASE p = m.from
        BY <1>0, <1>1, <1>4, <2>1, <2>2 DEF DebitCovered
    <2>3. CASE p # m.from
        BY <1>4, <2>1, <2>3
    <2> QED
        BY <2>2, <2>3
<1>9. \A d \in Clerks : clerk'[d].pc # "idle" => clerk'[d].id \in Charges
    <2>1. \A d \in Clerks \ {c} : clerk[d].pc # "idle" => clerk[d].id \in Charges
        BY DEF SolventInv
    <2>2. clerk'[c].id = i
        BY <1>6
    <2> QED
        BY <1>0, <1>5, <2>1, <2>2
<1> QED
    BY <1>7, <1>8, <1>9 DEF SolventInv

\* The remainder of a capture leaves the escrow.
LEMMA MoveRestSolvent ==
    ASSUME SolventInv, TypeOK', IsFiniteSet(Charges), NEW c \in Clerks, MoveRest(c)
    PROVE  SolventInv'
<1> DEFINE j == clerk[c]
           i == j.id
           rem == j.move.rem
<1>0. /\ TypeOK /\ j \in Job /\ j.pc = "rest" /\ i \in Charges /\ rem \in Nat
      /\ Buyer # Escrow /\ Shop # Escrow /\ Buyer # Shop
    BY ChargesAssumption DEF SolventInv, MoveRest, TypeOK, Job, Payment
<1>1. /\ rows' = [rows EXCEPT ![i][Escrow] = @ - rem, ![i][Buyer] = @ + rem]
      /\ clerk' = [clerk EXCEPT ![c].pc = "update"]
    BY DEF MoveRest
<1>2. /\ \A p \in Holders : p \in Parties /\ rows[i][p] \in Int
      /\ rows'[i][Buyer] = rows[i][Buyer] + rem /\ rows'[i][Shop] = rows[i][Shop]
      /\ \A k \in Charges \ {i} : rows'[k] = rows[k]
    <2>1. rows \in [Charges -> [Parties -> Int]]
        BY <1>0 DEF TypeOK
    <2>2. Buyer \in Parties /\ Shop \in Parties /\ Escrow \in Parties
        BY DEF Parties
    <2> HIDE DEF i, rem
    <2> QED
        BY <1>0, <1>1, <2>1, <2>2 DEF Holders
<1>3. \A p \in Holders : /\ Balance(p) \in Int /\ Balance(p)' \in Int
                               /\ Balance(p)' >= Balance(p)
    <2> SUFFICES ASSUME NEW p \in Holders
                 PROVE  Balance(p) \in Int /\ Balance(p)' \in Int /\ Balance(p)' >= Balance(p)
        OBVIOUS
    <2>1. /\ Balance(p) \in Int /\ Balance(p)' \in Int
          /\ Balance(p)' = Balance(p) - rows[i][p] + rows'[i][p]
        BY <1>0, <1>2, BalanceChange
    <2> QED
        BY <1>0, <1>2, <2>1 DEF Holders
<1>4. clerk'[c].pc = "update" /\ \A d \in Clerks \ {c} : clerk'[d] = clerk[d]
    BY <1>0, <1>1 DEF TypeOK, Job
<1>5. \A d \in Clerks : clerk'[d].id = clerk[d].id
    BY <1>0, <1>1 DEF TypeOK, Job
<1>6. \A d \in Clerks, p \in Holders : DebitCovered(d, p)'
    <2> SUFFICES ASSUME NEW d \in Clerks, NEW p \in Holders,
                        clerk'[d].pc = "move", clerk'[d].move.from = p
                 PROVE  Balance(p)' >= clerk'[d].move.sat
        BY DEF DebitCovered
    <2>1. clerk'[d] = clerk[d] /\ DebitCovered(d, p)
        BY <1>4 DEF SolventInv
    <2>2. clerk[d].move.sat \in Nat
        BY <1>0, <2>1 DEF TypeOK, Job, Payment, Parties
    <2> QED
        BY <1>3, <2>1, <2>2 DEF DebitCovered
<1>7. NeverOverdrawn'
    BY <1>3 DEF NeverOverdrawn, SolventInv, Holders
<1>8. \A d \in Clerks : clerk'[d].pc # "idle" => clerk'[d].id \in Charges
    <2>1. \A d \in Clerks \ {c} : clerk[d].pc # "idle" => clerk[d].id \in Charges
        BY DEF SolventInv
    <2>2. clerk'[c].id = i
        BY <1>5
    <2> QED
        BY <1>0, <1>4, <2>1, <2>2
<1> QED
    BY <1>6, <1>7, <1>8 DEF SolventInv

\* A verb that goes on found the balance it is about to take.
LEMMA BeginSolvent ==
    ASSUME SolventInv, TypeOK', NEW c \in Clerks, NEW i \in Charges, NEW op \in Op,
           NEW x \in 0 .. Largest, Begin(c, op, i, x), IsFiniteSet(Charges)
    PROVE  SolventInv'
<1>0. TypeOK /\ Legal(op, i, x)
    BY DEF SolventInv, Begin
<1>1. \A p \in Parties : Balance(p)' = Balance(p)
    BY DEF Begin, Balance
<1>2. clerk' = [clerk EXCEPT ![c] = NewJob(op, i, x)]
    BY DEF Begin, NewJob
<1>3. /\ NewJob(op, i, x).pc = IF op \in {"installments", "dun"} THEN "update" ELSE "move"
      /\ NewJob(op, i, x).id = i /\ NewJob(op, i, x).move = Transfer(op, i, x)
    BY DEF NewJob
<1>4. ASSUME op \notin {"installments", "dun"}, Transfer(op, i, x).from # Escrow
      PROVE  Balance(Transfer(op, i, x).from) >= Transfer(op, i, x).sat
    <2>1. /\ Balance(Buyer) \in Int /\ Balance(Shop) \in Int
          /\ Amount[i] \in Int /\ x \in Int
        BY <1>0, BalanceSum, ChargesAssumption DEF Parties
    <2>2. CASE op \in {"hold", "authorize"}
        <3>1. Transfer(op, i, x).sat = Amount[i] /\ Transfer(op, i, x).from = Buyer
            BY <2>2 DEF Transfer, Pays
        <3>2. Balance(Buyer) - Amount[i] >= 0
            BY <1>0, <2>2 DEF Legal, DebitOK
        <3> QED
            BY <2>1, <3>1, <3>2
    <2>3. CASE op = "refund"
        BY <1>0, <2>1, <2>3 DEF Legal, DebitOK, Transfer, Pays
    <2>4. CASE op = "pay-installment"
        <3>1. Transfer(op, i, x) \in Payment
            BY <1>0, JobTyped
        <3>2. Transfer(op, i, x).sat = Partial(i) /\ Transfer(op, i, x).from = Buyer
            BY <2>4 DEF Transfer, Pays
        <3>3. Balance(Buyer) - Partial(i) >= 0 /\ Partial(i) \in Nat
            BY <1>0, <2>4, <3>1, <3>2 DEF Legal, DebitOK, Payment
        <3> QED
            BY <2>1, <3>2, <3>3
    <2>5. CASE op \in {"release", "capture", "void"}
        BY <1>4, <2>5 DEF Transfer, Pays
    <2> QED
        BY <1>4, <2>2, <2>3, <2>4, <2>5 DEF Op
<1>5. clerk'[c] = NewJob(op, i, x) /\ \A d \in Clerks \ {c} : clerk'[d] = clerk[d]
    BY <1>0, <1>2 DEF TypeOK
<1>6. \A d \in Clerks, p \in Holders : DebitCovered(d, p)'
    <2> SUFFICES ASSUME NEW d \in Clerks, NEW p \in Holders,
                        clerk'[d].pc = "move", clerk'[d].move.from = p
                 PROVE  Balance(p)' >= clerk'[d].move.sat
        BY DEF DebitCovered
    <2>1. p \in Parties /\ p # Escrow
        BY ChargesAssumption DEF Holders, Parties
    <2>2. CASE d = c
        BY <1>1, <1>3, <1>4, <1>5, <2>1, <2>2
    <2>3. CASE d # c
        BY <1>1, <1>5, <2>1, <2>3 DEF SolventInv, DebitCovered
    <2> QED
        BY <2>2, <2>3
<1>7. NeverOverdrawn'
    BY <1>1 DEF NeverOverdrawn, SolventInv, Parties
<1>8. \A d \in Clerks : clerk'[d].pc # "idle" => clerk'[d].id \in Charges
    BY <1>3, <1>5 DEF SolventInv
<1> QED
    BY <1>6, <1>7, <1>8 DEF SolventInv

LEMMA SolventStep ==
    ASSUME SolventInv, OneDebitAtATime, [Next]_vars, IsFiniteSet(Charges)
    PROVE  SolventInv'
<1>0. TypeOK /\ TypeOK' /\ \A c \in Clerks : clerk[c] \in Job
    BY StepTyped DEF SolventInv, TypeOK
\* A step that leaves the rows alone and starts no money move.
<1>1. ASSUME rows' = rows,
             \A c \in Clerks : \/ clerk'[c] = clerk[c]
                               \/ clerk'[c].pc = "idle"
                               \/ clerk'[c].pc = "log" /\ clerk'[c].id \in Charges
      PROVE  SolventInv'
    <2>1. \A p \in Parties : Balance(p)' = Balance(p)
        BY <1>1 DEF Balance
    <2>2. NeverOverdrawn'
        BY <2>1 DEF NeverOverdrawn, SolventInv, Parties
    <2>3. \A c \in Clerks, p \in Holders : DebitCovered(c, p)'
        <3> SUFFICES ASSUME NEW c \in Clerks, NEW p \in Holders,
                            clerk'[c].pc = "move", clerk'[c].move.from = p
                     PROVE  Balance(p)' >= clerk'[c].move.sat
            BY DEF DebitCovered
        <3>1. clerk'[c] = clerk[c] /\ p \in Parties
            BY <1>1 DEF Holders, Parties
        <3> QED
            BY <2>1, <3>1 DEF SolventInv, DebitCovered
    <2>4. \A c \in Clerks : clerk'[c].pc # "idle" => clerk'[c].id \in Charges
        BY <1>1 DEF SolventInv
    <2> QED
        BY <1>0, <2>2, <2>3, <2>4 DEF SolventInv
<1>2. ASSUME NEW c \in Clerks, NEW i \in Charges, Create(c, i) PROVE SolventInv'
    <2>1. clerk' = [clerk EXCEPT ![c] = [Idle EXCEPT !.pc = "log", !.id = i, !.state = "issued"]]
        BY <1>2 DEF Create
    <2> QED
        BY <1>0, <1>1, <1>2, <2>1 DEF Create, TypeOK, Idle
<1>3. ASSUME NEW c \in Clerks, Update(c) PROVE SolventInv'
    <2>1. clerk[c].id \in Charges
        BY <1>3 DEF Update, SolventInv
    <2>2. clerk' = [clerk EXCEPT ![c] = [Idle EXCEPT !.pc = "log", !.id = clerk[c].id,
                                                     !.state = clerk[c].state]]
        BY <1>3 DEF Update
    <2> QED
        BY <1>0, <1>1, <1>3, <2>1, <2>2 DEF Update, TypeOK, Idle
<1>4. ASSUME NEW c \in Clerks, Log(c) \/ Die(c) PROVE SolventInv'
    <2>1. clerk' = [clerk EXCEPT ![c] = Idle] /\ rows' = rows
        BY <1>4 DEF Log, Die
    <2> QED
        BY <1>0, <1>1, <2>1 DEF TypeOK, Idle
<1>5. CASE UNCHANGED << rows, clerk >>
    BY <1>1, <1>5
<1> QED
    BY <1>0, <1>2, <1>3, <1>4, <1>5, MoveSolvent, MoveRestSolvent, BeginSolvent
    DEF Next, FallDue, vars

\* For any charges, amounts and processes, and however verbs die: as long as no two of
\* them are about to take from the customer, or from the merchant, at once, neither is
\* ever in debt.
THEOREM ExclusiveDebitsSolvent ==
    IsFiniteSet(Charges) => (Spec => ExclusiveDebitsStaySolvent)
<1> SUFFICES ASSUME IsFiniteSet(Charges) PROVE Spec => ExclusiveDebitsStaySolvent
    OBVIOUS
<1>1. Init => SolventInv
    <2> SUFFICES ASSUME Init PROVE SolventInv
        OBVIOUS
    <2>0. TypeOK /\ \A c \in Clerks : clerk[c].pc = "idle"
        BY InitTyped DEF Init, Idle
    <2>1. \A p \in Parties : Balance(p) >= 0
        <3> SUFFICES ASSUME NEW p \in Parties PROVE Balance(p) >= 0
            OBVIOUS
        <3> DEFINE own == [i \in Charges |-> rows[i][p]]
        <3>1. \A i \in Charges : own[i] = 0
            BY DEF Init
        <3>2. Balance(p) = (IF p = Buyer THEN Funds ELSE 0) + SumFunctionOnSet(own, Charges)
            BY <2>0, BalanceSum
        <3> HIDE DEF own
        <3>3. SumFunctionOnSet(own, Charges) = 0
            BY <3>1, SumZero
        <3> QED
            BY <3>2, <3>3, ChargesAssumption
    <2> QED
        BY <2>0, <2>1 DEF SolventInv, DebitCovered, NeverOverdrawn, Parties
<1>2. SolventInv /\ OneDebitAtATime /\ [Next]_vars => SolventInv'
    BY SolventStep
<1>3. SolventInv => NeverOverdrawn
    BY DEF SolventInv
<1> QED
    BY <1>1, <1>2, <1>3, PTL DEF Spec, ExclusiveDebitsStaySolvent
=============================================================================
