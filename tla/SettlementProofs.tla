--------------------------- MODULE SettlementProofs ---------------------------
(***************************************************************************)
(* Theorems about Settlement, for any accounts, hashes, processes, bounds  *)
(* and any mix of verbs.                                                   *)
(***************************************************************************)
EXTENDS Settlement, Sums

-----------------------------------------------------------------------------
(* Facts about rows. *)

LEMMA WithRowType ==
    ASSUME NEW H, NEW rows \in [H -> [Accounts -> Nat]], NEW h \in H, NEW a \in Accounts
    PROVE  /\ WithRow(rows, h, a) \in [H -> [Accounts -> Nat]]
           /\ \A k \in H, b \in Accounts :
                 WithRow(rows, h, a)[k][b] = IF k = h /\ b = a THEN rows[k][b] + 1
                                             ELSE rows[k][b]
BY DEF WithRow

LEMMA CommitOuts ==
    ASSUME NEW rows \in [Bolts -> [Accounts -> Nat]], NEW outs \in SUBSET Bolts,
           NEW new, new = [h \in Bolts |-> new[h]],
           \A h \in Bolts : new[h] = IF h \in outs THEN [rows[h] EXCEPT ![Others] = @ + 1]
                                    ELSE rows[h]
    PROVE  /\ new \in [Bolts -> [Accounts -> Nat]]
           /\ \A k \in Bolts, b \in Accounts :
                 new[k][b] = IF k \in outs /\ b = Others THEN rows[k][b] + 1 ELSE rows[k][b]
<1>1. Others \in Accounts
    BY DEF Accounts
<1>2. ASSUME NEW k \in Bolts
      PROVE  /\ new[k] \in [Accounts -> Nat]
             /\ \A b \in Accounts :
                  new[k][b] = IF k \in outs /\ b = Others THEN rows[k][b] + 1 ELSE rows[k][b]
    <2>1. rows[k] \in [Accounts -> Nat]
        OBVIOUS
    <2>2. CASE k \in outs
        <3>1. new[k] = [rows[k] EXCEPT ![Others] = @ + 1]
            BY <2>2
        <3> QED
            BY <2>1, <2>2, <3>1, <1>1
    <2>3. CASE k \notin outs
        <3>1. new[k] = rows[k]
            BY <2>3
        <3> QED
            BY <2>1, <2>3, <3>1
    <2> QED
        BY <2>2, <2>3
<1>3. new \in [Bolts -> [Accounts -> Nat]]
    BY <1>2
<1> QED
    BY <1>2, <1>3

LEMMA CommitReceipt ==
    ASSUME NEW row \in [Accounts -> Nat], NEW a \in Accounts \cup {Nobody},
           NEW new, new = IF a = Nobody THEN row ELSE [row EXCEPT ![a] = @ + 1]
    PROVE  /\ new \in [Accounts -> Nat]
           /\ \A b \in Accounts : new[b] = IF a = b THEN row[b] + 1 ELSE row[b]
<1>1. Nobody \notin Accounts
    BY SettlementAssumption
<1>2. CASE a # Nobody
    <2>1. new = [row EXCEPT ![a] = @ + 1] /\ a \in Accounts
        BY <1>2
    <2> QED
        BY <2>1
<1>3. CASE a = Nobody
    BY <1>1, <1>3
<1> QED
    BY <1>2, <1>3

-----------------------------------------------------------------------------
(* The inductive invariant: what a process holds agrees with the node. *)

\* A busy clerk has an account and a hash of the kind its verb deals with, and
\* one that learnt of a payment's success is right about it.
ClerkOK(c, q, p) ==
    /\ q.pc # "idle" => q.user \in Users
    /\ q.pc \in {"asked", "paying", "paid", "principal"} => q.hash \in Bolts
    /\ q.pc \in {"asked", "paying", "paid"} => Verb[c] \in PayVerbs
    /\ q.pc = "minted" => q.hash \in Notes
    /\ q.pc \in {"paid", "principal"} /\ Verb[c] # "swap" => p[q.hash] = "complete"
    /\ q.pc = "principal" => Verb[c] = "cli"
ClerkInv == \A c \in Clerks : ClerkOK(c, clerk[c], pay)

\* What a pass has listed has settled, and an idle pass holds nothing.
PassOK(q, p, i) ==
    /\ \A h \in q.pays \cup q.outs : p[h] = "complete"
    /\ \A n \in Notes : n \in q.invs \/ q.owner[n] # Nobody => i[n] = "paid"
    /\ q.pc = "idle" => q = IdlePass
PassInv == \A r \in Passes : PassOK(pass[r], pay, inv)

Inv == TypeOK /\ ClerkInv /\ PassInv /\ NoPhantom

\* What has settled stays settled.
Lasting == /\ \A h \in Bolts : pay[h] = "complete" => pay'[h] = "complete"
           /\ \A n \in Notes : inv[n] = "paid" => inv'[n] = "paid"

LEMMA IdleClerkOK == IdleClerk \in ClerkState /\ \A c, p : ClerkOK(c, IdleClerk, p)
BY DEF IdleClerk, ClerkState, ClerkOK

LEMMA IdlePassOK == IdlePass \in PassState /\ \A p, i : PassOK(IdlePass, p, i)
BY DEF IdlePass, PassState, PassOK

\* One clerk moves.
LEMMA ClerkFrame ==
    ASSUME Inv, Lasting, NEW c \in Clerks, NEW q \in ClerkState, ClerkOK(c, q, pay'),
           clerk' = [clerk EXCEPT ![c] = q]
    PROVE  clerk' \in [Clerks -> ClerkState] /\ ClerkInv'
<1>1. clerk' \in [Clerks -> ClerkState]
    BY DEF Inv, TypeOK
<1>2. ASSUME NEW d \in Clerks PROVE ClerkOK(d, clerk'[d], pay')
    <2>1. CASE d = c
        <3>1. clerk'[d] = q
            BY <2>1 DEF Inv, TypeOK
        <3> QED
            BY <2>1, <3>1 DEF ClerkOK
    <2>2. CASE d # c
        <3>1. clerk'[d] = clerk[d]
            BY <2>2 DEF Inv, TypeOK
        <3>2. ClerkOK(d, clerk[d], pay)
            BY DEF Inv, ClerkInv
        <3> QED
            BY <3>1, <3>2 DEF ClerkOK, Lasting
    <2> QED
        BY <2>1, <2>2
<1> QED
    BY <1>1, <1>2 DEF ClerkInv

\* No clerk moves.
LEMMA ClerkStay ==
    ASSUME Inv, Lasting, clerk' = clerk
    PROVE  clerk' \in [Clerks -> ClerkState] /\ ClerkInv'
BY DEF Inv, TypeOK, ClerkInv, ClerkOK, Lasting

\* One pass moves.
LEMMA PassFrame ==
    ASSUME Inv, Lasting, NEW r \in Passes, NEW q \in PassState, PassOK(q, pay', inv'),
           pass' = [pass EXCEPT ![r] = q]
    PROVE  pass' \in [Passes -> PassState] /\ PassInv'
<1>1. pass' \in [Passes -> PassState]
    BY DEF Inv, TypeOK
<1>2. ASSUME NEW s \in Passes PROVE PassOK(pass'[s], pay', inv')
    <2>1. CASE s = r
        <3>1. pass'[s] = q
            BY <2>1 DEF Inv, TypeOK
        <3> QED
            BY <2>1, <3>1 DEF PassOK
    <2>2. CASE s # r
        <3>1. pass'[s] = pass[s] /\ pass[s] \in PassState
            BY <2>2 DEF Inv, TypeOK
        <3>2. PassOK(pass[s], pay, inv)
            BY DEF Inv, PassInv
        <3> QED
            BY <3>1, <3>2 DEF PassOK, Lasting, PassState
    <2> QED
        BY <2>1, <2>2
<1> QED
    BY <1>1, <1>2 DEF PassInv

\* No pass moves.
LEMMA PassStay ==
    ASSUME Inv, Lasting, pass' = pass
    PROVE  pass' \in [Passes -> PassState] /\ PassInv'
<1>1. ASSUME NEW s \in Passes PROVE PassOK(pass'[s], pay', inv')
    <2>1. pass[s] \in PassState /\ PassOK(pass[s], pay, inv)
        BY DEF Inv, TypeOK, PassInv
    <2> QED
        BY <2>1 DEF PassOK, Lasting, PassState
<1> QED
    BY <1>1 DEF Inv, TypeOK, PassInv

\* The rows do not move.
LEMMA RowsStay ==
    ASSUME Inv, Lasting, paidOut' = paidOut, received' = received
    PROVE  NoPhantom'
BY DEF Inv, NoPhantom, Lasting, HasRow

LEMMA InvInit == Init => Inv
<1> SUFFICES ASSUME Init PROVE Inv
    OBVIOUS
<1>1. \A H : NoRows(H) \in [H -> [Accounts -> Nat]] /\ \A h \in H : ~HasRow(NoRows(H), h)
    BY DEF NoRows, HasRow
<1>2. TypeOK
    <2>1. /\ NoRows(Bolts) \in [Bolts -> [Accounts -> Nat]]
          /\ NoRows(Notes) \in [Notes -> [Accounts -> Nat]]
        BY <1>1
    <2>2. 0 \in 0..MaxAsks /\ 0 \in 0..MaxFaults
        BY SettlementAssumption
    <2> QED
        BY <2>1, <2>2, IdleClerkOK, IdlePassOK DEF Init, TypeOK
<1>3. ClerkInv /\ PassInv
    BY IdleClerkOK, IdlePassOK DEF Init, ClerkInv, PassInv
<1>4. NoPhantom
    BY <1>1 DEF Init, NoPhantom
<1> QED
    BY <1>2, <1>3, <1>4 DEF Inv

-----------------------------------------------------------------------------
(* One lemma per group of actions. *)

LEMMA ClerkSteps ==
    ASSUME Inv, NEW c \in Clerks,
           \/ \E u \in Users, h \in Bolts : AskPay(c, u, h)
           \/ \E u \in Users, n \in Notes : AskMint(c, u, n)
           \/ Send(c) \/ LoseBook(c) \/ GiveUp(c)
    PROVE  Inv'
<1>0. clerk[c] \in ClerkState /\ ClerkOK(c, clerk[c], pay) /\ clerk \in [Clerks -> ClerkState]
    BY DEF Inv, TypeOK, ClerkInv
<1>1. /\ Lasting
      /\ pay' \in [Bolts -> {"open", "pending", "complete"}]
      /\ inv' \in [Notes -> {"none", "minted", "offered", "paid"}]
    <2>1. CASE Send(c)
        BY <2>1, <1>0 DEF Inv, TypeOK, Send, Lasting, ClerkOK
    <2>2. CASE \E u \in Users, n \in Notes : AskMint(c, u, n)
        BY <2>2 DEF Inv, TypeOK, AskMint, Lasting
    <2>3. CASE \/ \E u \in Users, h \in Bolts : AskPay(c, u, h)
               \/ LoseBook(c) \/ GiveUp(c)
        BY <2>3 DEF Inv, TypeOK, AskPay, LoseBook, GiveUp, Lasting, node
    <2> QED
        BY <2>1, <2>2, <2>3
<1>2. clerk' \in [Clerks -> ClerkState] /\ ClerkInv'
    <2>1. ASSUME NEW u \in Users, NEW h \in Bolts, AskPay(c, u, h)
          PROVE  clerk' \in [Clerks -> ClerkState] /\ ClerkInv'
        <3> DEFINE q == [pc |-> "asked", user |-> u, hash |-> h]
        <3>1. q \in ClerkState /\ ClerkOK(c, q, pay')
            BY <2>1 DEF AskPay, ClerkState, ClerkOK, Hashes
        <3>2. clerk' = [clerk EXCEPT ![c] = q]
            BY <2>1 DEF AskPay
        <3> HIDE DEF q
        <3> QED
            BY <1>1, <3>1, <3>2, ClerkFrame
    <2>2. ASSUME NEW u \in Users, NEW n \in Notes, AskMint(c, u, n)
          PROVE  clerk' \in [Clerks -> ClerkState] /\ ClerkInv'
        <3> DEFINE q == [pc |-> "minted", user |-> u, hash |-> n]
        <3>1. q \in ClerkState /\ ClerkOK(c, q, pay')
            BY DEF ClerkState, ClerkOK, Hashes
        <3>2. clerk' = [clerk EXCEPT ![c] = q]
            BY <2>2 DEF AskMint
        <3> HIDE DEF q
        <3> QED
            BY <1>1, <3>1, <3>2, ClerkFrame
    <2>3. CASE Send(c)
        <3> DEFINE v == IF pay[clerk[c].hash] = "complete" \/ Verb[c] = "swap" THEN "paid"
                        ELSE "paying"
                   q == [clerk[c] EXCEPT !.pc = v]
        <3>1. /\ clerk[c].pc = "asked" /\ clerk[c].user \in Users /\ clerk[c].hash \in Bolts
              /\ Verb[c] \in PayVerbs
            BY <2>3, <1>0 DEF Send, ClerkOK
        <3>2. q \in ClerkState
            BY <1>0 DEF ClerkState
        <3>3. q.pc = v /\ q.user = clerk[c].user /\ q.hash = clerk[c].hash
            BY <1>0 DEF ClerkState
        <3>4. ClerkOK(c, q, pay')
            BY <3>1, <3>3, <1>1 DEF ClerkOK, Lasting
        <3>5. clerk' = [clerk EXCEPT ![c] = q]
            BY <2>3 DEF Send
        <3> HIDE DEF q
        <3> QED
            BY <1>1, <3>2, <3>4, <3>5, ClerkFrame
    <2>4. CASE GiveUp(c)
        BY <2>4, <1>1, IdleClerkOK, ClerkFrame DEF GiveUp
    <2>5. CASE LoseBook(c)
        <3> DEFINE q == [clerk[c] EXCEPT !.pc = "principal"]
        <3>1. CASE clerk[c].pc = "paid" /\ Verb[c] = "cli"
            <4>1. q \in ClerkState /\ ClerkOK(c, q, pay')
                BY <3>1, <1>0, <1>1 DEF ClerkState, ClerkOK, Lasting
            <4>2. clerk' = [clerk EXCEPT ![c] = q]
                BY <2>5, <3>1 DEF LoseBook
            <4> HIDE DEF q
            <4> QED
                BY <1>1, <4>1, <4>2, ClerkFrame
        <3>2. CASE ~(clerk[c].pc = "paid" /\ Verb[c] = "cli")
            <4>1. clerk' = [clerk EXCEPT ![c] = IdleClerk]
                BY <2>5, <3>2 DEF LoseBook
            <4> QED
                BY <1>1, <4>1, IdleClerkOK, ClerkFrame
        <3> QED
            BY <3>1, <3>2
    <2> QED
        BY <2>1, <2>2, <2>3, <2>4, <2>5
<1>3. /\ UNCHANGED <<bill, marked, paidOut, feeRow, received, swapRow, pass>>
      /\ asks' \in 0..MaxAsks /\ faults' \in 0..MaxFaults
    BY SettlementAssumption DEF AskPay, AskMint, Send, LoseBook, GiveUp, ledger, Inv, TypeOK
<1>4. TypeOK'
    BY <1>1, <1>2, <1>3 DEF Inv, TypeOK
<1>5. PassInv' /\ NoPhantom'
    BY <1>1, <1>3, PassStay, RowsStay
<1> QED
    BY <1>2, <1>4, <1>5 DEF Inv

LEMMA BookingSteps ==
    ASSUME Inv, NEW c \in Clerks, Book(c) \/ BookFee(c)
    PROVE  Inv'
<1> DEFINE u == clerk[c].user
           h == clerk[c].hash
<1>0. clerk[c] \in ClerkState /\ ClerkOK(c, clerk[c], pay) /\ clerk \in [Clerks -> ClerkState]
    BY DEF Inv, TypeOK, ClerkInv
<1>1. u \in Users /\ h \in Bolts /\ u \in Accounts /\ clerk[c].pc \in {"paid", "principal"}
    BY <1>0 DEF Book, BookFee, ClerkOK, Accounts
<1>2. /\ UNCHANGED <<pay, inv, bill, marked, received, pass, asks, faults>>
      /\ Lasting
    BY DEF Book, BookFee, node, Lasting
<1>3. \A rows \in [Bolts -> [Accounts -> Nat]] :
         /\ WithRow(rows, h, u) \in [Bolts -> [Accounts -> Nat]]
         /\ \A k \in Bolts : HasRow(WithRow(rows, h, u), k) => k = h \/ HasRow(rows, k)
    <2> HIDE DEF u, h
    <2> TAKE rows \in [Bolts -> [Accounts -> Nat]]
    <2>1. WithRow(rows, h, u) \in [Bolts -> [Accounts -> Nat]]
        BY <1>1, WithRowType
    <2>2. \A k \in Bolts, b \in Accounts :
             WithRow(rows, h, u)[k][b] = IF k = h /\ b = u THEN rows[k][b] + 1 ELSE rows[k][b]
        BY <1>1, WithRowType
    <2>3. \A k \in Bolts : HasRow(WithRow(rows, h, u), k) => k = h \/ HasRow(rows, k)
        BY <2>2 DEF HasRow
    <2> QED
        BY <2>1, <2>3
<1>4. /\ paidOut' \in [Bolts -> [Accounts -> Nat]]
      /\ feeRow' \in [Bolts -> [Accounts -> Nat]]
      /\ swapRow' \in [Bolts -> [Accounts -> Nat]]
    <2>1. /\ paidOut' \in {paidOut, WithRow(paidOut, h, u)}
          /\ feeRow' \in {feeRow, WithRow(feeRow, h, u)}
          /\ swapRow' \in {swapRow, WithRow(swapRow, h, u)}
        BY DEF Book, BookFee
    <2> QED
        BY <2>1, <1>3 DEF Inv, TypeOK
<1>5. clerk' \in [Clerks -> ClerkState] /\ ClerkInv'
    <2> DEFINE q == [clerk[c] EXCEPT !.pc = "principal"]
    <2>1. CASE Book(c) /\ Verb[c] = "cli"
        <3>1. q \in ClerkState /\ ClerkOK(c, q, pay')
            BY <2>1, <1>0, <1>2 DEF ClerkState, ClerkOK, Lasting, Book
        <3>2. clerk' = [clerk EXCEPT ![c] = q]
            BY <2>1 DEF Book
        <3> HIDE DEF q
        <3> QED
            BY <1>2, <3>1, <3>2, ClerkFrame
    <2>2. CASE ~(Book(c) /\ Verb[c] = "cli")
        <3>1. clerk' = [clerk EXCEPT ![c] = IdleClerk]
            BY <2>2 DEF Book, BookFee
        <3> QED
            BY <1>2, <3>1, IdleClerkOK, ClerkFrame
    <2> QED
        BY <2>1, <2>2
<1>6. TypeOK'
    BY <1>2, <1>4, <1>5 DEF Inv, TypeOK
<1>7. PassInv'
    BY <1>2, PassStay
<1>8. NoPhantom'
    <2>1. CASE paidOut' = paidOut
        BY <2>1, <1>2, RowsStay
    <2>2. CASE paidOut' # paidOut
        <3>1. paidOut' = WithRow(paidOut, h, u) /\ Verb[c] # "swap"
            BY <2>2 DEF Book, BookFee
        <3>2. pay[h] = "complete"
            BY <1>0, <1>1, <3>1 DEF ClerkOK
        <3>3. \A k \in Bolts : HasRow(paidOut', k) => k = h \/ HasRow(paidOut, k)
            BY <3>1, <1>3 DEF Inv, TypeOK
        <3> QED
            BY <3>2, <3>3, <1>2 DEF Inv, NoPhantom, HasRow
    <2> QED
        BY <2>1, <2>2
<1> QED
    BY <1>5, <1>6, <1>7, <1>8 DEF Inv

LEMMA MintingSteps ==
    ASSUME Inv, NEW c \in Clerks, Store(c) \/ LoseStore(c)
    PROVE  Inv'
<1> DEFINE n == clerk[c].hash
<1>0. ClerkOK(c, clerk[c], pay)
    BY DEF Inv, ClerkInv
<1>1. clerk[c].user \in Users /\ n \in Notes
    BY <1>0 DEF Store, LoseStore, ClerkOK
<1>2. /\ UNCHANGED <<pay, marked, paidOut, feeRow, received, swapRow, pass, asks>>
      /\ faults' \in 0..MaxFaults
      /\ clerk' = [clerk EXCEPT ![c] = IdleClerk]
    BY SettlementAssumption DEF Store, LoseStore, ledger, Inv, TypeOK
<1>3. inv' = [inv EXCEPT ![n] = IF @ = "minted" THEN "offered" ELSE @]
    BY DEF Store, LoseStore, Offer
<1>4. inv' \in [Notes -> {"none", "minted", "offered", "paid"}] /\ Lasting
    <2> HIDE DEF n
    <2> QED
        BY <1>1, <1>2, <1>3 DEF Inv, TypeOK, Lasting
<1>5. bill' \in [Notes -> Users \cup {Nobody}]
    BY <1>1 DEF Store, LoseStore, Inv, TypeOK
<1>6. clerk' \in [Clerks -> ClerkState] /\ ClerkInv'
    BY <1>2, <1>4, IdleClerkOK, ClerkFrame
<1>7. TypeOK'
    BY <1>2, <1>4, <1>5, <1>6 DEF Inv, TypeOK
<1> QED
    BY <1>2, <1>4, <1>6, <1>7, PassStay, RowsStay DEF Inv

LEMMA NetworkSteps ==
    ASSUME Inv,
           \/ \E h \in Bolts : OtherPays(h) \/ Succeed(h) \/ Miscarry(h)
           \/ \E n \in Notes : OtherMints(n) \/ Arrive(n)
    PROVE  Inv'
<1>1. /\ Lasting
      /\ pay' \in [Bolts -> {"open", "pending", "complete"}]
      /\ inv' \in [Notes -> {"none", "minted", "offered", "paid"}]
    BY DEF OtherPays, Succeed, Miscarry, OtherMints, Arrive, Inv, TypeOK, Lasting
<1>2. UNCHANGED <<bill, marked, paidOut, feeRow, received, swapRow, pass, asks, faults>>
    BY DEF OtherPays, Succeed, Miscarry, OtherMints, Arrive, ledger
<1>3. clerk' \in [Clerks -> ClerkState] /\ ClerkInv'
    <2>1. CASE clerk' = clerk
        BY <1>1, <2>1, ClerkStay
    <2>2. ASSUME NEW h \in Bolts, Succeed(h)
          PROVE  clerk' \in [Clerks -> ClerkState] /\ ClerkInv'
        <3>1. ASSUME NEW c \in Clerks
              PROVE  clerk'[c] \in ClerkState /\ ClerkOK(c, clerk'[c], pay')
            <4>0. clerk[c] \in ClerkState /\ ClerkOK(c, clerk[c], pay)
                BY DEF Inv, TypeOK, ClerkInv
            <4>1. CASE c \in Waiting(h)
                <5>1. clerk'[c] = [clerk[c] EXCEPT !.pc = "paid"]
                    BY <2>2, <4>1 DEF Succeed
                <5>2. pay'[h] = "complete" /\ clerk[c].hash = h /\ clerk[c].pc = "paying"
                    BY <2>2, <4>1 DEF Succeed, Waiting, Inv, TypeOK
                <5> QED
                    BY <4>0, <5>1, <5>2 DEF ClerkState, ClerkOK
            <4>2. CASE c \notin Waiting(h)
                <5>1. clerk'[c] = clerk[c]
                    BY <2>2, <4>2 DEF Succeed
                <5> QED
                    BY <4>0, <5>1, <1>1 DEF ClerkOK, Lasting
            <4> QED
                BY <4>1, <4>2
        <3>2. clerk' \in [Clerks -> ClerkState]
            BY <2>2, <3>1 DEF Succeed
        <3> QED
            BY <3>1, <3>2 DEF ClerkInv
    <2>3. ASSUME NEW h \in Bolts, Miscarry(h)
          PROVE  clerk' \in [Clerks -> ClerkState] /\ ClerkInv'
        <3>1. ASSUME NEW c \in Clerks
              PROVE  clerk'[c] \in ClerkState /\ ClerkOK(c, clerk'[c], pay')
            <4>0. clerk[c] \in ClerkState /\ ClerkOK(c, clerk[c], pay)
                BY DEF Inv, TypeOK, ClerkInv
            <4>1. clerk'[c] = IdleClerk \/ clerk'[c] = clerk[c]
                BY <2>3 DEF Miscarry
            <4> QED
                BY <4>0, <4>1, <1>1, IdleClerkOK DEF ClerkOK, Lasting
        <3>2. clerk' \in [Clerks -> ClerkState]
            BY <2>3, <3>1 DEF Miscarry
        <3> QED
            BY <3>1, <3>2 DEF ClerkInv
    <2>4. \/ \E h \in Bolts : Succeed(h) \/ Miscarry(h)
          \/ clerk' = clerk
        BY DEF OtherPays, OtherMints, Arrive
    <2> QED
        BY <2>1, <2>2, <2>3, <2>4
<1>4. TypeOK'
    BY <1>1, <1>2, <1>3 DEF Inv, TypeOK
<1> QED
    BY <1>1, <1>2, <1>3, <1>4, PassStay, RowsStay DEF Inv

LEMMA PassSteps ==
    ASSUME Inv, NEW r \in Passes,
           \/ ListPays(r) \/ ListInvoices(r) \/ FailPass(r)
           \/ \E h \in Bolts : LookPay(r, h)
           \/ \E n \in Notes : LookInvoice(r, n)
    PROVE  Inv'
<1>0. pass[r] \in PassState /\ PassOK(pass[r], pay, inv)
    BY DEF Inv, TypeOK, PassInv
<1>1. /\ UNCHANGED <<pay, inv, bill, marked, paidOut, feeRow, received, swapRow, clerk, asks>>
      /\ faults' \in 0..MaxFaults
      /\ Lasting
    <2>1. UNCHANGED <<pay, inv, bill, marked, paidOut, feeRow, received, swapRow, clerk, asks>>
        BY DEF ListPays, ListInvoices, FailPass, LookPay, LookInvoice, node, ledger
    <2>2. faults' \in 0..MaxFaults
        <3>1. MaxFaults \in Nat /\ faults \in 0..MaxFaults
            BY SettlementAssumption DEF Inv, TypeOK
        <3>2. faults' = faults \/ (faults < MaxFaults /\ faults' = faults + 1)
            BY DEF ListPays, ListInvoices, FailPass, LookPay, LookInvoice
        <3> QED
            BY <3>1, <3>2
    <2> QED
        BY <2>1, <2>2 DEF Lasting
<1>2. pass' \in [Passes -> PassState] /\ PassInv'
    <2>1. CASE ListPays(r)
        <3> DEFINE q == [IdlePass EXCEPT !.pc = "pays", !.pays = {h \in Bolts : pay[h] = "complete"}]
        <3>1. q \in PassState /\ PassOK(q, pay', inv')
            BY <1>1 DEF IdlePass, PassState, PassOK
        <3>2. pass' = [pass EXCEPT ![r] = q]
            BY <2>1 DEF ListPays
        <3> HIDE DEF q
        <3> QED
            BY <1>1, <3>1, <3>2, PassFrame
    <2>2. CASE ListInvoices(r)
        <3> DEFINE q == [pass[r] EXCEPT !.pc = "looking", !.invs = {n \in Notes : inv[n] = "paid"}]
        <3>1. q \in PassState /\ PassOK(q, pay', inv')
            BY <1>0, <1>1 DEF PassState, PassOK
        <3>2. pass' = [pass EXCEPT ![r] = q]
            BY <2>2 DEF ListInvoices
        <3> HIDE DEF q
        <3> QED
            BY <1>1, <3>1, <3>2, PassFrame
    <2>3. CASE FailPass(r)
        BY <2>3, <1>1, IdlePassOK, PassFrame DEF FailPass
    <2>4. ASSUME NEW h \in Bolts, LookPay(r, h)
          PROVE  pass' \in [Passes -> PassState] /\ PassInv'
        <3> DEFINE more == IF AlreadyBooked(h) THEN pass[r].outs ELSE pass[r].outs \cup {h}
                   q == [pass[r] EXCEPT !.pays = @ \ {h}, !.outs = more]
        <3>1. more \in SUBSET Bolts /\ \A k \in more : pay[k] = "complete"
            BY <2>4, <1>0 DEF LookPay, PassState, PassOK
        <3>2. pass[r].pc # "idle"
            BY <2>4 DEF LookPay
        <3>3. pass' = [pass EXCEPT ![r] = q]
            BY <2>4 DEF LookPay
        <3> HIDE DEF more
        <3>4. q \in PassState /\ PassOK(q, pay', inv')
            BY <1>0, <1>1, <3>1, <3>2 DEF PassState, PassOK
        <3> HIDE DEF q
        <3> QED
            BY <1>1, <3>3, <3>4, PassFrame
    <2>5. ASSUME NEW n \in Notes, LookInvoice(r, n)
          PROVE  pass' \in [Passes -> PassState] /\ PassInv'
        <3> DEFINE more == IF AlreadyBooked(n) THEN pass[r].owner
                           ELSE [pass[r].owner EXCEPT ![n] = OwnerOf(n)]
                   q == [pass[r] EXCEPT !.invs = @ \ {n}, !.owner = more]
        <3>1. OwnerOf(n) \in Accounts
            BY DEF OwnerOf, Inv, TypeOK, Accounts
        <3>2. pass[r].pc # "idle" /\ inv[n] = "paid"
            BY <2>5, <1>0 DEF LookInvoice, PassOK
        <3>3. pass' = [pass EXCEPT ![r] = q]
            BY <2>5 DEF LookInvoice
        <3>4. /\ more \in [Notes -> Accounts \cup {Nobody}]
              /\ \A m \in Notes : more[m] # Nobody => m = n \/ pass[r].owner[m] # Nobody
            BY <1>0, <3>1 DEF PassState
        <3> HIDE DEF more
        <3>5. q \in PassState /\ PassOK(q, pay', inv')
            BY <1>0, <1>1, <3>2, <3>4 DEF PassState, PassOK
        <3> HIDE DEF q
        <3> QED
            BY <1>1, <3>3, <3>5, PassFrame
    <2> QED
        BY <2>1, <2>2, <2>3, <2>4, <2>5
<1>3. TypeOK'
    BY <1>1, <1>2 DEF Inv, TypeOK
<1> QED
    BY <1>1, <1>2, <1>3, ClerkStay, RowsStay DEF Inv

\* What a commit does to the rows.
LEMMA CommitEffect ==
    ASSUME Inv, NEW r \in Passes, Commit(r)
    PROVE  /\ paidOut' \in [Bolts -> [Accounts -> Nat]]
           /\ \A k \in Bolts, b \in Accounts :
                 paidOut'[k][b] = IF k \in pass[r].outs /\ b = Others THEN paidOut[k][b] + 1
                                  ELSE paidOut[k][b]
           /\ feeRow' \in [Bolts -> [Accounts -> Nat]]
           /\ received' \in [Notes -> [Accounts -> Nat]]
           /\ \A k \in Notes, b \in Accounts :
                 received'[k][b] = IF pass[r].owner[k] = b THEN received[k][b] + 1
                                   ELSE received[k][b]
<1> DEFINE outs == pass[r].outs
           owner == pass[r].owner
<1>1. outs \in SUBSET Bolts /\ owner \in [Notes -> Accounts \cup {Nobody}]
    BY DEF Inv, TypeOK, PassState
<1>2. /\ paidOut \in [Bolts -> [Accounts -> Nat]]
      /\ feeRow \in [Bolts -> [Accounts -> Nat]]
      /\ received \in [Notes -> [Accounts -> Nat]]
    BY DEF Inv, TypeOK
<1>3. /\ paidOut' = [h \in Bolts |-> paidOut'[h]]
      /\ feeRow' = [h \in Bolts |-> feeRow'[h]]
      /\ received' = [n \in Notes |-> received'[n]]
      /\ \A h \in Bolts :
            /\ paidOut'[h] = IF h \in outs THEN [paidOut[h] EXCEPT ![Others] = @ + 1]
                             ELSE paidOut[h]
            /\ feeRow'[h] = IF h \in outs THEN [feeRow[h] EXCEPT ![Others] = @ + 1]
                            ELSE feeRow[h]
      /\ \A n \in Notes :
            received'[n] = IF owner[n] = Nobody THEN received[n]
                           ELSE [received[n] EXCEPT ![owner[n]] = @ + 1]
    BY DEF Commit
<1>4. /\ paidOut' \in [Bolts -> [Accounts -> Nat]]
      /\ \A k \in Bolts, b \in Accounts :
            paidOut'[k][b] = IF k \in outs /\ b = Others THEN paidOut[k][b] + 1 ELSE paidOut[k][b]
    BY <1>1, <1>2, <1>3, CommitOuts
<1>5. feeRow' \in [Bolts -> [Accounts -> Nat]]
    BY <1>1, <1>2, <1>3, CommitOuts
<1>6. /\ received' \in [Notes -> [Accounts -> Nat]]
      /\ \A k \in Notes, b \in Accounts :
            received'[k][b] = IF owner[k] = b THEN received[k][b] + 1 ELSE received[k][b]
    <2>1. received' = [n \in Notes |-> received'[n]]
        BY <1>3
    <2>2. \A n \in Notes :
             received'[n] = IF owner[n] = Nobody THEN received[n]
                            ELSE [received[n] EXCEPT ![owner[n]] = @ + 1]
        BY <1>3
    <2>3. ASSUME NEW n \in Notes
          PROVE  /\ received'[n] \in [Accounts -> Nat]
                 /\ \A b \in Accounts :
                       received'[n][b] = IF owner[n] = b THEN received[n][b] + 1 ELSE received[n][b]
        <3>1. received[n] \in [Accounts -> Nat] /\ owner[n] \in Accounts \cup {Nobody}
            BY <1>1, <1>2
        <3>2. received'[n] = IF owner[n] = Nobody THEN received[n]
                             ELSE [received[n] EXCEPT ![owner[n]] = @ + 1]
            BY <2>2
        <3> QED
            BY <3>1, <3>2, CommitReceipt
    <2>4. received' \in [Notes -> [Accounts -> Nat]]
        BY <2>1, <2>3
    <2> QED
        BY <2>3, <2>4
<1> QED
    BY <1>4, <1>5, <1>6 DEF outs, owner

LEMMA CommitStep ==
    ASSUME Inv, NEW r \in Passes, Commit(r)
    PROVE  Inv'
<1>1. /\ UNCHANGED <<pay, inv, bill, swapRow, clerk, asks, faults>>
      /\ Lasting
      /\ marked' \subseteq Notes
      /\ pass' = [pass EXCEPT ![r] = IdlePass]
    BY DEF Commit, node, Lasting, Inv, TypeOK
<1>2. pass' \in [Passes -> PassState] /\ PassInv'
    BY <1>1, IdlePassOK, PassFrame
<1>3. TypeOK'
    BY <1>1, <1>2, CommitEffect DEF Inv, TypeOK
<1>4. NoPhantom'
    <2>1. PassOK(pass[r], pay, inv) /\ pass[r] \in PassState
        BY DEF Inv, PassInv, TypeOK
    <2>2. ASSUME NEW h \in Bolts, HasRow(paidOut', h) PROVE pay'[h] = "complete"
        <3>1. PICK b \in Accounts : paidOut'[h][b] > 0
            BY <2>2 DEF HasRow
        <3>2. h \in pass[r].outs \/ paidOut[h][b] > 0
            BY <3>1, CommitEffect
        <3> QED
            BY <3>2, <2>1, <1>1 DEF PassOK, Inv, NoPhantom, HasRow
    <2>3. ASSUME NEW n \in Notes, HasRow(received', n) PROVE inv'[n] = "paid"
        <3>1. PICK b \in Accounts : received'[n][b] > 0
            BY <2>3 DEF HasRow
        <3>2. pass[r].owner[n] = b \/ received[n][b] > 0
            BY <3>1, CommitEffect
        <3>3. b # Nobody
            BY SettlementAssumption
        <3> QED
            BY <3>2, <3>3, <2>1, <1>1 DEF PassOK, Inv, NoPhantom, HasRow
    <2> QED
        BY <2>2, <2>3 DEF NoPhantom, HasRow
<1> QED
    BY <1>1, <1>2, <1>3, <1>4, ClerkStay DEF Inv

LEMMA InvStep == Inv /\ [Next]_vars => Inv'
<1> SUFFICES ASSUME Inv, [Next]_vars PROVE Inv'
    OBVIOUS
<1>1. CASE UNCHANGED vars
    <2>1. Lasting
        BY <1>1 DEF vars, Lasting
    <2> QED
        BY <1>1, <2>1, ClerkStay, PassStay, RowsStay DEF vars, Inv, TypeOK
<1>2. CASE Next
    BY <1>2, ClerkSteps, BookingSteps, MintingSteps, NetworkSteps, PassSteps, CommitStep
    DEF Next, ClerkStep, Work
<1> QED
    BY <1>1, <1>2

-----------------------------------------------------------------------------
\* Every state the node and its ledger reach is well typed.
THEOREM SettlementTyped == Spec => []TypeOK
<1>1. Inv => TypeOK
    BY DEF Inv
<1> QED
    BY InvInit, InvStep, <1>1, PTL DEF Spec

\* A row with a hash stands for a flow that happened (api-account-pay 176-194,
\* invoice 169-171, _ledger 334-336), for any verbs, faults and timing.
THEOREM RowsAreReal == Spec => []NoPhantom
<1>1. Inv => NoPhantom
    BY DEF Inv
<1> QED
    BY InvInit, InvStep, <1>1, PTL DEF Spec

-----------------------------------------------------------------------------
(* Which steps move what. *)

\* Only a clerk's booking and a pass's commit write rows.
LEMMA RowWriters ==
    ASSUME Next, \A c \in Clerks : ~Book(c), \A r \in Passes : ~Commit(r)
    PROVE  UNCHANGED <<paidOut, received, swapRow>>
BY DEF Next, ClerkStep, Work, AskPay, AskMint, Send, BookFee, LoseBook, Store, LoseStore, GiveUp,
       OtherPays, Succeed, Miscarry, OtherMints, Arrive, ListPays, ListInvoices, LookPay,
       LookInvoice, FailPass, ledger

\* A clerk that holds a payment after a step held it before, or was about to send it.
LEMMA Holders ==
    ASSUME Inv, Next, NEW c \in Clerks, clerk'[c].pc \in {"paying", "paid"}
    PROVE  clerk[c].pc \in {"asked", "paying", "paid"} /\ clerk'[c].hash = clerk[c].hash
<1>0. clerk \in [Clerks -> ClerkState] /\ \A d \in Clerks : clerk[d] \in ClerkState
    BY DEF Inv, TypeOK
<1>1. CASE clerk'[c] = clerk[c]
    BY <1>1
<1>2. ASSUME NEW d \in Clerks,
             \/ \E u \in Users, h \in Bolts : AskPay(d, u, h)
             \/ \E u \in Users, n \in Notes : AskMint(d, u, n)
             \/ ClerkStep(d)
      PROVE  clerk'[c] = clerk[c] \/ (d = c /\ Send(c))
    <2>1. CASE d # c
        BY <1>0, <1>2, <2>1
        DEF AskPay, AskMint, ClerkStep, Send, Book, BookFee, LoseBook, Store, LoseStore, GiveUp
    <2>2. CASE d = c /\ ~Send(c)
        <3>1. clerk'[c].pc \in {"idle", "asked", "minted", "principal"}
            BY <1>0, <1>2, <2>2
            DEF AskPay, AskMint, ClerkStep, Book, BookFee, LoseBook, Store, LoseStore, GiveUp,
                IdleClerk, ClerkState
        <3> QED
            BY <3>1
    <2> QED
        BY <2>1, <2>2
<1>3. CASE Send(c)
    BY <1>0, <1>3 DEF Send, ClerkState
<1>4. ASSUME NEW h \in Bolts, OtherPays(h) \/ Succeed(h) \/ Miscarry(h)
      PROVE  clerk'[c] = clerk[c] \/ (clerk[c].pc = "paying" /\ clerk'[c].hash = clerk[c].hash)
    BY <1>0, <1>4 DEF OtherPays, Succeed, Miscarry, Waiting, IdleClerk, ClerkState
<1>5. ASSUME NEW n \in Notes, OtherMints(n) \/ Arrive(n)
      PROVE  clerk' = clerk
    BY <1>5 DEF OtherMints, Arrive
<1>6. ASSUME NEW r \in Passes, Work(r) \/ FailPass(r)
      PROVE  clerk' = clerk
    BY <1>6 DEF Work, FailPass, ListPays, ListInvoices, LookPay, LookInvoice, Commit
<1> QED
    BY <1>1, <1>2, <1>3, <1>4, <1>5, <1>6 DEF Next

\* What enters a batch was in no row when it was looked up, and a receipt enters it
\* with its owner.
LEMMA Batches ==
    ASSUME Inv, Next, NEW r \in Passes
    PROVE  /\ \A h \in pass'[r].outs : h \in pass[r].outs \/ ~HasRow(paidOut, h)
           /\ \A n \in Notes : pass'[r].owner[n] # Nobody =>
                 \/ pass'[r].owner[n] = pass[r].owner[n]
                 \/ pass'[r].owner[n] = OwnerOf(n) /\ inv[n] = "paid" /\ ~HasRow(received, n)
<1>0. /\ pass \in [Passes -> PassState]
      /\ pass[r] \in PassState /\ PassOK(pass[r], pay, inv)
    BY DEF Inv, TypeOK, PassInv
<1>1. CASE pass'[r] = pass[r]
    BY <1>1
<1>2. CASE pass'[r].outs = {} /\ pass'[r].owner = [n \in Notes |-> Nobody]
    BY <1>2
<1>3. ASSUME NEW s \in Passes, ListPays(s) \/ Commit(s) \/ FailPass(s)
      PROVE  \/ pass'[r] = pass[r]
             \/ pass'[r].outs = {} /\ pass'[r].owner = [n \in Notes |-> Nobody]
    <2>1. CASE s # r
        BY <1>0, <1>3, <2>1 DEF ListPays, Commit, FailPass
    <2>2. CASE s = r /\ ListPays(r)
        BY <1>0, <2>2 DEF ListPays, IdlePass
    <2>3. CASE s = r /\ (Commit(r) \/ FailPass(r))
        BY <1>0, <2>3 DEF Commit, FailPass, IdlePass
    <2> QED
        BY <1>3, <2>1, <2>2, <2>3
<1>4. ASSUME NEW s \in Passes, ListInvoices(s)
      PROVE  pass'[r].outs = pass[r].outs /\ pass'[r].owner = pass[r].owner
    BY <1>0, <1>4 DEF ListInvoices, PassState
<1>5. ASSUME NEW s \in Passes, NEW h \in Bolts, LookPay(s, h)
      PROVE  /\ pass'[r].owner = pass[r].owner
             /\ \A k \in pass'[r].outs : k \in pass[r].outs \/ ~HasRow(paidOut, k)
    BY <1>0, <1>5 DEF LookPay, PassState, AlreadyBooked
<1>6. ASSUME NEW s \in Passes, NEW n \in Notes, LookInvoice(s, n)
      PROVE  /\ pass'[r].outs = pass[r].outs
             /\ \A m \in Notes : pass'[r].owner[m] # Nobody =>
                   \/ pass'[r].owner[m] = pass[r].owner[m]
                   \/ pass'[r].owner[m] = OwnerOf(m) /\ inv[m] = "paid" /\ ~HasRow(received, m)
    <2>1. CASE s # r
        BY <1>0, <1>6, <2>1 DEF LookInvoice
    <2>2. CASE s = r
        <3>1. inv[n] = "paid"
            BY <1>0, <1>6, <2>2 DEF LookInvoice, PassOK
        <3>2. CASE AlreadyBooked(n)
            BY <1>0, <1>6, <2>2, <3>2 DEF LookInvoice, PassState
        <3>3. CASE ~AlreadyBooked(n)
            <4>1. ~HasRow(received, n)
                BY <3>3 DEF AlreadyBooked
            <4>2. /\ pass'[r].outs = pass[r].outs
                  /\ pass'[r].owner = [pass[r].owner EXCEPT ![n] = OwnerOf(n)]
                BY <1>0, <1>6, <2>2, <3>3 DEF LookInvoice, PassState
            <4> QED
                BY <1>0, <3>1, <4>1, <4>2 DEF PassState
        <3> QED
            BY <3>2, <3>3
    <2> QED
        BY <2>1, <2>2
<1>7. pass' = pass \/ \E s \in Passes : Work(s) \/ FailPass(s)
    BY DEF Next, ClerkStep, AskPay, AskMint, Send, Book, BookFee, LoseBook, Store, LoseStore,
           GiveUp, OtherPays, Succeed, Miscarry, OtherMints, Arrive
<1> QED
    BY <1>1, <1>2, <1>3, <1>4, <1>5, <1>6, <1>7 DEF Work

\* What a booking does to the rows.
LEMMA BookEffect ==
    ASSUME Inv, NEW c \in Clerks, Book(c), Verb[c] # "swap"
    PROVE  /\ \A k \in Bolts, b \in Accounts :
                 paidOut'[k][b] = IF k = clerk[c].hash /\ b = clerk[c].user
                                  THEN paidOut[k][b] + 1 ELSE paidOut[k][b]
           /\ UNCHANGED <<swapRow, received, pass>>
<1>1. ClerkOK(c, clerk[c], pay)
    BY DEF Inv, ClerkInv
<1>2. clerk[c].hash \in Bolts /\ clerk[c].user \in Accounts
    BY <1>1 DEF Book, ClerkOK, Accounts
<1>3. paidOut' = WithRow(paidOut, clerk[c].hash, clerk[c].user)
    BY DEF Book
<1>4. paidOut \in [Bolts -> [Accounts -> Nat]]
    BY DEF Inv, TypeOK
<1>5. \A k \in Bolts, b \in Accounts :
         WithRow(paidOut, clerk[c].hash, clerk[c].user)[k][b]
            = IF k = clerk[c].hash /\ b = clerk[c].user THEN paidOut[k][b] + 1
              ELSE paidOut[k][b]
    BY <1>2, <1>4, WithRowType
<1> QED
    BY <1>3, <1>5 DEF Book

\* A booking of a verb leaves the receipts alone.
LEMMA BookReceived ==
    ASSUME NEW c \in Clerks, Book(c)
    PROVE  received' = received
BY DEF Book

-----------------------------------------------------------------------------
(* Each flow is booked once, as long as the node is quiet. *)

\* What is about to be booked, by a clerk or in a batch, is in no row yet.
Pending ==
    /\ \A c \in Clerks : clerk[c].pc \in {"paying", "paid"} => ~HasRow(paidOut, clerk[c].hash)
    /\ \A r \in Passes :
          /\ \A h \in pass[r].outs : ~HasRow(paidOut, h)
          /\ \A n \in Notes : pass[r].owner[n] # Nobody => ~HasRow(received, n)

Single == /\ \A h \in Bolts : Once(paidOut, h) /\ ~HasRow(swapRow, h)
          /\ \A n \in Notes : Once(received, n)

LEMMA QuietStep ==
    ASSUME Inv, Quiet, Pending, Single, Next
    PROVE  Pending' /\ Single'
<1>0. /\ \A c \in Clerks : clerk[c] \in ClerkState /\ ClerkOK(c, clerk[c], pay)
      /\ \A r \in Passes : pass[r] \in PassState /\ PassOK(pass[r], pay, inv)
    BY DEF Inv, TypeOK, ClerkInv, PassInv
<1>1. \A c \in Clerks : clerk[c].pc \in {"asked", "paying", "paid"} => ~HasRow(paidOut, clerk[c].hash)
    BY <1>0 DEF Pending, Quiet, ClerkOK, Inv, NoPhantom
<1>2. ASSUME NEW c \in Clerks, Book(c)
      PROVE  Pending' /\ Single'
    <2> DEFINE h == clerk[c].hash
    <2>1. clerk[c].pc = "paid" /\ Verb[c] # "swap" /\ h \in Bolts
        BY <1>2, <1>0 DEF Book, Quiet, Paying, ClerkOK
    <2>2. /\ \A k \in Bolts, b \in Accounts :
                paidOut'[k][b] = IF k = h /\ b = clerk[c].user
                                 THEN paidOut[k][b] + 1 ELSE paidOut[k][b]
          /\ UNCHANGED <<swapRow, received, pass>>
        BY <1>2, <2>1, BookEffect
    <2>3. paidOut \in [Bolts -> [Accounts -> Nat]] /\ \A b \in Accounts : paidOut[h][b] = 0
        BY <1>1, <2>1 DEF HasRow, Inv, TypeOK
    <2>4. \A r \in Passes : pass[r].outs = {} /\ \A n \in Notes : pass[r].owner[n] = Nobody
        BY <1>0, <2>1 DEF Quiet, PassOK, IdlePass
    <2>5. \A d \in Clerks : clerk'[d].pc \in {"paying", "paid"} =>
             clerk'[d].hash \in Bolts /\ clerk'[d].hash # h /\ ~HasRow(paidOut, clerk'[d].hash)
        <3> SUFFICES ASSUME NEW d \in Clerks, clerk'[d].pc \in {"paying", "paid"}
                     PROVE  clerk'[d].hash \in Bolts /\ clerk'[d].hash # h
                            /\ ~HasRow(paidOut, clerk'[d].hash)
            OBVIOUS
        <3>1. clerk[d].pc \in {"asked", "paying", "paid"} /\ clerk'[d].hash = clerk[d].hash
            BY <1>2, Holders DEF Next, ClerkStep
        <3>2. d # c
            BY <1>2 DEF Book, IdleClerk, Inv, TypeOK, ClerkState
        <3>3. clerk[d].hash # h
            BY <3>1, <3>2, <2>1 DEF Quiet, Paying
        <3> QED
            BY <3>1, <3>3, <1>0, <1>1 DEF ClerkOK
    <2> HIDE DEF h
    <2>6. \A k \in Bolts : k # h => /\ HasRow(paidOut', k) <=> HasRow(paidOut, k)
                                    /\ Once(paidOut', k) <=> Once(paidOut, k)
        BY <2>2 DEF HasRow, Once
    <2>7. Once(paidOut', h)
        BY <2>1, <2>2, <2>3 DEF Once
    <2>8. Single'
        BY <2>2, <2>6, <2>7 DEF Single, Once, HasRow
    <2>9. Pending'
        BY <2>2, <2>4, <2>5, <2>6 DEF Pending, HasRow
    <2> QED
        BY <2>8, <2>9
<1>3. ASSUME NEW r \in Passes, Commit(r)
      PROVE  Pending' /\ Single'
    <2>1. /\ paidOut \in [Bolts -> [Accounts -> Nat]]
          /\ received \in [Notes -> [Accounts -> Nat]]
          /\ Others \in Accounts /\ Nobody \notin Accounts
          /\ pass[r].owner \in [Notes -> Accounts \cup {Nobody}]
        BY <1>0, SettlementAssumption DEF Inv, TypeOK, Accounts, PassState
    <2>2. swapRow' = swapRow /\ clerk' = clerk /\ pass' = [pass EXCEPT ![r] = IdlePass]
          /\ pass[r].pc = "looking"
        BY <1>3 DEF Commit
    <2>3. \A c \in Clerks : clerk[c].pc \notin {"paying", "paid"}
        BY <2>2 DEF Quiet
    <2>4. \A s \in Passes : pass'[s].outs = {} /\ \A n \in Notes : pass'[s].owner[n] = Nobody
        <3> TAKE s \in Passes
        <3>1. pass'[s] = IdlePass
            <4>1. CASE s = r
                BY <4>1, <2>2 DEF Inv, TypeOK
            <4>2. CASE s # r
                BY <4>2, <2>2, <1>0 DEF Quiet, PassOK, Inv, TypeOK
            <4> QED
                BY <4>1, <4>2
        <3> QED
            BY <3>1 DEF IdlePass
    <2>5. Pending'
        BY <2>2, <2>3, <2>4 DEF Pending
    <2>6. ASSUME NEW k \in Bolts PROVE Once(paidOut', k)
        <3>1. \A b \in Accounts : paidOut'[k][b] = IF k \in pass[r].outs /\ b = Others
                                                  THEN paidOut[k][b] + 1 ELSE paidOut[k][b]
            BY <1>3, CommitEffect
        <3>2. CASE k \in pass[r].outs
            <4>1. \A b \in Accounts : paidOut[k][b] = 0
                BY <3>2, <2>1 DEF Pending, HasRow
            <4> QED
                BY <3>1, <4>1, <2>1 DEF Once
        <3>3. CASE k \notin pass[r].outs
            BY <3>1, <3>3 DEF Single, Once
        <3> QED
            BY <3>2, <3>3
    <2>7. ASSUME NEW n \in Notes PROVE Once(received', n)
        <3>1. \A b \in Accounts : received'[n][b] = IF pass[r].owner[n] = b
                                                   THEN received[n][b] + 1 ELSE received[n][b]
            BY <1>3, CommitEffect
        <3>2. CASE pass[r].owner[n] # Nobody
            <4>1. \A b \in Accounts : received[n][b] = 0
                BY <3>2, <2>1 DEF Pending, HasRow
            <4> QED
                BY <3>1, <4>1, <2>1 DEF Once
        <3>3. CASE pass[r].owner[n] = Nobody
            <4>1. \A b \in Accounts : received'[n][b] = received[n][b]
                BY <3>1, <3>3, <2>1
            <4> QED
                BY <4>1 DEF Single, Once
        <3> QED
            BY <3>2, <3>3
    <2>8. Single'
        BY <2>2, <2>6, <2>7 DEF Single, HasRow, Once
    <2> QED
        BY <2>5, <2>8
<1>4. CASE (\A c \in Clerks : ~Book(c)) /\ (\A r \in Passes : ~Commit(r))
    <2>1. UNCHANGED <<paidOut, received, swapRow>>
        BY <1>4, RowWriters
    <2>2. ASSUME NEW c \in Clerks, clerk'[c].pc \in {"paying", "paid"}
          PROVE  ~HasRow(paidOut, clerk'[c].hash)
        BY <2>2, <1>1, Holders
    <2>3. ASSUME NEW r \in Passes
          PROVE  /\ \A h \in pass'[r].outs : ~HasRow(paidOut, h)
                 /\ \A n \in Notes : pass'[r].owner[n] # Nobody => ~HasRow(received, n)
        BY Batches DEF Pending
    <2>4. Pending'
        BY <2>1, <2>2, <2>3 DEF Pending, HasRow
    <2>5. Single'
        BY <2>1 DEF Single, Once, HasRow
    <2> QED
        BY <2>4, <2>5
<1> QED
    BY <1>2, <1>3, <1>4

\* In a quiet node each flow is in the ledger once, whatever crashes (_ledger
\* 345-349, the de-duplication by payment_hash).
THEOREM BookedOnceWhenQuiet == Spec => QuietBooksOnce
<1>1. Init => Pending /\ Single
    <2> SUFFICES ASSUME Init PROVE Pending /\ Single
        OBVIOUS
    <2>1. \A h \in Bolts : ~HasRow(paidOut, h) /\ ~HasRow(swapRow, h) /\ Once(paidOut, h)
        BY DEF Init, NoRows, HasRow, Once
    <2>2. \A n \in Notes : ~HasRow(received, n) /\ Once(received, n)
        BY DEF Init, NoRows, HasRow, Once
    <2>3. \A c \in Clerks : clerk[c].pc = "idle"
        BY DEF Init, IdleClerk
    <2>4. \A r \in Passes : pass[r].outs = {}
        BY DEF Init, IdlePass
    <2> QED
        BY <2>1, <2>2, <2>3, <2>4 DEF Pending, Single
<1>2. Inv /\ Quiet /\ Pending /\ Single /\ [Next]_vars => (Pending /\ Single)'
    <2>1. CASE UNCHANGED vars
        BY <2>1 DEF vars, Pending, Single, Once, HasRow
    <2> QED
        BY <2>1, QuietStep
<1>3. Single => BookedOnce
    BY DEF Single, BookedOnce
<1> QED
    BY InvInit, InvStep, <1>1, <1>2, <1>3, PTL DEF Spec, QuietBooksOnce

-----------------------------------------------------------------------------
(* A receipt is on its owner's account. *)

\* No process runs `invoice create`, which prints an invoice before it records it.
RecordsFirst == \A c \in Clerks : Verb[c] # "create"

\* An invoice not recorded yet is nobody's to pay, and only one process records it.
MintInv ==
    \A c \in Clerks : clerk[c].pc = "minted" =>
        /\ inv[clerk[c].hash] = "minted"
        /\ \A d \in Clerks : clerk[d].pc = "minted" /\ clerk[d].hash = clerk[c].hash => d = c

\* The owner a pass has looked up is still the owner when it writes.
OwnerInv ==
    \A r \in Passes, n \in Notes : pass[r].owner[n] # Nobody => pass[r].owner[n] = OwnerOf(n)

LEMMA MintStep ==
    ASSUME RecordsFirst, Inv, MintInv, Next
    PROVE  MintInv'
<1>0. /\ clerk \in [Clerks -> ClerkState]
      /\ inv \in [Notes -> {"none", "minted", "offered", "paid"}]
      /\ \A c \in Clerks : clerk[c] \in ClerkState /\ ClerkOK(c, clerk[c], pay)
    BY DEF Inv, TypeOK, ClerkInv
<1>1. ASSUME NEW d \in Clerks, NEW u \in Users, NEW n \in Notes, AskMint(d, u, n)
      PROVE  MintInv'
    <2>1. /\ clerk' = [clerk EXCEPT ![d] = [pc |-> "minted", user |-> u, hash |-> n]]
          /\ inv' = [inv EXCEPT ![n] = "minted"]
          /\ inv[n] = "none"
        BY <1>1 DEF AskMint, RecordsFirst
    <2>2. \A c \in Clerks : clerk[c].pc = "minted" => clerk[c].hash # n /\ clerk[c].hash \in Notes
        BY <2>1, <1>0 DEF MintInv, ClerkOK
    <2> QED
        BY <2>1, <2>2, <1>0 DEF MintInv
<1>2. ASSUME NEW d \in Clerks, Store(d) \/ LoseStore(d)
      PROVE  MintInv'
    <2>1. /\ clerk' = [clerk EXCEPT ![d] = IdleClerk]
          /\ clerk[d].pc = "minted" /\ clerk[d].hash \in Notes
          /\ \A n \in Notes : n # clerk[d].hash => inv'[n] = inv[n]
        BY <1>2, <1>0 DEF Store, LoseStore, Offer, ClerkOK
    <2>2. \A c \in Clerks : clerk'[c].pc = "minted" => c # d /\ clerk'[c] = clerk[c]
        BY <2>1, <1>0 DEF IdleClerk
    <2>3. \A c \in Clerks : clerk'[c].pc = "minted" =>
             clerk[c].hash # clerk[d].hash /\ clerk[c].hash \in Notes
        BY <2>1, <2>2, <1>0 DEF MintInv, ClerkOK
    <2> QED
        BY <2>1, <2>2, <2>3 DEF MintInv
<1>3. ASSUME \A c \in Clerks : clerk'[c].pc = "minted" => clerk'[c] = clerk[c],
             \A n \in Notes : inv[n] = "minted" => inv'[n] = "minted"
      PROVE  MintInv'
    BY <1>0, <1>3 DEF MintInv, ClerkOK
<1>4. ASSUME NEW d \in Clerks,
             \/ \E u \in Users, h \in Bolts : AskPay(d, u, h)
             \/ Send(d) \/ Book(d) \/ BookFee(d) \/ LoseBook(d) \/ GiveUp(d)
      PROVE  /\ \A c \in Clerks : clerk'[c].pc = "minted" => clerk'[c] = clerk[c]
             /\ inv' = inv
    <2>1. inv' = inv
        BY <1>4 DEF AskPay, Send, Book, BookFee, LoseBook, GiveUp, node
    <2>2. clerk'[d].pc # "minted"
        BY <1>0, <1>4 DEF AskPay, Send, Book, BookFee, LoseBook, GiveUp, IdleClerk, ClerkState
    <2>3. \A c \in Clerks : c # d => clerk'[c] = clerk[c]
        BY <1>0, <1>4 DEF AskPay, Send, Book, BookFee, LoseBook, GiveUp
    <2> QED
        BY <2>1, <2>2, <2>3
<1>5. ASSUME NEW h \in Bolts, OtherPays(h) \/ Succeed(h) \/ Miscarry(h)
      PROVE  /\ \A c \in Clerks : clerk'[c].pc = "minted" => clerk'[c] = clerk[c]
             /\ inv' = inv
    BY <1>0, <1>5 DEF OtherPays, Succeed, Miscarry, Waiting, IdleClerk, ClerkState
<1>6. ASSUME NEW n \in Notes, OtherMints(n) \/ Arrive(n)
      PROVE  clerk' = clerk /\ \A m \in Notes : inv[m] = "minted" => inv'[m] = "minted"
    BY <1>0, <1>6 DEF OtherMints, Arrive
<1>7. ASSUME NEW r \in Passes, Work(r) \/ FailPass(r)
      PROVE  clerk' = clerk /\ inv' = inv
    BY <1>7 DEF Work, FailPass, ListPays, ListInvoices, LookPay, LookInvoice, Commit, node
<1> QED
    BY <1>1, <1>2, <1>3, <1>4, <1>5, <1>6, <1>7 DEF Next, ClerkStep

\* The record of a paid invoice does not change.
LEMMA RecordStays ==
    ASSUME Inv, MintInv, Next, NEW n \in Notes, inv[n] = "paid"
    PROVE  OwnerOf(n)' = OwnerOf(n)
<1>1. bill' = bill \/ \E c \in Clerks : Store(c)
    BY DEF Next, ClerkStep, Work, AskPay, AskMint, Send, Book, BookFee, LoseBook, LoseStore, GiveUp,
           OtherPays, Succeed, Miscarry, OtherMints, Arrive, ListPays, ListInvoices, LookPay,
           LookInvoice, FailPass, Commit
<1>2. ASSUME NEW c \in Clerks, Store(c) PROVE bill'[n] = bill[n]
    BY <1>2 DEF Store, MintInv, Inv, TypeOK
<1> QED
    BY <1>1, <1>2 DEF OwnerOf

LEMMA OwnerStep ==
    ASSUME Inv, MintInv, OwnerInv, ReceiptToOwner, Next
    PROVE  OwnerInv' /\ ReceiptToOwner'
<1>1. OwnerInv'
    <2> SUFFICES ASSUME NEW r \in Passes, NEW n \in Notes, pass'[r].owner[n] # Nobody
                 PROVE  pass'[r].owner[n] = OwnerOf(n)'
        BY DEF OwnerInv
    <2>1. pass'[r].owner[n] = OwnerOf(n) /\ inv[n] = "paid"
        BY Batches DEF OwnerInv, Inv, PassInv, PassOK
    <2> QED
        BY <2>1, RecordStays
<1>2. ReceiptToOwner'
    <2> SUFFICES ASSUME NEW n \in Notes, NEW a \in Accounts, received'[n][a] > 0
                 PROVE  a = OwnerOf(n)'
        BY DEF ReceiptToOwner
    <2>1. a = OwnerOf(n) /\ inv[n] = "paid"
        <3>1. CASE received[n][a] > 0
            BY <3>1 DEF ReceiptToOwner, Inv, NoPhantom, HasRow
        <3>2. CASE ~(received[n][a] > 0)
            <4>1. PICK r \in Passes : Commit(r)
                BY <3>2, BookReceived, RowWriters
            <4>2. pass[r].owner[n] = a /\ a # Nobody
                BY <3>2, <4>1, CommitEffect, SettlementAssumption
            <4> QED
                BY <4>2 DEF OwnerInv, Inv, PassInv, PassOK
        <3> QED
            BY <3>1, <3>2
    <2> QED
        BY <2>1, RecordStays
<1> QED
    BY <1>1, <1>2

\* With verbs that record an invoice before they hand it out, every receipt is on
\* the recorded account, whatever fails (_ledger 316-333, api-account-recv 52-60).
THEOREM ReceiptsToOwners == RecordsFirst => (Spec => []ReceiptToOwner)
<1> SUFFICES ASSUME RecordsFirst PROVE Spec => []ReceiptToOwner
    OBVIOUS
<1>1. Init => MintInv /\ OwnerInv /\ ReceiptToOwner
    BY DEF Init, MintInv, OwnerInv, ReceiptToOwner, IdleClerk, IdlePass, NoRows
<1>2. Inv /\ MintInv /\ OwnerInv /\ ReceiptToOwner /\ [Next]_vars
         => (MintInv /\ OwnerInv /\ ReceiptToOwner)'
    <2>1. CASE UNCHANGED vars
        BY <2>1 DEF vars, MintInv, OwnerInv, ReceiptToOwner, OwnerOf
    <2> QED
        BY <2>1, MintStep, OwnerStep
<1> QED
    BY InvInit, InvStep, <1>1, <1>2, PTL DEF Spec

-----------------------------------------------------------------------------
(* The payer's balance. *)

\* Every payment is made by `invoice pay`, the verb that asks for the balance, and
\* nobody without overdraft starts in debt.
BalancesAsked ==
    /\ \A c \in Clerks : Verb[c] \in PayVerbs => Verb[c] = "cli"
    /\ \A u \in Deny : Funds[u] >= 0

FiniteHashes == IsFiniteSet(Bolts) /\ IsFiniteSet(Notes)

In(u) == [n \in Notes |-> Price[n] * received[n][u]]
Out(u) == [h \in Bolts |-> Price[h] * (paidOut[h][u] + swapRow[h][u]) + Toll[h] * feeRow[h][u]]

LEMMA AmountType ==
    /\ \A n \in Notes : Price[n] \in Nat
    /\ \A h \in Bolts : Price[h] \in Nat /\ Toll[h] \in Nat
    /\ \A h \in Bolts : Price[h] <= MaxPrice /\ Toll[h] <= MaxToll
    /\ MaxPrice \in Nat /\ MaxToll \in Nat /\ Sat \in Nat /\ Sat > 0
    /\ \A u \in Users : Funds[u] \in Int /\ u \in Accounts
BY SettlementAssumption DEF Hashes, Accounts

\* Products with a row count.
LEMMA Times ==
    ASSUME NEW p \in Nat, NEW a \in Nat, NEW b \in Nat
    PROVE  /\ p * a \in Nat
           /\ a <= b => p * a <= p * b
           /\ p * (a + 1) = p * a + p
<1>1. ASSUME a <= b PROVE p * a <= p * b
    <2>1. PICK d \in Nat : b = a + d
        BY <1>1
    <2>2. p * b = p * a + p * d /\ p * d \in Nat
        BY <2>1
    <2> QED
        BY <2>2
<1> QED
    BY <1>1

LEMMA BalanceParts ==
    ASSUME TypeOK, FiniteHashes, NEW u \in Users
    PROVE  /\ \A n \in Notes : In(u)[n] = Price[n] * received[n][u] /\ In(u)[n] \in Int
           /\ \A h \in Bolts : Out(u)[h] \in Int
           /\ SumFunctionOnSet(In(u), Notes) \in Int
           /\ SumFunctionOnSet(Out(u), Bolts) \in Int
           /\ Balance(u) = Funds[u] + SumFunctionOnSet(In(u), Notes) - SumFunctionOnSet(Out(u), Bolts)
           /\ Balance(u) \in Int
<1>1. \A n \in Notes : In(u)[n] = Price[n] * received[n][u] /\ In(u)[n] \in Int
    <2> SUFFICES ASSUME NEW n \in Notes PROVE Price[n] * received[n][u] \in Int
        BY DEF In
    <2>1. Price[n] \in Nat /\ received[n][u] \in Nat
        BY AmountType DEF TypeOK
    <2> QED
        BY <2>1, Times
<1>2. \A h \in Bolts : Out(u)[h] \in Int
    <2> SUFFICES ASSUME NEW h \in Bolts
                 PROVE  Price[h] * (paidOut[h][u] + swapRow[h][u]) + Toll[h] * feeRow[h][u] \in Int
        BY DEF Out
    <2>1. /\ Price[h] \in Nat /\ Toll[h] \in Nat
          /\ paidOut[h][u] + swapRow[h][u] \in Nat /\ feeRow[h][u] \in Nat
        BY AmountType DEF TypeOK
    <2>2. Price[h] * (paidOut[h][u] + swapRow[h][u]) \in Nat /\ Toll[h] * feeRow[h][u] \in Nat
        BY <2>1, Times
    <2> QED
        BY <2>2
<1>3. SumFunctionOnSet(In(u), Notes) \in Int
    BY <1>1, SumInt DEF FiniteHashes
<1>4. SumFunctionOnSet(Out(u), Bolts) \in Int
    BY <1>2, SumInt DEF FiniteHashes
<1>5. Balance(u) = Funds[u] + SumFunctionOnSet(In(u), Notes) - SumFunctionOnSet(Out(u), Bolts)
    BY DEF Balance, SumFunction, In, Out
<1> QED
    BY <1>1, <1>2, <1>3, <1>4, <1>5, AmountType

\* Receipts only add, and a balance falls by what is paid out.
LEMMA BalanceMoves ==
    ASSUME TypeOK, TypeOK', FiniteHashes, NEW u \in Users, NEW d \in Int,
           \A n \in Notes : received'[n][u] >= received[n][u],
           SumFunctionOnSet(Out(u)', Bolts) = SumFunctionOnSet(Out(u), Bolts) + d
    PROVE  Balance(u) \in Int /\ Balance(u)' \in Int /\ Balance(u)' >= Balance(u) - d
<1> DEFINE in == In(u)
           in2 == In(u)'
           out == SumFunctionOnSet(Out(u), Bolts)
           out2 == SumFunctionOnSet(Out(u)', Bolts)
<1>1. /\ \A n \in Notes : in[n] = Price[n] * received[n][u] /\ in[n] \in Int
      /\ Balance(u) = Funds[u] + SumFunctionOnSet(in, Notes) - out
      /\ Balance(u) \in Int /\ out \in Int
    BY BalanceParts
<1>2. /\ \A n \in Notes : in2[n] = Price[n] * received'[n][u]
      /\ Balance(u)' = Funds[u] + SumFunctionOnSet(in2, Notes) - out2
    BY DEF Balance, SumFunction, In, Out
<1>3. out2 = out + d
    OBVIOUS
<1> HIDE DEF in, out, in2, out2
<1>4. \A n \in Notes : in2[n] \in Int /\ in[n] <= in2[n]
    <2> SUFFICES ASSUME NEW n \in Notes PROVE in2[n] \in Int /\ in[n] <= in2[n]
        OBVIOUS
    <2> DEFINE p == Price[n]
               a == received[n][u]
               b == received'[n][u]
    <2>1. p \in Nat /\ a \in Nat /\ b \in Nat
        BY AmountType DEF TypeOK
    <2>2. a <= b
        BY <2>1
    <2>3. in[n] = p * a /\ in2[n] = p * b
        BY <1>1, <1>2
    <2> HIDE DEF p, a, b
    <2>4. p * a <= p * b /\ p * b \in Nat
        BY <2>1, <2>2, Times
    <2> QED
        BY <2>3, <2>4
<1>5. SumFunctionOnSet(in, Notes) <= SumFunctionOnSet(in2, Notes)
    BY <1>1, <1>4, SumAtMost DEF FiniteHashes
<1>6. SumFunctionOnSet(in, Notes) \in Int /\ SumFunctionOnSet(in2, Notes) \in Int /\ Funds[u] \in Int
    BY <1>1, <1>4, SumInt, AmountType DEF FiniteHashes
<1> QED
    BY <1>1, <1>2, <1>3, <1>5, <1>6

\* Rows of others, and receipts, take nothing ...
LEMMA BalanceKept ==
    ASSUME TypeOK, TypeOK', FiniteHashes, NEW u \in Users, swapRow' = swapRow,
           \A h \in Bolts : paidOut'[h][u] = paidOut[h][u] /\ feeRow'[h][u] = feeRow[h][u],
           \A n \in Notes : received'[n][u] >= received[n][u]
    PROVE  Balance(u) \in Int /\ Balance(u)' \in Int /\ Balance(u)' >= Balance(u)
<1> DEFINE out == Out(u)
           out2 == Out(u)'
<1>1. \A k \in Bolts : out[k] \in Int /\ out2[k] = out[k]
    BY BalanceParts DEF Out
<1> HIDE DEF out, out2
<1>2. SumFunctionOnSet(out, Bolts) \in Int
    BY <1>1, SumInt DEF FiniteHashes
<1>3. SumFunctionOnSet(out2, Bolts) = SumFunctionOnSet(out, Bolts) + 0
    BY <1>1, <1>2, SumSame DEF FiniteHashes
<1>4. /\ Balance(u) \in Int /\ Balance(u)' \in Int
      /\ Balance(u)' >= Balance(u) - 0
    BY <1>3, BalanceMoves DEF out, out2
<1> QED
    BY <1>4

\* ... and a row of the account its amount.
LEMMA BalanceSpent ==
    ASSUME TypeOK, TypeOK', FiniteHashes, NEW u \in Users, NEW h \in Bolts, NEW d \in Int,
           received' = received, Out(u)'[h] = Out(u)[h] + d,
           \A k \in Bolts \ {h} : Out(u)'[k] = Out(u)[k]
    PROVE  Balance(u) \in Int /\ Balance(u)' \in Int /\ Balance(u)' >= Balance(u) - d
<1> DEFINE out == Out(u)
           out2 == Out(u)'
<1>1. \A k \in Bolts : out[k] \in Int
    BY BalanceParts
<1>2. out2[h] = out[h] + d /\ \A k \in Bolts \ {h} : out2[k] = out[k]
    OBVIOUS
<1> HIDE DEF out, out2
<1>3. \A k \in Bolts : out[k] \in Int /\ out2[k] \in Int
    BY <1>1, <1>2
<1>4. SumFunctionOnSet(out2, Bolts) = SumFunctionOnSet(out, Bolts) - out[h] + out2[h]
    <2>1. h \in Bolts /\ IsFiniteSet(Bolts)
        BY DEF FiniteHashes
    <2>2. \A k \in Bolts \ {h} : out2[k] = out[k]
        BY <1>2
    <2> QED
        BY <1>3, <2>1, <2>2, SumChange
<1>5. SumFunctionOnSet(out, Bolts) \in Int
    BY <1>3, SumInt DEF FiniteHashes
<1>6. SumFunctionOnSet(out2, Bolts) = SumFunctionOnSet(out, Bolts) + d
    BY <1>2, <1>3, <1>4, <1>5
<1>7. \A n \in Notes : received'[n][u] >= received[n][u]
    BY AmountType DEF TypeOK
<1> QED
    BY <1>6, <1>7, BalanceMoves DEF out, out2

\* What a process is about to take from an account: amount and routing fee of a payment
\* it was allowed, and the fee alone once the amount is booked.
Spent == {"asked", "paying", "paid"}
Owed(c, u) ==
    LET h == clerk[c].hash
    IN IF clerk[c].user # u \/ h \in Dust THEN 0
       ELSE IF clerk[c].pc \in Spent THEN Price[h] + Toll[h]
       ELSE IF clerk[c].pc = "principal" THEN Toll[h] ELSE 0

Debts(u) == SumFunctionOnSet([c \in Clerks |-> Owed(c, u)], Tellers)

\* With all that is still to be booked taken off, the balance is within the bound.
Within(b) == b >= 0 \/ b + (MaxPrice + MaxToll) * Cardinality(Tellers) >= MaxPrice - (Sat - 1)
Margin == \A u \in Deny : Undusted(u) => Within(Balance(u) - Debts(u))

LEMMA OwedType ==
    ASSUME Inv, NEW c \in Clerks, NEW u \in Users
    PROVE  Owed(c, u) \in Int /\ 0 <= Owed(c, u) /\ Owed(c, u) <= MaxPrice + MaxToll
<1>1. clerk[c].pc \in Spent \cup {"principal"} => clerk[c].hash \in Bolts
    BY DEF Inv, ClerkInv, ClerkOK, Spent
<1> QED
    BY <1>1, AmountType DEF Owed

LEMMA OwedNext ==
    ASSUME Inv', NEW c \in Clerks, NEW u \in Users
    PROVE  Owed(c, u)' \in Int
<1>1. clerk'[c].pc \in Spent \cup {"principal"} => clerk'[c].hash \in Bolts
    BY DEF Inv, ClerkInv, ClerkOK, Spent
<1> QED
    BY <1>1, AmountType DEF Owed

LEMMA DebtsType ==
    ASSUME Inv, IsFiniteSet(Tellers), NEW u \in Users
    PROVE  Debts(u) \in Int /\ Debts(u) >= 0
<1> DEFINE f == [c \in Clerks |-> Owed(c, u)]
           z == [c \in Clerks |-> 0]
<1>1. \A c \in Tellers : f[c] \in Int /\ z[c] \in Int /\ z[c] <= f[c] /\ z[c] = 0
    BY OwedType DEF Tellers
<1> HIDE DEF f, z
<1>2. SumFunctionOnSet(f, Tellers) \in Int /\ SumFunctionOnSet(z, Tellers) <= SumFunctionOnSet(f, Tellers)
    BY <1>1, SumInt, SumAtMost
<1>3. SumFunctionOnSet(z, Tellers) = 0
    BY <1>1, SumZero
<1> QED
    BY <1>2, <1>3 DEF Debts, f

\* Nobody comes to owe more.
LEMMA DebtsShrink ==
    ASSUME Inv, Inv', IsFiniteSet(Tellers), NEW u \in Users,
           \A c \in Tellers : Owed(c, u)' <= Owed(c, u)
    PROVE  Debts(u)' \in Int /\ Debts(u)' <= Debts(u)
<1> DEFINE f == [c \in Clerks |-> Owed(c, u)]
           g == [c \in Clerks |-> Owed(c, u)']
<1>1. \A c \in Tellers : f[c] \in Int /\ g[c] \in Int /\ g[c] <= f[c]
    BY OwedType, OwedNext DEF Tellers
<1>2. Debts(u)' = SumFunctionOnSet(g, Tellers) /\ Debts(u) = SumFunctionOnSet(f, Tellers)
    BY DEF Debts
<1> HIDE DEF f, g
<1> QED
    BY <1>1, <1>2, SumInt, SumAtMost

\* One process comes to owe something else.
LEMMA DebtsChange ==
    ASSUME Inv, Inv', IsFiniteSet(Tellers), NEW u \in Users, NEW c \in Tellers,
           \A e \in Tellers \ {c} : Owed(e, u)' = Owed(e, u)
    PROVE  /\ Owed(c, u) \in Int /\ Owed(c, u)' \in Int
           /\ Debts(u)' = Debts(u) - Owed(c, u) + Owed(c, u)'
<1> DEFINE f == [e \in Clerks |-> Owed(e, u)]
           g == [e \in Clerks |-> Owed(e, u)']
<1>1. \A e \in Tellers : e \in Clerks /\ Owed(e, u) \in Int /\ Owed(e, u)' \in Int
    BY OwedType, OwedNext DEF Tellers
<1>2. /\ \A e \in Tellers : f[e] = Owed(e, u) /\ g[e] = Owed(e, u)' /\ f[e] \in Int /\ g[e] \in Int
      /\ \A e \in Tellers \ {c} : g[e] = f[e]
    BY <1>1
<1>3. Debts(u)' = SumFunctionOnSet(g, Tellers) /\ Debts(u) = SumFunctionOnSet(f, Tellers)
    BY DEF Debts
<1> HIDE DEF f, g
<1>4. SumFunctionOnSet(g, Tellers) = SumFunctionOnSet(f, Tellers) - f[c] + g[c]
    BY <1>2, SumChange
<1> QED
    BY <1>2, <1>3, <1>4

\* What the comparison in whole satoshis shows.
LEMMA WholeSats ==
    ASSUME NEW s \in Nat, s > 0, NEW a \in Int, NEW b \in Nat, a \div s >= b \div s
    PROVE  a >= b - (s - 1)
<1> DEFINE q == a \div s
           r == b \div s
<1>1. q \in Int /\ r \in Int /\ a >= s * q /\ b <= s * r + (s - 1) /\ q >= r
    OBVIOUS
<1> HIDE DEF q, r
<1>2. s * q >= s * r
    <2>1. PICK d \in Nat : q = r + d
        BY <1>1
    <2>2. s * q = s * r + s * d /\ s * d \in Nat /\ s * r \in Int
        BY <1>1, <2>1
    <2> QED
        BY <2>2
<1>3. s * q \in Int /\ s * r \in Int
    BY <1>1
<1> QED
    BY <1>1, <1>2, <1>3

\* A process that is asked to pay owes nothing yet, so the others owe at most a whole
\* payment and its fee each.
LEMMA OthersOwe ==
    ASSUME Inv, IsFiniteSet(Tellers), NEW u \in Users, NEW c \in Tellers, Owed(c, u) = 0
    PROVE  Debts(u) <= (MaxPrice + MaxToll) * Cardinality(Tellers) - (MaxPrice + MaxToll)
<1> DEFINE f == [e \in Clerks |-> Owed(e, u)]
           b == MaxPrice + MaxToll
           T == Tellers \ {c}
<1>1. b \in Nat /\ \A e \in Tellers : f[e] = Owed(e, u) /\ f[e] \in Int /\ f[e] <= b
    BY OwedType, AmountType DEF Tellers
<1>2. IsFiniteSet(T) /\ Cardinality(T) = Cardinality(Tellers) - 1 /\ Cardinality(Tellers) \in Nat
    BY FS_RemoveElement, FS_CardinalityType
<1>3. Debts(u) = SumFunctionOnSet(f, Tellers)
    BY DEF Debts
<1> HIDE DEF f, b
<1>4. SumFunctionOnSet(f, Tellers) = f[c] + SumFunctionOnSet(f, T)
    BY <1>1, SumTakeOut
<1>5. SumFunctionOnSet(f, T) <= b * Cardinality(T) /\ SumFunctionOnSet(f, T) \in Int
    BY <1>1, <1>2, SumBounded, SumInt
<1>6. b * Cardinality(T) = b * Cardinality(Tellers) - b /\ b * Cardinality(Tellers) \in Int
    BY <1>1, <1>2
<1>7. Debts(u) <= b * Cardinality(Tellers) - b
    BY <1>1, <1>3, <1>4, <1>5, <1>6
<1> QED
    BY <1>7 DEF b

\* More money with no more debts stays within the bound.
LEMMA WithinKept ==
    ASSUME IsFiniteSet(Tellers), NEW b \in Int, NEW e \in Int, e >= b, Within(b)
    PROVE  Within(e)
<1> DEFINE m == (MaxPrice + MaxToll) * Cardinality(Tellers)
<1>1. m \in Int
    BY AmountType, FS_CardinalityType
<1> HIDE DEF m
<1>2. Within(b) <=> (b >= 0 \/ b + m >= MaxPrice - (Sat - 1))
    BY DEF Within, m
<1>3. Within(e) <=> (e >= 0 \/ e + m >= MaxPrice - (Sat - 1))
    BY DEF Within, m
<1> QED
    BY <1>1, <1>2, <1>3, AmountType

\* Nobody owes more by any other step of its own, of the node or of a pass.
LEMMA OwedStays ==
    ASSUME Inv, Next, NEW c \in Clerks, NEW u \in Users, ~Book(c), ~BookFee(c),
           \A v \in Users, h \in Bolts : ~AskPay(c, v, h)
    PROVE  Owed(c, u)' <= Owed(c, u)
<1>0. /\ clerk \in [Clerks -> ClerkState] /\ clerk[c] \in ClerkState
      /\ clerk[c].pc \in Spent \cup {"principal"} => clerk[c].hash \in Bolts
      /\ u # Nobody
    BY SettlementAssumption DEF Inv, TypeOK, ClerkInv, ClerkOK, Spent, Accounts
<1>1. Owed(c, u) \in Int /\ Owed(c, u) >= 0
    BY OwedType
<1>2. CASE clerk'[c] = clerk[c]
    <2>1. Owed(c, u)' = Owed(c, u)
        BY <1>2 DEF Owed
    <2> QED
        BY <1>1, <2>1
<1>3. CASE clerk'[c].pc \in {"idle", "minted"}
    <2>1. Owed(c, u)' = 0
        BY <1>3 DEF Owed, Spent
    <2> QED
        BY <1>1, <2>1
<1>4. CASE /\ clerk[c].pc \in Spent /\ clerk'[c].pc \in Spent \cup {"principal"}
           /\ clerk'[c].user = clerk[c].user /\ clerk'[c].hash = clerk[c].hash
    BY <1>0, <1>1, <1>4, AmountType DEF Owed, Spent
<1>5. ASSUME NEW d \in Clerks, d # c,
             \/ \E v \in Users, h \in Bolts : AskPay(d, v, h)
             \/ \E v \in Users, n \in Notes : AskMint(d, v, n)
             \/ ClerkStep(d)
      PROVE  clerk'[c] = clerk[c]
    BY <1>0, <1>5
    DEF AskPay, AskMint, ClerkStep, Send, Book, BookFee, LoseBook, Store, LoseStore, GiveUp
<1>6. ASSUME \/ \E v \in Users, n \in Notes : AskMint(c, v, n)
             \/ Store(c) \/ LoseStore(c) \/ GiveUp(c)
      PROVE  clerk'[c].pc \in {"idle", "minted"}
    BY <1>0, <1>6 DEF AskMint, Store, LoseStore, GiveUp, IdleClerk
<1>7. ASSUME Send(c)
      PROVE  /\ clerk[c].pc \in Spent /\ clerk'[c].pc \in Spent
             /\ clerk'[c].user = clerk[c].user /\ clerk'[c].hash = clerk[c].hash
    BY <1>0, <1>7 DEF Send, ClerkState, Spent
<1>8. ASSUME LoseBook(c)
      PROVE  \/ clerk'[c].pc = "idle"
             \/ /\ clerk[c].pc \in Spent /\ clerk'[c].pc = "principal"
                /\ clerk'[c].user = clerk[c].user /\ clerk'[c].hash = clerk[c].hash
    BY <1>0, <1>8 DEF LoseBook, IdleClerk, ClerkState, Spent
<1>9. ASSUME NEW h \in Bolts, OtherPays(h) \/ Succeed(h) \/ Miscarry(h)
      PROVE  \/ clerk'[c] = clerk[c] \/ clerk'[c].pc = "idle"
             \/ /\ clerk[c].pc \in Spent /\ clerk'[c].pc \in Spent
                /\ clerk'[c].user = clerk[c].user /\ clerk'[c].hash = clerk[c].hash
    BY <1>0, <1>9 DEF OtherPays, Succeed, Miscarry, Waiting, IdleClerk, ClerkState, Spent
<1>10. ASSUME \/ \E n \in Notes : OtherMints(n) \/ Arrive(n)
              \/ \E r \in Passes : Work(r) \/ FailPass(r)
       PROVE  clerk' = clerk
    BY <1>10 DEF OtherMints, Arrive, Work, FailPass, ListPays, ListInvoices, LookPay, LookInvoice, Commit
<1>11. \/ clerk'[c] = clerk[c] \/ clerk'[c].pc \in {"idle", "minted"}
       \/ /\ clerk[c].pc \in Spent /\ clerk'[c].pc \in Spent \cup {"principal"}
          /\ clerk'[c].user = clerk[c].user /\ clerk'[c].hash = clerk[c].hash
    <2>1. CASE \E d \in Clerks : \/ \E v \in Users, h \in Bolts : AskPay(d, v, h)
                                 \/ \E v \in Users, n \in Notes : AskMint(d, v, n)
                                 \/ ClerkStep(d)
        <3>1. PICK d \in Clerks : \/ \E v \in Users, h \in Bolts : AskPay(d, v, h)
                                  \/ \E v \in Users, n \in Notes : AskMint(d, v, n)
                                  \/ ClerkStep(d)
            BY <2>1
        <3>2. CASE d = c
            BY <3>1, <3>2, <1>6, <1>7, <1>8 DEF ClerkStep
        <3> QED
            BY <3>1, <3>2, <1>5
    <2>2. CASE \E h \in Bolts : OtherPays(h) \/ Succeed(h) \/ Miscarry(h)
        BY <2>2, <1>9
    <2> QED
        BY <2>1, <2>2, <1>10 DEF Next
<1> QED
    BY <1>2, <1>3, <1>4, <1>11

\* The booking of a process that asked for the balance: it takes no more than is owed.
LEMMA BookMargin ==
    ASSUME Inv, Inv', FiniteHashes, IsFiniteSet(Tellers), BalancesAsked,
           NEW c \in Clerks, Book(c) \/ BookFee(c), NEW u \in Users, Undusted(u)'
    PROVE  /\ Undusted(u)
           /\ Balance(u) - Debts(u) \in Int /\ (Balance(u) - Debts(u))' \in Int
           /\ (Balance(u) - Debts(u))' >= Balance(u) - Debts(u)
<1> DEFINE h == clerk[c].hash
           v == clerk[c].user
<1>0. /\ TypeOK /\ TypeOK' /\ clerk[c] \in ClerkState /\ clerk \in [Clerks -> ClerkState]
      /\ h \in Bolts /\ v \in Users /\ clerk[c].pc \in {"paid", "principal"}
      /\ u \in Accounts /\ v \in Accounts
    BY AmountType DEF Inv, TypeOK, ClerkInv, ClerkOK, Book, BookFee
<1>1. Verb[c] = "cli" /\ c \in Tellers
    BY <1>0 DEF Inv, ClerkInv, ClerkOK, BalancesAsked, Tellers
<1> DEFINE d == IF v # u THEN 0 ELSE IF clerk[c].pc = "paid" THEN Price[h] ELSE Toll[h]
           out == Out(u)
           out2 == Out(u)'
<1>2. d \in Nat
    BY <1>0, AmountType
<1>3. /\ clerk[c].pc = "paid" => Book(c)
      /\ clerk[c].pc = "principal" => BookFee(c)
    BY DEF Book, BookFee
\* The rows.
<1>4. /\ UNCHANGED <<received, swapRow>>
      /\ \A k \in Bolts : paidOut'[k][u] = IF k = h /\ v = u /\ clerk[c].pc = "paid"
                                           THEN paidOut[k][u] + 1 ELSE paidOut[k][u]
      /\ \A k \in Bolts : feeRow'[k][u] = IF k = h /\ v = u /\ clerk[c].pc = "principal"
                                          THEN feeRow[k][u] + 1 ELSE feeRow[k][u]
    <2>1. CASE clerk[c].pc = "paid"
        <3>1. UNCHANGED <<received, swapRow, feeRow>>
            BY <1>1, <1>3, <2>1 DEF Book
        <3>2. \A k \in Bolts : paidOut'[k][u] = IF k = h /\ u = v THEN paidOut[k][u] + 1 ELSE paidOut[k][u]
            BY <1>0, <1>1, <1>3, <2>1, BookEffect
        <3> QED
            BY <2>1, <3>1, <3>2
    <2>2. CASE clerk[c].pc = "principal"
        <3>1. UNCHANGED <<received, swapRow, paidOut>> /\ feeRow' = WithRow(feeRow, h, v)
            BY <1>3, <2>2 DEF BookFee
        <3>2. feeRow \in [Bolts -> [Accounts -> Nat]]
            BY <1>0 DEF TypeOK
        <3>3. \A k \in Bolts : WithRow(feeRow, h, v)[k][u]
                                = IF k = h /\ u = v THEN feeRow[k][u] + 1 ELSE feeRow[k][u]
            BY <1>0, <3>2, WithRowType
        <3> QED
            BY <2>2, <3>1, <3>3
    <2> QED
        BY <1>0, <2>1, <2>2
<1>5. \A k \in Bolts : paidOut[k][u] \in Nat /\ feeRow[k][u] \in Nat /\ swapRow[k][u] \in Nat
    BY <1>0 DEF TypeOK
<1>6. Undusted(u) /\ (h \in Dust => v # u)
    <2>1. \A k \in Dust : k \in Bolts /\ paidOut'[k][u] = 0 /\ feeRow'[k][u] = 0
        BY DEF Undusted, Dust
    <2>2. \A k \in Dust : paidOut[k][u] = 0 /\ feeRow[k][u] = 0 /\ (k = h => v # u)
        BY <1>0, <1>4, <1>5, <2>1
    <2> QED
        BY <2>2 DEF Undusted
<1>7. out2[h] = out[h] + d /\ \A k \in Bolts \ {h} : out2[k] = out[k]
    <2>1. /\ \A k \in Bolts : out[k] = Price[k] * (paidOut[k][u] + swapRow[k][u]) + Toll[k] * feeRow[k][u]
          /\ \A k \in Bolts : out2[k] = Price[k] * (paidOut'[k][u] + swapRow'[k][u]) + Toll[k] * feeRow'[k][u]
        BY DEF Out
    <2>2. \A k \in Bolts \ {h} : out2[k] = out[k]
        BY <1>4, <2>1
    <2> DEFINE p == Price[h]
               t == Toll[h]
               a == paidOut[h][u] + swapRow[h][u]
               f == feeRow[h][u]
    <2>3. p \in Nat /\ t \in Nat /\ a \in Nat /\ f \in Nat
        BY <1>0, <1>5, AmountType
    <2>4. out[h] = p * a + t * f
        BY <1>0, <2>1
    <2>5. out2[h] = (IF v = u /\ clerk[c].pc = "paid" THEN p * (a + 1) ELSE p * a)
                      + (IF v = u /\ clerk[c].pc = "principal" THEN t * (f + 1) ELSE t * f)
        BY <1>0, <1>4, <1>5, <2>1
    <2>6. d = IF v # u THEN 0 ELSE IF clerk[c].pc = "paid" THEN p ELSE t
        OBVIOUS
    <2> HIDE DEF p, t, a, f, out, out2, d, v
    <2>7. p * (a + 1) = p * a + p /\ t * (f + 1) = t * f + t /\ p * a \in Nat /\ t * f \in Nat
        BY <2>3, Times
    <2>8. out2[h] = out[h] + d
        BY <1>0, <2>3, <2>4, <2>5, <2>6, <2>7
    <2> QED
        BY <2>2, <2>8
<1>8. Balance(u) \in Int /\ Balance(u)' \in Int /\ Balance(u)' >= Balance(u) - d
    <2> d \in Int
        BY <1>2
    <2> HIDE DEF d
    <2> QED
        BY <1>0, <1>4, <1>7, BalanceSpent
\* The debts.
<1>9. Owed(c, u) \in Int /\ Owed(c, u)' \in Int /\ Owed(c, u)' <= Owed(c, u) - d
    <2>1. Owed(c, u) \in Int /\ Owed(c, u)' \in Int
        BY OwedType, OwedNext
    <2>2. CASE v # u
        <3>1. d = 0 /\ Owed(c, u) = 0
            BY <2>2 DEF Owed
        <3>2. clerk'[c] = [clerk[c] EXCEPT !.pc = "principal"] \/ clerk'[c] = IdleClerk
            BY <1>0, <1>1 DEF Book, BookFee
        <3>3. Owed(c, u)' = 0
            BY <1>0, <2>2, <3>2 DEF Owed, IdleClerk, Spent, ClerkState
        <3> QED
            BY <3>1, <3>3
    <2>3. CASE v = u /\ clerk[c].pc = "paid"
        <3>1. clerk'[c] = [clerk[c] EXCEPT !.pc = "principal"]
            BY <1>0, <1>1, <1>3, <2>3 DEF Book
        <3>2. clerk'[c].pc = "principal" /\ clerk'[c].user = u /\ clerk'[c].hash = h
            BY <1>0, <2>3, <3>1 DEF ClerkState
        <3>3. Owed(c, u)' = Toll[h]
            BY <1>6, <2>3, <3>2 DEF Owed, Spent
        <3>4. Owed(c, u) = Price[h] + Toll[h] /\ d = Price[h]
            BY <1>6, <2>3 DEF Owed, Spent
        <3> QED
            BY <1>0, <3>3, <3>4, AmountType
    <2>4. CASE v = u /\ clerk[c].pc = "principal"
        <3>1. clerk'[c] = IdleClerk
            BY <1>0, <1>3, <2>4 DEF BookFee
        <3>2. Owed(c, u)' = 0
            BY <3>1 DEF Owed, IdleClerk, Spent
        <3>3. Owed(c, u) = Toll[h] /\ d = Toll[h]
            BY <1>6, <2>4 DEF Owed, Spent
        <3> QED
            BY <1>0, <3>2, <3>3, AmountType
    <2> QED
        BY <1>0, <2>1, <2>2, <2>3, <2>4
<1>10. \A e \in Tellers \ {c} : Owed(e, u)' = Owed(e, u)
    <2> SUFFICES ASSUME NEW e \in Tellers \ {c} PROVE Owed(e, u)' = Owed(e, u)
        OBVIOUS
    <2>1. clerk'[e] = clerk[e]
        BY <1>0 DEF Book, BookFee, Tellers
    <2> QED
        BY <2>1 DEF Owed
<1>11. Debts(u)' = Debts(u) - Owed(c, u) + Owed(c, u)' /\ Debts(u) \in Int
    BY <1>1, <1>10, DebtsChange, DebtsType
<1> HIDE DEF d
<1> QED
    BY <1>2, <1>6, <1>8, <1>9, <1>11

LEMMA MarginStep ==
    ASSUME Inv, Inv', FiniteHashes, IsFiniteSet(Tellers), BalancesAsked, Margin, Next
    PROVE  Margin'
<1> SUFFICES ASSUME NEW u \in Deny, Undusted(u)' PROVE Within(Balance(u) - Debts(u))'
    BY DEF Margin
<1>0. TypeOK /\ TypeOK' /\ u \in Users /\ u \in Accounts /\ u # Others /\ u # Nobody
    BY SettlementAssumption, AmountType DEF Inv, Accounts
<1> DEFINE b == Balance(u) - Debts(u)
           e == Balance(u)' - Debts(u)'
<1>1. b \in Int /\ Debts(u) \in Int /\ Balance(u) \in Int
    BY <1>0, BalanceParts, DebtsType
<1>2. ASSUME Undusted(u), e \in Int, e >= b PROVE Within(b)'
    <2>1. Within(b)
        BY <1>2 DEF Margin
    <2> HIDE DEF b, e
    <2>2. Within(e)
        BY <1>1, <1>2, <2>1, WithinKept
    <2> QED
        BY <2>2 DEF b, e, Within
\* What leaves the rows of payments alone.
<1>3. ASSUME \A c \in Clerks : ~Book(c) /\ ~BookFee(c)
      PROVE  Undusted(u) /\ Balance(u)' \in Int /\ Balance(u)' >= Balance(u)
    <2>1. CASE \E r \in Passes : Commit(r)
        <3>1. PICK r \in Passes : Commit(r)
            BY <2>1
        <3>2. /\ \A h \in Bolts : paidOut'[h][u] = paidOut[h][u]
              /\ \A n \in Notes : received'[n][u] = received[n][u] + 1 \/ received'[n][u] = received[n][u]
              /\ swapRow' = swapRow
            BY <1>0, <3>1, CommitEffect DEF Commit
        <3>3. \A h \in Bolts : feeRow'[h][u] = feeRow[h][u]
            BY <1>0, <3>1 DEF Commit, TypeOK
        <3>4. \A n \in Notes : received[n][u] \in Nat
            BY <1>0 DEF TypeOK
        <3>5. \A n \in Notes : received'[n][u] >= received[n][u]
            BY <3>2, <3>4
        <3>6. Undusted(u)
            BY <3>2, <3>3 DEF Undusted, Dust
        <3> QED
            BY <1>0, <3>2, <3>3, <3>5, <3>6, BalanceKept
    <2>2. CASE \A r \in Passes : ~Commit(r)
        <3>1. UNCHANGED <<paidOut, received, swapRow>>
            BY <1>3, <2>2, RowWriters
        <3>2. UNCHANGED feeRow
            BY <1>3, <2>2 DEF Next, ClerkStep, Work, AskPay, AskMint, Send, LoseBook, Store, LoseStore,
               GiveUp, OtherPays, Succeed, Miscarry, OtherMints, Arrive, ListPays, ListInvoices,
               LookPay, LookInvoice, FailPass, ledger
        <3>3. \A n \in Notes : received[n][u] \in Nat
            BY <1>0 DEF TypeOK
        <3>4. \A n \in Notes : received'[n][u] >= received[n][u]
            BY <3>1, <3>3
        <3>5. Undusted(u)
            BY <3>1, <3>2 DEF Undusted
        <3> QED
            BY <1>0, <3>1, <3>2, <3>4, <3>5, BalanceKept
    <2> QED
        BY <2>1, <2>2
<1>4. ASSUME NEW c \in Clerks, Book(c) \/ BookFee(c) PROVE Within(b)'
    <2>1. /\ Undusted(u)
          /\ (Balance(u) - Debts(u))' \in Int
          /\ (Balance(u) - Debts(u))' >= Balance(u) - Debts(u)
        BY <1>0, <1>4, BookMargin
    <2> QED
        BY <2>1, <1>2
<1>5. ASSUME NEW c \in Clerks, NEW v \in Users, NEW h \in Bolts, AskPay(c, v, h)
      PROVE  Within(b)'
    <2>1. /\ clerk' = [clerk EXCEPT ![c] = [pc |-> "asked", user |-> v, hash |-> h]]
          /\ clerk[c].pc = "idle" /\ Verb[c] = "cli" /\ c \in Tellers /\ MayPay(c, v, h)
        BY <1>5 DEF AskPay, BalancesAsked, Tellers
    <2>2. clerk \in [Clerks -> ClerkState]
        BY <1>0 DEF TypeOK
    <2>3. Undusted(u) /\ Balance(u)' = Balance(u)
        BY <1>5 DEF AskPay, ledger, Undusted, Balance
    <2>4. Owed(c, u) = 0
        BY <2>1 DEF Owed, Spent
    <2>5. \A x \in Tellers \ {c} : Owed(x, u)' = Owed(x, u)
        <3> SUFFICES ASSUME NEW x \in Tellers \ {c} PROVE Owed(x, u)' = Owed(x, u)
            OBVIOUS
        <3>1. clerk'[x] = clerk[x]
            BY <2>1, <2>2 DEF Tellers
        <3> QED
            BY <3>1 DEF Owed
    <2>6. Owed(c, u)' \in Int /\ Debts(u)' = Debts(u) - Owed(c, u) + Owed(c, u)'
        BY <1>0, <2>1, <2>5, DebtsChange
    <2>7. Owed(c, u)' = IF v # u \/ h \in Dust THEN 0 ELSE Price[h] + Toll[h]
        <3>1. clerk'[c] = [pc |-> "asked", user |-> v, hash |-> h]
            BY <2>1, <2>2
        <3> QED
            BY <3>1 DEF Owed, Spent
    <2>8. CASE v # u \/ h \in Dust
        <3>1. Debts(u)' = Debts(u)
            BY <1>1, <2>4, <2>6, <2>7, <2>8
        <3> QED
            BY <1>1, <1>2, <2>3, <3>1
    <2>9. CASE v = u /\ h \notin Dust
        <3>1. Price[h] \in Nat /\ Toll[h] \in Nat /\ Price[h] >= Sat /\ Toll[h] <= MaxToll
            BY <2>9, AmountType DEF Dust
        <3>2. Balance(u) \div Sat >= Price[h] \div Sat
            BY <2>1, <2>9, <3>1 DEF MayPay
        <3>3. Balance(u) >= Price[h] - (Sat - 1)
            BY <1>1, <3>1, <3>2, AmountType, WholeSats
        <3> DEFINE m == (MaxPrice + MaxToll) * Cardinality(Tellers)
        <3>4. m \in Int /\ Debts(u) <= m - (MaxPrice + MaxToll)
            <4>1. Cardinality(Tellers) \in Nat
                BY FS_CardinalityType
            <4> QED
                BY <1>0, <2>1, <2>4, <4>1, OthersOwe, AmountType
        <3> HIDE DEF m
        <3>5. Debts(u)' = Debts(u) + Price[h] + Toll[h]
            BY <1>1, <2>4, <2>6, <2>7, <2>9, <3>1
        <3>6. e + m >= MaxPrice - (Sat - 1)
            BY <1>1, <2>3, <3>1, <3>3, <3>4, <3>5, AmountType
        <3> QED
            BY <3>6 DEF Within, m
    <2> QED
        BY <2>8, <2>9
<1>6. CASE /\ \A c \in Clerks : ~Book(c) /\ ~BookFee(c)
           /\ \A c \in Clerks, v \in Users, h \in Bolts : ~AskPay(c, v, h)
    <2>1. \A c \in Tellers : Owed(c, u)' <= Owed(c, u)
        BY <1>0, <1>6, OwedStays DEF Tellers
    <2>2. Debts(u)' \in Int /\ Debts(u)' <= Debts(u)
        BY <1>0, <2>1, DebtsShrink
    <2>3. Undusted(u) /\ Balance(u)' \in Int /\ Balance(u)' >= Balance(u)
        BY <1>3, <1>6
    <2> QED
        BY <1>1, <1>2, <2>2, <2>3
<1> QED
    BY <1>4, <1>5, <1>6

\* However many processes compare one balance before any of them has paid, whatever the
\* network, the passes, other clients of the node and faults do meanwhile: as long as
\* every payment is `invoice pay`, an account without overdraft is in debt by a routing
\* fee and the rest of a satoshi at most, and by one payment more for each process but
\* the first (invoice 129-137, 166-172).
THEOREM AskingBoundsOverdraft ==
    ASSUME FiniteHashes, IsFiniteSet(Clerks), BalancesAsked
    PROVE  Spec => []OverdraftBounded
<1>0. IsFiniteSet(Tellers)
    BY FS_Subset DEF Tellers
<1>1. Init => Margin
    <2> SUFFICES ASSUME Init, NEW u \in Deny PROVE Balance(u) - Debts(u) >= 0
        BY DEF Margin, Within
    <2> DEFINE in == In(u)
               out == Out(u)
               f == [c \in Clerks |-> Owed(c, u)]
    <2>0. u \in Users /\ u \in Accounts /\ u # Nobody /\ TypeOK
        BY InvInit, SettlementAssumption, AmountType DEF Inv, Accounts
    <2>1. (\A n \in Notes : in[n] = 0) /\ (\A h \in Bolts : out[h] = 0) /\ (\A c \in Tellers : f[c] = 0)
        BY <2>0, AmountType DEF Init, In, Out, NoRows, Owed, IdleClerk, Spent, Tellers
    <2>2. /\ Balance(u) = Funds[u] + SumFunctionOnSet(in, Notes) - SumFunctionOnSet(out, Bolts)
          /\ Debts(u) = SumFunctionOnSet(f, Tellers)
        BY <2>0, BalanceParts DEF Debts
    <2> HIDE DEF in, out, f
    <2>3. /\ SumFunctionOnSet(in, Notes) = 0 /\ SumFunctionOnSet(out, Bolts) = 0
          /\ SumFunctionOnSet(f, Tellers) = 0
        BY <1>0, <2>1, SumZero DEF FiniteHashes
    <2>4. Funds[u] \in Int /\ Funds[u] >= 0
        BY <2>0, AmountType DEF BalancesAsked
    <2> QED
        BY <2>2, <2>3, <2>4
<1>2. Inv /\ Inv' /\ Margin /\ [Next]_vars => Margin'
    <2>1. ASSUME UNCHANGED vars, Margin PROVE Margin'
        <3>1. UNCHANGED <<received, paidOut, feeRow, swapRow, clerk>>
            BY <2>1 DEF vars
        <3>2. \A u \in Deny : Balance(u)' = Balance(u) /\ Debts(u)' = Debts(u) /\ Undusted(u)' = Undusted(u)
            BY <3>1 DEF Balance, Debts, Owed, Undusted
        <3> QED
            BY <2>1, <3>2 DEF Margin, Within
    <2> QED
        BY <1>0, <2>1, MarginStep
<1>3. Inv /\ Margin => OverdraftBounded
    <2> SUFFICES ASSUME Inv, Margin, NEW u \in Deny, Undusted(u)
                 PROVE  \/ Balance(u) >= 0
                        \/ Balance(u) + (MaxPrice + MaxToll) * Cardinality(Tellers) >= MaxPrice - (Sat - 1)
        BY DEF OverdraftBounded
    <2>1. u \in Users /\ TypeOK
        BY SettlementAssumption DEF Inv
    <2>2. Balance(u) \in Int /\ Debts(u) \in Int /\ Debts(u) >= 0
        BY <1>0, <2>1, BalanceParts, DebtsType
    <2>3. Within(Balance(u) - Debts(u))
        BY DEF Margin
    <2>4. Within(Balance(u))
        <3> DEFINE b == Balance(u) - Debts(u)
                   e == Balance(u)
        <3>1. b \in Int /\ e \in Int /\ e >= b /\ Within(b)
            BY <2>2, <2>3
        <3> HIDE DEF b, e
        <3>2. Within(e)
            BY <1>0, <3>1, WithinKept
        <3> QED
            BY <3>2 DEF e
    <2> QED
        BY <2>4 DEF Within
<1> QED
    BY InvInit, InvStep, <1>1, <1>2, <1>3, PTL DEF Spec
=============================================================================
