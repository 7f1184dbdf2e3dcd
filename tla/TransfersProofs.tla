--------------------------- MODULE TransfersProofs ---------------------------
(***************************************************************************)
(* What holds of Transfers for any accounts, amounts, fees and processes.  *)
(***************************************************************************)
EXTENDS Transfers, Sums

Amounts == {s * 1000 : s \in Sats}

\* No configured rate subsidises a transfer (the shipped fees.recfile has none).
FeeNotNegative == \A amt \in Amounts : OperatorFee(amt) >= 0

-----------------------------------------------------------------------------
\* The arithmetic of the skim.

LEMMA TruncDivInt == ASSUME NEW n \in Int, NEW d \in Nat \ {0}
                     PROVE  TruncDiv(n, d) \in Int
  BY DEF TruncDiv

LEMMA OperatorFeeInt == ASSUME NEW amt \in Int PROVE OperatorFee(amt) \in Int
  <1>1. amt * FeeRatePpm \in Int
    BY FeeTermsAssumption
  <1>2. TruncDiv(amt * FeeRatePpm, Ppm) \in Int
    BY <1>1, TruncDivInt, FeeTermsAssumption
  <1>3. QED
    BY <1>2, FeeTermsAssumption DEF OperatorFee

LEMMA SkimNat == ASSUME NEW amt \in Int PROVE Skim(amt) \in Nat
  BY OperatorFeeInt DEF Skim

\* A referrer's share is part of the skim: the house never pays one.
LEMMA ReferralWithinSkim ==
  ASSUME NEW skim \in Nat
  PROVE  /\ ReferralShare(skim) \in Nat
         /\ ReferralShare(skim) <= skim
  <1>1. PICK p \in 0..100 : p = DirectPct
    BY FeeTermsAssumption
  <1>2. skim * p \in Int /\ skim * p >= 0 /\ skim * p <= skim * 100
    OBVIOUS
  <1>3. QED
    BY <1>1, <1>2 DEF ReferralShare

LEMMA AmountsPositive == \A amt \in Amounts : amt \in Nat /\ amt > 0
  BY TransfersAssumption DEF Amounts

-----------------------------------------------------------------------------
\* Type correctness, with what the fields of a request in flight stand for.

WellFormed(q) ==
    q.pc # "idle" => /\ q.from \in Users
                     /\ q.to \in Accounts
                     /\ q.to # q.from
                     /\ q.amt \in Amounts

\* A share is set aside only for the sender's own referrer, out of the skim, and
\* after the sender's activity had reached the threshold.
ShareEarned(q) ==
    /\ q.referrer # Nobody => /\ q.pc = "split"
                              /\ Referrer[q.from] = q.referrer
                              /\ activity[q.from] >= MinActivity
                              /\ DailyCap > 0
                              /\ q.referral = ReferralShare(Skim(q.amt))
    /\ q.referrer = Nobody => q.referral = 0

RequestInv == \A w \in Workers : WellFormed(req[w]) /\ ShareEarned(req[w])

Inv == TypeOK /\ RequestInv

LEMMA RowsOnInt ==
  ASSUME NEW q \in Request, NEW a \in Accounts
  PROVE  RowsOn(q, a) \in Int
  <1>1. Skim(q.amt) \in Nat /\ q.amt \in Nat /\ q.referral \in Nat
    BY SkimNat DEF Request
  <1>2. QED
    BY <1>1 DEF RowsOn, HouseShare

LEMMA InvInit == Init => Inv
  <1> SUFFICES ASSUME Init PROVE Inv
    OBVIOUS
  <1>1. Idle \in Request
    BY DEF Idle, Request, Stage
  <1>2. TypeOK
    BY <1>1, TransfersAssumption DEF Init, TypeOK
  <1>3. RequestInv
    BY DEF Init, RequestInv, WellFormed, ShareEarned, Idle
  <1>4. QED
    BY <1>2, <1>3 DEF Inv

LEMMA InvStep == Inv /\ [Next]_vars => Inv'
  <1> SUFFICES ASSUME Inv, [Next]_vars PROVE Inv'
    OBVIOUS
  <1> USE DEF Inv
  <1>0. Idle \in Request /\ Idle.pc = "idle" /\ Idle.referrer = Nobody /\ Idle.referral = 0
    BY DEF Idle, Request, Stage
  <1>1. ASSUME NEW w \in Workers, req' = [req EXCEPT ![w] = Idle],
               UNCHANGED <<balance, activity, credited, calls>>
        PROVE  Inv'
    BY <1>0, <1>1 DEF TypeOK, RequestInv, WellFormed, ShareEarned
  <1>2. ASSUME NEW w \in Workers, NEW f \in Users, NEW t \in Accounts, NEW s \in Sats,
               Accept(w, f, t, s)
        PROVE  Inv'
    <2>1. s * 1000 \in Amounts /\ s * 1000 \in Nat
      BY TransfersAssumption DEF Amounts
    <2> DEFINE q == [pc |-> "accepted", from |-> f, to |-> t, amt |-> s * 1000,
                     referrer |-> Nobody, referral |-> 0]
    <2>2. /\ q \in Request
          /\ q.pc = "accepted" /\ q.from = f /\ q.to = t /\ q.amt = s * 1000
          /\ q.referrer = Nobody /\ q.referral = 0
      BY <2>1 DEF Idle, Request, Stage
    <2>3. req' = [req EXCEPT ![w] = q]
      BY <1>2 DEF Accept
    <2> HIDE DEF q
    <2>4. TypeOK'
      BY <1>2, <2>2, <2>3, TransfersAssumption DEF TypeOK, Accept
    <2>5. RequestInv'
      <3> SUFFICES ASSUME NEW v \in Workers
                   PROVE  WellFormed(req[v])' /\ ShareEarned(req[v])'
        BY DEF RequestInv
      <3>1. CASE v = w
        BY <1>2, <2>1, <2>2, <2>3, <3>1 DEF WellFormed, ShareEarned, Accept, TypeOK
      <3>2. CASE v # w
        BY <1>2, <2>3, <3>2 DEF RequestInv, WellFormed, ShareEarned, Accept, TypeOK
      <3>3. QED
        BY <3>1, <3>2
    <2>6. QED
      BY <2>4, <2>5
  <1>3. ASSUME NEW w \in Workers, Gate(w) PROVE Inv'
    BY <1>3 DEF Gate, TypeOK, RequestInv, WellFormed, ShareEarned, Request, Stage
  <1>4. ASSUME NEW w \in Workers, Refuse(w) PROVE Inv'
    BY <1>1, <1>4 DEF Refuse
  <1>5. ASSUME NEW w \in Workers, Check(w) PROVE Inv'
    <2>1. CASE Covered(req[w].from, req[w].amt)
      BY <1>5, <2>1 DEF Check, TypeOK, RequestInv, WellFormed, ShareEarned, Request, Stage
    <2>2. CASE ~Covered(req[w].from, req[w].amt)
      BY <1>1, <1>5, <2>2 DEF Check
    <2>3. QED
      BY <2>1, <2>2
  <1>6. ASSUME NEW w \in Workers, Split(w) PROVE Inv'
    <2> DEFINE f == req[w].from
               r == Sharing(f, req[w].amt)
               n == IF r = Nobody THEN 0 ELSE ReferralShare(Skim(req[w].amt))
    <2>1. r # Nobody => /\ r = Referrer[f] /\ r \in Users
                        /\ activity[f] >= MinActivity
                        /\ DailyCap > credited[r]
      BY DEF Sharing
    <2>2. n \in Nat
      BY SkimNat, ReferralWithinSkim DEF TypeOK, Request
    <2>3. req' = [req EXCEPT ![w].pc = "split", ![w].referrer = r, ![w].referral = n]
      BY <1>6 DEF Split
    <2>4. r \in Users \cup {Nobody} /\ (r # Nobody => DailyCap > 0)
      BY <2>1, TransfersAssumption DEF TypeOK, Accounts
    <2>5. n = IF r = Nobody THEN 0 ELSE ReferralShare(Skim(req[w].amt))
      OBVIOUS
    <2> HIDE DEF r, n
    <2>6. TypeOK'
      <3>1. [req[w] EXCEPT !.pc = "split", !.referrer = r, !.referral = n] \in Request
        BY <2>2, <2>4 DEF TypeOK, Request, Stage
      <3>2. QED
        BY <1>6, <2>3, <3>1 DEF TypeOK, Split
    <2>7. RequestInv'
      BY <1>6, <2>1, <2>3, <2>4, <2>5 DEF RequestInv, WellFormed, ShareEarned, Split, TypeOK, Request
    <2>8. QED
      BY <2>6, <2>7
  <1>7. ASSUME NEW w \in Workers, Post(w) PROVE Inv'
    <2>1. \A a \in Accounts : RowsOn(req[w], a) \in Int
      BY RowsOnInt DEF TypeOK
    <2>2. \A a \in Accounts : activity'[a] \in Nat /\ activity'[a] >= activity[a]
                              /\ credited'[a] \in Nat /\ balance'[a] \in Int
      BY <1>7, <2>1 DEF Post, Turnover, TypeOK, Request
    <2>3. TypeOK'
      BY <1>0, <1>7, <2>2 DEF Post, TypeOK
    <2>4. RequestInv'
      <3> SUFFICES ASSUME NEW v \in Workers
                   PROVE  WellFormed(req[v])' /\ ShareEarned(req[v])'
        BY DEF RequestInv
      <3>1. req' = [req EXCEPT ![w] = Idle]
        BY <1>7 DEF Post
      <3>2. CASE v = w
        BY <1>0, <3>1, <3>2 DEF WellFormed, ShareEarned, TypeOK
      <3>3. CASE v # w
        <4>1. req'[v] = req[v] /\ WellFormed(req[v]) /\ ShareEarned(req[v])
          BY <3>1, <3>3 DEF RequestInv, TypeOK
        <4>2. req[v].referrer # Nobody => req[v].from \in Accounts
          BY <4>1 DEF WellFormed, ShareEarned, Accounts
        <4>3. \A a \in Accounts : activity[a] >= MinActivity => activity'[a] >= MinActivity
          BY <2>2, TransfersAssumption DEF TypeOK
        <4>4. QED
          BY <4>1, <4>2, <4>3 DEF WellFormed, ShareEarned
      <3>4. QED
        BY <3>2, <3>3
    <2>5. QED
      BY <2>3, <2>4
  <1>8. ASSUME NEW w \in Workers, Fail(w) PROVE Inv'
    BY <1>1, <1>8 DEF Fail
  <1>9. CASE NewDay
    BY <1>9 DEF NewDay, TypeOK, RequestInv, WellFormed, ShareEarned
  <1>10. CASE UNCHANGED vars
    BY <1>10 DEF vars, TypeOK, RequestInv, WellFormed, ShareEarned
  <1>11. QED
    BY <1>2, <1>3, <1>4, <1>5, <1>6, <1>7, <1>8, <1>9, <1>10 DEF Next, Step

\* Every variable keeps its type, and a request in flight names two different
\* existing accounts, a requested amount and at most the sender's own referrer.
THEOREM TypeCorrect == Spec => []Inv
  BY InvInit, InvStep, PTL DEF Spec

-----------------------------------------------------------------------------
\* What each step does to the balance of an account that may not overdraw.

Debiting == {"covered", "split"}

Debit(q) == TotalDebit(q.amt)

LEMMA DebitNat ==
  ASSUME FeeNotNegative, NEW q, q.amt \in Amounts
  PROVE  /\ Debit(q) \in Nat
         /\ Debit(q) = q.amt + Skim(q.amt)
         /\ Debit(q) > 0
  BY AmountsPositive, OperatorFeeInt DEF FeeNotNegative, Debit, TotalDebit, Skim

\* A batch takes its own debit from the sender and nothing from anyone else.
LEMMA PostDebits ==
  ASSUME Inv, FeeNotNegative, NEW w \in Workers, Post(w), NEW a \in Users
  PROVE  /\ a = req[w].from => balance'[a] >= balance[a] - Debit(req[w])
         /\ a # req[w].from => balance'[a] >= balance[a]
  <1> DEFINE q == req[w]
  <1>1. /\ q \in Request /\ q.amt \in Amounts /\ q.referral \in Nat /\ a # House
        /\ a \in Accounts /\ balance[a] \in Int
    BY TransfersAssumption DEF Inv, TypeOK, RequestInv, WellFormed, Post, Request, Accounts
  <1>2. balance'[a] = balance[a] + RowsOn(q, a)
    BY <1>1 DEF Post
  <1>3. Skim(q.amt) \in Nat /\ q.amt \in Nat
    BY <1>1, AmountsPositive, SkimNat
  <1>4. /\ a = q.from => RowsOn(q, a) >= -q.amt - Skim(q.amt)
        /\ a # q.from => RowsOn(q, a) >= 0
    BY <1>1, <1>3 DEF RowsOn
  <1>5. RowsOn(q, a) \in Int
    BY <1>1, RowsOnInt
  <1>6. QED
    BY <1>1, <1>2, <1>3, <1>4, <1>5, DebitNat

\* Every other step leaves every balance alone.
LEMMA OnlyPostMovesMoney ==
  ASSUME [Next]_vars
  PROVE  (\E w \in Workers : Post(w)) \/ balance' = balance
  BY DEF Next, Step, Accept, Gate, Refuse, Check, Split, Fail, NewDay, vars

\* How the requests that have passed the check come and go.
LEMMA DebitingStep ==
  ASSUME Inv, [Next]_vars, NEW w \in Workers
  PROVE  /\ req'[w].pc \in Debiting /\ req[w].pc \notin Debiting =>
              /\ Check(w)
              /\ Covered(req[w].from, req[w].amt)
              /\ \A v \in Workers \ {w} : req'[v] = req[v]
         /\ req'[w].pc \in Debiting =>
              req'[w].from = req[w].from /\ req'[w].amt = req[w].amt
         /\ req[w].pc \in Debiting /\ req'[w].pc \notin Debiting =>
              /\ Post(w) \/ Fail(w)
              /\ \A v \in Workers \ {w} : req'[v] = req[v]
  <1> USE DEF Inv, TypeOK, Debiting
  <1>1. CASE \E v \in Workers, f \in Users, t \in Accounts, s \in Sats : Accept(v, f, t, s)
    BY <1>1 DEF Accept
  <1>2. CASE \E v \in Workers : Gate(v)
    BY <1>2 DEF Gate, Request
  <1>3. CASE \E v \in Workers : Refuse(v)
    BY <1>3 DEF Refuse, Idle
  <1>0. Idle.pc = "idle"
    BY DEF Idle
  <1>4. ASSUME NEW v \in Workers, Check(v)
        PROVE  /\ v # w => req'[w] = req[w]
               /\ v = w => /\ req[w].pc = "gated"
                           /\ req'[w].pc = "covered" \/ req'[w] = Idle
                           /\ req'[w].pc = "covered" => /\ Covered(req[w].from, req[w].amt)
                                                       /\ req'[w].from = req[w].from
                                                       /\ req'[w].amt = req[w].amt
               /\ \A u \in Workers \ {v} : req'[u] = req[u]
    <2>1. CASE Covered(req[v].from, req[v].amt)
      BY <1>4, <2>1 DEF Check, Request
    <2>2. CASE ~Covered(req[v].from, req[v].amt)
      BY <1>0, <1>4, <2>2 DEF Check
    <2>3. QED
      BY <2>1, <2>2
  <1>5. CASE \E v \in Workers : Split(v)
    BY <1>5 DEF Split, Request
  <1>6. ASSUME NEW v \in Workers, Post(v) \/ Fail(v)
        PROVE  req' = [req EXCEPT ![v] = Idle]
    BY <1>6 DEF Post, Fail
  <1>8. CASE NewDay \/ UNCHANGED vars
    BY <1>8 DEF NewDay, vars
  <1>9. CASE \E v \in Workers : Check(v)
    BY <1>0, <1>4, <1>9
  <1>10. CASE \E v \in Workers : Post(v) \/ Fail(v)
    BY <1>0, <1>6, <1>10
  <1>11. QED
    BY <1>1, <1>2, <1>3, <1>5, <1>8, <1>9, <1>10 DEF Next, Step

-----------------------------------------------------------------------------
\* Solvency when requests of one sender do not overlap.

\* What a request was found able to pay is still there.
Reserved ==
    \A w \in Workers :
        req[w].pc \in Debiting /\ req[w].from \in Deny
            => balance[req[w].from] >= Debit(req[w])

LEMMA ReservedStep ==
  ASSUME FeeNotNegative, Inv, Inv', OneCallPerSender, Reserved, NeverOverdrawn, [Next]_vars
  PROVE  Reserved' /\ NeverOverdrawn'
  <1> USE DEF Inv, TypeOK
  <1>0. Deny \subseteq Users /\ Users \subseteq Accounts
    BY TransfersAssumption DEF Accounts
  <1>1. CASE \E v \in Workers : Post(v)
    <2> PICK v \in Workers : Post(v)
      BY <1>1
    <2>0. /\ req[v].pc = "split" /\ req[v].from \in Users /\ req[v].amt \in Amounts
          /\ req' = [req EXCEPT ![v] = Idle]
      BY DEF Post, RequestInv, WellFormed
    <2>1. \A a \in Users : /\ a = req[v].from => balance'[a] >= balance[a] - Debit(req[v])
                           /\ a # req[v].from => balance'[a] >= balance[a]
      BY PostDebits
    <2>2. NeverOverdrawn'
      <3> SUFFICES ASSUME NEW a \in Deny PROVE balance'[a] >= 0
        BY DEF NeverOverdrawn
      <3>1. CASE a = req[v].from
        BY <1>0, <2>0, <2>1, <3>1, DebitNat DEF Reserved, Debiting
      <3>2. CASE a # req[v].from
        BY <1>0, <2>1, <3>2 DEF NeverOverdrawn
      <3>3. QED
        BY <3>1, <3>2
    <2>3. Reserved'
      <3> SUFFICES ASSUME NEW w \in Workers, req'[w].pc \in Debiting, req'[w].from \in Deny
                   PROVE  balance'[req'[w].from] >= Debit(req'[w])
        BY DEF Reserved, Debit
      <3>1. w # v /\ req'[w] = req[w]
        BY <2>0 DEF Idle, Debiting
      <3>2. req[w].from # req[v].from
        BY <2>0, <3>1 DEF OneCallPerSender, InFlight, Debiting
      <3>3. req[w].amt \in Amounts /\ balance[req[w].from] >= Debit(req[w])
        BY <3>1 DEF Reserved, RequestInv, WellFormed, Debiting
      <3>4. QED
        BY <1>0, <2>1, <3>1, <3>2, <3>3, DebitNat
    <2>4. QED
      BY <2>2, <2>3
  <1>2. CASE balance' = balance
    <2>1. NeverOverdrawn'
      BY <1>2 DEF NeverOverdrawn
    <2>2. Reserved'
      <3> SUFFICES ASSUME NEW w \in Workers, req'[w].pc \in Debiting, req'[w].from \in Deny
                   PROVE  balance[req'[w].from] >= Debit(req'[w])
        BY <1>2 DEF Reserved, Debit
      <3>1. req'[w].from = req[w].from /\ req'[w].amt = req[w].amt
        BY DebitingStep
      <3>2. CASE req[w].pc \in Debiting
        BY <3>1, <3>2 DEF Reserved, Debit
      <3>3. CASE req[w].pc \notin Debiting
        <4>1. Check(w) /\ Covered(req[w].from, req[w].amt)
          BY <3>3, DebitingStep
        <4>2. req[w].from \in Deny /\ req[w].amt \in Amounts
          BY <3>1, <4>1 DEF Check, RequestInv, WellFormed
        <4>3. Debit(req[w]) \in Nat /\ balance[req[w].from] \in Int
          BY <1>0, <4>2, DebitNat
        <4>4. balance[req[w].from] - Debit(req[w]) >= 0
          BY <4>1, <4>2 DEF Covered, Debit
        <4>5. QED
          BY <3>1, <4>3, <4>4 DEF Debit
      <3>4. QED
        BY <3>2, <3>3
    <2>3. QED
      BY <2>1, <2>2
  <1>3. QED
    BY <1>1, <1>2, OnlyPostMovesMoney

\* If no rate is negative, the balance check of api-account-transfer is all that
\* an account without overdraft needs, provided its requests come one at a time.
THEOREM Solvency ==
  ASSUME FeeNotNegative
  PROVE  Spec => ExclusiveSendersStaySolvent
  <1>1. Init => Reserved /\ NeverOverdrawn
    BY TransfersAssumption DEF Init, Reserved, NeverOverdrawn, Idle, Debiting, Accounts
  <1>2. /\ Inv /\ Inv' /\ OneCallPerSender /\ Reserved /\ NeverOverdrawn /\ [Next]_vars
        => Reserved' /\ NeverOverdrawn'
    BY ReservedStep
  <1>3. QED
    BY <1>1, <1>2, TypeCorrect, PTL DEF Spec, ExclusiveSendersStaySolvent

-----------------------------------------------------------------------------
\* How far overlapping requests can overdraw an account.

\* The requests that have passed the check on a and not yet written.
Pending(a) == {w \in Workers : req[w].pc \in Debiting /\ req[w].from = a}

\* With k of n processes pending on a, either one of them still finds its own debit
\* there but for what the n - k others may have taken, or one process fewer took it.
Margin(a) ==
    LET n == Cardinality(Workers)
        k == Cardinality(Pending(a))
    IN \/ balance[a] >= -((n - k - 1) * MaxDebit)
       \/ \E w \in Pending(a) : balance[a] >= Debit(req[w]) - (n - k) * MaxDebit

Margins == \A a \in Deny : Margin(a)

\* There is a process, and among the debits of a request a largest one.
LargestDebit == \E s \in Sats : \A t \in Sats : TotalDebit(t * 1000) <= TotalDebit(s * 1000)

LEMMA MaxDebitBounds ==
  ASSUME FeeNotNegative, LargestDebit
  PROVE  /\ MaxDebit \in Nat
         /\ \A q : q.amt \in Amounts => Debit(q) <= MaxDebit
  <1> DEFINE D == {TotalDebit(s * 1000) : s \in Sats}
  <1>1. \E d \in D : \A e \in D : e <= d
    BY DEF LargestDebit
  <1>2. MaxDebit \in D /\ \A e \in D : e <= MaxDebit
    BY <1>1 DEF MaxDebit
  <1>3. \A amt \in Amounts : TotalDebit(amt) \in Nat /\ TotalDebit(amt) \in D
    BY AmountsPositive, OperatorFeeInt DEF FeeNotNegative, TotalDebit, Amounts
  <1>4. MaxDebit \in Nat
    BY <1>2, <1>3 DEF Amounts
  <1>5. QED
    BY <1>2, <1>3, <1>4 DEF Debit

\* Multiplication by the largest debit, one step at a time.
LEMMA Multiples ==
  ASSUME NEW m \in Nat, NEW i \in Int
  PROVE  /\ i * m \in Int
         /\ (i + 1) * m = i * m + m
         /\ (i - 1) * m = i * m - m
         /\ i >= 0 => i * m >= 0
  OBVIOUS

LEMMA PendingFinite ==
  ASSUME IsFiniteSet(Workers), NEW a
  PROVE  /\ IsFiniteSet(Pending(a))
         /\ Cardinality(Workers) \in Nat
         /\ Cardinality(Pending(a)) \in 0..Cardinality(Workers)
  <1>1. Pending(a) \subseteq Workers
    BY DEF Pending
  <1>2. IsFiniteSet(Pending(a)) /\ Cardinality(Pending(a)) <= Cardinality(Workers)
    BY <1>1, FS_Subset
  <1>3. QED
    BY <1>2, FS_CardinalityType

\* What a step does to the pending requests of a: none, one more after its check,
\* or one less after its batch or its end.
LEMMA PendingStep ==
  ASSUME Inv, Inv', [Next]_vars, NEW a \in Users
  PROVE  \/ /\ Pending(a)' = Pending(a)
            /\ \A w \in Pending(a) : Debit(req'[w]) = Debit(req[w])
            /\ ~ \E w \in Workers : Post(w) /\ req[w].from = a
         \/ \E w \in Workers \ Pending(a) :
               /\ Pending(a)' = Pending(a) \cup {w}
               /\ balance' = balance
               /\ Covered(a, req'[w].amt) /\ req'[w].amt \in Amounts
         \/ \E w \in Pending(a) :
               /\ Pending(a)' = Pending(a) \ {w}
               /\ \A v \in Pending(a) \ {w} : req'[v] = req[v]
               /\ balance' = balance \/ Post(w)
  <1>1. CASE \E w \in Workers : /\ req[w].pc \in Debiting /\ req[w].from = a
                                /\ req'[w].pc \notin Debiting
    <2> PICK w \in Workers : /\ req[w].pc \in Debiting /\ req[w].from = a
                             /\ req'[w].pc \notin Debiting
      BY <1>1
    <2>1. (Post(w) \/ Fail(w)) /\ \A v \in Workers \ {w} : req'[v] = req[v]
      BY DebitingStep
    <2>2. Pending(a)' = Pending(a) \ {w}
      BY <2>1 DEF Pending
    <2>3. balance' = balance \/ Post(w)
      BY <2>1 DEF Fail
    <2>4. QED
      BY <2>1, <2>2, <2>3 DEF Pending
  <1>2. CASE \E w \in Workers : /\ req'[w].pc \in Debiting /\ req'[w].from = a
                                /\ req[w].pc \notin Debiting
    <2> PICK w \in Workers : /\ req'[w].pc \in Debiting /\ req'[w].from = a
                             /\ req[w].pc \notin Debiting
      BY <1>2
    <2>1. /\ Check(w) /\ Covered(req[w].from, req[w].amt)
          /\ \A v \in Workers \ {w} : req'[v] = req[v]
          /\ req'[w].from = req[w].from /\ req'[w].amt = req[w].amt
      BY DebitingStep
    <2>2. Pending(a)' = Pending(a) \cup {w} /\ w \notin Pending(a)
      BY <2>1 DEF Pending
    <2>3. req'[w].amt \in Amounts
      BY DEF Inv, RequestInv, WellFormed, Debiting
    <2>4. QED
      BY <2>1, <2>2, <2>3 DEF Check
  <1>3. CASE \A w \in Workers :
               /\ req[w].pc \in Debiting /\ req[w].from = a => req'[w].pc \in Debiting
               /\ req'[w].pc \in Debiting /\ req'[w].from = a => req[w].pc \in Debiting
    <2>1. Pending(a)' = Pending(a)
      BY <1>3, DebitingStep DEF Pending
    <2>2. \A w \in Pending(a) : Debit(req'[w]) = Debit(req[w])
      BY <1>3, DebitingStep DEF Pending, Debit
    <2>3. ~ \E w \in Workers : Post(w) /\ req[w].from = a
      BY <1>3 DEF Post, Idle, Debiting, Inv, TypeOK
    <2>4. QED
      BY <2>1, <2>2, <2>3
  <1>4. QED
    BY <1>1, <1>2, <1>3

LEMMA MarginStep ==
  ASSUME FeeNotNegative, LargestDebit, IsFiniteSet(Workers),
         Inv, Inv', [Next]_vars, NEW a \in Deny, Margin(a)
  PROVE  Margin(a)'
  <1> DEFINE n == Cardinality(Workers)
             k == Cardinality(Pending(a))
             M == MaxDebit
  <1>0. /\ a \in Users /\ a \in Accounts
        /\ balance[a] \in Int /\ balance'[a] \in Int
        /\ n \in Nat /\ k \in 0..n /\ M \in Nat
    BY TransfersAssumption, PendingFinite, MaxDebitBounds DEF Accounts, Inv, TypeOK
  <1>1. \A w \in Pending(a) : Debit(req[w]) \in Nat /\ Debit(req[w]) <= M
    BY DebitNat, MaxDebitBounds DEF Pending, Inv, RequestInv, WellFormed, Debiting
  <1>2. /\ (n - k - 1) * M \in Int
        /\ (n - k) * M = (n - k - 1) * M + M
        /\ (n - k + 1) * M = (n - k) * M + M
        /\ (n - k - 1) * M = (n - k) * M - M
        /\ (n - k) * M \in Int
        /\ (n - k) * M >= 0
    <2>1. n - k \in Int /\ n - k - 1 \in Int /\ n - k >= 0 /\ (n - k - 1) + 1 = n - k
      BY <1>0
    <2> HIDE DEF n, k, M
    <2>2. QED
      BY <1>0, <2>1, Multiples
  <1>3. CASE /\ Pending(a)' = Pending(a)
             /\ \A w \in Pending(a) : Debit(req'[w]) = Debit(req[w])
             /\ ~ \E w \in Workers : Post(w) /\ req[w].from = a
    <2>1. balance'[a] >= balance[a]
      BY <1>0, <1>3, OnlyPostMovesMoney, PostDebits
    <2>2. QED
      BY <1>0, <1>1, <1>2, <1>3, <2>1 DEF Margin
  <1>4. ASSUME NEW w \in Workers \ Pending(a),
               Pending(a)' = Pending(a) \cup {w},
               balance' = balance, Covered(a, req'[w].amt), req'[w].amt \in Amounts
        PROVE  Margin(a)'
    <2>1. Cardinality(Pending(a)') \in 0..n
      BY PendingFinite, <1>4, FS_Subset, FS_CardinalityType DEF Pending
    <2>2. (n - Cardinality(Pending(a)')) * M \in Int /\ (n - Cardinality(Pending(a)')) * M >= 0
      <3> HIDE DEF M
      <3> QED
        BY <1>0, <2>1, Multiples
    <2>3. balance'[a] >= Debit(req'[w]) /\ Debit(req'[w]) \in Nat
      BY <1>0, <1>4, DebitNat DEF Covered, Debit
    <2>4. balance'[a] >= Debit(req'[w]) - (n - Cardinality(Pending(a)')) * M
      BY <1>0, <2>2, <2>3
    <2>5. w \in Pending(a)'
      BY <1>4
    <2>6. QED
      BY <2>4, <2>5 DEF Margin
  <1>5. ASSUME NEW w \in Pending(a),
               Pending(a)' = Pending(a) \ {w},
               \A v \in Pending(a) \ {w} : req'[v] = req[v],
               balance' = balance \/ Post(w)
        PROVE  Margin(a)'
    <2>1. Cardinality(Pending(a)') = k - 1
      BY <1>5, PendingFinite, FS_RemoveElement
    <2>2. /\ n - Cardinality(Pending(a)') - 1 = n - k
          /\ n - Cardinality(Pending(a)') = n - k + 1
      BY <1>0, <2>1
    <2>3. balance'[a] >= balance[a] - Debit(req[w])
      BY <1>0, <1>1, <1>5, PostDebits DEF Pending
    <2>4. CASE \/ balance[a] >= -((n - k - 1) * M)
               \/ balance[a] >= Debit(req[w]) - (n - k) * M
      <3>1. balance'[a] >= -((n - k) * M)
        BY <1>0, <1>1, <1>2, <2>3, <2>4
      <3>2. QED
        BY <2>2, <3>1 DEF Margin
    <2>5. CASE \E v \in Pending(a) \ {w} : balance[a] >= Debit(req[v]) - (n - k) * M
      <3> PICK v \in Pending(a) \ {w} : balance[a] >= Debit(req[v]) - (n - k) * M
        BY <2>5
      <3>1. Debit(req'[v]) = Debit(req[v]) /\ v \in Pending(a)'
        BY <1>5 DEF Debit
      <3>2. balance'[a] >= Debit(req'[v]) - (n - k + 1) * M
        BY <1>0, <1>1, <1>2, <2>3, <3>1
      <3>3. QED
        BY <2>2, <3>1, <3>2 DEF Margin
    <2>6. QED
      BY <2>4, <2>5 DEF Margin
  <1>6. QED
    BY <1>0, <1>3, <1>4, <1>5, PendingStep

\* With n request processes, however they overlap, fail or die, an account without
\* overdraft is never more than n - 1 of the largest debits below zero.
THEOREM OverdraftBound ==
  ASSUME FeeNotNegative, LargestDebit, IsFiniteSet(Workers), Workers # {}
  PROVE  Spec => []OverdraftBounded
  <1>0. MaxDebit \in Nat /\ Cardinality(Workers) \in Nat /\ Cardinality(Workers) - 1 >= 0
    BY MaxDebitBounds, FS_CardinalityType, FS_EmptySet
  <1>1. Init => Margins
    <2> SUFFICES ASSUME Init, NEW a \in Deny PROVE Margin(a)
      BY DEF Margins
    <2>1. Pending(a) = {}
      BY DEF Init, Pending, Idle, Debiting
    <2>2. Cardinality(Pending(a)) = 0
      BY <2>1, FS_EmptySet
    <2>3. balance[a] >= 0 /\ balance[a] \in Int
      BY TransfersAssumption DEF Init, Accounts
    <2>4. (Cardinality(Workers) - 1) * MaxDebit >= 0
      BY <1>0, Multiples
    <2>5. Cardinality(Workers) - Cardinality(Pending(a)) - 1 = Cardinality(Workers) - 1
      BY <1>0, <2>2
    <2>6. QED
      BY <1>0, <2>3, <2>4, <2>5, Multiples DEF Margin
  <1>2. Inv /\ Inv' /\ Margins /\ [Next]_vars => Margins'
    BY MarginStep DEF Margins
  <1>3. Inv /\ Margins => OverdraftBounded
    <2> SUFFICES ASSUME Inv, Margins, NEW a \in Deny
                 PROVE  balance[a] >= -(Cardinality(Workers) - 1) * MaxDebit
      BY DEF OverdraftBounded
    <2> DEFINE n == Cardinality(Workers)
               k == Cardinality(Pending(a))
               M == MaxDebit
    <2>1. n \in Nat /\ k \in 0..n /\ M \in Nat /\ balance[a] \in Int
      BY <1>0, PendingFinite, TransfersAssumption DEF Inv, TypeOK, Accounts
    <2>2. \A w \in Pending(a) : Debit(req[w]) \in Nat /\ k >= 1
      <3>1. \A w \in Pending(a) : Debit(req[w]) \in Nat
        BY DebitNat DEF Pending, Inv, RequestInv, WellFormed, Debiting
      <3>2. Pending(a) # {} => k # 0
        BY PendingFinite, FS_EmptySet
      <3>3. QED
        BY <2>1, <3>1, <3>2
    <2>3. /\ \A i \in Int : i <= n - 1 => i * M <= (n - 1) * M
          /\ -(n - 1) * M = -((n - 1) * M)
          /\ (n - 1) * M \in Int
      <3> HIDE DEF n, M
      <3> QED
        BY <2>1
    <2>4. CASE balance[a] >= -((n - k - 1) * M)
      <3>1. (n - k - 1) * M <= (n - 1) * M /\ (n - k - 1) * M \in Int
        BY <2>1, <2>3
      <3>2. QED
        BY <2>1, <2>3, <2>4, <3>1
    <2>5. CASE \E w \in Pending(a) : balance[a] >= Debit(req[w]) - (n - k) * M
      <3>1. k >= 1
        BY <2>2, <2>5
      <3>2. (n - k) * M <= (n - 1) * M /\ (n - k) * M \in Int
        BY <2>1, <2>3, <3>1
      <3>3. QED
        BY <2>1, <2>2, <2>3, <2>5, <3>2
    <2>6. QED
      BY <2>4, <2>5 DEF Margins, Margin
  <1>4. QED
    BY <1>1, <1>2, <1>3, TypeCorrect, PTL DEF Spec

-----------------------------------------------------------------------------
\* Referral credits.

LEMMA PostCredits ==
  ASSUME Inv, NEW w \in Workers, Post(w), NEW r \in Users
  PROVE  credited'[r] = credited[r] + IF r = req[w].referrer THEN req[w].referral ELSE 0
  BY TransfersAssumption DEF Inv, TypeOK, Post, Accounts

LEMMA OnlyPostCredits ==
  ASSUME Inv, [Next]_vars
  PROVE  (\E w \in Workers : Post(w)) \/ credited' = credited \/ credited' = [a \in Accounts |-> 0]
  BY DEF Next, Step, Accept, Gate, Refuse, Check, Split, Fail, NewDay, vars

LEMMA EarnedStep ==
  ASSUME Inv, [Next]_vars, NEW r \in Users, credited'[r] > credited[r]
  PROVE  \E f \in Users : /\ Referrer[f] = r
                          /\ activity[f] >= MinActivity
                          /\ balance'[f] # balance[f]
  <1>0. r \in Accounts /\ credited[r] \in Nat
    BY DEF Inv, TypeOK, Accounts
  <1>1. PICK w \in Workers : Post(w)
    BY <1>0, OnlyPostCredits
  <1> DEFINE q == req[w]
             f == q.from
             skim == Skim(q.amt)
  <1>2. q.referrer = r
    BY <1>0, <1>1, PostCredits
  <1>3. /\ f \in Users /\ f \in Accounts /\ f # q.to /\ q.amt \in Amounts /\ f # House
        /\ Referrer[f] = r /\ activity[f] >= MinActivity
        /\ q.referral = ReferralShare(skim) /\ balance[f] \in Int
    BY <1>1, <1>2, TransfersAssumption
    DEF Post, Inv, RequestInv, WellFormed, ShareEarned, TypeOK, Accounts
  <1>4. /\ q.amt \in Nat /\ q.amt > 0 /\ skim \in Nat
        /\ q.referral \in Nat /\ q.referral <= skim
    BY <1>3, AmountsPositive, SkimNat, ReferralWithinSkim
  <1>5. RowsOn(q, f) < 0 /\ RowsOn(q, f) \in Int
    BY <1>3, <1>4 DEF RowsOn
  <1>6. balance'[f] = balance[f] + RowsOn(q, f)
    BY <1>1, <1>3 DEF Post
  <1>7. QED
    BY <1>3, <1>5, <1>6

\* A referral credit always belongs to a paying referee of that referrer who had
\* moved the minimum before.
THEOREM ReferralsEarned == Spec => ReferralEarned
  <1>1. Inv /\ [Next]_vars => [\A r \in Users : credited'[r] > credited[r] =>
            \E f \in Users : /\ Referrer[f] = r
                             /\ activity[f] >= MinActivity
                             /\ balance'[f] # balance[f]]_vars
    BY EarnedStep
  <1>2. QED
    BY <1>1, TypeCorrect, PTL DEF Spec, ReferralEarned

\* The requests that have set a share for a aside.
Sharers(a) == {w \in Workers : req[w].referrer = a}

CapMargin(a) ==
    \/ credited[a] + Cardinality(Sharers(a)) * MaxReferral
          < DailyCap + Cardinality(Workers) * MaxReferral
    \/ credited[a] = 0 /\ Sharers(a) = {}

LargestReferral ==
    \E s \in Sats : \A t \in Sats :
        ReferralShare(Skim(t * 1000)) <= ReferralShare(Skim(s * 1000))

LEMMA MaxReferralBounds ==
  ASSUME LargestReferral
  PROVE  /\ MaxReferral \in Nat
         /\ \A amt \in Amounts : ReferralShare(Skim(amt)) <= MaxReferral
  <1> DEFINE D == {ReferralShare(Skim(s * 1000)) : s \in Sats}
  <1>1. \E d \in D : \A e \in D : e <= d
    BY DEF LargestReferral
  <1>2. MaxReferral \in D /\ \A e \in D : e <= MaxReferral
    BY <1>1 DEF MaxReferral
  <1>3. \A amt \in Amounts : ReferralShare(Skim(amt)) \in Nat /\ ReferralShare(Skim(amt)) \in D
    BY AmountsPositive, SkimNat, ReferralWithinSkim DEF Amounts
  <1>4. QED
    BY <1>2, <1>3 DEF Amounts

LEMMA SharersFinite ==
  ASSUME IsFiniteSet(Workers), NEW a
  PROVE  /\ IsFiniteSet(Sharers(a))
         /\ Cardinality(Workers) \in Nat
         /\ Cardinality(Sharers(a)) \in 0..Cardinality(Workers)
  <1>1. Sharers(a) \subseteq Workers
    BY DEF Sharers
  <1>2. IsFiniteSet(Sharers(a)) /\ Cardinality(Sharers(a)) <= Cardinality(Workers)
    BY <1>1, FS_Subset
  <1>3. QED
    BY <1>2, FS_CardinalityType

\* What a step does to the shares set aside for a.
LEMMA SharersStep ==
  ASSUME Inv, [Next]_vars, NEW a \in Users
  PROVE  \/ /\ Sharers(a)' = Sharers(a)
            /\ credited'[a] = credited[a] \/ credited'[a] = 0
         \/ \E w \in Workers \ Sharers(a) :
               /\ Sharers(a)' = Sharers(a) \cup {w}
               /\ credited'[a] = credited[a]
               /\ credited[a] < DailyCap
         \/ \E w \in Sharers(a) :
               /\ Sharers(a)' = Sharers(a) \ {w}
               /\ \/ credited'[a] = credited[a]
                  \/ credited'[a] = credited[a] + ReferralShare(Skim(req[w].amt))
  <1> USE DEF Inv, TypeOK, Sharers
  <1>0. a \in Accounts /\ a # Nobody /\ Idle.referrer = Nobody
    BY TransfersAssumption DEF Accounts, Idle
  <1>1. CASE \E w \in Workers : Gate(w)
    BY <1>1 DEF Gate, Request
  <1>2. CASE \E w \in Workers, f \in Users, t \in Accounts, s \in Sats : Accept(w, f, t, s)
    BY <1>0, <1>2 DEF Accept, RequestInv, ShareEarned
  <1>3. ASSUME NEW w \in Workers, req' = [req EXCEPT ![w] = Idle],
               credited' = credited
        PROVE  \/ Sharers(a)' = Sharers(a) /\ credited'[a] = credited[a]
               \/ w \in Sharers(a) /\ Sharers(a)' = Sharers(a) \ {w} /\ credited'[a] = credited[a]
    BY <1>0, <1>3
  <1>4. CASE \E w \in Workers : Refuse(w) \/ Fail(w)
    BY <1>3, <1>4 DEF Refuse, Fail
  <1>5. CASE \E w \in Workers : Check(w)
    <2> PICK w \in Workers : Check(w)
      BY <1>5
    <2>1. CASE Covered(req[w].from, req[w].amt)
      BY <2>1 DEF Check, Request
    <2>2. CASE ~Covered(req[w].from, req[w].amt)
      BY <1>3, <2>2 DEF Check
    <2>3. QED
      BY <2>1, <2>2
  <1>6. CASE \E w \in Workers : Split(w)
    <2> PICK w \in Workers : Split(w)
      BY <1>6
    <2> DEFINE r == Sharing(req[w].from, req[w].amt)
    <2>1. /\ req'[w].referrer = r
          /\ \A v \in Workers \ {w} : req'[v] = req[v]
          /\ credited' = credited /\ req[w].referrer = Nobody
      BY DEF Split, Request, RequestInv, ShareEarned
    <2>2. r = a => credited[a] < DailyCap
      BY <1>0 DEF Sharing
    <2> HIDE DEF r
    <2>3. CASE r = a
      BY <1>0, <2>1, <2>2, <2>3
    <2>4. CASE r # a
      BY <1>0, <2>1, <2>4
    <2>5. QED
      BY <2>3, <2>4
  <1>7. CASE \E w \in Workers : Post(w)
    <2> PICK w \in Workers : Post(w)
      BY <1>7
    <2>1. req' = [req EXCEPT ![w] = Idle]
      BY DEF Post
    <2>2. credited'[a] = credited[a] + IF a = req[w].referrer THEN req[w].referral ELSE 0
      BY PostCredits
    <2>3. CASE w \in Sharers(a)
      <3>1. req[w].referral = ReferralShare(Skim(req[w].amt))
        BY <1>0, <2>3 DEF RequestInv, ShareEarned
      <3>2. QED
        BY <1>0, <2>1, <2>2, <2>3, <3>1
    <2>4. CASE w \notin Sharers(a)
      BY <1>0, <2>1, <2>2, <2>4
    <2>5. QED
      BY <2>3, <2>4
  <1>8. CASE NewDay \/ UNCHANGED vars
    BY <1>0, <1>8 DEF NewDay, vars
  <1>9. QED
    BY <1>1, <1>2, <1>4, <1>5, <1>6, <1>7, <1>8 DEF Next, Step

LEMMA CapMarginStep ==
  ASSUME LargestReferral, IsFiniteSet(Workers), Inv, Inv', [Next]_vars,
         NEW a \in Users, CapMargin(a)
  PROVE  CapMargin(a)'
  <1> DEFINE n == Cardinality(Workers)
             k == Cardinality(Sharers(a))
             M == MaxReferral
  <1>0. /\ credited[a] \in Nat /\ credited'[a] \in Nat /\ DailyCap \in Nat
        /\ n \in Nat /\ k \in 0..n /\ M \in Nat
    BY TransfersAssumption, SharersFinite, MaxReferralBounds DEF Accounts, Inv, TypeOK
  <1>1. \A i \in 0..n : i * M \in Nat /\ i * M <= n * M /\ (i < n => i * M + M <= n * M)
    <2> HIDE DEF n, M
    <2> SUFFICES ASSUME NEW i \in 0..n
                 PROVE  i * M \in Nat /\ i * M <= n * M /\ (i < n => i * M + M <= n * M)
      OBVIOUS
    <2>1. i * M \in Nat /\ (n - i) * M >= 0 /\ n * M = i * M + (n - i) * M
      BY <1>0
    <2>2. i < n => (n - i - 1) * M >= 0 /\ (n - i) * M = (n - i - 1) * M + M
      BY <1>0
    <2>3. QED
      BY <1>0, <2>1, <2>2
  <1>2. n * M \in Nat /\ k * M \in Nat /\ k * M <= n * M
    BY <1>0, <1>1
  <1>3. CASE /\ Sharers(a)' = Sharers(a)
             /\ credited'[a] = credited[a] \/ credited'[a] = 0
    BY <1>0, <1>2, <1>3 DEF CapMargin
  <1>4. ASSUME NEW w \in Workers \ Sharers(a),
               Sharers(a)' = Sharers(a) \cup {w}, credited'[a] = credited[a],
               credited[a] < DailyCap
        PROVE  CapMargin(a)'
    <2>1. Cardinality(Sharers(a)') = k + 1 /\ k + 1 \in 0..n
      <3>1. Cardinality(Sharers(a)') = k + 1
        BY <1>4, SharersFinite, FS_AddElement
      <3>2. Sharers(a) \cup {w} \subseteq Workers
        BY <1>4 DEF Sharers
      <3>3. QED
        BY <1>0, <1>4, <3>1, <3>2, FS_Subset
    <2>2. (k + 1) * M \in Nat /\ (k + 1) * M <= n * M
      BY <1>1, <2>1
    <2>3. QED
      BY <1>0, <1>2, <1>4, <2>1, <2>2 DEF CapMargin
  <1>5. ASSUME NEW w \in Sharers(a),
               Sharers(a)' = Sharers(a) \ {w},
               \/ credited'[a] = credited[a]
               \/ credited'[a] = credited[a] + ReferralShare(Skim(req[w].amt))
        PROVE  CapMargin(a)'
    <2>1. Cardinality(Sharers(a)') = k - 1 /\ k - 1 \in 0..n
      <3>1. Cardinality(Sharers(a)') = k - 1
        BY <1>5, SharersFinite, FS_RemoveElement
      <3>2. k # 0
        BY SharersFinite, FS_EmptySet
      <3>3. QED
        BY <1>0, <3>1, <3>2
    <2>2. k * M = (k - 1) * M + M /\ (k - 1) * M \in Int
      <3> HIDE DEF k, M
      <3> QED
        BY <1>0, Multiples
    <2>3. req[w].amt \in Amounts
      BY <1>5, TransfersAssumption
      DEF Sharers, Inv, RequestInv, WellFormed, ShareEarned, Accounts
    <2>4. ReferralShare(Skim(req[w].amt)) \in Nat /\ ReferralShare(Skim(req[w].amt)) <= M
      BY <2>3, AmountsPositive, SkimNat, ReferralWithinSkim, MaxReferralBounds
    <2>5. credited[a] + k * M < DailyCap + n * M
      BY <1>5 DEF CapMargin
    <2>6. QED
      BY <1>0, <1>2, <1>5, <2>1, <2>2, <2>4, <2>5 DEF CapMargin
  <1>6. QED
    BY <1>3, <1>4, <1>5, SharersStep

\* The cap on a referrer's credits of a day is passed by less than one largest
\* credit per request process, whatever the interleaving and the time of midnight.
THEOREM CapOvershootBound ==
  ASSUME LargestReferral, IsFiniteSet(Workers)
  PROVE  Spec => []CapOvershootBounded
  <1> DEFINE CapMargins == \A a \in Users : CapMargin(a)
  <1>1. Init => CapMargins
    <2>1. Init => \A a \in Users : credited[a] = 0 /\ Sharers(a) = {}
      BY TransfersAssumption DEF Init, Accounts, Sharers, Idle
    <2>2. QED
      BY <2>1 DEF CapMargin
  <1>2. Inv /\ Inv' /\ CapMargins /\ [Next]_vars => CapMargins'
    BY CapMarginStep
  <1>3. Inv /\ CapMargins => CapOvershootBounded
    <2> SUFFICES ASSUME Inv, NEW a \in Users, CapMargin(a)
                 PROVE  \/ credited[a] < DailyCap + Cardinality(Workers) * MaxReferral
                        \/ credited[a] = 0
      BY DEF CapOvershootBounded
    <2> DEFINE kM == Cardinality(Sharers(a)) * MaxReferral
               nM == Cardinality(Workers) * MaxReferral
    <2>1. kM \in Nat /\ nM \in Nat /\ credited[a] \in Nat /\ DailyCap \in Nat
      BY SharersFinite, MaxReferralBounds, Multiples, TransfersAssumption
      DEF Inv, TypeOK, Accounts
    <2>2. CASE credited[a] + kM < DailyCap + nM
      <3> HIDE DEF kM, nM
      <3> QED
        BY <2>1, <2>2 DEF kM, nM
    <2>3. QED
      BY <2>2 DEF CapMargin
  <1>4. QED
    BY <1>1, <1>2, <1>3, TypeCorrect, PTL DEF Spec

-----------------------------------------------------------------------------
\* The accounts as a bank.

LEMMA BankSums == ASSUME NEW f PROVE Promised!SumFunction(f) = SumFunctionOnSet(f, DOMAIN f)
  BY DEF Promised!SumFunction, Promised!SumFunctionOnSet, Promised!FoldFunctionOnSet,
         Promised!MapThenFoldSet, SumFunctionOnSet, FoldFunctionOnSet, MapThenFoldSet

\* A batch takes from the sender, and from nobody else ...
LEMMA PostTakesFromSender ==
  ASSUME Inv, NEW w \in Workers, Post(w), NEW a \in Accounts \ {req[w].from}
  PROVE  balance'[a] >= balance[a]
  <1> DEFINE q == req[w]
             skim == Skim(q.amt)
  <1>1. /\ q.amt \in Nat /\ q.referral \in Nat /\ skim \in Nat /\ q.referral <= skim
        /\ balance[a] \in Int
    <2>1. q.amt \in Nat /\ q.referral \in Nat /\ balance[a] \in Int
      BY DEF Inv, TypeOK, Request
    <2>2. skim \in Nat
      BY <2>1, SkimNat
    <2>3. q.referral = 0 \/ q.referral = ReferralShare(skim)
      BY DEF Inv, RequestInv, ShareEarned
    <2>4. QED
      BY <2>1, <2>2, <2>3, ReferralWithinSkim
  <1>2. RowsOn(q, a) \in Nat
    BY <1>1 DEF RowsOn, HouseShare
  <1>3. balance'[a] = balance[a] + RowsOn(q, a)
    BY DEF Post
  <1>4. QED
    BY <1>1, <1>2, <1>3

\* ... and its rows add up to nothing: what the sender loses the recipient, the
\* house and the referrer gain.
LEMMA RowsBalance ==
  ASSUME Inv, NEW w \in Workers, Post(w), IsFiniteSet(Accounts)
  PROVE  SumFunctionOnSet([a \in Accounts |-> RowsOn(req[w], a)], Accounts) = 0
  <1> DEFINE q == req[w]
             skim == Skim(q.amt)
             Debited  == [a \in Accounts |-> IF a = q.from THEN -q.amt - skim ELSE 0]
             Credited == [a \in Accounts |-> IF a = q.to THEN q.amt ELSE 0]
             Housed   == [a \in Accounts |-> IF a = House THEN skim - q.referral ELSE 0]
             Shared   == [a \in Accounts |-> IF a = q.referrer THEN q.referral ELSE 0]
             Both     == [a \in Accounts |-> Debited[a] + Credited[a]]
             Three    == [a \in Accounts |-> Both[a] + Housed[a]]
             All      == [a \in Accounts |-> RowsOn(q, a)]
  <1>1. /\ q.from \in Accounts /\ q.to \in Accounts /\ House \in Accounts
        /\ q.amt \in Nat /\ q.referral \in Nat /\ skim \in Nat
        /\ q.referrer \in Accounts \/ q.referral = 0
    <2>1. q.amt \in Nat /\ q.referral \in Nat /\ q.referrer \in Users \cup {Nobody}
      BY DEF Inv, TypeOK, Request
    <2>2. q.from \in Accounts /\ q.to \in Accounts
      BY DEF Post, Inv, RequestInv, WellFormed, Accounts
    <2>3. q.referrer = Nobody => q.referral = 0
      BY DEF Inv, RequestInv, ShareEarned
    <2>4. QED
      BY <2>1, <2>2, <2>3, SkimNat DEF Accounts
  <1> HIDE DEF q, skim
  <1>2. SumFunctionOnSet(Debited, Accounts) = -q.amt - skim
    <2>1. Debited[q.from] = -q.amt - skim /\ Debited[q.from] \in Int
      BY <1>1
    <2>2. \A a \in Accounts \ {q.from} : Debited[a] = 0
      OBVIOUS
    <2> HIDE DEF Debited
    <2> QED
      BY <1>1, <2>1, <2>2, SumOnly
  <1>3. SumFunctionOnSet(Credited, Accounts) = q.amt
    <2>1. Credited[q.to] = q.amt /\ Credited[q.to] \in Int
      BY <1>1
    <2>2. \A a \in Accounts \ {q.to} : Credited[a] = 0
      OBVIOUS
    <2> HIDE DEF Credited
    <2> QED
      BY <1>1, <2>1, <2>2, SumOnly
  <1>4. SumFunctionOnSet(Housed, Accounts) = skim - q.referral
    <2>1. Housed[House] = skim - q.referral /\ Housed[House] \in Int
      BY <1>1
    <2>2. \A a \in Accounts \ {House} : Housed[a] = 0
      OBVIOUS
    <2> HIDE DEF Housed
    <2> QED
      BY <1>1, <2>1, <2>2, SumOnly
  <1>5. SumFunctionOnSet(Shared, Accounts) = q.referral
    <2>1. CASE q.referrer \in Accounts
      <3>1. Shared[q.referrer] = q.referral /\ Shared[q.referrer] \in Int
        BY <1>1, <2>1
      <3>2. \A a \in Accounts \ {q.referrer} : Shared[a] = 0
        OBVIOUS
      <3> HIDE DEF Shared
      <3> QED
        BY <2>1, <3>1, <3>2, SumOnly
    <2>2. CASE q.referral = 0
      <3>1. \A a \in Accounts : Shared[a] = 0
        BY <2>2
      <3> HIDE DEF Shared
      <3> QED
        BY <2>2, <3>1, SumZero
    <2> QED
      BY <1>1, <2>1, <2>2
  <1>6. \A a \in Accounts :
            /\ Debited[a] \in Int /\ Credited[a] \in Int /\ Housed[a] \in Int /\ Shared[a] \in Int
            /\ Both[a] = Debited[a] + Credited[a] /\ Both[a] \in Int
            /\ Three[a] = Both[a] + Housed[a] /\ Three[a] \in Int
            /\ All[a] = Three[a] + Shared[a]
    BY <1>1 DEF RowsOn, HouseShare, skim
  <1> HIDE DEF Debited, Credited, Housed, Shared, Both, Three, All
  <1>7. SumFunctionOnSet(Both, Accounts) =
            SumFunctionOnSet(Debited, Accounts) + SumFunctionOnSet(Credited, Accounts)
    BY <1>6, SumAdds
  <1>8. SumFunctionOnSet(Three, Accounts) =
            SumFunctionOnSet(Both, Accounts) + SumFunctionOnSet(Housed, Accounts)
    BY <1>6, SumAdds
  <1>9. SumFunctionOnSet(All, Accounts) =
            SumFunctionOnSet(Three, Accounts) + SumFunctionOnSet(Shared, Accounts)
    BY <1>6, SumAdds
  <1>10. SumFunctionOnSet(All, Accounts) = 0
    BY <1>1, <1>2, <1>3, <1>4, <1>5, <1>7, <1>8, <1>9
  <1> QED
    BY <1>10 DEF All, q

\* The batch of a request is one payment of the bank.
LEMMA PostMoves ==
  ASSUME Inv, Inv', OverdraftBounded', NEW w \in Workers, Post(w),
         IsFiniteSet(Accounts), Cardinality(Workers) \in Nat, MaxDebit \in Nat
  PROVE  Promised!Move(req[w].from)
  <1> DEFINE f == req[w].from
             rows == [a \in Accounts |-> RowsOn(req[w], a)]
  <1>1. balance \in [Accounts -> Int] /\ balance' \in [Accounts -> Int]
    BY DEF Inv, TypeOK
  <1>2. \A a \in Accounts \ {f} : balance'[a] >= balance[a]
    BY PostTakesFromSender
  <1>3. f \in Deny => balance'[f] >= -((Cardinality(Workers) - 1) * MaxDebit)
    <2>1. -(Cardinality(Workers) - 1) * MaxDebit = -((Cardinality(Workers) - 1) * MaxDebit)
      OBVIOUS
    <2> QED
      BY <2>1 DEF OverdraftBounded
  <1>4. SumFunctionOnSet(balance', Accounts) = SumFunctionOnSet(balance, Accounts)
    <2>1. \A a \in Accounts : /\ balance[a] \in Int /\ rows[a] \in Int
                              /\ balance'[a] = balance[a] + rows[a]
      BY <1>1, RowsOnInt DEF Post, Inv, TypeOK
    <2>2. SumFunctionOnSet(rows, Accounts) = 0
      BY RowsBalance
    <2> HIDE DEF rows
    <2>3. SumFunctionOnSet(balance', Accounts) =
              SumFunctionOnSet(balance, Accounts) + SumFunctionOnSet(rows, Accounts)
      BY <2>1, SumAdds
    <2>4. SumFunctionOnSet(balance, Accounts) \in Int
      BY <2>1, SumInt
    <2> QED
      BY <2>2, <2>3, <2>4
  <1>5. Promised!SumFunction(balance') = Promised!SumFunction(balance)
    BY <1>1, <1>4, BankSums
  <1> QED
    BY <1>1, <1>2, <1>3, <1>5 DEF Promised!Move

\* However the requests of n processes interleave, fail and die, the accounts are
\* those of a bank whose payments are atomic, that makes and loses no money, and that
\* lends an account without overdraft n - 1 of the largest debits at most.
THEOREM TransfersImplementBank ==
  ASSUME FeeNotNegative, LargestDebit, IsFiniteSet(Users), IsFiniteSet(Workers), Workers # {}
  PROVE  Spec => ImplementsBank
  <1>1. Init => Promised!Init
    BY DEF Init, Promised!Init
  <1>2. IsFiniteSet(Accounts) /\ Cardinality(Workers) \in Nat /\ MaxDebit \in Nat
    BY FS_AddElement, FS_CardinalityType, MaxDebitBounds DEF Accounts
  <1>3. Inv /\ Inv' /\ OverdraftBounded' /\ [Next]_vars => [Promised!Next]_balance
    <2> SUFFICES ASSUME Inv, Inv', OverdraftBounded', [Next]_vars
                 PROVE  [Promised!Next]_balance
      OBVIOUS
    <2>1. CASE \E w \in Workers : Post(w)
      <3>1. PICK w \in Workers : Post(w)
        BY <2>1
      <3>2. req[w].from \in Accounts
        BY <3>1 DEF Post, Inv, RequestInv, WellFormed, Accounts
      <3> QED
        BY <1>2, <3>1, <3>2, PostMoves DEF Promised!Next
    <2>2. CASE ~ \E w \in Workers : Post(w)
      BY <2>2, OnlyPostMovesMoney
    <2> QED
      BY <2>1, <2>2
  <1> QED
    BY <1>1, <1>3, TypeCorrect, OverdraftBound, PTL DEF Spec, ImplementsBank, Promised!Spec
=============================================================================
