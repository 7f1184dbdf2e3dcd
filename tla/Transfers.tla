------------------------------ MODULE Transfers ------------------------------
(***************************************************************************)
(* libexec/lightning-node/api-account-transfer: moving sats between two    *)
(* accounts of one node.  Every request is an operating-system process of  *)
(* its own (a CGI call, a standing order, a mandate pull) and every        *)
(* `sqlite3` call of it is a transaction of its own, so requests           *)
(* interleave between the calls.  One action stands for one such call; the *)
(* final batch "BEGIN; INSERT ...; COMMIT;" is one action because sqlite   *)
(* makes it so.                                                            *)
(***************************************************************************)
EXTENDS OperatorFee, FiniteSets, Functions

CONSTANTS Users,        \* accounts that have a bech32 address
          House,        \* the operator's revenue account
          Nobody,       \* the empty referrer
          Owner,        \* [Users -> owner_user]; Nobody for an anonymous account
          MayIntra,     \* accounts whose profile grants transfer_intra_user
          MayInter,     \* accounts whose profile grants transfer_inter_user
          Deny,         \* accounts whose overdraft policy is 'deny'
          Referrer,     \* [Users -> the account's referrer column]
          Opening,      \* [Users \cup {House} -> msat booked before]
          Sats,         \* amounts a request may name
          MinActivity,  \* LIGHTNING_REFERRAL_MIN_ACTIVITY_SAT, in msat
          DailyCap,     \* LIGHTNING_REFERRAL_MAX_PER_DAY_SAT, in msat
          Workers,      \* request processes
          MaxCalls      \* bound: requests accepted in a behaviour

Accounts == Users \cup {House}

ASSUME TransfersAssumption ==
    /\ House \notin Users
    /\ Nobody \notin Accounts
    /\ MayIntra \subseteq Users
    /\ MayInter \subseteq Users
    /\ Deny \subseteq Users
    /\ Referrer \in [Users -> Accounts \cup {Nobody}]
    /\ Opening \in [Accounts -> Nat]
    /\ Sats \subseteq Nat \ {0}
    /\ MinActivity \in Nat
    /\ DailyCap \in Nat
    /\ MaxCalls \in Nat

VARIABLES
    balance,   \* SUM(amount_msat) of the ledger rows of each account
    activity,  \* SUM(ABS(amount_msat)) of its rows that are not fee rows
    credited,  \* today's 'fee:referral' credits of each account
    req,       \* the shell variables of each request process
    calls      \* requests accepted so far

vars == <<balance, activity, credited, req, calls>>

Stage == {"idle", "accepted", "gated", "covered", "split"}

Request == [pc : Stage, from : Users \cup {Nobody}, to : Accounts \cup {Nobody},
            amt : Nat, referrer : Users \cup {Nobody}, referral : Nat]

Idle == [pc |-> "idle", from |-> Nobody, to |-> Nobody,
         amt |-> 0, referrer |-> Nobody, referral |-> 0]

Init ==
    /\ balance = Opening
    /\ activity = [a \in Accounts |-> 0]
    /\ credited = [a \in Accounts |-> 0]
    /\ req = [w \in Workers |-> Idle]
    /\ calls = 0

-----------------------------------------------------------------------------
\* The request names two different existing accounts and a positive amount.
Accept(w, f, t, s) ==
    /\ req[w].pc = "idle"
    /\ calls < MaxCalls
    /\ t # f
    /\ req' = [req EXCEPT ![w] = [pc |-> "accepted", from |-> f, to |-> t, amt |-> s * 1000,
                                   referrer |-> Nobody, referral |-> 0]]
    /\ calls' = calls + 1
    /\ UNCHANGED <<balance, activity, credited>>

\* A transfer between accounts of one owner needs the intra-user capability,
\* any other the inter-user one.
SameOwner(f, t) == t \in Users /\ Owner[f] # Nobody /\ Owner[f] = Owner[t]
Capable(f, t) == IF SameOwner(f, t) THEN f \in MayIntra ELSE f \in MayInter

\* The compliance pre-hook and the capability check let the request pass ...
Gate(w) ==
    /\ req[w].pc = "accepted"
    /\ Capable(req[w].from, req[w].to)
    /\ req' = [req EXCEPT ![w].pc = "gated"]
    /\ UNCHANGED <<balance, activity, credited, calls>>

\* ... or one of them ends it (exit 6); the hook is external and may always deny.
Refuse(w) ==
    /\ req[w].pc = "accepted"
    /\ req' = [req EXCEPT ![w] = Idle]
    /\ UNCHANGED <<balance, activity, credited, calls>>

TotalDebitWithoutFee(amt) == amt  \* a slip: the check forgets the fee
TotalDebit(amt) == amt + OperatorFee(amt)

Covered(f, amt) == f \in Deny => balance[f] - TotalDebit(amt) >= 0

\* The balance is read, compared, and the lock on the database let go.
Check(w) ==
    /\ req[w].pc = "gated"
    /\ req' = [req EXCEPT ![w] = IF Covered(req[w].from, req[w].amt)
                                 THEN [@ EXCEPT !.pc = "covered"] ELSE Idle]
    /\ UNCHANGED <<balance, activity, credited, calls>>

\* The referrer who shares the fee of a request of f: none without a fee, without
\* a split, without a referring user, below the activity threshold or once the
\* cap of the day is reached.
SharingAtOnce(f, amt) ==  \* a slip: no activity threshold
    LET r == Referrer[f]
    IN IF OperatorFee(amt) > 0 /\ DirectPct > 0 /\ r \in Users /\ credited[r] < DailyCap
       THEN r ELSE Nobody
SharingUncapped(f, amt) ==  \* a slip: no daily cap
    LET r == Referrer[f]
    IN IF OperatorFee(amt) > 0 /\ DirectPct > 0 /\ r \in Users /\ activity[f] >= MinActivity
       THEN r ELSE Nobody
Sharing(f, amt) ==
    LET r == Referrer[f]
    IN IF /\ OperatorFee(amt) > 0
          /\ DirectPct > 0
          /\ r \in Users
          /\ activity[f] >= MinActivity
          /\ credited[r] < DailyCap
       THEN r ELSE Nobody

Split(w) ==
    /\ req[w].pc = "covered"
    /\ LET r == Sharing(req[w].from, req[w].amt)
       IN req' = [req EXCEPT ![w].pc = "split", ![w].referrer = r,
                             ![w].referral = IF r = Nobody THEN 0
                                             ELSE ReferralShare(Skim(req[w].amt))]
    /\ UNCHANGED <<balance, activity, credited, calls>>

\* What the rows of request q add up to on account a.
RowsOnWithoutCredit(q, a) ==  \* a slip: the recipient's row is left out
    (IF a = q.from THEN -q.amt - Skim(q.amt) ELSE 0)
      + (IF a = House THEN HouseShare(Skim(q.amt), q.referral) ELSE 0)
      + (IF a = q.referrer THEN q.referral ELSE 0)
RowsOn(q, a) ==
    LET skim == Skim(q.amt)
    IN  (IF a = q.from THEN -q.amt - skim ELSE 0)
      + (IF a = q.to THEN q.amt ELSE 0)
      + (IF a = House THEN HouseShare(skim, q.referral) ELSE 0)
      + (IF a = q.referrer THEN q.referral ELSE 0)

\* What they add to the account's turnover, SUM(ABS(amount_msat)) without fee rows.
Turnover(q, a) == IF a \in {q.from, q.to} THEN q.amt ELSE 0

\* The batch commits: debit, credit and fee rows appear together.
Post(w) ==
    LET q == req[w]
    IN /\ q.pc = "split"
       /\ balance' = [a \in Accounts |-> balance[a] + RowsOn(q, a)]
       /\ activity' = [a \in Accounts |->
                          activity[a] + Turnover(q, a)]
       /\ credited' = [a \in Accounts |->
                          credited[a] + IF a = q.referrer THEN q.referral ELSE 0]
       /\ req' = [req EXCEPT ![w] = Idle]
       /\ UNCHANGED calls

\* The process dies, or its batch fails ("database is locked") and is rolled
\* back (exit 5): nothing of it is written.
Fail(w) ==
    /\ req[w].pc \in {"gated", "covered", "split"}
    /\ req' = [req EXCEPT ![w] = Idle]
    /\ UNCHANGED <<balance, activity, credited, calls>>

\* date('now') moves on: credits of yesterday no longer count.
NewDay ==
    /\ credited' = [a \in Accounts |-> 0]
    /\ UNCHANGED <<balance, activity, req, calls>>

Step(w) == Gate(w) \/ Refuse(w) \/ Check(w) \/ Split(w) \/ Post(w) \/ Fail(w)

Next ==
    \/ \E w \in Workers, f \in Users, t \in Accounts, s \in Sats : Accept(w, f, t, s)
    \/ \E w \in Workers : Step(w)
    \/ NewDay

Spec == Init /\ [][Next]_vars

-----------------------------------------------------------------------------
\* Every variable has its type: balances may be negative, but turnover, the day's
\* referral credits and the amounts of a request are natural numbers, although bash
\* computes all of them by subtraction and truncation.
TypeOK ==
    /\ balance \in [Accounts -> Int]
    /\ activity \in [Accounts -> Nat]
    /\ credited \in [Accounts -> Nat]
    /\ req \in [Workers -> Request]
    /\ calls \in 0..MaxCalls

\* The overdraft policy 'deny': such an account never goes below zero.
NeverOverdrawn == \A a \in Deny : balance[a] >= 0

InFlight(w) == req[w].pc # "idle"

\* No two requests debit one account at the same time.
OneCallPerSender ==
    \A v, w \in Workers :
        InFlight(v) /\ InFlight(w) /\ req[v].from = req[w].from => v = w

\* The balance check suffices as long as requests of one sender do not overlap:
\* between the check and the batch nobody else takes from that account.
ExclusiveSendersStaySolvent == []OneCallPerSender => []NeverOverdrawn

MaxDebit == LET D == {TotalDebit(s * 1000) : s \in Sats}
            IN CHOOSE d \in D : \A e \in D : e <= d

\* When they do overlap, the damage is bounded: every other process can have
\* passed its check on the balance this one spends, and no more.
OverdraftBounded ==
    \A a \in Deny : balance[a] >= -(Cardinality(Workers) - 1) * MaxDebit

\* The same with the fee left out: a sender who may not overdraw has the whole
\* amount when its request passes the check, whatever rate is configured, because
\* a negative rate without interest mode counts as no fee.
AmountCovered ==
    \A w \in Workers :
        req[w].pc \in {"covered", "split"} /\ req[w].from \in Deny
            => balance[req[w].from] >= req[w].amt

MaxReferral == LET D == {ReferralShare(Skim(s * 1000)) : s \in Sats}
               IN CHOOSE d \in D : \A e \in D : e <= d

\* The cap on a referrer's credits of one day is compared before the credit is
\* added, so it can be passed, but by less than one credit per process.
CapOvershootBounded ==
    \A a \in Users :
        credited[a] < DailyCap + Cardinality(Workers) * MaxReferral
        \/ credited[a] = 0

\* The cap as it is documented: what a referrer accrues in a day.
CapRespected == \A a \in Users : credited[a] <= DailyCap

\* A referral is paid only for a referee who moved MinActivity before, and only to
\* the referrer of the account that paid the fee; the threshold read several
\* steps earlier still holds when the credit is written.
ReferralEarned ==
    [][\A r \in Users : credited'[r] > credited[r] =>
          \E f \in Users : /\ Referrer[f] = r
                           /\ activity[f] >= MinActivity
                           /\ balance'[f] # balance[f]]_vars

\* With n request processes the accounts are a bank that grants n - 1 of its largest
\* debits as credit: the check, the referral look-up and the batch of a request amount
\* to one atomic payment; with one process it grants none.
Promised == INSTANCE Bank WITH
    Accounts <- Accounts, Opening <- Opening, Deny <- Deny, balance <- balance,
    Credit <- (Cardinality(Workers) - 1) * MaxDebit

\* Every behaviour of the five-step transfers is one of that bank.
ImplementsBank == Promised!Spec
=============================================================================
