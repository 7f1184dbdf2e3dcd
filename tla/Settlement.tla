------------------------------ MODULE Settlement ------------------------------
(***************************************************************************)
(* Off-chain settlement and its bookkeeping: the verbs that pay and mint   *)
(* BOLT-11 invoices for an account (api-account-pay, `invoice pay`,        *)
(* api-account-withdraw, api-account-recv, `invoice create`), the Core     *)
(* Lightning node they drive, other clients of that node, and the          *)
(* reconciliation pass (`ledger reconcile run`) that books what the verbs  *)
(* did not.  The node and the ledger are two stores with no transaction    *)
(* over both; every call to either is an action of its own.                *)
(*                                                                         *)
(* A row is a count of insertions, each of the msat of its hash.  Every    *)
(* payment has a routing fee, as one that leaves the node has, and a hash  *)
(* has the same fee whenever it is paid.  The operator-fee rows of an      *)
(* api-account-pay travel in the batch of its principal; they are the      *)
(* subject of Transfers and no part of a balance here.                     *)
(***************************************************************************)
EXTENDS Integers, FiniteSets, Functions

CONSTANTS Users,      \* accounts with an address
          Others,     \* the catch-all account of other clients' flows
          Nobody,
          Bolts,      \* payment hashes this node may be asked to pay
          Notes,      \* payment hashes of invoices this node may mint; a hash
                      \* in both is a payment to the node itself
          Swaps,      \* the hashes of swap providers' hold invoices
          Clerks,     \* verb processes
          Verb,       \* [Clerks -> the verb the process runs]
          Passes,     \* reconcile processes
          Deny,       \* accounts whose overdraft policy is 'deny'
          Funds,      \* [Users -> msat booked before]
          Price,      \* [Hashes -> the msat of a payment or invoice]
          Toll,       \* [Bolts -> the msat of its routing fee]
          Sat,        \* msat in a satoshi
          MaxPrice,   \* bound: the largest payment
          MaxToll,    \* bound: the largest routing fee
          MaxAsks,    \* bound: payments asked for in a behaviour
          MaxFaults   \* bound: processes that die or writes that fail

Accounts == Users \cup {Others}
Hashes == Bolts \cup Notes
PayVerbs == {"api", "cli", "swap"}
MintVerbs == {"recv", "create"}

ASSUME SettlementAssumption ==
    /\ Others \notin Users
    /\ Nobody \notin Accounts
    /\ Nobody \notin Hashes
    /\ Swaps \subseteq Bolts \ Notes
    /\ Verb \in [Clerks -> PayVerbs \cup MintVerbs]
    /\ Deny \subseteq Users
    /\ Funds \in [Users -> Int]
    /\ Sat \in Nat \ {0}
    /\ MaxPrice \in Nat /\ MaxToll \in Nat
    /\ Price \in [Hashes -> 1..MaxPrice]
    /\ Toll \in [Bolts -> 1..MaxToll]
    /\ MaxAsks \in Nat
    /\ MaxFaults \in Nat

VARIABLES
    pay,       \* listpays: the node's own payments
    inv,       \* listinvoices: the invoices it minted
    bill,      \* invoices table: the account an invoice belongs to
    marked,    \* invoices rows with state 'paid'
    paidOut,   \* 'out' rows of a hash on an account
    feeRow,    \* routing-fee rows of a hash on an account
    received,  \* 'in' rows of a hash on an account
    swapRow,   \* 'out' rows of a swap, which carry no hash
    clerk,     \* the verb processes
    pass,      \* the reconcile processes
    asks, faults

node == <<pay, inv>>
ledger == <<paidOut, feeRow, received, swapRow>>
vars == <<pay, inv, bill, marked, paidOut, feeRow, received, swapRow,
          clerk, pass, asks, faults>>

ClerkState == [pc : {"idle", "asked", "paying", "paid", "principal", "minted"},
               user : Users \cup {Nobody}, hash : Hashes \cup {Nobody}]
PassState == [pc : {"idle", "pays", "looking"}, pays : SUBSET Bolts, invs : SUBSET Notes,
              outs : SUBSET Bolts, owner : [Notes -> Accounts \cup {Nobody}]]

IdleClerk == [pc |-> "idle", user |-> Nobody, hash |-> Nobody]
IdlePass == [pc |-> "idle", pays |-> {}, invs |-> {}, outs |-> {},
             owner |-> [n \in Notes |-> Nobody]]

NoRows(H) == [h \in H |-> [a \in Accounts |-> 0]]
WithRowTaken(rows, h, a) == [rows EXCEPT ![h][a] = @ - 1]  \* a slip: the sign of the row
WithRow(rows, h, a) == [rows EXCEPT ![h][a] = @ + 1]
HasRow(rows, h) == \E a \in Accounts : rows[h][a] > 0

Init ==
    /\ pay = [h \in Bolts |-> "open"]
    /\ inv = [n \in Notes |-> "none"]
    /\ bill = [n \in Notes |-> Nobody]
    /\ marked = {}
    /\ paidOut = NoRows(Bolts) /\ feeRow = NoRows(Bolts)
    /\ received = NoRows(Notes) /\ swapRow = NoRows(Bolts)
    /\ clerk = [c \in Clerks |-> IdleClerk]
    /\ pass = [r \in Passes |-> IdlePass]
    /\ asks = 0 /\ faults = 0

-----------------------------------------------------------------------------
(* Verb processes. *)

\* SUM(amount_msat) of the account's rows, routing fees included.
Balance(u) ==
    Funds[u] + SumFunction([n \in Notes |-> Price[n] * received[n][u]])
             - SumFunction([h \in Bolts |-> Price[h] * (paidOut[h][u] + swapRow[h][u])
                                              + Toll[h] * feeRow[h][u]])

\* A swap is created with an invoice of its own that no one else pays.
Fresh(h) == /\ pay[h] = "open"
            /\ ~HasRow(swapRow, h)
            /\ \A c \in Clerks : clerk[c].hash # h

\* An invoice of this node can be paid once somebody was handed it.
Payable(h) == h \in Notes => inv[h] \in {"offered", "paid"}

\* May process c spend the amount of h from u's account?  `invoice pay` compares whole
\* satoshis, for an account that may not be overdrawn, and only the amount: no routing
\* fee, and nothing for an amount below a satoshi.
MayPayUnchecked(c, u, h) == TRUE  \* a slip: no verb looks at the balance
MayPay(c, u, h) == Verb[c] = "cli" /\ u \in Deny /\ Price[h] >= Sat =>
                       Balance(u) \div Sat >= Price[h] \div Sat

\* `invoice pay` makes that comparison; api-account-pay and api-account-withdraw ask
\* only the capability.
AskPay(c, u, h) ==
    /\ clerk[c].pc = "idle"
    /\ Verb[c] \in PayVerbs
    /\ asks < MaxAsks
    /\ Payable(h)
    /\ IF Verb[c] = "swap" THEN h \in Swaps /\ Fresh(h) ELSE h \notin Swaps
    /\ MayPay(c, u, h)
    /\ clerk' = [clerk EXCEPT ![c] = [pc |-> "asked", user |-> u, hash |-> h]]
    /\ asks' = asks + 1
    /\ UNCHANGED <<node, bill, marked, ledger, pass, faults>>

\* `lightning-cli pay`: the node starts the payment, joins one under way, or
\* answers at once with the success of an earlier one.  boltzcli returns as soon
\* as the swap is created.
Send(c) ==
    LET h == clerk[c].hash
    IN /\ clerk[c].pc = "asked"
       /\ pay' = [pay EXCEPT ![h] = IF @ = "open" THEN "pending" ELSE @]
       /\ clerk' = [clerk EXCEPT ![c].pc =
                       IF pay[h] = "complete" \/ Verb[c] = "swap" THEN "paid" ELSE "paying"]
       /\ UNCHANGED <<inv, bill, marked, ledger, pass, asks, faults>>

\* The rows of a payment: api-account-pay writes principal and routing fee in one
\* batch, a swap its debit without any hash, `invoice pay` the principal first.
Book(c) ==
    LET u == clerk[c].user  h == clerk[c].hash
    IN /\ clerk[c].pc = "paid"
       /\ IF Verb[c] = "swap"
          THEN swapRow' = WithRow(swapRow, h, u) /\ UNCHANGED paidOut
          ELSE paidOut' = WithRow(paidOut, h, u) /\ UNCHANGED swapRow
       /\ feeRow' = IF Verb[c] = "api" THEN WithRow(feeRow, h, u) ELSE feeRow
       /\ clerk' = [clerk EXCEPT ![c] = IF Verb[c] = "cli" THEN [@ EXCEPT !.pc = "principal"]
                                        ELSE IdleClerk]
       /\ UNCHANGED <<node, bill, marked, received, pass, asks, faults>>

\* ... and the routing fee of `invoice pay` in an INSERT of its own.
BookFee(c) ==
    /\ clerk[c].pc = "principal"
    /\ feeRow' = WithRow(feeRow, clerk[c].hash, clerk[c].user)
    /\ clerk' = [clerk EXCEPT ![c] = IdleClerk]
    /\ UNCHANGED <<node, bill, marked, paidOut, received, swapRow, pass, asks, faults>>

\* A write that fails ("database is locked") is ignored: `|| true`.
LoseBook(c) ==
    /\ clerk[c].pc \in {"paid", "principal"}
    /\ faults < MaxFaults
    /\ clerk' = [clerk EXCEPT ![c] = IF @.pc = "paid" /\ Verb[c] = "cli"
                                     THEN [@ EXCEPT !.pc = "principal"] ELSE IdleClerk]
    /\ faults' = faults + 1
    /\ UNCHANGED <<node, bill, marked, ledger, pass, asks>>

\* A slip: the invoice is handed out before it is recorded.
AskMintPrinting(c, u, n) ==
    /\ clerk[c].pc = "idle"
    /\ Verb[c] \in MintVerbs
    /\ inv[n] = "none"
    /\ inv' = [inv EXCEPT ![n] = "offered"]
    /\ clerk' = [clerk EXCEPT ![c] = [pc |-> "minted", user |-> u, hash |-> n]]
    /\ UNCHANGED <<pay, bill, marked, ledger, pass, asks, faults>>

\* The node mints an invoice for account u; `invoice create` prints it at once.
AskMint(c, u, n) ==
    /\ clerk[c].pc = "idle"
    /\ Verb[c] \in MintVerbs
    /\ inv[n] = "none"
    /\ inv' = [inv EXCEPT ![n] = IF Verb[c] = "create" THEN "offered" ELSE "minted"]
    /\ clerk' = [clerk EXCEPT ![c] = [pc |-> "minted", user |-> u, hash |-> n]]
    /\ UNCHANGED <<pay, bill, marked, ledger, pass, asks, faults>>

Offer(n) == inv' = [inv EXCEPT ![n] = IF @ = "minted" THEN "offered" ELSE @]

\* The invoice is recorded under the account; api-account-recv returns it only now.
Store(c) ==
    /\ clerk[c].pc = "minted"
    /\ bill' = [bill EXCEPT ![clerk[c].hash] = clerk[c].user]
    /\ Offer(clerk[c].hash)
    /\ clerk' = [clerk EXCEPT ![c] = IdleClerk]
    /\ UNCHANGED <<pay, marked, ledger, pass, asks, faults>>

LoseStore(c) ==
    /\ clerk[c].pc = "minted"
    /\ faults < MaxFaults
    /\ Offer(clerk[c].hash)
    /\ clerk' = [clerk EXCEPT ![c] = IdleClerk]
    /\ faults' = faults + 1
    /\ UNCHANGED <<pay, bill, marked, ledger, pass, asks>>

\* The process is killed, or `pay` gives up waiting for a payment that may still
\* succeed: nothing more is written.
GiveUp(c) ==
    /\ clerk[c].pc # "idle"
    /\ faults < MaxFaults
    /\ clerk' = [clerk EXCEPT ![c] = IdleClerk]
    /\ faults' = faults + 1
    /\ UNCHANGED <<node, bill, marked, ledger, pass, asks>>

-----------------------------------------------------------------------------
(* The node and its other clients (other wallets, the rebalance plugin). *)

OtherPays(h) ==
    /\ h \notin Swaps
    /\ pay[h] = "open"
    /\ Payable(h)
    /\ pay' = [pay EXCEPT ![h] = "pending"]
    /\ UNCHANGED <<inv, bill, marked, ledger, clerk, pass, asks, faults>>

OtherMints(n) ==
    /\ inv[n] = "none"
    /\ inv' = [inv EXCEPT ![n] = "offered"]
    /\ UNCHANGED <<pay, bill, marked, ledger, clerk, pass, asks, faults>>

\* An invoice is paid, by the outside or, when the hash is also a payment of
\* this node, by that payment's arrival.
Arrive(n) ==
    /\ inv[n] = "offered"
    /\ n \in Bolts => pay[n] = "pending"
    /\ inv' = [inv EXCEPT ![n] = "paid"]
    /\ UNCHANGED <<pay, bill, marked, ledger, clerk, pass, asks, faults>>

\* A payment succeeds or fails; the processes waiting for it learn it, and exit
\* (code 5) on a failure.
Waiting(h) == {c \in Clerks : clerk[c].pc = "paying" /\ clerk[c].hash = h}

Succeed(h) ==
    /\ pay[h] = "pending"
    /\ h \in Notes => inv[h] = "paid"
    /\ pay' = [pay EXCEPT ![h] = "complete"]
    /\ clerk' = [c \in Clerks |-> IF c \in Waiting(h) THEN [clerk[c] EXCEPT !.pc = "paid"]
                                  ELSE clerk[c]]
    /\ UNCHANGED <<inv, bill, marked, ledger, pass, asks, faults>>

Miscarry(h) ==
    /\ pay[h] = "pending"
    /\ h \in Notes => inv[h] # "paid"
    /\ pay' = [pay EXCEPT ![h] = "open"]
    /\ clerk' = [c \in Clerks |-> IF c \in Waiting(h) THEN IdleClerk ELSE clerk[c]]
    /\ UNCHANGED <<inv, bill, marked, ledger, pass, asks, faults>>

-----------------------------------------------------------------------------
(* `ledger reconcile run`. *)

\* Two listings, one after the other, of what has settled.
ListPaysAny(r) ==  \* a slip: no filter on the status "complete"
    /\ pass[r].pc = "idle"
    /\ pass' = [pass EXCEPT ![r] = [IdlePass EXCEPT !.pc = "pays",
                                    !.pays = {h \in Bolts : pay[h] # "open"}]]
    /\ UNCHANGED <<node, bill, marked, ledger, clerk, asks, faults>>

ListPays(r) ==
    /\ pass[r].pc = "idle"
    /\ pass' = [pass EXCEPT ![r] = [IdlePass EXCEPT !.pc = "pays",
                                    !.pays = {h \in Bolts : pay[h] = "complete"}]]
    /\ UNCHANGED <<node, bill, marked, ledger, clerk, asks, faults>>

ListInvoices(r) ==
    /\ pass[r].pc = "pays"
    /\ pass' = [pass EXCEPT ![r].pc = "looking",
                            ![r].invs = {n \in Notes : inv[n] = "paid"}]
    /\ UNCHANGED <<node, bill, marked, ledger, clerk, asks, faults>>

\* Does any row carry this hash, whichever verb wrote it?
AlreadyPaidOut(h) == h \in Bolts /\ HasRow(paidOut, h)  \* a slip: only 'out' rows are looked for
AlreadyBilled(h) == h \in Notes /\ bill[h] # Nobody  \* a slip: the invoices table is looked at
AlreadyBooked(h) == \/ h \in Bolts /\ (HasRow(paidOut, h) \/ HasRow(feeRow, h))
                    \/ h \in Notes /\ HasRow(received, h)

OwnerOf(n) == IF bill[n] = Nobody THEN Others ELSE bill[n]

\* Payments first: each that no row carries joins the batch, on 'others'.
LookPay(r, h) ==
    /\ pass[r].pc = "looking"
    /\ h \in pass[r].pays
    /\ pass' = [pass EXCEPT ![r].pays = @ \ {h},
                            ![r].outs = IF AlreadyBooked(h) THEN @ ELSE @ \cup {h}]
    /\ UNCHANGED <<node, bill, marked, ledger, clerk, asks, faults>>

\* Then receipts, on the account the invoices table names.
LookInvoice(r, n) ==
    /\ pass[r].pc = "looking"
    /\ pass[r].pays = {}
    /\ n \in pass[r].invs
    /\ pass' = [pass EXCEPT ![r].invs = @ \ {n},
                            ![r].owner = IF AlreadyBooked(n) THEN @
                                          ELSE [@ EXCEPT ![n] = OwnerOf(n)]]
    /\ UNCHANGED <<node, bill, marked, ledger, clerk, asks, faults>>

\* The batch commits: all its rows at once, and the invoices marked 'paid'.
Commit(r) ==
    LET outs == pass[r].outs
        owner == pass[r].owner
    IN /\ pass[r].pc = "looking"
       /\ pass[r].pays = {} /\ pass[r].invs = {}
       /\ paidOut' = [h \in Bolts |-> IF h \in outs THEN [paidOut[h] EXCEPT ![Others] = @ + 1]
                                      ELSE paidOut[h]]
       /\ feeRow' = [h \in Bolts |-> IF h \in outs THEN [feeRow[h] EXCEPT ![Others] = @ + 1]
                                     ELSE feeRow[h]]
       /\ received' = [n \in Notes |-> IF owner[n] = Nobody THEN received[n]
                                       ELSE [received[n] EXCEPT ![owner[n]] = @ + 1]]
       /\ marked' = marked \cup {n \in Notes : owner[n] # Nobody /\ bill[n] # Nobody}
       /\ pass' = [pass EXCEPT ![r] = IdlePass]
       /\ UNCHANGED <<node, bill, swapRow, clerk, asks, faults>>

\* A listing or the batch fails, or the pass is killed: nothing is written.
FailPass(r) ==
    /\ pass[r].pc # "idle"
    /\ faults < MaxFaults
    /\ pass' = [pass EXCEPT ![r] = IdlePass]
    /\ faults' = faults + 1
    /\ UNCHANGED <<node, bill, marked, ledger, clerk, asks>>

-----------------------------------------------------------------------------
ClerkStep(c) == \/ Send(c) \/ Book(c) \/ BookFee(c) \/ LoseBook(c)
                \/ Store(c) \/ LoseStore(c) \/ GiveUp(c)
Work(r) == \/ ListPays(r) \/ ListInvoices(r)
           \/ \E h \in Bolts : LookPay(r, h)
           \/ \E n \in Notes : LookInvoice(r, n)
           \/ Commit(r)

Next ==
    \/ \E c \in Clerks, u \in Users, h \in Bolts : AskPay(c, u, h)
    \/ \E c \in Clerks, u \in Users, n \in Notes : AskMint(c, u, n)
    \/ \E c \in Clerks : ClerkStep(c)
    \/ \E h \in Bolts : OtherPays(h) \/ Succeed(h) \/ Miscarry(h)
    \/ \E n \in Notes : OtherMints(n) \/ Arrive(n)
    \/ \E r \in Passes : Work(r) \/ FailPass(r)

Spec == Init /\ [][Next]_vars

\* The timer starts a pass every five minutes and nothing stops it for ever;
\* verbs are called, and the network pays, when they like.
FairSpec == Spec /\ \A r \in Passes : WF_vars(Work(r))

\* ... and a verb that was called runs on.
DiligentSpec == FairSpec /\ \A c \in Clerks : WF_vars(ClerkStep(c))

-----------------------------------------------------------------------------
\* Every variable has its type: no row is ever taken back, and what a verb or a pass
\* remembers are hashes of its own kind.
TypeOK ==
    /\ pay \in [Bolts -> {"open", "pending", "complete"}]
    /\ inv \in [Notes -> {"none", "minted", "offered", "paid"}]
    /\ bill \in [Notes -> Users \cup {Nobody}]
    /\ marked \subseteq Notes
    /\ paidOut \in [Bolts -> [Accounts -> Nat]]
    /\ feeRow \in [Bolts -> [Accounts -> Nat]]
    /\ received \in [Notes -> [Accounts -> Nat]]
    /\ swapRow \in [Bolts -> [Accounts -> Nat]]
    /\ clerk \in [Clerks -> ClerkState]
    /\ pass \in [Passes -> PassState]
    /\ asks \in 0..MaxAsks
    /\ faults \in 0..MaxFaults

\* A row that carries a hash records a flow that did happen on the node, whatever
\* died, failed or was retried: nobody is charged for a payment that failed, and
\* nobody credited for an invoice that was not paid.
NoPhantom ==
    /\ \A h \in Bolts : HasRow(paidOut, h) => pay[h] = "complete"
    /\ \A n \in Notes : HasRow(received, n) => inv[n] = "paid"

\* A receipt is on the account its invoice is recorded under, and on 'others'
\* only without such a record, though the pass reads the record long before it
\* writes the row (_ledger, cmd_reconcile).
ReceiptToOwner ==
    \A n \in Notes, a \in Accounts : received[n][a] > 0 => a = OwnerOf(n)

\* Each flow appears once: on one account, in one principal row.
Once(row, h) == /\ \A a \in Accounts : row[h][a] <= 1
                /\ \A a, b \in Accounts : row[h][a] > 0 /\ row[h][b] > 0 => a = b
BookedOnce ==
    /\ \A h \in Bolts : Once(paidOut, h)
    /\ \A h \in Bolts : ~(HasRow(paidOut, h) /\ HasRow(swapRow, h))
    /\ \A n \in Notes : Once(received, n)

\* Nothing that the de-duplication by hash relies on is disturbed: one pass at a
\* time, none while a verb holds a payment it has not booked, no payment asked for
\* that the node is already making or another process holds, and no swap.
Paying(c) == clerk[c].pc \in {"asked", "paying", "paid", "principal"}
Quiet ==
    /\ \A r, s \in Passes : pass[r].pc # "idle" /\ pass[s].pc # "idle" => r = s
    /\ \A c \in Clerks, r \in Passes :
          clerk[c].pc \in {"paying", "paid"} => pass[r].pc = "idle"
    /\ \A c \in Clerks : clerk[c].pc = "asked" => pay[clerk[c].hash] = "open"
    /\ \A c, d \in Clerks : Paying(c) /\ Paying(d) /\ clerk[c].hash = clerk[d].hash => c = d
    /\ \A c \in Clerks : Paying(c) => Verb[c] # "swap"

\* In a quiet node the ledger has each flow once, in spite of crashes, lost writes
\* and payments that succeed after their process gave up.
QuietBooksOnce == []Quiet => []BookedOnce

\* Whatever settles is booked in the end, principal and routing fee, and so is
\* what was received, even when the verb that caused it died: the next pass that
\* runs to its end picks it up.
FullyPaid(h) == \E a \in Accounts : paidOut[h][a] > 0 /\ feeRow[h][a] > 0
EverySettlementBooked ==
    /\ \A h \in Bolts : pay[h] = "complete" ~> FullyPaid(h)
    /\ \A n \in Notes \ Bolts : inv[n] = "paid" ~> HasRow(received, n)

\* A payment from this node to itself is one hash for two flows.  Its receipt is
\* booked in the end.
CreditFollowsDebit ==
    \A n \in Notes \cap Bolts : inv[n] = "paid" ~> HasRow(received, n)

\* The account that paid is the one that is charged.
PayerCharged ==
    \A c \in Clerks, u \in Users, h \in Bolts :
        clerk[c] = [pc |-> "paid", user |-> u, hash |-> h] ~> paidOut[h][u] > 0

\* How far an account that may not be overdrawn is, at most, when it is paid from by
\* `invoice pay` only: by the rest of a satoshi and a routing fee, which the comparison
\* leaves out, and by a whole payment more for each further process, which compared the
\* same balance.  Amounts below a satoshi are not compared at all.
Dust == {h \in Bolts : Price[h] < Sat}
Tellers == {c \in Clerks : Verb[c] = "cli"}
Undusted(u) == \A h \in Dust : paidOut[h][u] = 0 /\ feeRow[h][u] = 0
OverdraftBounded ==
    \A u \in Deny : Undusted(u) =>
        \/ Balance(u) >= 0
        \/ Balance(u) + (MaxPrice + MaxToll) * Cardinality(Tellers) >= MaxPrice - (Sat - 1)

\* An account whose policy is 'deny' is not overdrawn, however it pays.
PayerSolvent == \A u \in Deny : Balance(u) >= 0

\* The provisional debit of a swap that did not happen is taken back.
SwapRefunded ==
    \A h \in Swaps : HasRow(swapRow, h) /\ pay[h] = "open" ~> ~HasRow(swapRow, h)
=============================================================================
