------------------------------- MODULE Accounts -------------------------------
(***************************************************************************)
(* The life of an account and of the coins sent to its address: `account`  *)
(* create and close, api-account-close, the deposit watcher (`account      *)
(* topup-watcher run`), the garbage collector (`account gc run`) and       *)
(* wallet-prune, with the traffic that reaches an account meanwhile: a     *)
(* transfer resolved before and posted after, an invoice settled late.     *)
(*                                                                         *)
(* Each of them is an operating-system process; they share the wallet's    *)
(* database without a lock, and act on what an earlier query told them.    *)
(* Every account has an address, and none is deleted by hand (`account     *)
(* delete`).  Every deposit and every transfer moves one unit.  Time is    *)
(* abstracted to the two ages the queries test: idle for                   *)
(* LIGHTNING_ACCOUNT_GC_DAYS, and closed for longer than                   *)
(* LIGHTNING_ACCOUNT_GC_CLOSED_DAYS ("stale").                             *)
(***************************************************************************)
EXTENDS Integers, Functions

CONSTANTS Names,      \* account names, which may be used again after a deletion
          Addresses,  \* addresses the node mints, never the same twice
          None,
          Coins,      \* on-chain outputs of the node's wallet
          Dest,       \* [Coins -> the address the coin pays, None for a change address]
          Watchers,   \* deposit watcher processes
          Keepers,    \* gc processes
          Pruners,    \* wallet-prune processes
          Held,       \* accounts a legal hold keeps from deletion
          MaxMoves,   \* bound: transfers, and invoices asked for
          MaxFaults   \* bound: processes that die or writes that fail

ASSUME AccountsAssumption ==
    /\ None \notin Names \cup Addresses
    /\ Dest \in [Coins -> Addresses \cup {None}]
    /\ Held \subseteq Names
    /\ MaxMoves \in Nat
    /\ MaxFaults \in Nat

VARIABLES
    coin,     \* listfunds: the state of an output
    life,     \* accounts row: none, open, closed, or closed beyond the grace
    addr,     \* accounts.address
    minted,   \* the account an address was minted for
    idle,     \* no API call within the idle period
    bills,    \* accounts with a pending invoice
    topup,    \* topup-watcher rows of a coin on an account
    balance,  \* SUM(amount_msat) of an account's rows
    late,     \* history: accounts credited while they were not open
    early,    \* history: addresses of accounts removed before their grace was over
    watcher, keeper, pruner, mover,
    moves, faults

rows == <<topup, balance, late, early>>
accounts == <<life, addr, minted, idle>>
procs == <<watcher, keeper, pruner, mover>>
vars == <<coin, life, addr, minted, idle, bills, topup, balance, late, early,
          watcher, keeper, pruner, mover, moves, faults>>

WatcherState == [pc : {"idle", "known", "looking", "credit"},
                 known : [Addresses -> Names \cup {None}],
                 coins : SUBSET Coins, cur : Coins \cup {None}]
KeeperState == [pc : {"idle", "idlers", "sweep"}, close : SUBSET Names, drop : SUBSET Names]
PrunerState == [pc : {"idle", "prune"}, drop : SUBSET (Addresses \cup {None})]
MoverState == [from : Names \cup {None}, to : Names \cup {None}]

NoOne == [a \in Addresses |-> None]
IdleWatcher == [pc |-> "idle", known |-> NoOne, coins |-> {}, cur |-> None]
IdleKeeper == [pc |-> "idle", close |-> {}, drop |-> {}]
IdlePruner == [pc |-> "idle", drop |-> {}]
NoMove == [from |-> None, to |-> None]

WithRow(r, k, u) == [r EXCEPT ![k][u] = @ + 1]
Exists(u) == life[u] # "absent"

\* The addresses of accounts among D whose grace is not over.
Early(D) == {a \in Addresses : \E u \in D : addr[u] = a /\ life[u] # "stale"}

Init ==
    /\ coin = [k \in Coins |-> "absent"]
    /\ life = [u \in Names |-> "absent"]
    /\ addr = [u \in Names |-> None]
    /\ minted = NoOne
    /\ idle = {} /\ bills = {}
    /\ topup = [k \in Coins |-> [u \in Names |-> 0]]
    /\ balance = [u \in Names |-> 0]
    /\ late = {} /\ early = {}
    /\ watcher = [w \in Watchers |-> IdleWatcher]
    /\ keeper = [g \in Keepers |-> IdleKeeper]
    /\ pruner = [p \in Pruners |-> IdlePruner]
    /\ mover = NoMove
    /\ moves = 0 /\ faults = 0

-----------------------------------------------------------------------------
(* Accounts and their traffic. *)

\* `account create`: the node mints an address, the row is inserted under a name
\* no row has.
Create(u, a) ==
    /\ life[u] = "absent"
    /\ minted[a] = None
    /\ life' = [life EXCEPT ![u] = "open"]
    /\ addr' = [addr EXCEPT ![u] = a]
    /\ minted' = [minted EXCEPT ![a] = u]
    /\ idle' = idle \ {u}
    /\ UNCHANGED <<coin, bills, rows, procs, moves, faults>>

\* `account close` and api-account-close: the time of closing is stamped, again
\* if the account was closed before; neither asks for its balance.
Close(u) ==
    /\ Exists(u)
    /\ life' = [life EXCEPT ![u] = "closed"]
    /\ idle' \in {idle, idle \ {u}}
    /\ UNCHANGED <<coin, addr, minted, bills, rows, procs, moves, faults>>

\* api-account-transfer resolves both ends, neither of which need be open, stamps
\* the sender's last call and checks its balance ...
AskMove(u, v) ==
    /\ mover = NoMove
    /\ moves < MaxMoves
    /\ u # v /\ Exists(u) /\ Exists(v)
    /\ balance[u] >= 1
    /\ mover' = [from |-> u, to |-> v]
    /\ idle' = idle \ {u}
    /\ moves' = moves + 1
    /\ UNCHANGED <<coin, life, addr, minted, bills, rows, watcher, keeper, pruner, faults>>

\* ... and posts its batch, whatever became of the accounts.
PostMove ==
    /\ mover # NoMove
    /\ balance' = [balance EXCEPT ![mover.from] = @ - 1, ![mover.to] = @ + 1]
    /\ late' = IF life[mover.to] = "open" THEN late ELSE late \cup {mover.to}
    /\ mover' = NoMove
    /\ UNCHANGED <<coin, accounts, bills, topup, early, watcher, keeper, pruner, moves, faults>>

\* api-account-recv, or `invoice create` for an account closed meanwhile: the call is
\* stamped, the invoice recorded as pending.
Bill(u) ==
    /\ Exists(u)
    /\ u \notin bills
    /\ moves < MaxMoves
    /\ bills' = bills \cup {u}
    /\ idle' = idle \ {u}
    /\ moves' = moves + 1
    /\ UNCHANGED <<coin, life, addr, minted, rows, procs, faults>>

\* The reconcile pass books a settled invoice to its account, and marks it paid.
Settle(u) ==
    /\ u \in bills
    /\ bills' = bills \ {u}
    /\ balance' = [balance EXCEPT ![u] = @ + 1]
    /\ late' = IF life[u] = "open" THEN late ELSE late \cup {u}
    /\ UNCHANGED <<coin, accounts, topup, early, procs, moves, faults>>

-----------------------------------------------------------------------------
(* The chain, and the passing of time. *)

Broadcast(k) ==
    /\ coin[k] = "absent"
    /\ Dest[k] # None => minted[Dest[k]] # None
    /\ coin' = [coin EXCEPT ![k] = "mempool"]
    /\ UNCHANGED <<accounts, bills, rows, procs, moves, faults>>

Confirm(k) ==
    /\ coin[k] = "mempool"
    /\ coin' = [coin EXCEPT ![k] = "confirmed"]
    /\ UNCHANGED <<accounts, bills, rows, procs, moves, faults>>

\* The node spends an output: a channel is funded, coins are withdrawn.
\* listfunds does not list it any more.
SpendCoin(k) ==
    /\ coin[k] = "confirmed"
    /\ coin' = [coin EXCEPT ![k] = "spent"]
    /\ UNCHANGED <<accounts, bills, rows, procs, moves, faults>>

GrowIdle(u) ==
    /\ Exists(u) /\ u \notin idle
    /\ idle' = idle \cup {u}
    /\ UNCHANGED <<coin, life, addr, minted, bills, rows, procs, moves, faults>>

\* A week goes by after a closing.  No pass lasts that long: one that saw the
\* account open, or idle, has ended.
GrowStale(u) ==
    /\ life[u] = "closed"
    /\ \A w \in Watchers : u \notin Range(watcher[w].known)
    /\ \A g \in Keepers : u \notin keeper[g].close
    /\ life' = [life EXCEPT ![u] = "stale"]
    /\ UNCHANGED <<coin, addr, minted, idle, bills, rows, procs, moves, faults>>

-----------------------------------------------------------------------------
(* The deposit watcher: account topup-watcher run. *)

\* The open accounts with an address.
Owner(S, a) == IF \E u \in S : addr[u] = a THEN CHOOSE u \in S : addr[u] = a ELSE None
KnownClosedToo == [a \in Addresses |-> Owner({u \in Names : Exists(u)}, a)]  \* a slip: no filter on closed_at
Known == [a \in Addresses |-> Owner({u \in Names : life[u] = "open"}, a)]

LookAccounts(w) ==
    /\ watcher[w].pc = "idle"
    /\ watcher' = [watcher EXCEPT ![w] = [IdleWatcher EXCEPT !.pc = "known", !.known = Known]]
    /\ UNCHANGED <<coin, accounts, bills, rows, keeper, pruner, mover, moves, faults>>

\* listfunds lists the unspent outputs; only the confirmed ones count.
ListFunds(w) ==
    /\ watcher[w].pc = "known"
    /\ watcher' = [watcher EXCEPT ![w].pc = "looking",
                                  ![w].coins = {k \in Coins : coin[k] = "confirmed"}]
    /\ UNCHANGED <<coin, accounts, bills, rows, keeper, pruner, mover, moves, faults>>

NameOfAny(w, k) ==  \* a slip: a known account, whatever its address
    IF \E a \in Addresses : watcher[w].known[a] # None
    THEN watcher[w].known[CHOOSE a \in Addresses : watcher[w].known[a] # None] ELSE None
NameOf(w, k) == IF Dest[k] = None THEN None ELSE watcher[w].known[Dest[k]]
NeverBooked(k) == FALSE  \* a slip: no look for an earlier row
BookedAny(k) == \E l \in Coins, u \in Names : topup[l][u] > 0  \* a slip: by transaction, not output
Booked(k) == \E u \in Names : topup[k][u] > 0

\* The next coin: skipped if its address is not known, or if a row has its
\* outpoint as payment hash.
LookCoin(w, k) ==
    /\ watcher[w].pc = "looking"
    /\ k \in watcher[w].coins
    /\ watcher' = [watcher EXCEPT ![w].coins = @ \ {k},
                     ![w].pc = IF NameOf(w, k) = None \/ Booked(k) THEN @ ELSE "credit",
                     ![w].cur = IF NameOf(w, k) = None \/ Booked(k) THEN None ELSE k]
    /\ UNCHANGED <<coin, accounts, bills, rows, keeper, pruner, mover, moves, faults>>

\* The batch of a credit, under the name the address had at the start of the pass.
Credit(w) ==
    LET k == watcher[w].cur  u == NameOf(w, k)
    IN /\ watcher[w].pc = "credit"
       /\ topup' = WithRow(topup, k, u)
       /\ balance' = [balance EXCEPT ![u] = @ + 1]
       /\ late' = IF life[u] = "open" THEN late ELSE late \cup {u}
       /\ watcher' = [watcher EXCEPT ![w].pc = "looking", ![w].cur = None]
       /\ UNCHANGED <<coin, accounts, bills, early, keeper, pruner, mover, moves, faults>>

EndWatch(w) ==
    /\ watcher[w].pc = "looking"
    /\ watcher[w].coins = {}
    /\ watcher' = [watcher EXCEPT ![w] = IdleWatcher]
    /\ UNCHANGED <<coin, accounts, bills, rows, keeper, pruner, mover, moves, faults>>

\* listfunds or the batch fails, or the process dies: the pass is over.
FailWatch(w) ==
    /\ watcher[w].pc # "idle"
    /\ faults < MaxFaults
    /\ watcher' = [watcher EXCEPT ![w] = IdleWatcher]
    /\ faults' = faults + 1
    /\ UNCHANGED <<coin, accounts, bills, rows, keeper, pruner, mover, moves>>

-----------------------------------------------------------------------------
(* The garbage collector: account gc run. *)

\* First query: open, idle, empty, and no pending invoice.
FindIdle(g) ==
    /\ keeper[g].pc = "idle"
    /\ keeper' = [keeper EXCEPT ![g] =
                    [pc |-> "idlers", drop |-> {},
                     close |-> {u \in idle : life[u] = "open" /\ balance[u] = 0 /\ u \notin bills}]]
    /\ UNCHANGED <<coin, accounts, bills, rows, watcher, pruner, mover, moves, faults>>

\* Second query, before anything is done: closed beyond the grace, and empty.
FindClosedRich(g) ==  \* a slip: the balance is not asked for
    /\ keeper[g].pc = "idlers"
    /\ keeper' = [keeper EXCEPT ![g].pc = "sweep", ![g].drop = {u \in Names : life[u] = "stale"}]
    /\ UNCHANGED <<coin, accounts, bills, rows, watcher, pruner, mover, moves, faults>>
FindClosed(g) ==
    /\ keeper[g].pc = "idlers"
    /\ keeper' = [keeper EXCEPT ![g].pc = "sweep",
                                ![g].drop = {u \in Names : life[u] = "stale" /\ balance[u] = 0}]
    /\ UNCHANGED <<coin, accounts, bills, rows, watcher, pruner, mover, moves, faults>>

\* The closing of a candidate, by name and without another look.
CloseIdle(g, u) ==
    /\ keeper[g].pc = "sweep"
    /\ u \in keeper[g].close
    /\ life' = [life EXCEPT ![u] = IF @ = "absent" THEN @ ELSE "closed"]
    /\ keeper' = [keeper EXCEPT ![g].close = @ \ {u}]
    /\ UNCHANGED <<coin, addr, minted, idle, bills, rows, watcher, pruner, mover, moves, faults>>

\* The deletion of a candidate, unless a legal hold vetoes it.  Foreign keys are
\* off, so the rows of the ledger keep the name.
DropClosed(g, u) ==
    /\ keeper[g].pc = "sweep"
    /\ keeper[g].close = {}
    /\ u \in keeper[g].drop
    /\ life' = [life EXCEPT ![u] = IF u \in Held THEN @ ELSE "absent"]
    /\ addr' = [addr EXCEPT ![u] = IF u \in Held THEN @ ELSE None]
    /\ idle' = IF u \in Held THEN idle ELSE idle \ {u}
    /\ early' = early \cup Early({u} \ Held)
    /\ keeper' = [keeper EXCEPT ![g].drop = @ \ {u}]
    /\ UNCHANGED <<coin, minted, bills, topup, balance, late, watcher, pruner, mover, moves, faults>>

EndSweep(g) ==
    /\ keeper[g].pc = "sweep"
    /\ keeper[g].close = {} /\ keeper[g].drop = {}
    /\ keeper' = [keeper EXCEPT ![g] = IdleKeeper]
    /\ UNCHANGED <<coin, accounts, bills, rows, watcher, pruner, mover, moves, faults>>

\* An UPDATE or DELETE fails, or the process dies.
FailSweep(g) ==
    /\ keeper[g].pc # "idle"
    /\ faults < MaxFaults
    /\ keeper' = [keeper EXCEPT ![g] = IdleKeeper]
    /\ faults' = faults + 1
    /\ UNCHANGED <<coin, accounts, bills, rows, watcher, pruner, mover, moves>>

-----------------------------------------------------------------------------
(* wallet-prune *)

\* The query compares closed_at, an INTEGER column, with a date in text form.
\* SQLite orders every integer before every text, so any closing time qualifies.
FindPrunable(p) ==
    /\ pruner[p].pc = "idle"
    /\ pruner' = [pruner EXCEPT ![p] =
                    [pc |-> "prune", drop |-> {addr[u] : u \in {v \in Names : life[v] \in {"closed", "stale"}}}]]
    /\ UNCHANGED <<coin, accounts, bills, rows, watcher, keeper, mover, moves, faults>>

\* One transaction deletes the accounts with the addresses found.  Ledger rows are
\* looked for under the address, and carry the name: none is deleted.
PruneByName(p) ==  \* a slip: the row of the name goes, whatever its address is now
    LET D == {u \in Names : \E a \in pruner[p].drop \cap Addresses : minted[a] = u}
    IN /\ pruner[p].pc = "prune"
       /\ life' = [u \in Names |-> IF u \in D THEN "absent" ELSE life[u]]
       /\ addr' = [u \in Names |-> IF u \in D THEN None ELSE addr[u]]
       /\ idle' = idle \ D
       /\ early' = early \cup Early(D)
       /\ pruner' = [pruner EXCEPT ![p] = IdlePruner]
       /\ UNCHANGED <<coin, minted, bills, topup, balance, late, watcher, keeper, mover, moves, faults>>
Prune(p) ==
    LET D == {u \in Names : addr[u] \in pruner[p].drop}
    IN /\ pruner[p].pc = "prune"
       /\ life' = [u \in Names |-> IF u \in D THEN "absent" ELSE life[u]]
       /\ addr' = [u \in Names |-> IF u \in D THEN None ELSE addr[u]]
       /\ idle' = idle \ D
       /\ early' = early \cup Early(D)
       /\ pruner' = [pruner EXCEPT ![p] = IdlePruner]
       /\ UNCHANGED <<coin, minted, bills, topup, balance, late, watcher, keeper, mover, moves, faults>>

-----------------------------------------------------------------------------

WatchStep(w) == \/ LookAccounts(w) \/ ListFunds(w) \/ Credit(w) \/ EndWatch(w)
                \/ \E k \in Coins : LookCoin(w, k)
SweepStep(g) == \/ FindIdle(g) \/ FindClosed(g) \/ EndSweep(g)
                \/ \E u \in Names : CloseIdle(g, u) \/ DropClosed(g, u)
Traffic == \/ PostMove
           \/ \E u \in Names : Close(u) \/ Bill(u) \/ Settle(u) \/ GrowIdle(u) \/ GrowStale(u)
           \/ \E u \in Names, a \in Addresses : Create(u, a)
           \/ \E u, v \in Names : AskMove(u, v)
Chain == \E k \in Coins : Broadcast(k) \/ Confirm(k) \/ SpendCoin(k)

Next == \/ Traffic \/ Chain
        \/ \E w \in Watchers : WatchStep(w) \/ FailWatch(w)
        \/ \E g \in Keepers : SweepStep(g) \/ FailSweep(g)
        \/ \E p \in Pruners : FindPrunable(p) \/ Prune(p)

Spec == Init /\ [][Next]_vars

\* The one-minute timer starts a watcher when none runs, and a pass that is not
\* killed goes on to its end.
FairSpec == Spec /\ \A w \in Watchers : WF_vars(WatchStep(w))

-----------------------------------------------------------------------------
(* Properties. *)

\* Every variable has its type; rows only ever count up from none.
TypeOK ==
    /\ coin \in [Coins -> {"absent", "mempool", "confirmed", "spent"}]
    /\ life \in [Names -> {"absent", "open", "closed", "stale"}]
    /\ addr \in [Names -> Addresses \cup {None}]
    /\ minted \in [Addresses -> Names \cup {None}]
    /\ idle \subseteq Names /\ bills \subseteq Names /\ late \subseteq Names /\ early \subseteq Addresses
    /\ topup \in [Coins -> [Names -> Nat]]
    /\ balance \in [Names -> Int]
    /\ watcher \in [Watchers -> WatcherState]
    /\ keeper \in [Keepers -> KeeperState]
    /\ pruner \in [Pruners -> PrunerState]
    /\ mover \in MoverState
    /\ moves \in Nat /\ faults \in Nat

\* A credit of the watcher is the deposit of its account: the coin was confirmed and
\* pays the address minted under that name (the confirmed-only filter and the match
\* against the addresses known).
CreditSound ==
    \A k \in Coins, u \in Names : topup[k][u] > 0 =>
        /\ coin[k] \in {"confirmed", "spent"}
        /\ Dest[k] # None /\ minted[Dest[k]] = u

\* No deposit is credited twice, whatever pass dies where ("Idempotent -- UTXOs are
\* deduped by the synthetic payment_hash").
CreditedOnce == \A k \in Coins : SumFunction(topup[k]) =< 1

\* A pass may credit an account closed under it, but never one closed for the whole
\* grace period, deleted, or created anew under the same name since, unless the one it
\* knew was removed before its grace was over: by wallet-prune, or by a gc that had
\* found an earlier account of the name.
NoCreditBeyondGrace ==
    [][\A k \in Coins, u \in Names : topup'[k][u] # topup[k][u] =>
          \/ life[u] \in {"open", "closed"} /\ addr[u] = Dest[k]
          \/ Dest[k] \in early]_vars

\* The garbage collector leaves no money under a name without an account, except what
\* was sent to the account after its closing.
NothingStranded == \A u \in Names : ~Exists(u) => balance[u] = 0 \/ u \in late

\* A confirmed deposit of an open account is credited in the end, unless the node
\* spends the coin or the account is closed first.
DepositSettled ==
    \A k \in Coins, u \in Names :
        (coin[k] = "confirmed" /\ life[u] = "open" /\ addr[u] = Dest[k])
            ~> (topup[k][u] > 0 \/ coin[k] = "spent" \/ life[u] # "open" \/ addr[u] # Dest[k])

\* wallet-prune never removes an open account, not even one created under a name it
\* found closed: it deletes by address, and an address is minted once.
OpenSpared ==
    [][\A p \in Pruners, u \in Names : Prune(p) /\ life[u] = "open" => Exists(u)']_vars

\* "sending sats to it credits the account when the deposit watcher runs": a coin spent
\* between two passes is listed by neither.
DepositCredited ==
    \A k \in Coins, u \in Names :
        (coin[k] = "confirmed" /\ life[u] = "open" /\ addr[u] = Dest[k])
            ~> (topup[k][u] > 0 \/ life[u] # "open")

\* "closed accounts stop receiving credits at the watcher level": the watcher goes by
\* the accounts it knew before it asked the node.
ClosedNotCredited ==
    [][\A k \in Coins, u \in Names : topup'[k][u] # topup[k][u] => life[u] = "open"]_vars

\* gc closes accounts without balance, recent call or open invoice: it looked for them
\* in a query before the loop.
OnlyIdleClosed ==
    [][\A g \in Keepers, u \in Names : CloseIdle(g, u) /\ life[u] = "open" =>
          u \in idle /\ balance[u] = 0 /\ u \notin bills]_vars

\* wallet-prune removes accounts "closed for more than N days".
OnlyAgedPruned ==
    [][\A u \in Names : life[u] = "closed" => Exists(u)']_vars
=============================================================================
