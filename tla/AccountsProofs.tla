---------------------------- MODULE AccountsProofs ----------------------------
(***************************************************************************)
(* Theorems about Accounts, for any names, addresses, coins, watchers and  *)
(* bounds.                                                                 *)
(***************************************************************************)
EXTENDS Accounts, Sums

-----------------------------------------------------------------------------
(* The inductive invariant. *)

\* Of a running garbage collector there is one, and wallet-prune is not used.
OneKeeper == Pruners = {} /\ \A g, h \in Keepers : g = h

\* A row's address was minted for it.
AddrMinted == \A u \in Names : addr[u] # None => minted[addr[u]] = u

\* The accounts a pass goes by are there still, under the same address, and not yet
\* beyond the grace.
KnownAlive ==
    \A w \in Watchers, a \in Addresses : watcher[w].known[a] # None =>
        /\ life[watcher[w].known[a]] \in {"open", "closed"}
        /\ addr[watcher[w].known[a]] = a

\* A pass about to credit has a coin of an account it knows.
CurKnown ==
    \A w \in Watchers : watcher[w].pc = "credit" =>
        watcher[w].cur \in Coins /\ NameOf(w, watcher[w].cur) \in Names

\* A transfer under way has both its ends, and the sender's money is there.
Funded == mover # NoMove =>
    mover.from \in Names /\ mover.to \in Names /\ balance[mover.from] >= 1

\* What is about to be deleted is closed, known to no pass, and empty unless it was
\* credited after its closing.
Swept ==
    \A g \in Keepers : \A u \in keeper[g].drop :
        /\ life[u] \in {"closed", "stale"}
        /\ balance[u] = 0 \/ u \in late
        /\ \A w \in Watchers, a \in Addresses : watcher[w].known[a] # u

Inv == /\ TypeOK /\ AddrMinted /\ KnownAlive /\ CurKnown /\ Funded /\ Swept
       /\ NothingStranded

\* What keeps the types, whoever runs: a transfer under way has both its ends.
Kept == /\ TypeOK /\ CurKnown
        /\ mover # NoMove => mover.from \in Names /\ mover.to \in Names

LEMMA InvKept == Inv => Kept
BY DEF Inv, Kept, Funded

-----------------------------------------------------------------------------
(* Types. *)

LEMMA KnownType ==
    ASSUME TypeOK
    PROVE  Known \in [Addresses -> Names \cup {None}]
BY DEF TypeOK, Known, Owner

\* The accounts a pass sets out with are open, under the addresses it knows them by.
LEMMA KnownOpen ==
    ASSUME NEW a \in Addresses, Known[a] # None
    PROVE  Known[a] \in Names /\ life[Known[a]] = "open" /\ addr[Known[a]] = a
<1> DEFINE S == {u \in Names : life[u] = "open"}
<1>1. Known[a] = IF \E u \in S : addr[u] = a THEN CHOOSE u \in S : addr[u] = a ELSE None
    BY DEF Known, Owner
<1>2. Known[a] \in S /\ addr[Known[a]] = a
    BY <1>1
<1> QED
    BY <1>2

\* One watcher moves.
LEMMA WatcherFrame ==
    ASSUME TypeOK, NEW w \in Watchers, NEW q \in WatcherState,
           watcher' = [watcher EXCEPT ![w] = q]
    PROVE  /\ watcher' \in [Watchers -> WatcherState]
           /\ watcher'[w] = q
           /\ \A x \in Watchers : x # w => watcher'[x] = watcher[x]
BY DEF TypeOK

\* What each step of a watcher makes of it.
LEMMA WatcherMoves ==
    ASSUME TypeOK, NEW w \in Watchers
    PROVE  /\ LookAccounts(w) =>
                /\ watcher' \in [Watchers -> WatcherState]
                /\ watcher'[w].known = Known /\ watcher'[w].pc = "known"
                /\ \A x \in Watchers : x # w => watcher'[x] = watcher[x]
           /\ ListFunds(w) =>
                /\ watcher' \in [Watchers -> WatcherState]
                /\ watcher'[w].known = watcher[w].known /\ watcher'[w].pc = "looking"
                /\ \A x \in Watchers : x # w => watcher'[x] = watcher[x]
           /\ \A k \in Coins : LookCoin(w, k) =>
                /\ watcher' \in [Watchers -> WatcherState]
                /\ watcher'[w].known = watcher[w].known
                /\ watcher'[w].pc = "credit" =>
                      watcher'[w].cur = k /\ NameOf(w, k) # None
                /\ \A x \in Watchers : x # w => watcher'[x] = watcher[x]
           /\ Credit(w) =>
                /\ watcher' \in [Watchers -> WatcherState]
                /\ watcher'[w].known = watcher[w].known /\ watcher'[w].pc = "looking"
                /\ \A x \in Watchers : x # w => watcher'[x] = watcher[x]
           /\ EndWatch(w) \/ FailWatch(w) =>
                /\ watcher' \in [Watchers -> WatcherState]
                /\ watcher'[w] = IdleWatcher
                /\ \A x \in Watchers : x # w => watcher'[x] = watcher[x]
<1>1. TypeOK /\ watcher[w] \in WatcherState
    BY DEF TypeOK
<1>2. ASSUME LookAccounts(w)
      PROVE  /\ watcher' \in [Watchers -> WatcherState]
             /\ watcher'[w].known = Known /\ watcher'[w].pc = "known"
             /\ \A x \in Watchers : x # w => watcher'[x] = watcher[x]
    <2> DEFINE q == [IdleWatcher EXCEPT !.pc = "known", !.known = Known]
    <2>1. q \in WatcherState /\ q.known = Known /\ q.pc = "known"
        BY KnownType, <1>1 DEF IdleWatcher, WatcherState
    <2>2. watcher' = [watcher EXCEPT ![w] = q]
        BY <1>2 DEF LookAccounts
    <2> HIDE DEF q
    <2> QED
        BY <1>1, <2>1, <2>2, WatcherFrame
<1>3. ASSUME ListFunds(w)
      PROVE  /\ watcher' \in [Watchers -> WatcherState]
             /\ watcher'[w].known = watcher[w].known /\ watcher'[w].pc = "looking"
             /\ \A x \in Watchers : x # w => watcher'[x] = watcher[x]
    <2> DEFINE S == {k \in Coins : coin[k] = "confirmed"}
               q == [watcher[w] EXCEPT !.pc = "looking", !.coins = S]
    <2>1. S \in SUBSET Coins
        OBVIOUS
    <2>2. watcher' = [watcher EXCEPT ![w] = q]
        BY <1>3 DEF ListFunds
    <2> HIDE DEF S
    <2>3. q \in WatcherState /\ q.known = watcher[w].known /\ q.pc = "looking"
        BY <1>1, <2>1 DEF WatcherState
    <2> HIDE DEF q
    <2> QED
        BY <1>1, <2>2, <2>3, WatcherFrame
<1>4. ASSUME NEW k \in Coins, LookCoin(w, k)
      PROVE  /\ watcher' \in [Watchers -> WatcherState]
             /\ watcher'[w].known = watcher[w].known
             /\ watcher'[w].pc = "credit" => watcher'[w].cur = k /\ NameOf(w, k) # None
             /\ \A x \in Watchers : x # w => watcher'[x] = watcher[x]
    <2> DEFINE skip == NameOf(w, k) = None \/ Booked(k)
               q == [watcher[w] EXCEPT !.coins = @ \ {k},
                                       !.pc = IF skip THEN @ ELSE "credit",
                                       !.cur = IF skip THEN None ELSE k]
    <2>1. watcher' = [watcher EXCEPT ![w] = q]
        BY <1>4 DEF LookCoin
    <2>2. ~skip => NameOf(w, k) # None
        OBVIOUS
    <2>3. watcher[w].pc = "looking" /\ skip \in BOOLEAN
        BY <1>4 DEF LookCoin
    <2> HIDE DEF skip
    <2>4. q \in WatcherState /\ q.known = watcher[w].known
        BY <1>1 DEF WatcherState
    <2>5. q.pc = "credit" => q.cur = k /\ NameOf(w, k) # None
        BY <1>1, <2>2, <2>3 DEF WatcherState
    <2> HIDE DEF q
    <2> QED
        BY <1>1, <2>1, <2>4, <2>5, WatcherFrame
<1>5. ASSUME Credit(w)
      PROVE  /\ watcher' \in [Watchers -> WatcherState]
             /\ watcher'[w].known = watcher[w].known /\ watcher'[w].pc = "looking"
             /\ \A x \in Watchers : x # w => watcher'[x] = watcher[x]
    <2> DEFINE q == [watcher[w] EXCEPT !.pc = "looking", !.cur = None]
    <2>1. q \in WatcherState /\ q.known = watcher[w].known /\ q.pc = "looking"
        BY <1>1 DEF WatcherState
    <2>2. watcher' = [watcher EXCEPT ![w] = q]
        BY <1>5 DEF Credit
    <2> HIDE DEF q
    <2> QED
        BY <1>1, <2>1, <2>2, WatcherFrame
<1>6. ASSUME EndWatch(w) \/ FailWatch(w)
      PROVE  /\ watcher' \in [Watchers -> WatcherState]
             /\ watcher'[w] = IdleWatcher
             /\ \A x \in Watchers : x # w => watcher'[x] = watcher[x]
    <2>1. IdleWatcher \in WatcherState
        BY DEF IdleWatcher, WatcherState, NoOne
    <2>2. watcher' = [watcher EXCEPT ![w] = IdleWatcher]
        BY <1>6 DEF EndWatch, FailWatch
    <2> QED
        BY <1>1, <2>1, <2>2, WatcherFrame
<1> QED
    BY <1>2, <1>3, <1>4, <1>5, <1>6

\* The batch of a credit.
LEMMA CreditRows ==
    ASSUME Kept, NEW w \in Watchers, Credit(w)
    PROVE  LET k == watcher[w].cur  u == NameOf(w, k)
           IN /\ k \in Coins /\ u \in Names /\ Dest[k] \in Addresses
              /\ watcher[w].known[Dest[k]] = u
              /\ topup' \in [Coins -> [Names -> Nat]]
              /\ \A l \in Coins, v \in Names :
                    topup'[l][v] = IF l = k /\ v = u THEN topup[l][v] + 1 ELSE topup[l][v]
              /\ balance' \in [Names -> Int]
              /\ \A v \in Names : balance'[v] = IF v = u THEN balance[v] + 1 ELSE balance[v]
              /\ late' = IF life[u] = "open" THEN late ELSE late \cup {u}
<1> DEFINE k == watcher[w].cur  u == NameOf(w, k)
<1>1. k \in Coins /\ u \in Names
    BY DEF Kept, CurKnown, Credit
<1>2. Dest[k] \in Addresses /\ watcher[w].known[Dest[k]] = u
    BY <1>1, AccountsAssumption DEF NameOf
<1>3. /\ topup' = [topup EXCEPT ![k][u] = @ + 1]
      /\ balance' = [balance EXCEPT ![u] = @ + 1]
      /\ late' = IF life[u] = "open" THEN late ELSE late \cup {u}
    BY DEF Credit, WithRow
<1> HIDE DEF k, u
<1>4. topup \in [Coins -> [Names -> Nat]] /\ balance \in [Names -> Int]
    BY DEF Kept, TypeOK
<1>5. /\ topup' \in [Coins -> [Names -> Nat]]
      /\ \A l \in Coins, v \in Names :
            topup'[l][v] = IF l = k /\ v = u THEN topup[l][v] + 1 ELSE topup[l][v]
    BY <1>1, <1>3, <1>4
<1>6. /\ balance' \in [Names -> Int]
      /\ \A v \in Names : balance'[v] = IF v = u THEN balance[v] + 1 ELSE balance[v]
    BY <1>1, <1>3, <1>4
<1> QED
    BY <1>1, <1>2, <1>3, <1>5, <1>6 DEF k, u

\* The account it is for.
LEMMA CreditEffect ==
    ASSUME Inv, NEW w \in Watchers, Credit(w)
    PROVE  LET k == watcher[w].cur  u == NameOf(w, k)
           IN /\ k \in Coins /\ u \in Names /\ Dest[k] \in Addresses
              /\ watcher[w].known[Dest[k]] = u
              /\ life[u] \in {"open", "closed"} /\ addr[u] = Dest[k]
              /\ \A l \in Coins, v \in Names :
                    topup'[l][v] = IF l = k /\ v = u THEN topup[l][v] + 1 ELSE topup[l][v]
              /\ balance' \in [Names -> Int]
              /\ \A v \in Names : balance'[v] = IF v = u THEN balance[v] + 1 ELSE balance[v]
              /\ late' = IF life[u] = "open" THEN late ELSE late \cup {u}
<1> DEFINE k == watcher[w].cur  u == NameOf(w, k)
<1>1. /\ k \in Coins /\ u \in Names /\ Dest[k] \in Addresses
      /\ watcher[w].known[Dest[k]] = u
      /\ \A l \in Coins, v \in Names :
            topup'[l][v] = IF l = k /\ v = u THEN topup[l][v] + 1 ELSE topup[l][v]
      /\ balance' \in [Names -> Int]
      /\ \A v \in Names : balance'[v] = IF v = u THEN balance[v] + 1 ELSE balance[v]
      /\ late' = IF life[u] = "open" THEN late ELSE late \cup {u}
    BY CreditRows, InvKept
<1> HIDE DEF k, u
<1>2. life[u] \in {"open", "closed"} /\ addr[u] = Dest[k]
    BY <1>1, AccountsAssumption DEF Inv, KnownAlive
<1> QED
    BY <1>1, <1>2 DEF k, u

\* Every step keeps the types.
LEMMA TypeStep ==
    ASSUME Kept, [Next]_vars
    PROVE  TypeOK'
<1> TypeOK
    BY DEF Kept
<1>1. ASSUME NEW u \in Names, NEW a \in Addresses, Create(u, a) PROVE TypeOK'
    BY <1>1 DEF TypeOK, Create, rows, procs
<1>2. ASSUME NEW u \in Names, Close(u) PROVE TypeOK'
    BY <1>2 DEF TypeOK, Close, rows, procs, Exists
<1>3. ASSUME NEW u \in Names, NEW v \in Names, AskMove(u, v) PROVE TypeOK'
    BY <1>3 DEF TypeOK, AskMove, rows, MoverState
<1>4. ASSUME PostMove PROVE TypeOK'
    <2>1. mover.from \in Names /\ mover.to \in Names
        BY <1>4 DEF PostMove, Kept
    <2> QED
        BY <1>4, <2>1 DEF TypeOK, PostMove, accounts, MoverState, NoMove
<1>5. ASSUME NEW u \in Names, Bill(u) PROVE TypeOK'
    BY <1>5 DEF TypeOK, Bill, rows, procs
<1>6. ASSUME NEW u \in Names, Settle(u) PROVE TypeOK'
    BY <1>6 DEF TypeOK, Settle, accounts, procs
<1>7. ASSUME NEW k \in Coins, Broadcast(k) PROVE TypeOK'
    BY <1>7 DEF TypeOK, Broadcast, accounts, rows, procs
<1>8. ASSUME NEW k \in Coins, Confirm(k) PROVE TypeOK'
    BY <1>8 DEF TypeOK, Confirm, accounts, rows, procs
<1>9. ASSUME NEW k \in Coins, SpendCoin(k) PROVE TypeOK'
    BY <1>9 DEF TypeOK, SpendCoin, accounts, rows, procs
<1>10. ASSUME NEW u \in Names, GrowIdle(u) PROVE TypeOK'
    BY <1>10 DEF TypeOK, GrowIdle, rows, procs
<1>11. ASSUME NEW u \in Names, GrowStale(u) PROVE TypeOK'
    BY <1>11 DEF TypeOK, GrowStale, rows, procs
<1>12. ASSUME NEW w \in Watchers, LookAccounts(w) PROVE TypeOK'
    BY <1>12, WatcherMoves DEF TypeOK, LookAccounts, accounts, rows
<1>13. ASSUME NEW w \in Watchers, ListFunds(w) PROVE TypeOK'
    BY <1>13, WatcherMoves DEF TypeOK, ListFunds, accounts, rows
<1>14. ASSUME NEW w \in Watchers, NEW k \in Coins, LookCoin(w, k) PROVE TypeOK'
    BY <1>14, WatcherMoves DEF TypeOK, LookCoin, accounts, rows
<1>15. ASSUME NEW w \in Watchers, Credit(w) PROVE TypeOK'
    <2>1. watcher' \in [Watchers -> WatcherState]
        BY <1>15, WatcherMoves
    <2>2. late' \subseteq Names
        <3>1. /\ NameOf(w, watcher[w].cur) \in Names
              /\ late' = late \/ late' = late \cup {NameOf(w, watcher[w].cur)}
            BY <1>15, CreditRows
        <3>2. late \subseteq Names
            BY DEF TypeOK
        <3> QED
            BY <3>1, <3>2
    <2> QED
        BY <1>15, <2>1, <2>2, CreditRows DEF TypeOK, Credit, accounts
<1>16. ASSUME NEW w \in Watchers, EndWatch(w) PROVE TypeOK'
    BY <1>16, WatcherMoves DEF TypeOK, EndWatch, accounts, rows
<1>17. ASSUME NEW w \in Watchers, FailWatch(w) PROVE TypeOK'
    <2>1. watcher' \in [Watchers -> WatcherState]
        BY <1>17, WatcherMoves
    <2> QED
        BY <1>17, <2>1 DEF TypeOK, FailWatch, accounts, rows
<1>18. ASSUME NEW g \in Keepers, FindIdle(g) PROVE TypeOK'
    BY <1>18 DEF TypeOK, FindIdle, accounts, rows, KeeperState
<1>19. ASSUME NEW g \in Keepers, FindClosed(g) PROVE TypeOK'
    <2> DEFINE D == {u \in Names : life[u] = "stale" /\ balance[u] = 0}
    <2>1. D \in SUBSET Names
        OBVIOUS
    <2>2. keeper' = [keeper EXCEPT ![g] = [@ EXCEPT !.pc = "sweep", !.drop = D]]
        BY <1>19 DEF FindClosed
    <2> HIDE DEF D
    <2>3. keeper' \in [Keepers -> KeeperState]
        BY <2>1, <2>2 DEF TypeOK, KeeperState
    <2> QED
        BY <1>19, <2>3 DEF TypeOK, FindClosed, accounts, rows
<1>20. ASSUME NEW g \in Keepers, NEW u \in Names, CloseIdle(g, u) PROVE TypeOK'
    BY <1>20 DEF TypeOK, CloseIdle, rows, KeeperState
<1>21. ASSUME NEW g \in Keepers, NEW u \in Names, DropClosed(g, u) PROVE TypeOK'
    BY <1>21 DEF TypeOK, DropClosed, Early, KeeperState
<1>22. ASSUME NEW g \in Keepers, EndSweep(g) PROVE TypeOK'
    BY <1>22 DEF TypeOK, EndSweep, accounts, rows, KeeperState, IdleKeeper
<1>23. ASSUME NEW g \in Keepers, FailSweep(g) PROVE TypeOK'
    BY <1>23 DEF TypeOK, FailSweep, accounts, rows, KeeperState, IdleKeeper
<1>24. ASSUME NEW p \in Pruners, FindPrunable(p) PROVE TypeOK'
    BY <1>24 DEF TypeOK, FindPrunable, accounts, rows, PrunerState
<1>25. ASSUME NEW p \in Pruners, Prune(p) PROVE TypeOK'
    BY <1>25 DEF TypeOK, Prune, Early, PrunerState, IdlePruner
<1>26. CASE UNCHANGED vars
    BY <1>26 DEF TypeOK, vars
<1> QED
    BY <1>1, <1>2, <1>3, <1>4, <1>5, <1>6, <1>7, <1>8, <1>9, <1>10, <1>11, <1>12, <1>13, <1>14, <1>15, <1>16, <1>17, <1>18, <1>19, <1>20, <1>21, <1>22, <1>23, <1>24, <1>25, <1>26 DEF Next, Traffic, Chain, WatchStep, SweepStep

-----------------------------------------------------------------------------
(* The rest of the invariant. *)

\* A step that touches no row, and leaves the passes knowing no more, and the keepers
\* with no more to delete, than before.
LEMMA Calm ==
    ASSUME Inv, TypeOK',
           UNCHANGED <<life, addr, minted, topup, balance, late, mover>>,
           \A w \in Watchers : \/ /\ watcher'[w].known = watcher[w].known
                                  /\ watcher'[w].pc = "credit" =>
                                        watcher'[w].cur \in Coins /\ NameOf(w, watcher'[w].cur) \in Names
                               \/ watcher'[w] = IdleWatcher,
           \A g \in Keepers : keeper'[g].drop \subseteq keeper[g].drop
    PROVE  Inv'
<1> USE DEF Inv
<1>1. ASSUME NEW w \in Watchers, NEW a \in Addresses
      PROVE  watcher'[w].known[a] # None => watcher'[w].known[a] = watcher[w].known[a]
    BY DEF IdleWatcher, NoOne
<1>2. AddrMinted' /\ Funded' /\ NothingStranded'
    BY DEF AddrMinted, Funded, NothingStranded, Exists
<1>3. KnownAlive'
    BY <1>1 DEF KnownAlive
<1>4. CurKnown'
    BY DEF CurKnown, NameOf, IdleWatcher
<1>5. Swept'
    <2>1. ASSUME NEW g \in Keepers, NEW u \in keeper'[g].drop, NEW w \in Watchers, NEW a \in Addresses
          PROVE  watcher'[w].known[a] # u
        <3>1. u \in keeper[g].drop /\ u \in Names
            BY DEF TypeOK, KeeperState
        <3>2. u # None /\ watcher[w].known[a] # u
            BY <3>1, AccountsAssumption DEF Swept
        <3> QED
            BY <3>2, <1>1
    <2>2. \A g \in Keepers : \A u \in keeper'[g].drop :
              life[u] \in {"closed", "stale"} /\ (balance[u] = 0 \/ u \in late)
        BY DEF Swept
    <2> QED
        BY <2>1, <2>2 DEF Swept
<1> QED
    BY <1>2, <1>3, <1>4, <1>5

\* A step of no watcher and no keeper that neither creates nor drops an account, ages
\* none a pass knows, takes no money a transfer counts on, and marks what it credits late.
LEMMA Booking ==
    ASSUME Inv, TypeOK', UNCHANGED <<addr, minted, watcher>>,
           \A u \in Names : \/ life'[u] = life[u]
                            \/ Exists(u) /\ life'[u] = "closed"
                            \/ /\ life[u] = "closed" /\ life'[u] = "stale"
                               /\ \A w \in Watchers, a \in Addresses : watcher[w].known[a] # u,
           \A u \in Names : u \in late => u \in late',
           \A u \in Names : balance'[u] # balance[u] =>
               life[u] = "open" \/ u \in late',
           Funded',
           \A g \in Keepers : keeper'[g].drop \subseteq keeper[g].drop
    PROVE  Inv'
<1> USE DEF Inv
<1>1. AddrMinted'
    BY DEF AddrMinted
<1>2. ASSUME NEW w \in Watchers, NEW a \in Addresses, watcher[w].known[a] # None
      PROVE  /\ life'[watcher[w].known[a]] \in {"open", "closed"}
             /\ addr[watcher[w].known[a]] = a
    <2> DEFINE u == watcher[w].known[a]
    <2>1. u \in Names /\ life[u] \in {"open", "closed"} /\ addr[u] = a
        BY <1>2 DEF TypeOK, WatcherState, KnownAlive
    <2> HIDE DEF u
    <2>2. life'[u] \in {"open", "closed"}
        <3>1. watcher[w].known[a] = u
            BY DEF u
        <3> QED
            BY <2>1, <3>1
    <2> QED
        BY <2>1, <2>2 DEF u
<1>3. KnownAlive'
    BY <1>2 DEF KnownAlive
<1>4. CurKnown'
    BY DEF CurKnown, NameOf
<1>5. Swept'
    <2>1. ASSUME NEW g \in Keepers, NEW u \in keeper'[g].drop
          PROVE  /\ life'[u] \in {"closed", "stale"}
                 /\ balance'[u] = 0 \/ u \in late'
                 /\ \A w \in Watchers, a \in Addresses : watcher[w].known[a] # u
        <3>1. /\ u \in Names /\ life[u] \in {"closed", "stale"}
              /\ balance[u] = 0 \/ u \in late
              /\ \A w \in Watchers, a \in Addresses : watcher[w].known[a] # u
            BY DEF Swept, TypeOK, KeeperState
        <3>2. life'[u] \in {"closed", "stale"}
            BY <3>1
        <3>3. balance'[u] = 0 \/ u \in late'
            BY <3>1
        <3> QED
            BY <3>1, <3>2, <3>3
    <2> QED
        BY <2>1 DEF Swept
<1>6. NothingStranded'
    <2>1. ASSUME NEW u \in Names, life'[u] = "absent" PROVE balance'[u] = 0 \/ u \in late'
        <3>1. life[u] = "absent"
            BY <2>1
        <3> QED
            BY <3>1 DEF NothingStranded, Exists
    <2> QED
        BY <2>1 DEF NothingStranded, Exists
<1> QED
    BY <1>1, <1>3, <1>4, <1>5, <1>6

\* Accounts and their traffic.
LEMMA TrafficStep ==
    ASSUME Inv, Traffic, TypeOK'
    PROVE  Inv'
<1> USE DEF Inv
<1>1. ASSUME NEW u \in Names, NEW a \in Addresses, Create(u, a) PROVE Inv'
    <2>1. /\ life[u] = "absent" /\ minted[a] = None
          /\ life' \in [Names -> {"absent", "open", "closed", "stale"}]
          /\ \A v \in Names : life'[v] = IF v = u THEN "open" ELSE life[v]
          /\ \A v \in Names : addr'[v] = IF v = u THEN a ELSE addr[v]
          /\ \A b \in Addresses : minted'[b] = IF b = a THEN u ELSE minted[b]
          /\ UNCHANGED <<topup, balance, late, watcher, keeper, mover>>
        BY <1>1 DEF Create, TypeOK, rows, procs
    <2>2. AddrMinted'
        BY <2>1, AccountsAssumption DEF AddrMinted, TypeOK
    <2>3. ASSUME NEW w \in Watchers, NEW b \in Addresses PROVE watcher[w].known[b] # u
        BY <2>1, AccountsAssumption DEF KnownAlive
    <2>4. KnownAlive'
        BY <2>1, <2>3 DEF KnownAlive, TypeOK, WatcherState
    <2>5. CurKnown' /\ Funded'
        BY <2>1 DEF CurKnown, NameOf, Funded
    <2>6. Swept'
        <3>1. ASSUME NEW g \in Keepers, NEW v \in keeper[g].drop
              PROVE  life'[v] = life[v]
            <4>1. v \in Names /\ life[v] \in {"closed", "stale"}
                BY DEF Swept, TypeOK, KeeperState
            <4> QED
                BY <2>1, <4>1
        <3> QED
            BY <2>1, <3>1 DEF Swept
    <2>7. NothingStranded'
        BY <2>1 DEF NothingStranded, Exists
    <2> QED
        BY <2>2, <2>4, <2>5, <2>6, <2>7
<1>2. ASSUME NEW u \in Names, Close(u) PROVE Inv'
    <2>1. /\ Exists(u) /\ UNCHANGED <<addr, minted, topup, balance, late, watcher, keeper, mover>>
          /\ \A v \in Names : life'[v] = IF v = u THEN "closed" ELSE life[v]
        BY <1>2 DEF Close, TypeOK, rows, procs
    <2>2. Funded'
        BY <2>1 DEF Funded
    <2> QED
        BY <2>1, <2>2, Booking
<1>3. ASSUME NEW u \in Names, NEW v \in Names, AskMove(u, v) PROVE Inv'
    <2>1. /\ mover' = [from |-> u, to |-> v] /\ balance[u] >= 1
          /\ UNCHANGED <<life, addr, minted, topup, balance, late, watcher, keeper>>
        BY <1>3 DEF AskMove, rows
    <2>2. Funded'
        BY <2>1 DEF Funded
    <2> QED
        BY <2>1, <2>2, Booking
<1>4. CASE PostMove
    <2> DEFINE u == mover.from  v == mover.to
    <2>1. u \in Names /\ v \in Names /\ balance[u] >= 1
        BY <1>4 DEF PostMove, Funded
    <2>2. /\ UNCHANGED <<life, addr, minted, topup, watcher, keeper>>
          /\ mover' = NoMove
          /\ balance' = [balance EXCEPT ![u] = @ - 1, ![v] = @ + 1]
          /\ late' = IF life[v] = "open" THEN late ELSE late \cup {v}
        BY <1>4 DEF PostMove, accounts
    <2> HIDE DEF u, v
    <2>3. Funded'
        BY <2>2 DEF Funded
    <2>4. \A x \in Names : x \in late => x \in late'
        BY <2>2
    <2>5. ASSUME NEW x \in Names, balance'[x] # balance[x], life[x] # "open"
          PROVE  x \in late' \/ (x = u /\ x \notin late)
        BY <2>1, <2>2, <2>5 DEF TypeOK
    <2>6. CASE life[u] \in {"open"} \/ u \in late'
        <3>1. \A x \in Names : balance'[x] # balance[x] => life[x] = "open" \/ x \in late'
            BY <2>4, <2>5, <2>6
        <3> QED
            BY <2>2, <2>3, <2>4, <3>1, Booking
    <2>7. CASE life[u] # "open" /\ u \notin late'
        \* The sender is closed and never was credited late: its money shows that it is
        \* neither deleted nor about to be.
        <3>1. u \notin late /\ u # v
            BY <2>1, <2>2, <2>4, <2>7
        <3>2. Exists(u) /\ \A g \in Keepers : u \notin keeper[g].drop
            BY <2>1, <3>1 DEF NothingStranded, Swept
        <3>3. \A x \in Names : x # u => balance'[x] = balance[x] \/ life[x] = "open" \/ x \in late'
            BY <2>5
        <3>4. AddrMinted' /\ KnownAlive' /\ CurKnown'
            BY <2>2 DEF AddrMinted, KnownAlive, CurKnown, NameOf
        <3>5. Swept'
            <4>1. ASSUME NEW g \in Keepers, NEW x \in keeper[g].drop
                  PROVE  balance'[x] = 0 \/ x \in late'
                <5>1. x \in Names /\ x # u /\ life[x] # "open" /\ (balance[x] = 0 \/ x \in late)
                    BY <3>2 DEF Swept, TypeOK, KeeperState
                <5> QED
                    BY <5>1, <3>3, <2>4
            <4> QED
                BY <4>1, <2>2 DEF Swept
        <3>6. NothingStranded'
            <4>1. ASSUME NEW x \in Names, life[x] = "absent" PROVE balance'[x] = 0 \/ x \in late'
                <5>1. x # u /\ (balance[x] = 0 \/ x \in late)
                    BY <4>1, <3>2 DEF NothingStranded, Exists
                <5> QED
                    BY <4>1, <5>1, <3>3, <2>4
            <4> QED
                BY <4>1, <2>2 DEF NothingStranded, Exists
        <3> QED
            BY <2>3, <3>4, <3>5, <3>6
    <2> QED
        BY <2>6, <2>7
<1>5. ASSUME NEW u \in Names, Bill(u) PROVE Inv'
    <2>1. UNCHANGED <<life, addr, minted, topup, balance, late, watcher, keeper, mover>>
        BY <1>5 DEF Bill, rows, procs
    <2>2. Funded'
        BY <2>1 DEF Funded
    <2> QED
        BY <2>1, <2>2, Booking
<1>6. ASSUME NEW u \in Names, Settle(u) PROVE Inv'
    <2>1. /\ UNCHANGED <<life, addr, minted, topup, watcher, keeper, mover>>
          /\ balance' = [balance EXCEPT ![u] = @ + 1]
          /\ late' = IF life[u] = "open" THEN late ELSE late \cup {u}
        BY <1>6 DEF Settle, accounts, procs
    <2>2. Funded'
        BY <2>1 DEF Funded, TypeOK
    <2>3. \A v \in Names : balance'[v] # balance[v] => life[v] = "open" \/ v \in late'
        BY <2>1 DEF TypeOK
    <2> QED
        BY <2>1, <2>2, <2>3, Booking
<1>7. ASSUME NEW u \in Names, GrowIdle(u) PROVE Inv'
    <2>1. UNCHANGED <<life, addr, minted, topup, balance, late, watcher, keeper, mover>>
        BY <1>7 DEF GrowIdle, rows, procs
    <2>2. Funded'
        BY <2>1 DEF Funded
    <2> QED
        BY <2>1, <2>2, Booking
<1>8. ASSUME NEW u \in Names, GrowStale(u) PROVE Inv'
    <2>1. /\ life[u] = "closed"
          /\ UNCHANGED <<addr, minted, topup, balance, late, watcher, keeper, mover>>
          /\ \A v \in Names : life'[v] = IF v = u THEN "stale" ELSE life[v]
        BY <1>8 DEF GrowStale, TypeOK, rows, procs
    <2>2. ASSUME NEW w \in Watchers, NEW a \in Addresses PROVE watcher[w].known[a] # u
        <3>1. u \notin Range(watcher[w].known)
            BY <1>8 DEF GrowStale
        <3>2. DOMAIN watcher[w].known = Addresses
            BY DEF TypeOK, WatcherState
        <3> QED
            BY <3>1, <3>2 DEF Range
    <2>3. Funded'
        BY <2>1 DEF Funded
    <2> QED
        BY <2>1, <2>2, <2>3, Booking
<1> QED
    BY <1>1, <1>2, <1>3, <1>4, <1>5, <1>6, <1>7, <1>8 DEF Traffic

\* The deposit watcher.
LEMMA WatchStepInv ==
    ASSUME Inv, TypeOK', NEW w \in Watchers, WatchStep(w) \/ FailWatch(w)
    PROVE  Inv'
<1> USE DEF Inv
<1>1. CASE LookAccounts(w)
    <2>1. /\ UNCHANGED <<life, addr, minted, topup, balance, late, keeper, mover>>
          /\ watcher'[w].known = Known /\ watcher'[w].pc = "known"
          /\ \A x \in Watchers : x # w => watcher'[x] = watcher[x]
        BY <1>1, WatcherMoves DEF LookAccounts, accounts, rows
    <2>2. ASSUME NEW a \in Addresses, Known[a] # None
          PROVE  Known[a] \in Names /\ life[Known[a]] = "open" /\ addr[Known[a]] = a
        BY <2>2, KnownOpen
    <2>3. AddrMinted' /\ Funded' /\ NothingStranded'
        BY <2>1 DEF AddrMinted, Funded, NothingStranded, Exists
    <2>4. KnownAlive'
        BY <2>1, <2>2 DEF KnownAlive
    <2>5. CurKnown'
        BY <2>1 DEF CurKnown, NameOf
    <2>6. Swept'
        <3>1. ASSUME NEW g \in Keepers, NEW u \in keeper[g].drop, NEW a \in Addresses
              PROVE  Known[a] # u
            <4>1. u \in Names
                BY DEF TypeOK, KeeperState
            <4>2. life[u] \in {"closed", "stale"}
                BY DEF Swept
            <4> QED
                BY <4>1, <4>2, <2>2, AccountsAssumption
        <3> QED
            BY <2>1, <3>1 DEF Swept
    <2> QED
        BY <2>3, <2>4, <2>5, <2>6
<1>2. CASE ListFunds(w)
    <2>1. /\ UNCHANGED <<life, addr, minted, topup, balance, late, keeper, mover>>
          /\ watcher'[w].known = watcher[w].known /\ watcher'[w].pc = "looking"
          /\ \A x \in Watchers : x # w => watcher'[x] = watcher[x]
        BY <1>2, WatcherMoves DEF ListFunds, accounts, rows
    <2> QED
        BY <2>1, Calm DEF CurKnown
<1>3. ASSUME NEW k \in Coins, LookCoin(w, k) PROVE Inv'
    <2>1. /\ UNCHANGED <<life, addr, minted, topup, balance, late, keeper, mover>>
          /\ watcher'[w].known = watcher[w].known
          /\ watcher'[w].pc = "credit" => watcher'[w].cur = k /\ NameOf(w, k) # None
          /\ \A x \in Watchers : x # w => watcher'[x] = watcher[x]
        BY <1>3, WatcherMoves DEF LookCoin, accounts, rows
    <2>2. NameOf(w, k) \in Names \cup {None}
        BY AccountsAssumption DEF NameOf, TypeOK, WatcherState
    <2> QED
        BY <2>1, <2>2, Calm DEF CurKnown
<1>4. CASE Credit(w)
    <2> DEFINE k == watcher[w].cur  u == NameOf(w, k)
    <2>1. /\ u \in Names /\ watcher[w].known[Dest[k]] = u /\ Dest[k] \in Addresses
          /\ life[u] \in {"open", "closed"}
          /\ \A v \in Names : balance'[v] = IF v = u THEN balance[v] + 1 ELSE balance[v]
          /\ late' = IF life[u] = "open" THEN late ELSE late \cup {u}
        BY <1>4, CreditEffect
    <2> HIDE DEF u, k
    <2>2. /\ UNCHANGED <<life, addr, minted, keeper, mover>>
          /\ watcher'[w].known = watcher[w].known /\ watcher'[w].pc = "looking"
          /\ \A x \in Watchers : x # w => watcher'[x] = watcher[x]
        BY <1>4, WatcherMoves DEF Credit, accounts
    <2>3. AddrMinted' /\ KnownAlive' /\ CurKnown'
        BY <2>2 DEF AddrMinted, KnownAlive, CurKnown, NameOf
    <2>4. Funded'
        <3>1. ASSUME mover # NoMove PROVE balance'[mover.from] >= 1
            <4>1. mover.from \in Names /\ balance[mover.from] \in Int /\ balance[mover.from] >= 1
                BY <3>1 DEF Funded, TypeOK
            <4> QED
                BY <2>1, <4>1
        <3> QED
            BY <2>2, <3>1 DEF Funded
    <2>5. ASSUME NEW g \in Keepers, NEW v \in keeper[g].drop
          PROVE  v \in Names /\ v # u
        BY <2>1 DEF Swept, TypeOK, KeeperState
    <2>6. \A x \in Watchers : watcher'[x].known = watcher[x].known
        BY <2>2
    <2>7. Swept'
        BY <2>1, <2>2, <2>5, <2>6 DEF Swept
    <2>8. NothingStranded'
        BY <2>1, <2>2 DEF NothingStranded, Exists
    <2> QED
        BY <2>3, <2>4, <2>7, <2>8
<1>5. CASE EndWatch(w) \/ FailWatch(w)
    <2>1. /\ UNCHANGED <<life, addr, minted, topup, balance, late, keeper, mover>>
          /\ watcher'[w] = IdleWatcher
          /\ \A x \in Watchers : x # w => watcher'[x] = watcher[x]
        BY <1>5, WatcherMoves DEF EndWatch, FailWatch, accounts, rows
    <2> QED
        BY <2>1, Calm DEF CurKnown
<1> QED
    BY <1>1, <1>2, <1>3, <1>4, <1>5 DEF WatchStep

\* The garbage collector, of which there is one.
LEMMA SweepStepInv ==
    ASSUME Inv, TypeOK', OneKeeper, NEW g \in Keepers, SweepStep(g) \/ FailSweep(g)
    PROVE  Inv'
<1> USE DEF Inv
<1>1. \A h \in Keepers : h = g
    BY DEF OneKeeper
<1>2. CASE FindIdle(g) \/ EndSweep(g) \/ FailSweep(g)
    <2>1. /\ UNCHANGED <<life, addr, minted, topup, balance, late, watcher, mover>>
          /\ keeper'[g].drop = {}
        <3>1. keeper \in [Keepers -> KeeperState]
            BY DEF TypeOK
        <3>2. CASE FindIdle(g)
            BY <3>1, <3>2 DEF FindIdle, accounts, rows, KeeperState
        <3>3. CASE EndSweep(g) \/ FailSweep(g)
            BY <3>1, <3>3 DEF EndSweep, FailSweep, accounts, rows, IdleKeeper
        <3> QED
            BY <1>2, <3>2, <3>3
    <2>2. Funded' /\ \A h \in Keepers : keeper'[h].drop \subseteq keeper[h].drop
        BY <1>1, <2>1 DEF Funded
    <2> QED
        BY <2>1, <2>2, Booking
<1>3. CASE FindClosed(g)
    <2> DEFINE D == {u \in Names : life[u] = "stale" /\ balance[u] = 0}
    <2>1. /\ UNCHANGED <<life, addr, minted, topup, balance, late, watcher, mover>>
          /\ keeper'[g].drop = D
        <3>1. keeper \in [Keepers -> KeeperState]
            BY DEF TypeOK
        <3>2. keeper'[g].drop = D
            BY <1>3, <3>1 DEF FindClosed, KeeperState
        <3> QED
            BY <1>3, <3>2 DEF FindClosed, accounts, rows
    <2>2. AddrMinted' /\ KnownAlive' /\ CurKnown' /\ Funded' /\ NothingStranded'
        BY <2>1 DEF AddrMinted, KnownAlive, CurKnown, NameOf, Funded, NothingStranded, Exists
    <2>3. ASSUME NEW u \in D, NEW w \in Watchers, NEW a \in Addresses
          PROVE  watcher[w].known[a] # u
        BY AccountsAssumption DEF KnownAlive
    <2>4. Swept'
        BY <1>1, <2>1, <2>3 DEF Swept
    <2> QED
        BY <2>2, <2>4
<1>4. ASSUME NEW u \in Names, CloseIdle(g, u) PROVE Inv'
    <2>1. /\ UNCHANGED <<addr, minted, topup, balance, late, watcher, mover>>
          /\ \A v \in Names : life'[v] = IF v = u /\ life[v] # "absent" THEN "closed" ELSE life[v]
          /\ keeper'[g].drop = keeper[g].drop
        BY <1>4 DEF CloseIdle, rows, TypeOK, KeeperState
    <2>2. Funded' /\ \A h \in Keepers : keeper'[h].drop \subseteq keeper[h].drop
        BY <1>1, <2>1 DEF Funded
    <2>3. \A v \in Names : life'[v] = life[v] \/ (Exists(v) /\ life'[v] = "closed")
        BY <2>1 DEF Exists
    <2> QED
        BY <2>1, <2>2, <2>3, Booking
<1>5. ASSUME NEW u \in Names, DropClosed(g, u) PROVE Inv'
    <2>1. /\ u \in keeper[g].drop
          /\ UNCHANGED <<minted, topup, balance, late, watcher, mover>>
          /\ keeper'[g].drop = keeper[g].drop \ {u}
          /\ \A v \in Names : v # u => life'[v] = life[v] /\ addr'[v] = addr[v]
          /\ addr'[u] \in {addr[u], None}
        BY <1>5 DEF DropClosed, rows, TypeOK, KeeperState
    <2>2. /\ balance[u] = 0 \/ u \in late
          /\ \A w \in Watchers, a \in Addresses : watcher[w].known[a] # u
        BY <2>1 DEF Swept
    <2>3. AddrMinted'
        BY <2>1 DEF AddrMinted
    <2>4. KnownAlive'
        <3>1. ASSUME NEW w \in Watchers, NEW a \in Addresses, watcher[w].known[a] # None
              PROVE  /\ life'[watcher[w].known[a]] = life[watcher[w].known[a]]
                     /\ addr'[watcher[w].known[a]] = addr[watcher[w].known[a]]
            <4>1. watcher[w].known[a] \in Names /\ watcher[w].known[a] # u
                BY <2>2, <3>1 DEF TypeOK, WatcherState
            <4> QED
                BY <4>1, <2>1
        <3> QED
            BY <2>1, <3>1 DEF KnownAlive
    <2>5. CurKnown' /\ Funded'
        BY <2>1 DEF CurKnown, NameOf, Funded
    <2>6. Swept'
        <3>1. ASSUME NEW v \in keeper[g].drop, v # u PROVE life'[v] = life[v]
            BY <2>1, <3>1 DEF TypeOK, KeeperState
        <3> QED
            BY <1>1, <2>1, <3>1 DEF Swept
    <2>7. NothingStranded'
        BY <2>1, <2>2 DEF NothingStranded, Exists
    <2> QED
        BY <2>3, <2>4, <2>5, <2>6, <2>7
<1> QED
    BY <1>2, <1>3, <1>4, <1>5 DEF SweepStep

LEMMA InitInv == Init => Inv
<1> SUFFICES ASSUME Init PROVE Inv
    OBVIOUS
<1>1. TypeOK
    BY AccountsAssumption DEF Init, TypeOK, IdleWatcher, IdleKeeper, IdlePruner, NoMove, NoOne,
       WatcherState, KeeperState, PrunerState, MoverState
<1>2. AddrMinted /\ NothingStranded /\ Funded
    BY DEF Init, AddrMinted, NothingStranded, Funded
<1>3. KnownAlive /\ CurKnown /\ Swept
    BY DEF Init, KnownAlive, CurKnown, Swept, IdleWatcher, IdleKeeper, NoOne
<1> QED
    BY <1>1, <1>2, <1>3 DEF Inv

LEMMA StepInv == OneKeeper /\ Inv /\ [Next]_vars => Inv'
<1> SUFFICES ASSUME OneKeeper, Inv, [Next]_vars PROVE Inv'
    OBVIOUS
<1>1. TypeOK'
    BY TypeStep, InvKept
<1>2. CASE Traffic
    BY <1>1, <1>2, TrafficStep
<1>3. CASE Chain
    <2>1. UNCHANGED <<life, addr, minted, topup, balance, late, mover, watcher, keeper>>
        BY <1>3 DEF Chain, Broadcast, Confirm, SpendCoin, accounts, rows, procs
    <2> QED
        BY <1>1, <2>1, Calm DEF Inv, CurKnown
<1>4. ASSUME NEW w \in Watchers, WatchStep(w) \/ FailWatch(w) PROVE Inv'
    BY <1>1, <1>4, WatchStepInv
<1>5. ASSUME NEW g \in Keepers, SweepStep(g) \/ FailSweep(g) PROVE Inv'
    BY <1>1, <1>5, SweepStepInv
<1>6. CASE UNCHANGED vars
    <2>1. UNCHANGED <<life, addr, minted, topup, balance, late, mover, watcher, keeper>>
        BY <1>6 DEF vars
    <2> QED
        BY <1>1, <2>1, Calm DEF Inv, CurKnown
<1> QED
    BY <1>2, <1>3, <1>4, <1>5, <1>6 DEF Next, OneKeeper

-----------------------------------------------------------------------------
(* Where a credit comes from: for any watchers, garbage collectors and prunes. *)

\* An account has the address minted for it, and what is deleted has none.
Addressed == \A u \in Names : IF Exists(u) THEN addr[u] \in Addresses /\ minted[addr[u]] = u
                              ELSE addr[u] = None

\* A pass knows an address under the name it was minted for, whatever became of the
\* account since.
KnownMinted == \A w \in Watchers, a \in Addresses :
    watcher[w].known[a] # None => minted[a] = watcher[w].known[a]

\* What a pass has left to look at, or is about to credit, was confirmed.
Listed == \A w \in Watchers :
    /\ \A k \in watcher[w].coins : coin[k] \in {"confirmed", "spent"}
    /\ watcher[w].pc = "credit" => coin[watcher[w].cur] \in {"confirmed", "spent"}

\* What wallet-prune is about to delete by was minted, and is no open account's: an
\* account created meanwhile has another address.
Prunable == \A p \in Pruners : \A a \in pruner[p].drop :
    /\ a \in Addresses /\ minted[a] # None
    /\ \A u \in Names : life[u] = "open" => addr[u] # a

Origin == Kept /\ Addressed /\ KnownMinted /\ Listed /\ CreditSound /\ Prunable

\* A watcher knows what it knew, or starts over.
Follows(w) == \/ /\ watcher'[w].known = watcher[w].known
                 /\ watcher'[w].pc = "credit" => watcher[w].pc = "credit" /\ watcher'[w].cur = watcher[w].cur
              \/ watcher'[w] = IdleWatcher

LEMMA KeptStep == Kept /\ [Next]_vars => Kept'
<1> SUFFICES ASSUME Kept, [Next]_vars PROVE Kept'
    OBVIOUS
<1> TypeOK /\ TypeOK'
    BY TypeStep DEF Kept
<1>1. mover' # NoMove => mover'.from \in Names /\ mover'.to \in Names
    <2>1. ASSUME NEW u \in Names, NEW v \in Names, AskMove(u, v) PROVE mover'.from \in Names /\ mover'.to \in Names
        BY <2>1 DEF AskMove
    <2>2. CASE PostMove
        BY <2>2 DEF PostMove
    <2>3. CASE UNCHANGED mover
        BY <2>3 DEF Kept
    <2>4. (\E u, v \in Names : AskMove(u, v)) \/ PostMove \/ UNCHANGED mover
        BY DEF Next, Traffic, Chain, WatchStep, SweepStep, procs, vars, Create, Close,
           Bill, Settle, Broadcast, Confirm, SpendCoin, GrowIdle, GrowStale,
           LookAccounts, ListFunds, LookCoin, Credit, EndWatch, FailWatch, FindIdle, FindClosed,
           CloseIdle, DropClosed, EndSweep, FailSweep, FindPrunable, Prune
    <2> QED
        BY <2>1, <2>2, <2>3, <2>4
<1>2. CurKnown'
    <2>1. CASE UNCHANGED watcher
        BY <2>1 DEF Kept, CurKnown, NameOf
    <2>2. ASSUME NEW w \in Watchers, LookAccounts(w) \/ ListFunds(w) \/ Credit(w)
          PROVE  CurKnown'
        <3>1. watcher'[w].pc # "credit"
            BY <2>2, WatcherMoves
        <3>2. \A x \in Watchers : x # w => watcher'[x] = watcher[x]
            BY <2>2, WatcherMoves
        <3> QED
            BY <3>1, <3>2 DEF Kept, CurKnown, NameOf
    <2>3. ASSUME NEW w \in Watchers, EndWatch(w) \/ FailWatch(w)
          PROVE  CurKnown'
        <3>1. watcher'[w].pc # "credit"
            BY <2>3, WatcherMoves DEF IdleWatcher
        <3>2. \A x \in Watchers : x # w => watcher'[x] = watcher[x]
            BY <2>3, WatcherMoves
        <3> QED
            BY <3>1, <3>2 DEF Kept, CurKnown, NameOf
    <2>4. ASSUME NEW w \in Watchers, NEW k \in Coins, LookCoin(w, k)
          PROVE  CurKnown'
        <3>1. /\ watcher'[w].known = watcher[w].known
              /\ watcher'[w].pc = "credit" => watcher'[w].cur = k /\ NameOf(w, k) # None
              /\ \A x \in Watchers : x # w => watcher'[x] = watcher[x]
            BY <2>4, WatcherMoves
        <3>2. NameOf(w, k) \in Names \cup {None}
            BY AccountsAssumption DEF NameOf, TypeOK, WatcherState
        <3> QED
            BY <3>1, <3>2 DEF Kept, CurKnown, NameOf
    <2>5. (\E w \in Watchers : WatchStep(w) \/ FailWatch(w)) \/ UNCHANGED watcher
        BY DEF Next, Traffic, Chain, SweepStep, procs, vars, Create, Close, AskMove, PostMove,
           Bill, Settle, Broadcast, Confirm, SpendCoin, GrowIdle, GrowStale,
           FindIdle, FindClosed, CloseIdle, DropClosed, EndSweep, FailSweep, FindPrunable, Prune
    <2> QED
        BY <2>1, <2>2, <2>3, <2>4, <2>5 DEF WatchStep
<1> QED
    BY <1>1, <1>2 DEF Kept

\* A step at which coins only move on, accounts only close or are deleted, no address is
\* minted, nobody is credited and no prune learns of an address.
LEMMA OriginStays ==
    ASSUME Origin, Kept', UNCHANGED <<minted, topup>>,
           \A u \in Names : \/ addr'[u] = addr[u] /\ (Exists(u) <=> Exists(u)')
                               /\ (life'[u] = "open" => life[u] = "open")
                            \/ addr'[u] = None /\ life'[u] = "absent",
           \A k \in Coins : coin[k] \in {"confirmed", "spent"} => coin'[k] \in {"confirmed", "spent"},
           \A w \in Watchers : /\ Follows(w)
                               /\ watcher'[w].coins \subseteq watcher[w].coins,
           \A p \in Pruners : pruner'[p].drop \subseteq pruner[p].drop
    PROVE  Origin'
<1> TypeOK /\ TypeOK'
    BY DEF Origin, Kept
<1>1. Addressed'
    BY DEF Origin, Addressed, Exists
<1>2. KnownMinted'
    BY DEF Origin, KnownMinted, Follows, IdleWatcher, NoOne
<1>3. Listed'
    <2>1. ASSUME NEW w \in Watchers, NEW k \in watcher'[w].coins
          PROVE  coin'[k] \in {"confirmed", "spent"}
        <3>1. k \in watcher[w].coins /\ k \in Coins
            BY DEF TypeOK, WatcherState
        <3> QED
            BY <3>1 DEF Origin, Listed
    <2>2. ASSUME NEW w \in Watchers, watcher'[w].pc = "credit"
          PROVE  coin'[watcher'[w].cur] \in {"confirmed", "spent"}
        <3>1. watcher[w].pc = "credit" /\ watcher'[w].cur = watcher[w].cur
            BY <2>2 DEF Follows, IdleWatcher
        <3>2. watcher[w].cur \in Coins /\ coin[watcher[w].cur] \in {"confirmed", "spent"}
            BY <3>1 DEF Origin, Kept, CurKnown, Listed
        <3> QED
            BY <3>1, <3>2
    <2> QED
        BY <2>1, <2>2 DEF Listed
<1>4. CreditSound'
    BY DEF Origin, CreditSound
<1>5. Prunable'
    <2> SUFFICES ASSUME NEW p \in Pruners, NEW a \in pruner'[p].drop
                 PROVE  /\ a \in Addresses /\ minted'[a] # None
                        /\ \A u \in Names : life'[u] = "open" => addr'[u] # a
        BY DEF Prunable
    <2>1. a \in pruner[p].drop
        OBVIOUS
    <2>2. /\ a \in Addresses /\ minted[a] # None
          /\ \A u \in Names : life[u] = "open" => addr[u] # a
        BY <2>1 DEF Origin, Prunable
    <2> QED
        BY <2>2
<1> QED
    BY <1>1, <1>2, <1>3, <1>4, <1>5 DEF Origin

LEMMA OriginTraffic ==
    ASSUME Origin, Kept', Traffic
    PROVE  Origin'
<1> TypeOK /\ TypeOK'
    BY DEF Origin, Kept
<1>1. ASSUME NEW u \in Names, NEW a \in Addresses, Create(u, a) PROVE Origin'
    <2>1. /\ life[u] = "absent" /\ minted[a] = None
          /\ \A v \in Names : life'[v] = IF v = u THEN "open" ELSE life[v]
          /\ \A v \in Names : addr'[v] = IF v = u THEN a ELSE addr[v]
          /\ \A b \in Addresses : minted'[b] = IF b = a THEN u ELSE minted[b]
          /\ UNCHANGED <<coin, topup, watcher, pruner>>
        BY <1>1 DEF Create, TypeOK, rows, procs
    <2>2. Addressed'
        BY <2>1, AccountsAssumption DEF Origin, Addressed, Exists
    <2>3. KnownMinted'
        <3>1. ASSUME NEW w \in Watchers, NEW b \in Addresses, watcher[w].known[b] # None
              PROVE  minted'[b] = watcher[w].known[b]
            <4>1. minted[b] = watcher[w].known[b]
                BY <3>1 DEF Origin, KnownMinted
            <4> QED
                BY <2>1, <3>1, <4>1
        <3> QED
            BY <2>1, <3>1 DEF KnownMinted
    <2>4. Listed'
        BY <2>1 DEF Origin, Listed
    <2>5. CreditSound'
        <3>1. ASSUME NEW k \in Coins, NEW v \in Names, topup[k][v] > 0
              PROVE  coin[k] \in {"confirmed", "spent"} /\ Dest[k] # None /\ minted'[Dest[k]] = v
            <4>1. coin[k] \in {"confirmed", "spent"} /\ Dest[k] # None /\ minted[Dest[k]] = v
                BY <3>1 DEF Origin, CreditSound
            <4>2. Dest[k] \in Addresses /\ v # None
                BY <4>1, AccountsAssumption
            <4> QED
                BY <2>1, <4>1, <4>2
        <3> QED
            BY <2>1, <3>1 DEF CreditSound
    <2>6. Prunable'
        <3>1. ASSUME NEW p \in Pruners, NEW b \in pruner[p].drop
              PROVE  /\ b \in Addresses /\ minted'[b] # None
                     /\ \A v \in Names : life'[v] = "open" => addr'[v] # b
            <4>1. /\ b \in Addresses /\ minted[b] # None
                  /\ \A v \in Names : life[v] = "open" => addr[v] # b
                BY DEF Origin, Prunable
            <4> QED
                BY <2>1, <4>1
        <3> QED
            BY <2>1, <3>1 DEF Prunable
    <2> QED
        BY <2>2, <2>3, <2>4, <2>5, <2>6 DEF Origin
<1>2. CASE ~ \E u \in Names, a \in Addresses : Create(u, a)
    <2>1. /\ UNCHANGED <<coin, addr, minted, topup, watcher, pruner>>
          /\ UNCHANGED life \/ (\E u \in Names : Close(u) \/ GrowStale(u))
        BY <1>2 DEF Traffic, Close, Bill, Settle, GrowIdle, GrowStale, AskMove, PostMove,
           rows, procs, accounts
    <2>2. \A u \in Names : (Exists(u) <=> Exists(u)') /\ (life'[u] = "open" => life[u] = "open")
        <3>1. ASSUME NEW v \in Names, Close(v) PROVE <2>2
            BY <3>1 DEF Close, Exists, TypeOK
        <3>2. ASSUME NEW v \in Names, GrowStale(v) PROVE <2>2
            BY <3>2 DEF GrowStale, Exists, TypeOK
        <3>3. CASE UNCHANGED life
            BY <3>3 DEF Exists
        <3> QED
            BY <2>1, <3>1, <3>2, <3>3
    <2> QED
        BY <2>1, <2>2, OriginStays DEF Follows
<1> QED
    BY <1>1, <1>2

LEMMA OriginWatch ==
    ASSUME Origin, Kept', NEW w \in Watchers, WatchStep(w) \/ FailWatch(w)
    PROVE  Origin'
<1> TypeOK /\ TypeOK'
    BY DEF Origin, Kept
<1>0. watcher[w] \in WatcherState
    BY DEF TypeOK
<1>1. CASE LookAccounts(w)
    <2>1. /\ UNCHANGED <<coin, life, addr, minted, topup, pruner>>
          /\ watcher'[w].known = Known /\ watcher'[w].pc = "known"
          /\ \A x \in Watchers : x # w => watcher'[x] = watcher[x]
        BY <1>1, WatcherMoves DEF LookAccounts, accounts, rows
    <2>2. watcher'[w].coins = {}
        BY <1>1 DEF LookAccounts, TypeOK, IdleWatcher
    <2>3. KnownMinted'
        <3>1. ASSUME NEW a \in Addresses, Known[a] # None PROVE minted[a] = Known[a]
            BY <3>1, KnownOpen DEF Origin, Addressed, Exists
        <3> QED
            BY <2>1, <3>1 DEF Origin, KnownMinted
    <2>4. Listed'
        BY <2>1, <2>2 DEF Origin, Listed
    <2> QED
        BY <2>1, <2>3, <2>4 DEF Origin, Addressed, Exists, CreditSound, Prunable
<1>2. CASE ListFunds(w)
    <2>1. /\ UNCHANGED <<coin, life, addr, minted, topup, pruner>>
          /\ watcher'[w].known = watcher[w].known /\ watcher'[w].pc = "looking"
          /\ \A x \in Watchers : x # w => watcher'[x] = watcher[x]
        BY <1>2, WatcherMoves DEF ListFunds, accounts, rows
    <2>2. watcher'[w].coins = {k \in Coins : coin[k] = "confirmed"}
        BY <1>0, <1>2 DEF ListFunds, TypeOK, WatcherState
    <2>3. KnownMinted'
        BY <2>1 DEF Origin, KnownMinted
    <2>4. Listed'
        BY <2>1, <2>2 DEF Origin, Listed
    <2> QED
        BY <2>1, <2>3, <2>4 DEF Origin, Addressed, Exists, CreditSound, Prunable
<1>3. ASSUME NEW k \in Coins, LookCoin(w, k) PROVE Origin'
    <2>1. /\ UNCHANGED <<coin, life, addr, minted, topup, pruner>>
          /\ watcher'[w].known = watcher[w].known
          /\ watcher'[w].pc = "credit" => watcher'[w].cur = k
          /\ \A x \in Watchers : x # w => watcher'[x] = watcher[x]
        BY <1>3, WatcherMoves DEF LookCoin, accounts, rows
    <2>2. watcher'[w].coins = watcher[w].coins \ {k} /\ k \in watcher[w].coins
        BY <1>0, <1>3 DEF LookCoin, TypeOK, WatcherState
    <2>3. KnownMinted'
        BY <2>1 DEF Origin, KnownMinted
    <2>4. Listed'
        BY <2>1, <2>2 DEF Origin, Listed
    <2> QED
        BY <2>1, <2>3, <2>4 DEF Origin, Addressed, Exists, CreditSound, Prunable
<1>4. CASE Credit(w)
    <2> DEFINE k == watcher[w].cur  u == NameOf(w, k)
    <2>1. /\ k \in Coins /\ u \in Names /\ Dest[k] \in Addresses
          /\ watcher[w].known[Dest[k]] = u
          /\ \A l \in Coins, v \in Names :
                topup'[l][v] = IF l = k /\ v = u THEN topup[l][v] + 1 ELSE topup[l][v]
        BY <1>4, CreditRows DEF Origin
    <2>2. coin[k] \in {"confirmed", "spent"}
        BY <1>4 DEF Origin, Listed, Credit
    <2> HIDE DEF u, k
    <2>3. /\ UNCHANGED <<coin, life, addr, minted, pruner>>
          /\ watcher'[w].known = watcher[w].known /\ watcher'[w].pc = "looking"
          /\ \A x \in Watchers : x # w => watcher'[x] = watcher[x]
        BY <1>4, WatcherMoves DEF Credit, accounts
    <2>4. watcher'[w].coins = watcher[w].coins
        BY <1>0, <1>4 DEF Credit, TypeOK, WatcherState
    <2>5. KnownMinted'
        BY <2>3 DEF Origin, KnownMinted
    <2>6. Listed'
        BY <2>3, <2>4 DEF Origin, Listed
    <2>7. minted[Dest[k]] = u /\ Dest[k] # None
        BY <2>1, AccountsAssumption DEF Origin, KnownMinted
    <2>8. CreditSound'
        <3>1. ASSUME NEW l \in Coins, NEW v \in Names, topup'[l][v] > 0
              PROVE  coin[l] \in {"confirmed", "spent"} /\ Dest[l] # None /\ minted[Dest[l]] = v
            <4>1. CASE l = k /\ v = u
                BY <4>1, <2>2, <2>7
            <4>2. CASE ~(l = k /\ v = u)
                BY <3>1, <4>2, <2>1 DEF Origin, CreditSound
            <4> QED
                BY <4>1, <4>2
        <3> QED
            BY <2>3, <3>1 DEF CreditSound
    <2> QED
        BY <2>3, <2>5, <2>6, <2>8 DEF Origin, Addressed, Exists, Prunable
<1>5. CASE EndWatch(w) \/ FailWatch(w)
    <2>1. /\ UNCHANGED <<coin, life, addr, minted, topup, pruner>>
          /\ watcher'[w] = IdleWatcher
          /\ \A x \in Watchers : x # w => watcher'[x] = watcher[x]
        BY <1>5, WatcherMoves DEF EndWatch, FailWatch, accounts, rows
    <2>2. watcher'[w].coins = {}
        BY <2>1 DEF IdleWatcher
    <2>3. \A x \in Watchers : Follows(x) /\ watcher'[x].coins \subseteq watcher[x].coins
        BY <2>1, <2>2 DEF Follows
    <2> QED
        BY <2>1, <2>3, OriginStays DEF Exists
<1> QED
    BY <1>1, <1>2, <1>3, <1>4, <1>5 DEF WatchStep

LEMMA OriginSweep ==
    ASSUME Origin, Kept', NEW g \in Keepers, SweepStep(g) \/ FailSweep(g)
    PROVE  Origin'
<1> TypeOK /\ TypeOK'
    BY DEF Origin, Kept
<1>1. UNCHANGED <<coin, minted, topup, watcher, pruner>>
    BY DEF SweepStep, FindIdle, FindClosed, CloseIdle, DropClosed, EndSweep, FailSweep, accounts, rows
<1>2. \A u \in Names : \/ addr'[u] = addr[u] /\ (Exists(u) <=> Exists(u)')
                          /\ (life'[u] = "open" => life[u] = "open")
                       \/ addr'[u] = None /\ life'[u] = "absent"
    <2>1. ASSUME NEW v \in Names, CloseIdle(g, v) PROVE <1>2
        BY <2>1 DEF CloseIdle, Exists, TypeOK
    <2>2. ASSUME NEW v \in Names, DropClosed(g, v) PROVE <1>2
        BY <2>2 DEF DropClosed, Exists, TypeOK
    <2>3. CASE UNCHANGED <<life, addr>>
        BY <2>3 DEF Exists
    <2> QED
        BY <2>1, <2>2, <2>3 DEF SweepStep, FindIdle, FindClosed, EndSweep, FailSweep, accounts
<1> QED
    BY <1>1, <1>2, OriginStays DEF Follows

LEMMA OriginPrune ==
    ASSUME Origin, Kept', NEW p \in Pruners, FindPrunable(p) \/ Prune(p)
    PROVE  Origin'
<1> TypeOK /\ TypeOK'
    BY DEF Origin, Kept
<1>1. CASE FindPrunable(p)
    <2> DEFINE D == {addr[u] : u \in {v \in Names : life[v] \in {"closed", "stale"}}}
    <2>1. /\ UNCHANGED <<coin, life, addr, minted, topup, watcher>>
          /\ pruner'[p].drop = D
          /\ \A q \in Pruners : q # p => pruner'[q] = pruner[q]
        BY <1>1 DEF FindPrunable, accounts, rows, TypeOK
    <2>2. ASSUME NEW a \in D
          PROVE  /\ a \in Addresses /\ minted[a] # None
                 /\ \A u \in Names : life[u] = "open" => addr[u] # a
        <3>1. PICK v \in Names : life[v] \in {"closed", "stale"} /\ addr[v] = a
            OBVIOUS
        <3>2. a \in Addresses /\ minted[a] = v
            BY <3>1 DEF Origin, Addressed, Exists
        <3>3. ASSUME NEW u \in Names, life[u] = "open" PROVE addr[u] # a
            BY <3>1, <3>2, <3>3 DEF Origin, Addressed, Exists
        <3> QED
            BY <3>2, <3>3, AccountsAssumption
    <2> HIDE DEF D
    <2>3. Prunable'
        BY <2>1, <2>2 DEF Origin, Prunable
    <2> QED
        BY <2>1, <2>3 DEF Origin, Addressed, Exists, KnownMinted, Listed, CreditSound
<1>2. CASE Prune(p)
    <2>1. /\ UNCHANGED <<coin, minted, topup, watcher>>
          /\ pruner'[p].drop = {}
          /\ \A q \in Pruners : q # p => pruner'[q] = pruner[q]
        BY <1>2 DEF Prune, rows, TypeOK, IdlePruner
    <2>2. \A u \in Names : \/ addr'[u] = addr[u] /\ life'[u] = life[u]
                           \/ addr'[u] = None /\ life'[u] = "absent"
        BY <1>2 DEF Prune
    <2> QED
        BY <2>1, <2>2, OriginStays DEF Follows, Exists
<1> QED
    BY <1>1, <1>2

LEMMA InitOrigin == Init => Origin
<1> SUFFICES ASSUME Init PROVE Origin
    OBVIOUS
<1>1. Kept
    BY InitInv, InvKept
<1>2. Addressed /\ KnownMinted /\ Listed /\ Prunable
    BY DEF Init, Addressed, Exists, KnownMinted, Listed, Prunable, IdleWatcher, IdlePruner, NoOne
<1>3. CreditSound
    BY DEF Init, CreditSound
<1> QED
    BY <1>1, <1>2, <1>3 DEF Origin

LEMMA OriginStep == Origin /\ [Next]_vars => Origin'
<1> SUFFICES ASSUME Origin, [Next]_vars PROVE Origin'
    OBVIOUS
<1>1. Kept'
    BY KeptStep DEF Origin
<1> TypeOK
    BY DEF Origin, Kept
<1>2. CASE Traffic
    BY <1>1, <1>2, OriginTraffic
<1>3. CASE Chain
    <2>1. /\ UNCHANGED <<life, addr, minted, topup, watcher, pruner>>
          /\ \A k \in Coins : coin[k] \in {"confirmed", "spent"} => coin'[k] \in {"confirmed", "spent"}
        BY <1>3 DEF Chain, Broadcast, Confirm, SpendCoin, accounts, rows, procs, TypeOK
    <2> QED
        BY <1>1, <2>1, OriginStays DEF Follows, Exists
<1>4. ASSUME NEW w \in Watchers, WatchStep(w) \/ FailWatch(w) PROVE Origin'
    BY <1>1, <1>4, OriginWatch
<1>5. ASSUME NEW g \in Keepers, SweepStep(g) \/ FailSweep(g) PROVE Origin'
    BY <1>1, <1>5, OriginSweep
<1>6. ASSUME NEW p \in Pruners, FindPrunable(p) \/ Prune(p) PROVE Origin'
    BY <1>1, <1>6, OriginPrune
<1>7. CASE UNCHANGED vars
    <2>1. UNCHANGED <<coin, life, addr, minted, topup, watcher, pruner>>
        BY <1>7 DEF vars
    <2> QED
        BY <1>1, <2>1, OriginStays DEF Follows, Exists
<1> QED
    BY <1>2, <1>3, <1>4, <1>5, <1>6, <1>7 DEF Next

\* The accounts a pass goes by are there still, under the same address and not beyond
\* the grace, but for those that were removed before it was over.
Timely ==
    \A w \in Watchers, a \in Addresses : watcher[w].known[a] # None =>
        \/ /\ life[watcher[w].known[a]] \in {"open", "closed"}
           /\ addr[watcher[w].known[a]] = a
        \/ a \in early

\* An account within its grace stays so, or is removed and remembered.
LEMMA TimelyStays ==
    ASSUME TypeOK, Timely, early \subseteq early',
           \A w \in Watchers : watcher'[w].known = watcher[w].known \/ watcher'[w] = IdleWatcher,
           \A u \in Names, a \in Addresses :
               life[u] \in {"open", "closed"} /\ addr[u] = a =>
                   (life'[u] \in {"open", "closed"} /\ addr'[u] = a) \/ a \in early'
    PROVE  Timely'
<1> SUFFICES ASSUME NEW w \in Watchers, NEW a \in Addresses, watcher'[w].known[a] # None
             PROVE  \/ /\ life'[watcher'[w].known[a]] \in {"open", "closed"}
                       /\ addr'[watcher'[w].known[a]] = a
                    \/ a \in early'
    BY DEF Timely
<1>1. watcher'[w].known = watcher[w].known
    BY DEF IdleWatcher, NoOne
<1>2. watcher[w].known[a] \in Names
    BY <1>1 DEF TypeOK, WatcherState
<1> QED
    BY <1>1, <1>2 DEF Timely

LEMMA TimelyStep ==
    ASSUME Origin, Timely, [Next]_vars
    PROVE  Timely'
<1> TypeOK
    BY DEF Origin, Kept
<1> DEFINE Lasts == \A u \in Names, a \in Addresses :
               life[u] \in {"open", "closed"} /\ addr[u] = a =>
                   (life'[u] \in {"open", "closed"} /\ addr'[u] = a) \/ a \in early'
<1>1. ASSUME NEW u \in Names, NEW a \in Addresses, Create(u, a) PROVE Timely'
    <2>1. Lasts /\ UNCHANGED <<watcher, early>>
        BY <1>1 DEF Create, TypeOK, rows, procs
    <2> QED
        BY <2>1, TimelyStays
<1>2. ASSUME NEW u \in Names, Close(u) PROVE Timely'
    <2>1. Lasts /\ UNCHANGED <<watcher, early>>
        BY <1>2 DEF Close, TypeOK, rows, procs
    <2> QED
        BY <2>1, TimelyStays
<1>3. ASSUME NEW u \in Names, GrowStale(u) PROVE Timely'
    <2>1. /\ UNCHANGED <<watcher, early, addr>>
          /\ \A v \in Names : v # u => life'[v] = life[v]
        BY <1>3 DEF GrowStale, TypeOK, rows, procs
    <2>2. ASSUME NEW w \in Watchers, NEW a \in Addresses PROVE watcher[w].known[a] # u
        <3>1. watcher[w].known \in [Addresses -> Names \cup {None}]
            BY DEF TypeOK, WatcherState
        <3>2. watcher[w].known[a] \in Range(watcher[w].known)
            BY <3>1 DEF Range
        <3> QED
            BY <1>3, <3>2 DEF GrowStale
    <2>3. \A w \in Watchers, a \in Addresses : watcher[w].known[a] \in Names \cup {None}
        BY DEF TypeOK, WatcherState
    <2> QED
        BY <2>1, <2>2, <2>3 DEF Timely
<1>4. ASSUME NEW w \in Watchers, WatchStep(w) \/ FailWatch(w) PROVE Timely'
    <2>1. UNCHANGED <<life, addr, early>>
        BY <1>4 DEF WatchStep, FailWatch, LookAccounts, ListFunds, LookCoin, Credit, EndWatch, accounts, rows
    <2>2. CASE LookAccounts(w)
        <3>1. /\ watcher'[w].known = Known
              /\ \A x \in Watchers : x # w => watcher'[x] = watcher[x]
            BY <2>2, WatcherMoves
        <3>2. \A a \in Addresses : watcher'[w].known[a] # None =>
                  life[watcher'[w].known[a]] = "open" /\ addr[watcher'[w].known[a]] = a
            BY <3>1, KnownOpen
        <3> QED
            BY <2>1, <3>1, <3>2 DEF Timely
    <2>3. CASE ~LookAccounts(w)
        <3>1. \A x \in Watchers : watcher'[x].known = watcher[x].known \/ watcher'[x] = IdleWatcher
            BY <1>4, <2>3, WatcherMoves DEF WatchStep
        <3>2. Lasts
            BY <2>1
        <3> QED
            BY <2>1, <3>1, <3>2, TimelyStays
    <2> QED
        BY <2>2, <2>3
<1>5. ASSUME NEW g \in Keepers, NEW u \in Names, CloseIdle(g, u) PROVE Timely'
    <2>1. Lasts /\ UNCHANGED <<watcher, early>>
        BY <1>5 DEF CloseIdle, TypeOK, rows
    <2> QED
        BY <2>1, TimelyStays
<1>6. ASSUME NEW g \in Keepers, NEW u \in Names, DropClosed(g, u) PROVE Timely'
    <2>1. UNCHANGED watcher /\ early \subseteq early'
        BY <1>6 DEF DropClosed
    <2>2. Lasts
        <3> SUFFICES ASSUME NEW v \in Names, NEW a \in Addresses,
                            life[v] \in {"open", "closed"}, addr[v] = a
                     PROVE  (life'[v] \in {"open", "closed"} /\ addr'[v] = a) \/ a \in early'
            OBVIOUS
        <3>1. CASE v = u /\ u \notin Held
            BY <1>6, <3>1 DEF DropClosed, Early
        <3>2. CASE ~(v = u /\ u \notin Held)
            BY <1>6, <3>2 DEF DropClosed, TypeOK
        <3> QED
            BY <3>1, <3>2
    <2> QED
        BY <2>1, <2>2, TimelyStays
<1>7. ASSUME NEW p \in Pruners, Prune(p) PROVE Timely'
    <2>1. UNCHANGED watcher /\ early \subseteq early'
        BY <1>7 DEF Prune
    <2>2. Lasts
        BY <1>7 DEF Prune, Early
    <2> QED
        BY <2>1, <2>2, TimelyStays
<1>8. CASE UNCHANGED <<life, addr, early, watcher>>
    <2>1. Lasts
        BY <1>8
    <2> QED
        BY <1>8, <2>1, TimelyStays
<1>9. \/ UNCHANGED <<life, addr, early, watcher>>
      \/ \E u \in Names : Close(u) \/ GrowStale(u) \/ \E a \in Addresses : Create(u, a)
      \/ \E w \in Watchers : WatchStep(w) \/ FailWatch(w)
      \/ \E g \in Keepers, u \in Names : CloseIdle(g, u) \/ DropClosed(g, u)
      \/ \E p \in Pruners : Prune(p)
    BY DEF Next, Traffic, Chain, SweepStep, accounts, rows, procs, vars, AskMove, PostMove, Bill, Settle,
       Broadcast, Confirm, SpendCoin, GrowIdle, FindIdle, FindClosed, EndSweep, FailSweep, FindPrunable
<1> QED
    BY <1>1, <1>2, <1>3, <1>4, <1>5, <1>6, <1>7, <1>8, <1>9

\* There is one deposit watcher at a time.
OneWatcher == \A w, x \in Watchers : w = x

\* A coin has one row at most under a name, and none when a pass is about to book it.
Once == /\ \A k \in Coins, u \in Names : topup[k][u] <= 1
        /\ \A w \in Watchers : watcher[w].pc = "credit" =>
              \A u \in Names : topup[watcher[w].cur][u] = 0

LEMMA OnceStep ==
    ASSUME OneWatcher, Origin, Once, [Next]_vars
    PROVE  Once'
<1> Kept /\ TypeOK
    BY DEF Origin, Kept
<1>1. ASSUME NEW w \in Watchers, Credit(w) PROVE Once'
    <2> DEFINE k == watcher[w].cur  u == NameOf(w, k)
    <2>1. /\ k \in Coins /\ u \in Names
          /\ \A l \in Coins, v \in Names :
                topup'[l][v] = IF l = k /\ v = u THEN topup[l][v] + 1 ELSE topup[l][v]
        BY <1>1, CreditRows
    <2>2. topup[k][u] = 0
        BY <1>1, <2>1 DEF Once, Credit
    <2>3. \A x \in Watchers : watcher'[x].pc # "credit"
        BY <1>1, WatcherMoves DEF OneWatcher
    <2> HIDE DEF k, u
    <2>4. \A l \in Coins, v \in Names : topup'[l][v] <= 1
        BY <2>1, <2>2 DEF Once
    <2> QED
        BY <2>3, <2>4 DEF Once
<1>2. ASSUME NEW w \in Watchers, NEW k \in Coins, LookCoin(w, k) PROVE Once'
    <2>1. UNCHANGED topup
        BY <1>2 DEF LookCoin, rows
    <2>2. watcher'[w].pc = "credit" => watcher'[w].cur = k
        BY <1>2, WatcherMoves
    <2>3. \A x \in Watchers : x = w
        BY DEF OneWatcher
    <2>4. watcher'[w].pc = "credit" => ~Booked(k)
        BY <1>2 DEF LookCoin, TypeOK, WatcherState
    <2>5. ~Booked(k) => \A u \in Names : topup[k][u] = 0
        BY DEF Booked, TypeOK
    <2> QED
        BY <2>1, <2>2, <2>3, <2>4, <2>5 DEF Once
<1>3. ASSUME NEW w \in Watchers, LookAccounts(w) \/ ListFunds(w) \/ EndWatch(w) \/ FailWatch(w)
      PROVE  Once'
    <2>1. UNCHANGED topup
        BY <1>3 DEF LookAccounts, ListFunds, EndWatch, FailWatch, rows
    <2>2. \A x \in Watchers : watcher'[x].pc # "credit"
        BY <1>3, WatcherMoves DEF OneWatcher, IdleWatcher
    <2> QED
        BY <2>1, <2>2 DEF Once
<1>4. CASE UNCHANGED <<topup, watcher>>
    BY <1>4 DEF Once
<1>5. (\E w \in Watchers : WatchStep(w) \/ FailWatch(w)) \/ UNCHANGED <<topup, watcher>>
    BY DEF Next, Traffic, Chain, SweepStep, procs, rows, vars, Create, Close, AskMove, PostMove,
       Bill, Settle, Broadcast, Confirm, SpendCoin, GrowIdle, GrowStale,
       FindIdle, FindClosed, CloseIdle, DropClosed, EndSweep, FailSweep, FindPrunable, Prune
<1> QED
    BY <1>1, <1>2, <1>3, <1>4, <1>5 DEF WatchStep

\* A coin with rows has them under one name, that of its address: they are counted there.
LEMMA OnceCounts ==
    ASSUME IsFiniteSet(Names), Origin, Once
    PROVE  CreditedOnce
<1> SUFFICES ASSUME NEW k \in Coins PROVE SumFunction(topup[k]) =< 1
    BY DEF CreditedOnce
<1> DEFINE f == topup[k]
<1>1. f \in [Names -> Nat]
    BY DEF Origin, Kept, TypeOK
<1>2. \A u \in Names : f[u] <= 1 /\ (f[u] > 0 => minted[Dest[k]] = u)
    BY DEF Origin, CreditSound, Once
<1> HIDE DEF f
<1>3. SumFunction(f) = SumFunctionOnSet(f, Names)
    BY <1>1 DEF SumFunction
<1>4. CASE \A u \in Names : f[u] = 0
    <2>1. SumFunctionOnSet(f, Names) = 0
        BY <1>4, SumZero
    <2> QED
        BY <1>3, <2>1 DEF f
<1>5. ASSUME NEW u \in Names, f[u] # 0 PROVE SumFunction(topup[k]) =< 1
    <2>1. f[u] \in Int /\ f[u] <= 1 /\ minted[Dest[k]] = u
        BY <1>1, <1>2, <1>5
    <2>2. \A v \in Names \ {u} : f[v] = 0
        BY <1>1, <1>2, <2>1
    <2>3. SumFunctionOnSet(f, Names) = f[u]
        BY <2>1, <2>2, SumOnly
    <2> QED
        BY <1>3, <2>1, <2>3 DEF f
<1> QED
    BY <1>4, <1>5

-----------------------------------------------------------------------------
(* The theorems. *)

\* With one garbage collector at a time and no wallet-prune, a deleted account leaves no
\* money under its name but what was sent to it after its closing: gc's query and its
\* DELETE may be any number of steps of other processes apart.
THEOREM NothingLost == OneKeeper => (Spec => []NothingStranded)
<1> SUFFICES ASSUME OneKeeper PROVE Spec => []NothingStranded
    OBVIOUS
<1>1. Inv /\ [Next]_vars => Inv'
    BY StepInv
<1>2. Inv => NothingStranded
    BY DEF Inv
<1> QED
    BY InitInv, <1>1, <1>2, PTL DEF Spec

\* For any watchers, garbage collectors and prunes: a deposit is credited to the row its
\* address was minted for, open or closed within the grace, unless that row was removed
\* before its grace was over; a name used again gets nothing of a predecessor that was not.
THEOREM CreditsInTime == Spec => NoCreditBeyondGrace
<1> DEFINE InTime == \A k \in Coins, u \in Names : topup'[k][u] # topup[k][u] =>
                        \/ life[u] \in {"open", "closed"} /\ addr[u] = Dest[k]
                        \/ Dest[k] \in early
<1>1. Init => Timely
    BY DEF Init, Timely, IdleWatcher, NoOne
<1>2. Origin /\ Timely /\ [Next]_vars => Timely'
    BY TimelyStep
<1>3. Origin /\ Timely /\ [Next]_vars => [InTime]_vars
    <2> SUFFICES ASSUME Origin, Timely, [Next]_vars PROVE InTime
        OBVIOUS
    <2>1. ASSUME NEW w \in Watchers, Credit(w) PROVE InTime
        <3> DEFINE k == watcher[w].cur  u == NameOf(w, k)
        <3>1. /\ u \in Names /\ Dest[k] \in Addresses /\ watcher[w].known[Dest[k]] = u
              /\ \A l \in Coins, v \in Names :
                    topup'[l][v] = IF l = k /\ v = u THEN topup[l][v] + 1 ELSE topup[l][v]
            BY <2>1, CreditRows DEF Origin
        <3> HIDE DEF k, u
        <3>2. \/ life[u] \in {"open", "closed"} /\ addr[u] = Dest[k]
              \/ Dest[k] \in early
            BY <3>1, AccountsAssumption DEF Timely
        <3> QED
            BY <3>1, <3>2
    <2>2. (\E w \in Watchers : Credit(w)) \/ UNCHANGED topup
        BY DEF Next, Traffic, Chain, WatchStep, SweepStep, rows, vars, Create, Close, AskMove,
           PostMove, Bill, Settle, Broadcast, Confirm, SpendCoin, GrowIdle, GrowStale,
           LookAccounts, ListFunds, LookCoin, EndWatch, FailWatch, FindIdle, FindClosed,
           CloseIdle, DropClosed, EndSweep, FailSweep, FindPrunable, Prune
    <2> QED
        BY <2>1, <2>2
<1> QED
    BY InitOrigin, OriginStep, <1>1, <1>2, <1>3, PTL DEF Spec, NoCreditBeyondGrace

\* Whatever watchers, garbage collectors and prunes run against each other: what a deposit
\* was credited for is a confirmed coin on an address minted for that very name.
THEOREM CreditsSound == Spec => []CreditSound
<1>1. Origin => CreditSound
    BY DEF Origin
<1> QED
    BY InitOrigin, OriginStep, <1>1, PTL DEF Spec

\* With one watcher at a time no coin is credited twice, though any pass may die before or
\* after its batch, accounts are deleted and named anew, and others close and prune.
THEOREM CreditsOnce == ASSUME OneWatcher, IsFiniteSet(Names) PROVE Spec => []CreditedOnce
<1>1. Init => Once
    BY DEF Init, Once, IdleWatcher
<1>2. Origin /\ Once /\ [Next]_vars => Origin' /\ Once'
    BY OriginStep, OnceStep
<1>3. Origin /\ Once => CreditedOnce
    BY OnceCounts
<1> QED
    BY InitOrigin, <1>1, <1>2, <1>3, PTL DEF Spec

\* wallet-prune, which acts on addresses it found earlier, deletes no open account, however
\* many prunes, collectors and creations under old names come between the two.
THEOREM PruneSparesOpen == Spec => OpenSpared
<1> DEFINE Spared == \A p \in Pruners, u \in Names : Prune(p) /\ life[u] = "open" => Exists(u)'
<1>1. Origin /\ [Next]_vars => [Spared]_vars
    <2> SUFFICES ASSUME Origin, NEW p \in Pruners, NEW u \in Names, Prune(p), life[u] = "open"
                 PROVE  life'[u] # "absent"
        BY DEF Exists
    <2>1. addr[u] \notin pruner[p].drop
        BY DEF Origin, Prunable
    <2>2. life'[u] = life[u]
        BY <2>1 DEF Prune
    <2> QED
        BY <2>2
<1> QED
    BY InitOrigin, OriginStep, <1>1, PTL DEF Spec, OpenSpared
=============================================================================
