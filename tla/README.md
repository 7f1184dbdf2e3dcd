# A TLA+ model of decentral-nodes

decentral-nodes is a set of shell and Python programs around Bitcoin, Lightning and other
daemons. Its own core logic, and the part of it that handles money, is the *account wallet* of
`libexec/lightning-node`: a custodial ledger in one SQLite file per wallet, on top of one Core
Lightning node. In front of it stands the *HTTP and MCP layer* of `share/lightning/wellknown`, with
the users, passkeys and invitations that layer keeps. This directory models both in TLA+, checks
the models with TLC and proves their main safety properties with TLAPS.

Contents: [the system](#the-system) · [what is hard about it](#what-is-hard-about-it) ·
[modules](#modules) · [runs](#runs) · [counterexamples](#disagreements-between-code-and-text) ·
[proofs](#proofs) · [what is not modelled](#what-is-not-modelled) · [plan](#plan)

## The system

There is no server process. Every operation ("verb") is a program of its own, started by a CGI
script (`share/lightning/wellknown`, itself one process per request), by a user at a shell, by another verb, or by a timer, and
it ends when it has printed its answer. All of them open the same SQLite file; **nothing locks it
across statements**. One `sqlite3` call is one transaction: a call that holds
`BEGIN; ...; COMMIT;` is atomic, two calls of one verb are not. No busy timeout is set, so a write
may be refused ("database is locked"); some verbs stop at that (`set -e`), some ignore it
(`|| true`). `PRAGMA foreign_keys` is per connection, so the schema's does not reach the verbs:
foreign keys are off except where a program turns them on itself, which are the delete of a user
(`_wallet-user` 160), every passkey command (`_webauthn-verify` 101) and, after its rebuild of a
table, the minting of a code (`_wallet-user` 246).

| component | its state | its operations | talks to |
|---|---|---|---|
| HTTP and MCP endpoints: `wellknown/lightning`, `wellknown/api`, `lnurlp`, `mcp.py` | none; the key store (`secret`) | one request each: refuse early, compare the key, refuse late, run a verb, read its exit | every `api-*` verb, `secret` |
| account transfers: `api-account-transfer` | `ledger`, read as sums; `accounts` | transfer | compliance hook; called by standing orders and mandate pulls |
| operator fee and referrals, in `api-account-transfer`, `-pay`, `-withdraw` | `fees.recfile` (read only); `fee:*` rows | skim, split | part of those verbs' batches |
| off-chain payments: `api-account-pay`, `invoice pay`, `api-account-withdraw` | `out`, `fee` rows | pay, withdraw by swap | Core Lightning (`pay`, `decode`), boltzcli |
| invoices: `api-account-recv`, `invoice create` | `invoices` | mint | Core Lightning (`invoice`) |
| reconciliation: `_ledger reconcile run` | rows of others' flows, `invoices.state` | pass (5 minute timer, or by hand) | Core Lightning (`listpays`, `listinvoices`) |
| accounts and deposits: `account create/close/delete`, `topup-watcher run` | `accounts`, rows of kind topup-watcher | create, close, watch (1 minute timer, or by hand) | Core Lightning (`newaddr`, `listfunds`) |
| garbage collection: `account gc run`, `wallet-prune` | `accounts`, nicknames | gc (daily timer), prune | compliance hook (legal hold) |
| commerce charges: `api-account-charge` | `commerce_charges`, `commerce_events`, the escrow account | create, hold, release, authorize, capture, void, refund, installments, pay-installment, dun | ledger |
| commercial invoices: `api-account-invoice*`, `_offer`, `_lnurl` | `commerce_invoices`, offers | create, settle, cancel; offers | Core Lightning |
| mandates: `api-account-mandate`, `api-account-mandate-pull` | `mandates`, `mandate_pulls` | create, change, pull, approve, deny | transfer, pay |
| standing orders: `account standing-order` | `standing_orders` | create, pause, resume, cancel, run (timer) | transfer, `_offer pay`, `_lnurl pay` |
| users and passkeys: `users.py`, `_webauthn-verify`, `_session-token` | `wallet_users`, `user_passkeys`, `auth_challenges_user`, the session key | register, log in, add, revoke, refresh | `secret` store |
| invitations: `api-user-create`, `api-accounts-create`, `_wallet-user` | `wallet_users` as a tree, `invite_codes`, `accounts.owner_user` | register, open, mint, revoke, adopt, cap, delete | `account create` |
| liquidity offer index: `wellknown/api/liquidity.py` | none | list offers | a Nostr relay |
| node operation: `channel`, `peer`, `liquidity`, `_rebalance`, `_fee-policy`, `_forward`, `_alert`, `price` | caches, policy files | open, close, rebalance, set fees, alert | Core Lightning, price feeds |
| keys and backups: `_seed`, `_unlock`, `_scb`, `_backup`, `_restore`, `_tower`, `_tor` | files | create, unlock, export, restore | external programs |
| `daemon`, `install`, `config`, `plugin` | service files and timers | install, start, stop | systemd, launchd |
| `bitcoin-node`, `fulcrum-node`, `tor-node`, ... | configuration | install, start, query; PSBT tools | their daemons |

What makes each of the first components correct:

* *transfers*: money is neither made nor lost, an account with policy `deny` is not overdrawn, a
  referral is paid when earned and within its daily cap;
* *payments and reconciliation*: whatever the Lightning node pays or receives is in the ledger
  once, on the right account, in the end, and nothing else is;
* *accounts and deposits*: a confirmed deposit is credited once to the account it was sent to;
  an account that is deleted leaves no money behind;
* *endpoints*: a verb that acts for an account ran for somebody who held its key, who holds a key
  is served, what reads as a refusal did nothing, and a closed account stays closed;
* *passkeys*: a session is earned with a passkey of its user, a challenge serves once and for whom
  it was issued, a signature counter never goes back, sessions last;
* *invitations*: the users are a forest, nobody registers without the code the operator asks for,
  a code's count covers whom it referred;
* *liquidity index*: the offers answered are eligible and the best of those read;
* *charges*: what is in escrow is what the states of the charges say, no customer pays twice, and
  the event log tells the same story as the table.

## What is hard about it

* **Interleaving.** Check and act are separate transactions in every verb. Two verbs, two timers'
  passes, or a pass and the same command by hand overlap at any statement.
* **Keys and sessions.** The key of a request is compared by one process and its work done by a
  later one; a challenge is found and deleted, a counter read and written, the session key looked
  up and made, an invite code looked up and used, in separate statements of separate programs.
* **Deleted names.** A user id, an account name and an invite code may come back after a deletion,
  while rows and processes still speak of the old one.
* **Silent parties.** A relay may answer late, twice, wrongly or never; the key store may fail.
* **Stale lists.** The watcher, the reconcile pass, gc and wallet-prune query a list once and act
  on it row by row, while the accounts in it are used, closed, deleted and made again.
* **Two stores.** The Lightning node and the ledger have no transaction over both. A process that
  dies between them, or a refused write, leaves a flow the ledger does not know; the reconcile
  pass must find it, and must not find what a verb is just about to write.
* **Retries.** `lightning-cli pay` answers a repeated request with the earlier success.
* **Order.** An invoice may be paid before it is recorded; a coin may be spent before it is seen;
  the two flows of a payment to oneself share one hash.
* **Half-done verbs.** Some verbs post in two transactions (partial capture, `invoice pay`).
* **Arithmetic.** Integer division truncates; fees may have a negative rate; installments must
  sum to the amount.

`PROJECT.json` lists each of these at its line, with the property that covers it.

## Modules

One action is one `sqlite3` call, or one call of an external program, with the shell's reading of
its answer; a batch in one call is one action. A process is a record of its shell variables with
a program counter `pc`. A record that returns to `idle` has printed its answer or died.

| module | models | composes |
|---|---|---|
| `OperatorFee` | the fee, its truncating division and its referral split | |
| `Transfers` | `api-account-transfer` | extends `OperatorFee`, instantiates `Bank` |
| `Bank` | the abstract promise: money moves in one step, from an account that can afford it or has the credit | |
| `Settlement` | pay and mint verbs, Core Lightning with other clients, the reconcile pass | |
| `Accounts` | account life, deposit watcher, gc, wallet-prune, and the traffic they meet | |
| `Charges` | `api-account-charge` | |
| `Wellknown` | what each script, tool and method checks, runs and answers | |
| `Gateway` | requests as processes, the key store, the closing of accounts | extends `Wellknown` |
| `Passkeys` | `users.py` with `_webauthn-verify` and `_session-token` | |
| `Invites` | `api-user-create`, `api-accounts-create`, `_wallet-user` and the requests that run them | |
| `Liquidity` | one request for the offer index, and the relay | |
| `MCTransfers`, `MCSettlement`, `MCAccounts`, `MCCharges`, `MCGateway`, `MCPasskeys`, `MCInvites`, `MCLiquidity` | small instances for TLC | extend the module they are named after |
| `TransfersProofs`, `SettlementProofs`, `AccountsProofs`, `ChargesProofs`, `GatewayProofs`, `PasskeysProofs`, `InvitesProofs` | theorems and proofs | extend the module they are named after; `GatewayProofs` also `Liquidity` |
| `Sums` | lemmas on the sums and counts the proofs need | extended by the first four of them |

Definitions marked "a slip" are variants of the definition below them, as a plausible mistake in
the code would have it. No action uses them; each shows that a property can tell the mistake.

### Transfers

| state | code |
|---|---|
| `balance` | `SUM(amount_msat)` of an account's `ledger` rows |
| `activity` | `SUM(ABS(amount_msat))` of its rows other than fees, the referral threshold |
| `credited` | today's `fee:referral` credits of an account |
| `req[w]` | the variables of request process `w`: both ends, amount, referrer, referral |

`Accept` (arguments, resolution) → `Gate` or `Refuse` (compliance hook, capability) → `Check`
(balance against amount and fee) → `Split` (referrer, threshold, cap) → `Post` (the batch).
`Fail` is a death or a refused batch at any point. `NewDay` is the date of the cap's query moving
on. The hook is a program of the operator's, so `Refuse` needs no reason. Rows are summed up at
once: no verb in the module reads a single row.

`Bank` knows nothing of processes, fees or referrals: one account pays, nobody else loses, the sum
stays, and a payer with policy `deny` is no deeper in debt after it than its credit. `ImplementsBank`
says that `Transfers` is such a bank. The refinement mapping is the identity on balances; `Credit`
is what overlapping costs, one largest debit for each process but the first. Every step but `Post`
stutters. That money is neither made nor lost is part of it.

### Settlement

| state | code |
|---|---|
| `pay`, `inv` | what `listpays` and `listinvoices` say of a hash |
| `bill`, `marked` | rows of `invoices`: the account, and those set to `paid` |
| `paidOut`, `feeRow`, `received` | how many rows of each kind carry a hash, by account |
| `swapRow` | debits of swaps, which carry no hash |
| `clerk[c]` | a verb process; `Verb[c]` says which verb it runs |
| `pass[r]` | a reconcile process: what it listed and what its batch holds |

`AskPay` → `Send` → (`Succeed` or `Miscarry` in the node) → `Book` (→ `BookFee` for `invoice pay`)
and `AskMint` → `Store` are the verbs. `LoseBook` and `LoseStore` are refused writes that are
ignored, `GiveUp` a death or a timeout of `pay` while the payment goes on. `OtherPays`,
`OtherMints` and `Arrive` are the node's other clients and the network. A pass is `ListPays` →
`ListInvoices` → `LookPay`/`LookInvoice` for each hash in turn → `Commit`, or `FailPass`. A hash
has an amount in msat (`Price`) and, as a payment that leaves the node has, a routing fee (`Toll`);
`Balance` is the sum of an account's rows, fee rows among them. `MayPay` is the comparison of
`invoice pay`: whole satoshis, the amount without the fee, and none at all below a satoshi. (A
decode that fails ends the verb, by `set -e`; an invoice without an amount passes, and is then
refused by `pay`.)
The node is external: it is modelled from how the verbs use it (`pay` of a paid hash returns the
earlier success, a failed hash may be paid again, a payment may outlive its caller).

### Accounts

| state | code |
|---|---|
| `coin[k]` | an output: unknown, unconfirmed, confirmed, spent (no longer in `listfunds`) |
| `life[u]` | the row of name `u`: none, open, closed, closed beyond the grace ("stale") |
| `addr`, `minted` | its address; for which name an address was minted (history) |
| `idle`, `bills` | accounts without a call in the idle period; with a pending invoice |
| `topup[k][u]`, `balance[u]` | deposit rows of a coin on an account; the account's sum |
| `late` | history: accounts credited when they were not open |
| `early` | history: addresses of accounts that were removed before their grace was over |
| `watcher`, `keeper`, `pruner`, `mover` | the processes, and one transfer under way |

The watcher is `LookAccounts` → `ListFunds` → per coin `LookCoin` → `Credit` → `EndWatch`, or
`FailWatch`. gc is `FindIdle` → `FindClosed` → `CloseIdle` for each → `DropClosed` for each →
`EndSweep`, or `FailSweep`. wallet-prune is `FindPrunable` → `Prune`. A name whose account was
deleted may be created again, with a new address; `wallet-prune` removes accounts closed a moment
ago, so that this happens under a running watcher, and under a gc that deletes by the name alone. Time is reduced to the two ages that queries
test. One assumption about speed is made, in `GrowStale`: no pass lasts as long as the grace
period (a week by default).

### Charges

| state | code |
|---|---|
| `charge[i]` | the row of `commerce_charges`: state, captured, refunded, plan, parts paid |
| `rows[i][p]` | the sum of the ledger rows tagged with charge `i` on customer, merchant, escrow |
| `told[i]` | the state in the last entry of `commerce_events` |
| `due` | charges past their due date |
| `clerk[c]` | a verb process with what it worked out from the row it loaded |

`Create`, then for every other operation `Begin` (load, check) → `Move` (→ `MoveRest` for a partial
capture) → `Update` → `Log`; `Die` at any of them. `Legal`, `Transfer`, `NewState` and `NewNumber`
are the nine operations' conditions and effects, side by side. The balance query a verb makes
right after loading belongs to `Begin`. All charges have one customer and one merchant, which is
the worst case for their balances.

### Gateway and Wellknown

| state | code |
|---|---|
| `keys[o, s]` | the key store: the key of an owner and a scope (`read`, `write`, `account`) |
| `closed`, `stuck` | accounts with `closed_at`; those of them whose key was once not removed |
| `proc[p]` | one request: what it asks, the scope it tries, the verb's exit, the reply |
| `met`, `kept` (in `proc`) | history: scopes whose key was the one offered, at some time and all the time |

`Wellknown` holds no state. `PlanOf(r)` is a script read from top to bottom: the refusal before the
key, the scopes tried in order, the refusal after it, the verb, and how its exit is read. Reading
a plan is `Early` → `Check` once for each scope → `Late` → `Run`, or `Close` → `Unkey` for the
verb that closes an account, then `Reply`. `CheckFails`, `CloseFails` and `UnkeyFails` are failures
of the store and of the database. `Issue` is the operator issuing or revoking a key at any time.
The amounts and the ledger are the other modules' business; here a verb did something or did not.

### Passkeys

| state | code |
|---|---|
| `users` | rows of `wallet_users` |
| `holder[c]`, `count[c]` | `user_passkeys`: whose a credential is, and its `sign_count` |
| `challenges` | rows of `auth_challenges_user`; a registration's names nobody |
| `hmac` | the session key in the secret store, 0 for none |
| `tokens` | sessions handed out: user and key |
| `proc[p]` | a request: its variables, those of the helper it runs, and where they are |

A request is `Arrive`, then a path through: `GetKey` (→ `SetKey` when there is none), `Verify`,
`CreateUser`, `Begin`, `FindChallenge` → `Consume` → `Attest` or (`LookCredential` → `UpdateCount`),
`Revoke`, `Refresh`, `Mint`. `GetKey` and `SetKey` happen on every use of the key, by whichever
process; `GetKeyFails`, `SetKeyFails`, `HelperFails` and `Expired` are failures. Signatures are
unforgeable: a token or a challenge that is offered was handed out. `DeleteUser` is the operator's
`wallet-user delete`: the user's passkeys go with its row (the schema's cascade), its sessions and
the requests under way do not, and the id may be registered again; `gone` is the history of it.

### Invites

| state | code |
|---|---|
| `born[u]`, `ref[u]`, `cap[u]` | a row of `wallet_users`: when it came (0: none), `referrer_user`, `max_downline` |
| `owned` | ids that `accounts.owner_user` names |
| `owner[c]`, `uses[c]` | a row of `invite_codes` |
| `gone`, `back`, `life`, `referred`, `lost` | history: ids deleted, and inserted again; of a code its insertions, and of the last whom it referred and the counts lost |

Registration is `Gate` → `Resolve` → `Bump` → `Insert` → `Passkey`; opening an account `Gate` →
`Open` → `Stamp` → `Bump` → `Own`. The operator's commands are `Check` → `Measure` → `Put` (mint),
`Drop` (revoke), `Walk` (tree), `Look` → `Limit` (cap), `Look` → `Adopt`, and `Orphan` → `Erase`
(delete). `BumpFails` is the refused count, which is ignored. The recursive queries over the tree
(`Upline`, `Downline`) are least fixed points; one that meets a cycle has no next step.

### Liquidity

`Start` → `Connect` → `Send` → (`ReadEvent` | `ReadOther`)* → `ReadLast` or `OutOfTime` →
`CloseSocket` → `Rank`; what raises in between closes the connection too, and is a 500. Time is
counted in ticks; every frame takes one or more. The timeouts the script sets are of single socket
operations, and a connection, a frame or the closing handshake is many of them: a call to the relay
may last longer than the deadline, which is looked at between two frames only. `Longest` bounds a
call in the instance; no property speaks of how long a request lasts. The relay is external: it may
send any offer at any time. `results` are the offers the script kept, `read` is the history of what came and
when. `Wanted` are the rows that pass the filter. The sort is by `Place`, how many of them are
`Ahead`, stable as Python's; `Cut` is the slice, with the meaning a negative limit has there.

## Runs

| run | instance | shows |
|---|---|---|
| `transfers_concurrent` | 2 accounts and the house, 2 processes, 4 requests of 1 or 2 sat, a fee of one half, split in two | transfers implement `Bank`; overlap costs at most one largest debit per other process; without overlap nothing; the daily cap is passed by less than a credit per process; a referral is earned when it is paid |
| `settlement_quiet` | 2 accounts, one of them `deny`, one hash to pay (3 msat and a fee of 1, 2 msat to the satoshi), one to mint, two `invoice pay` and an `api-account-recv`, 2 passes, 1 fault | rows are of flows that happened; receipts are on their owner's account; two payers of one balance overdraw it by a payment and the fees at most, and do; a quiet node books once |
| `settlement_live` | `api-account-pay` and `api-account-recv`, 1 pass, 2 faults, fair passes | every settlement is booked in the end |
| `accounts_life` | one name, 2 addresses and coins, watcher, gc, wallet-prune, 1 fault, fair watcher | deposits are credited once, to the account that has the address unless it was removed early, and in the end; open accounts are spared |
| `accounts_stranded` | 2 names with an address each, one under legal hold, a coin, 2 transfers or invoices | no money is left behind; the coin is credited to the account its address was minted for, and not to the other |
| `charges_apart` | 2 charges of 3 and 5 sat, 2 processes, plans of up to 3 parts, 1 death | unless a verb died, escrow, earnings and payments are what the states say; customer and merchant stay out of debt while no two verbs take from one of them at once |
| `charges_overcharge` | 1 charge, every operation | a charge is paid by hold and by plan |
| `gateway_requests` | 1 user, 1 account, 2 keys, 2 processes and requests, of every script and every class of tool, 1 key issued or revoked, 1 fault | only key holders act, key holders are served, refusals did nothing, closed accounts stay closed |
| `passkeys_life` | 2 users, 2 credentials, 2 processes, 3 requests, counters to 1, 2 challenges out at first, 1 fault | sessions are earned, challenges used once and by their user, counters grow, sessions hold, passkeys change only by their owner or with the operator's delete, which may come at any time, the id being registered again |
| `invites_tree` | 3 ids, 2 codes (one from before users had codes), 2 processes, 4 requests, the gate on | the users stay a forest, the gate is kept, uses cover whom a code referred, requests end unless a deleted id comes back |
| `invites_finish` | one registration | it writes its row and dies |
| `liquidity_index` | 7 offers, 8 requests, a timeout of 4 ticks, calls of up to 5 | only eligible offers, the best of them, in order |

Why the bounds are enough. The properties are about one account, one hash, one coin, one name, one
charge, one key, one credential or one code, and at most two processes that disturb each other over
it; each instance has one or two of those. Two addresses of one name are needed for a name that is
used again. Two faults in `settlement_live` lose a verb's write and the pass after it. The fee of
one half and the amounts of 1 and 2 sat make every share visible (500 and 1000 msat, split 250 and
500), the cap of 300 lies between the two credits, and the threshold of 1000 is passed by the first
transfer. An amount of 3 and of 5 sat divides unevenly by both 2 and 3. One issue of a key in
`gateway_requests` can be the revocation between the check and the verb, or the one between the two
scopes of a check. A third request in `passkeys_life` revokes what the other two race for; a counter
of 0 or 1 tells "never counts" from "must grow". Three ids in `invites_tree` are enough for a cycle
through a deleted one, and four requests to delete, come back, and refer. A timeout of 4 ticks lets
in more offers than the limit of 3, so that the cut and the deadline happen, and calls of 5 ticks
pass it before the first frame, with an offer that expired under way, or in closing. In
`settlement_quiet` the account may pay one hash from one balance twice, and its 3 msat are not a
whole satoshi, so that rounding, fee and overlap each add to the overdraft. The name of
`accounts_life` comes back with its other address while a watcher knows the first. `MaxCalls`, `MaxAsks`, `MaxMoves`, `MaxPlans`, `MaxParts`, `MaxFaults`, `MaxArrivals`,
`MaxIssues`, `MaxOpen` and `MaxCount` are bounds of the instances only: the theorems hold for all
values of them.

Deadlock is checked where the behaviour has no end (`NewDay` is always enabled in the transfers; an
account can always be closed or created). In `Settlement` and `Charges` everything may be settled
and nobody ask for more; in `Gateway`, `Passkeys` and `Invites` the requests are bounded, and
`Liquidity` is a script that ends. There the check is off.

Fairness. `Settlement!FairSpec` and `Accounts!FairSpec` ask weak fairness of the passes, and of
nothing else: a systemd or launchd timer starts them again and again, a oneshot service that is
not killed runs on, and the pass that is killed (`FailPass`, `FailWatch`) can be so only a bounded
number of times, or nothing could be promised. Verbs, the network and users owe nothing.
`Invites!FairSpec` asks it of a request's next step: a CGI process that was started and not killed
runs on. Arrivals and refused writes owe nothing there either. `DiligentSpec`, used by the
counterexamples about verbs, also lets a verb that was called run on, so that the process standing
still for ever is not the counterexample.

## Disagreements between code and text

Two are runs of the project; `PROJECT.json` quotes the text each of them disagrees with:

* `charges_overcharge`: `pay-installment` looks at the counters and not at the state.
* `invites_finish`: `api-user-create` hands `jq` the referrer's id as JSON, which an id is not, and
  dies after its row is written. The registration ends in 502, and as the id is then taken it
  cannot be tried again.

The others are kept as configurations, for `tlc -config <cfg> <module>`:

| configuration | module | property | what TLC shows |
|---|---|---|---|
| `MCTransfersOverdraft` | `MCTransfers` | `NeverOverdrawn` | the balance check and the batch of a transfer are two transactions, and two requests overlap |
| `MCTransfersDailyCap` | `MCTransfers` | `CapRespected` | the cap is compared before the credit is added, which is not cut (219: "cap on daily credits a single referrer can accrue") |
| `MCTransfersInterest` | `MCTransfers` | `AmountCovered` | a negative rate lowers what the check asks for without interest mode (`fees.recfile` 24-26: "otherwise the skim clamps it to 0") |
| `MCSettlementSelfPay` | `MCSettlement` | `CreditFollowsDebit` | reconcile looks for a hash in *any* row, so a payment between two accounts by an invoice of this node debits one and never credits the other |
| `MCSettlementRace` | `MCSettlement` | `BookedOnce` | a pass between success and booking (244: "never double-counts our own payments") |
| `MCSettlementRetry` | `MCSettlement` | `BookedOnce` | a retry of a paid invoice is booked again (`api-account-pay` 171-175) |
| `MCSettlementSwap` | `MCSettlement` | `BookedOnce` | a swap's debit has no hash, its payment is booked on `others` too (244) |
| `MCSettlementSwapRefund` | `MCSettlement` | `SwapRefunded` | nothing refunds a failed swap (`api-account-withdraw` 128-129) |
| `MCSettlementUncharged` | `MCSettlement` | `PayerCharged` | when the booking is lost `others` pays (`api-account-pay` 171-175) |
| `MCSettlementUnpaid` | `MCSettlement` | `PayerSolvent` | `api-account-pay` asks for no balance (213: "rejects if the user's balance can't cover"); `invoice pay` asks, and a lone payer of its whole balance still ends at minus the routing fee |
| `MCAccountsSpent` | `MCAccounts` | `DepositCredited` | a coin spent between two passes (212, acceptance 2) |
| `MCAccountsTwice` | `MCAccounts` | `CreditedOnce` | two passes at once (`account` 663-664: "Idempotent") |
| `MCAccountsClosed` | `MCAccounts` | `ClosedNotCredited` | the list of open accounts is old (`account` 694-696) |
| `MCAccountsIdle` | `MCAccounts` | `OnlyIdleClosed` | gc closes an account used since its query (`account` 890-897) |
| `MCAccountsPrune` | `MCAccounts` | `OnlyAgedPruned` | `closed_at` is an integer, compared with a date in text form: an account closed a moment ago is removed |
| `MCChargesTwice` | `MCCharges` | `EscrowCovered` | two verbs on one charge (`api-account-charge` 6-8) |
| `MCChargesCrash` | `MCCharges` | `EscrowCovered` | a verb dies after its move and is run again (the same) |
| `MCLiquidityDocs` | `MCLiquidity` | `AtMostMax` | a negative `limit` slices from the end ("cap results (default 50, max 200)") |
| `MCLiquidityDocs`, with `-continue` | `MCLiquidity` | `FeaturedVerified` | any `featured_zap` tag ranks an offer first (`liquidity.py` 106); 14-17: "tagged with a verified zap receipt (Kind 9735) from our node is ranked first". No receipt is looked up |

`MCChargesDying` is the one that holds: with a death at any statement nobody is overdrawn. With the
instance of `gateway_requests`, `NotificationsSilent` is violated: only `notifications/initialized`
goes unanswered, while `mcp.py` 757 says so of every envelope without an id.

(Numbers are those of the tickets in `issues/feature/done`.)

Most of these are the other side of a property that holds: `OverdraftBounded` and
`ExclusiveSendersStaySolvent` say how bad the first can get and what prevents it,
the `OverdraftBounded` of `Settlement` does the same for `invoice pay`, `QuietBooksOnce` names
exactly what disturbs the de-duplication, `NoCreditBeyondGrace` bounds how stale the watcher's list
can be and names the one way past that bound (an account removed early, whose name a later one
has), and `NothingStranded` says that gc's queries, stale as they are,
lose no money that was sent to an open account.

## Proofs

`tlapm TransfersProofs.tla` and so on. The theorems are about every value of the constants the
modules' assumptions allow, any number of processes, accounts and faults. Where a theorem needs
more of them, it says so in its ASSUME: that a set is finite, that one process of a kind runs.

**Sums.** The ledger is sums of rows, and `SumFunction` is a fold: what it is for every input needs
induction over finite sets. The library's induction theorems take an operator as a parameter; the
lemma `SmallerFirst` takes the set of those subsets the claim is true of, and rests on the
well-foundedness of strict inclusion (`WFMin`). From it follow: a sum of integers is an integer
(`SumInt`), is taken apart at any one element (`SumTakeOut`), adds up with another (`SumAdds`), and
changes with one summand by what that changes (`SumChange`).

**TransfersProofs.** `TypeCorrect`: types, and that a request in flight names two different
accounts and at most its sender's own referrer. The others rest on it.

* `Solvency`: if no fee is negative (`FeeNotNegative`), an account with policy `deny` stays solvent
  as long as no two requests debit it at once. `NeverOverdrawn` is not inductive; its
  strengthening `Reserved` says that the balance covers the debit of a request past its check. It
  is preserved because, while nobody else debits the account, its balance only grows.
* `OverdraftBound`: with `n` processes the overdraft is at most `n - 1` largest debits. The
  strengthening (`Margin`) counts, by cardinality, the processes that are past their check and
  debit the account: the balance lacks at most the largest debit for each that is not. The theorem
  assumes that the largest debit of the amounts exists (`LargestDebit`) and that there are finitely
  many processes.
* `CapOvershootBound`: the same argument for the daily cap, with the requests that carry a credit.
* `ReferralsEarned`: a credit needs a referee who paid and passed the threshold; the threshold
  read earlier still holds as turnover never falls.
* `TransfersImplementBank`: `Spec => ImplementsBank`, for finitely many accounts and at least one
  process, with the assumptions of `OverdraftBound`. Every action but `Post` leaves the balances
  alone (`OnlyPostMovesMoney`). `Post` is a `Move` of the bank: its rows sum to zero
  (`RowsBalance`: debit, credit, house share and referral share), nobody but the sender loses, and
  the sender is within the credit by `OverdraftBound` in the state after it.

**SettlementProofs.** `SettlementTyped`, then

* `RowsAreReal`: rows with a hash are of flows that happened. The invariant adds what verbs and
  passes remember: a process that was told of a success holds a completed hash, a pass lists
  settled ones only, and settled is for ever.
* `BookedOnceWhenQuiet`: while the node is `Quiet`, each hash has at most one principal row and
  one receipt. The strengthening says what is still to come (`Pending`): a process holding a
  payment it has not booked, or a pass with a row in its batch, finds no row of that hash.
* `ReceiptsToOwners`: if every mint verb records before it hands out (`RecordsFirst`; that is
  `api-account-recv`, not `invoice create`), a receipt is on its recorded account. The invariant
  ties the states of an invoice to its record, and the owner a pass has read to the record.
* `AskingBoundsOverdraft`: if every payment is made by `invoice pay`, and no account with policy
  `deny` starts in debt (`BalancesAsked`), such an account, as long as it made no payment below a
  satoshi, is below zero at most by a routing fee for each process, a payment for each but the
  first, and the rest of a satoshi. It assumes finitely many hashes and processes.
  `OverdraftBounded` is not inductive, as a process adds to the debt long after its comparison;
  the strengthening (`Margin`) takes from the balance, from the start, what each process is still going to book (`Owed`, and
  their sum `Debts`). Asking is then the only step that can bring it below zero: the amount asked
  for is covered by the balance of that moment, save for the rest of a satoshi, and what the
  others owe is a payment and a fee each (`SumBounded`). The pass books on `others`, and what
  others pay in only adds.

**AccountsProofs.** For any watchers, collectors and prunes at once:

* `CreditsSound`: a deposit is credited to the name its address was minted for. The invariant
  (`Origin`) says that an address stands for the same name for ever, in the rows and in what a pass
  remembers, and that what a pass has left to look at was confirmed when it was listed.
* `CreditsInTime`: a credit of the watcher is on the account that has the address, open or closed
  within the grace, unless that account was removed early. The invariant (`Timely`) says of every
  address a pass remembers that its account is still the one it was, or was closed since, or is
  `early`: before the grace is over only `wallet-prune`, and a gc that found an earlier account of
  the name, remove it.
* `PruneSparesOpen`: `wallet-prune` deletes by addresses it read earlier. None is an open account's
  (`Prunable`), as an account created in between under the same name has another address.
* `CreditsOnce`, for one watcher at a time (`OneWatcher`): the counting invariant is `Once`, no coin
  has two rows under a name, and none at all when a pass is about to credit it. A pass that dies
  and is run again asks the ledger again. With two watchers `MCAccountsTwice` shows two credits.

* `NothingLost`, for at most one gc at a time and no wallet-prune (`OneKeeper`), as `wallet-prune`
  asks for no balance: a deleted account leaves no money but what came late. The invariant follows
  a candidate of gc from its query to its deletion: money that reaches it in between makes it
  `late`.

**ChargesProofs.** `ChargesTyped`, for verbs that overlap and die as they like. The others assume
`Apart`: each charge is worked on by one process and paid through escrow or by one plan of
installments, save for the last. They speak of behaviours up to the first death, after which the properties promise
nothing. `charges_overcharge` and the instances run by hand show what happens without each of these.

* `EscrowKept` and `EarningsKept`: what the ledger rows of a charge say is what its row says. The
  two properties speak of charges nobody works on; the invariant adds, for a process in the middle
  of a verb, that the rows and what it is still to move agree with the row it is going to write.
* `OverchargeExcluded`: the rows of a charge sum to zero and escrow and earnings together are
  within its amount at every step, as only the first move of a verb takes from the customer and
  nothing is then left to follow it. The last part of a plan makes the floors sum to the amount.
* `ExclusiveDebitsSolvent` needs neither `Apart` nor that nobody dies, only finitely many charges:
  while no two moves take from one account at once (the premise of the property), a verb past its
  balance check still finds what it is about to take (`SolventInv`). A balance is a sum over
  charges, and a move changes it by its amount (`SumChange`).

**GatewayProofs**, with no assumption beyond those of the module. The invariant (`GatewayInvariant`)
says that each process is where the plan of its request takes it, that what it remembers of the keys
is true of them (a scope it passed is in `met`, a scope it failed is not in `kept` unless the store
failed), and that an account whose closing was answered has no key left or is `stuck`.

* `OnlyKeyHolders`, `HoldersServed`, `RefusalsInnocent`, `ClosedForGood` follow from it. They are
  about any set of requests: every script, tool, resource and method of `Wellknown` is covered.

**PasskeysProofs.** `Does` says once for every step which fields it may change and how; each
invariant is then shown against `Does` and not against twenty actions. `PasskeysInvariant` is types
with "who is past the look-up of a credential has seen it" (`SessionsEarned` follows). The other
theorems strengthen that:

* `ChallengesBound`: past `Consume`, a login holds the name its challenge carried.
* `SessionsStay`: without a fault and an overlap, one process at most makes a key, and what any
  process holds is the key of the store.
* `CountersMonotone`: between look-up and `UpdateCount` nobody else's write has come in, or the
  passkey was revoked, or it is in `raced`.
* `ChallengesOnce`: a challenge that got somebody in is gone from the table, and nobody else holds
  it unless both found it.
* `PasskeysTheirs`: apart from the operator's delete, who writes to `user_passkeys` holds a session
  of the user it writes for, of an earlier life of the id if need be; the anonymous registration
  only reaches that statement for a user that has no passkey, unless the user was deleted under it.

**InvitesProofs.** `InvitesInvariant`: types, "who referred came before" for the rows and for every
process that is about to write one (whoever it found is known: there, or deleted since), and "who
passed the gate has seen its code". `TreeIsForest` and `GateHolds` follow. The
forest is why the recursive queries end.

* `UsesKeepUp`, for finitely many processes. A user is counted before its row is there, an account
  after: `UsesCover` alone is not inductive. The strengthening (`Counts`) adds to what a code
  referred the registrations that were counted and are not yet in (`Waiting`), and says that no
  process knows a later life of a code than the present one (`Sure`), so that a code revoked and
  minted anew starts with nothing owed. Each step moves one process between the two sets at most
  (`CardMoves`).

**GatewayProofs, `Liquidity`.** With no assumption beyond those of the module, for any relay,
requests, timeout and duration of a call:

* `IndexTyped`, `EligibleAnswered` and `BestOnes`, from `IndexInvariant`: the rows collected are,
  one for one, the offers heard that were active, unexpired and readable (`Traced`), and an answer
  was ranked from these rows. `Ahead` is a strict total order (`AheadOrders`), so that counting who is ahead
  gives each row that passes a place of its own and leaves no place empty (`PlacesTaken`). Hence
  the answer maps into the eligible offers heard without two of its rows on one, has as many rows
  as the limit allows, is in order, and what it leaves out has a higher place than all it has.

Only model-checked: liveness under fairness (`EverySettlementBooked`, `DepositSettled`,
`RequestsAnswered`), which is out of the prover's reach. Every invariant and every action property
of a run that holds is a theorem.

## What is not modelled

* The width of bash integers: `OperatorFee` computes in Int. `amount_msat * rate_ppm` leaves 64
  bits at amounts no run uses.
* Formatting, JSON, exit codes beyond success and failure, nicknames, notes, listings.
* In `Settlement`, the operator-fee rows of an `api-account-pay`, which share the fate of the
  principal's batch and are the subject of `Transfers`; invoices without an amount; operations by hand on the ledger (`ledger add`); reusable offers.
* In `Accounts`, `account delete` by hand, aliases, accounts without an address, and the batch of
  an operator fee on a deposit, which shares the fate of the deposit's row.
* In `Charges`, the reasons and references of a charge, and the levels of dunning.
* In `Gateway`, what a verb does to the ledger, the discovery documents, and wording of errors. Two
  helpers of `_lib.py` (`auth_account`, `read_account_id_from_path`) are called by no script.
* In `Passkeys`, cryptography: a signature is taken to be valid only for what was signed. Sessions
  end at any time after they were handed out, whatever the clock says.
* In `Invites`, the rate limit of account creation, its compliance call, and codes minted by
  accounts; of `account create` only the row's existence.
* In `Liquidity`, the bytes of a WebSocket: a call to the relay is one step of any length. Nothing
  is claimed of how long a request lasts, as the code bounds single socket operations only.
* Components marked `not_modelled` in `PROJECT.json`, with the reason for each: queries and
  formatting, installers around external daemons, and what the plan below has left.

Facts about the code that reading it for the models brought up, and that the models contain:

* `api-recv` runs `invoice` without its subcommand `create`, so `recv.py` and `lnurlp` answer 502
  to every request that reaches the verb. The tools `peers_score`, `payment_status` and
  `invoice_status` name verbs that do not exist.
* `users.py` asks for codes, the tree and caps by `lightning wallet-user`, which `bin/lightning-node`
  does not dispatch: those requests end in 502 too.
* `sudoers.d/lightning` as shipped lists neither `api-user-*` nor `_webauthn-verify` nor
  `_session-token`; the models take a deployment that grants them.
* A refreshed session outlives the passkey it was earned with. Sessions also outlive their user:
  after a delete they serve whoever registers the id again. A delete between two anonymous
  registrations of one id lets both in, each with a passkey. A registration's challenge names
  nobody, so any outstanding one serves.
* Caps are looked at when a code is minted and never when somebody registers with it, and a code
  serves any number of times: a downline grows past its cap (`222-user-layer.md` 198: "at most N
  transitive descendants"). A cap is set without asking whose downline the user is in (202).
* One malformed offer makes the answer of the liquidity index a 500; a late or silent relay makes it
  a 200 with fewer offers, or none. Offers that come twice are listed twice.
* `price` answers 200 even when its verb fails.

## Plan

The order follows the money, then what stands in front of it. Built: 1 `Transfers` with `Bank`,
2 `Settlement`, 3 `Accounts`, 4 `Charges` with deaths, 5 `Gateway` over `Wellknown`, 6 `Passkeys`,
7 `Invites`, 8 `Liquidity`, and the proofs of all eight. Next:

9. `Mandates`: pulls against a cap in a rolling window, approval, death between push and record.
   Abstract specification: a budget per window. Theorem: overshoot bounded by the processes.
10. `StandingOrders`: due list, payment, rescheduling, the failure counter, pause and cancel during
    a run. Liveness under the timer.
11. `Invoices`: life of a commercial invoice, offers, and their settlement by the reconcile pass.
12. `NodeFees`: the fee policy and rebalance attempts; `Alerts` with their hysteresis.
13. `Supervisor`: daemons and their dependencies, start, stop and health.
14. `Psbt`: the roles of a partially signed transaction in `bitcoin-node`.

A module that composes `Transfers` with `Mandates` and `StandingOrders` comes after 10: both run
the transfer verb and read its exit code.
