----------------------------- MODULE GatewayProofs -----------------------------
(***************************************************************************)
(* Theorems about Gateway, for any requests, processes, owners, keys and   *)
(* bounds, and at the end about Liquidity, the one script of the gateway   *)
(* that waits for somebody else: for any timeout, requests and relay.      *)
(***************************************************************************)
EXTENDS Gateway, Liquidity, FiniteSetTheorems, TLAPS

-----------------------------------------------------------------------------
(* What every plan has in common *)

Lates == { Go, "400", "500", "-32602" }
FirstApi == { "send", "recv", "balance" }

\* A request refused at once tries no key and runs no verb; keys are tried for an
\* owner and with a key offered; what acts for an owner tries a key that suffices.
WellPlanned(r, plan) ==
    /\ plan.early \in Replies \cup {Go} /\ plan.late \in Lates
    /\ plan.checks \in { <<>>, <<"write">>, <<"read", "write">>, <<"account">> }
    /\ plan.early # Go => plan.checks = <<>> /\ plan.verb = "none"
    /\ plan.checks # <<>> => r.who # NoOne /\ r.key # NoKey
    /\ plan.checks = <<"account">> => r.ep = "mcp"
    /\ plan.checks \in { <<"write">>, <<"read", "write">> } => r.ep \in FirstApi
    /\ (plan.verb \in Actors /\ r.who # NoOne /\ r.ep # "lnurlp" /\ plan.verb # "api-accounts-create")
          => plan.checks \in { <<"write">>, <<"account">> }
    /\ plan.verb = "api-account-close" => plan.checks = <<"account">>

LEMMA SequencesDiffer ==
    /\ <<>> # <<"write">> /\ <<>> # <<"account">> /\ <<>> # <<"read", "write">>
    /\ <<"write">> # <<"account">> /\ <<"write">> # <<"read", "write">>
    /\ <<"account">> # <<"read", "write">>
OBVIOUS

LEMMA RefusalPlanned ==
    ASSUME NEW r, NEW reply \in Replies
    PROVE  WellPlanned(r, Refuse(reply))
BY SequencesDiffer DEF WellPlanned, Refuse, Plan, Go, Lates, Actors, Replies

LEMMA OpenPlanned ==
    ASSUME NEW r, NEW verb, NEW late \in Lates, verb # "api-account-close",
           verb \notin Actors \/ r.who = NoOne \/ r.ep = "lnurlp" \/ verb = "api-accounts-create"
    PROVE  WellPlanned(r, Plan(Go, <<>>, late, verb))
BY SequencesDiffer DEF WellPlanned, Plan, Go, Lates

LEMMA AccountPlanned ==
    ASSUME NEW r, NEW late \in Lates, NEW verb, r.ep = "mcp"
    PROVE  WellPlanned(r, AccountPlan(r, late, verb))
<1>1. CASE r.who = NoOne
    BY <1>1, RefusalPlanned DEF AccountPlan, Replies
<1>2. CASE r.who # NoOne /\ r.key = NoKey
    BY <1>2, RefusalPlanned DEF AccountPlan, Replies
<1>3. CASE r.who # NoOne /\ r.key # NoKey
    <2>1. AccountPlan(r, late, verb) = Plan(Go, <<"account">>, late, verb)
        BY <1>3 DEF AccountPlan
    <2> QED
        BY <1>3, <2>1, SequencesDiffer DEF WellPlanned, Plan, Go
<1> QED
    BY <1>1, <1>2, <1>3

LEMMA UserPlanned ==
    ASSUME NEW r, NEW scope \in {"read", "write"}, NEW late \in Lates, NEW verb,
           r.ep \in FirstApi, verb # "api-account-close", scope = "read" => verb \notin Actors
    PROVE  WellPlanned(r, UserPlan(r, scope, late, verb))
<1>1. CASE r.who = NoOne
    BY <1>1, RefusalPlanned DEF UserPlan, Replies
<1>2. CASE r.who # NoOne /\ r.key = NoKey
    BY <1>2, RefusalPlanned DEF UserPlan, Replies
<1>3. CASE r.who # NoOne /\ r.key # NoKey
    <2>1. UserPlan(r, scope, late, verb) = Plan(Go, ScopesFor(scope), late, verb)
        BY <1>3 DEF UserPlan
    <2>2. ScopesFor(scope) = IF scope = "read" THEN <<"read", "write">> ELSE <<"write">>
        BY DEF ScopesFor
    <2> QED
        BY <1>3, <2>1, <2>2, SequencesDiffer DEF WellPlanned, Plan, Go
<1> QED
    BY <1>1, <1>2, <1>3

-----------------------------------------------------------------------------
(* The tools *)

\* Who may call without a key acts for nobody.
LEMMA ToolsKeyed ==
    ASSUME NEW t \in TOOLS
    PROVE  /\ t.auth = "account" \/ t.verb \notin Actors \/ t.verb = "api-accounts-create"
           /\ t.auth = "account" \/ t.verb # "api-account-close"
<1>1. CASE t \in CashTools
    BY <1>1 DEF CashTools, Tool, Actors
<1>2. CASE t \in PaymentTools
    BY <1>2 DEF PaymentTools, Tool, Actors
<1>3. CASE t \in NodeTools
    BY <1>3 DEF NodeTools, Tool, Actors
<1>4. CASE t \in StatusTools
    BY <1>4 DEF StatusTools, Tool, Actors
<1>5. CASE t \in TransferTools
    BY <1>5 DEF TransferTools, Tool, Actors
<1> QED
    BY <1>1, <1>2, <1>3, <1>4, <1>5 DEF TOOLS

LEMMA ToolPlanned ==
    ASSUME NEW r, r.ep = "mcp"
    PROVE  WellPlanned(r, ToolPlan(r))
<1>1. CASE \A t \in TOOLS : t.name # r.item
    BY <1>1, RefusalPlanned DEF ToolPlan, Replies
<1>2. CASE \E t \in TOOLS : t.name = r.item
    <2> DEFINE t == ToolNamed(r.item)
               late == ArgRefusal(r, t)
    <2>1. t \in TOOLS
        BY <1>2 DEF ToolNamed
    <2>2. late \in Lates
        BY DEF ArgRefusal, Lates
    <2>3. ToolPlan(r) = IF t.auth = "account" THEN AccountPlan(r, late, t.verb)
                        ELSE Plan(Go, <<>>, late, t.verb)
        BY <1>2 DEF ToolPlan
    <2> HIDE DEF t, late
    <2>4. CASE t.auth = "account"
        BY <2>1, <2>2, <2>3, <2>4, ToolsKeyed, AccountPlanned
    <2>5. CASE t.auth # "account"
        BY <2>1, <2>2, <2>3, <2>5, ToolsKeyed, OpenPlanned
    <2> QED
        BY <2>4, <2>5
<1> QED
    BY <1>1, <1>2

LEMMA ResourcePlanned ==
    ASSUME NEW r, r.ep = "mcp"
    PROVE  WellPlanned(r, ResourcePlan(r))
<1>1. WellPlanned(r, Open("api-node-info")) /\ WellPlanned(r, Open("api-node-health"))
    BY OpenPlanned DEF Open, Actors, Lates
<1>2. WellPlanned(r, Refuse("-32602"))
    BY RefusalPlanned DEF Replies
<1>3. /\ WellPlanned(r, AccountPlan(r, Go, "api-account-balance"))
      /\ WellPlanned(r, AccountPlan(r, Go, "api-account-topup"))
      /\ WellPlanned(r, AccountPlan(r, Go, "api-account-history"))
    BY AccountPlanned DEF Lates
<1> QED
    BY <1>1, <1>2, <1>3 DEF ResourcePlan, RESOURCES

LEMMA McpPlanned ==
    ASSUME NEW r, r.ep = "mcp"
    PROVE  WellPlanned(r, McpPlan(r))
<1>1. \A reply \in {"405", "400", "-32600", "-32601", "result", "204"} : WellPlanned(r, Refuse(reply))
    BY RefusalPlanned DEF Replies
<1>2. WellPlanned(r, HANDLERS(r))
    BY <1>1, ToolPlanned, ResourcePlanned DEF HANDLERS
<1> QED
    BY <1>1, <1>2 DEF McpPlan

-----------------------------------------------------------------------------
(* Every request *)

LEMMA FirstApiPlanned ==
    ASSUME NEW r, r.ep \in FirstApi, r.body \in Bodies
    PROVE  WellPlanned(r, PlanOf(r))
<1>1. BodyRefusal(r) \in Lates /\ Go \in Lates
    BY DEF BodyRefusal, Lates, Bodies
<1>2. CASE r.ep = "send"
    BY <1>1, <1>2, UserPlanned DEF PlanOf, SendPlan
<1>3. CASE r.ep = "recv"
    BY <1>1, <1>3, UserPlanned DEF PlanOf, RecvPlan
<1>4. CASE r.ep = "balance"
    <2>1. "api-balance" \notin Actors
        BY DEF Actors
    <2> QED
        BY <1>1, <1>4, <2>1, UserPlanned DEF PlanOf, BalancePlan
<1> QED
    BY <1>2, <1>3, <1>4 DEF FirstApi

LEMMA PublicPlanned ==
    ASSUME NEW r, r.ep \in Scripts \ (FirstApi \cup {"mcp"})
    PROVE  WellPlanned(r, PlanOf(r))
<1>1. \A reply \in {"405", "400", "401", "404", "200"} : WellPlanned(r, Refuse(reply))
    BY RefusalPlanned DEF Replies
<1>2. \A verb \in {"price", "invoice-decode", "api-node-health", "api-node-info",
                   "api-channel-list", "node-funds"} : WellPlanned(r, Open(verb))
    BY OpenPlanned DEF Open, Actors, Lates
<1>3. r.ep = "lnurlp" => WellPlanned(r, LnurlpPlan(r))
    <2>1. r.ep = "lnurlp" => WellPlanned(r, Open("api-recv"))
        BY OpenPlanned DEF Open, Lates
    <2> QED
        BY <1>1, <2>1 DEF LnurlpPlan
<1>4. /\ WellPlanned(r, PricePlan(r)) /\ WellPlanned(r, DecodePlan(r))
      /\ WellPlanned(r, HealthPlan(r)) /\ WellPlanned(r, NodePlan(r))
    BY <1>1, <1>2 DEF PricePlan, DecodePlan, HealthPlan, NodePlan, GetOnly
<1>5. WellPlanned(r, ChannelsPlan(r)) /\ WellPlanned(r, NodeFundsPlan(r))
    BY <1>1, <1>2 DEF ChannelsPlan, NodeFundsPlan, GetOnly, WithSomeBearer
<1>6. WellPlanned(r, VersionPlan(r))
    BY <1>1 DEF VersionPlan
<1> QED
    BY <1>3, <1>4, <1>5, <1>6 DEF PlanOf, Scripts, FirstApi

LEMMA AllPlanned ==
    ASSUME NEW r \in Requests
    PROVE  WellPlanned(r, PlanOf(r))
<1>1. r.ep \in Scripts /\ r.body \in Bodies
    BY RequestsAssumption DEF Scripts
<1>2. CASE r.ep = "mcp"
    BY <1>2, McpPlanned DEF PlanOf
<1>3. CASE r.ep \in FirstApi
    BY <1>1, <1>3, FirstApiPlanned
<1>4. CASE r.ep \notin FirstApi /\ r.ep # "mcp"
    BY <1>1, <1>4, PublicPlanned
<1> QED
    BY <1>2, <1>3, <1>4
-----------------------------------------------------------------------------
(* The inductive invariant, of one process and the stores *)

Past == { "late", "verb", "unkey", "reply" }
Passed(q) == q.pc \in Past \/ q.did
ChecksOf(q) == PlanOf(q.req).checks
VerbOf(q) == PlanOf(q.req).verb

\* No request can use the account's key any more, or the store kept it.
Gone(a, ks, st) == ks[<< a, "account" >>] = NoKey \/ a \in st

\* Where a process stands, and what it is about to do.
Placed(q, cl) ==
    /\ (q.pc # "idle" \/ q.did) => q.req \in Requests
    /\ q.pc = "check" => ChecksOf(q) # <<>> /\ q.try \in 1..Len(ChecksOf(q))
    /\ q.pc \in {"early", "check", "late", "verb"} => ~q.did
    /\ q.pc = "early" => q.try = 1
    /\ q.pc = "unkey" => VerbOf(q) = "api-account-close" /\ q.req.who \in cl
    /\ q.did => VerbOf(q) \in Actors
    /\ q.pc # "reply" => q.exit = "ok"

\* What it remembers of the key it offered.
Remembered(q, ks) ==
    /\ q.pc # "idle" => Matching(ks, q.req) \subseteq q.met /\ q.kept \subseteq Matching(ks, q.req)
    /\ (q.pc = "check" /\ ~q.fooled) => \A i \in 1..(q.try - 1) : ChecksOf(q)[i] \notin q.kept
    /\ (Passed(q) /\ ChecksOf(q) # <<>>) => q.met \cap Scopes(q.req) # {}

\* How it ends.
Ended(q) ==
    /\ (q.pc = "reply" /\ q.did) => q.exit # "rule"
    /\ (q.pc = "idle" /\ q.did) => q.reply \notin Refusals
    /\ (q.pc = "idle" /\ q.req # NoRequest /\ ~q.fooled /\ Scopes(q.req) \cap q.kept # {})
          => q.reply \notin {"401", "-32001"}

\* What it has to do with a closed account.
Shut(q, ks, st) ==
    /\ (q.pc = "reply" /\ q.exit = "ok" /\ VerbOf(q) = "api-account-close") => Gone(q.req.who, ks, st)
    /\ (q.pc = "idle" /\ q.reply = "result" /\ VerbOf(q) = "api-account-close") => Gone(q.req.who, ks, st)
    /\ (q.pc = "idle" /\ q.reply = "result") => q.req \in Requests
    /\ q.late => q.req.who \in Accounts /\ Gone(q.req.who, ks, st)
    /\ (q.late /\ Passed(q) /\ ChecksOf(q) = <<"account">>) => q.req.who \in st

Good(q, ks, cl, st) == Placed(q, cl) /\ Remembered(q, ks) /\ Ended(q) /\ Shut(q, ks, st)

Inv == TypeOK /\ \A p \in Procs : Good(proc[p], keys, closed, stuck)

-----------------------------------------------------------------------------
(* Requests and scopes *)

LEMMA ScopesKnown ==
    ASSUME NEW r \in Requests
    PROVE  /\ PlanOf(r).checks = <<>> => Scopes(r) = {}
           /\ PlanOf(r).checks = <<"write">> => Scopes(r) = {"write"}
           /\ PlanOf(r).checks = <<"account">> => Scopes(r) = {"account"}
           /\ PlanOf(r).checks = <<"read", "write">> => Scopes(r) = {"read", "write"}
BY DEF Scopes

LEMMA OwnersPlaced ==
    ASSUME NEW r \in Requests
    PROVE  /\ PlanOf(r).checks = <<"account">> => r.who \in Accounts
           /\ PlanOf(r).checks \in { <<"write">>, <<"read", "write">> } => r.who \in Users
           /\ \A s \in Scopes(r) : Slot(r, s) \in Slots
<1>1. WellPlanned(r, PlanOf(r))
    BY AllPlanned
<1>2. /\ r.ep = "mcp" => r.who \in Accounts \cup {NoOne}
      /\ r.ep # "mcp" => r.who \in Users \cup {NoOne}
    BY RequestsAssumption
<1>3. /\ PlanOf(r).checks = <<"account">> => r.who \in Accounts
      /\ PlanOf(r).checks \in { <<"write">>, <<"read", "write">> } => r.who \in Users
    BY <1>1, <1>2, SequencesDiffer DEF WellPlanned, FirstApi
<1> QED
    BY <1>1, <1>3, ScopesKnown DEF WellPlanned, Slot, Slots

\* A key that is found good is one that matches.
LEMMA VerifiedMatches ==
    ASSUME TypeOK, NEW p \in Procs, proc[p].req \in Requests,
           ChecksOf(proc[p]) # <<>>, proc[p].try \in 1..Len(ChecksOf(proc[p]))
    PROVE  /\ ChecksOf(proc[p])[proc[p].try] \in Scopes(proc[p].req)
           /\ Verified(p) <=> ChecksOf(proc[p])[proc[p].try] \in Matching(keys, proc[p].req)
           /\ Verified(p) => keys[Slot(proc[p].req, ChecksOf(proc[p])[proc[p].try])] # NoKey
<1>1. WellPlanned(proc[p].req, PlanOf(proc[p].req))
    BY AllPlanned
<1>2. /\ ChecksOf(proc[p])[proc[p].try] \in Scopes(proc[p].req)
      /\ ChecksOf(proc[p])[proc[p].try] \in {"read", "write", "account"}
    BY <1>1 DEF WellPlanned, Scopes, ChecksOf
<1>3. Slot(proc[p].req, ChecksOf(proc[p])[proc[p].try]) \in DOMAIN keys
    BY <1>2, OwnersPlaced DEF TypeOK
<1>4. proc[p].req.key # NoKey
    BY <1>1 DEF WellPlanned, ChecksOf
<1> QED
    BY <1>2, <1>3, <1>4 DEF Verified, Matching, ChecksOf
-----------------------------------------------------------------------------
(* Frames *)

\* The stores only close, and take no key of an account back.
LEMMA GoodStays ==
    ASSUME NEW q, NEW cl, NEW cl2, NEW st, NEW st2, Good(q, keys, cl, st),
           cl \subseteq cl2, st \subseteq st2
    PROVE  Good(q, keys, cl2, st2)
BY DEF Good, Placed, Remembered, Ended, Shut, Gone

\* A step of one process with the keys as they are.
LEMMA OneMoves ==
    ASSUME Inv, NEW p \in Procs, NEW q \in ProcState, UNCHANGED keys,
           proc' = [proc EXCEPT ![p] = q],
           closed \subseteq closed', stuck \subseteq stuck', closed' \subseteq Accounts, stuck' \subseteq closed',
           arrivals' \in 0..MaxArrivals, issues' \in 0..MaxIssues, faults' \in 0..MaxFaults,
           Good(q, keys, closed', stuck')
    PROVE  Inv'
<1>1. TypeOK'
    BY DEF Inv, TypeOK
<1>2. \A x \in Procs : Good(proc'[x], keys', closed', stuck')
    <2> TAKE x \in Procs
    <2>1. CASE x = p
        BY <2>1 DEF Inv, TypeOK
    <2>2. CASE x # p
        <3>1. proc'[x] = proc[x]
            BY <2>2 DEF Inv, TypeOK
        <3> QED
            BY <3>1, GoodStays DEF Inv
    <2> QED
        BY <2>1, <2>2
<1> QED
    BY <1>1, <1>2 DEF Inv

\* The answer of a process: what must be known of it to answer.
Answer(q, reply) == [q EXCEPT !.pc = "idle", !.reply = reply, !.try = 1, !.exit = "ok"]

LEMMA Answered ==
    ASSUME NEW q \in ProcState, Good(q, keys, closed, stuck), NEW reply \in Replies, q.pc # "idle",
           q.did => reply \notin Refusals,
           reply \in {"401", "-32001"} => q.fooled \/ Scopes(q.req) \cap q.kept = {},
           (reply = "result" /\ VerbOf(q) = "api-account-close") => Gone(q.req.who, keys, stuck)
    PROVE  Answer(q, reply) \in ProcState /\ Good(Answer(q, reply), keys, closed, stuck)
<1> DEFINE a == Answer(q, reply)
<1>1. q \in ProcState /\ Good(q, keys, closed, stuck)
    OBVIOUS
<1>2. a \in ProcState
    <2> DEFINE b == [q EXCEPT !.pc = "idle"]
               c == [b EXCEPT !.reply = reply]
               d == [c EXCEPT !.try = 1]
    <2>1. a = [d EXCEPT !.exit = "ok"]
        BY DEF Answer
    <2>2. b \in ProcState
        BY <1>1 DEF ProcState
    <2> HIDE DEF b
    <2>3. c \in ProcState
        BY <2>2 DEF ProcState
    <2> HIDE DEF c
    <2>4. d \in ProcState
        BY <2>3 DEF ProcState
    <2> HIDE DEF d
    <2> QED
        BY <2>1, <2>4 DEF ProcState, Exits
<1>3. /\ a.pc = "idle" /\ a.reply = reply /\ a.req = q.req /\ a.met = q.met /\ a.kept = q.kept
      /\ a.fooled = q.fooled /\ a.late = q.late /\ a.did = q.did /\ a.exit = "ok"
    BY <1>1 DEF Answer, ProcState
<1>4. q.req \in Requests /\ (q.did => Passed(q))
    BY <1>1 DEF Good, Placed, Passed
<1> HIDE DEF a
<1>5. Placed(a, closed)
    BY <1>1, <1>3, <1>4 DEF Good, Placed, VerbOf
<1>6. Remembered(a, keys)
    BY <1>1, <1>3, <1>4 DEF Good, Remembered, Passed, Past, ChecksOf
<1>7. Ended(a)
    BY <1>3 DEF Ended
<1>8. Shut(a, keys, stuck)
    BY <1>1, <1>3, <1>4 DEF Good, Shut, Passed, Past, ChecksOf, VerbOf
<1> QED
    BY <1>2, <1>5, <1>6, <1>7, <1>8 DEF Good, a

LEMMA RespondAnswers ==
    ASSUME Inv, NEW p \in Procs, NEW reply
    PROVE  Respond(p, reply) = [proc EXCEPT ![p] = Answer(proc[p], reply)]
<1>1. proc[p] \in ProcState
    BY DEF Inv, TypeOK
<1> QED
    BY <1>1 DEF Respond, Answer

-----------------------------------------------------------------------------
(* Steps *)

LEMMA ArriveKeeps ==
    ASSUME Inv, NEW p \in Procs, Arrive(p)
    PROVE  Inv'
<1>1. PICK r \in Requests :
          /\ arrivals < MaxArrivals /\ arrivals' = arrivals + 1
          /\ proc' = [proc EXCEPT ![p] =
                  [Idle EXCEPT !.pc = "early", !.req = r,
                               !.met = Matching(keys, r), !.kept = Matching(keys, r),
                               !.late = ClosingAnswered(r.who)]]
    BY DEF Arrive
<1> DEFINE m == Matching(keys, r)
           l == ClosingAnswered(r.who)
           q == [pc |-> "early", req |-> r, try |-> 1, exit |-> "ok", reply |-> NoOne, met |-> m,
                 kept |-> m, fooled |-> FALSE, late |-> l, did |-> FALSE]
<1>2. m \in SUBSET {"read", "write", "account"} /\ l \in BOOLEAN
    BY DEF Matching, ClosingAnswered
<1>3. l => r.who \in Accounts /\ Gone(r.who, keys, stuck)
    <2> SUFFICES ASSUME l PROVE r.who \in Accounts /\ Gone(r.who, keys, stuck)
        OBVIOUS
    <2>1. PICK x \in Procs : /\ proc[x].pc = "idle" /\ proc[x].reply = "result"
                             /\ Closes(x) /\ proc[x].req.who = r.who
        BY DEF ClosingAnswered
    <2>2. Good(proc[x], keys, closed, stuck)
        BY DEF Inv
    <2>3. VerbOf(proc[x]) = "api-account-close" /\ proc[x].req \in Requests
        BY <2>1, <2>2 DEF Closes, Verb, VerbOf, Good, Shut
    <2>4. proc[x].req.who \in Accounts
        BY <2>3, AllPlanned, OwnersPlaced DEF WellPlanned, VerbOf
    <2> QED
        BY <2>1, <2>2, <2>3, <2>4 DEF Good, Shut
<1> HIDE DEF l, m
<1>4. q \in ProcState
    BY <1>2 DEF ProcState, Exits
<1>5. /\ q.pc = "early" /\ q.req = r /\ q.try = 1 /\ q.met = m /\ q.kept = m /\ q.late = l /\ ~q.did
      /\ q.exit = "ok"
    OBVIOUS
<1> HIDE DEF q
<1>6. Good(q, keys, closed, stuck)
    BY <1>3, <1>5 DEF Good, Placed, Remembered, Ended, Shut, Passed, Past, m
<1>7. proc' = [proc EXCEPT ![p] = q] /\ UNCHANGED << keys, closed, stuck, issues, faults >>
    BY <1>1 DEF q, m, l, Arrive, Idle
<1>8. arrivals' \in 0..MaxArrivals
    BY <1>1, BoundsAssumption DEF Inv, TypeOK
<1> QED
    BY <1>4, <1>6, <1>7, <1>8, OneMoves DEF Inv, TypeOK

LEMMA EarlyKeeps ==
    ASSUME Inv, NEW p \in Procs, Early(p)
    PROVE  Inv'
<1> DEFINE q == proc[p]
           plan == PlanOf(q.req)
<1>1. /\ q \in ProcState /\ Good(q, keys, closed, stuck) /\ q.pc = "early"
      /\ q.req \in Requests /\ ~q.did
    BY DEF Inv, TypeOK, Early, Good, Placed
<1>2. WellPlanned(q.req, plan)
    BY <1>1, AllPlanned
<1>3. CASE plan.early # Go
    <2>1. plan.early \in Replies /\ plan.checks = <<>> /\ plan.verb = "none"
        BY <1>2, <1>3 DEF WellPlanned
    <2>2. proc' = [proc EXCEPT ![p] = Answer(proc[p], plan.early)]
        BY <1>3, RespondAnswers DEF Early
    <2>3. Scopes(q.req) = {}
        BY <1>1, <2>1, ScopesKnown
    <2>4. /\ Answer(proc[p], plan.early) \in ProcState
          /\ Good(Answer(proc[p], plan.early), keys, closed, stuck)
        BY <1>1, <2>1, <2>3, Answered DEF VerbOf
    <2> QED
        BY <2>2, <2>4, OneMoves DEF Early, Inv, TypeOK
<1>4. CASE plan.early = Go
    <2> DEFINE n == [q EXCEPT !.pc = IF plan.checks = <<>> THEN "late" ELSE "check"]
    <2>1. proc' = [proc EXCEPT ![p] = n]
        BY <1>4 DEF Early
    <2>2. n \in ProcState
        BY <1>1 DEF ProcState
    <2>3. /\ n.pc = (IF plan.checks = <<>> THEN "late" ELSE "check") /\ n.req = q.req /\ n.try = q.try
          /\ n.met = q.met /\ n.kept = q.kept /\ n.fooled = q.fooled /\ n.late = q.late /\ n.did = q.did
          /\ n.exit = q.exit
        BY <1>1 DEF ProcState
    <2> HIDE DEF n
    <2>4. q.try = 1
        BY <1>1 DEF Good, Placed
    <2>5. Placed(n, closed)
        <3>1. plan.checks # <<>> => 1 \in 1..Len(plan.checks)
            BY <1>2 DEF WellPlanned
        <3> QED
            BY <1>1, <2>3, <2>4, <3>1 DEF Good, Placed, ChecksOf, VerbOf
    <2>6. Remembered(n, keys)
        BY <1>1, <2>3, <2>4 DEF Good, Remembered, Passed, Past, ChecksOf
    <2>7. Ended(n) /\ Shut(n, keys, stuck)
        BY <1>1, <2>3, SequencesDiffer DEF Good, Ended, Shut, Passed, Past, ChecksOf, VerbOf
    <2> QED
        BY <2>1, <2>2, <2>5, <2>6, <2>7, OneMoves DEF Good, Early, Inv, TypeOK
<1> QED
    BY <1>3, <1>4

\* A scope that does not match is left behind; how the key store failed is noted.
LEMMA MissKeeps ==
    ASSUME Inv, NEW p \in Procs, proc[p].pc = "check", NEW q \in ProcState,
           q.pc = "check", q.req = proc[p].req, q.try = proc[p].try, q.met = proc[p].met,
           q.kept = proc[p].kept, q.late = proc[p].late, q.did = proc[p].did, q.exit = proc[p].exit,
           q.fooled \/ (q.fooled = proc[p].fooled /\ ~Verified(p)),
           UNCHANGED << keys, closed, stuck >>,
           arrivals' \in 0..MaxArrivals, issues' \in 0..MaxIssues, faults' \in 0..MaxFaults,
           \/ /\ q.try < Len(ChecksOf(q))
              /\ proc' = [proc EXCEPT ![p] = [q EXCEPT !.try = @ + 1]]
           \/ /\ q.try >= Len(ChecksOf(q))
              /\ proc' = [proc EXCEPT ![p] = Answer(q, Denied(q.req))]
    PROVE  Inv'
<1>1. /\ proc[p] \in ProcState /\ Good(proc[p], keys, closed, stuck)
      /\ q.req \in Requests /\ ~q.did
    BY DEF Inv, TypeOK, Good, Placed
<1>2. /\ WellPlanned(q.req, PlanOf(q.req))
      /\ ChecksOf(q) = ChecksOf(proc[p]) /\ ChecksOf(q) # <<>> /\ q.try \in 1..Len(ChecksOf(q))
    BY <1>1, AllPlanned DEF Good, Placed, ChecksOf
<1>3. /\ Len(ChecksOf(q)) \in {1, 2}
      /\ \A s \in Scopes(q.req) : \E i \in 1..Len(ChecksOf(q)) : s = ChecksOf(q)[i]
    BY <1>2 DEF WellPlanned, ChecksOf, Scopes
<1>4. ~q.fooled => \A i \in 1..q.try : ChecksOf(q)[i] \notin q.kept
    <2> SUFFICES ASSUME ~q.fooled, NEW i \in 1..q.try
                 PROVE  ChecksOf(q)[i] \notin q.kept
        OBVIOUS
    <2>1. CASE i = q.try
        <3>1. ChecksOf(q)[q.try] \notin Matching(keys, q.req)
            BY <1>1, <1>2, VerifiedMatches DEF Inv
        <3> QED
            BY <1>1, <2>1, <3>1 DEF Good, Remembered
    <2>2. CASE i # q.try
        <3>1. i \in 1..(proc[p].try - 1) /\ ~proc[p].fooled
            BY <1>2, <1>3, <2>2
        <3> QED
            BY <1>1, <1>2, <3>1 DEF Good, Remembered
    <2> QED
        BY <2>1, <2>2
<1>5. Good(q, keys, closed, stuck)
    <2>1. Placed(q, closed)
        BY <1>1, <1>2 DEF Good, Placed, ChecksOf, VerbOf
    <2>2. Remembered(q, keys)
        BY <1>1, <1>2, <1>3, <1>4 DEF Good, Remembered, Passed, Past, ChecksOf
    <2>3. Ended(q) /\ Shut(q, keys, stuck)
        BY <1>1, <1>2 DEF Good, Ended, Shut, Passed, Past, ChecksOf, VerbOf
    <2> QED
        BY <2>1, <2>2, <2>3 DEF Good
<1>6. CASE q.try < Len(ChecksOf(q)) /\ proc' = [proc EXCEPT ![p] = [q EXCEPT !.try = @ + 1]]
    <2> DEFINE n == [q EXCEPT !.try = @ + 1]
    <2>1. q.try + 1 \in 1..2 /\ q.try + 1 \in 1..Len(ChecksOf(q)) /\ q.try \in 1..2
        <3> DEFINE len == Len(ChecksOf(q))
        <3>1. q.try \in 1..len /\ len \in {1, 2} /\ q.try < len
            BY <1>2, <1>3, <1>6
        <3> HIDE DEF len
        <3>2. q.try + 1 \in 1..2 /\ q.try + 1 \in 1..len /\ q.try \in 1..2
            BY <3>1
        <3> QED
            BY <3>2 DEF len
    <2>2. n \in ProcState
        BY <2>1 DEF ProcState
    <2>3. /\ n.pc = "check" /\ n.req = q.req /\ n.try = q.try + 1 /\ n.met = q.met /\ n.kept = q.kept
          /\ n.fooled = q.fooled /\ n.late = q.late /\ n.did = q.did /\ n.exit = q.exit
        BY DEF ProcState
    <2> HIDE DEF n
    <2>4. Placed(n, closed)
        BY <1>1, <1>2, <1>5, <2>1, <2>3 DEF Good, Placed, ChecksOf, VerbOf
    <2>5. Remembered(n, keys)
        <3>1. \A i \in 1..(n.try - 1) : i \in 1..q.try
            BY <2>1, <2>3
        <3> QED
            BY <1>1, <1>4, <1>5, <2>3, <3>1 DEF Good, Remembered, Passed, Past, ChecksOf
    <2>6. Ended(n) /\ Shut(n, keys, stuck)
        BY <1>1, <1>5, <2>3 DEF Good, Ended, Shut, Passed, Past, ChecksOf, VerbOf
    <2> QED
        BY <1>6, <2>2, <2>4, <2>5, <2>6, OneMoves DEF Good, n, Inv, TypeOK
<1>7. CASE q.try >= Len(ChecksOf(q)) /\ proc' = [proc EXCEPT ![p] = Answer(q, Denied(q.req))]
    <2>1. Denied(q.req) \in {"401", "-32001"}
        BY DEF Denied
    <2>2. q.fooled \/ Scopes(q.req) \cap q.kept = {}
        <3>1. \A i \in 1..Len(ChecksOf(q)) : i \in 1..q.try
            BY <1>2, <1>3, <1>7
        <3> QED
            BY <1>3, <1>4, <3>1
    <2>3. Denied(q.req) \in Replies /\ Denied(q.req) # "result"
        BY <2>1 DEF Replies
    <2>4. Answer(q, Denied(q.req)) \in ProcState /\ Good(Answer(q, Denied(q.req)), keys, closed, stuck)
        BY <1>1, <1>5, <2>2, <2>3, Answered
    <2> QED
        BY <1>7, <2>4, OneMoves DEF Inv, TypeOK
<1> QED
    BY <1>6, <1>7

LEMMA CheckKeeps ==
    ASSUME Inv, NEW p \in Procs, Check(p)
    PROVE  Inv'
<1> DEFINE q == proc[p]
<1>1. /\ q \in ProcState /\ Good(q, keys, closed, stuck) /\ q.pc = "check"
      /\ q.req \in Requests /\ ~q.did
      /\ UNCHANGED << keys, closed, stuck, arrivals, issues, faults >>
    BY DEF Inv, TypeOK, Check, Good, Placed
<1>2. /\ WellPlanned(q.req, PlanOf(q.req))
      /\ ChecksOf(q) # <<>> /\ q.try \in 1..Len(ChecksOf(q)) /\ Len(ChecksOf(q)) \in {1, 2}
    BY <1>1, AllPlanned DEF Good, Placed, WellPlanned, ChecksOf
<1>3. CASE Verified(p)
    <2> DEFINE n == [q EXCEPT !.pc = "late"]
    <2>1. proc' = [proc EXCEPT ![p] = n]
        BY <1>3 DEF Check
    <2>2. n \in ProcState
        BY <1>1 DEF ProcState
    <2>3. /\ n.pc = "late" /\ n.req = q.req /\ n.met = q.met /\ n.kept = q.kept
          /\ n.fooled = q.fooled /\ n.late = q.late /\ n.did = q.did /\ n.exit = q.exit
        BY <1>1 DEF ProcState
    <2> HIDE DEF n
    <2>4. Placed(n, closed)
        BY <1>1, <2>3 DEF Good, Placed, ChecksOf, VerbOf
    <2>5. Remembered(n, keys)
        <3>1. Scopes(q.req) \cap q.met # {}
            BY <1>1, <1>2, <1>3, VerifiedMatches DEF Inv, Good, Remembered
        <3> QED
            BY <1>1, <2>3, <3>1 DEF Good, Remembered, Passed, Past, ChecksOf
    <2>6. (q.late /\ ChecksOf(q) = <<"account">>) => q.req.who \in stuck
        <3> SUFFICES ASSUME q.late, ChecksOf(q) = <<"account">> PROVE q.req.who \in stuck
            OBVIOUS
        <3>1. q.try = 1 /\ ChecksOf(q)[1] = "account"
            BY <1>2
        <3>2. keys[<< q.req.who, "account" >>] # NoKey
            BY <1>1, <1>2, <1>3, <3>1, VerifiedMatches DEF Inv, Slot
        <3> QED
            BY <1>1, <3>2 DEF Good, Shut, Gone
    <2>7. Ended(n) /\ Shut(n, keys, stuck)
        BY <1>1, <2>3, <2>6 DEF Good, Ended, Shut, ChecksOf, VerbOf
    <2> QED
        BY <1>1, <2>1, <2>2, <2>4, <2>5, <2>6, <2>7, OneMoves DEF Good, Inv, TypeOK
<1>4. CASE ~Verified(p)
    <2>1. \/ /\ q.try < Len(ChecksOf(q))
             /\ proc' = [proc EXCEPT ![p] = [q EXCEPT !.try = @ + 1]]
          \/ /\ q.try >= Len(ChecksOf(q))
             /\ proc' = [proc EXCEPT ![p] = Answer(q, Denied(q.req))]
        BY <1>2, <1>4, RespondAnswers DEF Check, Missed, ChecksOf
    <2> QED
        BY <1>1, <1>4, <2>1, MissKeeps DEF Inv, TypeOK
<1> QED
    BY <1>3, <1>4

LEMMA CheckFailsKeeps ==
    ASSUME Inv, NEW p \in Procs, CheckFails(p)
    PROVE  Inv'
<1> DEFINE q == [proc[p] EXCEPT !.fooled = TRUE]
<1>1. /\ proc[p] \in ProcState /\ Good(proc[p], keys, closed, stuck) /\ proc[p].pc = "check"
      /\ UNCHANGED << keys, closed, stuck, arrivals, issues >>
    BY DEF Inv, TypeOK, CheckFails
<1>2. q \in ProcState
    BY <1>1 DEF ProcState
<1>3. /\ q.pc = "check" /\ q.req = proc[p].req /\ q.try = proc[p].try /\ q.met = proc[p].met
      /\ q.kept = proc[p].kept /\ q.late = proc[p].late /\ q.did = proc[p].did /\ q.fooled
      /\ q.exit = proc[p].exit
    BY <1>1 DEF ProcState
<1>4. faults' \in 0..MaxFaults
    BY BoundsAssumption DEF CheckFails, Inv, TypeOK
<1>5. \/ /\ q.try < Len(ChecksOf(q))
         /\ proc' = [proc EXCEPT ![p] = [q EXCEPT !.try = @ + 1]]
      \/ /\ ~ (q.try < Len(ChecksOf(q)))
         /\ proc' = [proc EXCEPT ![p] = Answer(q, Denied(q.req))]
    <2>1. proc' = [Missed(p) EXCEPT ![p].fooled = TRUE] /\ p \in DOMAIN proc
        BY DEF CheckFails, Inv, TypeOK
    <2>2. CASE q.try < Len(ChecksOf(q))
        <3>1. Missed(p) = [proc EXCEPT ![p] = [proc[p] EXCEPT !.try = @ + 1]]
            BY <1>3, <2>2 DEF Missed, ChecksOf
        <3>2. [[proc[p] EXCEPT !.try = @ + 1] EXCEPT !.fooled = TRUE] = [q EXCEPT !.try = @ + 1]
            BY <1>1 DEF ProcState
        <3> QED
            BY <2>1, <2>2, <3>1, <3>2
    <2>3. CASE ~ (q.try < Len(ChecksOf(q)))
        <3>1. Missed(p) = [proc EXCEPT ![p] = Answer(proc[p], Denied(proc[p].req))]
            BY <1>3, <2>3, RespondAnswers DEF Missed, ChecksOf
        <3>2. [Answer(proc[p], Denied(q.req)) EXCEPT !.fooled = TRUE] = Answer(q, Denied(q.req))
            BY <1>1, <1>3 DEF Answer, ProcState
        <3> QED
            BY <1>3, <2>1, <2>3, <3>1, <3>2
    <2> QED
        BY <2>2, <2>3
<1> HIDE DEF q
<1>6. ~ (q.try < Len(ChecksOf(q))) => q.try >= Len(ChecksOf(q))
    <2>1. q.req \in Requests /\ q.try \in 1..2
        BY <1>1, <1>2, <1>3 DEF Good, Placed, ProcState
    <2>2. Len(ChecksOf(q)) \in 0..2
        BY <2>1, AllPlanned DEF WellPlanned, ChecksOf
    <2> QED
        BY <2>1, <2>2
<1> QED
    BY <1>1, <1>2, <1>3, <1>4, <1>5, <1>6, MissKeeps DEF Inv, TypeOK

\* Steps past the key that go on: nothing that is remembered changes.
LEMMA GoesOn ==
    ASSUME Inv, NEW p \in Procs, proc[p].pc \in Past, NEW n,
           NEW cl, NEW st, closed \subseteq cl, stuck \subseteq st,
           n.pc \in Past, n.req = proc[p].req, n.met = proc[p].met, n.kept = proc[p].kept,
           n.fooled = proc[p].fooled, n.late = proc[p].late,
           n.pc = "verb" => ~n.did,
           n.pc = "unkey" => VerbOf(n) = "api-account-close" /\ n.req.who \in cl,
           n.pc = "late" => ~n.did,
           n.did => VerbOf(n) \in Actors, n.pc = "reply" \/ n.exit = "ok",
           n.pc = "reply" /\ n.did => n.exit # "rule",
           n.pc = "reply" /\ n.exit = "ok" /\ VerbOf(n) = "api-account-close"
               => Gone(n.req.who, keys, st)
    PROVE  Good(n, keys, cl, st)
<1>1. Good(proc[p], keys, cl, st)
    BY GoodStays DEF Inv
<1>2. Passed(proc[p]) /\ n.pc \notin {"idle", "early", "check"}
    BY DEF Passed, Past
<1>3. Placed(n, cl)
    BY <1>1, <1>2 DEF Good, Placed, Past
<1>4. Remembered(n, keys)
    BY <1>1, <1>2 DEF Good, Remembered, Past, ChecksOf
<1>5. Ended(n) /\ Shut(n, keys, st)
    BY <1>1, <1>2 DEF Good, Ended, Shut, ChecksOf
<1> QED
    BY <1>3, <1>4, <1>5 DEF Good

LEMMA LateKeeps ==
    ASSUME Inv, NEW p \in Procs, Late(p)
    PROVE  Inv'
<1> DEFINE q == proc[p]
           plan == PlanOf(q.req)
<1>1. /\ q \in ProcState /\ Good(q, keys, closed, stuck) /\ q.pc = "late"
      /\ q.req \in Requests /\ ~q.did /\ q.exit = "ok"
      /\ UNCHANGED << keys, closed, stuck, arrivals, issues, faults >>
    BY DEF Inv, TypeOK, Late, Good, Placed
<1>2. CASE plan.late # Go
    <2>1. plan.late \in {"400", "500", "-32602"}
        BY <1>1, <1>2, AllPlanned DEF WellPlanned, Lates
    <2>2. plan.late \in Replies /\ plan.late \notin {"401", "-32001", "result"}
        BY <2>1 DEF Replies
    <2>3. Answer(q, plan.late) \in ProcState /\ Good(Answer(q, plan.late), keys, closed, stuck)
        BY <1>1, <2>2, Answered
    <2>4. proc' = [proc EXCEPT ![p] = Answer(q, plan.late)]
        BY <1>2, RespondAnswers DEF Late
    <2> QED
        BY <1>1, <2>3, <2>4, OneMoves DEF Inv, TypeOK
<1>3. CASE plan.late = Go
    <2> DEFINE n == [q EXCEPT !.pc = "verb"]
    <2>1. proc' = [proc EXCEPT ![p] = n]
        BY <1>3 DEF Late
    <2>2. n \in ProcState
        BY <1>1 DEF ProcState
    <2>3. /\ n.pc = "verb" /\ n.req = q.req /\ n.met = q.met /\ n.kept = q.kept
          /\ n.fooled = q.fooled /\ n.late = q.late /\ n.did = q.did /\ n.exit = q.exit
        BY <1>1 DEF ProcState
    <2> HIDE DEF n
    <2>4. Good(n, keys, closed, stuck)
        BY <1>1, <2>3, GoesOn DEF Past
    <2> QED
        BY <1>1, <2>1, <2>2, <2>4, OneMoves DEF Inv, TypeOK
<1> QED
    BY <1>2, <1>3

LEMMA RunKeeps ==
    ASSUME Inv, NEW p \in Procs, Run(p)
    PROVE  Inv'
<1> DEFINE q == proc[p]
<1>1. PICK exit \in Exits, did \in BOOLEAN :
          /\ q.pc = "verb" /\ ~Closes(p)
          /\ did => Verb(p) \in Actors /\ exit # "rule"
          /\ proc' = [proc EXCEPT ![p] = [q EXCEPT !.pc = "reply", !.exit = exit, !.did = did]]
    BY DEF Run
<1>2. q \in ProcState /\ UNCHANGED << keys, closed, stuck, arrivals, issues, faults >>
    BY DEF Inv, TypeOK, Run
<1> DEFINE a == [q EXCEPT !.pc = "reply"]
           b == [a EXCEPT !.exit = exit]
           n == [b EXCEPT !.did = did]
<1>3. proc' = [proc EXCEPT ![p] = n]
    BY <1>1
<1>4. /\ n.pc = "reply" /\ n.req = q.req /\ n.met = q.met /\ n.kept = q.kept /\ n.exit = exit
      /\ n.fooled = q.fooled /\ n.late = q.late /\ n.did = did
    BY <1>2 DEF ProcState
<1>5. a \in ProcState
    BY <1>2 DEF ProcState
<1> HIDE DEF a
<1>6. b \in ProcState
    BY <1>5 DEF ProcState
<1> HIDE DEF b
<1>7. n \in ProcState
    BY <1>6 DEF ProcState
<1> HIDE DEF n
<1>8. Good(n, keys, closed, stuck)
    BY <1>1, <1>4, GoesOn DEF Past, Closes, Verb, VerbOf
<1> QED
    BY <1>2, <1>3, <1>7, <1>8, OneMoves DEF Inv, TypeOK

LEMMA CloseKeeps ==
    ASSUME Inv, NEW p \in Procs, Close(p)
    PROVE  Inv'
<1> DEFINE q == proc[p]
           a == [q EXCEPT !.pc = "unkey"]
           n == [a EXCEPT !.did = TRUE]
<1>1. /\ q \in ProcState /\ Good(q, keys, closed, stuck) /\ q.pc = "verb" /\ q.req \in Requests
      /\ q.exit = "ok" /\ VerbOf(q) = "api-account-close" /\ closed' = closed \cup {q.req.who}
      /\ UNCHANGED << keys, stuck, arrivals, issues, faults >>
    BY DEF Inv, TypeOK, Close, Closes, Verb, VerbOf, Good, Placed
<1>2. proc' = [proc EXCEPT ![p] = n]
    BY DEF Close
<1>3. /\ n.pc = "unkey" /\ n.req = q.req /\ n.met = q.met /\ n.kept = q.kept
      /\ n.fooled = q.fooled /\ n.late = q.late /\ n.did /\ n.exit = q.exit
    BY <1>1 DEF ProcState
<1>4. a \in ProcState
    BY <1>1 DEF ProcState
<1> HIDE DEF a
<1>5. n \in ProcState
    BY <1>4 DEF ProcState
<1> HIDE DEF n
<1>6. q.req.who \in Accounts
    BY <1>1, AllPlanned, OwnersPlaced DEF WellPlanned, VerbOf
<1>7. "api-account-close" \in Actors
    BY DEF Actors
<1>8. Good(n, keys, closed', stuck')
    BY <1>1, <1>3, <1>7, GoesOn DEF Past, VerbOf
<1> QED
    BY <1>1, <1>2, <1>5, <1>6, <1>8, OneMoves DEF Inv, TypeOK

LEMMA CloseFailsKeeps ==
    ASSUME Inv, NEW p \in Procs, CloseFails(p)
    PROVE  Inv'
<1> DEFINE q == proc[p]
           a == [q EXCEPT !.pc = "reply"]
           n == [a EXCEPT !.exit = "fail"]
<1>1. /\ q \in ProcState /\ Good(q, keys, closed, stuck) /\ q.pc = "verb" /\ ~q.did
      /\ UNCHANGED << keys, closed, stuck, arrivals, issues, faults >>
    BY DEF Inv, TypeOK, CloseFails, Good, Placed
<1>2. proc' = [proc EXCEPT ![p] = n]
    BY DEF CloseFails
<1>3. /\ n.pc = "reply" /\ n.req = q.req /\ n.met = q.met /\ n.kept = q.kept /\ n.exit = "fail"
      /\ n.fooled = q.fooled /\ n.late = q.late /\ n.did = q.did
    BY <1>1 DEF ProcState
<1>4. a \in ProcState
    BY <1>1 DEF ProcState
<1> HIDE DEF a
<1>5. n \in ProcState
    BY <1>4 DEF ProcState, Exits
<1> HIDE DEF n
<1>6. Good(n, keys, closed, stuck)
    BY <1>1, <1>3, GoesOn DEF Past
<1> QED
    BY <1>1, <1>2, <1>5, <1>6, OneMoves DEF Inv, TypeOK

LEMMA UnkeyFailsKeeps ==
    ASSUME Inv, NEW p \in Procs, UnkeyFails(p)
    PROVE  Inv'
<1> DEFINE q == proc[p]
           n == [q EXCEPT !.pc = "reply"]
<1>1. /\ q \in ProcState /\ Good(q, keys, closed, stuck) /\ q.pc = "unkey"
      /\ q.req \in Requests /\ q.req.who \in closed
      /\ UNCHANGED << keys, closed, arrivals, issues >>
    BY DEF Inv, TypeOK, UnkeyFails, Good, Placed
<1>2. proc' = [proc EXCEPT ![p] = n]
    BY DEF UnkeyFails
<1>3. /\ n.pc = "reply" /\ n.req = q.req /\ n.met = q.met /\ n.kept = q.kept /\ n.exit = q.exit
      /\ n.fooled = q.fooled /\ n.late = q.late /\ n.did = q.did
    BY <1>1 DEF ProcState
<1>4. n \in ProcState
    BY <1>1 DEF ProcState
<1> HIDE DEF n
<1>5. stuck \subseteq stuck' /\ stuck' \subseteq closed' /\ Gone(q.req.who, keys, stuck')
    BY <1>1 DEF UnkeyFails, Inv, TypeOK, Gone
<1>6. faults' \in 0..MaxFaults
    BY BoundsAssumption DEF UnkeyFails, Inv, TypeOK
<1>7. q.did => VerbOf(q) \in Actors
    BY <1>1 DEF Good, Placed
<1>8. q.exit = "ok"
    BY <1>1 DEF Good, Placed
<1>9. Good(n, keys, closed', stuck')
    BY <1>1, <1>3, <1>5, <1>7, <1>8, GoesOn DEF Past, VerbOf
<1> QED
    BY <1>1, <1>2, <1>4, <1>5, <1>6, <1>9, OneMoves DEF Inv, TypeOK

LEMMA ReplyKeeps ==
    ASSUME Inv, NEW p \in Procs, Reply(p)
    PROVE  Inv'
<1> DEFINE q == proc[p]
           reply == ReplyTo(q.req, q.exit)
<1>1. /\ q \in ProcState /\ Good(q, keys, closed, stuck) /\ q.pc = "reply"
      /\ q.req \in Requests /\ q.exit \in Exits
      /\ UNCHANGED << keys, closed, stuck, arrivals, issues, faults >>
    BY DEF Inv, TypeOK, Reply, Good, Placed, ProcState
<1>2. /\ reply \in {"200", "402", "502", "503", "result", "isError", "-32000"}
      /\ reply = "402" => q.exit = "rule"
      /\ reply = "503" => q.req.ep = "health"
      /\ reply = "result" => q.exit = "ok"
    BY <1>1 DEF ReplyTo, CallVerb, CallVerbJson, Exits
<1>3. reply \in Replies /\ reply \notin {"401", "-32001"}
    BY <1>2 DEF Replies
<1>4. q.did => reply \notin Refusals
    BY <1>1, <1>2 DEF Good, Ended, Refusals
<1>5. (reply = "result" /\ VerbOf(q) = "api-account-close") => Gone(q.req.who, keys, stuck)
    BY <1>1, <1>2 DEF Good, Shut
<1> HIDE DEF reply
<1>6. Answer(q, reply) \in ProcState /\ Good(Answer(q, reply), keys, closed, stuck)
    BY <1>1, <1>3, <1>4, <1>5, Answered
<1>7. proc' = [proc EXCEPT ![p] = Answer(q, reply)]
    BY RespondAnswers DEF Reply, reply
<1> QED
    BY <1>1, <1>6, <1>7, OneMoves DEF Inv, TypeOK

-----------------------------------------------------------------------------
(* The key store changes, and with it what every process remembers *)

\* Keys of accounts are only ever taken away.
OnlyTaken(ks, ks2) ==
    \A a \in Accounts : ks2[<< a, "account" >>] \in { ks[<< a, "account" >>], NoKey }

LEMMA ShutStays ==
    ASSUME NEW q, NEW ks, NEW ks2, NEW cl, OnlyTaken(ks, ks2), Placed(q, cl), Shut(q, ks, stuck)
    PROVE  Shut(q, ks2, stuck)
<1>1. ASSUME q.req \in Requests, VerbOf(q) = "api-account-close"
      PROVE  q.req.who \in Accounts
    BY <1>1, AllPlanned, OwnersPlaced DEF WellPlanned, VerbOf
<1>2. \A a \in Accounts : Gone(a, ks, stuck) => Gone(a, ks2, stuck)
    BY DEF OnlyTaken, Gone
<1> QED
    BY <1>1, <1>2 DEF Placed, Shut

\* What a process remembers when the store becomes ks.
Recall(q, ks) ==
    [q EXCEPT !.met = @ \cup Matching(ks, q.req), !.kept = @ \cap Matching(ks, q.req)]

LEMMA RecallGood ==
    ASSUME NEW q \in ProcState, NEW ks, NEW ks2, NEW cl,
           Placed(q, cl), Remembered(q, ks), Ended(q), Shut(q, ks2, stuck), q.pc # "idle"
    PROVE  Recall(q, ks2) \in ProcState /\ Good(Recall(q, ks2), ks2, cl, stuck)
<1> DEFINE n == Recall(q, ks2)
           m == Matching(ks2, q.req)
           a == [q EXCEPT !.met = q.met \cup m]
           kept == q.kept \cap m
<1>1. m \in SUBSET {"read", "write", "account"}
    BY DEF Matching
<1>2. /\ n.pc = q.pc /\ n.req = q.req /\ n.try = q.try /\ n.exit = q.exit /\ n.met = q.met \cup m
      /\ n.kept = q.kept \cap m /\ n.fooled = q.fooled /\ n.late = q.late /\ n.did = q.did
    BY DEF Recall, ProcState
<1>3. n \in ProcState
    <2>1. n = [a EXCEPT !.kept = kept]
        BY DEF Recall
    <2> HIDE DEF m
    <2>2. q.met \cup m \in SUBSET {"read", "write", "account"} /\ kept \in SUBSET {"read", "write", "account"}
        BY <1>1 DEF ProcState
    <2>3. a \in ProcState
        BY <2>2 DEF ProcState
    <2> HIDE DEF a, kept, n
    <2> QED
        BY <2>1, <2>2, <2>3 DEF ProcState
<1> HIDE DEF n
<1>4. Placed(n, cl)
    BY <1>2 DEF Placed, ChecksOf, VerbOf
<1>5. Remembered(n, ks2)
    BY <1>2 DEF Remembered, Passed, ChecksOf
<1>6. Ended(n)
    BY <1>2 DEF Ended
<1>7. Shut(n, ks2, stuck)
    BY <1>2 DEF Shut, Passed, ChecksOf, VerbOf
<1> QED
    BY <1>3, <1>4, <1>5, <1>6, <1>7 DEF Good, n

\* The store changes, and at most one process moves with it.
LEMMA StoreMoves ==
    ASSUME Inv, NEW ks2 \in [Slots -> Keys \cup {NoKey}], keys' = ks2, OnlyTaken(keys, ks2),
           NEW procs \in [Procs -> ProcState], proc' = Witness(ks2, procs),
           \A x \in Procs : /\ Placed(procs[x], closed) /\ Remembered(procs[x], keys)
                            /\ Ended(procs[x]) /\ Shut(procs[x], ks2, stuck),
           UNCHANGED << closed, stuck >>,
           arrivals' \in 0..MaxArrivals, issues' \in 0..MaxIssues, faults' \in 0..MaxFaults
    PROVE  Inv'
<1>1. \A x \in Procs : proc'[x] \in ProcState /\ Good(proc'[x], ks2, closed, stuck)
    <2> TAKE x \in Procs
    <2>1. CASE procs[x].pc = "idle"
        <3>1. proc'[x] = procs[x]
            BY <2>1 DEF Witness
        <3> QED
            BY <2>1, <3>1 DEF Good, Remembered
    <2>2. CASE procs[x].pc # "idle"
        <3>1. proc'[x] = Recall(procs[x], ks2)
            BY <2>2 DEF Witness, Recall
        <3> QED
            BY <2>2, <3>1, RecallGood
    <2> QED
        BY <2>1, <2>2
<1>2. proc' \in [Procs -> ProcState]
    BY <1>1 DEF Witness
<1>3. TypeOK'
    BY <1>2 DEF Inv, TypeOK
<1> QED
    BY <1>1, <1>3 DEF Inv

LEMMA UnkeyKeeps ==
    ASSUME Inv, NEW p \in Procs, Unkey(p)
    PROVE  Inv'
<1> DEFINE q == proc[p]
           n == [q EXCEPT !.pc = "reply"]
           procs == [proc EXCEPT ![p].pc = "reply"]
           ks2 == Unkeyed(p)
<1>1. /\ q \in ProcState /\ Good(q, keys, closed, stuck) /\ q.pc = "unkey"
      /\ q.req \in Requests /\ VerbOf(q) = "api-account-close"
      /\ q.req.who \in Accounts /\ UNCHANGED << closed, stuck, arrivals, issues, faults >>
    <2>1. q \in ProcState /\ Good(q, keys, closed, stuck) /\ q.pc = "unkey"
        BY DEF Inv, TypeOK, Unkey
    <2>2. q.req \in Requests /\ VerbOf(q) = "api-account-close"
        BY <2>1 DEF Good, Placed
    <2> QED
        BY <2>1, <2>2, AllPlanned, OwnersPlaced DEF WellPlanned, VerbOf, Unkey
<1>2. /\ ks2 \in [Slots -> Keys \cup {NoKey}] /\ OnlyTaken(keys, ks2)
      /\ ks2[<< q.req.who, "account" >>] = NoKey
    BY <1>1 DEF Unkeyed, Inv, TypeOK, Slots, OnlyTaken
<1>3. /\ n \in ProcState /\ n.pc = "reply" /\ n.req = q.req /\ n.met = q.met /\ n.kept = q.kept
      /\ n.exit = q.exit /\ n.fooled = q.fooled /\ n.late = q.late /\ n.did = q.did
    BY <1>1 DEF ProcState
<1>4. procs \in [Procs -> ProcState] /\ procs[p] = n /\ \A x \in Procs \ {p} : procs[x] = proc[x]
    BY <1>3 DEF Inv, TypeOK
<1>5. keys' = ks2 /\ proc' = Witness(ks2, procs)
    BY DEF Unkey
<1> HIDE DEF n, procs, ks2
<1>6. \A x \in Procs : /\ Placed(proc[x], closed) /\ Remembered(proc[x], keys)
                       /\ Ended(proc[x]) /\ Shut(proc[x], ks2, stuck)
    BY <1>2, ShutStays DEF Inv, Good
<1>7. Placed(n, closed) /\ Remembered(n, keys) /\ Ended(n) /\ Shut(n, ks2, stuck)
    <2>1. Placed(n, closed)
        BY <1>1, <1>3 DEF Good, Placed, VerbOf
    <2>2. Remembered(n, keys)
        BY <1>1, <1>3 DEF Good, Remembered, Passed, Past, ChecksOf
    <2>3. Ended(n)
        BY <1>1, <1>3 DEF Good, Placed, Ended
    <2>4. Shut(n, ks2, stuck)
        BY <1>1, <1>2, <1>3, <1>6 DEF Shut, Passed, Past, ChecksOf, VerbOf, Gone
    <2> QED
        BY <2>1, <2>2, <2>3, <2>4
<1>8. \A x \in Procs : /\ Placed(procs[x], closed) /\ Remembered(procs[x], keys)
                       /\ Ended(procs[x]) /\ Shut(procs[x], ks2, stuck)
    BY <1>4, <1>6, <1>7
<1> QED
    BY <1>1, <1>2, <1>4, <1>5, <1>8, StoreMoves DEF Inv, TypeOK

LEMMA IssueKeeps ==
    ASSUME Inv, Issue
    PROVE  Inv'
<1>1. PICK u \in Users, s \in {"read", "write"}, k \in Keys \cup {NoKey} :
          keys' = [keys EXCEPT ![<< u, s >>] = k]
    BY DEF Issue
<1>2. /\ issues' \in 0..MaxIssues /\ proc' = Witness(keys', proc)
      /\ UNCHANGED << closed, stuck, arrivals, faults >>
    BY BoundsAssumption DEF Issue, Inv, TypeOK
<1>3. /\ keys' \in [Slots -> Keys \cup {NoKey}] /\ OnlyTaken(keys, keys')
    BY <1>1 DEF Inv, TypeOK, Slots, OnlyTaken
<1>4. \A x \in Procs : /\ Placed(proc[x], closed) /\ Remembered(proc[x], keys)
                       /\ Ended(proc[x]) /\ Shut(proc[x], keys', stuck)
    BY <1>3, ShutStays DEF Inv, Good
<1> QED
    BY <1>2, <1>3, <1>4, StoreMoves DEF Inv, TypeOK

-----------------------------------------------------------------------------
(* Theorems *)

LEMMA InitInv ==
    ASSUME Init
    PROVE  Inv
<1>1. Idle \in ProcState /\ \A p \in Procs : proc[p] = Idle
    BY DEF Init, Idle, ProcState, Exits
<1>2. TypeOK
    BY <1>1, BoundsAssumption DEF Init, TypeOK
<1>3. /\ Idle.pc = "idle" /\ ~Idle.did /\ Idle.req = NoRequest /\ Idle.reply = NoOne
      /\ ~Idle.late /\ Idle.exit = "ok"
    BY DEF Idle
<1>4. Good(Idle, keys, closed, stuck)
    BY <1>3 DEF Good, Placed, Remembered, Ended, Shut, Passed, Past, NoOne
<1> QED
    BY <1>1, <1>2, <1>4 DEF Inv

LEMMA NextInv ==
    ASSUME Inv, [Next]_vars
    PROVE  Inv'
<1>1. ASSUME NEW p \in Procs, Step(p)
      PROVE  Inv'
    <2>1. CASE Early(p)
        BY <2>1, EarlyKeeps
    <2>2. CASE Check(p)
        BY <2>2, CheckKeeps
    <2>3. CASE Late(p)
        BY <2>3, LateKeeps
    <2>4. CASE Run(p)
        BY <2>4, RunKeeps
    <2>5. CASE Close(p)
        BY <2>5, CloseKeeps
    <2>6. CASE CloseFails(p)
        BY <2>6, CloseFailsKeeps
    <2>7. CASE Unkey(p)
        BY <2>7, UnkeyKeeps
    <2>8. CASE Reply(p)
        BY <2>8, ReplyKeeps
    <2> QED
        BY <1>1, <2>1, <2>2, <2>3, <2>4, <2>5, <2>6, <2>7, <2>8 DEF Step
<1>2. ASSUME NEW p \in Procs, Arrive(p) \/ CheckFails(p) \/ UnkeyFails(p)
      PROVE  Inv'
    BY <1>2, ArriveKeeps, CheckFailsKeeps, UnkeyFailsKeeps
<1>3. CASE Issue
    BY <1>3, IssueKeeps
<1>4. CASE UNCHANGED vars
    <2>1. TypeOK'
        BY <1>4 DEF vars, Inv, TypeOK
    <2> QED
        BY <1>4, <2>1 DEF vars, Inv
<1> QED
    BY <1>1, <1>2, <1>3, <1>4 DEF Next

\* In every reachable state each process is where its plan takes it, remembers the
\* key it offered, and a closed account that was answered has lost its key.
THEOREM GatewayInvariant == Spec => []Inv
<1>1. Init => Inv
    BY InitInv
<1>2. Inv /\ [Next]_vars => Inv'
    BY NextInv
<1> QED
    BY <1>1, <1>2, PTL DEF Spec

\* What a process that did something for an owner must have offered.
LEMMA DoersKeyed ==
    ASSUME Inv, NEW p \in Procs, proc[p].did, OwnersOnly(proc[p].req)
    PROVE  /\ Good(proc[p], keys, closed, stuck) /\ proc[p].req \in Requests
           /\ ChecksOf(proc[p]) \in { <<"write">>, <<"account">> }
<1>1. Good(proc[p], keys, closed, stuck)
    BY DEF Inv
<1>2. proc[p].req \in Requests /\ VerbOf(proc[p]) \in Actors
    BY <1>1 DEF Good, Placed
<1> QED
    BY <1>1, <1>2, AllPlanned DEF WellPlanned, OwnersOnly, VerbOf, ChecksOf

\* What changes something of a user or an account is done for requests that
\* offered the owner's key, however keys are issued, revoked and accounts closed
\* between the comparison and the verb.
THEOREM OnlyKeyHolders == Spec => []OnlyKeyHoldersAct
<1>1. Inv => OnlyKeyHoldersAct
    <2> SUFFICES ASSUME Inv, NEW p \in Procs, proc[p].did, OwnersOnly(proc[p].req)
                 PROVE  proc[p].met \cap {"write", "account"} # {}
        BY DEF OnlyKeyHoldersAct
    <2>1. proc[p].met \cap Scopes(proc[p].req) # {}
        BY DoersKeyed, SequencesDiffer DEF Good, Remembered, Passed
    <2> QED
        BY <2>1, DoersKeyed, ScopesKnown DEF ChecksOf
<1> QED
    BY <1>1, GatewayInvariant, PTL

\* Who offers a good key throughout is not refused for it, whichever of the scopes
\* it opens and in whatever order they are tried.
THEOREM HoldersServed == Spec => []KeyHolderServed
<1>1. Inv => KeyHolderServed
    BY DEF Inv, Good, Ended, KeyHolderServed
<1> QED
    BY <1>1, GatewayInvariant, PTL

\* A refusal says that nothing was done.
THEOREM RefusalsInnocent == Spec => []RefusedUntouched
<1>1. Inv => RefusedUntouched
    BY DEF Inv, Good, Ended, RefusedUntouched
<1> QED
    BY <1>1, GatewayInvariant, PTL

\* After a closing was answered nothing is done for the address, unless the store
\* kept its key.
THEOREM ClosedForGood == Spec => []ClosedStaysClosed
<1>1. Inv => ClosedStaysClosed
    <2> SUFFICES ASSUME Inv, NEW p \in Procs, proc[p].did, proc[p].late, OwnersOnly(proc[p].req)
                 PROVE  proc[p].req.who \in stuck
        BY DEF ClosedStaysClosed
    <2>1. proc[p].req.who \in Accounts
        BY DoersKeyed DEF Good, Shut
    <2>2. ChecksOf(proc[p]) = <<"account">>
        BY <2>1, DoersKeyed, OwnersPlaced, NoOneAssumption DEF ChecksOf
    <2> QED
        BY <2>2, DoersKeyed DEF Good, Shut, Passed
<1> QED
    BY <1>1, GatewayInvariant, PTL

-----------------------------------------------------------------------------
(* The index of liquidity offers *)

\* The clock only runs on.
LEMMA ClockRuns == now \in Nat /\ [IndexNext]_indexVars => now' \in Nat
<1> SUFFICES ASSUME now \in Nat, [IndexNext]_indexVars PROVE now' \in Nat
    OBVIOUS
<1>1. 0..Longest \subseteq Nat /\ 1..Longest \subseteq Nat
    BY TimeAssumption
<1>2. ASSUME NEW d \in Nat, now' = now + d PROVE now' \in Nat
    BY <1>2
<1>3. CASE Start \/ OutOfTime \/ Rank \/ UNCHANGED indexVars
    BY <1>3 DEF Start, OutOfTime, Rank, indexVars
<1>4. CASE Connect
    BY <1>1, <1>2, <1>4 DEF Connect
<1>5. CASE Send
    BY <1>1, <1>2, <1>5 DEF Send
<1>6. CASE ReadEvent
    <2>1. \E d \in 1..Longest : now' = now + d
        BY <1>6 DEF ReadEvent
    <2> QED
        BY <1>1, <1>2, <2>1
<1>7. CASE ReadOther
    BY <1>1, <1>2, <1>7 DEF ReadOther
<1>8. CASE ReadLast
    BY <1>1, <1>2, <1>8 DEF ReadLast
<1>9. CASE CloseSocket
    BY <1>1, <1>2, <1>9 DEF CloseSocket
<1> QED
    BY <1>3, <1>4, <1>5, <1>6, <1>7, <1>8, <1>9 DEF IndexNext

-----------------------------------------------------------------------------
(* The order of the offers *)

Rows == results \in Seq(Offers)

LEMMA RowsFinite ==
    ASSUME Rows
    PROVE  /\ DOMAIN results = 1..Len(results) /\ Len(results) \in Nat
           /\ IsFiniteSet(DOMAIN results)
           /\ \A i \in DOMAIN results : results[i].cost \in Int
<1>1. DOMAIN results = 1..Len(results) /\ Len(results) \in Nat
    BY DEF Rows
<1>2. \A i \in DOMAIN results : results[i] \in Offers
    BY <1>1 DEF Rows
<1>3. \A i \in DOMAIN results : results[i].cost \in Int
    BY <1>2 DEF Offers
<1> QED
    BY <1>1, <1>3, FS_Interval

\* To be ahead is a strict total order: the sort has one outcome.
LEMMA AheadOrders ==
    ASSUME Rows
    PROVE  /\ \A i \in DOMAIN results : ~Ahead(i, i)
           /\ \A i, j \in DOMAIN results : i # j => Ahead(i, j) \/ Ahead(j, i)
           /\ \A i, j, k \in DOMAIN results :
                 Ahead(i, j) /\ Ahead(j, k) => Ahead(i, k)
<1>1. /\ \A i \in DOMAIN results : i \in Int
      /\ \A i \in DOMAIN results : results[i].cost \in Int
    BY RowsFinite
<1>2. \A o : Group(o) \in Int
    BY DEF Group
<1> QED
    BY <1>1, <1>2 DEF Ahead, Better

\* Of two offers the one ahead has the lower place.
LEMMA PlaceGrows ==
    ASSUME Rows, NEW K \in SUBSET DOMAIN results, NEW i \in K, NEW j \in K, Ahead(i, j)
    PROVE  Place(K, i) < Place(K, j)
<1> DEFINE Before(x) == { y \in K : Ahead(y, x) }
<1>1. IsFiniteSet(Before(j))
    BY RowsFinite, FS_Subset
<1>2. Before(i) \in SUBSET Before(j) /\ Before(i) # Before(j)
    BY AheadOrders
<1>3. /\ Cardinality(Before(j)) \in Nat /\ Cardinality(Before(i)) \in Nat
      /\ Cardinality(Before(i)) <= Cardinality(Before(j))
      /\ Cardinality(Before(i)) # Cardinality(Before(j))
    BY <1>1, <1>2, FS_Subset, FS_CardinalityType
<1>4. Place(K, i) = Cardinality(Before(i)) /\ Place(K, j) = Cardinality(Before(j))
    BY DEF Place
<1> QED
    BY <1>3, <1>4

LEMMA PlaceBounded ==
    ASSUME Rows, NEW K \in SUBSET DOMAIN results, NEW i \in K
    PROVE  Place(K, i) \in 0..(Cardinality(K) - 1)
<1> DEFINE Before == { y \in K : Ahead(y, i) }
<1>1. IsFiniteSet(K)
    BY RowsFinite, FS_Subset
<1>2. Before \in SUBSET K /\ Before # K
    BY AheadOrders
<1>3. /\ Cardinality(K) \in Nat /\ Cardinality(Before) \in Nat
      /\ Cardinality(Before) <= Cardinality(K) /\ Cardinality(Before) # Cardinality(K)
    BY <1>1, <1>2, FS_Subset, FS_CardinalityType
<1>4. Place(K, i) = Cardinality(Before)
    BY DEF Place
<1> QED
    BY <1>3, <1>4

\* Every place is taken, and by one offer.
LEMMA PlacesTaken ==
    ASSUME Rows, NEW K \in SUBSET DOMAIN results
    PROVE  /\ \A i, j \in K : Place(K, i) = Place(K, j) => i = j
           /\ \A k \in 1..Cardinality(K) : \E i \in K : Place(K, i) = k - 1
<1> DEFINE n == Cardinality(K)
           f == [i \in K |-> Place(K, i)]
<1>1. IsFiniteSet(K) /\ n \in Nat
    BY RowsFinite, FS_Subset, FS_CardinalityType
<1>2. \A i, j \in K : Place(K, i) = Place(K, j) => i = j
    <2> SUFFICES ASSUME NEW i \in K, NEW j \in K, Place(K, i) = Place(K, j), i # j
                 PROVE  FALSE
        OBVIOUS
    <2>1. Place(K, i) \in Int /\ Place(K, j) \in Int
        BY <1>1, PlaceBounded
    <2>2. CASE Ahead(i, j)
        BY <2>1, <2>2, PlaceGrows
    <2>3. CASE Ahead(j, i)
        BY <2>1, <2>3, PlaceGrows
    <2> QED
        BY <2>2, <2>3, AheadOrders
<1>3. f \in [K -> 0..(n - 1)]
    BY <1>1, PlaceBounded
<1>4. f \in Injection(K, 0..(n - 1))
    BY <1>2, <1>3 DEF Injection, IsInjective
<1>5. IsFiniteSet(0..(n - 1)) /\ Cardinality(0..(n - 1)) = n
    BY <1>1, FS_Interval
<1>6. f \in Surjection(K, 0..(n - 1))
    BY <1>4, <1>5, FS_Injection
<1>7. \A m \in 0..(n - 1) : \E i \in K : f[i] = m
    BY <1>6 DEF Surjection
<1>8. \A k \in 1..n : k - 1 \in 0..(n - 1)
    BY <1>1
<1> QED
    BY <1>2, <1>7, <1>8

\* The offer at a place.
At(K, k) == CHOOSE i \in K : Place(K, i) = k - 1

LEMMA AtPlace ==
    ASSUME Rows, NEW K \in SUBSET DOMAIN results, NEW k \in 1..Cardinality(K)
    PROVE  /\ At(K, k) \in K /\ Place(K, At(K, k)) = k - 1
           /\ Nth(K, k) = results[At(K, k)]
<1>1. \E i \in K : Place(K, i) = k - 1
    BY PlacesTaken
<1> QED
    BY <1>1 DEF At, Nth

LEMMA CutSound ==
    ASSUME ask.limit \in Int, MaxLimit \in Nat, NEW n \in Nat
    PROVE  /\ Cut(n) \in 0..n
           /\ ask.limit >= 0 => Cut(n) = IF n < Limit THEN n ELSE Limit
<1>1. Limit \in Int /\ (ask.limit >= 0 => Limit >= 0)
    BY DEF Limit
<1>2. CASE Limit > n
    BY <1>1, <1>2 DEF Cut
<1>3. CASE Limit \in 0..n
    BY <1>1, <1>3 DEF Cut
<1>4. CASE Limit \in (-n)..(-1)
    BY <1>1, <1>4 DEF Cut
<1>5. CASE Limit < -n
    BY <1>1, <1>5 DEF Cut
<1> QED
    BY <1>1, <1>2, <1>3, <1>4, <1>5

-----------------------------------------------------------------------------
(* What was collected of what was heard *)

\* An offer as it came is worth a row: active, not expired, and all numbers are.
Sightings == [event : Events, at : Nat]
Worth(s) == s.event.active /\ s.event.flaw = "none" /\ s.event.expires >= s.at

\* g says of each row which offer it was: the rows are those worth one, in some order.
Traces(g, rows, seen) ==
    /\ \A k, l \in DOMAIN rows : g[k] = g[l] => k = l
    /\ \A k \in DOMAIN rows : Worth(seen[g[k]]) /\ rows[k] = Row(seen[g[k]].event)
    /\ \A i \in DOMAIN seen : Worth(seen[i]) => \E k \in DOMAIN rows : g[k] = i
Traced(rows, seen) == \E g \in [DOMAIN rows -> DOMAIN seen] : Traces(g, rows, seen)

LEMMA TraceKeeps ==
    ASSUME NEW rows \in Seq(Offers), NEW seen \in Seq(Sightings), NEW s \in Sightings,
           Traced(rows, seen), ~Worth(s)
    PROVE  Traced(rows, Append(seen, s))
<1> DEFINE m == Len(seen) + 1
           seen2 == Append(seen, s)
<1>1. PICK g \in [DOMAIN rows -> DOMAIN seen] : Traces(g, rows, seen)
    BY DEF Traced
<1>2. /\ DOMAIN seen = 1..Len(seen) /\ Len(seen) \in Nat
      /\ DOMAIN seen2 = 1..m /\ seen2[m] = s /\ \A i \in DOMAIN seen : seen2[i] = seen[i]
    OBVIOUS
<1> HIDE DEF m, seen2
<1>3. \A k \in DOMAIN rows : seen2[g[k]] = seen[g[k]]
    BY <1>2
<1>4. \A i \in DOMAIN seen2 : Worth(seen2[i]) => i \in DOMAIN seen /\ seen2[i] = seen[i]
    BY <1>2 DEF m
<1>5. g \in [DOMAIN rows -> DOMAIN seen2]
    BY <1>2 DEF m
<1>6. Traces(g, rows, seen2)
    BY <1>1, <1>3, <1>4 DEF Traces
<1> QED
    BY <1>5, <1>6 DEF Traced, seen2

LEMMA TraceGrows ==
    ASSUME NEW rows \in Seq(Offers), NEW seen \in Seq(Sightings), NEW s \in Sightings,
           Traced(rows, seen), Worth(s)
    PROVE  Traced(Append(rows, Row(s.event)), Append(seen, s))
<1> DEFINE m == Len(seen) + 1
           n == Len(rows) + 1
           r == Row(s.event)
           seen2 == Append(seen, s)
           rows2 == Append(rows, r)
<1>1. PICK g \in [DOMAIN rows -> DOMAIN seen] : Traces(g, rows, seen)
    BY DEF Traced
<1>2. /\ DOMAIN seen = 1..Len(seen) /\ Len(seen) \in Nat
      /\ DOMAIN seen2 = 1..m /\ seen2[m] = s /\ \A i \in DOMAIN seen : seen2[i] = seen[i]
    OBVIOUS
<1>3. /\ DOMAIN rows = 1..Len(rows) /\ Len(rows) \in Nat
      /\ DOMAIN rows2 = 1..n /\ rows2[n] = r /\ \A k \in DOMAIN rows : rows2[k] = rows[k]
    OBVIOUS
<1> DEFINE h == [k \in 1..n |-> IF k = n THEN m ELSE g[k]]
<1> HIDE DEF seen2, rows2, r
<1>4. /\ m \notin DOMAIN seen /\ m \in DOMAIN seen2 /\ n \notin DOMAIN rows /\ n \in DOMAIN rows2
      /\ \A k \in DOMAIN rows2 : k = n \/ k \in DOMAIN rows
      /\ \A i \in DOMAIN seen2 : i = m \/ i \in DOMAIN seen
      /\ DOMAIN rows \subseteq DOMAIN rows2 /\ DOMAIN seen \subseteq DOMAIN seen2
    BY <1>2, <1>3
<1>5. h[n] = m /\ \A k \in DOMAIN rows : h[k] = g[k]
    BY <1>3, <1>4
<1>6. h \in [DOMAIN rows2 -> DOMAIN seen2]
    BY <1>2, <1>3, <1>4
<1> HIDE DEF h, m, n
<1>7. \A k, l \in DOMAIN rows2 : h[k] = h[l] => k = l
    <2>1. \A k \in DOMAIN rows : h[k] \in DOMAIN seen
        BY <1>5
    <2>2. \A k, l \in DOMAIN rows : h[k] = h[l] => k = l
        BY <1>1, <1>5 DEF Traces
    <2> QED
        BY <2>1, <2>2, <1>4, <1>5
<1>8. \A k \in DOMAIN rows2 : Worth(seen2[h[k]]) /\ rows2[k] = Row(seen2[h[k]].event)
    <2> SUFFICES ASSUME NEW k \in DOMAIN rows2
                 PROVE  Worth(seen2[h[k]]) /\ rows2[k] = Row(seen2[h[k]].event)
        OBVIOUS
    <2>1. CASE k = n
        BY <2>1, <1>2, <1>3, <1>5 DEF r
    <2>2. CASE k \in DOMAIN rows
        <3>1. seen2[h[k]] = seen[g[k]] /\ rows2[k] = rows[k]
            BY <2>2, <1>2, <1>3, <1>5
        <3> QED
            BY <3>1, <2>2, <1>1 DEF Traces
    <2> QED
        BY <2>1, <2>2, <1>4
<1>9. \A i \in DOMAIN seen2 : Worth(seen2[i]) => \E k \in DOMAIN rows2 : h[k] = i
    <2> SUFFICES ASSUME NEW i \in DOMAIN seen2, Worth(seen2[i])
                 PROVE  \E k \in DOMAIN rows2 : h[k] = i
        OBVIOUS
    <2>1. CASE i = m
        BY <2>1, <1>4, <1>5
    <2>2. CASE i \in DOMAIN seen
        <3>1. PICK k \in DOMAIN rows : g[k] = i
            BY <2>2, <1>1, <1>2 DEF Traces
        <3> QED
            BY <3>1, <1>4, <1>5
    <2> QED
        BY <2>1, <2>2, <1>4
<1>10. Traces(h, rows2, seen2)
    BY <1>7, <1>8, <1>9 DEF Traces
<1> QED
    BY <1>6, <1>10 DEF Traced, seen2, rows2, r

-----------------------------------------------------------------------------
(* The invariant of the index *)

\* The rows are the worthy of what was heard, and an answer was ranked from them.
IndexInv ==
    /\ now \in Nat
    /\ pc \in {"start", "connect", "send", "loop", "close", "abort", "rank", "done"} /\ ask \in Asks
    /\ status \in {"none", "200", "405", "500", "502", "503"} /\ (pc = "done" <=> status # "none")
    /\ Rows /\ read \in Seq(Sightings)
    /\ Traced(results, read)
    /\ answer = IF status = "200" THEN Listed ELSE <<>>

LEMMA IndexInvInit == IndexInit => IndexInv
<1> SUFFICES ASSUME IndexInit PROVE IndexInv
    OBVIOUS
<1>1. now \in Nat
    BY DEF IndexInit
<1>2. results = <<>> /\ read = <<>>
    BY DEF IndexInit
<1>3. Traced(<<>>, <<>>)
    <2> DEFINE g == [k \in {} |-> 0]
    <2>1. g \in [DOMAIN <<>> -> DOMAIN <<>>] /\ DOMAIN <<>> = {}
        OBVIOUS
    <2>2. Traces(g, <<>>, <<>>)
        BY <2>1 DEF Traces
    <2> QED
        BY <2>1, <2>2 DEF Traced
<1> QED
    BY <1>1, <1>2, <1>3 DEF IndexInit, IndexInv, Rows

\* Nothing but the ranking answers offers, and nothing follows it.
LEMMA AnsweredStays == UNCHANGED << ask, results >> => Listed' = Listed
BY DEF Listed, Cut, Limit, Wanted, Passes, Nth,
       Place, Ahead, Better, Group

\* A step of the script that neither reads an offer nor ranks.
LEMMA IdleStep ==
    ASSUME IndexInv, now' \in Nat, UNCHANGED << ask, results, answer, read >>, pc # "done",
           \/ pc' \in {"connect", "send", "loop", "close", "abort", "rank"} /\ status' = status
           \/ pc' = "done" /\ status' \in {"405", "500", "502", "503"}
    PROVE  IndexInv'
<1>1. answer' = <<>> /\ status' # "200"
    BY DEF IndexInv
<1>2. Traced(results', read')
    BY DEF IndexInv
<1>3. Rows' /\ read' \in Seq(Sightings)
    BY DEF IndexInv, Rows
<1> QED
    BY <1>1, <1>2, <1>3 DEF IndexInv

LEMMA ReadStep == IndexInv /\ now' \in Nat /\ ReadEvent => IndexInv'
<1> SUFFICES ASSUME IndexInv, now' \in Nat, ReadEvent PROVE IndexInv'
    OBVIOUS
<1>1. PICK e \in Events :
          /\ read' = Append(read, [event |-> e, at |-> now'])
          /\ results' = IF Kept(e) THEN Append(results, Row(e)) ELSE results
          /\ pc' = IF Dies(e) THEN "abort" ELSE "loop"
          /\ UNCHANGED << ask, answer, status >>
    BY DEF ReadEvent
<1>2. pc = "loop" /\ status = "none" /\ answer = <<>>
    BY DEF ReadEvent, IndexInv
<1>3. pc' \in {"loop", "abort"} /\ status' = "none"
    BY <1>1, <1>2
<1> DEFINE s == [event |-> e, at |-> now']
<1>4. s \in Sightings
    BY DEF Sightings
<1>5. Kept(e) <=> Worth(s)
    BY EventAssumption DEF Kept, Dies, Fresh, Worth
<1>6. Row(e) \in Offers
    BY EventAssumption DEF Row, Offers
<1>7. Rows /\ read \in Seq(Sightings) /\ Traced(results, read)
    BY DEF IndexInv
<1>8. Traced(results', read')
    <2>1. CASE Worth(s)
        BY <2>1, <1>1, <1>4, <1>5, <1>7, TraceGrows DEF Rows
    <2>2. CASE ~Worth(s)
        BY <2>2, <1>1, <1>4, <1>5, <1>7, TraceKeeps DEF Rows
    <2> QED
        BY <2>1, <2>2
<1>9. Rows' /\ read' \in Seq(Sightings)
    BY <1>1, <1>4, <1>6, <1>7 DEF Rows
<1>10. answer' = <<>> /\ status' # "200" /\ ask' \in Asks
    BY <1>1, <1>2, <1>3 DEF IndexInv
<1> QED
    BY <1>3, <1>8, <1>9, <1>10 DEF IndexInv

LEMMA IndexStep == IndexInv /\ [IndexNext]_indexVars => IndexInv'
<1> SUFFICES ASSUME IndexInv, [IndexNext]_indexVars PROVE IndexInv'
    OBVIOUS
<1>1. now' \in Nat
    BY ClockRuns DEF IndexInv
<1>2. CASE Start
    BY <1>1, <1>2, IdleStep DEF Start, RespondWith
<1>3. CASE Connect
    BY <1>1, <1>3, IdleStep DEF Connect, RespondWith
<1>4. CASE Send
    BY <1>1, <1>4, IdleStep DEF Send
<1>5. CASE ReadEvent
    BY <1>1, <1>5, ReadStep
<1>6. CASE ReadOther
    BY <1>1, <1>6, IdleStep DEF ReadOther
<1>7. CASE ReadLast
    BY <1>1, <1>7, IdleStep DEF ReadLast
<1>8. CASE OutOfTime
    BY <1>1, <1>8, IdleStep DEF OutOfTime
<1>9. CASE Rank
    <2>1. /\ pc' = "done" /\ status' = "200" /\ answer' = Listed
          /\ UNCHANGED << ask, results, read >>
        BY <1>9 DEF Rank, RespondWith
    <2>2. answer' = Listed'
        BY <2>1, AnsweredStays
    <2>3. Traced(results', read') /\ Rows' /\ read' \in Seq(Sightings) /\ ask' \in Asks
        BY <2>1 DEF IndexInv, Rows
    <2> QED
        BY <1>1, <2>1, <2>2, <2>3 DEF IndexInv
<1>11. CASE CloseSocket
    BY <1>1, <1>11, IdleStep DEF CloseSocket, RespondWith
<1>10. CASE UNCHANGED indexVars
    <2>1. /\ UNCHANGED << pc, status, answer >> /\ UNCHANGED << ask, results, read >>
        BY <1>10 DEF indexVars
    <2>2. Listed' = Listed
        BY <2>1, AnsweredStays
    <2>3. Traced(results', read') /\ Rows' /\ read' \in Seq(Sightings) /\ ask' \in Asks
        BY <2>1 DEF IndexInv, Rows
    <2> QED
        BY <1>1, <2>1, <2>2, <2>3 DEF IndexInv
<1> QED
    BY <1>2, <1>3, <1>4, <1>5, <1>6, <1>7, <1>8, <1>9, <1>10, <1>11 DEF IndexNext

\* The rows that pass are, one for one, the eligible offers that were heard.
LEMMA WantedEligible ==
    ASSUME IndexInv, NEW g, Traces(g, results, read),
           g \in [DOMAIN results -> DOMAIN read]
    PROVE  /\ Wanted \in SUBSET DOMAIN results
           /\ \A k \in Wanted : /\ g[k] \in EligibleOnes
                                      /\ results[k] = Row(read[g[k]].event)
                                      /\ results[k].event = read[g[k]].event
           /\ \A k, l \in Wanted : g[k] = g[l] => k = l
           /\ \A i \in EligibleOnes : \E k \in Wanted : g[k] = i
<1>1. Wanted \in SUBSET DOMAIN results
    BY DEF Wanted
<1>2. \A k \in DOMAIN results : /\ Worth(read[g[k]]) /\ g[k] \in DOMAIN read
                                  /\ results[k] = Row(read[g[k]].event)
    BY DEF Traces
<1>3. \A k \in DOMAIN results : /\ results[k].event = read[g[k]].event
                                  /\ results[k].ppm = read[g[k]].event.ppm
                                  /\ results[k].min_sat = read[g[k]].event.min_sat
    BY <1>2 DEF Row
<1>4. \A k \in DOMAIN results : k \in Wanted <=> g[k] \in EligibleOnes
    BY <1>2, <1>3 DEF Worth, Wanted, Passes, EligibleOnes, Eligible
<1>5. \A i \in EligibleOnes : i \in DOMAIN read /\ Worth(read[i])
    BY DEF Worth, EligibleOnes, Eligible
<1>6. \A i \in EligibleOnes : \E k \in DOMAIN results : g[k] = i
    BY <1>5 DEF Traces
<1> QED
    BY <1>1, <1>2, <1>3, <1>4, <1>6 DEF Traces

LEMMA HeardFinite == IndexInv => IsFiniteSet(EligibleOnes)
<1> SUFFICES ASSUME IndexInv PROVE IsFiniteSet(EligibleOnes)
    OBVIOUS
<1>1. read \in Seq(Sightings)
    BY DEF IndexInv
<1>2. DOMAIN read = 1..Len(read) /\ Len(read) \in Nat
    BY <1>1
<1>3. EligibleOnes \in SUBSET DOMAIN read
    BY DEF EligibleOnes
<1>4. IsFiniteSet(DOMAIN read)
    BY <1>2, FS_Interval
<1> QED
    BY <1>3, <1>4, FS_Subset

LEMMA WantedCounted ==
    ASSUME IndexInv
    PROVE  /\ Cardinality(Wanted) \in Nat
           /\ Cardinality(Wanted) = Cardinality(EligibleOnes)
<1>1. PICK g \in [DOMAIN results -> DOMAIN read] : Traces(g, results, read)
    BY DEF IndexInv, Traced
<1> DEFINE f == [k \in Wanted |-> g[k]]
<1>2. f \in Injection(Wanted, EligibleOnes)
    BY <1>1, WantedEligible DEF Injection, IsInjective
<1>3. f \in Surjection(Wanted, EligibleOnes)
    BY <1>1, WantedEligible DEF Surjection
<1>4. IsFiniteSet(EligibleOnes)
    BY HeardFinite
<1> QED
    BY <1>2, <1>3, <1>4, FS_Injection, FS_CardinalityType

\* What was answered, place by place.
LEMMA AnsweredPlaces ==
    ASSUME IndexInv, status = "200"
    PROVE  LET W == Wanted
               c == Cut(Cardinality(W))
           IN  /\ c \in 0..Cardinality(W) /\ Cardinality(W) \in Nat
               /\ W \in SUBSET DOMAIN results
               /\ DOMAIN answer = 1..c /\ answer \in Seq(Offers) /\ Len(answer) = c
               /\ \A k \in 1..c : /\ At(W, k) \in W /\ Place(W, At(W, k)) = k - 1
                                  /\ answer[k] = results[At(W, k)]
<1> DEFINE W == Wanted
           c == Cut(Cardinality(W))
<1>1. W \in SUBSET DOMAIN results
    BY DEF Wanted
<1>2. Cardinality(W) \in Nat
    BY WantedCounted
<1>3. ask.limit \in Int /\ MaxLimit \in Nat
    BY AskAssumption, LimitAssumption DEF IndexInv
<1>4. c \in 0..Cardinality(W)
    BY <1>2, <1>3, CutSound
<1>5. answer = [k \in 1..c |-> Nth(W, k)]
    BY DEF IndexInv, Listed
<1>6. Rows
    BY DEF IndexInv
<1> HIDE DEF W, c
<1>7. \A k \in 1..c : /\ At(W, k) \in W /\ Place(W, At(W, k)) = k - 1
                      /\ Nth(W, k) = results[At(W, k)]
    BY <1>1, <1>2, <1>4, <1>6, AtPlace
<1>8. \A k \in 1..c : Nth(W, k) \in Offers
    <2>1. \A i \in DOMAIN results : results[i] \in Offers
        BY <1>6 DEF Rows
    <2> QED
        BY <2>1, <1>1, <1>7
<1>9. answer \in Seq(Offers) /\ Len(answer) = c
    BY <1>2, <1>4, <1>5, <1>8
<1> QED
    BY <1>1, <1>2, <1>4, <1>5, <1>7, <1>9 DEF W, c

-----------------------------------------------------------------------------
(* What the index answers *)

THEOREM IndexInvariant == IndexSpec => []IndexInv
<1>1. IndexInv /\ [IndexNext]_indexVars => IndexInv'
    BY IndexStep
<1> QED
    BY IndexInvInit, <1>1, PTL DEF IndexSpec

\* Every variable keeps its type: the answer is a list of rows, and the script has
\* replied when it is done and not before.
THEOREM IndexTyped == IndexSpec => []IndexTypeOK
<1>1. IndexInv => IndexTypeOK
    <2> SUFFICES ASSUME IndexInv PROVE IndexTypeOK
        OBVIOUS
    <2>1. answer \in Seq(Offers)
        <3>1. CASE status = "200"
            BY <3>1, AnsweredPlaces
        <3>2. CASE status # "200"
            BY <3>2 DEF IndexInv
        <3> QED
            BY <3>1, <3>2
    <2>2. now \in Nat /\ results \in Seq(Offers)
        BY DEF IndexInv, Rows
    <2>3. read \in Seq([event : Events, at : Nat])
        BY DEF IndexInv, Sightings
    <2> QED
        BY <2>1, <2>2, <2>3 DEF IndexInv, IndexTypeOK
<1> QED
    BY <1>1, IndexInvariant, PTL

\* Only what the relay sent in time, active, unexpired and within the bounds asked
\* for is answered, and none of it more often than it was sent.
THEOREM EligibleAnswered == IndexSpec => []OnlyEligible
<1>1. IndexInv => OnlyEligible
    <2> SUFFICES ASSUME IndexInv, status = "200", NEW e \in Events
                 PROVE  Cardinality({ k \in DOMAIN answer : answer[k].event = e })
                            <= Cardinality({ i \in EligibleOnes : read[i].event = e })
        BY DEF OnlyEligible
    <2> DEFINE S == { k \in DOMAIN answer : answer[k].event = e }
               T == { i \in EligibleOnes : read[i].event = e }
               W == Wanted
    <2>1. PICK g \in [DOMAIN results -> DOMAIN read] : Traces(g, results, read)
        BY DEF IndexInv, Traced
    <2> DEFINE f == [k \in S |-> g[At(W, k)]]
    <2>2. \A k \in S : /\ k \in Int /\ At(W, k) \in W /\ Place(W, At(W, k)) = k - 1
                       /\ results[At(W, k)].event = e
        BY AnsweredPlaces
    <2>3. /\ \A i \in W : g[i] \in EligibleOnes /\ results[i].event = read[g[i]].event
          /\ \A i, j \in W : g[i] = g[j] => i = j
        BY <2>1, WantedEligible
    <2>4. f \in [S -> T]
        BY <2>2, <2>3
    <2>5. \A k, l \in S : f[k] = f[l] => k = l
        <3> SUFFICES ASSUME NEW k \in S, NEW l \in S, g[At(W, k)] = g[At(W, l)] PROVE k = l
            OBVIOUS
        <3>1. At(W, k) = At(W, l)
            BY <2>2, <2>3
        <3>2. k - 1 = l - 1 /\ k \in Int /\ l \in Int
            BY <3>1, <2>2
        <3> QED
            BY <3>2
    <2>6. f \in Injection(S, T)
        BY <2>4, <2>5 DEF Injection, IsInjective
    <2>7. IsFiniteSet(T)
        BY HeardFinite, FS_Subset
    <2> QED
        BY <2>6, <2>7, FS_Injection
<1> QED
    BY <1>1, IndexInvariant, PTL

\* The answer is sorted, as long as the limit allows, and what was left out is no
\* better than anything in it.
THEOREM BestOnes == IndexSpec => []BestAnswered
<1>1. IndexInv => BestAnswered
    <2> SUFFICES ASSUME IndexInv, status = "200", ask.limit >= 0
                 PROVE  /\ \A i, j \in DOMAIN answer : i < j => ~Better(answer[j], answer[i])
                        /\ Len(answer) = LET n == Cardinality(EligibleOnes)
                                         IN  IF n < Limit THEN n ELSE Limit
                        /\ \A i \in EligibleOnes :
                              (\A k \in DOMAIN answer : answer[k].event # read[i].event)
                                 => \A k \in DOMAIN answer :
                                       ~Better(Row(read[i].event), answer[k])
        BY DEF BestAnswered
    <2> DEFINE W == Wanted
               c == Cut(Cardinality(W))
    <2>1. /\ c \in 0..Cardinality(W) /\ Cardinality(W) \in Nat /\ W \in SUBSET DOMAIN results
          /\ DOMAIN answer = 1..c /\ Len(answer) = c
          /\ \A k \in 1..c : /\ At(W, k) \in W /\ Place(W, At(W, k)) = k - 1
                             /\ answer[k] = results[At(W, k)]
        BY AnsweredPlaces
    <2>2. Rows /\ ask.limit \in Int /\ MaxLimit \in Nat
        BY AskAssumption, LimitAssumption DEF IndexInv
    <2>3. PICK g \in [DOMAIN results -> DOMAIN read] : Traces(g, results, read)
        BY DEF IndexInv, Traced
    <2>4. Len(answer) = IF Cardinality(W) < Limit THEN Cardinality(W) ELSE Limit
        BY <2>1, <2>2, CutSound
    <2>5. Cardinality(W) = Cardinality(EligibleOnes)
        BY WantedCounted
    <2> HIDE DEF W, c
    \* Who has the higher place is not better.
    <2>6. \A i, j \in W : Place(W, i) < Place(W, j)
                             => ~Better(results[j], results[i])
        <3> SUFFICES ASSUME NEW i \in W, NEW j \in W, Place(W, i) < Place(W, j),
                            Better(results[j], results[i])
                     PROVE  FALSE
            OBVIOUS
        <3>1. Ahead(j, i)
            BY DEF Ahead
        <3>2. Place(W, j) < Place(W, i)
            BY <3>1, <2>1, <2>2, PlaceGrows
        <3>3. Place(W, i) \in Int /\ Place(W, j) \in Int
            BY <2>1, <2>2, PlaceBounded
        <3> QED
            BY <3>2, <3>3
    <2>7. \A i, j \in DOMAIN answer : i < j => ~Better(answer[j], answer[i])
        <3> SUFFICES ASSUME NEW i \in 1..c, NEW j \in 1..c, i < j
                     PROVE  ~Better(answer[j], answer[i])
            BY <2>1
        <3>1. i - 1 < j - 1
            BY <2>1
        <3> QED
            BY <3>1, <2>1, <2>6
    <2>8. ASSUME NEW i \in EligibleOnes,
                 \A k \in DOMAIN answer : answer[k].event # read[i].event,
                 NEW k \in DOMAIN answer
          PROVE  ~Better(Row(read[i].event), answer[k])
        <3>1. PICK x \in W : /\ results[x] = Row(read[i].event)
                             /\ results[x].event = read[i].event
            BY <2>3, WantedEligible DEF W
        <3>2. Place(W, x) \in 0..(Cardinality(W) - 1)
            BY <2>1, <2>2, PlaceBounded
        <3>3. Place(W, x) >= c
            <4> SUFFICES ASSUME Place(W, x) < c PROVE FALSE
                BY <3>2, <2>1
            <4> DEFINE y == Place(W, x) + 1
            <4>1. y \in 1..c /\ y - 1 = Place(W, x)
                BY <3>2, <2>1
            <4>2. At(W, y) \in W /\ Place(W, At(W, y)) = Place(W, x)
                BY <4>1, <2>1
            <4>3. At(W, y) = x
                BY <4>2, <2>1, <2>2, PlacesTaken
            <4> QED
                BY <4>1, <4>3, <3>1, <2>1, <2>8
        <3>4. Place(W, At(W, k)) < Place(W, x)
            BY <3>2, <3>3, <2>1
        <3> QED
            BY <3>1, <3>4, <2>1, <2>6
    <2> QED
        BY <2>4, <2>5, <2>7, <2>8
<1> QED
    BY <1>1, IndexInvariant, PTL
=============================================================================
