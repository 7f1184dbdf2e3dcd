------------------------------- MODULE Invites -------------------------------
(***************************************************************************)
(* The tree of wallet users and the invite codes it grows by: requests to  *)
(* wellknown/api/users.py that register somebody or open an account, with  *)
(* api-user-create and api-accounts-create, and the operator's `lightning  *)
(* wallet user` (_wallet-user).  Every request and every command is a      *)
(* process, every sqlite3 call a transaction of its own and a step here.   *)
(* users.py asks for codes, the tree and caps by `lightning wallet-user`,  *)
(* which bin/lightning-node does not know: those requests end in 502.      *)
(* The node has a user-owned code already, so invite_codes is the table    *)
(* that cmd_invite_code_create rebuilt: it has no foreign keys.            *)
(* wallet_users is the schema's; sqlite3 checks its key only when told to. *)
(***************************************************************************)
EXTENDS Naturals, FiniteSets

CONSTANTS Procs,      \* processes
          Ids,        \* ids of wallet users, chosen by who registers
          Codes,      \* invite codes, chosen by who mints them
          NoOne, NoCode,
          Legacy,     \* owner of a code that an account minted (FEAT-218)
          Opening,    \* the users and codes at first, see OpeningAssumption
          Required,   \* require_referral is on
          MayInvite,  \* who may mint, by invite_whitelist
          Requests,   \* the requests that are made
          MaxArrivals \* bound on requests

Unlimited == Cardinality(Ids) + 1   \* max_downline IS NULL: no count passes it
Kinds == { "register", "account", "codes", "mint", "revoke", "tree", "cap", "adopt", "remove" }

ASSUME InvitesAssumption ==
    /\ NoOne \notin Ids \cup {Legacy} /\ Legacy \notin Ids /\ NoCode \notin Codes
    /\ IsFiniteSet(Ids) /\ Required \in BOOLEAN /\ MayInvite \subseteq Ids /\ MaxArrivals \in Nat
    /\ Requests \subseteq [kind : Kinds, user : Ids, code : Codes \cup {NoCode},
                          other : Ids \cup {NoOne}, max : 0..Unlimited]

\* born: when the row came, 0 for none; a referrer came before whom it referred, and
\* the users whose codes are out are there.
ASSUME OpeningAssumption ==
    /\ Opening.born \in [Ids -> Nat] /\ Opening.clock \in Nat
    /\ Opening.ref \in [Ids -> Ids \cup {NoOne}]
    /\ Opening.owner \in [Codes -> Ids \cup {Legacy, NoOne}]
    /\ \A c \in Codes : Opening.owner[c] \in Ids => Opening.born[Opening.owner[c]] # 0
    /\ \A u \in Ids : /\ Opening.born[u] <= Opening.clock
                      /\ Opening.born[u] = 0 => Opening.ref[u] = NoOne
                      /\ Opening.ref[u] # NoOne => /\ Opening.born[Opening.ref[u]] # 0
                                                   /\ Opening.born[Opening.ref[u]] < Opening.born[u]

VARIABLES
    born,    \* wallet_users: when the row of an id came, 0: there is none
    ref,     \* its referrer_user
    cap,     \* its max_downline
    owned,   \* ids that accounts name as their owner
    owner,   \* invite_codes: the owner of a code, NoOne: no such row
    uses,    \* its uses
    proc,    \* the processes
    clock, arrivals,       \* counters
    gone, back,            \* history: ids deleted, and inserted again after that
    life, referred, lost   \* history: a code's insertions, and of the last one how
                           \* many it referred and how many counts were lost

rows == << born, ref, cap >>
codes == << owner, uses >>
history == << gone, back, life, referred, lost >>
vars == << rows, owned, codes, proc, clock, arrivals, history >>

\* seen: the codes that were there at some time since the request came (history).
Idle == [pc |-> "idle", kind |-> "tree", user |-> NoOne, code |-> NoCode, other |-> NoOne,
         max |-> 0, found |-> NoOne, life |-> 0, seen |-> {}]

Init ==
    /\ born = Opening.born /\ ref = Opening.ref /\ owner = Opening.owner
    /\ cap = [u \in Ids |-> Unlimited]
    /\ owned = { u \in Ids : Opening.born[u] # 0 }
    /\ uses = [c \in Codes |-> 0]
    /\ proc = [p \in Procs |-> Idle]
    /\ clock = Opening.clock /\ arrivals = 0
    /\ gone = {} /\ back = {}
    /\ life = [c \in Codes |-> 0] /\ referred = [c \in Codes |-> 0] /\ lost = [c \in Codes |-> 0]

-----------------------------------------------------------------------------
(* The tree *)

There(u) == u \in Ids /\ born[u] # 0
Present(c) == c \in Codes /\ owner[c] # NoOne

\* anc: u and who referred it, and so on: what every set has that has u and, with a
\* user, its referrer.
Upline(u) == { a \in Ids : \A S \in SUBSET Ids :
                 (u \in S /\ \A v \in S : There(ref[v]) => ref[v] \in S) => a \in S }

\* The recursive queries join rows with UNION ALL: on a cycle they never end.
OnCycle(u) == There(ref[u]) /\ u \in Upline(ref[u])

\* all_ds: whom u brought in, and whom those did.
Downline(u) == { v \in Ids : There(v) /\ There(ref[v]) /\ u \in Upline(ref[v]) }

-----------------------------------------------------------------------------
(* Requests *)

FirstStep(kind) ==
    CASE kind \in {"register", "account"} -> "gate"
      [] kind = "codes"  -> "unknown"
      [] kind = "mint"   -> "check"
      [] kind = "revoke" -> "drop"
      [] kind = "tree"   -> "walk"
      [] OTHER           -> "look"

Arrive(p) == \E r \in Requests :
    /\ proc[p].pc = "idle" /\ arrivals < MaxArrivals
    /\ arrivals' = arrivals + 1
    /\ proc' = [proc EXCEPT ![p] =
                  [Idle EXCEPT !.pc = FirstStep(r.kind), !.kind = r.kind, !.user = r.user,
                               !.code = r.code, !.other = r.other, !.max = r.max,
                               !.seen = { c \in Codes : Present(c) }]]
    /\ UNCHANGED << rows, owned, codes, clock, history >>

\* The answer ends the process; its status is written down for the reader.
Respond(p, status) == proc' = [proc EXCEPT ![p] = Idle]
Goto(p, pc)        == proc' = [proc EXCEPT ![p].pc = pc]
Unmoved            == UNCHANGED << rows, owned, codes, clock, arrivals, history >>

\* require_referral, at registration and when an account is opened.
AdmittedAny(p) == Required => proc[p].code # NoCode  \* a slip: any code will do
Admitted(p) == Required => Present(proc[p].code)

Gate(p) ==
    /\ proc[p].pc = "gate"
    /\ IF ~Admitted(p) THEN Respond(p, IF proc[p].kind = "register" THEN "401" ELSE "400")
       ELSE Goto(p, IF proc[p].kind = "register" THEN "resolve" ELSE "open")
    /\ Unmoved

\* api-accounts-create: a compliance module may deny it, `account create` may fail,
\* and what goes wrong after it leaves an account without an owner.
Open(p) ==
    /\ proc[p].pc = "open"
    /\ Respond(p, "400, 404 or 502") \/ Goto(p, "resolve")
    /\ Unmoved

\* Whose code it is: a user's, or for an account's referrer an account's.
Names(p) ==
    /\ Present(proc[p].code)
    /\ proc[p].kind = "register" => owner[proc[p].code] # Legacy

Resolve(p) ==
    LET c == proc[p].code IN
    /\ proc[p].pc = "resolve"
    /\ proc' = [proc EXCEPT
          ![p] = IF Names(p)
                 THEN [@ EXCEPT !.found = owner[c], !.life = life[c],
                                !.pc = IF proc[p].kind = "register" THEN "bump" ELSE "stamp"]
                 ELSE [@ EXCEPT !.pc = IF proc[p].kind = "register" THEN "insert" ELSE "own"]]
    /\ Unmoved

\* A code refers somebody: the row that names it, as long as it is that row.
Referring(p) ==
    [c \in Codes |-> referred[c] + IF c = proc[p].code /\ Present(c) /\ life[c] = proc[p].life
                                      /\ proc[p].found # NoOne THEN 1 ELSE 0]

\* UPDATE accounts SET referrer.
Stamp(p) ==
    /\ proc[p].pc = "stamp"
    /\ referred' = Referring(p)
    /\ Goto(p, "bump")
    /\ UNCHANGED << rows, owned, codes, clock, arrivals, gone, back, life, lost >>

AfterBump(p) == IF proc[p].kind = "register" THEN "insert" ELSE "own"

BumpedNot(p) == uses  \* a slip: the code is not counted
Bumped(p) == [uses EXCEPT ![proc[p].code] = IF Present(proc[p].code) THEN @ + 1 ELSE @]

Bump(p) ==
    /\ proc[p].pc = "bump"
    /\ uses' = Bumped(p)
    /\ Goto(p, AfterBump(p))
    /\ UNCHANGED << rows, owned, owner, clock, arrivals, history >>

\* "|| true": a count that fails (the database is locked) is lost.
BumpFails(p) ==
    /\ proc[p].pc = "bump"
    /\ lost' = [lost EXCEPT ![proc[p].code] = @ + 1]
    /\ Goto(p, AfterBump(p))
    /\ UNCHANGED << rows, owned, codes, clock, arrivals, gone, back, life, referred >>

TakenNever(u) == FALSE  \* a slip: INSERT OR REPLACE
Taken(u) == born[u] # 0

NewRow(u, r) ==
    /\ clock' = clock + 1
    /\ born' = [born EXCEPT ![u] = clock']
    /\ ref' = [ref EXCEPT ![u] = r]
    /\ back' = back \cup ({u} \cap gone)
    /\ UNCHANGED cap

\* The user's row.  For who was referred by a user the verb then dies: it hands jq
\* the referrer's id as JSON, which it is not (--argjson ref).
Insert(p) ==
    LET u == proc[p].user IN
    /\ proc[p].pc = "insert"
    /\ IF Taken(u) THEN Respond(p, "502") /\ UNCHANGED << rows, clock, back, referred >>
       ELSE /\ NewRow(u, proc[p].found)
            /\ referred' = Referring(p)
            /\ IF proc[p].found # NoOne THEN Respond(p, "502") ELSE Goto(p, "passkey")
    /\ UNCHANGED << owned, codes, arrivals, gone, life, lost >>

\* _webauthn-verify and _session-token: the module Passkeys.
Passkey(p) ==
    /\ proc[p].pc = "passkey"
    /\ Respond(p, "200, or what the helper's exit says")
    /\ Unmoved

\* UPDATE accounts SET owner_user, whether or not that user is there.
Own(p) ==
    /\ proc[p].pc = "own"
    /\ owned' = owned \cup {proc[p].user}
    /\ Respond(p, "201")
    /\ UNCHANGED << rows, codes, clock, arrivals, history >>

\* user_invite_codes_*, user_downstream_*: "unknown command", exit 1.
Unknown(p) ==
    /\ proc[p].pc = "unknown"
    /\ Respond(p, "502, or what users.py refuses by itself")
    /\ Unmoved

-----------------------------------------------------------------------------
(* Invite codes, by the operator *)

\* cmd_invite_code_create: the user, its account and the whitelist ...
Check(p) ==
    LET u == proc[p].user IN
    /\ proc[p].pc = "check"
    /\ CASE ~There(u) \/ u \notin owned           -> Respond(p, "exit 2")
         [] There(u) /\ u \in owned /\ u \notin MayInvite -> Respond(p, "exit 6")
         [] OTHER                                 -> Goto(p, "measure")
    /\ Unmoved

Overfull(u) == \E a \in Upline(u) : There(a) /\ Cardinality(Downline(a)) + 1 > cap[a]

\* ... the caps of the user and everybody above ...
Measure(p) ==
    LET u == proc[p].user IN
    /\ proc[p].pc = "measure"
    /\ \A a \in Upline(u) : ~OnCycle(a)
    /\ IF There(u) /\ Overfull(u) THEN Respond(p, "exit 6") ELSE Goto(p, "put")
    /\ Unmoved

\* The codes that those under way have seen.
Watched(own, procs) ==
    [q \in Procs |-> IF procs[q].pc = "idle" THEN procs[q]
                     ELSE [procs[q] EXCEPT !.seen = @ \cup { c \in Codes : own[c] # NoOne }]]

\* ... and the row.
Put(p) ==
    LET c == proc[p].code IN
    /\ proc[p].pc = "put"
    /\ IF Present(c) THEN Respond(p, "exit 1") /\ UNCHANGED << owner, uses, life, referred, lost >>
       ELSE /\ owner' = [owner EXCEPT ![c] = proc[p].user]
            /\ uses' = [uses EXCEPT ![c] = 0]
            /\ life' = [life EXCEPT ![c] = @ + 1]
            /\ referred' = [referred EXCEPT ![c] = 0]
            /\ lost' = [lost EXCEPT ![c] = 0]
            /\ proc' = Watched(owner', [proc EXCEPT ![p] = Idle])
    /\ UNCHANGED << rows, owned, clock, arrivals, gone, back >>

\* cmd_invite_code_revoke: the code of anybody.
Drop(p) ==
    LET c == proc[p].code IN
    /\ proc[p].pc = "drop"
    /\ owner' = [owner EXCEPT ![c] = NoOne]
    /\ Respond(p, IF Present(c) THEN "exit 0" ELSE "exit 2")
    /\ UNCHANGED << rows, owned, uses, clock, arrivals, history >>

-----------------------------------------------------------------------------
(* The tree printed, caps, and the operator *)

\* cmd_tree.
Walk(p) ==
    /\ proc[p].pc = "walk"
    /\ ~(There(proc[p].user) /\ OnCycle(proc[p].user))
    /\ Respond(p, "exit 0")
    /\ Unmoved

RefKnown(p) == proc[p].other = NoOne \/ There(proc[p].other)

\* What cap, create and delete look up first.
Look(p) ==
    /\ proc[p].pc = "look"
    /\ CASE proc[p].kind = "cap" ->
              IF There(proc[p].user) THEN Goto(p, "limit") ELSE Respond(p, "exit 2")
         [] proc[p].kind = "adopt" ->
              IF RefKnown(p) THEN Goto(p, "adopt") ELSE Respond(p, "exit 2")
         [] proc[p].kind = "remove" ->
              IF There(proc[p].user) THEN Goto(p, "orphan") ELSE Respond(p, "exit 2")
    /\ Unmoved

\* cmd_cap.
Limit(p) ==
    /\ proc[p].pc = "limit"
    /\ cap' = [cap EXCEPT ![proc[p].user] = IF There(proc[p].user) THEN proc[p].max ELSE @]
    /\ Respond(p, "exit 0")
    /\ UNCHANGED << born, ref, owned, codes, clock, arrivals, history >>

\* cmd_create, whose id is drawn at random: nobody had it.
Adopt(p) ==
    LET u == proc[p].user IN
    /\ proc[p].pc = "adopt"
    /\ IF born[u] # 0 \/ u \in gone THEN UNCHANGED << rows, clock, back >>
       ELSE NewRow(u, proc[p].other)
    /\ Respond(p, "exit 0")
    /\ UNCHANGED << owned, codes, arrivals, gone, life, referred, lost >>

\* cmd_delete: UPDATE accounts ...
Orphan(p) ==
    /\ proc[p].pc = "orphan"
    /\ owned' = owned \ {proc[p].user}
    /\ Goto(p, "erase")
    /\ UNCHANGED << rows, codes, clock, arrivals, history >>

\* ... and DELETE, with foreign_keys=ON: ON DELETE SET NULL for whom it referred
\* and for its accounts.  Its codes stay.
CutOffHalf(u) == [v \in Ids |-> IF ref[v] = u THEN NoOne ELSE ref[v]]  \* a slip: not its own
CutOff(u) == [v \in Ids |-> IF v = u \/ ref[v] = u THEN NoOne ELSE ref[v]]

Erase(p) ==
    LET u == proc[p].user IN
    /\ proc[p].pc = "erase"
    /\ born' = [born EXCEPT ![u] = 0]
    /\ ref' = CutOff(u)
    /\ cap' = [cap EXCEPT ![u] = Unlimited]
    /\ owned' = owned \ {u}
    /\ gone' = gone \cup {u}
    /\ Respond(p, "exit 0")
    /\ UNCHANGED << codes, clock, arrivals, back, life, referred, lost >>

Step(p) ==
    \/ Gate(p) \/ Open(p) \/ Resolve(p) \/ Stamp(p) \/ Bump(p) \/ Insert(p) \/ Passkey(p)
    \/ Own(p) \/ Unknown(p) \/ Check(p) \/ Measure(p) \/ Put(p) \/ Drop(p) \/ Walk(p)
    \/ Look(p) \/ Limit(p) \/ Adopt(p) \/ Orphan(p) \/ Erase(p)

Next == \E p \in Procs : Arrive(p) \/ Step(p) \/ BumpFails(p)

Spec == Init /\ [][Next]_vars

\* A verb goes on by itself; nothing obliges anybody to ask.
FairSpec == Spec /\ \A p \in Procs : WF_vars(Step(p))

-----------------------------------------------------------------------------
(* Properties *)

ProcState ==
     [pc : {"idle", "gate", "open", "resolve", "stamp", "bump", "insert", "passkey", "own", "check",
            "unknown", "measure", "put", "drop", "walk", "look", "limit", "adopt", "orphan", "erase"},
      kind : Kinds, user : Ids \cup {NoOne}, code : Codes \cup {NoCode},
      other : Ids \cup {NoOne}, max : 0..Unlimited,
      found : Ids \cup {Legacy, NoOne}, life : Nat, seen : SUBSET Codes]

\* Types; no row, no referrer and no cap.
TypeOK ==
    /\ born \in [Ids -> 0..clock] /\ clock \in Nat
    /\ ref \in [Ids -> Ids \cup {NoOne}] /\ cap \in [Ids -> 0..Unlimited]
    /\ \A u \in Ids : born[u] = 0 => ref[u] = NoOne /\ cap[u] = Unlimited
    /\ owned \subseteq Ids
    /\ owner \in [Codes -> Ids \cup {Legacy, NoOne}]
    /\ uses \in [Codes -> Nat] /\ life \in [Codes -> Nat]
    /\ referred \in [Codes -> Nat] /\ lost \in [Codes -> Nat]
    /\ gone \subseteq Ids /\ back \subseteq gone
    /\ arrivals \in 0..MaxArrivals
    /\ proc \in [Procs -> ProcState]

\* Whoever referred a user came before: the users are a forest, and the recursive
\* queries over it end.  It takes an id that was deleted and registered again to
\* break it: a deleted user's code still names it (cmd_delete, _wallet-user:160).
ReferrersOlder ==
    \A u \in Ids : (There(ref[u]) /\ ref[u] \notin back) => born[ref[u]] < born[u]

\* With require_referral on nobody registers who did not offer a code that was
\* there at some time since the request came, though the gate looks long before
\* the row is written.
GateKept ==
    [][\A p \in Procs : (Required /\ proc[p].pc = "insert" /\ born' # born /\ proc'[p] # proc[p])
                           => proc[p].code \in proc[p].seen]_vars

Stamping(c) == { p \in Procs : proc[p].pc = "bump" /\ proc[p].kind = "account"
                               /\ proc[p].code = c /\ proc[p].life = life[c] }

\* A code's uses are never behind those it referred, but for counts the database
\* refused and for accounts stamped a moment ago, although codes are revoked and
\* minted anew under the same name while somebody registers with them.
UsesCover ==
    \A c \in Codes : Present(c) =>
        referred[c] <= uses[c] + lost[c] + Cardinality(Stamping(c))

\* Every request is answered, unless a deleted id comes back: then the tree may
\* have a cycle, and the queries over it run for ever.
RequestsAnswered ==
    [](back = {}) => \A p \in Procs : proc[p].pc # "idle" ~> proc[p].pc = "idle"

\* issues/feature/done/222-user-layer.md: "Server creates the user + stamps
\* Y.referrer_user": whose row is written goes on to its passkey and its session.
RegistrationGoesOn ==
    [][\A p \in Procs : (proc[p].pc = "insert" /\ born' # born /\ proc'[p] # proc[p])
                           => proc'[p].pc = "passkey"]_vars
=============================================================================
