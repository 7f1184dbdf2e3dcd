------------------------------- MODULE Gateway -------------------------------
(***************************************************************************)
(* Requests to the CGI scripts of share/lightning/wellknown, each a        *)
(* process of its own, between them the operator's verbs, the key store    *)
(* and the accounts.  The key is compared by one verb and the work done by *)
(* a later one: keys are issued and revoked, and accounts closed, between  *)
(* the two.  Nothing is locked and nothing is remembered.                  *)
(***************************************************************************)
EXTENDS Wellknown

CONSTANTS
    Procs,      \* processes that answer requests
    Requests,   \* the requests that are made
    Users,      \* users of the first API, with a read and a write key
    Accounts,   \* accounts of the second, with one key
    Keys,       \* values of keys
    MaxArrivals,\* bound on requests
    MaxIssues,  \* bound on keys issued or revoked by the operator
    MaxFaults   \* bound on calls of the key store that fail

ASSUME NoKeyAssumption   == NoKey \notin Keys
ASSUME NoOneAssumption   == NoOne \notin Users \cup Accounts /\ Users \cap Accounts = {}
\* read_user takes names and account_id addresses, by their patterns.
ASSUME RequestsAssumption ==
    Requests \subseteq
      [ep : Scripts \ {"mcp"}, method : STRING, who : Users \cup {NoOne}, key : Keys \cup {NoKey},
       body : Bodies, well : BOOLEAN, rpc : STRING, item : STRING, args : SUBSET STRING, id : BOOLEAN]
      \cup
      [ep : {"mcp"}, method : STRING, who : Accounts \cup {NoOne}, key : Keys \cup {NoKey},
       body : Bodies, well : BOOLEAN, rpc : STRING, item : STRING, args : SUBSET STRING, id : BOOLEAN]

ASSUME BoundsAssumption  == MaxArrivals \in Nat /\ MaxIssues \in Nat /\ MaxFaults \in Nat

VARIABLES
    keys,       \* the key store: for an owner and a scope, the key
    closed,     \* accounts with closed_at set
    stuck,      \* closed accounts whose key the store once did not remove
    proc,       \* the processes
    arrivals, issues, faults    \* bounded counters

vars == << keys, closed, stuck, proc, arrivals, issues, faults >>

\* The verbs that change something.
Actors == { "api-send", "api-recv", "api-accounts-create", "api-account-topup",
            "api-account-withdraw", "api-account-pay", "api-account-recv",
            "api-account-recv-reusable", "api-account-close", "api-account-transfer" }

Slots == (Users \X {"read", "write"}) \cup (Accounts \X {"account"})
Slot(r, scope) == << r.who, scope >>

\* What every script has from its environment, and what is remembered of it:
\* met/kept: the scopes whose key was the one offered at some time / all the time;
\* fooled: the key store failed while it compared; late: the account's closing
\* had been answered when the request came; did: its verb changed something.
NoRequest == [ep |-> "none", method |-> "", who |-> NoOne, key |-> NoKey, body |-> "object",
              well |-> TRUE, rpc |-> "", item |-> "", args |-> {}, id |-> TRUE]
Idle == [pc |-> "idle", req |-> NoRequest, try |-> 1, exit |-> "ok", reply |-> NoOne,
         met |-> {}, kept |-> {}, fooled |-> FALSE, late |-> FALSE, did |-> FALSE]

Matching(store, r) ==
    { s \in {"read", "write", "account"} :
        Slot(r, s) \in DOMAIN store /\ store[Slot(r, s)] = r.key }

\* The memories of the processes under way when the store changes.
Witness(store, procs) ==
    [p \in Procs |->
        IF procs[p].pc = "idle" THEN procs[p]
        ELSE [procs[p] EXCEPT
                !.met  = @ \cup Matching(store, procs[p].req),
                !.kept = @ \cap Matching(store, procs[p].req)]]

Init ==
    /\ keys \in [Slots -> Keys]
    /\ closed = {} /\ stuck = {}
    /\ proc = [p \in Procs |-> Idle]
    /\ arrivals = 0 /\ issues = 0 /\ faults = 0

----------------------------------------------------------------------------
(* A request *)

Verb(p) == PlanOf(proc[p].req).verb
Closes(p) == Verb(p) = "api-account-close"

\* An account whose closing a client has had the answer to.
ClosingAnswered(a) ==
    \E p \in Procs : /\ proc[p].pc = "idle" /\ proc[p].reply = "result"
                     /\ Closes(p) /\ proc[p].req.who = a

Arrive(p) == \E r \in Requests :
    /\ proc[p].pc = "idle" /\ arrivals < MaxArrivals
    /\ proc' = [proc EXCEPT ![p] =
                  [Idle EXCEPT !.pc = "early", !.req = r,
                               !.met = Matching(keys, r), !.kept = Matching(keys, r),
                               !.late = ClosingAnswered(r.who)]]
    /\ arrivals' = arrivals + 1
    /\ UNCHANGED << keys, closed, stuck, issues, faults >>

\* respond: the one answer, and the end of the process.
Respond(p, reply) ==
    [proc EXCEPT ![p] = [@ EXCEPT !.pc = "idle", !.reply = reply, !.try = 1, !.exit = "ok"]]

\* What is refused before the keys are looked at, and what needs none of them.
Early(p) ==
    LET plan == PlanOf(proc[p].req)
    IN  /\ proc[p].pc = "early"
        /\ proc' = IF plan.early # Go THEN Respond(p, plan.early)
                   ELSE [proc EXCEPT ![p].pc = IF plan.checks = <<>> THEN "late" ELSE "check"]
        /\ UNCHANGED << keys, closed, stuck, arrivals, issues, faults >>

\* api-verify, api-account-verify: the key offered is the one in the store.
Verified(p) == keys[Slot(proc[p].req, PlanOf(proc[p].req).checks[proc[p].try])] = proc[p].req.key

MissedAtOnce(p) == Respond(p, Denied(proc[p].req))  \* a slip: one scope is tried
\* The next scope is tried when this one does not match; none left is a refusal.
Missed(p) ==
    IF proc[p].try < Len(PlanOf(proc[p].req).checks)
    THEN [proc EXCEPT ![p].try = @ + 1]
    ELSE Respond(p, Denied(proc[p].req))

Check(p) ==
    /\ proc[p].pc = "check"
    /\ proc' = IF Verified(p) THEN [proc EXCEPT ![p].pc = "late"] ELSE Missed(p)
    /\ UNCHANGED << keys, closed, stuck, arrivals, issues, faults >>

\* The key store does not answer (locked, absent): the verb exits like a mismatch.
CheckFails(p) ==
    /\ proc[p].pc = "check" /\ faults < MaxFaults
    /\ faults' = faults + 1
    /\ proc' = [Missed(p) EXCEPT ![p].fooled = TRUE]
    /\ UNCHANGED << keys, closed, stuck, arrivals, issues >>

\* What is refused when the key is good.
Late(p) ==
    LET plan == PlanOf(proc[p].req)
    IN  /\ proc[p].pc = "late"
        /\ proc' = IF plan.late # Go THEN Respond(p, plan.late)
                   ELSE [proc EXCEPT ![p].pc = "verb"]
        /\ UNCHANGED << keys, closed, stuck, arrivals, issues, faults >>

----------------------------------------------------------------------------
(* The verb *)

\* A rule (exit 6) is looked at before anything is changed; a verb that fails, or
\* prints nothing readable, may have done its work.
Run(p) == \E exit \in Exits, did \in BOOLEAN :
    /\ proc[p].pc = "verb" /\ ~Closes(p)
    /\ did => Verb(p) \in Actors /\ exit # "rule"
    /\ Verb(p) \in Unknown => exit = "fail"
    /\ (Verb(p) \in Actors /\ exit = "ok") => did
    /\ proc' = [proc EXCEPT ![p] = [@ EXCEPT !.pc = "reply", !.exit = exit, !.did = did]]
    /\ UNCHANGED << keys, closed, stuck, arrivals, issues, faults >>

\* api-account-close: closed_at first, the key after it.  It has no exit 6.
Close(p) ==
    /\ proc[p].pc = "verb" /\ Closes(p)
    /\ closed' = closed \cup {proc[p].req.who}
    /\ proc' = [proc EXCEPT ![p] = [@ EXCEPT !.pc = "unkey", !.did = TRUE]]
    /\ UNCHANGED << keys, stuck, arrivals, issues, faults >>

CloseFails(p) ==
    /\ proc[p].pc = "verb" /\ Closes(p)
    /\ proc' = [proc EXCEPT ![p] = [@ EXCEPT !.pc = "reply", !.exit = "fail"]]
    /\ UNCHANGED << keys, closed, stuck, arrivals, issues, faults >>

UnkeyedLater(p) == keys  \* a slip: the key stays
Unkeyed(p) == [keys EXCEPT ![<< proc[p].req.who, "account" >>] = NoKey]

Unkey(p) ==
    /\ proc[p].pc = "unkey"
    /\ keys' = Unkeyed(p)
    /\ proc' = Witness(keys', [proc EXCEPT ![p].pc = "reply"])
    /\ UNCHANGED << closed, stuck, arrivals, issues, faults >>

\* secret rm ... || true: a failure is not told to anybody.
UnkeyFails(p) ==
    /\ proc[p].pc = "unkey" /\ faults < MaxFaults
    /\ faults' = faults + 1
    /\ stuck' = stuck \cup {a \in {proc[p].req.who} : keys[<< a, "account" >>] # NoKey}
    /\ proc' = [proc EXCEPT ![p].pc = "reply"]
    /\ UNCHANGED << keys, closed, arrivals, issues >>

Reply(p) ==
    /\ proc[p].pc = "reply"
    /\ proc' = Respond(p, ReplyTo(proc[p].req, proc[p].exit))
    /\ UNCHANGED << keys, closed, stuck, arrivals, issues, faults >>

----------------------------------------------------------------------------
(* The operator: lightning account apikey create, revoke *)

Issue == \E u \in Users, s \in {"read", "write"}, k \in Keys \cup {NoKey} :
    /\ issues < MaxIssues
    /\ issues' = issues + 1
    /\ keys' = [keys EXCEPT ![<< u, s >>] = k]
    /\ proc' = Witness(keys', proc)
    /\ UNCHANGED << closed, stuck, arrivals, faults >>

Step(p) == \/ Early(p) \/ Check(p) \/ Late(p) \/ Run(p)
           \/ Close(p) \/ CloseFails(p) \/ Unkey(p) \/ Reply(p)

Next == \/ \E p \in Procs : Arrive(p) \/ Step(p) \/ CheckFails(p) \/ UnkeyFails(p)
        \/ Issue

Spec == Init /\ [][Next]_vars

----------------------------------------------------------------------------
(* Properties *)

ProcState ==
    [pc : {"idle", "early", "check", "late", "verb", "unkey", "reply"},
     req : Requests \cup {NoRequest}, try : 1..2, exit : Exits, reply : Replies \cup {NoOne},
     met : SUBSET {"read", "write", "account"}, kept : SUBSET {"read", "write", "account"},
     fooled : BOOLEAN, late : BOOLEAN, did : BOOLEAN]

TypeOK ==
    /\ keys \in [Slots -> Keys \cup {NoKey}]
    /\ closed \subseteq Accounts /\ stuck \subseteq closed
    /\ proc \in [Procs -> ProcState]
    /\ arrivals \in 0..MaxArrivals /\ issues \in 0..MaxIssues /\ faults \in 0..MaxFaults

\* What a request names an owner for: all but opening an account and asking for an
\* invoice at a Lightning Address, which anybody may.
OwnersOnly(r) == r.who # NoOne /\ r.ep # "lnurlp" /\ PlanOf(r).verb # "api-accounts-create"
Scopes(r) == { PlanOf(r).checks[i] : i \in DOMAIN PlanOf(r).checks }

\* A verb that changes something of a user or an account only ran for a request
\* that offered that owner's key: one that was in the store, under a scope that
\* suffices, at some time since the request came (auth, _tool_call, _resource_read).
OnlyKeyHoldersAct ==
    \A p \in Procs : (proc[p].did /\ OwnersOnly(proc[p].req))
                        => proc[p].met \cap {"write", "account"} # {}

\* Who offers a key that is good for the request from its arrival to its answer is
\* not refused it, whatever else is issued, revoked or closed meanwhile, unless the
\* key store itself failed: with two scopes to try, in two calls, either suffices.
KeyHolderServed ==
    \A p \in Procs : (/\ proc[p].pc = "idle" /\ proc[p].req # NoRequest /\ ~proc[p].fooled
                      /\ Scopes(proc[p].req) \cap proc[p].kept # {})
                        => proc[p].reply \notin {"401", "-32001"}

\* A request that was refused did nothing: a client may send it again.  Only 200,
\* 502, "result", "isError" and "-32000" leave open that something was done.
Refusals == {"204", "400", "401", "402", "404", "405", "500", "-32600", "-32601", "-32602", "-32001"}
RefusedUntouched ==
    \A p \in Procs : (proc[p].pc = "idle" /\ proc[p].reply \in Refusals) => ~proc[p].did

\* After the answer that an account is closed no request that comes later acts for
\* its address, unless the store kept the key (api-account-close, "revokes the API
\* key").  A user's keys of the first API are not those of an address.
ClosedStaysClosed ==
    \A p \in Procs : (proc[p].did /\ proc[p].late /\ OwnersOnly(proc[p].req))
                        => proc[p].req.who \in stuck

\* mcp.py: "Notifications don't get a response per JSON-RPC 2.0".  An envelope
\* without an id is one, whatever its method.
NotificationsSilent ==
    \A p \in Procs : (proc[p].pc = "idle" /\ proc[p].req # NoRequest /\ ~proc[p].req.id)
                        => proc[p].reply \notin {"result", "isError"}

=============================================================================
