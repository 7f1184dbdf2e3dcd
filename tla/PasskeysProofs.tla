----------------------------- MODULE PasskeysProofs -----------------------------
(***************************************************************************)
(* Theorems about Passkeys, for any users, authenticators, requests and    *)
(* bounds.  What a step does to the processes is said once, field by       *)
(* field, by the operators below; each invariant is then proved from them. *)
(***************************************************************************)
EXTENDS Passkeys, TLAPS

-----------------------------------------------------------------------------
(* What a step does *)

Pcs == {"idle", "key", "set", "verify", "again", "mint", "create", "begin",
        "find", "consume", "attest", "look", "count", "revoke"}

\* What a process has from its request.
SameRequest(n, q) ==
    /\ n.kind = q.kind /\ n.user = q.user /\ n.cred = q.cred
    /\ n.chal = q.chal /\ n.token = q.token /\ n.new = q.new

Alone(p) == proc' \in [Procs -> ProcState] /\ \A x \in Procs \ {p} : proc'[x] = proc[x]
Ended(p) == Alone(p) /\ proc'[p] = Idle
Goes(p, pc) == /\ Alone(p) /\ SameRequest(proc'[p], proc[p]) /\ proc'[p].pc = pc
               /\ proc'[p].seen = proc[p].seen
SameRest(n, q) == n.named = q.named /\ n.key = q.key /\ n.then = q.then /\ n.stored = q.stored
Plainly(p, pc) == Goes(p, pc) /\ SameRest(proc'[p], proc[p])

Quits(p) ==
    /\ Ended(p)
    /\ UNCHANGED << db, hmac, made, overlap, history, tokens, configured, drawn >>
    /\ arrivals' \in 0..MaxArrivals /\ faults' \in {faults, faults + 1} \cap 0..MaxFaults

Arrives(p) ==
    LET n == proc'[p]
    IN  /\ proc[p].pc = "idle" /\ Alone(p)
        /\ n.kind \in Kinds /\ n.pc = FirstStep(n.kind) /\ n.user \in Users /\ n.cred \in Creds
        /\ n.named = NoOne /\ n.then = "verify" /\ n.key = 0 /\ n.chal <= drawn
        /\ n.token \in tokens \cup {NoToken} /\ (n.kind \in Authed => n.token # NoToken)
        /\ n.seen = Held(n.user, holder)
        /\ arrivals' \in 0..MaxArrivals
        /\ UNCHANGED << db, store, history, tokens, configured, drawn >>

Fetches(p) ==
    /\ proc[p].pc = "key" /\ hmac # 0
    /\ Goes(p, proc[p].then) /\ proc'[p].key = hmac
    /\ proc'[p].named = proc[p].named /\ proc'[p].then = proc[p].then /\ proc'[p].stored = proc[p].stored
    /\ UNCHANGED << db, store, history, tokens, configured, arrivals, drawn >>

Misses(p) ==
    /\ proc[p].pc = "key" /\ Plainly(p, "set")
    /\ \/ /\ hmac = 0 /\ faults' = faults
          /\ overlap' = (overlap \/ \E q \in Procs \ {p} : proc[q].pc = "set")
       \/ faults' = faults + 1 /\ faults' \in 0..MaxFaults /\ overlap' = overlap
    /\ UNCHANGED << db, hmac, made, history, tokens, configured, arrivals, drawn >>

Sets(p) ==
    /\ proc[p].pc = "set"
    /\ made' = made + 1 /\ hmac' = made + 1
    /\ Goes(p, proc[p].then) /\ proc'[p].key = made + 1
    /\ proc'[p].named = proc[p].named /\ proc'[p].then = proc[p].then /\ proc'[p].stored = proc[p].stored
    /\ UNCHANGED << db, history, faults, overlap, tokens, configured, arrivals, drawn >>

Verifies(p) ==
    /\ proc[p].pc = "verify" /\ proc[p].token.key = proc[p].key /\ OwnToken(p) /\ proc[p].kind # "look"
    /\ Goes(p, AfterAuth(p)) /\ proc'[p].then = "again"
    /\ proc'[p].named = proc[p].named /\ proc'[p].key = proc[p].key /\ proc'[p].stored = proc[p].stored
    /\ UNCHANGED << db, store, history, tokens, configured, arrivals, drawn >>

HandsOut(p, u) ==
    /\ \/ proc[p].pc = "again" /\ proc[p].token.key = proc[p].key /\ u = proc[p].token.user
       \/ proc[p].pc = "mint" /\ u = proc[p].user
    /\ tokens' = tokens \cup {[user |-> u, key |-> proc[p].key]}
    /\ Ended(p)
    /\ UNCHANGED << db, store, history, configured, arrivals, drawn >>

Creates(p) ==
    /\ proc[p].pc = "create" /\ proc[p].user \notin users
    /\ users' = users \cup {proc[p].user}
    /\ Ended(p) \/ Plainly(p, "find")
    /\ UNCHANGED << holder, count, challenges, store, history, tokens, configured, arrivals, drawn >>

Begins(p) ==
    /\ proc[p].pc = "begin"
    /\ challenges' = challenges \cup {Challenge(p)} /\ drawn' = drawn + 1
    /\ Ended(p)
    /\ UNCHANGED << users, holder, count, store, history, tokens, configured, arrivals >>

Finds(p) ==
    /\ proc[p].pc = "find"
    /\ \E ch \in Wanted(p) : proc'[p].named = ch.user
    /\ Goes(p, "consume")
    /\ proc'[p].key = proc[p].key /\ proc'[p].then = proc[p].then /\ proc'[p].stored = proc[p].stored
    /\ contested' = contested \cup
          {ch \in {proc[p].chal} : \E q \in Procs \ {p} : proc[q].pc = "consume" /\ proc[q].chal = ch}
    /\ UNCHANGED << db, store, wins, raced, gone, tokens, configured, arrivals, drawn >>

Consumes(p) ==
    /\ proc[p].pc = "consume"
    /\ challenges' = ChallengesLeft(p)
    /\ \/ Ended(p)
       \/ /\ ~Anothers(p)
          /\ Plainly(p, IF proc[p].kind = "loginFinish" THEN "look" ELSE "attest")
    /\ UNCHANGED << users, holder, count, store, history, tokens, configured, arrivals, drawn >>

\* The others only see the new passkey.
Sees(n, q) ==
    /\ SameRequest(n, q) /\ SameRest(n, q) /\ n.pc = q.pc
    /\ n.seen = q.seen \cup IF q.pc = "idle" THEN {} ELSE Held(q.user, holder')

Attests(p) ==
    LET c == proc[p].cred
        n == proc'[p]
    IN  /\ proc[p].pc = "attest" /\ proc[p].user \in users /\ holder[c] = NoOne
        /\ holder' = [holder EXCEPT ![c] = proc[p].user]
        /\ count' = [count EXCEPT ![c] = proc[p].new]
        /\ raced' = raced \cup {d \in {c} : Writing(p, d)}
        /\ Won(p)
        /\ proc' \in [Procs -> ProcState] /\ \A x \in Procs \ {p} : Sees(proc'[x], proc[x])
        /\ \/ /\ proc[p].kind = "anonFinish"
              /\ SameRequest(n, proc[p]) /\ n.pc = "key" /\ n.then = "mint"
              /\ n.named = proc[p].named /\ n.key = proc[p].key
              /\ n.seen = proc[p].seen \cup Held(proc[p].user, holder')
           \/ proc[p].kind # "anonFinish" /\ n = Idle
        /\ UNCHANGED << users, challenges, store, contested, gone, tokens, configured, arrivals, drawn >>

LooksUp(p) ==
    /\ proc[p].pc = "look" /\ Registered(p)
    /\ Goes(p, "count") /\ proc'[p].stored = count[proc[p].cred]
    /\ proc'[p].named = proc[p].named /\ proc'[p].key = proc[p].key /\ proc'[p].then = proc[p].then
    /\ raced' = raced \cup {c \in {proc[p].cred} : Writing(p, c)}
    /\ UNCHANGED << db, store, wins, contested, gone, tokens, configured, arrivals, drawn >>

Counts(p) ==
    LET c == proc[p].cred IN
    /\ proc[p].pc = "count" /\ Accepts(proc[p].stored, proc[p].new)
    /\ count' = [count EXCEPT ![c] = IF holder[c] = NoOne THEN @ ELSE proc[p].new]
    /\ Won(p)
    /\ Goes(p, "key") /\ proc'[p].then = "mint"
    /\ proc'[p].named = proc[p].named /\ proc'[p].key = proc[p].key /\ proc'[p].stored = proc[p].stored
    /\ UNCHANGED << users, holder, challenges, store, contested, raced, gone, tokens, configured, arrivals, drawn >>

Revokes(p) ==
    LET c == proc[p].cred IN
    /\ proc[p].pc = "revoke" /\ holder[c] = proc[p].user
    /\ holder' = [holder EXCEPT ![c] = NoOne] /\ count' = [count EXCEPT ![c] = 0]
    /\ Ended(p)
    /\ UNCHANGED << users, challenges, store, history, tokens, configured, arrivals, drawn >>

Does(p) ==
    \/ Quits(p) \/ Arrives(p) \/ Fetches(p) \/ Misses(p) \/ Sets(p) \/ Verifies(p)
    \/ (\E u \in Users : HandsOut(p, u)) \/ Creates(p) \/ Begins(p) \/ Finds(p) \/ Consumes(p)
    \/ Attests(p) \/ LooksUp(p) \/ Counts(p) \/ Revokes(p)

-----------------------------------------------------------------------------
(* Where a process is, by the kind of its request *)

Coherent(q) ==
    /\ q.pc # "idle" => q.user \in Users /\ q.cred \in Creds
    /\ q.pc = "begin" => q.kind \in {"regBegin", "anonBegin", "loginBegin"}
    /\ q.pc \in {"find", "consume"} => q.kind \in {"regFinish", "anonFinish", "loginFinish"}
    /\ q.pc = "attest" => q.kind \in {"regFinish", "anonFinish"}
    /\ q.pc \in {"look", "count"} => q.kind = "loginFinish"
    /\ q.pc = "create" => q.kind = "anonFinish"
    /\ q.pc = "revoke" => q.kind = "delete"
    /\ q.pc \in {"verify", "again"} => q.kind \in Authed
    /\ q.pc \in {"key", "set"} => \/ q.kind \in Authed /\ q.then \in {"verify", "again"}
                                  \/ q.kind \in {"anonFinish", "loginFinish"} /\ q.then = "mint"
    /\ q.pc = "mint" => q.kind \in {"anonFinish", "loginFinish"}
    /\ (q.pc # "idle" /\ q.kind \in Authed) => q.token # NoToken

Typed == TypeOK /\ \A p \in Procs : Coherent(proc[p])

-----------------------------------------------------------------------------
(* Steps of the specification are these *)

LEMMA IdleTyped == Idle \in ProcState
BY PasskeysAssumption DEF Idle, ProcState, Kinds, NoToken, Authed

LEMMA RespondEnds ==
    ASSUME TypeOK, NEW p \in Procs, NEW status, Respond(p, status)
    PROVE  Ended(p)
BY IdleTyped DEF TypeOK, Respond, Ended, Alone

LEMMA GotoGoes ==
    ASSUME TypeOK, NEW p \in Procs, NEW pc \in Pcs, Goto(p, pc)
    PROVE  Plainly(p, pc)
<1> DEFINE q == proc[p]
           n == [q EXCEPT !.pc = pc]
<1>1. q \in ProcState /\ proc' = [proc EXCEPT ![p] = n]
    BY DEF TypeOK, Goto
<1>2. n \in ProcState
    BY <1>1 DEF ProcState, Pcs
<1>3. SameRequest(n, q) /\ n.pc = pc /\ n.seen = q.seen /\ SameRest(n, q)
    BY <1>1 DEF ProcState, SameRequest, SameRest
<1> HIDE DEF n
<1>4. Alone(p) /\ proc'[p] = n
    BY <1>1, <1>2 DEF TypeOK, Alone
<1> QED
    BY <1>3, <1>4 DEF Plainly, Goes

LEMMA ArriveDoes ==
    ASSUME Typed, NEW p \in Procs, Arrive(p)
    PROVE  Quits(p) \/ Arrives(p)
<1>1. PICK r \in Requests, t \in tokens \cup {NoToken} :
          /\ arrivals < MaxArrivals /\ t.user = r.session /\ r.chal <= drawn
          /\ arrivals' = arrivals + 1
          /\ IF r.kind \in Authed /\ t = NoToken THEN Respond(p, "401")
             ELSE proc' = [proc EXCEPT ![p] =
                      [Idle EXCEPT !.pc = FirstStep(r.kind), !.kind = r.kind, !.user = r.user,
                                   !.cred = r.cred, !.chal = r.chal, !.new = r.new,
                                   !.token = t, !.seen = Held(r.user, holder)]]
    BY DEF Arrive
<1>2. /\ proc[p].pc = "idle"
      /\ UNCHANGED << db, store, history, tokens, configured, drawn >>
      /\ arrivals' \in 0..MaxArrivals
    BY <1>1, PasskeysAssumption DEF Arrive, Typed, TypeOK
<1>3. CASE r.kind \in Authed /\ t = NoToken
    BY <1>1, <1>2, <1>3, RespondEnds DEF Quits, Typed, TypeOK, store
<1>4. CASE ~(r.kind \in Authed /\ t = NoToken)
    <2> DEFINE pc == FirstStep(r.kind)
               held == Held(r.user, holder)
               a == [Idle EXCEPT !.pc = pc]
               b == [a EXCEPT !.kind = r.kind]
               c == [b EXCEPT !.user = r.user]
               d == [c EXCEPT !.cred = r.cred]
               e == [d EXCEPT !.chal = r.chal]
               f == [e EXCEPT !.new = r.new]
               g == [f EXCEPT !.token = t]
               n == [g EXCEPT !.seen = held]
    <2>1. /\ r.kind \in Kinds /\ r.user \in Users /\ r.cred \in Creds /\ r.chal \in Nat
          /\ r.new \in 0..MaxCount /\ held \in SUBSET Creds
        BY RequestsAssumption DEF Held
    <2>2. pc \in Pcs
        BY DEF FirstStep, Pcs
    <2>3. t \in [user : Users, key : Nat] \cup {NoToken}
        BY DEF Typed, TypeOK
    <2>4. proc' = [proc EXCEPT ![p] = n]
        BY <1>1, <1>4
    <2>5. Idle \in ProcState /\ Idle.named = NoOne /\ Idle.then = "verify" /\ Idle.key = 0
        BY IdleTyped DEF Idle
    <2> HIDE DEF pc, held
    <2>6. /\ n.pc = pc /\ n.kind = r.kind /\ n.user = r.user /\ n.cred = r.cred /\ n.chal = r.chal
          /\ n.token = t /\ n.seen = held /\ n.named = NoOne /\ n.then = "verify" /\ n.key = 0
        BY <2>5 DEF ProcState
    <2>7. n \in ProcState
        <3>1. a \in ProcState
            BY <2>2, <2>5 DEF ProcState, Pcs
        <3> HIDE DEF a
        <3>2. b \in ProcState
            BY <2>1, <3>1 DEF ProcState
        <3> HIDE DEF b
        <3>3. c \in ProcState
            BY <2>1, <3>2 DEF ProcState
        <3> HIDE DEF c
        <3>4. d \in ProcState
            BY <2>1, <3>3 DEF ProcState
        <3> HIDE DEF d
        <3>5. e \in ProcState
            BY <2>1, <3>4 DEF ProcState
        <3> HIDE DEF e
        <3>6. f \in ProcState
            BY <2>1, <3>5 DEF ProcState
        <3> HIDE DEF f
        <3>7. g \in ProcState
            BY <2>3, <3>6 DEF ProcState
        <3> HIDE DEF g
        <3> QED
            BY <2>1, <3>7 DEF ProcState
    <2> HIDE DEF n
    <2>8. Alone(p) /\ proc'[p] = n
        BY <2>4, <2>7 DEF Typed, TypeOK, Alone
    <2> QED
        BY <1>1, <1>2, <1>4, <2>1, <2>6, <2>8 DEF Arrives, pc, held
<1> QED
    BY <1>3, <1>4

\* A process goes on and keeps what it found in one field.
LEMMA KeyChanges ==
    ASSUME TypeOK, NEW p \in Procs, NEW pc \in Pcs, NEW k \in Nat,
           proc' = [proc EXCEPT ![p] = [@ EXCEPT !.pc = pc, !.key = k]]
    PROVE  /\ Goes(p, pc) /\ proc'[p].key = k
           /\ proc'[p].named = proc[p].named /\ proc'[p].then = proc[p].then
           /\ proc'[p].stored = proc[p].stored
<1> DEFINE q == proc[p]
           a == [q EXCEPT !.pc = pc]
           n == [a EXCEPT !.key = k]
<1>1. q \in ProcState /\ proc' = [proc EXCEPT ![p] = n]
    BY DEF TypeOK
<1>2. /\ SameRequest(n, q) /\ n.pc = pc /\ n.key = k /\ n.seen = q.seen
      /\ n.named = q.named /\ n.then = q.then /\ n.stored = q.stored
    BY <1>1 DEF ProcState, SameRequest
<1>3. a \in ProcState
    BY <1>1 DEF ProcState, Pcs
<1> HIDE DEF a
<1>4. n \in ProcState
    BY <1>3 DEF ProcState
<1> HIDE DEF n
<1>5. Alone(p) /\ proc'[p] = n
    BY <1>1, <1>4 DEF TypeOK, Alone
<1> QED
    BY <1>2, <1>5 DEF Goes

LEMMA ThenChanges ==
    ASSUME TypeOK, NEW p \in Procs, NEW pc \in Pcs, NEW then \in {"verify", "again", "mint"},
           proc' = [proc EXCEPT ![p] = [@ EXCEPT !.pc = pc, !.then = then]]
    PROVE  /\ Goes(p, pc) /\ proc'[p].then = then
           /\ proc'[p].named = proc[p].named /\ proc'[p].key = proc[p].key
           /\ proc'[p].stored = proc[p].stored
<1> DEFINE q == proc[p]
           a == [q EXCEPT !.pc = pc]
           n == [a EXCEPT !.then = then]
<1>1. q \in ProcState /\ proc' = [proc EXCEPT ![p] = n]
    BY DEF TypeOK
<1>2. /\ SameRequest(n, q) /\ n.pc = pc /\ n.then = then /\ n.seen = q.seen
      /\ n.named = q.named /\ n.key = q.key /\ n.stored = q.stored
    BY <1>1 DEF ProcState, SameRequest
<1>3. a \in ProcState
    BY <1>1 DEF ProcState, Pcs
<1> HIDE DEF a
<1>4. n \in ProcState
    BY <1>3 DEF ProcState
<1> HIDE DEF n
<1>5. Alone(p) /\ proc'[p] = n
    BY <1>1, <1>4 DEF TypeOK, Alone
<1> QED
    BY <1>2, <1>5 DEF Goes

LEMMA NamedChanges ==
    ASSUME TypeOK, NEW p \in Procs, NEW pc \in Pcs, NEW u \in Users \cup {NoOne},
           proc' = [proc EXCEPT ![p] = [@ EXCEPT !.pc = pc, !.named = u]]
    PROVE  /\ Goes(p, pc) /\ proc'[p].named = u
           /\ proc'[p].key = proc[p].key /\ proc'[p].then = proc[p].then
           /\ proc'[p].stored = proc[p].stored
<1> DEFINE q == proc[p]
           a == [q EXCEPT !.pc = pc]
           n == [a EXCEPT !.named = u]
<1>1. q \in ProcState /\ proc' = [proc EXCEPT ![p] = n]
    BY DEF TypeOK
<1>2. /\ SameRequest(n, q) /\ n.pc = pc /\ n.named = u /\ n.seen = q.seen
      /\ n.key = q.key /\ n.then = q.then /\ n.stored = q.stored
    BY <1>1 DEF ProcState, SameRequest
<1>3. a \in ProcState
    BY <1>1 DEF ProcState, Pcs
<1> HIDE DEF a
<1>4. n \in ProcState
    BY <1>3 DEF ProcState
<1> HIDE DEF n
<1>5. Alone(p) /\ proc'[p] = n
    BY <1>1, <1>4 DEF TypeOK, Alone
<1> QED
    BY <1>2, <1>5 DEF Goes

LEMMA StoredChanges ==
    ASSUME TypeOK, NEW p \in Procs, NEW pc \in Pcs, NEW k \in 0..MaxCount,
           proc' = [proc EXCEPT ![p] = [@ EXCEPT !.pc = pc, !.stored = k]]
    PROVE  /\ Goes(p, pc) /\ proc'[p].stored = k
           /\ proc'[p].named = proc[p].named /\ proc'[p].key = proc[p].key
           /\ proc'[p].then = proc[p].then
<1> DEFINE q == proc[p]
           a == [q EXCEPT !.pc = pc]
           n == [a EXCEPT !.stored = k]
<1>1. q \in ProcState /\ proc' = [proc EXCEPT ![p] = n]
    BY DEF TypeOK
<1>2. /\ SameRequest(n, q) /\ n.pc = pc /\ n.stored = k /\ n.seen = q.seen
      /\ n.named = q.named /\ n.key = q.key /\ n.then = q.then
    BY <1>1 DEF ProcState, SameRequest
<1>3. a \in ProcState
    BY <1>1 DEF ProcState, Pcs
<1> HIDE DEF a
<1>4. n \in ProcState
    BY <1>3 DEF ProcState
<1> HIDE DEF n
<1>5. Alone(p) /\ proc'[p] = n
    BY <1>1, <1>4 DEF TypeOK, Alone
<1> QED
    BY <1>2, <1>5 DEF Goes

LEMMA KeyDoes ==
    ASSUME Typed, NEW p \in Procs, GetKey(p) \/ GetKeyFails(p) \/ SetKey(p) \/ SetKeyFails(p)
    PROVE  Does(p)
<1> DEFINE q == proc[p]
<1>1. /\ q \in ProcState /\ Coherent(q) /\ "set" \in Pcs
      /\ hmac \in Nat /\ made + 1 \in Nat
      /\ faults < MaxFaults => faults + 1 \in {faults, faults + 1} \cap 0..MaxFaults
      /\ arrivals \in 0..MaxArrivals
    BY PasskeysAssumption DEF Typed, TypeOK, Pcs
<1>2. q.then \in Pcs
    BY <1>1 DEF ProcState, Pcs
<1>3. CASE GetKey(p)
    <2>1. CASE hmac # 0
        <3>1. Fetches(p)
            BY <1>1, <1>2, <1>3, <2>1, KeyChanges DEF GetKey, Fetches, Typed, store
        <3> QED
            BY <3>1 DEF Does
    <2>2. CASE hmac = 0
        <3>1. Misses(p)
            BY <1>1, <1>3, <2>2, GotoGoes DEF GetKey, Misses, Typed
        <3> QED
            BY <3>1 DEF Does
    <2> QED
        BY <2>1, <2>2
<1>4. CASE GetKeyFails(p)
    <2>1. Misses(p)
        BY <1>1, <1>4, GotoGoes DEF GetKeyFails, Misses, Typed
    <2> QED
        BY <2>1 DEF Does
<1>5. CASE SetKey(p)
    <2>1. hmac' = made + 1
        BY <1>5 DEF SetKey, StoredKey
    <2>2. Sets(p)
        BY <1>1, <1>2, <1>5, <2>1, KeyChanges DEF SetKey, Sets, Typed
    <2> QED
        BY <2>2 DEF Does
<1>6. CASE SetKeyFails(p)
    <2>1. Quits(p)
        BY <1>1, <1>6, RespondEnds DEF SetKeyFails, Quits, Typed, TypeOK
    <2> QED
        BY <2>1 DEF Does
<1> QED
    BY <1>3, <1>4, <1>5, <1>6

\* A refusal: nothing but the answer.
LEMMA QuitDoes ==
    ASSUME Typed, NEW p \in Procs, NEW status, Respond(p, status),
           UNCHANGED << db, store, history, tokens, configured, arrivals, drawn >>
    PROVE  Does(p)
<1>1. faults \in {faults, faults + 1} \cap 0..MaxFaults /\ arrivals \in 0..MaxArrivals
    BY DEF Typed, TypeOK
<1>2. Quits(p)
    BY <1>1, RespondEnds DEF Quits, Typed, store
<1> QED
    BY <1>2 DEF Does

LEMMA SessionDoes ==
    ASSUME Typed, NEW p \in Procs, Verify(p) \/ Expired(p) \/ Refresh(p) \/ Mint(p) \/ HelperFails(p)
    PROVE  Does(p)
<1> DEFINE q == proc[p]
<1>1. q \in ProcState /\ Coherent(q)
    BY DEF Typed, TypeOK
<1>2. CASE Verify(p)
    <2>1. CASE q.token.key = q.key /\ OwnToken(p) /\ q.kind # "look"
        <3>1. AfterAuth(p) \in Pcs
            BY <1>1, <1>2, <2>1 DEF AfterAuth, Pcs, Coherent, Authed, Verify
        <3>2. Verifies(p)
            BY <1>2, <2>1, <3>1, ThenChanges DEF Verify, Verifies, Typed
        <3> QED
            BY <3>2 DEF Does
    <2>2. CASE ~(q.token.key = q.key /\ OwnToken(p) /\ q.kind # "look")
        BY <1>2, <2>2, QuitDoes DEF Verify
    <2> QED
        BY <2>1, <2>2
<1>3. CASE Expired(p) \/ HelperFails(p)
    BY <1>3, QuitDoes DEF Expired, HelperFails
<1>4. CASE Refresh(p)
    <2>1. CASE q.token.key = q.key
        <3>1. q.token.user \in Users
            BY <1>1, <1>4 DEF Coherent, ProcState, Refresh
        <3>2. HandsOut(p, q.token.user)
            BY <1>4, <2>1, RespondEnds DEF Refresh, HandOut, HandsOut, Typed
        <3> QED
            BY <3>1, <3>2 DEF Does
    <2>2. CASE q.token.key # q.key
        BY <1>4, <2>2, QuitDoes DEF Refresh
    <2> QED
        BY <2>1, <2>2
<1>5. CASE Mint(p)
    <2>1. q.user \in Users
        BY <1>1, <1>5 DEF Coherent, Mint
    <2>2. HandsOut(p, q.user)
        BY <1>5, RespondEnds DEF Mint, HandOut, HandsOut, Typed
    <2> QED
        BY <2>1, <2>2 DEF Does
<1> QED
    BY <1>2, <1>3, <1>4, <1>5

LEMMA BeginDoes ==
    ASSUME Typed, NEW p \in Procs, CreateUser(p) \/ Begin(p) \/ FindChallenge(p) \/ Consume(p)
    PROVE  Does(p)
<1> DEFINE q == proc[p]
<1>1. q \in ProcState /\ Coherent(q) /\ {"find", "consume", "look", "attest"} \subseteq Pcs
    BY DEF Typed, TypeOK, Pcs
<1>2. CASE CreateUser(p)
    <2>1. CASE UNCHANGED users /\ \E status : Respond(p, status)
        BY <1>2, <2>1, QuitDoes DEF CreateUser, db
    <2>2. CASE /\ q.user \notin users /\ users' = users \cup {q.user}
               /\ Goto(p, "find") \/ Respond(p, "502")
        <3>1. Ended(p) \/ Plainly(p, "find")
            BY <1>1, <2>2, RespondEnds, GotoGoes DEF Typed
        <3>2. Creates(p)
            BY <1>2, <2>2, <3>1 DEF CreateUser, Creates
        <3> QED
            BY <3>2 DEF Does
    <2> QED
        BY <1>2, <2>1, <2>2 DEF CreateUser
<1>3. CASE Begin(p)
    <2>1. CASE UNCHANGED << challenges, drawn >> /\ \E status : Respond(p, status)
        BY <1>3, <2>1, QuitDoes DEF Begin, db
    <2>2. CASE challenges' = challenges \cup {Challenge(p)} /\ drawn' = drawn + 1 /\ Respond(p, "200")
        <3>1. Begins(p)
            BY <1>3, <2>2, RespondEnds DEF Begin, Begins, Typed
        <3> QED
            BY <3>1 DEF Does
    <2> QED
        BY <1>3, <2>1, <2>2 DEF Begin
<1>4. CASE FindChallenge(p)
    <2>1. CASE ~(configured /\ Wanted(p) # {})
        BY <1>4, <2>1, QuitDoes DEF FindChallenge, history
    <2>2. CASE configured /\ Wanted(p) # {}
        <3> DEFINE ch == CHOOSE ch \in Wanted(p) : TRUE
        <3>1. /\ Wanted(p) # {} /\ proc' = [proc EXCEPT ![p] = [@ EXCEPT !.pc = "consume", !.named = ch.user]]
              /\ contested' = contested \cup
                  {x \in {q.chal} : \E z \in Procs \ {p} : proc[z].pc = "consume" /\ proc[z].chal = x}
            BY <1>4, <2>2 DEF FindChallenge
        <3>2. ch \in Wanted(p)
            BY <3>1
        <3> HIDE DEF ch
        <3>3. ch.user \in Users \cup {NoOne}
            BY <3>2 DEF Wanted, Typed, TypeOK, Rows, Row
        <3>4. Finds(p)
            BY <1>1, <1>4, <3>1, <3>2, <3>3, NamedChanges DEF FindChallenge, Finds, Typed
        <3> QED
            BY <3>4 DEF Does
    <2> QED
        BY <2>1, <2>2
<1>5. CASE Consume(p)
    <2>1. CASE Respond(p, "401")
        <3>1. Consumes(p)
            BY <1>5, <2>1, RespondEnds DEF Consume, Consumes, Typed
        <3> QED
            BY <3>1 DEF Does
    <2>2. CASE ~Anothers(p) /\ Goto(p, IF q.kind = "loginFinish" THEN "look" ELSE "attest")
        <3>1. Consumes(p)
            BY <1>1, <1>5, <2>2, GotoGoes DEF Consume, Consumes, Typed
        <3> QED
            BY <3>1 DEF Does
    <2> QED
        BY <1>5, <2>1, <2>2 DEF Consume
<1> QED
    BY <1>2, <1>3, <1>4, <1>5

LEMMA CredentialDoes ==
    ASSUME Typed, NEW p \in Procs, LookCredential(p) \/ UpdateCount(p) \/ Revoke(p)
    PROVE  Does(p)
<1> DEFINE q == proc[p]
<1>1. q \in ProcState /\ Coherent(q) /\ "count" \in Pcs /\ "key" \in Pcs
    BY DEF Typed, TypeOK, Pcs
<1>2. CASE LookCredential(p)
    <2>1. CASE ~Registered(p)
        BY <1>2, <2>1, QuitDoes DEF LookCredential, history
    <2>2. CASE Registered(p)
        <3>1. count[q.cred] \in 0..MaxCount
            BY <1>1, <1>2 DEF LookCredential, Coherent, Typed, TypeOK
        <3>2. LooksUp(p)
            BY <1>1, <1>2, <2>2, <3>1, StoredChanges DEF LookCredential, LooksUp, Typed
        <3> QED
            BY <3>2 DEF Does
    <2> QED
        BY <2>1, <2>2
<1>3. CASE UpdateCount(p)
    <2>1. CASE Respond(p, "400") /\ UNCHANGED << count, wins >>
        BY <1>3, <2>1, QuitDoes DEF UpdateCount, db, history
    <2>2. CASE Accepts(q.stored, q.new) /\ Won(p) /\ ToKey(p, "mint")
               /\ count' = [count EXCEPT ![q.cred] = IF holder[q.cred] = NoOne THEN @ ELSE q.new]
        <3>1. Counts(p)
            BY <1>1, <1>3, <2>2, ThenChanges DEF UpdateCount, Counts, ToKey, Typed
        <3> QED
            BY <3>1 DEF Does
    <2> QED
        BY <1>3, <2>1, <2>2 DEF UpdateCount
<1>4. CASE Revoke(p)
    <2>1. CASE holder[q.cred] = q.user
        <3>1. Revokes(p)
            BY <1>4, <2>1, RespondEnds DEF Revoke, Revokes, Typed
        <3> QED
            BY <3>1 DEF Does
    <2>2. CASE holder[q.cred] # q.user
        BY <1>4, <2>2, QuitDoes DEF Revoke, db
    <2> QED
        BY <2>1, <2>2
<1> QED
    BY <1>2, <1>3, <1>4

LEMMA AttestDoes ==
    ASSUME Typed, NEW p \in Procs, Attest(p)
    PROVE  Does(p)
<1> DEFINE q == proc[p]
           c == q.cred
<1>1. q \in ProcState /\ q.pc = "attest"
      /\ UNCHANGED << users, challenges, store, contested, gone, tokens, configured, arrivals, drawn >>
    BY DEF Typed, TypeOK, Attest
<1>2. CASE UNCHANGED << holder, count, wins, raced >> /\ \E status : Respond(p, status)
    BY <1>1, <1>2, QuitDoes DEF db, history
<1>3. CASE /\ q.user \in users /\ holder[c] = NoOne
           /\ holder' = [holder EXCEPT ![c] = q.user]
           /\ count' = [count EXCEPT ![c] = q.new]
           /\ raced' = raced \cup {d \in {c} : Writing(p, d)}
           /\ Won(p)
           /\ proc' = Watched(holder', [proc EXCEPT ![p] =
                         IF q.kind = "anonFinish" THEN [@ EXCEPT !.pc = "key", !.then = "mint"]
                         ELSE Idle])
    <2> DEFINE a == [q EXCEPT !.pc = "key"]
               b == [a EXCEPT !.then = "mint"]
               z == IF q.kind = "anonFinish" THEN b ELSE Idle
               procs == [proc EXCEPT ![p] = z]
               more(x) == IF procs[x].pc = "idle" THEN {} ELSE Held(procs[x].user, holder')
    <2>1. /\ b.pc = "key" /\ b.then = "mint" /\ SameRequest(b, q) /\ b.named = q.named
          /\ b.key = q.key /\ b.seen = q.seen
        BY <1>1 DEF ProcState, SameRequest
    <2>2. proc' = Watched(holder', procs)
        BY <1>3
    <2>3. z \in ProcState
        <3>1. a \in ProcState
            BY <1>1 DEF ProcState
        <3> HIDE DEF a
        <3>2. b \in ProcState
            BY <3>1 DEF ProcState
        <3> QED
            BY <3>2, IdleTyped
    <2> HIDE DEF a, b
    <2>4. /\ procs \in [Procs -> ProcState] /\ procs[p] = z
          /\ \A x \in Procs \ {p} : procs[x] = proc[x]
        BY <2>3 DEF Typed, TypeOK
    <2> HIDE DEF z
    <2>5. \A x \in Procs : more(x) \in SUBSET Creds
        BY DEF Held
    <2>6. \A x \in Procs : proc'[x] = [procs[x] EXCEPT !.seen = @ \cup more(x)]
        BY <2>2 DEF Watched
    <2> HIDE DEF procs
    <2>7. \A x \in Procs : /\ proc'[x] \in ProcState
                           /\ SameRequest(proc'[x], procs[x]) /\ SameRest(proc'[x], procs[x])
                           /\ proc'[x].pc = procs[x].pc /\ proc'[x].seen = procs[x].seen \cup more(x)
        <3> TAKE x \in Procs
        <3> DEFINE y == procs[x]
                   m == more(x)
                   n == [y EXCEPT !.seen = @ \cup m]
        <3>1. y \in ProcState /\ m \in SUBSET Creds /\ proc'[x] = n
            BY <2>4, <2>5, <2>6
        <3> HIDE DEF y, m
        <3>2. n \in ProcState /\ n.pc = y.pc /\ n.seen = y.seen \cup m
              /\ SameRequest(n, y) /\ SameRest(n, y)
            BY <3>1 DEF ProcState, SameRequest, SameRest
        <3> QED
            BY <3>1, <3>2 DEF y, m
    <2>8. proc' \in [Procs -> ProcState]
        <3>1. DOMAIN proc' = Procs /\ proc' = [x \in Procs |-> proc'[x]]
            BY <2>2 DEF Watched
        <3> QED
            BY <2>7, <3>1
    <2>9. \A x \in Procs \ {p} : Sees(proc'[x], proc[x])
        BY <2>4, <2>7 DEF Sees
    <2>10. CASE q.kind = "anonFinish"
        <3>1. procs[p] = b
            BY <2>4, <2>10 DEF z
        <3>2. more(p) = Held(q.user, holder')
            BY <2>1, <3>1 DEF SameRequest
        <3>3. /\ SameRequest(proc'[p], q) /\ proc'[p].pc = "key" /\ proc'[p].then = "mint"
              /\ proc'[p].named = q.named /\ proc'[p].key = q.key
              /\ proc'[p].seen = q.seen \cup Held(q.user, holder')
            BY <2>1, <2>7, <3>1, <3>2 DEF SameRequest, SameRest
        <3>4. Attests(p)
            BY <1>1, <1>3, <2>8, <2>9, <2>10, <3>3 DEF Attests
        <3> QED
            BY <3>4 DEF Does
    <2>11. CASE q.kind # "anonFinish"
        <3>1. procs[p] = Idle
            BY <2>4, <2>11 DEF z
        <3>2. [Idle EXCEPT !.seen = @ \cup {}] = Idle
            BY DEF Idle
        <3>3. proc'[p] = Idle
            BY <2>6, <3>1, <3>2 DEF Idle
        <3>4. Attests(p)
            BY <1>1, <1>3, <2>8, <2>9, <2>11, <3>3 DEF Attests
        <3> QED
            BY <3>4 DEF Does
    <2> QED
        BY <2>10, <2>11
<1> QED
    BY <1>2, <1>3 DEF Attest

LEMMA NextDoes ==
    ASSUME Typed, Next
    PROVE  (\E p \in Procs : Does(p)) \/ (\E u \in Users : DeleteUser(u))
<1>0. SUFFICES ASSUME NEW p \in Procs, Arrive(p) \/ Step(p) \/ Fault(p)
               PROVE  Does(p)
    BY DEF Next
<1>2. CASE Arrive(p)
    BY <1>2, ArriveDoes DEF Does
<1>3. CASE Step(p)
    BY <1>3, KeyDoes, SessionDoes, BeginDoes, CredentialDoes, AttestDoes DEF Step
<1>4. CASE Fault(p)
    BY <1>4, KeyDoes, SessionDoes DEF Fault
<1> QED
    BY <1>0, <1>2, <1>3, <1>4

\* The operator's delete of a user: what it does to one credential.
LEMMA DeleteDoes ==
    ASSUME TypeOK, NEW u \in Users, DeleteUser(u)
    PROVE  /\ holder' \in [Creds -> users' \cup {NoOne}] /\ count' \in [Creds -> 0..MaxCount]
           /\ \A c \in Creds : \/ holder'[c] = holder[c] /\ holder[c] # u /\ count'[c] = count[c]
                               \/ holder[c] = u /\ holder'[c] = NoOne /\ count'[c] = 0
           /\ \A v \in Users : Held(v, holder') \subseteq Held(v, holder)
           /\ users \cup gone \subseteq users' \cup gone' /\ users' \subseteq users /\ gone' \subseteq Users
<1>1. /\ holder \in [Creds -> users \cup {NoOne}] /\ count \in [Creds -> 0..MaxCount]
      /\ 0 \in 0..MaxCount /\ NoOne \notin Users /\ gone \subseteq Users
    BY PasskeysAssumption DEF TypeOK
<1>2. /\ users' = users \ {u} /\ gone' = gone \cup {u}
      /\ holder' = [c \in Creds |-> IF holder[c] = u THEN NoOne ELSE holder[c]]
      /\ count' = [c \in Creds |-> IF holder[c] = u THEN 0 ELSE count[c]]
    BY DEF DeleteUser
<1>3. holder' \in [Creds -> users' \cup {NoOne}]
    BY <1>1, <1>2
<1>4. count' \in [Creds -> 0..MaxCount]
    BY <1>1, <1>2
<1>5. \A c \in Creds : \/ holder'[c] = holder[c] /\ holder[c] # u /\ count'[c] = count[c]
                       \/ holder[c] = u /\ holder'[c] = NoOne /\ count'[c] = 0
    BY <1>2
<1>6. \A v \in Users : Held(v, holder') \subseteq Held(v, holder)
    BY <1>1, <1>5 DEF Held
<1>7. users \cup gone \subseteq users' \cup gone' /\ users' \subseteq users /\ gone' \subseteq Users
    BY <1>1, <1>2
<1> QED
    BY <1>3, <1>4, <1>5, <1>6, <1>7

-----------------------------------------------------------------------------
(* Types *)

\* A process, with what it may have been handed out.
Sound(q, drew, keys, out) ==
    /\ Coherent(q) /\ q.chal <= drew /\ q.key <= keys /\ q.token \in out \cup {NoToken}

LEMMA SoundGrows ==
    ASSUME NEW q \in ProcState, NEW d \in Nat, NEW m \in Nat, NEW out,
           NEW e \in Nat, NEW k \in Nat, NEW more,
           Sound(q, d, m, out), d <= e, m <= k, out \subseteq more
    PROVE  Sound(q, e, k, more)
BY DEF Sound, ProcState

LEMMA IdleSound ==
    ASSUME NEW d \in Nat, NEW m \in Nat, NEW out
    PROVE  Sound(Idle, d, m, out)
BY DEF Sound, Idle, Coherent, NoToken, Authed

\* The processes after a step.
LEMMA ProcsKept ==
    ASSUME Typed, NEW p \in Procs, Does(p)
    PROVE  /\ proc' \in [Procs -> ProcState]
           /\ \A x \in Procs : Sound(proc'[x], drawn', made', tokens')
           /\ drawn' \in Nat /\ drawn <= drawn' /\ made' \in Nat /\ made <= made'
           /\ tokens \subseteq tokens'
<1> DEFINE q == proc[p]
           n == proc'[p]
<1>1. /\ q \in ProcState /\ Coherent(q) /\ drawn \in Nat /\ made \in Nat
      /\ hmac \in Nat /\ hmac <= made
      /\ \A x \in Procs : proc[x] \in ProcState /\ Sound(proc[x], drawn, made, tokens)
    BY DEF Typed, TypeOK, Sound
<1>2. /\ drawn' \in Nat /\ drawn <= drawn' /\ made' \in Nat /\ made <= made'
      /\ tokens \subseteq tokens'
    BY <1>1 DEF Does, Quits, Arrives, Fetches, Misses, Sets, Verifies, HandsOut, Creates, Begins,
                Finds, Consumes, Attests, LooksUp, Counts, Revokes, store
<1>3. \A x \in Procs : Sound(proc[x], drawn', made', tokens')
    BY <1>1, <1>2, SoundGrows
<1>4. Sound(Idle, drawn', made', tokens')
    BY <1>2, IdleSound
<1>5. CASE Attests(p)
    <2>1. \A x \in Procs \ {p} : Sound(proc'[x], drawn', made', tokens')
        BY <1>3, <1>5 DEF Attests, Sees, SameRequest, SameRest, Sound, Coherent
    <2>2. Sound(n, drawn', made', tokens')
        BY <1>3, <1>4, <1>5 DEF Attests, SameRequest, Sound, Coherent, Authed
    <2> QED
        BY <1>2, <1>5, <2>1, <2>2 DEF Attests
<1>6. CASE ~Attests(p)
    <2>1. Alone(p)
        BY <1>6 DEF Does, Quits, Arrives, Fetches, Misses, Sets, Verifies, HandsOut, Creates, Begins,
                    Finds, Consumes, LooksUp, Counts, Revokes, Ended, Plainly, Goes
    <2>2. Sound(n, drawn', made', tokens')
        <3>1. CASE Ended(p)
            BY <1>4, <3>1 DEF Ended
        <3>2. CASE Arrives(p)
            <4>1. n.key = 0 /\ n.chal <= drawn' /\ n.token \in tokens' \cup {NoToken}
                BY <3>2 DEF Arrives
            <4>2. Coherent(n)
                BY <3>2 DEF Arrives, Coherent, FirstStep, Kinds, Authed
            <4> QED
                BY <1>2, <4>1, <4>2 DEF Sound
        <3>3. CASE Fetches(p)
            BY <1>1, <1>3, <3>3 DEF Fetches, Goes, SameRequest, Sound, Coherent, Authed, store
        <3>4. CASE Misses(p)
            BY <1>1, <1>3, <3>4 DEF Misses, Plainly, Goes, SameRequest, SameRest, Sound, Coherent
        <3>5. CASE Sets(p)
            BY <1>1, <1>3, <3>5 DEF Sets, Goes, SameRequest, Sound, Coherent, Authed
        <3>6. CASE Verifies(p)
            BY <1>1, <1>3, <3>6 DEF Verifies, AfterAuth, Goes, SameRequest, Sound, Coherent, Authed
        <3>7. CASE Creates(p) /\ Plainly(p, "find")
            BY <1>1, <1>3, <3>7 DEF Creates, Plainly, Goes, SameRequest, SameRest, Sound, Coherent, Authed
        <3>8. CASE Finds(p)
            BY <1>1, <1>3, <3>8 DEF Finds, Goes, SameRequest, Sound, Coherent, Authed
        <3>9. CASE Consumes(p) /\ ~Ended(p)
            BY <1>1, <1>3, <3>9 DEF Consumes, Plainly, Goes, SameRequest, SameRest, Sound, Coherent, Authed
        <3>10. CASE LooksUp(p)
            BY <1>1, <1>3, <3>10 DEF LooksUp, Goes, SameRequest, Sound, Coherent, Authed
        <3>11. CASE Counts(p)
            BY <1>1, <1>3, <3>11 DEF Counts, Goes, SameRequest, Sound, Coherent, Authed
        <3> QED
            BY <1>6, <3>1, <3>2, <3>3, <3>4, <3>5, <3>6, <3>7, <3>8, <3>9, <3>10, <3>11
               DEF Does, Quits, HandsOut, Creates, Begins, Revokes
    <2> QED
        BY <1>2, <1>3, <2>1, <2>2 DEF Alone
<1> QED
    BY <1>5, <1>6

-----------------------------------------------------------------------------
(* A session is earned *)

\* On its way to a session, with nothing left to be refused for.
Winning(q) == q.pc \in {"count", "mint"} \/ (q.pc \in {"key", "set"} /\ q.then = "mint")

Earned(q, known, hold) ==
    /\ q.pc # "idle" => Held(q.user, hold) \subseteq q.seen
    /\ Winning(q) => q.cred \in q.seen /\ q.user \in known
    /\ q.pc = "mint" => q.key # 0

\* The users that are there, and those that were.
Known == users \cup gone

AllEarned == \A p \in Procs : Earned(proc[p], Known, holder)

LEMMA EarnedGrows ==
    ASSUME NEW q, NEW known, NEW more, NEW hold, NEW less,
           Earned(q, known, hold), known \subseteq more, Held(q.user, less) \subseteq Held(q.user, hold)
    PROVE  Earned(q, more, less)
BY DEF Earned

LEMMA IdleEarned == \A known, hold : Earned(Idle, known, hold)
BY DEF Earned, Idle, Winning

LEMMA EarnedKept ==
    ASSUME Typed, AllEarned, NEW p \in Procs, Does(p)
    PROVE  AllEarned'
<1> DEFINE q == proc[p]
           n == proc'[p]
<1>1. /\ q \in ProcState /\ Coherent(q) /\ n \in ProcState
      /\ holder \in [Creds -> users \cup {NoOne}] /\ made \in Nat
      /\ \A x \in Procs : Earned(proc[x], Known, holder)
    BY ProcsKept DEF Typed, TypeOK, AllEarned
<1>2. CASE Attests(p)
    <2>1. Known' = Known /\ users \subseteq Known
        BY <1>2 DEF Attests, Known
    <2>2. \A x \in Procs \ {p} : Earned(proc'[x], Known', holder')
        <3> TAKE x \in Procs \ {p}
        <3>1. Sees(proc'[x], proc[x]) /\ Earned(proc[x], Known, holder)
            BY <1>1, <1>2 DEF Attests
        <3> DEFINE z == proc'[x]
                   y == proc[x]
        <3>2. z.user = y.user /\ z.pc = y.pc /\ z.cred = y.cred /\ z.then = y.then /\ z.key = y.key
            BY <3>1 DEF Sees, SameRequest, SameRest
        <3>3. z.pc # "idle" => Held(z.user, holder') \subseteq z.seen
            BY <3>1, <3>2 DEF Sees
        <3>4. y.seen \subseteq z.seen
            BY <3>1 DEF Sees
        <3> QED
            BY <2>1, <3>1, <3>2, <3>3, <3>4 DEF Earned, Winning
    <2>3. Earned(n, Known', holder')
        <3>1. CASE n = Idle
            BY <3>1, IdleEarned
        <3>2. CASE n # Idle
            <4>1. q.cred \in Creds
                BY <1>1, <1>2 DEF Attests, Coherent
            <4>2. q.cred \in Held(q.user, holder')
                BY <1>1, <1>2, <4>1 DEF Attests, Held
            <4>3. /\ n.user = q.user /\ n.cred = q.cred /\ n.pc = "key"
                  /\ n.seen = q.seen \cup Held(q.user, holder')
                BY <1>2, <3>2 DEF Attests, SameRequest
            <4>4. q.user \in Known'
                BY <1>2, <2>1 DEF Attests
            <4> QED
                BY <4>2, <4>3, <4>4 DEF Earned
        <3> QED
            BY <3>1, <3>2
    <2> QED
        BY <2>2, <2>3 DEF AllEarned
<1>3. CASE ~Attests(p)
    <2>1. Alone(p)
        BY <1>3 DEF Does, Quits, Arrives, Fetches, Misses, Sets, Verifies, HandsOut, Creates, Begins,
                    Finds, Consumes, LooksUp, Counts, Revokes, Ended, Plainly, Goes
    <2>2. Known \subseteq Known'
        BY <1>3 DEF Does, Quits, Arrives, Fetches, Misses, Sets, Verifies, HandsOut, Creates, Begins,
                    Finds, Consumes, LooksUp, Counts, Revokes, db, history, Known
    <2>3. \A u \in Users : Held(u, holder') \subseteq Held(u, holder)
        <3>1. CASE Revokes(p)
            BY <1>1, <3>1, PasskeysAssumption DEF Revokes, Held
        <3>2. CASE ~Revokes(p)
            <4>1. holder' = holder
                BY <1>3, <3>2 DEF Does, Quits, Arrives, Fetches, Misses, Sets, Verifies, HandsOut, Creates,
                         Begins, Finds, Consumes, LooksUp, Counts, db
            <4> QED
                BY <4>1
        <3> QED
            BY <3>1, <3>2
    <2>4. \A x \in Procs : Earned(proc[x], Known', holder')
        <3> TAKE x \in Procs
        <3>1. Coherent(proc[x]) /\ Earned(proc[x], Known, holder)
            BY <1>1 DEF Typed
        <3>2. proc[x].pc # "idle" => Held(proc[x].user, holder') \subseteq Held(proc[x].user, holder)
            BY <2>3, <3>1 DEF Coherent
        <3> QED
            BY <2>2, <3>1, <3>2 DEF Earned
    <2>5. Earned(n, Known', holder')
        <3>0. Earned(q, Known', holder')
            BY <2>4
        <3>1. CASE Ended(p)
            BY <3>1, IdleEarned DEF Ended
        <3>2. CASE Arrives(p)
            BY <3>2 DEF Arrives, FirstStep, Earned, Winning, db
        <3>3. CASE Fetches(p)
            BY <1>1, <3>0, <3>3 DEF Fetches, Goes, SameRequest, Earned, Winning, Coherent
        <3>4. CASE Misses(p)
            BY <3>0, <3>4 DEF Misses, Plainly, Goes, SameRequest, SameRest, Earned, Winning
        <3>5. CASE Sets(p)
            BY <1>1, <3>0, <3>5 DEF Sets, Goes, SameRequest, Earned, Winning, Coherent
        <3>6. CASE Verifies(p)
            BY <1>1, <3>0, <3>6 DEF Verifies, AfterAuth, Goes, SameRequest, Earned, Winning, Coherent, Authed
        <3>7. CASE Creates(p) /\ Plainly(p, "find")
            BY <3>0, <3>7 DEF Creates, Plainly, Goes, SameRequest, SameRest, Earned, Winning
        <3>8. CASE Finds(p)
            BY <3>0, <3>8 DEF Finds, Goes, SameRequest, Earned, Winning
        <3>9. CASE Consumes(p) /\ ~Ended(p)
            BY <3>0, <3>9 DEF Consumes, Plainly, Goes, SameRequest, SameRest, Earned, Winning
        <3>10. CASE LooksUp(p)
            <4>1. q.cred \in Held(q.user, holder)
                BY <1>1, <3>10 DEF LooksUp, Registered, Held, Coherent
            <4>2. q.user \in Known
                BY <1>1, <3>10, PasskeysAssumption DEF LooksUp, Registered, Coherent, Known
            <4>3. q.cred \in q.seen
                BY <1>1, <3>10, <4>1 DEF LooksUp, Earned
            <4> QED
                BY <2>2, <3>0, <3>10, <4>2, <4>3 DEF LooksUp, Goes, SameRequest, Earned, Winning
        <3>11. CASE Counts(p)
            BY <3>0, <3>11 DEF Counts, Goes, SameRequest, Earned, Winning
        <3> QED
            BY <1>3, <3>1, <3>2, <3>3, <3>4, <3>5, <3>6, <3>7, <3>8, <3>9, <3>10, <3>11
               DEF Does, Quits, HandsOut, Creates, Begins, Revokes
    <2> QED
        BY <2>1, <2>4, <2>5 DEF Alone, AllEarned
<1> QED
    BY <1>2, <1>3

LEMMA EarnedDeleted ==
    ASSUME Typed, AllEarned, NEW u \in Users, DeleteUser(u)
    PROVE  AllEarned'
<1>1. \A v \in Users : Held(v, holder') \subseteq Held(v, holder)
    BY DeleteDoes DEF Typed
<1>2. Known \subseteq Known' /\ proc' = proc
    BY DeleteDoes DEF Typed, Known, DeleteUser
<1>3. ASSUME NEW x \in Procs
      PROVE  Earned(proc[x], Known', holder')
    <2>1. Coherent(proc[x]) /\ Earned(proc[x], Known, holder)
        BY DEF Typed, AllEarned
    <2> QED
        BY <1>1, <1>2, <2>1 DEF Earned, Coherent
<1> QED
    BY <1>2, <1>3 DEF AllEarned

-----------------------------------------------------------------------------
(* Types: an inductive invariant *)

LEMMA RowsGrow ==
    ASSUME NEW m \in Nat, NEW n \in Nat, m <= n
    PROVE  Rows(m) \subseteq Rows(n)
BY DEF Rows

LEMMA NewRow ==
    ASSUME Typed, NEW p \in Procs, proc[p].user \in Users
    PROVE  /\ Challenge(p) \in Rows(drawn + 1) /\ Challenge(p).id = drawn + 1
           /\ \A ch \in challenges : ch.id \in 1..drawn
<1>1. drawn \in Nat /\ drawn + 1 \in 1..(drawn + 1) /\ challenges \subseteq Rows(drawn)
    BY DEF Typed, TypeOK
<1>2. \A ch \in Rows(drawn) : ch.id \in 1..drawn
    BY DEF Rows, Row
<1>3. CASE proc[p].kind = "loginBegin"
    BY <1>1, <1>2, <1>3 DEF Challenge, Rows, Row
<1>4. CASE proc[p].kind # "loginBegin"
    BY <1>1, <1>2, <1>4 DEF Challenge, Rows, Row
<1> QED
    BY <1>3, <1>4

LEMMA DatabaseKept ==
    ASSUME Typed, AllEarned, NEW p \in Procs, Does(p)
    PROVE  /\ users' \subseteq Users
           /\ holder' \in [Creds -> users' \cup {NoOne}]
           /\ count' \in [Creds -> 0..MaxCount]
           /\ challenges' \subseteq Rows(drawn') /\ Unique(challenges')
<1> DEFINE q == proc[p]
<1>1. /\ q \in ProcState /\ Coherent(q) /\ users \subseteq Users
      /\ holder \in [Creds -> users \cup {NoOne}] /\ count \in [Creds -> 0..MaxCount]
      /\ challenges \subseteq Rows(drawn) /\ Unique(challenges) /\ drawn \in Nat
      /\ MaxCount \in Nat /\ q.new \in 0..MaxCount
    BY PasskeysAssumption DEF Typed, TypeOK, ProcState
<1>2. CASE UNCHANGED db /\ UNCHANGED drawn
    BY <1>1, <1>2 DEF db
<1>3. CASE Creates(p)
    <2>1. q.user \in Users /\ users' = users \cup {q.user}
        BY <1>1, <1>3 DEF Creates, Coherent
    <2> QED
        BY <1>1, <1>3, <2>1 DEF Creates
<1>4. CASE Begins(p)
    <2>1. q.user \in Users
        BY <1>1, <1>4 DEF Begins, Coherent
    <2>2. Rows(drawn) \subseteq Rows(drawn + 1)
        BY <1>1, RowsGrow
    <2>3. Unique(challenges')
        BY <1>1, <1>4, <2>1, NewRow DEF Begins, Unique
    <2> QED
        BY <1>1, <1>4, <2>1, <2>2, <2>3, NewRow DEF Begins
<1>5. CASE Consumes(p)
    <2>1. challenges' \subseteq challenges
        BY <1>5 DEF Consumes, ChallengesLeft
    <2> QED
        BY <1>1, <1>5, <2>1 DEF Consumes, Unique
<1>6. CASE Attests(p)
    BY <1>1, <1>6 DEF Attests
<1>7. CASE Counts(p)
    BY <1>1, <1>7 DEF Counts
<1>8. CASE Revokes(p)
    <2>1. UNCHANGED << users, challenges, drawn >>
        BY <1>8 DEF Revokes
    <2>2. holder' \in [Creds -> users \cup {NoOne}]
        BY <1>1, <1>8 DEF Revokes
    <2>3. count' \in [Creds -> 0..MaxCount]
        <3>1. count' = [count EXCEPT ![q.cred] = 0] /\ 0 \in 0..MaxCount
            BY <1>1, <1>8 DEF Revokes
        <3> QED
            BY <1>1, <3>1
    <2> QED
        BY <1>1, <2>1, <2>2, <2>3
<1> QED
    BY <1>2, <1>3, <1>4, <1>5, <1>6, <1>7, <1>8
       DEF Does, Quits, Arrives, Fetches, Misses, Sets, Verifies, HandsOut, Finds, LooksUp

LEMMA SessionsKept ==
    ASSUME Typed, AllEarned, NEW p \in Procs, Does(p)
    PROVE  /\ hmac' \in 0..made' /\ made' \in Nat
           /\ tokens' \subseteq [user : Known', key : 1..made'] /\ gone' \subseteq Users
<1> DEFINE q == proc[p]
<1>1. /\ q \in ProcState /\ Coherent(q) /\ made \in Nat /\ hmac \in 0..made
      /\ tokens \subseteq [user : Known, key : 1..made] /\ q.key \in Nat /\ q.key <= made
      /\ q.token \in tokens \cup {NoToken}
    BY DEF Typed, TypeOK, ProcState, Known
<1>0. gone' = gone /\ users \subseteq users' /\ gone \subseteq Users
    BY DEF Does, Quits, Arrives, Fetches, Misses, Sets, Verifies, HandsOut, Creates, Begins, Finds,
           Consumes, Attests, LooksUp, Counts, Revokes, db, history, Typed, TypeOK
<1>10. Known \subseteq Known'
    BY <1>0 DEF Known
<1>2. CASE Sets(p)
    <2>1. tokens' = tokens /\ made' = made + 1 /\ hmac' = made + 1
        BY <1>2 DEF Sets, db
    <2> QED
        BY <1>0, <1>1, <1>10, <2>1
<1>3. ASSUME NEW u \in Users, HandsOut(p, u)
      PROVE  u \in Known /\ q.key \in 1..made
    <2>1. CASE q.pc = "again"
        <3>1. q.token \in tokens
            BY <1>1, <2>1 DEF Coherent
        <3> QED
            BY <1>1, <1>3, <2>1, <3>1 DEF HandsOut
    <2>2. CASE q.pc = "mint"
        <3>1. q.user \in Known /\ q.key # 0
            BY <2>2 DEF AllEarned, Earned, Winning
        <3> QED
            BY <1>1, <1>3, <2>2, <3>1 DEF HandsOut
    <2> QED
        BY <1>3, <2>1, <2>2 DEF HandsOut
<1>4. CASE \E u \in Users : HandsOut(p, u)
    <2>1. PICK u \in Users : HandsOut(p, u)
        BY <1>4
    <2>2. /\ tokens' = tokens \cup {[user |-> u, key |-> q.key]}
          /\ made' = made /\ hmac' = hmac
        BY <2>1 DEF HandsOut, db, store
    <2> QED
        BY <1>0, <1>1, <1>3, <1>10, <2>1, <2>2
<1>5. CASE UNCHANGED << hmac, made, tokens >>
    BY <1>0, <1>1, <1>5, <1>10
<1> QED
    BY <1>2, <1>4, <1>5 DEF Does, Quits, Arrives, Fetches, Misses, Verifies, Creates, Begins, Finds,
          Consumes, Attests, LooksUp, Counts, Revokes, db, store

LEMMA HistoryKept ==
    ASSUME Typed, NEW p \in Procs, Does(p)
    PROVE  /\ configured' \in BOOLEAN /\ overlap' \in BOOLEAN
           /\ arrivals' \in 0..MaxArrivals /\ faults' \in 0..MaxFaults
           /\ wins' \in [1..(MaxOpen + MaxArrivals) -> Nat]
           /\ contested' \subseteq 1..drawn' /\ raced' \subseteq Creds
<1> DEFINE q == proc[p]
           W == 1..(MaxOpen + MaxArrivals)
<1>1. /\ q \in ProcState /\ Coherent(q) /\ drawn \in Nat
      /\ configured \in BOOLEAN /\ overlap \in BOOLEAN
      /\ arrivals \in 0..MaxArrivals /\ faults \in 0..MaxFaults
      /\ wins \in [W -> Nat] /\ contested \subseteq 1..drawn /\ raced \subseteq Creds
      /\ drawn <= drawn' /\ drawn' \in Nat
    BY ProcsKept DEF Typed, TypeOK
<1>2. configured' = configured /\ overlap' \in BOOLEAN
      /\ arrivals' \in 0..MaxArrivals /\ faults' \in 0..MaxFaults
    BY <1>1 DEF Does, Quits, Arrives, Fetches, Misses, Sets, Verifies, HandsOut, Creates, Begins,
                Finds, Consumes, Attests, LooksUp, Counts, Revokes, store
<1>3. wins' \in [W -> Nat]
    <2>1. CASE Won(p)
        <3> DEFINE more == wins[q.chal] + 1
        <3>1. q.chal \in W => more \in Nat
            BY <1>1
        <3>2. wins' = [wins EXCEPT ![q.chal] = more]
            BY <2>1 DEF Won
        <3> HIDE DEF more
        <3> QED
            BY <1>1, <3>1, <3>2
    <2>2. CASE wins' = wins
        BY <1>1, <2>2
    <2> QED
        BY <2>1, <2>2 DEF Does, Quits, Arrives, Fetches, Misses, Sets, Verifies, HandsOut, Creates, Begins,
                Finds, Consumes, Attests, LooksUp, Counts, Revokes, history
<1>4. contested' \subseteq 1..drawn'
    <2>1. CASE Finds(p)
        <3>1. q.chal \in 1..drawn
            BY <2>1 DEF Finds, Wanted, Typed, TypeOK, Rows, Row
        <3>2. contested' \subseteq contested \cup {q.chal}
            BY <2>1 DEF Finds
        <3> QED
            BY <1>1, <3>1, <3>2
    <2>2. CASE contested' = contested
        BY <1>1, <2>2
    <2> QED
        BY <2>1, <2>2 DEF Does, Quits, Arrives, Fetches, Misses, Sets, Verifies, HandsOut, Creates, Begins,
                Consumes, Attests, LooksUp, Counts, Revokes, history
<1>5. raced' \subseteq Creds
    <2>1. CASE Attests(p) \/ LooksUp(p)
        <3>1. q.cred \in Creds
            BY <1>1, <2>1 DEF Attests, LooksUp, Coherent
        <3>2. raced' \subseteq raced \cup {q.cred}
            BY <2>1 DEF Attests, LooksUp
        <3> QED
            BY <1>1, <3>1, <3>2
    <2>2. CASE raced' = raced
        BY <1>1, <2>2
    <2> QED
        BY <2>1, <2>2 DEF Does, Quits, Arrives, Fetches, Misses, Sets, Verifies, HandsOut, Creates, Begins,
                Finds, Consumes, Counts, Revokes, history
<1> QED
    BY <1>1, <1>2, <1>3, <1>4, <1>5

\* What every step keeps.
Inv == Typed /\ AllEarned

LEMMA InvInit == Init => Inv
<1> SUFFICES ASSUME Init PROVE Inv
    OBVIOUS
<1>1. proc \in [Procs -> ProcState] /\ \A p \in Procs : proc[p] = Idle
    BY IdleTyped DEF Init
<1>2. drawn \in Nat /\ made \in Nat /\ hmac \in 0..made
    BY PasskeysAssumption DEF Init
<1>3. \A p \in Procs : Sound(proc[p], drawn, made, tokens)
    BY <1>1, <1>2, IdleSound
<1>4. gone \subseteq Users /\ tokens \subseteq [user : users \cup gone, key : 1..made]
    BY DEF Init
<1>5. \A p \in Procs : proc[p].chal <= drawn /\ proc[p].key <= made
                       /\ proc[p].token \in tokens \cup {NoToken} /\ Coherent(proc[p])
    BY <1>3 DEF Sound
<1>6. /\ users \subseteq Users /\ holder \in [Creds -> users \cup {NoOne}]
      /\ count \in [Creds -> 0..MaxCount]
      /\ challenges \subseteq Rows(drawn) /\ Unique(challenges)
    BY PasskeysAssumption DEF Init
<1>8. /\ configured \in BOOLEAN /\ overlap \in BOOLEAN
      /\ contested \subseteq 1..drawn /\ raced \subseteq Creds
    BY DEF Init
<1>9. arrivals \in 0..MaxArrivals /\ faults \in 0..MaxFaults
    BY PasskeysAssumption DEF Init
<1>10. wins \in [1..(MaxOpen + MaxArrivals) -> Nat]
    BY DEF Init
<1>7. AllEarned
    BY <1>1, IdleEarned DEF AllEarned
<1> QED
    BY <1>1, <1>2, <1>4, <1>5, <1>6, <1>7, <1>8, <1>9, <1>10 DEF Inv, Typed, TypeOK

LEMMA InvStep == Inv /\ [Next]_vars => Inv'
<1> SUFFICES ASSUME Inv, [Next]_vars PROVE Inv'
    OBVIOUS
<1>1. ASSUME NEW p \in Procs, Does(p)
      PROVE  Inv'
    <2>1. Does(p)
        BY <1>1
    <2>2. \A x \in Procs : Sound(proc'[x], drawn', made', tokens')
        BY <2>1, ProcsKept DEF Inv
    <2>3. \A x \in Procs : proc'[x].chal <= drawn' /\ proc'[x].key <= made'
                           /\ proc'[x].token \in tokens' \cup {NoToken} /\ Coherent(proc'[x])
        BY <2>2 DEF Sound
    <2>4. TypeOK'
        BY <2>1, <2>3, ProcsKept, DatabaseKept, SessionsKept, HistoryKept DEF Inv, TypeOK, Known
    <2>5. (\A x \in Procs : Coherent(proc[x]))'
        BY <2>3 DEF Coherent
    <2> QED
        BY <2>1, <2>4, <2>5, EarnedKept DEF Inv, Typed
<1>2. CASE UNCHANGED vars
    BY <1>2 DEF vars, db, store, history, Inv, Typed, TypeOK, AllEarned, Known, Earned, Winning, Held, Coherent,
                Unique, Rows, Row
<1>3. ASSUME NEW u \in Users, DeleteUser(u)
      PROVE  Inv'
    <2>1. TypeOK /\ UNCHANGED << challenges, store, wins, contested, raced, tokens, proc, configured, arrivals, drawn >>
        BY <1>3 DEF Inv, Typed, DeleteUser
    <2>2. /\ holder' \in [Creds -> users' \cup {NoOne}] /\ count' \in [Creds -> 0..MaxCount]
          /\ users \cup gone \subseteq users' \cup gone' /\ users' \subseteq users /\ gone' \subseteq Users
        BY <1>3, <2>1, DeleteDoes
    <2>3. tokens' \subseteq [user : users' \cup gone', key : 1..made'] /\ users' \subseteq Users
        BY <2>1, <2>2 DEF TypeOK, store
    <2>4. /\ challenges' \subseteq Rows(drawn') /\ Unique(challenges')
          /\ hmac' \in 0..made' /\ made' \in Nat /\ proc' \in [Procs -> ProcState]
          /\ configured' \in BOOLEAN /\ overlap' \in BOOLEAN
          /\ arrivals' \in 0..MaxArrivals /\ drawn' \in Nat /\ faults' \in 0..MaxFaults
        BY <2>1 DEF TypeOK, store
    <2>5. \A p \in Procs : /\ proc'[p].chal <= drawn' /\ proc'[p].key <= made'
                            /\ proc'[p].token \in tokens' \cup {NoToken}
        BY <2>1 DEF TypeOK, store
    <2>6. wins' \in [1..(MaxOpen + MaxArrivals) -> Nat] /\ contested' \subseteq 1..drawn' /\ raced' \subseteq Creds
        BY <2>1 DEF TypeOK
    <2>7. TypeOK'
        BY <2>2, <2>3, <2>4, <2>5, <2>6 DEF TypeOK
    <2>8. (\A p \in Procs : Coherent(proc[p]))'
        BY <2>1 DEF Inv, Typed, Coherent
    <2> QED
        BY <1>3, <2>7, <2>8, EarnedDeleted DEF Inv, Typed
<1> QED
    BY <1>1, <1>2, <1>3, NextDoes DEF Inv

\* In every state of a run the types hold, the rows refer to each other and what a
\* request holds was handed out; whoever is on the way to a session holds a passkey.
THEOREM PasskeysInvariant == Spec => []Inv
BY InvInit, InvStep, PTL DEF Spec

\* The tables and the processes of users.py and its helpers stay well-typed: a
\* passkey's user has a row, a challenge names whom its purpose says.
THEOREM PasskeysTyped == Spec => []TypeOK
<1>1. Inv => TypeOK
    BY DEF Inv, Typed
<1> QED
    BY <1>1, PasskeysInvariant, PTL

\* Who is signed a session offered a credential that was registered for this user
\* at some time since the request came (passkey_login_finish, register-finish).
THEOREM SessionsEarned == Spec => []SessionEarned
<1>1. Inv => SessionEarned
    BY DEF Inv, AllEarned, Earned, Winning, SessionEarned
<1> QED
    BY <1>1, PasskeysInvariant, PTL

-----------------------------------------------------------------------------
(* Challenges are for somebody *)

Bound(q) ==
    q.kind = "loginFinish" =>
        /\ q.pc = "consume" => q.named \in Users
        /\ q.pc \in {"look", "count", "key", "set", "mint"} => q.named = q.user

AllBound == \A p \in Procs : Bound(proc[p])

LEMMA BoundKept ==
    ASSUME Typed, AllBound, NEW p \in Procs, Does(p)
    PROVE  AllBound'
<1> DEFINE q == proc[p]
           n == proc'[p]
<1>1. Coherent(q) /\ \A x \in Procs : Bound(proc[x])
    BY DEF Typed, AllBound
<1>2. \A x \in Procs \ {p} : Bound(proc'[x])
    BY <1>1 DEF Does, Quits, Arrives, Fetches, Misses, Sets, Verifies, HandsOut, Creates, Begins,
                Finds, Consumes, Attests, Sees, LooksUp, Counts, Revokes, Ended, Plainly, Goes, Alone,
                Bound, SameRequest, SameRest
<1> SUFFICES Bound(n)
    BY <1>2 DEF AllBound
<1>3. Bound(Idle)
    BY DEF Bound, Idle
<1>4. CASE Ended(p)
    BY <1>3, <1>4 DEF Ended
<1>5. CASE Arrives(p)
    BY <1>5 DEF Arrives, Bound, FirstStep, Authed, Kinds
<1>6. CASE Finds(p)
    <2>1. PICK ch \in Wanted(p) : n.named = ch.user
        BY <1>6 DEF Finds
    <2>2. ch \in Rows(drawn) /\ ch.purpose = Purpose(p)
        BY <2>1 DEF Wanted, Typed, TypeOK
    <2>3. q.kind = "loginFinish" => ch.user \in Users
        BY <2>2 DEF Rows, Row, Purpose
    <2> QED
        BY <1>6, <2>1, <2>3 DEF Finds, Goes, SameRequest, Bound
<1>7. CASE Consumes(p) /\ ~Ended(p)
    BY <1>1, <1>7, PasskeysAssumption DEF Consumes, Anothers, Plainly, Goes, SameRequest, SameRest, Bound
<1>8. CASE Fetches(p) \/ Misses(p) \/ Sets(p) \/ Verifies(p)
    BY <1>1, <1>8 DEF Fetches, Misses, Sets, Verifies, Plainly, Goes, SameRequest, SameRest, Bound,
                      Coherent, Authed
<1>9. CASE Creates(p) \/ LooksUp(p) \/ Counts(p)
    BY <1>1, <1>4, <1>9 DEF Creates, LooksUp, Counts, Plainly, Goes, SameRequest, SameRest, Bound
<1>10. CASE Attests(p)
    BY <1>3, <1>10 DEF Attests, SameRequest, Bound
<1> QED
    BY <1>4, <1>5, <1>6, <1>7, <1>8, <1>9, <1>10 DEF Does, Quits, HandsOut, Begins, Revokes

\* A login's challenge only gets the user in it was issued for (consume_challenge).
THEOREM ChallengesBound == Spec => []ChallengeBound
<1>1. Init => AllBound
    BY DEF Init, AllBound, Bound, Idle
<1>2. Inv /\ AllBound /\ [Next]_vars => AllBound'
    <2>1. CASE Next
        <3>1. ASSUME NEW u \in Users, DeleteUser(u), AllBound PROVE AllBound'
            BY <3>1 DEF DeleteUser, AllBound, Bound
        <3> QED
            BY <2>1, <3>1, NextDoes, BoundKept DEF Inv
    <2>2. CASE UNCHANGED vars
        BY <2>2 DEF vars, AllBound, Bound
    <2> QED
        BY <2>1, <2>2
<1>3. AllBound => ChallengeBound
    BY DEF AllBound, Bound, ChallengeBound
<1> QED
    BY <1>1, <1>2, <1>3, PasskeysInvariant, PTL DEF Spec

-----------------------------------------------------------------------------
(* Sessions hold *)

Calm == faults = 0 /\ ~overlap

\* Where it needs the key, a process has the one of the store, and where it makes
\* one, there is none.
Keyed(q, key) ==
    /\ q.pc = "set" => key = 0
    /\ q.pc \in {"verify", "again", "mint"} => q.key = key /\ key # 0

\* While nothing fails there is one key, and one process at most that makes it.
OneKey ==
    Calm => /\ \A p \in Procs : Keyed(proc[p], hmac)
            /\ \A p, q \in Procs : proc[p].pc = "set" /\ proc[q].pc = "set" => p = q
            /\ \A t \in tokens : t.key = hmac

LEMMA CalmBefore ==
    ASSUME Typed, NEW p \in Procs, Does(p), Calm'
    PROVE  Calm
<1>1. faults \in Nat /\ faults' = 0 /\ overlap' = FALSE /\ overlap \in BOOLEAN
    BY HistoryKept DEF Calm, Typed, TypeOK
<1>2. CASE Misses(p)
    BY <1>1, <1>2 DEF Misses, Calm
<1>3. CASE Quits(p)
    BY <1>1, <1>3 DEF Quits, Calm
<1>4. CASE Sets(p)
    BY <1>1, <1>4 DEF Sets, Calm
<1>5. CASE UNCHANGED store
    BY <1>1, <1>5 DEF store, Calm
<1> QED
    BY <1>2, <1>3, <1>4, <1>5 DEF Does, Arrives, Fetches, Verifies, HandsOut, Creates, Begins,
                Finds, Consumes, Attests, LooksUp, Counts, Revokes

LEMMA OneKeyKept ==
    ASSUME Typed, OneKey, NEW p \in Procs, Does(p)
    PROVE  OneKey'
<1> SUFFICES ASSUME Calm'
             PROVE  /\ \A x \in Procs : Keyed(proc'[x], hmac')
                    /\ \A x, y \in Procs : proc'[x].pc = "set" /\ proc'[y].pc = "set" => x = y
                    /\ \A t \in tokens' : t.key = hmac'
    BY DEF OneKey, Keyed
<1> DEFINE q == proc[p]
           n == proc'[p]
<1>1. /\ Coherent(q) /\ q.then \in {"verify", "again", "mint"} /\ made \in Nat
      /\ tokens \subseteq [user : users \cup gone, key : 1..made]
    BY DEF Typed, TypeOK, ProcState
<1>2. Calm
    BY CalmBefore
<1>3. /\ \A x \in Procs : Keyed(proc[x], hmac)
      /\ \A x, y \in Procs : proc[x].pc = "set" /\ proc[y].pc = "set" => x = y
      /\ \A t \in tokens : t.key = hmac
    BY <1>2 DEF OneKey
<1>4. \A x \in Procs \ {p} : proc'[x].pc = proc[x].pc /\ proc'[x].key = proc[x].key
    BY DEF Does, Quits, Arrives, Fetches, Misses, Sets, Verifies, HandsOut, Creates, Begins,
                Finds, Consumes, Attests, Sees, LooksUp, Counts, Revokes, Ended, Plainly, Goes, Alone,
                SameRest
<1>5. ASSUME hmac' = hmac
      PROVE  \A x \in Procs \ {p} : Keyed(proc'[x], hmac')
    BY <1>3, <1>4, <1>5 DEF Keyed
<1>6. ASSUME n.pc # "set"
      PROVE  \A x, y \in Procs : proc'[x].pc = "set" /\ proc'[y].pc = "set" => x = y
    <2> TAKE x \in Procs, y \in Procs
    <2> HAVE proc'[x].pc = "set" /\ proc'[y].pc = "set"
    <2>1. x \in Procs \ {p} /\ y \in Procs \ {p}
        BY <1>6
    <2> QED
        BY <1>3, <1>4, <2>1
<1>7. CASE Sets(p)
    <2>1. hmac = 0 /\ hmac' = made + 1 /\ n.pc = q.then /\ n.key = made + 1 /\ tokens' = tokens
        BY <1>3, <1>7 DEF Sets, Goes, Keyed
    <2>2. tokens = {}
        <3> SUFFICES ASSUME NEW t \in tokens PROVE FALSE
            OBVIOUS
        <3>1. t.key \in 1..made /\ t.key = 0
            BY <1>1, <1>3, <2>1
        <3> QED
            BY <1>1, <3>1
    <2>3. Keyed(n, hmac') /\ n.pc # "set"
        BY <1>1, <2>1 DEF Keyed
    <2>4. ASSUME NEW x \in Procs \ {p} PROVE Keyed(proc'[x], hmac')
        <3>1. proc[x].pc # "set" /\ proc[x].pc \notin {"verify", "again", "mint"}
            BY <1>3, <1>7, <2>1 DEF Sets, Keyed
        <3> QED
            BY <1>4, <3>1 DEF Keyed
    <2> QED
        BY <1>6, <2>1, <2>2, <2>3, <2>4
<1>8. CASE Misses(p)
    <2>1. hmac = 0 /\ hmac' = hmac /\ n.pc = "set" /\ tokens' = tokens
        <3>1. faults = 0 /\ faults' = 0
            BY <1>2 DEF Calm
        <3> QED
            BY <1>8, <3>1 DEF Misses, Plainly, Goes
    <2>2. \A x \in Procs \ {p} : proc[x].pc # "set"
        <3>1. faults = 0 /\ faults' = 0 /\ ~overlap'
            BY <1>2 DEF Calm
        <3>2. overlap' = (overlap \/ \E x \in Procs \ {p} : proc[x].pc = "set")
            BY <1>8, <3>1 DEF Misses
        <3> QED
            BY <3>1, <3>2, Zenon
    <2>3. Keyed(n, hmac')
        BY <2>1 DEF Keyed
    <2>4. \A x, y \in Procs : proc'[x].pc = "set" /\ proc'[y].pc = "set" => x = y
        BY <1>4, <2>2
    <2> QED
        BY <1>3, <1>5, <2>1, <2>3, <2>4
<1>9. CASE Fetches(p)
    <2>1. n.pc = q.then /\ n.key = hmac /\ hmac # 0 /\ hmac' = hmac /\ tokens' = tokens
        BY <1>9 DEF Fetches, Goes, store
    <2>2. Keyed(n, hmac') /\ n.pc # "set"
        BY <1>1, <2>1 DEF Keyed
    <2> QED
        BY <1>3, <1>5, <1>6, <2>1, <2>2
<1>10. CASE \E u \in Users : HandsOut(p, u)
    <2>1. PICK u \in Users : HandsOut(p, u)
        BY <1>10
    <2>2. q.key = hmac
        BY <1>3, <2>1 DEF HandsOut, Keyed
    <2>3. hmac' = hmac /\ \A t \in tokens' : t.key = hmac
        BY <1>3, <2>1, <2>2 DEF HandsOut, store
    <2>4. Keyed(n, hmac') /\ n.pc # "set"
        BY <2>1 DEF HandsOut, Ended, Idle, Keyed
    <2> QED
        BY <1>5, <1>6, <2>3, <2>4
<1>11. CASE hmac' = hmac /\ tokens' = tokens /\ n.pc \notin {"set", "verify", "again", "mint"}
    <2>1. Keyed(n, hmac')
        BY <1>11 DEF Keyed
    <2> QED
        BY <1>3, <1>5, <1>6, <1>11, <2>1
<1> QED
    BY <1>1, <1>7, <1>8, <1>9, <1>10, <1>11
       DEF Does, Quits, Arrives, Verifies, Creates, Begins, Finds, Consumes, Attests, LooksUp, Counts,
           Revokes, Ended, Plainly, Goes, Idle, FirstStep, AfterAuth, Coherent, Authed, Kinds, store

\* As long as the store never fails and no two processes make its first key at
\* once, a session that was handed out is good until its time (get_hmac_key).
THEOREM SessionsStay == Spec => []SessionsHold
<1>1. Init => OneKey
    BY DEF Init, OneKey, Keyed, Idle
<1>2. Inv /\ OneKey /\ [Next]_vars => OneKey'
    <2>1. CASE Next
        <3>1. ASSUME NEW u \in Users, DeleteUser(u), OneKey PROVE OneKey'
            BY <3>1 DEF DeleteUser, store, OneKey, Keyed, Calm
        <3> QED
            BY <2>1, <3>1, NextDoes, OneKeyKept DEF Inv
    <2>2. CASE UNCHANGED vars
        BY <2>2 DEF vars, store, OneKey, Keyed, Calm
    <2> QED
        BY <2>1, <2>2
<1>3. OneKey => SessionsHold
    BY DEF OneKey, Calm, SessionsHold
<1> QED
    BY <1>1, <1>2, <1>3, PasskeysInvariant, PTL DEF Spec

-----------------------------------------------------------------------------
(* Counters *)

\* Only three statements get a request to where its challenge or its passkey is in
\* its hands.
LEMMA GetsThere ==
    ASSUME Typed, NEW p \in Procs, Does(p),
           proc'[p].pc \in {"consume", "look", "attest", "count"}
    PROVE  /\ \/ Finds(p) /\ proc'[p].pc = "consume"
              \/ Consumes(p) /\ proc'[p].pc \in {"look", "attest"}
              \/ LooksUp(p) /\ proc'[p].pc = "count"
           /\ proc'[p].chal = proc[p].chal
<1> DEFINE q == proc[p]
           n == proc'[p]
<1>1. Coherent(q) /\ q \in ProcState
    BY DEF Typed, TypeOK
<1>2. q.then \in {"verify", "again", "mint"}
    BY <1>1 DEF ProcState
<1>3. n # Idle
    BY DEF Idle
<1>4. ~Ended(p)
    BY <1>3 DEF Ended
<1>5. CASE Finds(p)
    BY <1>5 DEF Finds, Goes, SameRequest
<1>6. CASE Consumes(p)
    BY <1>4, <1>6 DEF Consumes, Plainly, Goes, SameRequest
<1>7. CASE LooksUp(p)
    BY <1>7 DEF LooksUp, Goes, SameRequest
<1>8. ~Arrives(p)
    BY DEF Arrives, FirstStep
<1>9. ~Fetches(p) /\ ~Sets(p)
    BY <1>2 DEF Fetches, Sets, Goes
<1>10. ~Misses(p)
    BY DEF Misses, Plainly, Goes
<1>11. ~Verifies(p)
    <2> SUFFICES ASSUME Verifies(p) PROVE FALSE
        OBVIOUS
    <2>1. q.kind \in Authed \ {"look"} /\ n.pc = AfterAuth(p)
        BY <1>1 DEF Verifies, Goes, Coherent
    <2> QED
        BY <2>1 DEF AfterAuth, Authed
<1>12. ~Attests(p) /\ ~Counts(p)
    BY <1>3 DEF Attests, Counts, Goes
<1>13. ~Creates(p)
    BY <1>4 DEF Creates, Plainly, Goes
<1>14. ~Quits(p) /\ ~(\E u \in Users : HandsOut(p, u)) /\ ~Begins(p) /\ ~Revokes(p)
    BY <1>4 DEF Quits, HandsOut, Begins, Revokes
<1> QED
    BY <1>5, <1>6, <1>7, <1>8, <1>9, <1>10, <1>11, <1>12, <1>13, <1>14 DEF Does

\* The counter a login read is the one its credential has, unless it was revoked
\* or somebody else is or was at it.
Fresh(q, hold, counts, spoilt) ==
    q.pc = "count" => q.cred \in spoilt \/ hold[q.cred] = NoOne \/ counts[q.cred] = q.stored

Counting ==
    /\ \A p \in Procs : Fresh(proc[p], holder, count, raced)
    /\ \A p, q \in Procs : /\ proc[p].pc = "count" /\ proc[q].pc = "count"
                           /\ proc[p].cred = proc[q].cred /\ p # q
                           => proc[p].cred \in raced

LEMMA CountingKept ==
    ASSUME Typed, Counting, NEW p \in Procs, Does(p)
    PROVE  Counting'
<1> DEFINE q == proc[p]
           n == proc'[p]
<1>1. /\ Coherent(q) /\ holder \in [Creds -> users \cup {NoOne}] /\ count \in [Creds -> 0..MaxCount]
      /\ \A x \in Procs : Coherent(proc[x])
    BY DEF Typed, TypeOK
<1>2. /\ \A x \in Procs : Fresh(proc[x], holder, count, raced)
      /\ \A x, y \in Procs : /\ proc[x].pc = "count" /\ proc[y].pc = "count"
                            /\ proc[x].cred = proc[y].cred /\ x # y
                            => proc[x].cred \in raced
    BY DEF Counting
<1>3. \A x \in Procs \ {p} : /\ proc'[x].pc = proc[x].pc /\ proc'[x].cred = proc[x].cred
                             /\ proc'[x].stored = proc[x].stored
    BY DEF Does, Quits, Arrives, Fetches, Misses, Sets, Verifies, HandsOut, Creates, Begins,
                Finds, Consumes, Attests, Sees, LooksUp, Counts, Revokes, Ended, Plainly, Goes, Alone,
                SameRest, SameRequest
<1>4. raced \subseteq raced'
    BY DEF Does, Quits, Arrives, Fetches, Misses, Sets, Verifies, HandsOut, Creates, Begins,
                Finds, Consumes, Attests, LooksUp, Counts, Revokes, history
\* Of the others' credentials only the one of the step is touched.
<1>5. ASSUME NEW x \in Procs \ {p}, proc[x].pc = "count",
             holder'[proc[x].cred] # NoOne => \/ holder[proc[x].cred] # NoOne
                                                 /\ count'[proc[x].cred] = count[proc[x].cred]
                                              \/ proc[x].cred \in raced'
      PROVE  Fresh(proc'[x], holder', count', raced')
    BY <1>2, <1>3, <1>4, <1>5 DEF Fresh
<1>6. \A x \in Procs \ {p} : Fresh(proc'[x], holder', count', raced')
    <2> TAKE x \in Procs \ {p}
    <2> DEFINE c == proc[x].cred
    <2>1. CASE proc[x].pc # "count"
        BY <1>3, <2>1 DEF Fresh
    <2>2. CASE proc[x].pc = "count"
        <3>1. c \in Creds
            BY <1>1, <2>2 DEF Coherent
        <3> HIDE DEF c
        <3>2. CASE Attests(p)
            <4>1. CASE c = q.cred
                <5>1. Writing(p, c)
                    BY <2>2 DEF Writing, c
                <5>2. c \in raced'
                    BY <3>2, <4>1, <5>1 DEF Attests
                <5> QED
                    BY <1>5, <2>2, <5>2 DEF c
            <4>2. CASE c # q.cred
                <5>1. holder'[c] = holder[c] /\ count'[c] = count[c]
                    BY <1>1, <3>1, <3>2, <4>2 DEF Attests
                <5> QED
                    BY <1>5, <2>2, <5>1 DEF c
            <4> QED
                BY <4>1, <4>2
        <3>3. CASE Counts(p)
            <4>1. CASE c = q.cred
                <5>1. q.pc = "count"
                    BY <3>3 DEF Counts
                <5>2. c \in raced'
                    BY <1>2, <1>4, <2>2, <4>1, <5>1 DEF c
                <5> QED
                    BY <1>5, <2>2, <5>2 DEF c
            <4>2. CASE c # q.cred
                <5>1. holder'[c] = holder[c] /\ count'[c] = count[c]
                    BY <1>1, <3>1, <3>3, <4>2 DEF Counts
                <5> QED
                    BY <1>5, <2>2, <5>1 DEF c
            <4> QED
                BY <4>1, <4>2
        <3>4. CASE Revokes(p)
            <4>1. holder'[c] = NoOne \/ (holder'[c] = holder[c] /\ count'[c] = count[c])
                <5>1. CASE c # q.cred
                    BY <1>1, <3>1, <3>4, <5>1 DEF Revokes
                <5>2. CASE c = q.cred
                    <6>1. holder' = [holder EXCEPT ![c] = NoOne]
                        BY <3>4, <5>2 DEF Revokes
                    <6> QED
                        BY <1>1, <3>1, <6>1
                <5> QED
                    BY <5>1, <5>2
            <4> QED
                BY <1>5, <2>2, <4>1 DEF c
        <3>5. CASE holder' = holder /\ count' = count
            BY <1>5, <2>2, <3>5 DEF c
        <3> QED
            BY <3>2, <3>3, <3>4, <3>5 DEF Does, Quits, Arrives, Fetches, Misses, Sets, Verifies, HandsOut,
               Creates, Begins, Finds, Consumes, LooksUp, db
    <2> QED
        BY <2>1, <2>2
<1>7. CASE LooksUp(p)
    <2>1. n.pc = "count" /\ n.cred = q.cred /\ n.stored = count[q.cred] /\ count' = count
        BY <1>7 DEF LooksUp, Goes, SameRequest, db
    <2>2. Fresh(n, holder', count', raced')
        BY <2>1 DEF Fresh
    <2>3. ASSUME NEW x \in Procs \ {p}, proc[x].pc = "count", proc[x].cred = q.cred
          PROVE  q.cred \in raced'
        <3>1. Writing(p, q.cred)
            BY <2>3 DEF Writing
        <3> QED
            BY <1>7, <3>1 DEF LooksUp
    <2>4. \A x, y \in Procs : /\ proc'[x].pc = "count" /\ proc'[y].pc = "count"
                             /\ proc'[x].cred = proc'[y].cred /\ x # y
                             => proc'[x].cred \in raced'
        <3> TAKE x \in Procs, y \in Procs
        <3> HAVE /\ proc'[x].pc = "count" /\ proc'[y].pc = "count"
                 /\ proc'[x].cred = proc'[y].cred /\ x # y
        <3>1. CASE x = p
            BY <1>3, <2>1, <2>3, <3>1
        <3>2. CASE y = p
            BY <1>3, <2>1, <2>3, <3>2
        <3>3. CASE x # p /\ y # p
            BY <1>2, <1>3, <1>4, <3>3
        <3> QED
            BY <3>1, <3>2, <3>3
    <2> QED
        BY <1>6, <2>2, <2>4 DEF Counting, Fresh
<1>8. CASE n.pc # "count"
    <2>1. Fresh(n, holder', count', raced')
        BY <1>8 DEF Fresh
    <2>2. \A x, y \in Procs : /\ proc'[x].pc = "count" /\ proc'[y].pc = "count"
                             /\ proc'[x].cred = proc'[y].cred /\ x # y
                             => proc'[x].cred \in raced'
        <3> TAKE x \in Procs, y \in Procs
        <3> HAVE /\ proc'[x].pc = "count" /\ proc'[y].pc = "count"
                 /\ proc'[x].cred = proc'[y].cred /\ x # y
        <3>1. x # p /\ y # p
            BY <1>8
        <3> QED
            BY <1>2, <1>3, <1>4, <3>1
    <2> QED
        BY <1>6, <2>1, <2>2 DEF Counting, Fresh
<1> QED
    BY <1>7, <1>8, GetsThere

\* A counter goes back only by a revocation, a registration or two at it.
LEMMA CountersRise ==
    ASSUME Typed, Counting, NEW p \in Procs, Does(p), NEW c \in Creds, count'[c] < count[c]
    PROVE  c \in raced' \/ holder'[c] # holder[c]
<1> DEFINE q == proc[p]
<1>1. /\ Coherent(q) /\ holder \in [Creds -> users \cup {NoOne}] /\ users \subseteq Users
      /\ count \in [Creds -> Nat] /\ q.new \in Nat /\ q.stored \in Nat
    BY PasskeysAssumption DEF Typed, TypeOK, ProcState
<1>2. CASE Attests(p)
    <2>1. c = q.cred
        BY <1>1, <1>2 DEF Attests
    <2>2. q.user # NoOne
        BY <1>1, <1>2, PasskeysAssumption DEF Attests
    <2> QED
        BY <1>1, <1>2, <2>1, <2>2 DEF Attests
<1>3. CASE Counts(p)
    <2>1. c = q.cred /\ holder[c] # NoOne /\ count'[c] = q.new
        BY <1>1, <1>3 DEF Counts
    <2>2. count[c] = q.stored \/ c \in raced
        BY <1>3, <2>1 DEF Counting, Fresh, Counts
    <2> QED
        BY <1>1, <1>3, <2>1, <2>2 DEF Counts, Accepts
<1>4. CASE Revokes(p)
    <2>1. c = q.cred
        BY <1>1, <1>4 DEF Revokes
    <2>2. q.user # NoOne
        BY <1>1, <1>4, PasskeysAssumption DEF Revokes, Coherent
    <2> QED
        BY <1>1, <1>4, <2>1, <2>2 DEF Revokes
<1>5. CASE count' = count
    BY <1>1, <1>5
<1> QED
    BY <1>2, <1>3, <1>4, <1>5 DEF Does, Quits, Arrives, Fetches, Misses, Sets, Verifies, HandsOut,
               Creates, Begins, Finds, Consumes, LooksUp, db

\* The counter of an authenticator never goes back while its passkey stays, unless
\* two requests wrote to it at once (passkey_login_finish).
THEOREM CountersMonotone == Spec => CountMonotone
<1> DEFINE Rise == \A c \in Creds : count'[c] < count[c] => c \in raced' \/ holder'[c] # holder[c]
<1>1. Init => Counting
    BY DEF Init, Counting, Fresh, Idle
<1>2. Inv /\ Counting /\ [Next]_vars => Counting'
    <2>1. CASE Next
        <3>1. ASSUME NEW u \in Users, DeleteUser(u), Typed, Counting PROVE Counting'
            <4>1. \A c \in Creds : \/ holder'[c] = holder[c] /\ count'[c] = count[c]
                                   \/ holder'[c] = NoOne
                BY <3>1, DeleteDoes DEF Typed
            <4>2. UNCHANGED << raced, proc >> /\ \A p \in Procs : Coherent(proc[p])
                BY <3>1 DEF DeleteUser, Typed
            <4>3. \A p \in Procs : Fresh(proc[p], holder', count', raced)
                BY <3>1, <4>1, <4>2 DEF Counting, Fresh, Coherent
            <4> QED
                BY <3>1, <4>2, <4>3 DEF Counting
        <3> QED
            BY <2>1, <3>1, NextDoes, CountingKept DEF Inv
    <2>2. CASE UNCHANGED vars
        BY <2>2 DEF vars, db, history, Counting, Fresh
    <2> QED
        BY <2>1, <2>2
<1>3. Inv /\ Counting /\ [Next]_vars => [Rise]_vars
    <2>1. ASSUME NEW u \in Users, DeleteUser(u), Typed, NEW c \in Creds, count'[c] < count[c]
          PROVE  holder'[c] # holder[c]
        <3>1. (holder[c] = u /\ holder'[c] = NoOne) \/ count'[c] = count[c]
            BY <2>1, DeleteDoes DEF Typed
        <3>2. count[c] \in Nat /\ u # NoOne
            BY <2>1, PasskeysAssumption DEF Typed, TypeOK
        <3> QED
            BY <2>1, <3>1, <3>2
    <2> QED
        BY <2>1, NextDoes, CountersRise DEF Inv
<1> QED
    BY <1>1, <1>2, <1>3, PasskeysInvariant, PTL DEF Spec, CountMonotone

-----------------------------------------------------------------------------
(* Challenges serve once *)

\* A request has found a challenge, and has its row deleted.
Past(q, ch) == q.chal = ch /\ q.pc \in {"look", "attest", "count"}
Holding(q, ch) == q.chal = ch /\ q.pc \in {"consume", "look", "attest", "count"}
Gone(ch, rows) == \A row \in rows : row.id # ch

\* Unless two requests found a challenge at once: one request holds it, nobody who
\* finds it later, and it won nobody anything before.
Single(ch) ==
    \/ ch \in contested
    \/ /\ \A p \in Procs : /\ Past(proc[p], ch) => Gone(ch, challenges)
                           /\ Holding(proc[p], ch) => wins[ch] = 0
       /\ \A p, q \in Procs : Holding(proc[p], ch) /\ Holding(proc[q], ch) => p = q
       /\ wins[ch] # 0 => Gone(ch, challenges) /\ ch <= drawn
       /\ wins[ch] <= 1

AllSingle == \A ch \in DOMAIN wins : Single(ch)

LEMMA WinsOnlyHolding ==
    ASSUME Typed, NEW p \in Procs, Does(p), NEW ch \in DOMAIN wins
    PROVE  /\ \/ wins'[ch] = wins[ch]
              \/ /\ Past(proc[p], ch) /\ wins'[ch] = wins[ch] + 1 /\ ~Holding(proc'[p], ch)
                 /\ challenges' = challenges
           /\ DOMAIN wins' = DOMAIN wins
<1> DEFINE q == proc[p]
<1>1. wins \in [DOMAIN wins -> Nat]
    BY DEF Typed, TypeOK
<1>2. CASE Attests(p) \/ Counts(p)
    <2>1. wins' = [wins EXCEPT ![q.chal] = wins[q.chal] + 1] /\ challenges' = challenges
        BY <1>2 DEF Attests, Counts, Won
    <2>2. q.pc \in {"attest", "count"}
        BY <1>2 DEF Attests, Counts
    <2>3. proc'[p].pc \in {"key", "idle"}
        BY <1>2 DEF Attests, Counts, Goes, Idle
    <2> QED
        BY <1>1, <2>1, <2>2, <2>3 DEF Past, Holding
<1>3. CASE wins' = wins
    BY <1>3
<1> QED
    BY <1>2, <1>3 DEF Does, Quits, Arrives, Fetches, Misses, Sets, Verifies, HandsOut, Creates, Begins,
                Finds, Consumes, LooksUp, Revokes, history

LEMMA SingleKept ==
    ASSUME Typed, NEW p \in Procs, Does(p), NEW ch \in DOMAIN wins, Single(ch)
    PROVE  Single(ch)'
<1> DEFINE q == proc[p]
           n == proc'[p]
           rows == challenges
<1>1. /\ Coherent(q) /\ drawn \in Nat /\ wins[ch] \in Nat /\ ch \in Nat
      /\ \A x \in Procs : proc[x].chal <= drawn /\ proc[x].chal \in Nat
      /\ drawn' \in Nat /\ drawn <= drawn'
    <2>1. /\ proc \in [Procs -> ProcState] /\ Coherent(q) /\ drawn \in Nat
          /\ \A x \in Procs : proc[x].chal <= drawn
          /\ wins \in [1..(MaxOpen + MaxArrivals) -> Nat]
        BY DEF Typed, TypeOK
    <2>2. \A x \in Procs : proc[x].chal \in Nat
        BY <2>1 DEF ProcState
    <2>3. wins[ch] \in Nat /\ ch \in Nat
        BY <2>1
    <2> QED
        BY <2>1, <2>2, <2>3, ProcsKept
<1>2. contested \subseteq contested'
    <2>1. CASE Finds(p)
        BY <2>1 DEF Finds
    <2>2. CASE contested' = contested
        BY <2>2
    <2> QED
        BY <2>1, <2>2 DEF Does, Quits, Arrives, Fetches, Misses, Sets, Verifies, HandsOut, Creates, Begins,
                Consumes, Attests, LooksUp, Counts, Revokes, history
<1> SUFFICES ASSUME ch \notin contested, ch \notin contested'
             PROVE  Single(ch)'
    BY <1>2 DEF Single
<1>3. /\ \A x \in Procs : /\ Past(proc[x], ch) => Gone(ch, rows)
                          /\ Holding(proc[x], ch) => wins[ch] = 0
      /\ \A x, y \in Procs : Holding(proc[x], ch) /\ Holding(proc[y], ch) => x = y
      /\ wins[ch] # 0 => Gone(ch, rows) /\ ch <= drawn
      /\ wins[ch] <= 1
    BY DEF Single
<1>4. \A x \in Procs \ {p} : proc'[x].pc = proc[x].pc /\ proc'[x].chal = proc[x].chal
    BY DEF Does, Quits, Arrives, Fetches, Misses, Sets, Verifies, HandsOut, Creates, Begins,
                Finds, Consumes, Attests, Sees, LooksUp, Counts, Revokes, Ended, Plainly, Goes, Alone,
                SameRest, SameRequest
<1>5. \A x \in Procs \ {p} : /\ Past(proc'[x], ch) <=> Past(proc[x], ch)
                             /\ Holding(proc'[x], ch) <=> Holding(proc[x], ch)
    BY <1>4 DEF Past, Holding
\* A row that is gone does not come back.
<1>6. ASSUME Gone(ch, rows), ch <= drawn PROVE Gone(ch, rows')
    <2>1. CASE Begins(p)
        <3>1. q.user \in Users
            BY <1>1, <2>1 DEF Begins, Coherent
        <3> QED
            BY <1>1, <1>6, <2>1, <3>1, NewRow DEF Begins, Gone
    <2>2. CASE rows' \subseteq rows
        BY <1>6, <2>2 DEF Gone
    <2> QED
        BY <2>1, <2>2 DEF Does, Quits, Arrives, Fetches, Misses, Sets, Verifies, HandsOut, Creates,
                Finds, Consumes, ChallengesLeft, Attests, LooksUp, Counts, Revokes, db
<1>7. \A x \in Procs : Past(proc[x], ch) => Gone(ch, rows')
    BY <1>1, <1>3, <1>6 DEF Past
<1>8. CASE Finds(p) /\ q.chal = ch
    <2>1. ~Gone(ch, rows)
        BY <1>8 DEF Finds, Wanted, Gone
    <2>2. wins[ch] = 0 /\ wins' = wins
        BY <1>3, <1>8, <2>1 DEF Finds
    <2>3. ASSUME NEW x \in Procs \ {p} PROVE ~Holding(proc[x], ch)
        <3>1. ~Past(proc[x], ch)
            BY <1>3, <2>1
        <3>2. ~(proc[x].pc = "consume" /\ proc[x].chal = ch)
            BY <1>8 DEF Finds
        <3> QED
            BY <3>1, <3>2 DEF Past, Holding
    <2>4. ~Past(n, ch)
        BY <1>8 DEF Finds, Goes, Past
    <2>5. \A x \in Procs : Past(proc'[x], ch) => Gone(ch, rows')
        BY <1>5, <1>7, <2>4
    <2>6. \A x, y \in Procs : Holding(proc'[x], ch) /\ Holding(proc'[y], ch) => x = y
        BY <1>5, <2>3
    <2> QED
        BY <2>2, <2>5, <2>6 DEF Single, Past, Holding, Gone
<1>9. CASE ~(Finds(p) /\ q.chal = ch)
    <2>1. Holding(n, ch) => Holding(q, ch)
        <3>1. n.pc \in {"consume", "look", "attest", "count"} =>
                 /\ Finds(p) \/ Consumes(p) \/ LooksUp(p)
                 /\ n.chal = q.chal
            BY GetsThere
        <3> QED
            BY <1>9, <3>1 DEF Holding, Consumes, LooksUp
    <2>2. Past(n, ch) => Gone(ch, rows')
        <3> SUFFICES ASSUME Past(n, ch) PROVE Gone(ch, rows')
            OBVIOUS
        <3>1. CASE Past(q, ch)
            BY <1>7, <3>1
        <3>2. CASE ~Past(q, ch)
            <4>1. Holding(n, ch) /\ Holding(q, ch)
                BY <2>1 DEF Past, Holding
            <4>2. q.pc = "consume" /\ q.chal = ch
                BY <3>2, <4>1 DEF Past, Holding
            <4>3. Consumes(p)
                BY <4>1, <4>2, GetsThere DEF Finds, LooksUp, Holding
            <4> QED
                BY <4>2, <4>3 DEF Consumes, ChallengesLeft, Gone
        <3> QED
            BY <3>1, <3>2
    <2>3. \A x \in Procs : Past(proc'[x], ch) => Gone(ch, rows')
        BY <1>5, <1>7, <2>2
    <2>4. \A x, y \in Procs : Holding(proc'[x], ch) /\ Holding(proc'[y], ch) => x = y
        BY <1>3, <1>5, <2>1
    <2>5. CASE wins'[ch] = wins[ch]
        <3>1. \A x \in Procs : Holding(proc'[x], ch) => wins'[ch] = 0
            BY <1>3, <1>5, <2>1, <2>5
        <3>2. wins'[ch] # 0 => Gone(ch, rows') /\ ch <= drawn'
            BY <1>1, <1>3, <1>6, <2>5
        <3> QED
            BY <1>3, <2>3, <2>4, <2>5, <3>1, <3>2 DEF Single, Past, Holding, Gone
    <2>6. CASE /\ Past(q, ch) /\ wins'[ch] = wins[ch] + 1 /\ ~Holding(n, ch)
               /\ rows' = rows
        <3>1. Holding(q, ch)
            BY <2>6 DEF Past, Holding
        <3>2. wins'[ch] = 1
            BY <1>3, <2>6, <3>1
        <3>3. \A x \in Procs : ~Holding(proc'[x], ch)
            BY <1>3, <1>5, <2>6, <3>1
        <3>4. Gone(ch, rows') /\ ch <= drawn'
            BY <1>1, <1>7, <2>6 DEF Past
        <3> QED
            BY <2>3, <2>4, <3>2, <3>3, <3>4 DEF Single, Past, Holding, Gone
    <2> QED
        BY <2>5, <2>6, WinsOnlyHolding
<1> QED
    BY <1>8, <1>9

\* A challenge gets one request in, unless two found it before either deleted it
\* (consume_challenge).
THEOREM ChallengesOnce == Spec => []ChallengeOnce
<1>1. Init => AllSingle
    BY DEF Init, AllSingle, Single, Idle, Past, Holding
<1>2. Inv /\ AllSingle /\ [Next]_vars => AllSingle'
    <2>1. CASE Next
        <3> SUFFICES ASSUME Inv, AllSingle PROVE AllSingle'
            BY <2>1
        <3>1. ASSUME NEW p \in Procs, Does(p) PROVE AllSingle'
            <4>1. \A ch \in DOMAIN wins : Single(ch)'
                BY <3>1, SingleKept DEF Inv, AllSingle
            <4>2. DOMAIN wins' = DOMAIN wins
                BY <3>1, HistoryKept DEF Inv, Typed, TypeOK
            <4> QED
                BY <4>1, <4>2 DEF AllSingle
        <3>2. ASSUME NEW u \in Users, DeleteUser(u) PROVE AllSingle'
            BY <3>2 DEF DeleteUser, AllSingle, Single, Past, Holding, Gone
        <3> QED
            BY <2>1, <3>1, <3>2, NextDoes DEF Inv
    <2>2. CASE UNCHANGED vars
        BY <2>2 DEF vars, db, history, AllSingle, Single, Past, Holding, Gone
    <2> QED
        BY <2>1, <2>2
<1>3. Inv /\ AllSingle => ChallengeOnce
    <2> SUFFICES ASSUME Inv, AllSingle, NEW ch \in DOMAIN wins, wins[ch] > 1 PROVE ch \in contested
        BY DEF ChallengeOnce
    <2>1. wins[ch] \in Nat /\ Single(ch)
        BY DEF Inv, Typed, TypeOK, AllSingle
    <2> QED
        BY <2>1 DEF Single
<1> QED
    BY <1>1, <1>2, <1>3, PasskeysInvariant, PTL DEF Spec

-----------------------------------------------------------------------------
(* Passkeys are their user's *)

\* A user that was made for the request at hand, with no passkey yet.
NewUser(q) == q.kind = "anonFinish" /\ q.pc \in {"find", "consume", "attest"}

\* Nobody else is on the way to a session of this user, and none is out.
Unknown(u, hold, out, procs) ==
    /\ Held(u, hold) = {}
    /\ \A t \in out : t.user # u
    /\ \A p \in Procs : Winning(procs[p]) => procs[p].user # u

\* A session was looked at before its request goes on.
OwnSession(q) ==
    q.kind \in Authed /\ q.pc \in {"begin", "find", "consume", "attest", "revoke"} => q.token.user = q.user

Owned ==
    /\ \A p \in Procs : OwnSession(proc[p])
    /\ \A p \in Procs : NewUser(proc[p]) /\ proc[p].user \notin gone =>
           proc[p].user \in users /\ Unknown(proc[p].user, holder, tokens, proc)
    /\ \A p, q \in Procs : /\ NewUser(proc[p]) /\ NewUser(proc[q])
                           /\ proc[p].user = proc[q].user /\ proc[p].user \notin gone
                        => p = q

LEMMA OwnSessionKept ==
    ASSUME Typed, NEW p \in Procs, Does(p), \A x \in Procs : OwnSession(proc[x])
    PROVE  \A x \in Procs : OwnSession(proc'[x])
<1> DEFINE q == proc[p]
           n == proc'[p]
<1>1. Coherent(q) /\ q.then \in {"verify", "again", "mint"}
    BY DEF Typed, TypeOK, ProcState
<1>2. \A x \in Procs \ {p} : OwnSession(proc'[x])
    BY DEF Does, Quits, Arrives, Fetches, Misses, Sets, Verifies, HandsOut, Creates, Begins,
                Finds, Consumes, Attests, Sees, LooksUp, Counts, Revokes, Ended, Plainly, Goes, Alone,
                OwnSession, SameRequest, SameRest
<1> SUFFICES OwnSession(n)
    BY <1>2
<1>3. CASE Ended(p)
    BY <1>3 DEF Ended, Idle, OwnSession
<1>4. CASE Arrives(p)
    BY <1>4 DEF Arrives, OwnSession, FirstStep, Authed
<1>5. CASE Verifies(p)
    BY <1>1, <1>5 DEF Verifies, OwnToken, OwnSession, Goes, SameRequest
<1>6. CASE Fetches(p) \/ Misses(p) \/ Sets(p) \/ Counts(p) \/ LooksUp(p)
    BY <1>1, <1>6 DEF Fetches, Misses, Sets, Counts, LooksUp, OwnSession, Plainly, Goes
<1>7. CASE Finds(p)
    BY <1>1, <1>7 DEF Finds, OwnSession, Goes, SameRequest
<1>8. CASE Consumes(p) /\ ~Ended(p)
    BY <1>1, <1>8 DEF Consumes, OwnSession, Plainly, Goes, SameRequest
<1>9. CASE Creates(p) /\ ~Ended(p)
    BY <1>1, <1>9 DEF Creates, OwnSession, Plainly, Goes, SameRequest, Coherent, Authed
<1>10. CASE Attests(p)
    BY <1>10 DEF Attests, OwnSession, Idle
<1> QED
    BY <1>3, <1>4, <1>5, <1>6, <1>7, <1>8, <1>9, <1>10 DEF Does, Quits, HandsOut, Begins, Revokes

\* The others of a step are new users, or winning, as before.
LEMMA OthersStay ==
    ASSUME NEW p \in Procs, Does(p), NEW x \in Procs \ {p}
    PROVE  /\ NewUser(proc'[x]) <=> NewUser(proc[x])
           /\ Winning(proc'[x]) <=> Winning(proc[x])
           /\ proc'[x].user = proc[x].user
<1>1. /\ proc'[x].pc = proc[x].pc /\ proc'[x].kind = proc[x].kind
      /\ proc'[x].user = proc[x].user /\ proc'[x].then = proc[x].then
    BY DEF Does, Quits, Arrives, Fetches, Misses, Sets, Verifies, HandsOut, Creates, Begins,
                Finds, Consumes, Attests, Sees, LooksUp, Counts, Revokes, Ended, Plainly, Goes, Alone,
                SameRest, SameRequest
<1> QED
    BY <1>1 DEF NewUser, Winning

LEMMA WinnerBefore ==
    ASSUME Typed, NEW p \in Procs, Does(p), Winning(proc'[p])
    PROVE  /\ proc'[p].user = proc[p].user
           /\ Winning(proc[p]) \/ LooksUp(p) \/ (Attests(p) /\ NewUser(proc[p]))
<1> DEFINE q == proc[p]
           n == proc'[p]
<1>1. Coherent(q) /\ q.then \in {"verify", "again", "mint"}
    BY DEF Typed, TypeOK, ProcState
<1>2. n.pc \in {"count", "mint", "key", "set"} /\ (n.pc \in {"key", "set"} => n.then = "mint")
    BY DEF Winning
<1>3. CASE Ended(p) \/ Finds(p) \/ Creates(p) \/ Consumes(p)
    BY <1>2, <1>3 DEF Ended, Idle, Finds, Creates, Consumes, Plainly, Goes
<1>10. CASE Arrives(p)
    BY <1>2, <1>10 DEF Arrives, FirstStep, Authed, Kinds
<1>11. CASE Verifies(p)
    BY <1>1, <1>2, <1>11 DEF Verifies, AfterAuth, Goes, Coherent, Authed
<1>4. CASE Fetches(p)
    BY <1>1, <1>2, <1>4 DEF Fetches, Goes, SameRequest, Winning
<1>5. CASE Misses(p)
    BY <1>1, <1>2, <1>5 DEF Misses, Plainly, Goes, SameRequest, SameRest, Winning
<1>6. CASE Sets(p)
    BY <1>1, <1>2, <1>6 DEF Sets, Goes, SameRequest, Winning
<1>7. CASE LooksUp(p)
    BY <1>7 DEF LooksUp, Goes, SameRequest
<1>8. CASE Counts(p)
    BY <1>8 DEF Counts, Goes, SameRequest, Winning
<1>9. CASE Attests(p)
    <2>1. q.kind = "anonFinish"
        BY <1>2, <1>9 DEF Attests, Idle
    <2>2. proc'[p].user = q.user
        BY <1>9, <2>1, <1>2 DEF Attests, SameRequest
    <2> QED
        BY <1>9, <2>1, <2>2 DEF Attests, NewUser
<1> QED
    BY <1>3, <1>4, <1>5, <1>6, <1>7, <1>8, <1>9, <1>10, <1>11 DEF Does, Quits, HandsOut, Begins, Revokes

LEMMA NewUserBefore ==
    ASSUME Typed, NEW p \in Procs, Does(p), NewUser(proc'[p])
    PROVE  /\ proc'[p].user = proc[p].user /\ ~Attests(p)
           /\ Creates(p) \/ NewUser(proc[p])
<1> DEFINE q == proc[p]
           n == proc'[p]
<1>1. Coherent(q) /\ q.then \in {"verify", "again", "mint"}
    BY DEF Typed, TypeOK, ProcState
<1>2. n.kind = "anonFinish" /\ n.pc \in {"find", "consume", "attest"}
    BY DEF NewUser
<1>3. CASE Ended(p) \/ Arrives(p) \/ Fetches(p) \/ Misses(p) \/ Sets(p) \/ Counts(p) \/ LooksUp(p) \/ Attests(p)
    BY <1>1, <1>2, <1>3 DEF Ended, Idle, Arrives, FirstStep, Authed, Fetches, Misses, Sets, Counts,
                            LooksUp, Attests, Plainly, Goes
<1>4. CASE Verifies(p)
    BY <1>1, <1>2, <1>4 DEF Verifies, Goes, SameRequest, Coherent, Authed
<1>5. CASE Creates(p) \/ Finds(p) \/ Consumes(p)
    BY <1>2, <1>3, <1>5 DEF Creates, Finds, Consumes, Plainly, Goes, SameRequest, NewUser, Attests
<1> QED
    BY <1>3, <1>4, <1>5 DEF Does, Quits, HandsOut, Begins, Revokes

\* A user nobody knows stays so, whatever the others do.
LEMMA UnknownKept ==
    ASSUME Typed, Owned, NEW p \in Procs, Does(p), NEW u \in Users, Unknown(u, holder, tokens, proc),
           ~(NewUser(proc[p]) /\ Attests(p) /\ proc[p].user = u)
    PROVE  Unknown(u, holder', tokens', proc')
<1> DEFINE q == proc[p]
<1>1. /\ Coherent(q) /\ holder \in [Creds -> users \cup {NoOne}] /\ q.token \in tokens \cup {NoToken}
      /\ OwnSession(q)
    BY DEF Typed, TypeOK, Owned
<1>2. /\ \A c \in Creds : holder[c] # u
      /\ \A t \in tokens : t.user # u
      /\ \A x \in Procs : Winning(proc[x]) => proc[x].user # u
    BY DEF Unknown, Held
<1>3. \A c \in Creds : holder'[c] # u
    <2>1. CASE Attests(p)
        <3>1. q.user # u
            <4>1. CASE q.kind = "anonFinish"
                BY <2>1, <4>1 DEF NewUser, Attests
            <4>2. CASE q.kind # "anonFinish"
                <5>1. q.kind = "regFinish" /\ q.pc = "attest"
                    BY <1>1, <2>1, <4>2 DEF Coherent, Attests
                <5>2. q.token \in tokens /\ q.token.user = q.user
                    BY <1>1, <5>1 DEF Coherent, OwnSession, Authed
                <5> QED
                    BY <1>2, <5>2
            <4> QED
                BY <4>1, <4>2
        <3> QED
            BY <1>1, <1>2, <2>1, <3>1 DEF Attests
    <2>2. CASE Revokes(p)
        BY <1>1, <1>2, <2>2, PasskeysAssumption DEF Revokes
    <2>3. CASE holder' = holder
        BY <1>2, <2>3
    <2> QED
        BY <2>1, <2>2, <2>3 DEF Does, Quits, Arrives, Fetches, Misses, Sets, Verifies, HandsOut, Creates,
                Begins, Finds, Consumes, LooksUp, Counts, db
<1>4. \A t \in tokens' : t.user # u
    <2>1. ASSUME NEW v \in Users, HandsOut(p, v) PROVE v # u
        <3>1. CASE q.pc = "again"
            <4>1. q.token \in tokens
                BY <1>1, <3>1 DEF Coherent
            <4> QED
                BY <1>2, <2>1, <3>1, <4>1 DEF HandsOut
        <3>2. CASE q.pc = "mint"
            BY <1>2, <2>1, <3>2 DEF HandsOut, Winning
        <3> QED
            BY <2>1, <3>1, <3>2 DEF HandsOut
    <2>2. CASE \E v \in Users : HandsOut(p, v)
        <3>1. PICK v \in Users : HandsOut(p, v)
            BY <2>2
        <3>2. v # u /\ tokens' = tokens \cup {[user |-> v, key |-> q.key]}
            BY <2>1, <3>1 DEF HandsOut
        <3> QED
            BY <1>2, <3>2
    <2>3. CASE tokens' = tokens
        BY <1>2, <2>3
    <2> QED
        BY <2>2, <2>3 DEF Does, Quits, Arrives, Fetches, Misses, Sets, Verifies, Creates, Begins, Finds,
                Consumes, Attests, LooksUp, Counts, Revokes
<1>5. Winning(proc'[p]) => proc'[p].user # u
    <2> SUFFICES ASSUME Winning(proc'[p]) PROVE proc'[p].user # u
        OBVIOUS
    <2>1. CASE LooksUp(p)
        <3>1. q.cred \in Creds /\ holder[q.cred] = q.user
            BY <1>1, <2>1 DEF LooksUp, Registered, Coherent
        <3> QED
            BY <1>2, <3>1, WinnerBefore
    <2>2. CASE Winning(q)
        BY <1>2, <2>2, WinnerBefore
    <2>3. CASE Attests(p) /\ NewUser(q)
        BY <2>3, WinnerBefore
    <2> QED
        BY <2>1, <2>2, <2>3, WinnerBefore
<1>6. \A x \in Procs : Winning(proc'[x]) => proc'[x].user # u
    <2> TAKE x \in Procs
    <2>1. CASE x = p
        BY <1>5, <2>1
    <2>2. CASE x # p
        BY <1>2, <2>2, OthersStay
    <2> QED
        BY <2>1, <2>2
<1> QED
    BY <1>3, <1>4, <1>6 DEF Unknown, Held, Winning

LEMMA OwnedKept ==
    ASSUME Typed, AllEarned, Owned, NEW p \in Procs, Does(p)
    PROVE  Owned'
<1> DEFINE q == proc[p]
           n == proc'[p]
<1>1. /\ Coherent(q) /\ \A x \in Procs : Coherent(proc[x])
      /\ holder \in [Creds -> users \cup {NoOne}] /\ tokens \subseteq [user : users \cup gone, key : 1..made]
    BY DEF Typed, TypeOK
<1>2. users \subseteq users' /\ gone' = gone
    BY DEF Does, Quits, Arrives, Fetches, Misses, Sets, Verifies, HandsOut, Creates, Begins, Finds,
           Consumes, Attests, LooksUp, Counts, Revokes, db, history
<1>3. /\ \A x \in Procs : NewUser(proc[x]) /\ proc[x].user \notin gone =>
             proc[x].user \in users /\ Unknown(proc[x].user, holder, tokens, proc)
      /\ \A x, y \in Procs : /\ NewUser(proc[x]) /\ NewUser(proc[y])
                             /\ proc[x].user = proc[y].user /\ proc[x].user \notin gone
                          => x = y
    BY DEF Owned
<1>4. \A x \in Procs : OwnSession(proc'[x])
    BY OwnSessionKept DEF Owned
<1>5. ASSUME NEW x \in Procs \ {p}, NewUser(proc'[x]), proc'[x].user \notin gone
      PROVE  proc'[x].user \in users' /\ Unknown(proc'[x].user, holder', tokens', proc')
    <2> DEFINE u == proc[x].user
    <2>1. NewUser(proc[x]) /\ proc'[x].user = u
        BY <1>5, OthersStay
    <2>2. u \in users /\ Unknown(u, holder, tokens, proc) /\ u \in Users
        BY <1>1, <1>3, <1>5, <2>1 DEF NewUser, Coherent
    <2>3. ~(NewUser(q) /\ Attests(p) /\ q.user = u)
        BY <1>3, <1>5, <2>1
    <2> HIDE DEF u
    <2>4. Unknown(u, holder', tokens', proc')
        BY <2>2, <2>3, UnknownKept
    <2> QED
        BY <1>2, <2>1, <2>2, <2>4 DEF Unknown
<1>6. ASSUME NewUser(n), n.user \notin gone
      PROVE  n.user \in users' /\ Unknown(n.user, holder', tokens', proc')
    <2>1. n.user = q.user /\ ~Attests(p) /\ (Creates(p) \/ NewUser(q))
        BY <1>6, NewUserBefore
    <2>2. CASE NewUser(q)
        <3>1. q.user \in Users /\ Unknown(q.user, holder, tokens, proc) /\ q.user \in users
            BY <1>1, <1>3, <1>6, <2>1, <2>2 DEF NewUser, Coherent
        <3>2. Unknown(q.user, holder', tokens', proc')
            BY <2>1, <3>1, UnknownKept
        <3> QED
            BY <1>2, <2>1, <3>1, <3>2
    <2>3. CASE Creates(p)
        <3>1. q.user \in Users /\ q.user \notin users /\ q.user # NoOne
            BY <1>1, <2>3, PasskeysAssumption DEF Creates, Coherent
        <3>2. Unknown(q.user, holder, tokens, proc)
            <4>1. \A c \in Creds : holder[c] # q.user
                BY <1>1, <3>1
            <4>2. \A t \in tokens : t.user # q.user
                BY <1>1, <1>6, <2>1, <3>1
            <4>3. \A x \in Procs : Winning(proc[x]) => proc[x].user # q.user
                BY <1>6, <2>1, <3>1 DEF AllEarned, Earned, Known
            <4> QED
                BY <4>1, <4>2, <4>3 DEF Unknown, Held
        <3>3. Unknown(q.user, holder', tokens', proc')
            BY <2>1, <3>1, <3>2, UnknownKept
        <3> QED
            BY <2>1, <2>3, <3>3 DEF Creates
    <2> QED
        BY <2>1, <2>2, <2>3
<1>7. ASSUME NEW x \in Procs \ {p}, NewUser(n), NewUser(proc'[x]), n.user \notin gone
      PROVE  n.user # proc'[x].user
    <2>1. NewUser(proc[x]) /\ proc'[x].user = proc[x].user
        BY <1>7, OthersStay
    <2>2. n.user = q.user /\ (Creates(p) \/ NewUser(q))
        BY <1>7, NewUserBefore
    <2>3. CASE NewUser(q)
        BY <1>3, <1>7, <2>1, <2>2, <2>3
    <2>4. CASE Creates(p)
        BY <1>3, <1>7, <2>1, <2>2, <2>4 DEF Creates
    <2> QED
        BY <2>2, <2>3, <2>4
<1>8. \A x, y \in Procs : /\ NewUser(proc'[x]) /\ NewUser(proc'[y])
                           /\ proc'[x].user = proc'[y].user /\ proc'[x].user \notin gone'
                        => x = y
    <2> TAKE x \in Procs, y \in Procs
    <2> HAVE NewUser(proc'[x]) /\ NewUser(proc'[y]) /\ proc'[x].user = proc'[y].user /\ proc'[x].user \notin gone'
    <2>1. CASE x # p /\ y # p
        BY <1>2, <1>3, <2>1, OthersStay
    <2>2. CASE x = p \/ y = p
        BY <1>2, <1>7, <2>2
    <2> QED
        BY <2>1, <2>2
<1>9. \A x \in Procs : NewUser(proc'[x]) /\ proc'[x].user \notin gone' =>
          proc'[x].user \in users' /\ Unknown(proc'[x].user, holder', tokens', proc')
    BY <1>2, <1>5, <1>6
<1> QED
    BY <1>4, <1>8, <1>9 DEF Owned, OwnSession, NewUser, Unknown

LEMMA OwnedDeleted ==
    ASSUME Typed, Owned, NEW u \in Users, DeleteUser(u)
    PROVE  Owned'
<1>1. /\ proc' = proc /\ tokens' = tokens /\ gone' = gone \cup {u} /\ users' = users \ {u}
      /\ \A v \in Users : Held(v, holder') \subseteq Held(v, holder)
    BY DeleteDoes DEF DeleteUser, Typed
<1>2. ASSUME NEW x \in Procs, NewUser(proc[x]), proc[x].user \notin gone'
      PROVE  proc[x].user \in users' /\ Unknown(proc[x].user, holder', tokens, proc)
    <2>1. proc[x].user \in Users
        BY <1>2 DEF Typed, Coherent, NewUser
    <2>2. proc[x].user \in users /\ Unknown(proc[x].user, holder, tokens, proc)
        BY <1>1, <1>2 DEF Owned
    <2> QED
        BY <1>1, <1>2, <2>1, <2>2 DEF Unknown
<1>3. \A x \in Procs : NewUser(proc[x]) /\ proc[x].user \notin gone' =>
          proc[x].user \in users' /\ Unknown(proc[x].user, holder', tokens, proc)
    BY <1>2
<1> QED
    BY <1>1, <1>3 DEF Owned, OwnSession, NewUser, Unknown

\* A step that changes whose a credential is has a session of its user, or makes
\* the first passkey of a new user.
LEMMA OwnersAct ==
    ASSUME Typed, Owned, NEW p \in Procs, Does(p), NEW c \in Creds, NEW u \in Users,
           (holder[c] = u) # (holder'[c] = u)
    PROVE  /\ proc'[p] # proc[p] /\ proc[p].user = u
           /\ \/ proc[p].token \in tokens /\ proc[p].token.user = u
              \/ proc[p].kind = "anonFinish" /\ (Held(u, holder) = {} \/ u \in gone)
<1> DEFINE q == proc[p]
<1>1. /\ Coherent(q) /\ holder \in [Creds -> users \cup {NoOne}] /\ q.token \in tokens \cup {NoToken}
      /\ OwnSession(q) /\ u # NoOne
    BY PasskeysAssumption DEF Typed, TypeOK, Owned
<1>2. holder'[c] # holder[c]
    OBVIOUS
<1>3. CASE Attests(p)
    <2>1. c = q.cred /\ holder[c] = NoOne /\ holder'[c] = q.user
        BY <1>1, <1>2, <1>3 DEF Attests
    <2>2. q.user = u
        BY <1>1, <2>1
    <2>3. proc'[p].pc # q.pc
        BY <1>3 DEF Attests, Idle
    <2>4. CASE q.kind = "anonFinish"
        <3>1. Unknown(q.user, holder, tokens, proc) \/ q.user \in gone
            BY <1>3, <2>4 DEF Owned, NewUser, Attests
        <3> QED
            BY <2>2, <2>3, <2>4, <3>1 DEF Unknown
    <2>5. CASE q.kind # "anonFinish"
        <3>1. q.kind = "regFinish" /\ q.pc = "attest"
            BY <1>1, <1>3, <2>5 DEF Coherent, Attests
        <3>2. q.token \in tokens /\ q.token.user = q.user
            BY <1>1, <3>1 DEF Coherent, OwnSession, Authed
        <3> QED
            BY <2>2, <2>3, <3>2
    <2> QED
        BY <2>4, <2>5
<1>4. CASE Revokes(p)
    <2>1. c = q.cred /\ holder[c] = q.user /\ holder'[c] = NoOne
        BY <1>1, <1>2, <1>4 DEF Revokes
    <2>2. q.user = u
        BY <1>1, <2>1
    <2>3. proc'[p].pc # q.pc
        BY <1>4 DEF Revokes, Ended, Idle
    <2>4. q.kind = "delete" /\ q.pc = "revoke"
        BY <1>1, <1>4 DEF Coherent, Revokes
    <2>5. q.token \in tokens /\ q.token.user = q.user
        BY <1>1, <2>4 DEF Coherent, OwnSession, Authed
    <2> QED
        BY <2>2, <2>3, <2>5
<1> QED
    BY <1>2, <1>3, <1>4 DEF Does, Quits, Arrives, Fetches, Misses, Sets, Verifies, HandsOut, Creates,
                Begins, Finds, Consumes, LooksUp, Counts, db

\* Passkeys of a user change only when the operator deletes it, and by requests with
\* a session of this user; the first of a new user needs none (the routes of
\* users.py, api-user-create, wallet-user delete).
THEOREM PasskeysTheirs == Spec => PasskeysOwned
<1> DEFINE Acts(u) == \E p \in Procs : /\ proc'[p] # proc[p] /\ proc[p].user = u
                             /\ \/ proc[p].token \in tokens /\ proc[p].token.user = u
                                \/ /\ proc[p].kind = "anonFinish"
                                   /\ Held(u, holder) = {} \/ u \in gone
           Theirs == \A c \in Creds, u \in Users : (holder[c] = u) # (holder'[c] = u) =>
                         \/ u \in users \ users'
                         \/ Acts(u)
<1>1. Init => Owned
    BY DEF Init, Owned, OwnSession, NewUser, Idle
<1>2. Inv /\ Owned /\ [Next]_vars => Owned'
    <2>1. CASE Next
        BY <2>1, NextDoes, OwnedKept, OwnedDeleted DEF Inv
    <2>2. CASE UNCHANGED vars
        BY <2>2 DEF vars, db, history, Owned, OwnSession, NewUser, Unknown, Winning, Held
    <2> QED
        BY <2>1, <2>2
<1>3. Inv /\ Owned /\ [Next]_vars => [Theirs]_vars
    <2>1. ASSUME NEW v \in Users, DeleteUser(v), Typed, NEW c \in Creds, NEW u \in Users,
                 (holder[c] = u) # (holder'[c] = u)
          PROVE  u \in users \ users'
        <3>1. holder[c] = v /\ holder'[c] = NoOne
            BY <2>1, DeleteDoes DEF Typed
        <3>2. u = v
            BY <2>1, <3>1, PasskeysAssumption
        <3> QED
            BY <2>1, <3>2 DEF DeleteUser
    <2>2. ASSUME Inv, Owned, Next PROVE Theirs
        <3> SUFFICES ASSUME NEW c \in Creds, NEW u \in Users, (holder[c] = u) # (holder'[c] = u)
                     PROVE  u \in users \ users' \/ Acts(u)
            OBVIOUS
        <3>1. CASE \E p \in Procs : Does(p)
            BY <2>2, <3>1, OwnersAct DEF Inv
        <3>2. CASE \E v \in Users : DeleteUser(v)
            BY <2>1, <2>2, <3>2 DEF Inv
        <3> QED
            BY <2>2, <3>1, <3>2, NextDoes DEF Inv
    <2> QED
        BY <2>2
<1> QED
    BY <1>1, <1>2, <1>3, PasskeysInvariant, PTL DEF Spec, PasskeysOwned
=============================================================================
