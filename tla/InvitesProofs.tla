----------------------------- MODULE InvitesProofs -----------------------------
(***************************************************************************)
(* Theorems about Invites, for any users, codes, requests and bounds.      *)
(***************************************************************************)
EXTENDS Invites, FiniteSetTheorems, TLAPS

-----------------------------------------------------------------------------
(* The inductive invariant *)

\* Ids that are there or were: nobody else is ever referred to.
Known == { u \in Ids : born[u] # 0 \/ u \in gone }
Presents == { c \in Codes : owner[c] # NoOne }

Rest ==
    /\ born \in [Ids -> 0..clock] /\ clock \in Nat
    /\ ref \in [Ids -> Ids \cup {NoOne}] /\ cap \in [Ids -> 0..Unlimited]
    /\ \A u \in Ids : born[u] = 0 => ref[u] = NoOne /\ cap[u] = Unlimited
    /\ owned \subseteq Ids
    /\ owner \in [Codes -> Ids \cup {Legacy, NoOne}]
    /\ uses \in [Codes -> Nat] /\ life \in [Codes -> Nat]
    /\ referred \in [Codes -> Nat] /\ lost \in [Codes -> Nat]
    /\ gone \subseteq Ids /\ back \subseteq gone
    /\ arrivals \in 0..MaxArrivals

Rows ==
    /\ \A u \in Ids : ref[u] # NoOne => ref[u] \in Known
    /\ \A c \in Codes : owner[c] \in Ids => owner[c] \in Known
    /\ ReferrersOlder

\* What a process knows, given who is known and which codes are there.
Good(q, known, presents) ==
    /\ q.pc # "idle" => q.user \in Ids /\ presents \subseteq q.seen
    /\ q.found \in Ids => q.found \in known
    /\ q.kind = "register" => q.found # Legacy
    /\ (q.pc = "adopt" /\ q.other # NoOne) => q.other \in known
    /\ (q.pc \in {"resolve", "bump", "insert"} /\ q.kind = "register" /\ Required) => q.code \in q.seen
    /\ q.pc = "insert" => q.kind = "register"
    /\ q.pc \in {"open", "stamp"} => q.kind # "register"
    /\ q.pc \in {"measure", "put"} => q.user \in known
    /\ q.pc = "look" => q.kind \in {"cap", "adopt", "remove"}

Inv == Rest /\ proc \in [Procs -> ProcState] /\ Rows
       /\ \A p \in Procs : Good(proc[p], Known, Presents)

LEMMA UnlimitedNat == Unlimited \in Nat
BY InvitesAssumption, FS_CardinalityType DEF Unlimited

LEMMA IdleGood ==
    ASSUME NEW known, NEW presents
    PROVE  Idle \in ProcState /\ Good(Idle, known, presents)
<1>1. 0 \in 0..Unlimited
    BY UnlimitedNat
<1>2. Idle \in ProcState
    BY <1>1 DEF Idle, ProcState, Kinds
<1> QED
    BY <1>2, InvitesAssumption DEF Idle, Good

\* Who knew enough still does when more are known and fewer codes are there.
LEMMA GoodStays ==
    ASSUME NEW q, NEW known, NEW known2, NEW presents, NEW presents2,
           Good(q, known, presents), known \subseteq known2, presents2 \subseteq presents
    PROVE  Good(q, known2, presents2)
BY DEF Good

\* A step of one process that lets no code appear.
LEMMA OneMoves ==
    ASSUME Inv, NEW p \in Procs, NEW n \in ProcState, proc' = [proc EXCEPT ![p] = n],
           Rest', Rows', Known \subseteq Known', Presents' \subseteq Presents,
           Good(n, Known', Presents')
    PROVE  Inv'
<1>1. \A x \in Procs : Good(proc'[x], Known', Presents')
    <2> TAKE x \in Procs
    <2>1. CASE x = p
        BY <2>1 DEF Inv
    <2>2. CASE x # p
        BY <2>2, GoodStays DEF Inv
    <2> QED
        BY <2>1, <2>2
<1> QED
    BY <1>1 DEF Inv

\* A process that ends.
LEMMA Ends ==
    ASSUME Inv, NEW p \in Procs, NEW status, Respond(p, status),
           Rest', Rows', Known \subseteq Known', Presents' \subseteq Presents
    PROVE  Inv'
BY IdleGood, OneMoves DEF Respond

\* A process that goes on.
Pcs == {"idle", "gate", "open", "resolve", "stamp", "bump", "insert", "passkey", "own", "check",
        "unknown", "measure", "put", "drop", "walk", "look", "limit", "adopt", "orphan", "erase"}

LEMMA Moved ==
    ASSUME NEW q \in ProcState, NEW pc \in Pcs
    PROVE  LET n == [q EXCEPT !.pc = pc]
           IN  /\ n \in ProcState /\ n.pc = pc /\ n.kind = q.kind /\ n.user = q.user
               /\ n.code = q.code /\ n.other = q.other /\ n.found = q.found /\ n.seen = q.seen
BY DEF ProcState, Pcs

LEMMA GoesOn ==
    ASSUME Inv, NEW p \in Procs, NEW pc \in Pcs, Goto(p, pc), proc[p].pc # "idle",
           Rest', Rows', Known \subseteq Known', Presents' \subseteq Presents,
           (pc = "adopt" /\ proc[p].other # NoOne) => proc[p].other \in Known,
           (pc \in {"resolve", "bump", "insert"} /\ proc[p].kind = "register" /\ Required)
               => proc[p].code \in proc[p].seen,
           pc = "insert" => proc[p].kind = "register",
           pc \in {"open", "stamp"} => proc[p].kind # "register",
           pc \in {"measure", "put"} => proc[p].user \in Known,
           pc # "look"
    PROVE  Inv'
<1> DEFINE q == proc[p]
           n == [q EXCEPT !.pc = pc]
<1>1. q \in ProcState /\ Good(q, Known, Presents)
    BY DEF Inv
<1>2. /\ n \in ProcState /\ n.pc = pc /\ n.kind = q.kind /\ n.user = q.user
      /\ n.code = q.code /\ n.other = q.other /\ n.found = q.found /\ n.seen = q.seen
    BY <1>1, Moved
<1>3. proc' = [proc EXCEPT ![p] = n]
    BY DEF Goto
<1> HIDE DEF n
<1>4. Good(n, Known', Presents')
    BY <1>1, <1>2 DEF Good
<1> QED
    BY <1>2, <1>3, <1>4, OneMoves

LEMMA Still ==
    ASSUME Inv, UNCHANGED << rows, owned, codes, clock, history >>, arrivals' \in 0..MaxArrivals
    PROVE  Rest' /\ Rows' /\ Known \subseteq Known' /\ Presents' \subseteq Presents
           /\ Known' = Known /\ Presents' = Presents
<1>1. Rest'
    BY DEF Inv, Rest, rows, codes, history
<1>2. Known' = Known /\ Presents' = Presents
    BY DEF Known, Presents, rows, codes, history
<1>3. ReferrersOlder' <=> ReferrersOlder
    BY DEF ReferrersOlder, There, rows, history
<1>4. Rows'
    BY <1>2, <1>3 DEF Inv, Rows, rows, codes
<1> QED
    BY <1>1, <1>2, <1>4

LEMMA StillUnmoved ==
    ASSUME Inv, Unmoved
    PROVE  Rest' /\ Rows' /\ Known \subseteq Known' /\ Presents' \subseteq Presents
           /\ Known' = Known /\ Presents' = Presents
BY Still DEF Unmoved, Inv, Rest

-----------------------------------------------------------------------------
(* Steps that leave the tables alone *)

LEMMA ArriveKeeps ==
    ASSUME Inv, NEW p \in Procs, Arrive(p)
    PROVE  Inv'
<1>1. PICK r \in Requests :
          /\ arrivals < MaxArrivals /\ arrivals' = arrivals + 1
          /\ proc' = [proc EXCEPT ![p] =
                  [Idle EXCEPT !.pc = FirstStep(r.kind), !.kind = r.kind, !.user = r.user,
                               !.code = r.code, !.other = r.other, !.max = r.max,
                               !.seen = { c \in Codes : Present(c) }]]
    BY DEF Arrive
<1> DEFINE pc == FirstStep(r.kind)
           codes1 == { c \in Codes : Present(c) }
           a == [Idle EXCEPT !.pc = pc]
           b == [a EXCEPT !.kind = r.kind]
           c == [b EXCEPT !.user = r.user]
           d == [c EXCEPT !.code = r.code]
           e == [d EXCEPT !.other = r.other]
           f == [e EXCEPT !.max = r.max]
           n == [f EXCEPT !.seen = codes1]
<1>2. /\ r.kind \in Kinds /\ r.user \in Ids /\ r.code \in Codes \cup {NoCode}
      /\ r.other \in Ids \cup {NoOne} /\ r.max \in 0..Unlimited
    BY InvitesAssumption
<1>3. pc \in {"gate", "unknown", "check", "drop", "walk", "look"}
    BY DEF FirstStep
<1>4. pc = "look" => r.kind \in {"cap", "adopt", "remove"}
    BY <1>2 DEF FirstStep, Kinds
<1>5. Presents = codes1 /\ codes1 \in SUBSET Codes
    BY DEF Presents, Present
<1>6. proc' = [proc EXCEPT ![p] = n]
    BY <1>1
<1>7. Idle \in ProcState /\ Idle.found = NoOne
    BY IdleGood DEF Idle
<1> HIDE DEF pc, codes1
<1>8. /\ n.pc = pc /\ n.kind = r.kind /\ n.user = r.user /\ n.code = r.code
      /\ n.other = r.other /\ n.found = NoOne /\ n.seen = codes1
    BY <1>7 DEF ProcState
<1>9. n \in ProcState
    <2>1. a \in ProcState
        BY <1>3, <1>7 DEF ProcState
    <2> HIDE DEF a
    <2>2. b \in ProcState
        BY <1>2, <2>1 DEF ProcState
    <2> HIDE DEF b
    <2>3. c \in ProcState
        BY <1>2, <2>2 DEF ProcState
    <2> HIDE DEF c
    <2>4. d \in ProcState
        BY <1>2, <2>3 DEF ProcState
    <2> HIDE DEF d
    <2>5. e \in ProcState
        BY <1>2, <2>4 DEF ProcState
    <2> HIDE DEF e
    <2>6. f \in ProcState
        BY <1>2, <2>5 DEF ProcState
    <2> HIDE DEF f
    <2> QED
        BY <1>5, <2>6 DEF ProcState
<1> HIDE DEF n
<1>10. Good(n, Known, Presents)
    BY <1>2, <1>3, <1>4, <1>5, <1>8, InvitesAssumption DEF Good
<1>11. arrivals' \in 0..MaxArrivals
    BY <1>1, InvitesAssumption DEF Inv, Rest
<1>12. UNCHANGED << rows, owned, codes, clock, history >>
    BY DEF Arrive
<1> QED
    BY <1>6, <1>9, <1>10, <1>11, <1>12, Still, OneMoves

LEMMA GateKeeps ==
    ASSUME Inv, NEW p \in Procs, Gate(p)
    PROVE  Inv'
<1>1. /\ Unmoved /\ proc[p].pc = "gate"
      /\ \/ Respond(p, IF proc[p].kind = "register" THEN "401" ELSE "400")
         \/ Admitted(p) /\ Goto(p, IF proc[p].kind = "register" THEN "resolve" ELSE "open")
    BY DEF Gate
<1>2. (Admitted(p) /\ Required) => proc[p].code \in proc[p].seen
    BY <1>1 DEF Admitted, Present, Inv, Good, Presents
<1>3. (IF proc[p].kind = "register" THEN "resolve" ELSE "open") \in {"resolve", "open"} \cap Pcs
    BY DEF Pcs
<1> QED
    BY <1>1, <1>2, <1>3, StillUnmoved, Ends, GoesOn

LEMMA PlainKeeps ==
    ASSUME Inv, NEW p \in Procs,
           Open(p) \/ Passkey(p) \/ Unknown(p) \/ Check(p) \/ Measure(p) \/ Walk(p)
    PROVE  Inv'
<1>1. /\ Unmoved /\ proc[p].pc # "idle"
      /\ \/ \E status : Respond(p, status)
         \/ proc[p].pc = "open" /\ Goto(p, "resolve")
         \/ There(proc[p].user) /\ Goto(p, "measure")
         \/ proc[p].pc = "measure" /\ Goto(p, "put")
    BY DEF Open, Passkey, Unknown, Check, Measure, Walk
<1>2. /\ proc[p].pc = "open" => proc[p].kind # "register"
      /\ proc[p].pc = "measure" => proc[p].user \in Known
      /\ There(proc[p].user) => proc[p].user \in Known
    BY DEF Inv, Good, There, Known
<1>3. {"resolve", "measure", "put"} \subseteq Pcs
    BY DEF Pcs
<1>4. CASE \E status : Respond(p, status)
    BY <1>1, <1>4, StillUnmoved, Ends
<1>5. CASE proc[p].pc = "open" /\ Goto(p, "resolve")
    BY <1>1, <1>2, <1>3, <1>5, StillUnmoved, GoesOn
<1>6. CASE There(proc[p].user) /\ Goto(p, "measure")
    BY <1>1, <1>2, <1>3, <1>6, StillUnmoved, GoesOn
<1>7. CASE proc[p].pc = "measure" /\ Goto(p, "put")
    BY <1>1, <1>2, <1>3, <1>7, StillUnmoved, GoesOn
<1> QED
    BY <1>1, <1>4, <1>5, <1>6, <1>7

\* Whom an operator's command names is there when it is looked up.
LEMMA LookKeeps ==
    ASSUME Inv, NEW p \in Procs, Look(p)
    PROVE  Inv'
<1>1. Unmoved /\ proc[p].pc = "look" /\ proc[p].kind \in {"cap", "adopt", "remove"}
    BY DEF Look, Inv, Good
<1>2. \/ \E status : Respond(p, status)
      \/ Goto(p, "limit") \/ Goto(p, "orphan")
      \/ Goto(p, "adopt") /\ RefKnown(p)
    BY <1>1 DEF Look
<1>3. (RefKnown(p) /\ proc[p].other # NoOne) => proc[p].other \in Known
    BY DEF RefKnown, There, Known
<1>4. {"limit", "orphan", "adopt"} \subseteq Pcs
    BY DEF Pcs
<1>5. CASE \E status : Respond(p, status)
    BY <1>1, <1>5, StillUnmoved, Ends
<1>6. CASE Goto(p, "limit") \/ Goto(p, "orphan")
    BY <1>1, <1>4, <1>6, StillUnmoved, GoesOn
<1>7. CASE Goto(p, "adopt") /\ RefKnown(p)
    BY <1>1, <1>3, <1>4, <1>7, StillUnmoved, GoesOn
<1> QED
    BY <1>2, <1>5, <1>6, <1>7

LEMMA ResolveKeeps ==
    ASSUME Inv, NEW p \in Procs, Resolve(p)
    PROVE  Inv'
<1> DEFINE q == proc[p]
           c == q.code
<1>1. /\ Unmoved /\ q.pc = "resolve" /\ q \in ProcState /\ Good(q, Known, Presents)
    BY DEF Resolve, Inv
<1>2. CASE Names(p)
    <2> DEFINE a == [q EXCEPT !.found = owner[c]]
               b == [a EXCEPT !.life = life[c]]
               pc == IF q.kind = "register" THEN "bump" ELSE "stamp"
               n == [b EXCEPT !.pc = pc]
    <2>1. c \in Codes /\ owner[c] \in Ids \cup {Legacy} /\ life[c] \in Nat
          /\ (q.kind = "register" => owner[c] # Legacy)
        BY <1>2 DEF Names, Present, Inv, Rest
    <2>2. proc' = [proc EXCEPT ![p] = n]
        BY <1>2 DEF Resolve
    <2>3. /\ n.pc = pc /\ n.kind = q.kind /\ n.user = q.user /\ n.code = q.code
          /\ n.other = q.other /\ n.found = owner[c] /\ n.seen = q.seen
        BY <1>1 DEF ProcState
    <2>4. a \in ProcState
        BY <1>1, <2>1 DEF ProcState
    <2> HIDE DEF a
    <2>5. b \in ProcState
        BY <2>1, <2>4 DEF ProcState
    <2> HIDE DEF b
    <2>6. n \in ProcState
        BY <2>5 DEF ProcState
    <2> HIDE DEF n
    <2>7. owner[c] \in Ids => owner[c] \in Known
        BY <2>1 DEF Inv, Rows
    <2>8. Good(n, Known, Presents)
        BY <1>1, <2>1, <2>3, <2>7 DEF Good
    <2> QED
        BY <1>1, <2>2, <2>6, <2>8, StillUnmoved, OneMoves
<1>3. CASE ~Names(p)
    <2> DEFINE pc == IF q.kind = "register" THEN "insert" ELSE "own"
               n == [q EXCEPT !.pc = pc]
    <2>1. proc' = [proc EXCEPT ![p] = n]
        BY <1>3 DEF Resolve
    <2>2. /\ n \in ProcState /\ n.pc = pc /\ n.kind = q.kind /\ n.user = q.user
          /\ n.code = q.code /\ n.other = q.other /\ n.found = q.found /\ n.seen = q.seen
        BY <1>1 DEF ProcState
    <2> HIDE DEF n
    <2>3. Good(n, Known, Presents)
        BY <1>1, <2>2 DEF Good
    <2> QED
        BY <1>1, <2>1, <2>2, <2>3, StillUnmoved, OneMoves
<1> QED
    BY <1>2, <1>3

-----------------------------------------------------------------------------
(* Steps that only count, or own *)

LEMMA Counting ==
    ASSUME Inv, UNCHANGED << rows, owner, clock, arrivals, gone, back >>,
           owned' \subseteq Ids,
           uses' \in [Codes -> Nat], life' \in [Codes -> Nat],
           referred' \in [Codes -> Nat], lost' \in [Codes -> Nat]
    PROVE  Rest' /\ Rows' /\ Known \subseteq Known' /\ Presents' \subseteq Presents
<1>1. Rest'
    BY DEF Inv, Rest, rows
<1>2. Known' = Known /\ Presents' = Presents
    BY DEF Known, Presents, rows
<1>3. ReferrersOlder' <=> ReferrersOlder
    BY DEF ReferrersOlder, There, rows
<1>4. Rows'
    BY <1>2, <1>3 DEF Inv, Rows, rows
<1> QED
    BY <1>1, <1>2, <1>4

LEMMA ReferringTyped ==
    ASSUME Inv, NEW p \in Procs
    PROVE  Referring(p) \in [Codes -> Nat]
BY DEF Inv, Rest, Referring

LEMMA StampKeeps ==
    ASSUME Inv, NEW p \in Procs, Stamp(p)
    PROVE  Inv'
<1>1. /\ proc[p].pc = "stamp" /\ referred' = Referring(p) /\ Goto(p, "bump")
      /\ UNCHANGED << rows, owned, codes, clock, arrivals, gone, back, life, lost >>
    BY DEF Stamp
<1>2. Rest' /\ Rows' /\ Known \subseteq Known' /\ Presents' \subseteq Presents
    BY <1>1, ReferringTyped, Counting DEF Inv, Rest, codes
<1>3. proc[p].kind # "register"
    BY <1>1 DEF Inv, Good
<1>4. "bump" \in Pcs
    BY DEF Pcs
<1> QED
    BY <1>1, <1>2, <1>3, <1>4, GoesOn

LEMMA BumpKeeps ==
    ASSUME Inv, NEW p \in Procs, Bump(p) \/ BumpFails(p)
    PROVE  Inv'
<1>1. /\ proc[p].pc = "bump" /\ Goto(p, AfterBump(p))
      /\ UNCHANGED << rows, owned, owner, clock, arrivals, gone, back, life, referred >>
    BY DEF Bump, BumpFails, history, codes
<1>2. uses' \in [Codes -> Nat] /\ lost' \in [Codes -> Nat]
    BY DEF Bump, BumpFails, Bumped, Present, Inv, Rest, history, codes
<1>3. Rest' /\ Rows' /\ Known \subseteq Known' /\ Presents' \subseteq Presents
    BY <1>1, <1>2, Counting DEF Inv, Rest
<1>4. AfterBump(p) \in {"insert", "own"} \cap Pcs
      /\ (AfterBump(p) = "insert" => proc[p].kind = "register")
    BY DEF AfterBump, Pcs
<1>5. (proc[p].kind = "register" /\ Required) => proc[p].code \in proc[p].seen
    BY <1>1 DEF Inv, Good
<1> QED
    BY <1>1, <1>3, <1>4, <1>5, GoesOn

LEMMA OwnKeeps ==
    ASSUME Inv, NEW p \in Procs, Own(p)
    PROVE  Inv'
<1>1. /\ proc[p].pc = "own" /\ owned' = owned \cup {proc[p].user} /\ Respond(p, "201")
      /\ UNCHANGED << rows, codes, clock, arrivals, history >>
    BY DEF Own
<1>2. proc[p].user \in Ids
    BY <1>1 DEF Inv, Good
<1>3. Rest' /\ Rows' /\ Known \subseteq Known' /\ Presents' \subseteq Presents
    BY <1>1, <1>2, Counting DEF Inv, Rest, codes, history
<1> QED
    BY <1>1, <1>3, Ends

LEMMA OrphanKeeps ==
    ASSUME Inv, NEW p \in Procs, Orphan(p)
    PROVE  Inv'
<1>1. /\ proc[p].pc = "orphan" /\ owned' = owned \ {proc[p].user} /\ Goto(p, "erase")
      /\ UNCHANGED << rows, codes, clock, arrivals, history >>
    BY DEF Orphan
<1>2. Rest' /\ Rows' /\ Known \subseteq Known' /\ Presents' \subseteq Presents
    BY <1>1, Counting DEF Inv, Rest, codes, history
<1>3. "erase" \in Pcs
    BY DEF Pcs
<1> QED
    BY <1>1, <1>2, <1>3, GoesOn

-----------------------------------------------------------------------------
(* Codes appear and go *)

LEMMA DropKeeps ==
    ASSUME Inv, NEW p \in Procs, Drop(p)
    PROVE  Inv'
<1> DEFINE c == proc[p].code
<1>1. /\ owner' = [owner EXCEPT ![c] = NoOne]
      /\ UNCHANGED << rows, owned, uses, clock, arrivals, history >>
    BY DEF Drop
<1>2. PICK status : Respond(p, status)
    BY DEF Drop
<1>3. Rest'
    BY <1>1 DEF Inv, Rest, rows, history
<1>4. Known' = Known /\ Presents' \subseteq Presents
    BY <1>1 DEF Known, Presents, rows, history, Inv, Rest
<1>5. ReferrersOlder' <=> ReferrersOlder
    BY <1>1 DEF ReferrersOlder, There, rows, history
<1>6. \A x \in Codes : owner'[x] \in {owner[x], NoOne}
    BY <1>1 DEF Inv, Rest
<1>7. Rows'
    BY <1>1, <1>4, <1>5, <1>6, InvitesAssumption DEF Inv, Rows, rows
<1> QED
    BY <1>2, <1>3, <1>4, <1>7, Ends

\* A code that appears is seen by whoever is under way.
LEMMA PutKeeps ==
    ASSUME Inv, NEW p \in Procs, Put(p)
    PROVE  Inv'
<1> DEFINE c == proc[p].code
           u == proc[p].user
<1>1. /\ proc[p].pc = "put" /\ u \in Ids
      /\ UNCHANGED << rows, owned, clock, arrivals, gone, back >>
    BY DEF Put, Inv, Good
<1>2. CASE Present(c)
    <2>1. Respond(p, "exit 1") /\ UNCHANGED << owner, uses, life, referred, lost >>
        BY <1>2 DEF Put
    <2>2. Rest' /\ Rows' /\ Known \subseteq Known' /\ Presents' \subseteq Presents
        BY <1>1, <2>1, Counting DEF Inv, Rest
    <2> QED
        BY <2>1, <2>2, Ends
<1>3. CASE ~Present(c)
    <2>1. /\ owner' = [owner EXCEPT ![c] = u] /\ uses' = [uses EXCEPT ![c] = 0]
          /\ life' = [life EXCEPT ![c] = @ + 1]
          /\ referred' = [referred EXCEPT ![c] = 0] /\ lost' = [lost EXCEPT ![c] = 0]
          /\ proc' = Watched(owner', [proc EXCEPT ![p] = Idle])
        BY <1>3 DEF Put
    <2>2. Rest'
        <3>1. /\ owner' \in [Codes -> Ids \cup {Legacy, NoOne}]
              /\ uses' \in [Codes -> Nat] /\ referred' \in [Codes -> Nat] /\ lost' \in [Codes -> Nat]
            BY <1>1, <2>1 DEF Inv, Rest
        <3>2. life' \in [Codes -> Nat]
            <4> DEFINE more == life[c] + 1
            <4>1. life \in [Codes -> Nat] /\ life' = [life EXCEPT ![c] = more]
                BY <2>1 DEF Inv, Rest
            <4>2. c \in Codes => more \in Nat
                BY <4>1
            <4> HIDE DEF more
            <4> QED
                BY <4>1, <4>2
        <3> QED
            BY <1>1, <3>1, <3>2 DEF Inv, Rest, rows
    <2>3. Known' = Known /\ (ReferrersOlder' <=> ReferrersOlder)
        BY <1>1 DEF Known, ReferrersOlder, There, rows
    <2>4. Rows'
        <3>1. u \in Known
            BY <1>1 DEF Inv, Good
        <3>2. \A x \in Codes : owner'[x] = owner[x] \/ owner'[x] = u
            BY <2>1 DEF Inv, Rest
        <3>3. \A x \in Codes : owner'[x] \in Ids => owner'[x] \in Known
            BY <3>1, <3>2 DEF Inv, Rows
        <3> QED
            BY <1>1, <2>3, <3>3 DEF Inv, Rows, rows
    <2> DEFINE procs == [proc EXCEPT ![p] = Idle]
               seen == { x \in Codes : owner'[x] # NoOne }
    <2>5. seen = Presents'
        BY DEF Presents
    <2>6. \A x \in Procs : procs[x] \in ProcState /\ Good(procs[x], Known, Presents)
        BY IdleGood DEF Inv
    <2>7. \A x \in Procs : proc'[x] = IF procs[x].pc = "idle" THEN procs[x]
                                      ELSE [procs[x] EXCEPT !.seen = @ \cup seen]
        BY <2>1 DEF Watched
    <2>8. DOMAIN proc' = Procs /\ proc' = [x \in Procs |-> proc'[x]]
        BY <2>1 DEF Watched
    <2>9. seen \in SUBSET Codes
        OBVIOUS
    <2> HIDE DEF procs, seen
    <2>10. \A x \in Procs : proc'[x] \in ProcState /\ Good(proc'[x], Known, seen)
        <3> SUFFICES ASSUME NEW x \in Procs
                     PROVE  proc'[x] \in ProcState /\ Good(proc'[x], Known, seen)
            OBVIOUS
        <3> DEFINE q == procs[x]
                   n == [q EXCEPT !.seen = @ \cup seen]
        <3>1. q \in ProcState /\ Good(q, Known, Presents)
            BY <2>6
        <3>2. CASE q.pc = "idle"
            BY <2>7, <3>1, <3>2 DEF Good
        <3>3. CASE q.pc # "idle"
            <4>1. proc'[x] = n
                BY <2>7, <3>3
            <4>2. /\ n \in ProcState /\ n.pc = q.pc /\ n.kind = q.kind /\ n.user = q.user
                  /\ n.code = q.code /\ n.other = q.other /\ n.found = q.found /\ n.seen = q.seen \cup seen
                BY <2>9, <3>1 DEF ProcState
            <4> HIDE DEF n, q
            <4>3. Good(n, Known, seen)
                BY <3>1, <4>2 DEF Good
            <4> QED
                BY <4>1, <4>2, <4>3
        <3> QED
            BY <3>2, <3>3
    <2>11. proc' \in [Procs -> ProcState]
        BY <2>8, <2>10
    <2> QED
        BY <2>2, <2>3, <2>4, <2>5, <2>10, <2>11 DEF Inv
<1> QED
    BY <1>2, <1>3

-----------------------------------------------------------------------------
(* Rows come and go *)

LEMMA LimitKeeps ==
    ASSUME Inv, NEW p \in Procs, Limit(p)
    PROVE  Inv'
<1> DEFINE u == proc[p].user
           max == proc[p].max
<1>1. /\ cap' = [cap EXCEPT ![u] = IF There(u) THEN max ELSE @] /\ Respond(p, "exit 0")
      /\ UNCHANGED << born, ref, owned, codes, clock, arrivals, history >>
    BY DEF Limit
<1>2. max \in 0..Unlimited
    BY DEF Inv, ProcState
<1> HIDE DEF u, max
<1>3. /\ cap' \in [Ids -> 0..Unlimited]
      /\ \A v \in Ids : born[v] = 0 => cap'[v] = cap[v]
    BY <1>1, <1>2 DEF Inv, Rest, There
<1>4. Rest'
    BY <1>1, <1>3 DEF Inv, Rest, codes, history
<1>5. Known' = Known /\ Presents' = Presents /\ (ReferrersOlder' <=> ReferrersOlder)
    BY <1>1 DEF Known, Presents, ReferrersOlder, There, codes, history
<1>6. Rows'
    BY <1>1, <1>5 DEF Inv, Rows, codes
<1> QED
    BY <1>1, <1>4, <1>5, <1>6, Ends

\* A row is written for an id that is free; whom it names was there once.
LEMMA NewRowKeeps ==
    ASSUME Inv, NEW u \in Ids, NEW r \in Ids \cup {NoOne}, NewRow(u, r), born[u] = 0,
           r # NoOne => r \in Known,
           UNCHANGED << owned, codes, arrivals, gone, life, lost >>, referred' \in [Codes -> Nat]
    PROVE  Rest' /\ Rows' /\ Known \subseteq Known' /\ Presents' \subseteq Presents
<1>1. /\ clock' = clock + 1 /\ born' = [born EXCEPT ![u] = clock + 1]
      /\ ref' = [ref EXCEPT ![u] = r] /\ back' = back \cup ({u} \cap gone) /\ cap' = cap
    BY DEF NewRow
<1>2. /\ clock \in Nat /\ clock + 1 \in Nat /\ born'[u] = clock + 1 /\ born'[u] # 0 /\ ref'[u] = r
      /\ \A v \in Ids \ {u} : born'[v] = born[v] /\ ref'[v] = ref[v]
      /\ \A v \in Ids : born[v] \in Nat /\ born[v] <= clock /\ born[v] < born'[u]
    BY <1>1 DEF Inv, Rest
<1>3. Rest'
    <2>1. born' \in [Ids -> 0..clock'] /\ clock' \in Nat
        BY <1>1 DEF Inv, Rest
    <2>2. ref' \in [Ids -> Ids \cup {NoOne}]
        BY <1>1 DEF Inv, Rest
    <2>3. \A v \in Ids : born'[v] = 0 => ref'[v] = NoOne /\ cap'[v] = Unlimited
        BY <1>1, <1>2 DEF Inv, Rest
    <2> QED
        BY <1>1, <2>1, <2>2, <2>3 DEF Inv, Rest, codes
<1>4. Known \subseteq Known' /\ Presents' = Presents
    BY <1>2 DEF Known, Presents, codes
<1>5. \A v \in Ids : ref'[v] # NoOne => ref'[v] \in Known'
    BY <1>2, <1>4 DEF Inv, Rows
<1>6. \A c \in Codes : owner'[c] \in Ids => owner'[c] \in Known'
    BY <1>4 DEF Inv, Rows, codes
<1>7. ReferrersOlder'
    <2> SUFFICES ASSUME NEW v \in Ids, There(ref[v])', ref'[v] \notin back'
                 PROVE  born'[ref'[v]] < born'[v]
        BY DEF ReferrersOlder
    <2> DEFINE w == ref'[v]
    <2>1. w \in Ids /\ born'[w] # 0 /\ w \notin back
        BY <1>1 DEF There
    <2>2. w \in Known
        BY <1>2, <2>1, InvitesAssumption DEF Inv, Rows
    <2>3. w # u
        BY <1>1, <2>1, <2>2 DEF Known
    <2>4. born'[w] = born[w]
        BY <1>2, <2>1, <2>3
    <2>5. CASE v = u
        BY <1>2, <2>1, <2>4, <2>5
    <2>6. CASE v # u
        BY <1>2, <2>1, <2>4, <2>6 DEF Inv, Rows, ReferrersOlder, There
    <2> QED
        BY <2>5, <2>6
<1> QED
    BY <1>3, <1>4, <1>5, <1>6, <1>7 DEF Rows

LEMMA InsertKeeps ==
    ASSUME Inv, NEW p \in Procs, Insert(p)
    PROVE  Inv'
<1> DEFINE u == proc[p].user
<1>1. /\ proc[p].pc = "insert" /\ u \in Ids /\ proc[p].kind = "register"
      /\ UNCHANGED << owned, codes, arrivals, gone, life, lost >>
      /\ \/ \E status : Respond(p, status)
         \/ Goto(p, "passkey")
      /\ \/ UNCHANGED << rows, clock, back, referred >>
         \/ ~Taken(u) /\ NewRow(u, proc[p].found) /\ referred' = Referring(p)
    BY DEF Insert, Inv, Good
<1>2. /\ proc[p].found \in Ids \cup {NoOne}
      /\ proc[p].found # NoOne => proc[p].found \in Known
    <2>1. proc[p] \in ProcState /\ Good(proc[p], Known, Presents)
        BY DEF Inv
    <2>2. proc[p].found \in Ids \cup {Legacy, NoOne}
        BY <2>1 DEF ProcState
    <2> QED
        BY <1>1, <2>1, <2>2 DEF Good
<1>3. Rest' /\ Rows' /\ Known \subseteq Known' /\ Presents' \subseteq Presents
    <2>1. CASE UNCHANGED << rows, clock, back, referred >>
        BY <1>1, <2>1, Counting DEF Inv, Rest, codes
    <2>2. CASE ~Taken(u) /\ NewRow(u, proc[p].found) /\ referred' = Referring(p)
        <3>1. born[u] = 0 /\ referred' \in [Codes -> Nat]
            BY <2>2, ReferringTyped DEF Taken
        <3> QED
            BY <1>1, <1>2, <2>2, <3>1, NewRowKeeps
    <2> QED
        BY <1>1, <2>1, <2>2
<1>4. "passkey" \in Pcs
    BY DEF Pcs
<1> QED
    BY <1>1, <1>3, <1>4, Ends, GoesOn

LEMMA AdoptKeeps ==
    ASSUME Inv, NEW p \in Procs, Adopt(p)
    PROVE  Inv'
<1> DEFINE u == proc[p].user
<1>1. /\ proc[p].pc = "adopt" /\ u \in Ids /\ Respond(p, "exit 0")
      /\ UNCHANGED << owned, codes, arrivals, gone, life, referred, lost >>
      /\ \/ UNCHANGED << rows, clock, back >>
         \/ born[u] = 0 /\ NewRow(u, proc[p].other)
    BY DEF Adopt, Inv, Good
<1>2. /\ proc[p].other \in Ids \cup {NoOne}
      /\ proc[p].other # NoOne => proc[p].other \in Known
    BY <1>1 DEF Inv, Good, ProcState
<1>3. Rest' /\ Rows' /\ Known \subseteq Known' /\ Presents' \subseteq Presents
    <2>1. CASE UNCHANGED << rows, clock, back >>
        BY <1>1, <2>1, Counting DEF Inv, Rest, codes
    <2>2. CASE born[u] = 0 /\ NewRow(u, proc[p].other)
        BY <1>1, <1>2, <2>2, NewRowKeeps DEF Inv, Rest
    <2> QED
        BY <1>1, <2>1, <2>2
<1> QED
    BY <1>1, <1>3, Ends

LEMMA EraseKeeps ==
    ASSUME Inv, NEW p \in Procs, Erase(p)
    PROVE  Inv'
<1> DEFINE u == proc[p].user
<1>1. /\ proc[p].pc = "erase" /\ Respond(p, "exit 0")
      /\ born' = [born EXCEPT ![u] = 0] /\ ref' = CutOff(u)
      /\ cap' = [cap EXCEPT ![u] = Unlimited] /\ owned' = owned \ {u} /\ gone' = gone \cup {u}
      /\ UNCHANGED << codes, clock, arrivals, back, life, referred, lost >>
    BY DEF Erase
<1>2. u \in Ids
    BY <1>1 DEF Inv, Good
<1>3. /\ born'[u] = 0 /\ ref'[u] = NoOne
      /\ \A v \in Ids : ref'[v] \in {ref[v], NoOne} \ {u}
      /\ \A v \in Ids \ {u} : born'[v] = born[v]
    BY <1>1, <1>2, InvitesAssumption DEF CutOff, Inv, Rest
<1>4. Rest'
    <2>1. born' \in [Ids -> 0..clock'] /\ clock' \in Nat
        <3>1. clock' = clock /\ clock \in Nat /\ born \in [Ids -> 0..clock]
            BY <1>1 DEF Inv, Rest
        <3>2. 0 \in 0..clock
            BY <3>1
        <3> QED
            BY <1>1, <3>1, <3>2
    <2>2. ref' \in [Ids -> Ids \cup {NoOne}]
        BY <1>1 DEF CutOff, Inv, Rest
    <2>3. cap' \in [Ids -> 0..Unlimited]
        <3>1. Unlimited \in 0..Unlimited /\ cap \in [Ids -> 0..Unlimited]
            BY UnlimitedNat DEF Inv, Rest
        <3> QED
            BY <1>1, <3>1
    <2>4. \A v \in Ids : born'[v] = 0 => ref'[v] = NoOne /\ cap'[v] = Unlimited
        BY <1>1, <1>2, <1>3 DEF Inv, Rest
    <2> QED
        BY <1>1, <1>2, <2>1, <2>2, <2>3, <2>4 DEF Inv, Rest, codes
<1>5. Known \subseteq Known' /\ Presents' = Presents
    BY <1>1, <1>3 DEF Known, Presents, codes
<1>6. ReferrersOlder'
    BY <1>1, <1>2, <1>3, InvitesAssumption DEF Inv, Rows, ReferrersOlder, There
<1>7. Rows'
    BY <1>1, <1>3, <1>5, <1>6 DEF Inv, Rows, codes
<1> QED
    BY <1>1, <1>4, <1>5, <1>7, Ends

-----------------------------------------------------------------------------
(* Counting the uses of a code *)

One(b) == IF b THEN 1 ELSE 0

\* A registration whose code was counted, and whose row is still to be written; an
\* account that was referred, and whose code is still to be counted.
Waits(q, c, lives) == q.pc = "insert" /\ q.found # NoOne /\ q.code = c /\ q.life = lives[c]
Stamps(q, c, lives) == q.pc = "bump" /\ q.kind = "account" /\ q.code = c /\ q.life = lives[c]
Waiting(c) == { p \in Procs : Waits(proc[p], c, life) }

\* A process found its code in this life of it or an earlier one; until it looked it has
\* found nobody.
Sure(q, lives) ==
    /\ q.code \in Codes => q.life <= lives[q.code]
    /\ q.pc \in {"gate", "open", "resolve"} => q.found = NoOne
    /\ q.pc \in {"gate", "open", "resolve", "stamp"} => q.kind \in {"register", "account"}

\* What a code will have referred when the rows under way are there is not more than its
\* uses will be.
Counted(c) == referred[c] + Cardinality(Waiting(c)) <= uses[c] + lost[c] + Cardinality(Stamping(c))

Counts == /\ \A p \in Procs : Sure(proc[p], life)
          /\ \A c \in Codes : Present(c) => Counted(c)

\* Two sets that differ in one element at most.
LEMMA CardMoves ==
    ASSUME NEW P, IsFiniteSet(P), NEW S \in SUBSET P, NEW T \in SUBSET P, NEW p,
           \A q \in P : q # p => (q \in S <=> q \in T)
    PROVE  /\ Cardinality(S) \in Nat /\ Cardinality(T) \in Nat
           /\ Cardinality(T) + One(p \in S) = Cardinality(S) + One(p \in T)
<1> DEFINE R == S \ {p}
<1>1. IsFiniteSet(S) /\ IsFiniteSet(T) /\ IsFiniteSet(R)
    BY FS_Subset
<1>2. Cardinality(S) \in Nat /\ Cardinality(T) \in Nat /\ Cardinality(R) \in Nat
    BY <1>1, FS_CardinalityType
<1>3. R = T \ {p}
    OBVIOUS
<1> HIDE DEF R
<1>4. Cardinality(S) = Cardinality(R) + One(p \in S)
    <2>1. CASE p \in S
        <3>1. S = R \cup {p} /\ p \notin R
            BY <2>1 DEF R
        <3> QED
            BY <1>1, <1>2, <2>1, <3>1, FS_AddElement DEF One
    <2>2. CASE p \notin S
        <3>1. S = R
            BY <2>2 DEF R
        <3> QED
            BY <1>2, <2>2, <3>1 DEF One
    <2> QED
        BY <2>1, <2>2
<1>5. Cardinality(T) = Cardinality(R) + One(p \in T)
    <2>1. CASE p \in T
        <3>1. T = R \cup {p} /\ p \notin R
            BY <1>3, <2>1
        <3> QED
            BY <1>1, <1>2, <2>1, <3>1, FS_AddElement DEF One
    <2>2. CASE p \notin T
        <3>1. T = R
            BY <1>3, <2>2
        <3> QED
            BY <1>2, <2>2, <3>1 DEF One
    <2> QED
        BY <2>1, <2>2
<1> QED
    BY <1>2, <1>4, <1>5 DEF One

\* One process moves: the count of a code holds on if it does for that process.
LEMMA CountedStays ==
    ASSUME IsFiniteSet(Procs), Rest, Rest', NEW p \in Procs, NEW c \in Codes,
           life'[c] = life[c],
           \A q \in Procs : q # p => /\ Waits(proc'[q], c, life') <=> Waits(proc[q], c, life)
                                     /\ Stamps(proc'[q], c, life') <=> Stamps(proc[q], c, life),
           Counted(c),
           referred'[c] + One(Waits(proc'[p], c, life')) + uses[c] + lost[c] + One(Stamps(proc[p], c, life))
             <= referred[c] + One(Waits(proc[p], c, life)) + uses'[c] + lost'[c]
                  + One(Stamps(proc'[p], c, life'))
    PROVE  Counted(c)'
<1> DEFINE W == { q \in Procs : Waits(proc[q], c, life) }
           W2 == { q \in Procs : Waits(proc'[q], c, life') }
           S == { q \in Procs : Stamps(proc[q], c, life) }
           S2 == { q \in Procs : Stamps(proc'[q], c, life') }
<1>1. Waiting(c) = W /\ Waiting(c)' = W2 /\ Stamping(c) = S /\ Stamping(c)' = S2
    BY DEF Waiting, Stamping, Stamps
<1>2. /\ Cardinality(W) \in Nat /\ Cardinality(W2) \in Nat
      /\ Cardinality(W2) + One(p \in W) = Cardinality(W) + One(p \in W2)
    <2>1. W \in SUBSET Procs /\ W2 \in SUBSET Procs /\ \A q \in Procs : q # p => (q \in W <=> q \in W2)
        OBVIOUS
    <2> HIDE DEF W, W2
    <2> QED
        BY <2>1, CardMoves
<1>3. /\ Cardinality(S) \in Nat /\ Cardinality(S2) \in Nat
      /\ Cardinality(S2) + One(p \in S) = Cardinality(S) + One(p \in S2)
    <2>1. S \in SUBSET Procs /\ S2 \in SUBSET Procs /\ \A q \in Procs : q # p => (q \in S <=> q \in S2)
        OBVIOUS
    <2> HIDE DEF S, S2
    <2> QED
        BY <2>1, CardMoves
<1>4. /\ (p \in W <=> Waits(proc[p], c, life)) /\ (p \in W2 <=> Waits(proc'[p], c, life'))
      /\ (p \in S <=> Stamps(proc[p], c, life)) /\ (p \in S2 <=> Stamps(proc'[p], c, life'))
    OBVIOUS
<1>5. /\ referred[c] \in Nat /\ uses[c] \in Nat /\ lost[c] \in Nat
      /\ referred'[c] \in Nat /\ uses'[c] \in Nat /\ lost'[c] \in Nat
    BY DEF Rest
<1>6. referred[c] + Cardinality(W) <= uses[c] + lost[c] + Cardinality(S)
    BY <1>1 DEF Counted
<1>7. referred'[c] + Cardinality(W2) <= uses'[c] + lost'[c] + Cardinality(S2)
    <2>1. referred'[c] + One(p \in W2) + uses[c] + lost[c] + One(p \in S)
             <= referred[c] + One(p \in W) + uses'[c] + lost'[c] + One(p \in S2)
        BY <1>4 DEF One
    <2>2. One(p \in W) \in Nat /\ One(p \in W2) \in Nat /\ One(p \in S) \in Nat /\ One(p \in S2) \in Nat
        BY DEF One
    <2> HIDE DEF W, W2, S, S2
    <2> QED
        BY <1>2, <1>3, <1>5, <1>6, <2>1, <2>2
<1> QED
    BY <1>1, <1>7 DEF Counted

\* A step of one process at which no code is minted.
LEMMA CountsStay ==
    ASSUME IsFiniteSet(Procs), Rest, Rest', Counts, NEW p \in Procs, life' = life,
           \A q \in Procs : q # p => proc'[q] = proc[q],
           \A c \in Codes : Present(c)' => Present(c),
           Sure(proc'[p], life),
           \A c \in Codes : Present(c) =>
             referred'[c] + One(Waits(proc'[p], c, life)) + uses[c] + lost[c] + One(Stamps(proc[p], c, life))
               <= referred[c] + One(Waits(proc[p], c, life)) + uses'[c] + lost'[c]
                    + One(Stamps(proc'[p], c, life))
    PROVE  Counts'
<1>1. \A q \in Procs : Sure(proc'[q], life')
    BY DEF Counts
<1>2. ASSUME NEW c \in Codes, Present(c)' PROVE Counted(c)'
    <2>1. Present(c) /\ Counted(c)
        BY <1>2 DEF Counts
    <2>2. \A q \in Procs : q # p => /\ Waits(proc'[q], c, life') <=> Waits(proc[q], c, life)
                                    /\ Stamps(proc'[q], c, life') <=> Stamps(proc[q], c, life)
        OBVIOUS
    <2>3. referred'[c] + One(Waits(proc'[p], c, life')) + uses[c] + lost[c] + One(Stamps(proc[p], c, life))
             <= referred[c] + One(Waits(proc[p], c, life)) + uses'[c] + lost'[c]
                  + One(Stamps(proc'[p], c, life'))
        BY <2>1
    <2> QED
        BY <2>1, <2>2, <2>3, CountedStays
<1> QED
    BY <1>1, <1>2 DEF Counts

\* A step after which the process is neither counted nor counts, and was not before.
LEMMA CountsCalm ==
    ASSUME IsFiniteSet(Procs), Rest, Rest', Counts, NEW p \in Procs,
           UNCHANGED << uses, life, referred, lost >>,
           \A q \in Procs : q # p => proc'[q] = proc[q],
           \A c \in Codes : Present(c)' => Present(c),
           Sure(proc'[p], life),
           proc[p].pc \notin {"bump", "insert"},
           \A c \in Codes : ~Waits(proc'[p], c, life) /\ ~Stamps(proc'[p], c, life)
    PROVE  Counts'
<1>1. \A c \in Codes : ~Waits(proc[p], c, life) /\ ~Stamps(proc[p], c, life)
    BY DEF Waits, Stamps
<1>2. ASSUME NEW c \in Codes
      PROVE  referred'[c] + One(Waits(proc'[p], c, life)) + uses[c] + lost[c] + One(Stamps(proc[p], c, life))
               <= referred[c] + One(Waits(proc[p], c, life)) + uses'[c] + lost'[c]
                    + One(Stamps(proc'[p], c, life))
    <2>1. /\ One(Waits(proc'[p], c, life)) = 0 /\ One(Stamps(proc'[p], c, life)) = 0
          /\ One(Waits(proc[p], c, life)) = 0 /\ One(Stamps(proc[p], c, life)) = 0
        BY <1>1 DEF One
    <2>2. referred[c] \in Nat /\ uses[c] \in Nat /\ lost[c] \in Nat
        BY DEF Rest
    <2> QED
        BY <2>1, <2>2
<1> QED
    BY <1>2, CountsStay

LEMMA IdleSure ==
    ASSUME NEW lives
    PROVE  /\ Sure(Idle, lives)
           /\ \A c \in Codes : ~Waits(Idle, c, lives) /\ ~Stamps(Idle, c, lives)
BY InvitesAssumption DEF Idle, Sure, Waits, Stamps

LEMMA EndEffect ==
    ASSUME Inv, NEW p \in Procs, NEW status, Respond(p, status)
    PROVE  proc'[p] = Idle /\ \A q \in Procs : q # p => proc'[q] = proc[q]
BY DEF Respond, Inv

LEMMA GotoEffect ==
    ASSUME Inv, NEW p \in Procs, NEW pc \in Pcs, Goto(p, pc)
    PROVE  /\ proc'[p].pc = pc /\ proc'[p].kind = proc[p].kind /\ proc'[p].code = proc[p].code
           /\ proc'[p].found = proc[p].found /\ proc'[p].life = proc[p].life
           /\ \A q \in Procs : q # p => proc'[q] = proc[q]
<1> DEFINE n == [proc[p] EXCEPT !.pc = pc]
<1>1. proc' = [proc EXCEPT ![p] = n] /\ proc[p] \in ProcState
    BY DEF Goto, Inv
<1>2. /\ n.pc = pc /\ n.kind = proc[p].kind /\ n.code = proc[p].code
      /\ n.found = proc[p].found /\ n.life = proc[p].life
    BY <1>1 DEF ProcState, Pcs
<1> HIDE DEF n
<1> QED
    BY <1>1, <1>2 DEF Inv

\* Steps with no part in the counting.
LEMMA PlainCounts ==
    ASSUME IsFiniteSet(Procs), Inv, Inv', Counts, NEW p \in Procs,
           UNCHANGED << uses, life, referred, lost >>,
           \A c \in Codes : Present(c)' => Present(c),
           proc[p].pc \notin {"bump", "insert"},
           \/ \E status : Respond(p, status)
           \/ \E pc \in Pcs \ {"gate", "open", "stamp", "bump", "insert"} :
                 Goto(p, pc) /\ (pc = "resolve" => proc[p].pc \in {"gate", "open"})
           \/ Goto(p, "open") /\ proc[p].pc = "gate"
    PROVE  Counts'
<1> Rest /\ Rest'
    BY DEF Inv
<1>1. ASSUME NEW status, Respond(p, status) PROVE Counts'
    BY <1>1, EndEffect, IdleSure, CountsCalm
<1>2. ASSUME NEW pc \in Pcs \ {"gate", "stamp", "bump", "insert"}, Goto(p, pc),
             pc \in {"resolve", "open"} => proc[p].pc \in {"gate", "open"}
      PROVE  Counts'
    <2>1. /\ proc'[p].pc = pc /\ proc'[p].kind = proc[p].kind /\ proc'[p].code = proc[p].code
          /\ proc'[p].found = proc[p].found /\ proc'[p].life = proc[p].life
          /\ \A q \in Procs : q # p => proc'[q] = proc[q]
        BY <1>2, GotoEffect
    <2>2. Sure(proc'[p], life)
        BY <1>2, <2>1 DEF Counts, Sure
    <2>3. \A c \in Codes : ~Waits(proc'[p], c, life) /\ ~Stamps(proc'[p], c, life)
        BY <1>2, <2>1 DEF Waits, Stamps
    <2> QED
        BY <2>1, <2>2, <2>3, CountsCalm
<1>3. "open" \in Pcs
    BY DEF Pcs
<1> QED
    BY <1>1, <1>2, <1>3

\* Rows of users, caps, owners and codes that go: no use is counted.
LEMMA OtherCounts ==
    ASSUME IsFiniteSet(Procs), Inv, Inv', Counts, NEW p \in Procs,
           \/ Gate(p) \/ Open(p) \/ Passkey(p) \/ Own(p) \/ Unknown(p) \/ Check(p) \/ Measure(p)
           \/ Drop(p) \/ Walk(p) \/ Look(p) \/ Limit(p) \/ Adopt(p) \/ Orphan(p) \/ Erase(p)
    PROVE  Counts'
<1>1. {"resolve", "open", "measure", "put", "limit", "adopt", "orphan", "erase"} \subseteq Pcs
    BY DEF Pcs
<1>2. CASE Gate(p) \/ Open(p) \/ Passkey(p) \/ Unknown(p) \/ Check(p) \/ Measure(p) \/ Walk(p) \/ Look(p)
    <2>1. UNCHANGED << owner, uses, life, referred, lost >> /\ proc[p].pc \notin {"bump", "insert"}
        BY <1>2 DEF Gate, Open, Passkey, Unknown, Check, Measure, Walk, Look, Unmoved, codes, history
    <2>2. \/ \E status : Respond(p, status)
          \/ Goto(p, "resolve") /\ proc[p].pc \in {"gate", "open"}
          \/ Goto(p, "open") /\ proc[p].pc = "gate"
          \/ \E pc \in {"measure", "put", "limit", "adopt", "orphan"} : Goto(p, pc)
        <3>1. CASE Look(p)
            <4>1. proc[p].kind \in {"cap", "adopt", "remove"}
                BY <3>1 DEF Look, Inv, Good
            <4> QED
                BY <3>1, <4>1 DEF Look
        <3>2. CASE Gate(p)
            <4>1. CASE ~Admitted(p)
                BY <3>2, <4>1 DEF Gate
            <4>2. CASE Admitted(p) /\ proc[p].kind = "register"
                BY <3>2, <4>2 DEF Gate
            <4>3. CASE Admitted(p) /\ proc[p].kind # "register"
                BY <3>2, <4>3 DEF Gate
            <4> QED
                BY <4>1, <4>2, <4>3
        <3>3. CASE Check(p) \/ Measure(p)
            BY <3>3 DEF Check, Measure
        <3>4. CASE Open(p) \/ Passkey(p) \/ Unknown(p) \/ Walk(p)
            BY <3>4 DEF Open, Passkey, Unknown, Walk
        <3> QED
            BY <1>2, <3>1, <3>2, <3>3, <3>4
    <2>3. \A c \in Codes : Present(c)' => Present(c)
        BY <2>1 DEF Present
    <2> QED
        BY <1>1, <2>1, <2>2, <2>3, PlainCounts
<1>3. CASE Own(p) \/ Drop(p) \/ Limit(p) \/ Adopt(p) \/ Erase(p)
    <2>1. UNCHANGED << uses, life, referred, lost >> /\ proc[p].pc \notin {"bump", "insert"}
          /\ \E status : Respond(p, status)
        BY <1>3 DEF Own, Drop, Limit, Adopt, Erase, codes, history
    <2>2. \A c \in Codes : Present(c)' => Present(c)
        BY <1>3 DEF Own, Drop, Limit, Adopt, Erase, codes, history, Present, Inv, Rest
    <2> QED
        BY <2>1, <2>2, PlainCounts
<1>4. CASE Orphan(p)
    <2>1. UNCHANGED << owner, uses, life, referred, lost >> /\ proc[p].pc = "orphan" /\ Goto(p, "erase")
        BY <1>4 DEF Orphan, codes, history
    <2>2. \A c \in Codes : Present(c)' => Present(c)
        BY <2>1 DEF Present
    <2> QED
        BY <1>1, <2>1, <2>2, PlainCounts
<1> QED
    BY <1>2, <1>3, <1>4

LEMMA ArriveCounts ==
    ASSUME IsFiniteSet(Procs), Inv, Inv', Counts, NEW p \in Procs, Arrive(p)
    PROVE  Counts'
<1>1. PICK r \in Requests :
          proc' = [proc EXCEPT ![p] =
                  [Idle EXCEPT !.pc = FirstStep(r.kind), !.kind = r.kind, !.user = r.user,
                               !.code = r.code, !.other = r.other, !.max = r.max,
                               !.seen = { c \in Codes : Present(c) }]]
    BY DEF Arrive
<1>2. proc[p].pc = "idle" /\ UNCHANGED << owner, uses, life, referred, lost >>
    BY DEF Arrive, codes, history
<1>3. /\ proc'[p].pc = FirstStep(r.kind) /\ proc'[p].kind = r.kind
      /\ proc'[p].found = NoOne /\ proc'[p].life = 0
      /\ \A q \in Procs : q # p => proc'[q] = proc[q]
    BY <1>1 DEF Idle, Inv
<1>4. /\ FirstStep(r.kind) \in {"gate", "unknown", "check", "drop", "walk", "look"}
      /\ FirstStep(r.kind) = "gate" => r.kind \in {"register", "account"}
    <2>1. r.kind \in Kinds
        BY InvitesAssumption
    <2> QED
        BY <2>1 DEF FirstStep, Kinds
<1>5. Sure(proc'[p], life)
    <2>1. \A c \in Codes : 0 <= life[c]
        BY DEF Inv, Rest
    <2> QED
        BY <1>3, <1>4, <2>1 DEF Sure
<1>6. \A c \in Codes : ~Waits(proc'[p], c, life) /\ ~Stamps(proc'[p], c, life)
    BY <1>3, <1>4 DEF Waits, Stamps
<1>7. \A c \in Codes : Present(c)' => Present(c)
    BY <1>2 DEF Present
<1> QED
    BY <1>2, <1>3, <1>5, <1>6, <1>7, CountsCalm DEF Inv

LEMMA ResolveCounts ==
    ASSUME IsFiniteSet(Procs), Inv, Inv', Counts, NEW p \in Procs, Resolve(p)
    PROVE  Counts'
<1> DEFINE q == proc[p]
           c == q.code
<1>1. /\ q.pc = "resolve" /\ q \in ProcState /\ UNCHANGED << owner, uses, life, referred, lost >>
    BY DEF Resolve, Inv, Unmoved, codes, history
<1>2. q.found = NoOne /\ q.kind \in {"register", "account"}
      /\ (c \in Codes => q.life <= life[c])
    BY <1>1 DEF Counts, Sure
<1>3. \A x \in Codes : Present(x)' => Present(x)
    BY <1>1 DEF Present
<1>4. CASE Names(p)
    <2> DEFINE pc == IF q.kind = "register" THEN "bump" ELSE "stamp"
               n == [q EXCEPT !.found = owner[c], !.life = life[c], !.pc = pc]
    <2>1. proc' = [proc EXCEPT ![p] = n]
        BY <1>4 DEF Resolve
    <2>2. /\ n.pc = pc /\ n.kind = q.kind /\ n.code = q.code
          /\ n.found = owner[c] /\ n.life = life[c]
        BY <1>1 DEF ProcState
    <2> HIDE DEF n
    <2>3. Sure(n, life)
        <3>1. c \in Codes => life[c] <= life[c]
            BY DEF Inv, Rest
        <3> QED
            BY <1>2, <2>2, <3>1 DEF Sure
    <2>4. \A x \in Codes : ~Waits(n, x, life) /\ ~Stamps(n, x, life)
        BY <2>2 DEF Waits, Stamps
    <2>5. proc'[p] = n /\ \A x \in Procs : x # p => proc'[x] = proc[x]
        BY <2>1 DEF Inv
    <2> QED
        BY <1>1, <1>3, <2>3, <2>4, <2>5, CountsCalm DEF Inv
<1>5. CASE ~Names(p)
    <2> DEFINE pc == IF q.kind = "register" THEN "insert" ELSE "own"
               n == [q EXCEPT !.pc = pc]
    <2>1. proc' = [proc EXCEPT ![p] = n]
        BY <1>5 DEF Resolve
    <2>2. /\ n.pc = pc /\ n.kind = q.kind /\ n.code = q.code
          /\ n.found = q.found /\ n.life = q.life
        BY <1>1 DEF ProcState
    <2> HIDE DEF n
    <2>3. Sure(n, life)
        BY <1>2, <2>2 DEF Sure
    <2>4. \A x \in Codes : ~Waits(n, x, life) /\ ~Stamps(n, x, life)
        BY <1>2, <2>2 DEF Waits, Stamps
    <2>5. proc'[p] = n /\ \A x \in Procs : x # p => proc'[x] = proc[x]
        BY <2>1 DEF Inv
    <2> QED
        BY <1>1, <1>3, <2>3, <2>4, <2>5, CountsCalm DEF Inv
<1> QED
    BY <1>4, <1>5

\* The row written or stamped refers one, or none.
LEMMA ReferringOne ==
    ASSUME Rest, NEW p \in Procs, NEW c \in Codes
    PROVE  \/ Referring(p)[c] = referred[c]
           \/ /\ Referring(p)[c] = referred[c] + 1
              /\ c = proc[p].code /\ life[c] = proc[p].life /\ proc[p].found # NoOne
<1> DEFINE refers == c = proc[p].code /\ Present(c) /\ life[c] = proc[p].life /\ proc[p].found # NoOne
<1>1. Referring(p)[c] = referred[c] + IF refers THEN 1 ELSE 0
    BY DEF Referring
<1>2. referred[c] \in Nat
    BY DEF Rest
<1> QED
    BY <1>1, <1>2

\* An account is referred before the code is counted ...
LEMMA StampCounts ==
    ASSUME IsFiniteSet(Procs), Inv, Inv', Counts, NEW p \in Procs, Stamp(p)
    PROVE  Counts'
<1>1. /\ proc[p].pc = "stamp" /\ referred' = Referring(p) /\ Goto(p, "bump")
      /\ UNCHANGED << owner, uses, life, lost >> /\ "bump" \in Pcs
    BY DEF Stamp, codes, Pcs
<1>2. /\ proc'[p].pc = "bump" /\ proc'[p].kind = proc[p].kind /\ proc'[p].code = proc[p].code
      /\ proc'[p].found = proc[p].found /\ proc'[p].life = proc[p].life
      /\ \A q \in Procs : q # p => proc'[q] = proc[q]
    BY <1>1, GotoEffect
<1>3. proc[p].kind = "account"
    BY <1>1 DEF Inv, Good, Counts, Sure
<1>4. Sure(proc'[p], life)
    BY <1>1, <1>2 DEF Counts, Sure
<1>5. ASSUME NEW c \in Codes
      PROVE  referred'[c] + One(Waits(proc'[p], c, life)) + uses[c] + lost[c] + One(Stamps(proc[p], c, life))
               <= referred[c] + One(Waits(proc[p], c, life)) + uses'[c] + lost'[c]
                    + One(Stamps(proc'[p], c, life))
    <2>1. ~Waits(proc[p], c, life) /\ ~Waits(proc'[p], c, life) /\ ~Stamps(proc[p], c, life)
        BY <1>1, <1>2 DEF Waits, Stamps
    <2>2. Stamps(proc'[p], c, life) <=> (proc[p].code = c /\ proc[p].life = life[c])
        BY <1>2, <1>3 DEF Stamps
    <2>3. referred[c] \in Nat /\ uses[c] \in Nat /\ lost[c] \in Nat
        BY DEF Inv, Rest
    <2>4. \/ referred'[c] = referred[c]
          \/ referred'[c] = referred[c] + 1 /\ c = proc[p].code /\ life[c] = proc[p].life
        BY <1>1, ReferringOne DEF Inv
    <2> QED
        BY <1>1, <2>1, <2>2, <2>3, <2>4 DEF One
<1>6. \A c \in Codes : Present(c)' => Present(c)
    BY <1>1 DEF Present
<1> QED
    BY <1>1, <1>2, <1>4, <1>5, <1>6, CountsStay DEF Inv

\* ... and a code that registers is counted before the row is written.
LEMMA BumpCounts ==
    ASSUME IsFiniteSet(Procs), Inv, Inv', Counts, NEW p \in Procs, Bump(p) \/ BumpFails(p)
    PROVE  Counts'
<1>1. /\ proc[p].pc = "bump" /\ Goto(p, AfterBump(p)) /\ AfterBump(p) \in Pcs
      /\ UNCHANGED << owner, life, referred >>
    BY DEF Bump, BumpFails, history, codes, AfterBump, Pcs
<1>2. /\ proc'[p].pc = AfterBump(p) /\ proc'[p].kind = proc[p].kind /\ proc'[p].code = proc[p].code
      /\ proc'[p].found = proc[p].found /\ proc'[p].life = proc[p].life
      /\ \A q \in Procs : q # p => proc'[q] = proc[q]
    BY <1>1, GotoEffect
<1>3. Sure(proc'[p], life)
    BY <1>1, <1>2 DEF Counts, Sure, AfterBump
<1>4. ASSUME NEW c \in Codes, Present(c)
      PROVE  referred'[c] + One(Waits(proc'[p], c, life)) + uses[c] + lost[c] + One(Stamps(proc[p], c, life))
               <= referred[c] + One(Waits(proc[p], c, life)) + uses'[c] + lost'[c]
                    + One(Stamps(proc'[p], c, life))
    <2>1. ~Waits(proc[p], c, life) /\ ~Stamps(proc'[p], c, life)
        BY <1>1, <1>2 DEF Waits, Stamps, AfterBump
    <2>2. referred[c] \in Nat /\ uses[c] \in Nat /\ lost[c] \in Nat
        BY DEF Inv, Rest
    <2>3. uses'[c] + lost'[c] = uses[c] + lost[c] + One(c = proc[p].code)
        <3>1. CASE Bump(p)
            BY <1>4, <2>2, <3>1 DEF Bump, Bumped, history, One, Inv, Rest
        <3>2. CASE BumpFails(p)
            BY <2>2, <3>2 DEF BumpFails, codes, One, Inv, Rest
        <3> QED
            BY <3>1, <3>2
    <2>4. ~(Waits(proc'[p], c, life) /\ Stamps(proc[p], c, life))
        BY <1>2 DEF Waits, Stamps, AfterBump
    <2>5. Waits(proc'[p], c, life) \/ Stamps(proc[p], c, life) => c = proc[p].code
        BY <1>2 DEF Waits, Stamps
    <2>6. uses'[c] \in Nat /\ lost'[c] \in Nat
        BY DEF Inv, Rest
    <2> QED
        BY <1>1, <2>1, <2>2, <2>3, <2>4, <2>5, <2>6 DEF One
<1>5. \A c \in Codes : Present(c)' => Present(c)
    BY <1>1 DEF Present
<1> QED
    BY <1>1, <1>2, <1>3, <1>4, <1>5, CountsStay DEF Inv

LEMMA InsertCounts ==
    ASSUME IsFiniteSet(Procs), Inv, Inv', Counts, NEW p \in Procs, Insert(p)
    PROVE  Counts'
<1>1. /\ proc[p].pc = "insert" /\ UNCHANGED << owner, uses, life, lost >>
      /\ referred' = referred \/ referred' = Referring(p)
      /\ (\E status : Respond(p, status)) \/ Goto(p, "passkey")
      /\ "passkey" \in Pcs
    BY DEF Insert, codes, Pcs
<1>2. /\ Sure(proc'[p], life)
      /\ \A c \in Codes : ~Waits(proc'[p], c, life) /\ ~Stamps(proc'[p], c, life)
      /\ \A q \in Procs : q # p => proc'[q] = proc[q]
    <2>1. ASSUME NEW status, Respond(p, status) PROVE <1>2
        BY <2>1, EndEffect, IdleSure
    <2>2. CASE Goto(p, "passkey")
        <3>1. /\ proc'[p].pc = "passkey" /\ proc'[p].code = proc[p].code
              /\ proc'[p].life = proc[p].life
              /\ \A q \in Procs : q # p => proc'[q] = proc[q]
            BY <1>1, <2>2, GotoEffect
        <3> QED
            BY <3>1 DEF Counts, Sure, Waits, Stamps
    <2> QED
        BY <1>1, <2>1, <2>2
<1>3. ASSUME NEW c \in Codes
      PROVE  referred'[c] + One(Waits(proc'[p], c, life)) + uses[c] + lost[c] + One(Stamps(proc[p], c, life))
               <= referred[c] + One(Waits(proc[p], c, life)) + uses'[c] + lost'[c]
                    + One(Stamps(proc'[p], c, life))
    <2>1. ~Waits(proc'[p], c, life) /\ ~Stamps(proc'[p], c, life) /\ ~Stamps(proc[p], c, life)
        BY <1>1, <1>2 DEF Stamps
    <2>2. referred[c] \in Nat /\ uses[c] \in Nat /\ lost[c] \in Nat
        BY DEF Inv, Rest
    <2>3. \/ referred'[c] = referred[c]
          \/ referred'[c] = referred[c] + 1 /\ Waits(proc[p], c, life)
        BY <1>1, ReferringOne DEF Inv, Waits
    <2> QED
        BY <1>1, <2>1, <2>2, <2>3 DEF One
<1>4. \A c \in Codes : Present(c)' => Present(c)
    BY <1>1 DEF Present
<1> QED
    BY <1>1, <1>2, <1>3, <1>4, CountsStay DEF Inv

\* A code minted anew starts at nothing: who found it earlier found another life of it.
LEMMA PutCounts ==
    ASSUME IsFiniteSet(Procs), Inv, Inv', Counts, NEW p \in Procs, Put(p)
    PROVE  Counts'
<1> DEFINE c == proc[p].code
<1> Rest /\ Rest'
    BY DEF Inv
<1>1. CASE Present(c)
    <2>1. /\ Respond(p, "exit 1") /\ UNCHANGED << owner, uses, life, referred, lost >>
          /\ proc[p].pc = "put"
        BY <1>1 DEF Put
    <2>2. \A x \in Codes : Present(x)' => Present(x)
        BY <2>1 DEF Present
    <2> QED
        BY <2>1, <2>2, PlainCounts
<1>2. CASE ~Present(c)
    <2>1. /\ proc[p].pc = "put"
          /\ owner' = [owner EXCEPT ![c] = proc[p].user] /\ uses' = [uses EXCEPT ![c] = 0]
          /\ life' = [life EXCEPT ![c] = @ + 1]
          /\ referred' = [referred EXCEPT ![c] = 0] /\ lost' = [lost EXCEPT ![c] = 0]
          /\ proc' = Watched(owner', [proc EXCEPT ![p] = Idle])
        BY <1>2 DEF Put
    <2>2. /\ \A x \in Codes : life'[x] = IF x = c THEN life[x] + 1 ELSE life[x]
          /\ \A x \in Codes : x # c => owner'[x] = owner[x] /\ uses'[x] = uses[x]
                                       /\ referred'[x] = referred[x] /\ lost'[x] = lost[x]
          /\ c \in Codes => referred'[c] = 0 /\ uses'[c] = 0 /\ lost'[c] = 0
        BY <2>1 DEF Rest
    <2> DEFINE procs == [proc EXCEPT ![p] = Idle]
               seen == { x \in Codes : owner'[x] # NoOne }
    <2>3. \A x \in Procs : proc'[x] = IF procs[x].pc = "idle" THEN procs[x]
                                      ELSE [procs[x] EXCEPT !.seen = @ \cup seen]
        BY <2>1 DEF Watched
    <2>4. ASSUME NEW x \in Procs, x # p
          PROVE  /\ proc'[x].pc = proc[x].pc /\ proc'[x].kind = proc[x].kind
                 /\ proc'[x].code = proc[x].code /\ proc'[x].found = proc[x].found
                 /\ proc'[x].life = proc[x].life
        <3>1. procs[x] = proc[x] /\ proc[x] \in ProcState
            BY <2>4 DEF Inv
        <3> HIDE DEF procs, seen
        <3>2. CASE proc[x].pc = "idle"
            BY <2>3, <3>1, <3>2
        <3>3. CASE proc[x].pc # "idle"
            <4>1. proc'[x] = [proc[x] EXCEPT !.seen = @ \cup seen]
                BY <2>3, <3>1, <3>3
            <4> QED
                BY <3>1, <4>1 DEF ProcState
        <3> QED
            BY <3>2, <3>3
    <2>5. proc'[p] = Idle
        <3>1. procs[p] = Idle
            BY DEF Inv
        <3>2. Idle.pc = "idle"
            BY DEF Idle
        <3> HIDE DEF procs, seen
        <3> QED
            BY <2>3, <3>1, <3>2
    <2> HIDE DEF procs, seen
    <2>6. ASSUME NEW x \in Procs PROVE Sure(proc'[x], life')
        <3>1. CASE x = p
            BY <2>5, <3>1, IdleSure
        <3>2. CASE x # p
            <4>1. Sure(proc[x], life)
                BY DEF Counts
            <4>2. proc[x].code \in Codes => proc[x].life <= life'[proc[x].code]
                <5>1. proc[x].life \in Nat
                    BY DEF Inv, ProcState
                <5>2. \A y \in Codes : life[y] \in Nat /\ life'[y] \in Nat /\ life[y] <= life'[y]
                    BY <2>2 DEF Rest
                <5> QED
                    BY <4>1, <5>1, <5>2 DEF Sure
            <4> QED
                BY <2>4, <3>2, <4>1, <4>2 DEF Sure
        <3> QED
            BY <3>1, <3>2
    <2>7. ASSUME NEW d \in Codes, Present(d)' PROVE Counted(d)'
        <3>1. CASE d = c
            <4> DEFINE W == { x \in Procs : Waits(proc'[x], d, life') }
                       S == { x \in Procs : Stamps(proc'[x], d, life') }
            <4>1. ASSUME NEW x \in Procs PROVE ~Waits(proc'[x], d, life') /\ ~Stamps(proc'[x], d, life')
                <5>1. CASE x = p
                    BY <2>5, <5>1, IdleSure
                <5>2. CASE x # p /\ proc[x].code = d
                    <6>1. proc[x].life \in Nat /\ life[d] \in Nat /\ proc[x].life <= life[d]
                        BY <5>2 DEF Counts, Sure, Inv, ProcState, Rest
                    <6>2. life'[d] = life[d] + 1
                        BY <2>2, <3>1
                    <6> QED
                        BY <2>4, <5>2, <6>1, <6>2 DEF Waits, Stamps
                <5>3. CASE x # p /\ proc[x].code # d
                    BY <2>4, <5>3 DEF Waits, Stamps
                <5> QED
                    BY <5>1, <5>2, <5>3
            <4>2. W = {} /\ S = {}
                BY <4>1
            <4>3. Waiting(d)' = W /\ Stamping(d)' = S
                BY DEF Waiting, Stamping, Stamps
            <4>4. referred'[d] = 0 /\ uses'[d] = 0 /\ lost'[d] = 0
                BY <2>2, <3>1
            <4> HIDE DEF W, S
            <4> QED
                BY <4>2, <4>3, <4>4, FS_EmptySet DEF Counted
        <3>2. CASE d # c
            <4>1. /\ life'[d] = life[d] /\ uses'[d] = uses[d] /\ referred'[d] = referred[d]
                  /\ lost'[d] = lost[d] /\ owner'[d] = owner[d]
                BY <2>2, <3>2
            <4>2. Counted(d)
                BY <2>7, <4>1 DEF Counts, Present
            <4>3. \A x \in Procs : x # p => /\ Waits(proc'[x], d, life') <=> Waits(proc[x], d, life)
                                            /\ Stamps(proc'[x], d, life') <=> Stamps(proc[x], d, life)
                BY <2>4, <4>1 DEF Waits, Stamps
            <4>4. /\ ~Waits(proc'[p], d, life') /\ ~Stamps(proc'[p], d, life')
                  /\ ~Waits(proc[p], d, life) /\ ~Stamps(proc[p], d, life)
                BY <2>1, <2>5, IdleSure DEF Waits, Stamps
            <4>5. referred'[d] + One(Waits(proc'[p], d, life')) + uses[d] + lost[d] + One(Stamps(proc[p], d, life))
                    <= referred[d] + One(Waits(proc[p], d, life)) + uses'[d] + lost'[d]
                         + One(Stamps(proc'[p], d, life'))
                <5>1. /\ One(Waits(proc'[p], d, life')) = 0 /\ One(Stamps(proc'[p], d, life')) = 0
                      /\ One(Waits(proc[p], d, life)) = 0 /\ One(Stamps(proc[p], d, life)) = 0
                    BY <4>4 DEF One
                <5>2. referred[d] \in Nat /\ uses[d] \in Nat /\ lost[d] \in Nat
                    BY DEF Rest
                <5> QED
                    BY <4>1, <5>1, <5>2
            <4> QED
                BY <4>1, <4>2, <4>3, <4>5, CountedStays
        <3> QED
            BY <3>1, <3>2
    <2> QED
        BY <2>6, <2>7 DEF Counts
<1> QED
    BY <1>1, <1>2

-----------------------------------------------------------------------------
(* Theorems *)

LEMMA InitInv ==
    ASSUME Init
    PROVE  Inv
<1>1. Unlimited \in 0..Unlimited
    BY UnlimitedNat
<1>2. Rest
    <2>1. born \in [Ids -> 0..clock]
        BY OpeningAssumption DEF Init
    <2> QED
        BY <1>1, <2>1, OpeningAssumption, InvitesAssumption DEF Init, Rest
<1>3. Rows
    BY OpeningAssumption, InvitesAssumption DEF Init, Rows, Known, ReferrersOlder, There
<1>4. proc \in [Procs -> ProcState] /\ \A p \in Procs : Good(proc[p], Known, Presents)
    BY IdleGood DEF Init
<1> QED
    BY <1>2, <1>3, <1>4 DEF Inv

LEMMA NextInv ==
    ASSUME Inv, [Next]_vars
    PROVE  Inv'
<1>1. ASSUME NEW p \in Procs, Step(p)
      PROVE  Inv'
    <2>1. CASE Gate(p)
        BY <2>1, GateKeeps
    <2>2. CASE Open(p) \/ Passkey(p) \/ Unknown(p) \/ Check(p) \/ Measure(p) \/ Walk(p)
        BY <2>2, PlainKeeps
    <2>3. CASE Resolve(p)
        BY <2>3, ResolveKeeps
    <2>4. CASE Stamp(p)
        BY <2>4, StampKeeps
    <2>5. CASE Bump(p)
        BY <2>5, BumpKeeps
    <2>6. CASE Insert(p)
        BY <2>6, InsertKeeps
    <2>7. CASE Own(p)
        BY <2>7, OwnKeeps
    <2>8. CASE Put(p)
        BY <2>8, PutKeeps
    <2>9. CASE Drop(p)
        BY <2>9, DropKeeps
    <2>10. CASE Look(p)
        BY <2>10, LookKeeps
    <2>11. CASE Limit(p)
        BY <2>11, LimitKeeps
    <2>12. CASE Adopt(p)
        BY <2>12, AdoptKeeps
    <2>13. CASE Orphan(p)
        BY <2>13, OrphanKeeps
    <2>14. CASE Erase(p)
        BY <2>14, EraseKeeps
    <2> QED
        BY <1>1, <2>1, <2>2, <2>3, <2>4, <2>5, <2>6, <2>7, <2>8, <2>9, <2>10, <2>11, <2>12,
           <2>13, <2>14 DEF Step
<1>2. ASSUME NEW p \in Procs, Arrive(p) \/ BumpFails(p)
      PROVE  Inv'
    BY <1>2, ArriveKeeps, BumpKeeps
<1>3. CASE UNCHANGED vars
    <2>1. Rest' /\ Rows' /\ Known' = Known /\ Presents' = Presents
        BY <1>3, Still DEF vars, Inv, Rest
    <2> QED
        BY <1>3, <2>1 DEF vars, Inv
<1> QED
    BY <1>1, <1>2, <1>3 DEF Next

LEMMA InitCounts ==
    ASSUME IsFiniteSet(Procs), Init
    PROVE  Counts
<1>1. \A p \in Procs : Sure(proc[p], life)
    BY IdleSure DEF Init
<1>2. ASSUME NEW c \in Codes PROVE Counted(c)
    <2>1. referred[c] = 0 /\ uses[c] = 0 /\ lost[c] = 0
        BY DEF Init
    <2>2. Waiting(c) = {} /\ Stamping(c) = {}
        BY DEF Init, Waiting, Waits, Stamping, Idle
    <2> QED
        BY <2>1, <2>2, FS_EmptySet DEF Counted
<1> QED
    BY <1>1, <1>2 DEF Counts

LEMMA NextCounts ==
    ASSUME IsFiniteSet(Procs), Inv, Counts, [Next]_vars
    PROVE  Counts'
<1>0. Inv'
    BY NextInv
<1>1. ASSUME NEW p \in Procs, Arrive(p) \/ Step(p) \/ BumpFails(p)
      PROVE  Counts'
    BY <1>0, <1>1, ArriveCounts, OtherCounts, ResolveCounts, StampCounts, BumpCounts,
       InsertCounts, PutCounts DEF Step
<1>2. CASE UNCHANGED vars
    <2>1. UNCHANGED << proc, owner, uses, life, referred, lost >>
        BY <1>2 DEF vars, codes, history
    <2> QED
        BY <2>1 DEF Counts, Counted, Waiting, Stamping, Present
<1> QED
    BY <1>1, <1>2 DEF Next

\* In every reachable state whom a row, a code or a process names was there once,
\* and a process past the gate has seen the code it offers.
THEOREM InvitesInvariant == Spec => []Inv
<1>1. Init => Inv
    BY InitInv
<1>2. Inv /\ [Next]_vars => Inv'
    BY NextInv
<1> QED
    BY <1>1, <1>2, PTL DEF Spec

\* Tables and processes hold what their columns and fields may hold; an id without
\* a row has no referrer and no cap.
THEOREM InvitesTyped == Spec => []TypeOK
<1>1. Inv => TypeOK
    BY DEF Inv, Rest, TypeOK
<1> QED
    BY <1>1, InvitesInvariant, PTL

\* Whoever referred a user came before, unless a deleted id came back: the tree has
\* no cycle, however registrations, deletions and mintings interleave.
THEOREM TreeIsForest == Spec => []ReferrersOlder
<1>1. Inv => ReferrersOlder
    BY DEF Inv, Rows
<1> QED
    BY <1>1, InvitesInvariant, PTL

\* Who registers under require_referral offered a code that was there, though the
\* gate looked at it many steps before the row is written.
THEOREM GateHolds == Spec => GateKept
<1> DEFINE A == \A p \in Procs : (Required /\ proc[p].pc = "insert" /\ born' # born /\ proc'[p] # proc[p])
                                    => proc[p].code \in proc[p].seen
<1>1. Inv /\ [Next]_vars => [A]_vars
    BY DEF Inv, Good
<1>2. Spec => [][A]_vars
    BY <1>1, InvitesInvariant, PTL DEF Spec
<1> QED
    BY <1>2 DEF GateKept

\* A code's uses keep up with those it referred, but for counts the database refused and
\* accounts stamped a moment ago: for any number of processes that register, revoke and
\* mint the code anew meanwhile.
THEOREM UsesKeepUp == IsFiniteSet(Procs) => (Spec => []UsesCover)
<1> SUFFICES ASSUME IsFiniteSet(Procs) PROVE Spec => []UsesCover
    OBVIOUS
<1>1. Init => Inv /\ Counts
    BY InitInv, InitCounts
<1>2. Inv /\ Counts /\ [Next]_vars => Inv' /\ Counts'
    BY NextInv, NextCounts
<1>3. Inv /\ Counts => UsesCover
    <2> SUFFICES ASSUME Inv, Counts, NEW c \in Codes, Present(c)
                 PROVE  referred[c] <= uses[c] + lost[c] + Cardinality(Stamping(c))
        BY DEF UsesCover
    <2>1. referred[c] + Cardinality(Waiting(c)) <= uses[c] + lost[c] + Cardinality(Stamping(c))
        BY DEF Counts, Counted
    <2>2. Waiting(c) \subseteq Procs /\ Stamping(c) \subseteq Procs
        BY DEF Waiting, Stamping
    <2>3. Cardinality(Waiting(c)) \in Nat /\ Cardinality(Stamping(c)) \in Nat
        BY <2>2, FS_Subset, FS_CardinalityType
    <2>4. referred[c] \in Nat /\ uses[c] \in Nat /\ lost[c] \in Nat
        BY DEF Inv, Rest
    <2> QED
        BY <2>1, <2>3, <2>4
<1> QED
    BY <1>1, <1>2, <1>3, PTL DEF Spec
=============================================================================
