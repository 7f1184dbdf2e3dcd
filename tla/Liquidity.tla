------------------------------ MODULE Liquidity ------------------------------
(***************************************************************************)
(* wellknown/api/liquidity.py: one request for the index of liquidity      *)
(* offers, which asks a Nostr relay for them until a deadline.  A script   *)
(* shares nothing with another, so one is enough; the other party is the   *)
(* relay, which may send anything at any time, twice, or nothing.  Time    *)
(* is counted in ticks; a frame takes at least one, the script's own work  *)
(* none.  The timeouts the script sets are of single socket operations:    *)
(* no call to the relay is bounded by them, and the deadline is looked at  *)
(* between two frames only.  Init, Next, Spec, vars and TypeOK carry the   *)
(* name of the index, as GatewayProofs extends this module next to Gateway.*)
(***************************************************************************)
EXTENDS Integers, Sequences, FiniteSets

CONSTANTS Asks,      \* the requests
          Events,    \* the offers that are about
          NoZap,     \* an event without featured_zap
          Receipts,  \* zap receipts of our node, which nothing looks up
          Timeout,   \* FETCH_TIMEOUT, in ticks
          Longest,   \* bound: what one call to the relay takes, in ticks
          MaxLimit   \* MAX_LIMIT

ASSUME TimeAssumption  == Timeout \in Nat /\ Longest \in Nat
ASSUME LimitAssumption == MaxLimit \in Nat \ {0}

\* ints: max_ppm, min_sat and limit are integers; a bound of 0 is none.
ASSUME AskAssumption ==
    Asks \subseteq [method : {"GET", "POST"}, ints : BOOLEAN, max_ppm : Int, min_sat : Int,
                    limit : Int, featured : BOOLEAN]

\* flaw: a number that is none, in the expiry or in the fields read after it.
ASSUME EventAssumption ==
    \A e \in Events : /\ e.ppm \in Int /\ e.fixed \in Int /\ e.min_sat \in Int /\ e.expires \in Int
                      /\ e.active \in BOOLEAN /\ e.flaw \in {"none", "expiry", "fees"}

VARIABLES
    pc, ask,     \* where the script is, and its request
    now,         \* the time since it asked for the relay
    results,     \* offers collected
    answer,      \* offers answered
    status,      \* the reply, "none" so far
    read         \* history: what was sent under its subscription, and when

indexVars == << pc, ask, now, results, answer, status, read >>

IndexInit ==
    /\ pc = "start" /\ ask \in Asks
    /\ now = 0
    /\ results = <<>> /\ answer = <<>> /\ read = <<>>
    /\ status = "none"

RespondWith(s) == pc' = "done" /\ status' = s

-----------------------------------------------------------------------------
(* The relay *)

\* main: the method and the parameters.
Start ==
    /\ pc = "start"
    /\ CASE ask.method # "GET"                 -> RespondWith("405")
         [] ask.method = "GET" /\ ~ask.ints    -> RespondWith("500")
         [] ask.method = "GET" /\ ask.ints     -> pc' = "connect" /\ UNCHANGED status
    /\ UNCHANGED << ask, now, results, answer, read >>

\* The time runs before the connection is there: address by address, TLS, handshake.
Connect == \E d \in 0..Longest :
    /\ pc = "connect"
    /\ now' = now + d
    /\ \/ pc' = "send" /\ UNCHANGED status
       \/ RespondWith("503") \/ RespondWith("502")
    /\ UNCHANGED << ask, results, answer, read >>

\* What raises from here on is raised again after the connection is closed.
Send == \E d \in 0..Longest :
    /\ pc = "send"
    /\ now' = now + d
    /\ pc' \in {"loop", "abort"}
    /\ UNCHANGED << ask, results, answer, status, read >>

InTime == now < Timeout

\* An offer is skipped before it is read in full.
Fresh(e) == e.active /\ e.expires >= now'

\* Reading it dies on a number that is none.
Dies(e) == e.active /\ (e.flaw = "expiry" \/ (e.flaw = "fees" /\ Fresh(e)))

Row(e) == [event |-> e, min_sat |-> e.min_sat, cost |-> e.fixed + e.ppm, ppm |-> e.ppm,
           featured |-> e.zap # NoZap]

KeptAll(e) == ~Dies(e)  \* a slip: nothing is skipped
Kept(e) == Fresh(e) /\ ~Dies(e)

\* One turn of the loop with an event: recv ends with a frame, not with its timeout,
\* as long as bytes, pings or fragments come in ...
ReadEvent == \E d \in 1..Longest, e \in Events :
    /\ pc = "loop" /\ InTime
    /\ now' = now + d
    /\ read' = Append(read, [event |-> e, at |-> now'])
    /\ results' = IF Kept(e) THEN Append(results, Row(e)) ELSE results
    /\ pc' = IF Dies(e) THEN "abort" ELSE "loop"
    /\ UNCHANGED << ask, answer, status >>

\* ... with a notice, or for another subscription ...
ReadOther == \E d \in 1..Longest :
    /\ pc = "loop" /\ InTime
    /\ now' = now + d
    /\ pc' \in {"loop", "abort"}
    /\ UNCHANGED << ask, results, answer, status, read >>

\* ... and the last: EOSE, what is no JSON, a closed connection, or silence.
ReadLast == \E d \in 1..Longest :
    /\ pc = "loop" /\ InTime
    /\ now' = now + d
    /\ pc' = "close"
    /\ UNCHANGED << ask, results, answer, status, read >>

OutOfTime ==
    /\ pc = "loop" /\ ~InTime
    /\ pc' = "close"
    /\ UNCHANGED << ask, now, results, answer, status, read >>

\* finally: ws.close() is a handshake, and what raised in the loop ends the script.
CloseSocket == \E d \in 0..Longest :
    /\ pc \in {"close", "abort"}
    /\ now' = now + d
    /\ IF pc = "close" THEN pc' = "rank" /\ UNCHANGED status ELSE RespondWith("500")
    /\ UNCHANGED << ask, results, answer, read >>

-----------------------------------------------------------------------------
(* The answer *)

Passes(o) ==
    /\ ask.max_ppm # 0 => o.ppm <= ask.max_ppm
    /\ ask.min_sat # 0 => o.min_sat >= ask.min_sat

\* sort_key.
Group(o) == IF ask.featured /\ o.featured THEN 0 ELSE 1
Better(a, b) == Group(a) < Group(b) \/ (Group(a) = Group(b) /\ a.cost < b.cost)

\* The offers that pass, by their places in the list: [o for o in offers if ...].
Wanted == { i \in DOMAIN results : Passes(results[i]) }

\* sort is stable: of two that are alike the one that came first.
Ahead(i, j) ==
    \/ Better(results[i], results[j])
    \/ ~Better(results[j], results[i]) /\ i < j
Place(K, i) == Cardinality({ j \in K : Ahead(j, i) })
Nth(K, k) == results[CHOOSE i \in K : Place(K, i) = k - 1]

\* offers[:limit] of n offers; a negative limit leaves out the last.
Limit == IF ask.limit < MaxLimit THEN ask.limit ELSE MaxLimit
Cut(n) == CASE Limit > n         -> n
            [] Limit \in 0..n    -> Limit
            [] Limit \in (-n)..-1 -> n + Limit
            [] Limit < -n        -> 0

ListedEarly ==  \* a slip: cut before sorted
    LET First == { i \in Wanted :
                     Cardinality({ j \in Wanted : j < i }) < Cut(Cardinality(Wanted)) }
    IN  [k \in 1..Cardinality(First) |-> Nth(First, k)]
Listed == [k \in 1..Cut(Cardinality(Wanted)) |-> Nth(Wanted, k)]

Rank ==
    /\ pc = "rank"
    /\ answer' = Listed
    /\ RespondWith("200")
    /\ UNCHANGED << ask, now, results, read >>

IndexNext ==
    \/ Start \/ Connect \/ Send
    \/ ReadEvent \/ ReadOther \/ ReadLast \/ OutOfTime \/ CloseSocket
    \/ Rank

IndexSpec == IndexInit /\ [][IndexNext]_indexVars

-----------------------------------------------------------------------------
(* Properties *)

Offers == [event : Events, min_sat : Int, cost : Int, ppm : Int, featured : BOOLEAN]

IndexTypeOK ==
    /\ pc \in {"start", "connect", "send", "loop", "close", "abort", "rank", "done"} /\ ask \in Asks
    /\ now \in Nat
    /\ results \in Seq(Offers) /\ answer \in Seq(Offers)
    /\ status \in {"none", "200", "405", "500", "502", "503"}
    /\ read \in Seq([event : Events, at : Nat])
    /\ (pc = "done") <=> (status # "none")

\* What of the relay's may be answered: active, not expired when it came, and
\* within the bounds that were asked for, if any.
Eligible(i) ==
    LET e == read[i].event IN
    /\ e.active /\ e.flaw = "none" /\ e.expires >= read[i].at
    /\ ask.max_ppm = 0 \/ e.ppm <= ask.max_ppm
    /\ ask.min_sat = 0 \/ e.min_sat >= ask.min_sat
EligibleOnes == { i \in DOMAIN read : Eligible(i) }

\* Nothing else is answered, however often and however late the relay sends it,
\* and nothing more often than it was sent.
OnlyEligible ==
    status = "200" => \A e \in Events :
        Cardinality({ k \in DOMAIN answer : answer[k].event = e })
            <= Cardinality({ i \in EligibleOnes : read[i].event = e })

\* The answer is the best of it in the order of sort_key: best first; as many as the
\* limit allows, so that only worse ones are left out ("Sort: featured first, then by
\* effective cost").  Featured is whatever carries a featured_zap tag.
BestAnswered ==
    (status = "200" /\ ask.limit >= 0) =>
        /\ \A i, j \in DOMAIN answer : i < j => ~Better(answer[j], answer[i])
        /\ Len(answer) = LET n == Cardinality(EligibleOnes) IN IF n < Limit THEN n ELSE Limit
        /\ \A i \in EligibleOnes : (\A k \in DOMAIN answer : answer[k].event # read[i].event)
              => \A k \in DOMAIN answer : ~Better(Row(read[i].event), answer[k])

\* liquidity.py: "a Kind 39735 event tagged with a verified zap receipt (Kind 9735) from
\* our node is ranked first": ahead of a cheaper one is only who has such a receipt.
FeaturedVerified ==
    \A i, j \in DOMAIN answer :
        (i < j /\ answer[j].cost < answer[i].cost) => answer[i].event.zap \in Receipts

\* liquidity.py: "cap results (default 50, max 200)".
AtMostMax == Len(answer) <= MaxLimit
=============================================================================
