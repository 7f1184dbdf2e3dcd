------------------------------- MODULE Passkeys -------------------------------
(***************************************************************************)
(* wellknown/api/users.py with its helpers _webauthn-verify and            *)
(* _session-token: registering, using and revoking passkeys, and the       *)
(* sessions a login earns; and the operator's delete of a user, after      *)
(* which the id can be registered again.  Every request is a process;      *)
(* every statement of a helper on state.db, and every call of the `secret` *)
(* store, is a step of its own.  Signatures are taken to be unforgeable: a *)
(* token or a challenge somebody offers is one that was handed out.        *)
(***************************************************************************)
EXTENDS Naturals, FiniteSets

CONSTANTS Procs,        \* processes that answer requests
          Users,        \* user ids
          Creds,        \* credential ids of authenticators
          NoOne,
          Requests,     \* the requests that are made
          MaxCount,     \* bound on an authenticator's counter
          MaxOpen,      \* bound on challenges that are out at first
          MaxArrivals,  \* bound on requests
          MaxFaults     \* bound on failures of the `secret` store

ASSUME PasskeysAssumption ==
    /\ NoOne \notin Users \cup Creds
    /\ MaxCount \in Nat /\ MaxOpen \in Nat /\ MaxArrivals \in Nat /\ MaxFaults \in Nat

VARIABLES
    users,       \* rows of wallet_users
    holder,      \* user_passkeys: whose a credential is
    count,       \* its sign_count
    challenges,  \* rows of auth_challenges_user
    hmac,        \* the key in the secret store; 0: none
    tokens,      \* sessions handed out
    proc,        \* the request processes
    configured,  \* LIGHTNING_RP_ID and _ORIGIN are set on the vhost
    arrivals, drawn, made, faults,    \* counters: requests, challenges, keys, faults
    wins, contested, raced, overlap, gone   \* history, see Properties

db == << users, holder, count, challenges >>
store == << hmac, made, faults, overlap >>
history == << wins, contested, raced, gone >>
vars == << db, store, history, tokens, proc, configured, arrivals, drawn >>

Authed == { "regBegin", "regFinish", "delete", "refresh", "look" }
Kinds == Authed \cup { "anonBegin", "anonFinish", "loginBegin", "loginFinish" }

\* A request offers a session of some user, or none, a challenge and a credential
\* with the counter its authenticator signed.
Ask(kind, u, session, c, ch, n) ==
    [kind |-> kind, user |-> u, session |-> session, cred |-> c, chal |-> ch, new |-> n]

ASSUME RequestsAssumption ==
    Requests \subseteq [kind : Kinds, user : Users, session : Users \cup {NoOne}, cred : Creds,
                       chal : Nat, new : 0..MaxCount]

NoToken == [user |-> NoOne, key |-> 0]
Idle == [pc |-> "idle", kind |-> "look", user |-> NoOne, cred |-> NoOne, chal |-> 0,
         named |-> NoOne, token |-> NoToken, new |-> 0, key |-> 0, then |-> "verify",
         stored |-> 0, seen |-> {}]

\* A challenge: a registration's names nobody.
Row(id, u, purpose) == [id |-> id, user |-> u, purpose |-> purpose]
Rows(n) == { Row(i, u, "login") : i \in 1..n, u \in Users }
           \cup { Row(i, NoOne, "register") : i \in 1..n }
Unique(rows) == \A a, b \in rows : a.id = b.id => a = b

\* A node with users, each with the passkeys and the session it has, and with
\* challenges some of them asked for.
Init ==
    /\ users \in SUBSET Users
    /\ holder \in [Creds -> users \cup {NoOne}]
    /\ count = [c \in Creds |-> 0]
    /\ drawn \in 0..MaxOpen
    /\ challenges \in SUBSET Rows(drawn) /\ Unique(challenges)
    /\ hmac \in {0, 1} /\ made = hmac
    /\ tokens = IF hmac = 0 THEN {} ELSE [user : users, key : {hmac}]
    /\ proc = [p \in Procs |-> Idle]
    /\ configured \in BOOLEAN
    /\ arrivals = 0 /\ faults = 0
    /\ wins = [ch \in 1..(MaxOpen + MaxArrivals) |-> 0]
    /\ contested = {} /\ raced = {} /\ gone = {} /\ overlap = FALSE

-----------------------------------------------------------------------------
(* Requests *)

\* The answer, and the end of the process.  No property looks back at a status, so
\* it is written down here and not remembered.
Respond(p, status) == proc' = [proc EXCEPT ![p] = Idle]
Goto(p, pc)       == proc' = [proc EXCEPT ![p].pc = pc]
ToKey(p, then)    == proc' = [proc EXCEPT ![p] = [@ EXCEPT !.pc = "key", !.then = then]]

Held(u, hold) == { c \in Creds : hold[c] = u }

\* The handler: read_bearer ends a session-authed request without a token, the
\* others begin with their own work.
FirstStep(kind) ==
    CASE kind \in Authed      -> "key"
      [] kind = "anonFinish"  -> "create"
      [] kind = "loginFinish" -> "find"
      [] OTHER                -> "begin"

\* dispatch.  A challenge that is offered was issued before.
Arrive(p) == \E r \in Requests, t \in tokens \cup {NoToken} :
    /\ proc[p].pc = "idle" /\ arrivals < MaxArrivals
    /\ t.user = r.session /\ r.chal <= drawn
    /\ arrivals' = arrivals + 1
    /\ IF r.kind \in Authed /\ t = NoToken THEN Respond(p, "401")
       ELSE proc' = [proc EXCEPT ![p] =
                [Idle EXCEPT !.pc = FirstStep(r.kind), !.kind = r.kind, !.user = r.user,
                             !.cred = r.cred, !.chal = r.chal, !.new = r.new,
                             !.token = t, !.seen = Held(r.user, holder)]]
    /\ UNCHANGED << db, store, history, tokens, configured, drawn >>

-----------------------------------------------------------------------------
(* _session-token: the key of the store, made when it is not there *)

\* `secret get`.  Two processes that both find nothing each make a key.
GetKey(p) ==
    /\ proc[p].pc = "key"
    /\ IF hmac # 0
       THEN /\ proc' = [proc EXCEPT ![p] = [@ EXCEPT !.pc = proc[p].then, !.key = hmac]]
            /\ UNCHANGED overlap
       ELSE /\ Goto(p, "set")
            /\ overlap' = (overlap \/ \E q \in Procs \ {p} : proc[q].pc = "set")
    /\ UNCHANGED << db, history, hmac, made, faults, tokens, configured, arrivals, drawn >>

\* It fails though a key is there: that looks like "not stored yet".
GetKeyFails(p) ==
    /\ proc[p].pc = "key" /\ faults < MaxFaults
    /\ faults' = faults + 1
    /\ Goto(p, "set")
    /\ UNCHANGED << db, history, hmac, made, overlap, tokens, configured, arrivals, drawn >>

StoredNone == hmac  \* a slip: the key is made and not stored
StoredKey == made + 1
\* `secret set`: over whatever is there.  The process goes on with its own key.
SetKey(p) ==
    /\ proc[p].pc = "set"
    /\ made' = made + 1 /\ hmac' = StoredKey
    /\ proc' = [proc EXCEPT ![p] = [@ EXCEPT !.pc = proc[p].then, !.key = made + 1]]
    /\ UNCHANGED << db, history, faults, overlap, tokens, configured, arrivals, drawn >>

SetKeyFails(p) ==
    /\ proc[p].pc = "set" /\ faults < MaxFaults
    /\ faults' = faults + 1
    /\ Respond(p, IF proc[p].then = "verify" THEN "401" ELSE "502")
    /\ UNCHANGED << db, history, hmac, made, overlap, tokens, configured, arrivals, drawn >>

\* What is left of a request once its session is good.
AfterAuth(p) ==
    CASE proc[p].kind = "regBegin"  -> "begin"
      [] proc[p].kind = "regFinish" -> "find"
      [] proc[p].kind = "delete"  -> "revoke"
      [] proc[p].kind = "refresh" -> "key"

AnyToken(p) == TRUE  \* a slip: any session will do
OwnToken(p) == proc[p].token.user = proc[p].user

\* auth_user: signed with this key, not expired, and of this user.
Verify(p) ==
    /\ proc[p].pc = "verify"
    /\ CASE proc[p].token.key # proc[p].key -> Respond(p, "401")
         [] proc[p].token.key = proc[p].key /\ ~OwnToken(p) -> Respond(p, "403")
         [] proc[p].token.key = proc[p].key /\ OwnToken(p) ->
                IF proc[p].kind = "look" THEN Respond(p, "200")
                ELSE proc' = [proc EXCEPT ![p] = [@ EXCEPT !.pc = AfterAuth(p), !.then = "again"]]
    /\ UNCHANGED << db, store, history, tokens, configured, arrivals, drawn >>

\* A session ends with its time.
Expired(p) ==
    /\ proc[p].pc \in {"verify", "again"}
    /\ Respond(p, "401")
    /\ UNCHANGED << db, store, history, tokens, configured, arrivals, drawn >>

HandOut(p, u) ==
    /\ tokens' = tokens \cup {[user |-> u, key |-> proc[p].key]}
    /\ Respond(p, "200")

\* user_session_refresh: verified once more, by the helper that signs the new one.
Refresh(p) ==
    /\ proc[p].pc = "again"
    /\ IF proc[p].token.key = proc[p].key
       THEN HandOut(p, proc[p].token.user)
       ELSE Respond(p, "400") /\ UNCHANGED tokens
    /\ UNCHANGED << db, store, history, configured, arrivals, drawn >>

Mint(p) ==
    /\ proc[p].pc = "mint"
    /\ HandOut(p, proc[p].user)
    /\ UNCHANGED << db, store, history, configured, arrivals, drawn >>

-----------------------------------------------------------------------------
(* Registration and login *)

\* api-user-create, for the anonymous registration (Invites has its inside): an
\* id that is taken is refused, so may be the invite, and the helper may fail when
\* the row is there.
CreateUser(p) ==
    /\ proc[p].pc = "create"
    /\ \/ /\ proc[p].user \in users
          /\ Respond(p, "502") /\ UNCHANGED users
       \/ Respond(p, "401") /\ UNCHANGED users
       \/ /\ proc[p].user \notin users
          /\ users' = users \cup {proc[p].user}
          /\ Goto(p, "find") \/ Respond(p, "502")
    /\ UNCHANGED << holder, count, challenges, store, history, tokens, configured, arrivals, drawn >>

ChallengeNamed(p) ==  \* a slip: a registration's names its user too
    Row(drawn + 1, proc[p].user, IF proc[p].kind = "loginBegin" THEN "login" ELSE "register")
Challenge(p) == IF proc[p].kind = "loginBegin" THEN Row(drawn + 1, proc[p].user, "login")
                ELSE Row(drawn + 1, NoOne, "register")

\* _require_rp_config comes after the session and, for a new user, after its row.
\* Then register-begin or login-begin ...
Begin(p) ==
    /\ proc[p].pc = "begin"
    /\ IF ~configured THEN Respond(p, "503") /\ UNCHANGED << challenges, drawn >>
       ELSE IF proc[p].kind = "loginBegin" /\ Held(proc[p].user, holder) = {}
       THEN Respond(p, "404") /\ UNCHANGED << challenges, drawn >>
       ELSE /\ challenges' = challenges \cup {Challenge(p)}
            /\ drawn' = drawn + 1
            /\ Respond(p, "200")
    /\ UNCHANGED << users, holder, count, store, history, tokens, configured, arrivals >>

Purpose(p) == IF proc[p].kind = "loginFinish" THEN "login" ELSE "register"
Wanted(p) == { ch \in challenges : ch.id = proc[p].chal /\ ch.purpose = Purpose(p) }

\* ... or, to finish, consume_challenge: its SELECT ...
FindChallenge(p) ==
    /\ proc[p].pc = "find"
    /\ IF ~configured THEN Respond(p, "503") /\ UNCHANGED contested
       ELSE IF Wanted(p) = {} THEN Respond(p, "401") /\ UNCHANGED contested
       ELSE /\ proc' = [proc EXCEPT ![p] = [@ EXCEPT !.pc = "consume",
                                    !.named = (CHOOSE ch \in Wanted(p) : TRUE).user]]
            /\ contested' = contested \cup
                  {ch \in {proc[p].chal} : \E q \in Procs \ {p} : proc[q].pc = "consume" /\ proc[q].chal = ch}
    /\ UNCHANGED << db, store, wins, raced, gone, tokens, configured, arrivals, drawn >>

ChallengesKept(p) == challenges  \* a slip: it is not deleted
ChallengesLeft(p) == { ch \in challenges : ch.id # proc[p].chal }

NotAnothers(p) == FALSE  \* a slip: the user of the challenge is not compared
Anothers(p) == proc[p].named # NoOne /\ proc[p].named # proc[p].user

\* ... and its DELETE, after which the time of the row is looked at (nobody can
\* use an expired one later) and, for a login, the user it was issued for.
Consume(p) ==
    /\ proc[p].pc = "consume"
    /\ challenges' = ChallengesLeft(p)
    /\ \/ Respond(p, "401")
       \/ ~Anothers(p) /\ Goto(p, IF proc[p].kind = "loginFinish" THEN "look" ELSE "attest")
    /\ UNCHANGED << users, holder, count, store, history, tokens, configured, arrivals, drawn >>

\* What the holders of credentials have seen in the meantime.
Watched(hold, procs) ==
    [q \in Procs |-> [procs[q] EXCEPT !.seen = @ \cup
        IF procs[q].pc = "idle" THEN {} ELSE Held(procs[q].user, hold)]]

Won(p) == wins' = [wins EXCEPT ![proc[p].chal] = @ + 1]

\* Two requests that write to one credential at once.
Writing(p, c) == \E q \in Procs \ {p} : proc[q].pc = "count" /\ proc[q].cred = c

\* register-finish: the user's row, the authenticator's signature, the new row.
Attest(p) ==
    LET c == proc[p].cred IN
    /\ proc[p].pc = "attest"
    /\ \/ /\ Respond(p, IF proc[p].user \notin users THEN "404" ELSE "400")
          /\ UNCHANGED << holder, count, wins, raced >>
       \/ /\ proc[p].user \in users /\ holder[c] = NoOne
          /\ holder' = [holder EXCEPT ![c] = proc[p].user]
          /\ count' = [count EXCEPT ![c] = proc[p].new]
          /\ raced' = raced \cup {d \in {c} : Writing(p, d)}
          /\ Won(p)
          /\ proc' = Watched(holder', [proc EXCEPT ![p] =
                         IF proc[p].kind = "anonFinish" THEN [@ EXCEPT !.pc = "key", !.then = "mint"]
                         ELSE Idle])
    /\ UNCHANGED << users, challenges, store, contested, gone, tokens, configured, arrivals, drawn >>

RegisteredAnywhere(p) == holder[proc[p].cred] # NoOne  \* a slip: for any user
Registered(p) == holder[proc[p].cred] = proc[p].user

\* login-finish: the credential's row, by user and id.
LookCredential(p) ==
    /\ proc[p].pc = "look"
    /\ IF ~Registered(p) THEN Respond(p, "404") /\ UNCHANGED raced
       ELSE /\ proc' = [proc EXCEPT ![p] = [@ EXCEPT !.pc = "count", !.stored = count[proc[p].cred]]]
            /\ raced' = raced \cup {c \in {proc[p].cred} : Writing(p, c)}
    /\ UNCHANGED << db, store, wins, contested, gone, tokens, configured, arrivals, drawn >>

AcceptsAll(stored, new) == TRUE  \* a slip: a counter may go back
\* The library, then the helper: a counter grows, unless it is not kept at all.
Accepts(stored, new) == new > stored \/ (new = 0 /\ stored = 0)

\* The signature and the counter, then the UPDATE, wherever the row is by now.
UpdateCount(p) ==
    LET c == proc[p].cred IN
    /\ proc[p].pc = "count"
    /\ \/ Respond(p, "400") /\ UNCHANGED << count, wins >>
       \/ /\ Accepts(proc[p].stored, proc[p].new)
          /\ count' = [count EXCEPT ![c] = IF holder[c] = NoOne THEN @ ELSE proc[p].new]
          /\ Won(p)
          /\ ToKey(p, "mint")
    /\ UNCHANGED << users, holder, challenges, store, contested, raced, gone, tokens, configured, arrivals, drawn >>

Revoke(p) ==
    LET c == proc[p].cred IN
    /\ proc[p].pc = "revoke"
    /\ IF holder[c] = proc[p].user
       THEN /\ holder' = [holder EXCEPT ![c] = NoOne]
            /\ count' = [count EXCEPT ![c] = 0]
            /\ Respond(p, "200")
       ELSE Respond(p, "404") /\ UNCHANGED << holder, count >>
    /\ UNCHANGED << users, challenges, store, history, tokens, configured, arrivals, drawn >>

\* The database is locked, the webauthn library is not installed, the helper dies.
HelperFails(p) ==
    /\ proc[p].pc \in {"begin", "find", "consume", "attest", "look", "count", "revoke"}
    /\ Respond(p, "502")
    /\ UNCHANGED << db, store, history, tokens, configured, arrivals, drawn >>

Step(p) ==
    \/ GetKey(p) \/ SetKey(p) \/ Verify(p) \/ Refresh(p) \/ Mint(p)
    \/ CreateUser(p) \/ Begin(p) \/ FindChallenge(p) \/ Consume(p)
    \/ Attest(p) \/ LookCredential(p) \/ UpdateCount(p) \/ Revoke(p)

Fault(p) == GetKeyFails(p) \/ SetKeyFails(p) \/ Expired(p) \/ HelperFails(p)

\* The operator's `wallet-user delete`: the passkeys go with the row, by the foreign
\* key.  Sessions and challenges stay, what runs goes on, and the id is free again.
DeleteUser(u) ==
    /\ u \in users
    /\ users' = users \ {u}
    /\ holder' = [c \in Creds |-> IF holder[c] = u THEN NoOne ELSE holder[c]]
    /\ count' = [c \in Creds |-> IF holder[c] = u THEN 0 ELSE count[c]]
    /\ gone' = gone \cup {u}
    /\ UNCHANGED << challenges, store, wins, contested, raced, tokens, proc, configured, arrivals, drawn >>

Next ==
    \/ \E p \in Procs : Arrive(p) \/ Step(p) \/ Fault(p)
    \/ \E u \in Users : DeleteUser(u)

Spec == Init /\ [][Next]_vars

-----------------------------------------------------------------------------
(* Properties.  History: wins, how often a challenge got somebody in; contested,
   those two requests found at once; raced, credentials two requests wrote to at
   once; overlap, two processes made a key at once; gone, ids that were deleted,
   whether or not they came back; seen, the credentials of the request's user since
   it came. *)

ProcState ==
    [pc : {"idle", "key", "set", "verify", "again", "mint", "create", "begin",
           "find", "consume", "attest", "look", "count", "revoke"},
     kind : Kinds, user : Users \cup {NoOne}, cred : Creds \cup {NoOne},
     chal : Nat, named : Users \cup {NoOne},
     token : [user : Users, key : Nat] \cup {NoToken}, new : 0..MaxCount,
     key : Nat, then : {"verify", "again", "mint"}, stored : 0..MaxCount, seen : SUBSET Creds]

\* Types; a passkey's user exists, a login's challenge names its user and a
\* registration's nobody; what a process holds was handed out.
TypeOK ==
    /\ users \subseteq Users
    /\ holder \in [Creds -> users \cup {NoOne}]
    /\ count \in [Creds -> 0..MaxCount]
    /\ challenges \subseteq Rows(drawn) /\ Unique(challenges)
    /\ hmac \in 0..made /\ made \in Nat
    /\ gone \subseteq Users /\ tokens \subseteq [user : users \cup gone, key : 1..made]
    /\ proc \in [Procs -> ProcState]
    /\ \A p \in Procs : /\ proc[p].chal <= drawn /\ proc[p].key <= made
                        /\ proc[p].token \in tokens \cup {NoToken}
    /\ configured \in BOOLEAN /\ overlap \in BOOLEAN
    /\ arrivals \in 0..MaxArrivals /\ drawn \in Nat /\ faults \in 0..MaxFaults
    /\ wins \in [1..(MaxOpen + MaxArrivals) -> Nat] /\ contested \subseteq 1..drawn /\ raced \subseteq Creds

\* Who gets a session for a user, by a login or a registration, offered a
\* credential that was registered for this user at some time since the request
\* came, although it is looked up before and the session signed after a revocation
\* of it may come in between (passkey_login_finish).
SessionEarned ==
    \A p \in Procs : proc[p].pc = "mint" => proc[p].cred \in proc[p].seen

\* A challenge gets one request in, unless two found it before either deleted it
\* (consume_challenge reads and deletes in two statements).
ChallengeOnce == \A ch \in DOMAIN wins : wins[ch] > 1 => ch \in contested

\* A login's challenge only gets the user in it was issued for.
ChallengeBound ==
    \A p \in Procs : (proc[p].kind = "loginFinish" /\ proc[p].pc \in {"look", "count", "key", "mint"})
                        => proc[p].named = proc[p].user

\* The counter of an authenticator never goes back while its passkey stays, unless
\* two requests wrote to it at once ("sign_count must monotonically increase").
CountMonotone ==
    [][\A c \in Creds : count'[c] < count[c] => c \in raced' \/ holder'[c] # holder[c]]_vars

\* Passkeys of a user change only when the operator deletes it, and by requests with
\* a session that was handed out to this user, if in an earlier life of the id; the
\* first passkey of a new user needs none.  Two requests that both made the user, the
\* operator's delete in between, both register one.
PasskeysOwned ==
    [][\A c \in Creds, u \in Users : (holder[c] = u) # (holder'[c] = u) =>
          \/ u \in users \ users'
          \/ \E p \in Procs : /\ proc'[p] # proc[p] /\ proc[p].user = u
                             /\ \/ proc[p].token \in tokens /\ proc[p].token.user = u
                                \/ /\ proc[p].kind = "anonFinish"
                                   /\ Held(u, holder) = {} \/ u \in gone]_vars

\* A session handed out is good until its time, as long as the store never fails
\* and no two processes make the first key at once (get_hmac_key).
SessionsHold == (faults = 0 /\ ~overlap) => \A t \in tokens : t.key = hmac
=============================================================================
