------------------------------ MODULE MCPasskeys ------------------------------
(***************************************************************************)
(* Two users and two authenticators: c1 is alice's or nobody's at first,   *)
(* c2 bob's or nobody's.  At first no challenge is out, or two of alice's  *)
(* to log in, or one of hers and one to register.                          *)
(***************************************************************************)
EXTENDS Passkeys

MCRequests ==
    { Ask("regBegin", "alice", "alice", "c1", 0, 0),
      Ask("regFinish", "alice", "alice", "c1", 2, 0),
      Ask("regFinish", "bob", "bob", "c2", 2, 0),
      Ask("regFinish", "alice", "bob", "c2", 2, 0),
      Ask("delete", "alice", "alice", "c1", 0, 0),
      Ask("refresh", "alice", "alice", "c1", 0, 0),
      Ask("look", "bob", "bob", "c2", 0, 0),
      Ask("look", "alice", NoOne, "c1", 0, 0),
      Ask("anonBegin", "bob", NoOne, "c2", 0, 0),
      Ask("anonFinish", "bob", NoOne, "c2", 2, 0),
      Ask("anonFinish", "bob", NoOne, "c1", 2, 0),
      Ask("loginBegin", "alice", NoOne, "c1", 0, 0),
      Ask("loginFinish", "alice", NoOne, "c1", 1, 1),
      Ask("loginFinish", "alice", NoOne, "c1", 2, 0),
      Ask("loginFinish", "alice", NoOne, "c2", 1, 1),
      Ask("loginFinish", "bob", NoOne, "c2", 1, 1) }

MCOpen == { {}, {Row(1, "alice", "login"), Row(2, "alice", "login")},
            {Row(1, "alice", "login"), Row(2, NoOne, "register")} }

MCInit ==
    /\ Init
    /\ "alice" \in users /\ holder["c1"] \in {"alice", NoOne} /\ holder["c2"] \in {"bob", NoOne}
    /\ challenges \in MCOpen /\ drawn = Cardinality(challenges)
MCSpec == MCInit /\ [][Next]_vars
=============================================================================
