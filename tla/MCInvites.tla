------------------------------ MODULE MCInvites ------------------------------
(***************************************************************************)
(* ann referred bea, both have an account; c1 is ann's code, c2 an account's or free.      *)
(***************************************************************************)
EXTENDS Invites, TLC

MCOpening ==
    [clock |-> 2,
     born  |-> ("ann" :> 1 @@ "bea" :> 2 @@ "cat" :> 0),
     ref   |-> ("ann" :> NoOne @@ "bea" :> "ann" @@ "cat" :> NoOne),
     owner |-> ("c1" :> "ann" @@ "c2" :> NoOne)]
MCOpeningLegacy == [MCOpening EXCEPT !.owner["c2"] = Legacy]

Ask(kind, u, c, other, max) == [kind |-> kind, user |-> u, code |-> c, other |-> other, max |-> max]

MCRequests ==
    { Ask("register", "cat", "c1", NoOne, 0),
      Ask("register", "cat", "c2", NoOne, 0),
      Ask("register", "ann", "c1", NoOne, 0),
      Ask("register", "cat", NoCode, NoOne, 0),
      Ask("account", "bea", "c1", NoOne, 0),
      Ask("codes", "bea", "c2", NoOne, 0),
      Ask("mint", "bea", "c2", NoOne, 0),
      Ask("mint", "bea", "c1", NoOne, 0),
      Ask("mint", "cat", "c2", NoOne, 0),
      Ask("revoke", "ann", "c1", NoOne, 0),
      Ask("tree", "ann", NoCode, NoOne, 0),
      Ask("cap", "ann", NoCode, NoOne, 1),
      Ask("adopt", "cat", NoCode, "bea", 0),
      Ask("adopt", "bea", NoCode, "cat", 0),
      Ask("remove", "ann", NoCode, NoOne, 0),
      Ask("remove", "bea", NoCode, NoOne, 0) }
=============================================================================
