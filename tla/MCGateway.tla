------------------------------ MODULE MCGateway ------------------------------
(***************************************************************************)
(* One user of the first API and one account of the second, and a request  *)
(* of each kind: to every script, with a good and a bad body, with a key   *)
(* and without.                                                            *)
(***************************************************************************)
EXTENDS Gateway

\* A request to a script ...
Asks(ep, method, who, key, body, well, args) ==
    [ep |-> ep, method |-> method, who |-> who, key |-> key, body |-> body,
     well |-> well, rpc |-> "", item |-> "", args |-> args, id |-> TRUE]

\* ... and one to the MCP endpoint.
Calls(rpc, item, who, key, args, well, id) ==
    [ep |-> "mcp", method |-> "POST", who |-> who, key |-> key, body |-> "object",
     well |-> well, rpc |-> rpc, item |-> item, args |-> args, id |-> id]

MCFirstApi ==
    { Asks("send", "POST", "alice", "k1", "object", TRUE, {}),
      Asks("send", "POST", "alice", "k1", "garbage", TRUE, {}),
      Asks("recv", "POST", "alice", NoKey, "object", TRUE, {}),
      Asks("balance", "GET", "alice", "k1", "object", TRUE, {}) }

MCPublic ==
    { Asks("lnurlp", "GET", "alice", NoKey, "object", TRUE, {"amount"}),
      Asks("price", "GET", NoOne, NoKey, "object", TRUE, {}),
      Asks("health", "GET", NoOne, NoKey, "object", TRUE, {}),
      Asks("channels", "GET", NoOne, "k1", "object", TRUE, {}),
      Asks("version", "GET", NoOne, NoKey, "object", TRUE, {}) }

MCMcp ==
    { Calls("notifications/initialized", "", NoOne, NoKey, {}, TRUE, FALSE),
      Calls("tools/call", "account_create", NoOne, NoKey, {}, TRUE, TRUE),
      Calls("tools/call", "account_transfer", "acct", "k1", {"to", "sat"}, TRUE, FALSE),
      Calls("tools/call", "account_transfer", "acct", "k2", {"to"}, TRUE, TRUE),
      Calls("tools/call", "account_close", "acct", "k1", {}, TRUE, TRUE),
      Calls("resources/read", "account/topup", "acct", "k1", {}, TRUE, TRUE) }

MCRequests == MCFirstApi \cup MCPublic \cup MCMcp

\* The names of the keys are nothing: the account's is k1.
MCInit == Init /\ keys[<< "acct", "account" >>] = "k1"
MCSpec == MCInit /\ [][Next]_vars
=============================================================================
