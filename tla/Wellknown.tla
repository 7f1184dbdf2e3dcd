------------------------------ MODULE Wellknown ------------------------------
(***************************************************************************)
(* What one CGI script of share/lightning/wellknown does with one request, *)
(* as operators: the plan it follows (which refusals come before the key   *)
(* is looked at, which keys are tried, which refusals come after, which    *)
(* verb is run) and how it reads the verb's exit.  Gateway puts these      *)
(* between the steps of the verbs and the key store.                       *)
(*                                                                         *)
(* A request is a record                                                   *)
(*   ep      the script            method  the HTTP method                 *)
(*   who     user or account it names; NoOne: none, or one that does not   *)
(*           match the pattern     key     what it offers; NoKey: nothing  *)
(*   body    "object", "other" (JSON, not an object) or "garbage"          *)
(*   well    the values pass the script's own tests of type and range; for *)
(*           MCP, those handed on to the verb as they are are strings      *)
(*   rpc     MCP: the JSON-RPC method                                      *)
(*   item    MCP: the tool, or the kind of resource                        *)
(*   args    MCP: the names of the arguments that are there                *)
(*   id      MCP: the envelope has an id                                   *)
(* MCP's params and arguments are taken to be objects, names and URIs to   *)
(* be strings: the script dies on anything else before it does a thing.    *)
(***************************************************************************)
EXTENDS Naturals, Sequences

NoOne == "none"
NoKey == "nokey"
Replies == { "200", "204", "400", "401", "402", "404", "405", "500", "502", "503", "result",
             "isError", "-32000", "-32001", "-32600", "-32601", "-32602" }
Bodies == { "object", "other", "garbage" }
Scripts == { "send", "recv", "balance", "lnurlp", "price", "decode", "health", "node",
             "channels", "node_funds", "version", "mcp" }

\* Up to the verb: refused before the keys, tried against keys, refused after.
Go == "go"
Plan(early, checks, late, verb) ==
    [early |-> early, checks |-> checks, late |-> late, verb |-> verb]
Refuse(reply)       == Plan(reply, <<>>, Go, "none")
Open(verb)          == Plan(Go, <<>>, Go, verb)

----------------------------------------------------------------------------
(* The first API: an account and X-API-Key, one key per scope *)

\* read_user and read_apikey come first; a balance may be read with the write key
\* too, and the read key is tried before it.
ScopesForEither(scope) == <<"read", "write">>  \* a slip: either key will do
ScopesFor(scope) == IF scope = "read" THEN <<"read", "write">> ELSE <<scope>>

UserPlan(r, scope, late, verb) ==
    CASE r.who = NoOne -> Refuse("404")
      [] r.who # NoOne /\ r.key = NoKey -> Refuse("401")
      [] OTHER -> Plan(Go, ScopesFor(scope), late, verb)

\* read_body and the tests of the fields follow the key.  A body that is JSON
\* but no object has no .get: the script dies.
BodyRefusal(r) ==
    CASE r.body = "garbage" -> "400"
      [] r.body = "other"   -> "500"
      [] r.body = "object"  -> IF r.well THEN Go ELSE "400"

SendPlan(r)    == UserPlan(r, "write", BodyRefusal(r), "api-send")
RecvPlan(r)    == UserPlan(r, "write", BodyRefusal(r), "api-recv")
BalancePlan(r) == UserPlan(r, "read", Go, "api-balance")

\* The Lightning Address: without an amount the metadata, with one an invoice.
LnurlpPlan(r) ==
    CASE r.who = NoOne        -> Refuse("404")
      [] r.args = {}          -> Refuse("200")
      [] r.args # {} /\ ~r.well -> Refuse("400")
      [] OTHER                -> Open("api-recv")

----------------------------------------------------------------------------
(* Public endpoints, and two that only want some bearer to be there *)

GetOnly(r, plan) == IF r.method = "GET" THEN plan ELSE Refuse("405")

PricePlan(r)  == GetOnly(r, IF r.well THEN Open("price") ELSE Refuse("400"))
DecodePlan(r) == GetOnly(r, IF r.well THEN Open("invoice-decode") ELSE Refuse("400"))
HealthPlan(r) == GetOnly(r, Open("api-node-health"))
NodePlan(r)   == GetOnly(r, Open("api-node-info"))

WithSomeBearer(r, verb) == IF r.key = NoKey THEN Refuse("401") ELSE Open(verb)
ChannelsPlan(r)  == GetOnly(r, WithSomeBearer(r, "api-channel-list"))
NodeFundsPlan(r) == GetOnly(r, WithSomeBearer(r, "node-funds"))

VersionPlan(r) == Refuse("404")

----------------------------------------------------------------------------
(* MCP: the tools.  needs: arguments argmap takes without asking whether they
   are there.  raw: it hands some of them on as they are, not through str(). *)

Tool(name, auth, verb, needs, raw) ==
    [name |-> name, auth |-> auth, verb |-> verb, needs |-> needs, raw |-> raw]

CashTools == {
    Tool("account_create",   "anonymous", "api-accounts-create",  {}, TRUE),
    Tool("account_balance",  "account", "api-account-balance",  {}, FALSE),
    Tool("account_topup",    "account", "api-account-topup",    {}, FALSE),
    Tool("account_withdraw", "account", "api-account-withdraw", {"sat", "address"}, TRUE) }

PaymentTools == {
    Tool("account_pay",  "account", "api-account-pay",  {"target"}, TRUE),
    Tool("account_recv", "account", "api-account-recv", {"sat"}, TRUE),
    Tool("account_recv_reusable", "account", "api-account-recv-reusable", {"sat"}, TRUE),
    Tool("account_history", "account", "api-account-history", {}, FALSE),
    Tool("account_close",   "account", "api-account-close",   {}, FALSE) }

NodeTools == {
    Tool("node_info",     "public", "api-node-info",     {}, FALSE),
    Tool("node_health",   "public", "api-node-health",   {}, FALSE),
    Tool("peer_summary",  "public", "api-peer-summary",  {}, FALSE),
    Tool("forward_stats", "public", "api-forward-stats", {}, FALSE),
    Tool("fee_list",      "public", "api-fee-list",      {}, FALSE),
    Tool("peers_score",   "public", "api-node-peers-score", {}, FALSE) }

StatusTools == {
    Tool("payment_status", "public", "api-payment-status", {"payment_hash"}, TRUE),
    Tool("invoice_status", "public", "api-invoice-status", {"query"}, TRUE),
    Tool("price",          "public", "api-price", {}, TRUE),
    Tool("invoice_decode", "public", "invoice-decode", {"bolt11"}, TRUE) }

TransferTools == {
    Tool("account_transfer", "account", "api-account-transfer", {"to", "sat"}, TRUE),
    Tool("channel_list", "public", "api-channel-list", {}, FALSE),
    Tool("node_funds",   "public", "node-funds", {}, FALSE) }

\* Verbs of tools that libexec/lightning-node does not have: "unknown command".
Unknown == { "api-node-peers-score", "api-payment-status", "api-invoice-status" }

TOOLS == CashTools \cup PaymentTools \cup NodeTools \cup StatusTools \cup TransferTools
ToolNamed(name) == CHOOSE t \in TOOLS : t.name = name

\* account_id and the bearer, then the key, then the arguments.
AccountPlan(r, late, verb) ==
    CASE r.who = NoOne -> Refuse("-32602")
      [] r.who # NoOne /\ r.key = NoKey -> Refuse("-32001")
      [] OTHER -> Plan(Go, <<"account">>, late, verb)

ArgRefusal(r, t) ==
    CASE ~ (t.needs \subseteq r.args) -> "-32602"
      [] t.needs \subseteq r.args /\ t.raw /\ ~r.well -> "500"
      [] OTHER -> Go

ToolPlan(r) ==
    IF \A t \in TOOLS : t.name # r.item
    THEN Refuse("-32602")
    ELSE LET t == ToolNamed(r.item)
         IN  IF t.auth = "account"
             THEN AccountPlan(r, ArgRefusal(r, t), t.verb)
             ELSE Plan(Go, <<>>, ArgRefusal(r, t), t.verb)

\* The resources: two of the node, three of an account.
RESOURCES == { "node://info", "node://health", "account", "account/topup", "account/ledger" }

ResourcePlan(r) ==
    CASE r.item = "node://info"    -> Open("api-node-info")
      [] r.item = "node://health"  -> Open("api-node-health")
      [] r.item \notin RESOURCES   -> Refuse("-32602")
      [] r.item = "account"        -> AccountPlan(r, Go, "api-account-balance")
      [] r.item = "account/topup"  -> AccountPlan(r, Go, "api-account-topup")
      [] r.item = "account/ledger" -> AccountPlan(r, Go, "api-account-history")

Simple == { "initialize", "tools/list", "resources/list", "prompts/list", "ping" }

HANDLERS(r) ==
    CASE r.rpc \in Simple                     -> Refuse("result")
      [] r.rpc = "notifications/initialized"  -> Refuse("204")
      [] r.rpc = "tools/call"                 -> ToolPlan(r)
      [] r.rpc = "resources/read"             -> ResourcePlan(r)
      [] OTHER                                -> Refuse("-32601")

McpPlan(r) ==
    CASE r.method # "POST" -> Refuse("405")
      [] r.method = "POST" /\ r.body = "garbage" -> Refuse("400")
      [] r.method = "POST" /\ r.body = "other"   -> Refuse("-32600")
      [] OTHER -> HANDLERS(r)

----------------------------------------------------------------------------
(* Dispatch by script, as the web server does it *)

PlanOf(r) ==
    CASE r.ep = "send"       -> SendPlan(r)
      [] r.ep = "recv"       -> RecvPlan(r)
      [] r.ep = "balance"    -> BalancePlan(r)
      [] r.ep = "lnurlp"     -> LnurlpPlan(r)
      [] r.ep = "price"      -> PricePlan(r)
      [] r.ep = "decode"     -> DecodePlan(r)
      [] r.ep = "health"     -> HealthPlan(r)
      [] r.ep = "node"       -> NodePlan(r)
      [] r.ep = "channels"   -> ChannelsPlan(r)
      [] r.ep = "node_funds" -> NodeFundsPlan(r)
      [] r.ep = "version"    -> VersionPlan(r)
      [] r.ep = "mcp"        -> McpPlan(r)

\* A refused key.
Denied(r) == IF r.ep = "mcp" THEN "-32001" ELSE "401"

----------------------------------------------------------------------------
(* Reading a verb's exit: "ok", "rule" (exit 6), "fail" (any other), "mute"
   (exit 0, but what it printed is no JSON) *)

Exits == { "ok", "rule", "fail", "mute" }

CallVerbRefusing(exit) == IF exit = "ok" THEN "200" ELSE "402"  \* a slip: every exit is a rule
CallVerb(exit) ==
    CASE exit = "ok"   -> "200"
      [] exit = "rule" -> "402"
      [] OTHER         -> "502"

CallVerbJson(exit, error) == IF exit = "ok" THEN "result" ELSE error

\* price prints an answer whatever its exit; health asks for ok in it; the
\* Lightning Address knows success and failure only.
ReplyTo(r, exit) ==
    CASE r.ep = "price"  -> IF exit = "mute" THEN "502" ELSE "200"
      [] r.ep = "health" -> IF exit = "ok" THEN "200" ELSE "503"
      [] r.ep = "lnurlp" -> IF exit = "ok" THEN "200" ELSE "502"
      [] r.ep = "mcp"    -> CallVerbJson(exit, IF r.rpc = "tools/call" THEN "isError" ELSE "-32000")
      [] OTHER           -> CallVerb(exit)
=============================================================================
