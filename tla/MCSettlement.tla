----------------------------- MODULE MCSettlement -----------------------------
(***************************************************************************)
(* Small instances of Settlement: one hash of each kind that a question    *)
(* needs, one or two processes of each verb.                               *)
(***************************************************************************)
EXTENDS Settlement

CONSTANTS teller, cashier, minter

MCVerb == [c \in Clerks |-> IF c = minter THEN "recv" ELSE "api"]
MCVerbWithCli == [c \in Clerks |-> CASE c = minter -> "recv"
                                     [] OTHER -> "cli"]
MCVerbPrinting == [c \in Clerks |-> CASE c = minter -> "create"
                                     [] c = cashier -> "swap"
                                     [] OTHER -> "api"]
MCFunds == [u \in Users |-> 1]
MCNoFunds == [u \in Users |-> 0]
MCUnits == [h \in Hashes |-> 1]          \* every payment of one satoshi, and
MCTolls == [h \in Bolts |-> 1]           \* one for the routing
MCPrices == [h \in Hashes |-> IF h \in Bolts THEN 3 ELSE 2]
=============================================================================
