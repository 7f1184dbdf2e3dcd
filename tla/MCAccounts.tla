------------------------------ MODULE MCAccounts ------------------------------
(* Accounts on one or two names, for TLC. *)
EXTENDS Accounts

CONSTANTS addr1, addr2, coin1, coin2

\* Both coins pay the first address: two deposits of one account.
MCSameDest == [k \in Coins |-> addr1]

\* The second coin pays the second address: that of another account, or of the same
\* name created again.
MCTwoDest == [k \in Coins |-> IF k = coin1 THEN addr1 ELSE addr2]

=============================================================================
