----------------------------- MODULE MCTransfers -----------------------------
(***************************************************************************)
(* Small instances of Transfers: alice was referred by bob, both refuse an *)
(* overdraft, and a fee of one half makes every share of it visible.       *)
(***************************************************************************)
EXTENDS Transfers

CONSTANTS alice, bob

MCOwner == [u \in Users |-> Nobody]
MCFamily == [u \in Users |-> alice]
MCReferrer == [u \in Users |-> IF u = alice THEN bob ELSE Nobody]
MCOpening == [a \in Accounts |-> IF a = alice THEN 11000 ELSE 2000]
MCEmptyHanded == [a \in Accounts |-> IF a = alice THEN 2000 ELSE 0]

MCNegativeRate == -500000
=============================================================================
