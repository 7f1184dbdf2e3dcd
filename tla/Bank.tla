-------------------------------- MODULE Bank --------------------------------
(***************************************************************************)
(* What the node's accounts promise to their holders, with no word of how  *)
(* a transfer is carried out: money moves in one step, from one account    *)
(* that can afford it or has the credit, and none is made or lost.         *)
(***************************************************************************)
EXTENDS Integers, Functions

CONSTANTS Accounts, Opening,
          Deny,    \* accounts that go no deeper into debt
          Credit   \* than this

VARIABLE balance

Init == balance = Opening

\* Account f pays others; nobody else loses anything.
Move(f) ==
    /\ balance' \in [Accounts -> Int]
    /\ \A a \in Accounts \ {f} : balance'[a] >= balance[a]
    /\ f \in Deny => balance'[f] >= -Credit
    /\ SumFunction(balance') = SumFunction(balance)

Next == \E f \in Accounts : Move(f)

Spec == Init /\ [][Next]_balance
=============================================================================
