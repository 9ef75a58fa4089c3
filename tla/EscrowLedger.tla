---------------------------- MODULE EscrowLedger ----------------------------
(***************************************************************************)
(* What the escrow promises: per group, a ledger of what is owed to whom,  *)
(* which only deposits raise and only payments in full lower.              *)
(***************************************************************************)
EXTENDS Integers, Functions

CONSTANTS Ids, Address, Amounts

VARIABLES
    owed,    \* owed[group][address]
    held     \* held[group]: what the group has in custody

ledgerVars == <<owed, held>>

Init ==
    /\ owed = [id \in Ids |-> [a \in Address |-> 0]]
    /\ held = [id \in Ids |-> 0]

\* The ways to owe an amount to the accounts.
Credits(amount) == {c \in [Address -> 0 .. amount] : SumFunction(c) = amount}

Credit(id, amount) ==
    /\ held' = [held EXCEPT ![id] = @ + amount]
    /\ \E c \in Credits(amount) :
        owed' = [owed EXCEPT ![id] = [a \in Address |-> @[a] + c[a]]]

PayInFull(id, a) ==
    /\ owed[id][a] > 0
    /\ owed' = [owed EXCEPT ![id][a] = 0]
    /\ held' = [held EXCEPT ![id] = @ - owed[id][a]]

Next ==
    \E id \in Ids :
        \/ \E n \in {m \in Amounts : m > 0} : Credit(id, n)
        \/ \E a \in Address : PayInFull(id, a)

Spec == Init /\ [][Next]_ledgerVars
=============================================================================
