------------------------------ MODULE Payments ------------------------------
(***************************************************************************)
(* The token balances the AutoShare contract moves, and distribute: paying *)
(* the members of a group at once from one payer (contract/src/lib.rs).    *)
(*                                                                         *)
(* The token contracts are not part of the repository: what a balance and  *)
(* a transfer do is taken from how the contract uses token::Client. A      *)
(* transfer the payer cannot cover aborts the whole call.                  *)
(***************************************************************************)
EXTENDS GroupRegistry

CONSTANTS
    Self,       \* the contract's own address
    Amounts,    \* amounts calls are made with
    Supply      \* bound: what the accounts of a token hold together at first

ASSUME PaymentsAssumption ==
    /\ Self \notin Address
    /\ Amounts \subseteq Int
    /\ Supply \in Nat

VARIABLE balance    \* balance[token][holder]

Holders == Address \cup {Self}

\* A token's initial holdings: the contract owns nothing, accounts anything.
PaymentsInit ==
    balance \in [Token -> {b \in [Holders -> 0 .. Supply] :
                            b[Self] = 0 /\ SumFunction(b) = Supply}]

\* token.transfer(from, to, amount), its two sides possibly the same holder.
Moved(b, from, to, amount) ==
    LET debited == [b EXCEPT ![from] = @ - amount]
    IN  [debited EXCEPT ![to] = @ + amount]

\* What a split of `amount` gives each holder.
ShareOf(members, amount, a) ==
    IF IsMember(members, a)
    THEN DistributeAmounts(amount, members)[Position(members, a)]
    ELSE 0

\* Mutant: a catch-up of several runs pays for one.
PaidOutOnce(b, from, members, amount, times) ==
    LET spent == SumFunction(DistributeAmounts(amount, members))
    IN  [a \in Holders |->
            b[a] + ShareOf(members, amount, a) - (IF a = from THEN spent ELSE 0)]

\* The balances of a token once `from` has paid a split `times` over.
PaidOut(b, from, members, amount, times) ==
    LET spent == SumFunction(DistributeAmounts(amount, members))
    IN  [a \in Holders |->
            b[a] + times * (ShareOf(members, amount, a)
                                - (IF a = from THEN spent ELSE 0))]

\* The checks distribute, deposit and execute_schedule share.
Payable(id, from, amount, times) ==
    LET details == GroupOf(id)
    IN  /\ Stored(id)
        /\ details.members # <<>>
        /\ balance[details.payment_token][from] >= amount * times
        /\ CanDistribute(amount, details.members)

Pay(id, from, amount, times) ==
    balance' = [balance EXCEPT ![GroupOf(id).payment_token] =
                    PaidOut(@, from, GroupOf(id).members, amount, times)]

Distribute(id, from, amount) ==
    /\ NotPaused
    /\ MigrationCurrent
    /\ amount > 0
    /\ Payable(id, from, amount, 1)
    /\ Pay(id, from, amount, 1)
    /\ UNCHANGED registryVars

\* An account spends tokens elsewhere, or sends some to the contract.
Transfer(token, from, to, amount) ==
    /\ amount > 0
    /\ balance[token][from] >= amount
    /\ balance' = [balance EXCEPT ![token] = Moved(@, from, to, amount)]
    /\ UNCHANGED registryVars

PaymentsNext ==
    \/ Next /\ UNCHANGED balance
    \/ \E id \in Ids, from \in Address, n \in Amounts : Distribute(id, from, n)
    \/ \E t \in Token, from \in Address, to \in Holders, n \in Amounts :
        Transfer(t, from, to, n)

=============================================================================
