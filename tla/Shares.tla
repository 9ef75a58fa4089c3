------------------------------- MODULE Shares -------------------------------
(***************************************************************************)
(* The arithmetic of a split: what a member list must satisfy, how an      *)
(* amount is divided by it (base/utils.rs, base/auth.rs) and how the       *)
(* percentages of the other members are rebalanced when one of them        *)
(* changes (apply_rebalance in lib.rs).                                    *)
(*                                                                         *)
(* A member list is a sequence of records [address, percentage]; the name  *)
(* of a member is data nothing depends on and is left out.                 *)
(***************************************************************************)
EXTENDS Integers, Sequences, FiniteSets, Functions, SequencesExt

CONSTANTS
    Address,    \* accounts: members, creators, payers, the administrator
    Total,      \* basis points of a whole: 10_000 in the code
    I128Max     \* the largest i128

ASSUME SharesAssumption ==
    /\ IsFiniteSet(Address)
    /\ Total \in Nat \ {0}
    /\ I128Max \in Nat

Addresses(members) == [i \in DOMAIN members |-> members[i].address]
Percentages(members) == [i \in DOMAIN members |-> members[i].percentage]
TotalPercentage(members) == SumFunction(Percentages(members))

IsMember(members, a) == \E i \in DOMAIN members : members[i].address = a
Position(members, a) == CHOOSE i \in DOMAIN members : members[i].address = a

ValidPercentages(members) ==
    /\ \A i \in DOMAIN members : members[i].percentage # 0
    /\ TotalPercentage(members) = Total

ValidMembersUnique(members) ==
    /\ members # <<>>
    /\ IsInjective(Addresses(members))

-----------------------------------------------------------------------------
(* Dividing an amount.                                                     *)

ShareOverflows(total, percentage) == total * percentage > I128Max
CalculateShare(total, percentage) == (total * percentage) \div Total

CanDistribute(total, members) ==
    /\ total >= 0
    /\ ValidPercentages(members)
    /\ \A i \in 1 .. Len(members) - 1 :
            ~ShareOverflows(total, members[i].percentage)

\* Mutant: every member is floored and the dust is nobody's.
DistributeAmountsDustLost(total, members) ==
    [i \in DOMAIN members |-> CalculateShare(total, members[i].percentage)]

\* Mutant: the dust is reckoned from the first member's share only.
DistributeAmountsOneFloor(total, members) ==
    [i \in DOMAIN members |->
        IF i = Len(members) /\ i > 1
        THEN total - CalculateShare(total, members[1].percentage)
        ELSE CalculateShare(total, members[i].percentage)]

DistributeAmounts(total, members) ==
    LET floor == [i \in 1 .. Len(members) - 1 |->
                    CalculateShare(total, members[i].percentage)]
    IN  [i \in DOMAIN members |->
            IF i = Len(members) THEN total - SumFunction(floor) ELSE floor[i]]

-----------------------------------------------------------------------------
(* Rebalancing. FromMember(a) and ToMember(a) share one arm of the match   *)
(* in the code, so a policy is either proportional or names a member.      *)

Proportional == [kind |-> "Proportional"]
Named(a) == [kind |-> "Named", address |-> a]
RebalancePolicy == {Proportional} \cup {Named(a) : a \in Address}

Target(members, delta) == TotalPercentage(members) + delta

Scaled(members, delta) ==
    [i \in DOMAIN members |->
        (members[i].percentage * Target(members, delta))
            \div TotalPercentage(members)]

\* The first of the largest entries of a list of shares.
Largest(shares) ==
    CHOOSE i \in DOMAIN shares :
        /\ \A j \in DOMAIN shares : shares[j] <= shares[i]
        /\ \A j \in 1 .. i - 1 : shares[j] < shares[i]

\* Mutant: the remainder of the scaling is dropped.
ProportionalSharesNoRemainder(members, delta) == Scaled(members, delta)

ProportionalShares(members, delta) ==
    LET scaled == Scaled(members, delta)
    IN  [scaled EXCEPT ![Largest(scaled)] =
            @ + Target(members, delta) - SumFunction(scaled)]

NewPercentage(members, delta, policy, i) ==
    IF policy.kind = "Proportional"
    THEN ProportionalShares(members, delta)[i]
    ELSE members[i].percentage
            + (IF members[i].address = policy.address THEN delta ELSE 0)

CanRebalance(members, delta, policy) ==
    \/ delta = 0
    \/ /\ policy.kind = "Named"
       /\ IsMember(members, policy.address)
       /\ \A i \in DOMAIN members :
            NewPercentage(members, delta, policy, i) > 0
    \/ /\ policy.kind = "Proportional"
       /\ TotalPercentage(members) # 0
       /\ Target(members, delta) > 0
       /\ \A i \in DOMAIN members : Scaled(members, delta)[i] # 0

ApplyRebalance(members, delta, policy) ==
    IF delta = 0
    THEN members
    ELSE [i \in DOMAIN members |->
            [address |-> members[i].address,
             percentage |-> NewPercentage(members, delta, policy, i)]]
=============================================================================
