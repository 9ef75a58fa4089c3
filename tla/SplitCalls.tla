----------------------------- MODULE SplitCalls -----------------------------
(***************************************************************************)
(* One call of the split arithmetic at a time over every small member      *)
(* list: what is asked, whether the code accepts it and what it answers.   *)
(***************************************************************************)
EXTENDS Shares

CONSTANTS
    MaxAmount,    \* largest amount split
    MaxDelta      \* largest change of percentages rebalanced

ASSUME SplitCallsAssumption == MaxAmount \in Nat /\ MaxDelta \in Nat

VARIABLES
    splitOf,      \* the member list
    splitCall,    \* what was asked of it
    granted,      \* whether the code accepts it
    payout        \* the answer

splitVars == <<splitOf, splitCall, granted, payout>>

\* The members of a list in their stored order: any one will do.
Roster == SetToSeq(Address)

SplitLists ==
    UNION {{[i \in 1 .. n |-> [address |-> Roster[i], percentage |-> p[i]]] :
                p \in {q \in [1 .. n -> 1 .. Total] : SumFunction(q) <= Total}} :
            n \in DOMAIN Roster}

NoCallYet == [op |-> "none"]

InitSplits ==
    /\ splitOf \in SplitLists
    /\ splitCall = NoCallYet
    /\ granted = FALSE
    /\ payout = <<>>

Split(amount) ==
    /\ splitCall' = [op |-> "split", amount |-> amount]
    /\ granted' = CanDistribute(amount, splitOf)
    /\ payout' = IF granted' THEN DistributeAmounts(amount, splitOf) ELSE <<>>
    /\ UNCHANGED splitOf

Rebalance(delta, policy) ==
    /\ splitCall' = [op |-> "rebalance", delta |-> delta, policy |-> policy]
    /\ granted' = CanRebalance(splitOf, delta, policy)
    /\ payout' = IF granted'
                 THEN ApplyRebalance(splitOf, delta, policy) ELSE <<>>
    /\ UNCHANGED splitOf

NextSplits ==
    /\ splitCall = NoCallYet
    /\ \/ \E amount \in 0 .. MaxAmount : Split(amount)
       \/ \E delta \in -MaxDelta .. MaxDelta, policy \in RebalancePolicy :
            Rebalance(delta, policy)

SplitsSpec == InitSplits /\ [][NextSplits]_splitVars

-----------------------------------------------------------------------------
Answered(op) == splitCall.op = op /\ granted

(* The payouts of a split add up to the amount, and none is negative:      *)
(* "all shares sum exactly to `total`" (base/utils.rs distribute_amounts). *)
SplitConserves ==
    Answered("split") =>
        /\ SumFunction(payout) = splitCall.amount
        /\ \A i \in DOMAIN payout : payout[i] >= 0

(* Every member but the last gets the exact floor of the pro rata share    *)
(* and the last gets less than one unit per member above it: the dust of   *)
(* distribute_amounts is bounded by the length of the list.                *)
SplitFair ==
    Answered("split") =>
        \A i \in DOMAIN payout :
            LET exact == splitCall.amount * splitOf[i].percentage
                slack == IF i = Len(splitOf) THEN Len(splitOf) ELSE 1
            IN  /\ exact - Total < payout[i] * Total
                /\ payout[i] * Total < exact + slack * Total

(* A rebalance moves exactly delta basis points in total, keeps the        *)
(* members and their order and leaves nobody with zero (apply_rebalance).  *)
RebalanceExact ==
    Answered("rebalance") =>
        /\ Addresses(payout) = Addresses(splitOf)
        /\ TotalPercentage(payout) = TotalPercentage(splitOf) + splitCall.delta
        /\ \A i \in DOMAIN payout : payout[i].percentage > 0
=============================================================================
