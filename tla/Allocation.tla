---- MODULE Allocation ----
(***************************************************************************)
(* The member step of the group wizard: the editor of the rows, the        *)
(* allocator of their basis points and the preview of what each will be    *)
(* paid (components/MemberEditor.tsx, Allocator.tsx, SharePreview.tsx and  *)
(* lib/utils/allocation.ts), beside the contract's arithmetic of Shares.   *)
(* Names and addresses are left out: nothing here depends on them.         *)
(***************************************************************************)
EXTENDS Shares, FiniteSets

CONSTANTS MaxRows,    \* bound on the members of the form
          MaxEntered, \* bound on the basis points typed into a row
          MaxSample   \* bound on the amount of the preview

ASSUME AllocationAssumption == {MaxRows, MaxEntered, MaxSample} \subseteq Nat

VARIABLE form         \* the form: [percentage, locked]

InitAllocation == form = <<>>

Remaining(list) == Total - TotalPercentage(list)

\* validateAllocation.
ValidAllocation(list) ==
  /\ list # <<>>
  /\ \A i \in DOMAIN list : list[i].percentage > 0
  /\ Remaining(list) = 0

\* Mutant: shares are rounded to the nearest unit.
RoundedShare(amount, list, i) ==
  (2 * amount * list[i].percentage + Total) \div (2 * Total)

FlooredShare(amount, list, i) == (amount * list[i].percentage) \div Total

\* calculateShares: from the first row on, with what is distributed so far.
CalculateShares(amount, list) ==
  LET distributed[i \in 0 .. Len(list)] ==
        IF i = 0 THEN 0 ELSE distributed[i - 1] + FlooredShare(amount, list, i)
  IN IF list = <<>> \/ amount <= 0 THEN <<>>
     ELSE [i \in DOMAIN list |-> IF i = Len(list) THEN amount - distributed[i - 1]
                                ELSE FlooredShare(amount, list, i)]

\* What SharePreview shows for an amount.
Preview(amount) ==
  IF ValidAllocation(form) /\ amount > 0 THEN CalculateShares(amount, form)
  ELSE <<>>

\* splitEvenly: what is left over goes to the last members, one each.
EvenSplit(n) ==
  [i \in 1 .. n |-> Total \div n + (IF i > n - (Total % n) THEN 1 ELSE 0)]

SplitRows ==
  LET split == EvenSplit(Len(form))
  IN [i \in DOMAIN form |-> [form[i] EXCEPT !.percentage = split[i]]]

LockedRows(list) == {i \in DOMAIN list : list[i].locked}

\* Mutant: the rest of the scaling is nobody's.
ScaledSplitNoRest(n, room) ==
  [k \in 1 .. n |-> (EvenSplit(n)[k] * room) \div Total]

\* rebalanceAllocation: what the locked rows leave, split evenly over the
\* whole, scaled down, and the rest of the scaling again to the last.
ScaledSplit(n, room) ==
  LET floored == [k \in 1 .. n |-> (EvenSplit(n)[k] * room) \div Total]
      rest == room - SumFunction(floored)
  IN [k \in 1 .. n |-> floored[k] + (IF k > n - rest THEN 1 ELSE 0)]

Rebalanced(list) ==
  LET unlocked == DOMAIN list \ LockedRows(list)
      room == Total - SumFunction([i \in LockedRows(list) |-> list[i].percentage])
      Rank(i) == Cardinality({j \in unlocked : j <= i})
      split == ScaledSplit(Cardinality(unlocked), room)
  IN IF unlocked = {} THEN list
     ELSE [i \in DOMAIN list |->
             IF list[i].locked THEN list[i]
             ELSE [list[i] EXCEPT !.percentage =
                     IF room <= 0 THEN 0 ELSE split[Rank(i)]]]

AddRow ==
  /\ Len(form) < MaxRows
  /\ form' = Append(form, [percentage |-> 0, locked |-> FALSE])

RemoveRow(i) == form' = RemoveAt(form, i)

\* Over-allocation is only shown, a negative number is not taken, and the
\* input of a locked row is disabled.
EnterBasisPoints(i, n) ==
  /\ ~form[i].locked
  /\ form' = [form EXCEPT ![i].percentage = n]

ToggleLock(i) == form' = [form EXCEPT ![i].locked = ~@]

\* "Split Evenly" heeds no lock.
SplitEvenly == form # <<>> /\ form' = SplitRows

RebalanceUnlocked == form # <<>> /\ form' = Rebalanced(form)

NextAllocation ==
  \/ AddRow \/ SplitEvenly \/ RebalanceUnlocked
  \/ \E i \in DOMAIN form :
       \/ RemoveRow(i) \/ ToggleLock(i)
       \/ \E n \in 0 .. MaxEntered : EnterBasisPoints(i, n)

AllocationSpec == InitAllocation /\ [][NextAllocation]_form

(***************************************************************************)
(* "If the preview and get_member_shares ever disagree, the preview is     *)
(* wrong" (SharePreview.tsx line 16): the form lets only allocations pass  *)
(* that the contract accepts, and of each it previews, for every amount,   *)
(* exactly what the contract will pay.                                     *)
(***************************************************************************)
PreviewMatchesContract ==
  ValidAllocation(form) =>
    /\ ValidPercentages(form)
    /\ \A amount \in 1 .. MaxSample :
         Preview(amount) = DistributeAmounts(amount, form)

\* A rebalance leaves the locked rows alone and completes the allocation,
\* the others within two basis points of each other (the dust of the split
\* and that of its scaling both go to the last), if the locked leave room.
RebalanceCompletes ==
  LET after == Rebalanced(form)
      unlocked == DOMAIN form \ LockedRows(form)
      room == Total - SumFunction([i \in LockedRows(form) |-> form[i].percentage])
  IN unlocked # {} /\ room > 0 =>
       /\ \A i \in LockedRows(form) : after[i] = form[i]
       /\ TotalPercentage(after) = Total
       /\ \A i, j \in unlocked : after[i].percentage <= after[j].percentage + 2
====
