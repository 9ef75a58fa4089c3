------------------------------- MODULE Escrow -------------------------------
(***************************************************************************)
(* Pull payments (contract/src/base/escrow.rs): deposit takes an amount    *)
(* into the contract's custody and credits the members of that moment;     *)
(* each of them claims later, whatever became of the group meanwhile.      *)
(***************************************************************************)
EXTENDS Payments

VARIABLES
    claimable,    \* DataKey::Claimable(id, member), 0 when absent
    escrowed      \* DataKey::Escrowed(id), 0 when absent

escrowVars == <<claimable, escrowed>>
allEscrowVars == <<registryVars, balance, escrowVars>>

EscrowInit ==
    /\ Init
    /\ PaymentsInit
    /\ claimable = [id \in Ids |-> [a \in Address |-> 0]]
    /\ escrowed = [id \in Ids |-> 0]

Credited(id, members, amount) ==
    [a \in Address |-> claimable[id][a] + ShareOf(members, amount, a)]

\* deposit does not ask for the migration to be current.
Deposit(id, from, amount) ==
    /\ NotPaused
    /\ amount > 0
    /\ Payable(id, from, amount, 1)
    /\ LET details == GroupOf(id)
           credited == Credited(id, details.members, amount)
       IN  /\ \A a \in Address : credited[a] <= I128Max
           /\ escrowed[id] + amount <= I128Max
           /\ balance' = [balance EXCEPT ![details.payment_token] =
                            Moved(@, from, Self, amount)]
           /\ claimable' = [claimable EXCEPT ![id] = credited]
           /\ escrowed' = [escrowed EXCEPT ![id] = @ + amount]
    /\ UNCHANGED registryVars

\* Mutant: the member's entry is left in place.
SettledKept(id, member) == UNCHANGED claimable

\* Mutant: the whole group's entries are cleared.
SettledGroup(id, member) ==
    claimable' = [claimable EXCEPT ![id] = [a \in Address |-> 0]]

Settled(id, member) == claimable' = [claimable EXCEPT ![id][member] = 0]

\* Mutant: only a current member may claim.
MayClaimMembersOnly(id, member) ==
    claimable[id][member] > 0 /\ IsMember(GroupOf(id).members, member)

MayClaim(id, member) == claimable[id][member] > 0

\* Everything claim_to can fail on, its transfer included.
CanClaim(id, member) ==
    /\ NotPaused
    /\ Stored(id)
    /\ MayClaim(id, member)
    /\ balance[GroupOf(id).payment_token][Self] >= claimable[id][member]

\* claim is claim_to(member, member). A claim_to the contract itself leaves
\* the tokens in its custody with nobody to claim them.
ClaimTo(id, member, to) ==
    /\ CanClaim(id, member)
    /\ LET paid == claimable[id][member]
           token == GroupOf(id).payment_token
           remaining == escrowed[id] - paid
       IN  /\ Settled(id, member)
           /\ escrowed' = [escrowed EXCEPT ![id] =
                            IF remaining > 0 THEN remaining ELSE 0]
           /\ balance' = [balance EXCEPT ![token] = Moved(@, Self, to, paid)]
    /\ UNCHANGED registryVars

Claim(id, member) == ClaimTo(id, member, member)

EscrowStep ==
    \/ \E id \in Ids, from \in Address, n \in Amounts : Deposit(id, from, n)
    \/ \E id \in Ids, member \in Address : Claim(id, member)
    \/ \E id \in Ids, member \in Address, to \in Holders :
        ClaimTo(id, member, to)

EscrowNext == (PaymentsNext /\ UNCHANGED escrowVars) \/ EscrowStep

EscrowSpec == EscrowInit /\ [][EscrowNext]_allEscrowVars

-----------------------------------------------------------------------------
(* What the groups paid in one token are owed together is in the           *)
(* contract's custody: groups share one balance per token, and no claim,   *)
(* distribution or migration may spend another group's escrow.             *)
EscrowBacked ==
    \A t \in Token :
        LET paidIn == {id \in StoredIds : groups[id].payment_token = t}
            owed == [id \in paidIn |-> escrowed[id]]
        IN  SumFunction(owed) <= balance[t][Self]

(* A member who is owed anything by an unpaused contract can claim it at   *)
(* once, removed from the group or not and migrated or not: "Members       *)
(* removed from a group keep whatever they had accrued and can still claim *)
(* it" (escrow.rs, Snapshot semantics).                                    *)
CreditorsCanClaim ==
    \A id \in Ids, a \in Address :
        claimable[id][a] > 0 /\ NotPaused => ENABLED Claim(id, a)

(* The escrow is a ledger of debts: nothing but a deposit raises what      *)
(* anyone is owed, by the deposited amount in all, and nothing but paying  *)
(* a debt in full lowers it.                                               *)
Ledger == INSTANCE EscrowLedger WITH owed <- claimable, held <- escrowed
ImplementsLedger == Ledger!Spec
=============================================================================
