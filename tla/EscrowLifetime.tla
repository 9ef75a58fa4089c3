--------------------------- MODULE EscrowLifetime ---------------------------
(***************************************************************************)
(* The time to live of what a claim reads (contract/src/base/escrow.rs,    *)
(* TTL policy): the member's credit, the group's escrow total, the group   *)
(* record and the contract instance. The ledger archives an entry whose    *)
(* time has run out; a call that touches it fails until it is restored.    *)
(* Archival is the network's, taken from how the code uses extend_ttl.     *)
(***************************************************************************)
EXTENDS Escrow

CONSTANTS
    ESCROW_TTL_THRESHOLD,   \* an entry with less time left is extended
    ESCROW_TTL_EXTEND_TO,   \* what it is extended to
    MinPersistentTtl        \* what the network gives a new entry

ASSUME LifetimeAssumption ==
    /\ ESCROW_TTL_THRESHOLD \in Nat \ {0}
    /\ ESCROW_TTL_EXTEND_TO \in Nat
    /\ ESCROW_TTL_EXTEND_TO >= ESCROW_TTL_THRESHOLD
    /\ MinPersistentTtl \in Nat \ {0}

VARIABLES
    creditTtl,      \* of Claimable(id, member)
    totalTtl,       \* of Escrowed(id)
    groupTtl,       \* of Group(id)
    instanceTtl,    \* of the contract instance
    creditAge       \* history: periods since a deposit last credited the
                    \* member, counted up to the threshold

ttlVars == <<creditTtl, totalTtl, groupTtl, instanceTtl>>
lifetimeVars == <<allEscrowVars, ttlVars, creditAge>>

\* An entry that does not exist has time 0, like an archived one.
LifetimeInit ==
    /\ EscrowInit
    /\ creditTtl = [id \in Ids |-> [a \in Address |-> 0]]
    /\ totalTtl = [id \in Ids |-> 0]
    /\ groupTtl = [id \in Ids |-> IF Stored(id) THEN MinPersistentTtl ELSE 0]
    /\ instanceTtl = MinPersistentTtl
    /\ creditAge = [id \in Ids |-> [a \in Address |-> 0]]

\* Mutant: only an entry whose time has run out is extended.
BumpedAtZero(ttl) == IF ttl = 0 THEN ESCROW_TTL_EXTEND_TO ELSE ttl

\* bump and bump_instance: extend_ttl.
Extended(ttl) ==
    IF ttl < ESCROW_TTL_THRESHOLD THEN ESCROW_TTL_EXTEND_TO ELSE ttl

\* An entry set and bumped: it keeps its time if it existed.
Written(exists, ttl) == Extended(IF exists THEN ttl ELSE MinPersistentTtl)

\* The entries a call on group `id` by `member` reads are not archived.
Live(id, member) ==
    /\ instanceTtl > 0
    /\ groupTtl[id] > 0
    /\ escrowed[id] > 0 => totalTtl[id] > 0
    /\ claimable[id][member] > 0 => creditTtl[id][member] > 0

BumpGroup(id) ==
    /\ groupTtl' = [groupTtl EXCEPT ![id] = Extended(@)]
    /\ instanceTtl' = Extended(instanceTtl)

LifetimeDeposit(id, from, amount) ==
    LET credits(a) == claimable[id][a]' # claimable[id][a]
    IN  /\ Deposit(id, from, amount)
        /\ \A a \in Address : credits(a) => Live(id, a)
        /\ creditTtl' = [creditTtl EXCEPT ![id] =
            [a \in Address |-> IF credits(a) THEN Written(claimable[id][a] > 0, @[a])
                               ELSE @[a]]]
        /\ totalTtl' = [totalTtl EXCEPT ![id] = Written(escrowed[id] > 0, @)]
        /\ BumpGroup(id)
        /\ creditAge' = [creditAge EXCEPT ![id] =
            [a \in Address |-> IF credits(a) THEN 0 ELSE @[a]]]

\* A claim removes the member's entry, and the total with the last credit.
LifetimeClaim(id, member, to) ==
    /\ Live(id, member)
    /\ ClaimTo(id, member, to)
    /\ creditTtl' = [creditTtl EXCEPT ![id][member] = 0]
    /\ totalTtl' = [totalTtl EXCEPT ![id] =
                        IF escrowed'[id] > 0 THEN Extended(@) ELSE 0]
    /\ BumpGroup(id)
    /\ creditAge' = [creditAge EXCEPT ![id][member] = 0]

\* The registry writes groups without extending them.
LifetimeRegistry ==
    /\ instanceTtl > 0
    /\ Next
    /\ \A id \in StoredIds : groups'[id] # groups[id] => groupTtl[id] > 0
    /\ groupTtl' = [id \in Ids |-> IF Stored(id)' /\ ~Stored(id)
                                   THEN MinPersistentTtl ELSE groupTtl[id]]
    /\ UNCHANGED <<balance, escrowVars, creditTtl, totalTtl, instanceTtl, creditAge>>

LifetimePayments ==
    /\ \/ \E t \in Token, from \in Address, to \in Holders, n \in Amounts :
            Transfer(t, from, to, n)
       \/ \E id \in Ids, from \in Address, n \in Amounts :
            instanceTtl > 0 /\ groupTtl[id] > 0 /\ Distribute(id, from, n)
    /\ UNCHANGED <<escrowVars, ttlVars, creditAge>>

Less(ttl) == IF ttl > 0 THEN ttl - 1 ELSE 0

Older(credit, age) ==
    IF credit > 0 /\ age < ESCROW_TTL_THRESHOLD THEN age + 1 ELSE age

\* A period passes.
Elapse ==
    /\ creditTtl' = [id \in Ids |-> [a \in Address |-> Less(creditTtl[id][a])]]
    /\ totalTtl' = [id \in Ids |-> Less(totalTtl[id])]
    /\ groupTtl' = [id \in Ids |-> Less(groupTtl[id])]
    /\ instanceTtl' = Less(instanceTtl)
    /\ creditAge' = [id \in Ids |-> [a \in Address |->
                        Older(claimable[id][a], creditAge[id][a])]]
    /\ UNCHANGED allEscrowVars

\* An external RestoreFootprint brings archived entries of a group back.
Restored(exists, ttl) == IF exists /\ ttl = 0 THEN MinPersistentTtl ELSE ttl

Restore(id) ==
    /\ groupTtl' = [groupTtl EXCEPT ![id] = Restored(Stored(id), @)]
    /\ instanceTtl' = Restored(TRUE, instanceTtl)
    /\ totalTtl' = [totalTtl EXCEPT ![id] = Restored(escrowed[id] > 0, @)]
    /\ creditTtl' = [creditTtl EXCEPT ![id] =
            [a \in Address |-> Restored(claimable[id][a] > 0, @[a])]]
    /\ UNCHANGED <<allEscrowVars, creditAge>>

LifetimeNext ==
    \/ \E id \in Ids, from \in Address, n \in Amounts :
        LifetimeDeposit(id, from, n)
    \/ \E id \in Ids, member \in Address, to \in Holders :
        LifetimeClaim(id, member, to)
    \/ LifetimeRegistry
    \/ LifetimePayments
    \/ Elapse
    \/ \E id \in Ids : Restore(id)

LifetimeSpec == LifetimeInit /\ [][LifetimeNext]_lifetimeVars

-----------------------------------------------------------------------------
(* Whoever was credited less than the threshold ago finds every entry the  *)
(* claim reads, and restores nothing, whatever was claimed, edited and     *)
(* migrated since. The documents promise more, "one hundred and twenty     *)
(* days, which is the window a member has to claim after the last write    *)
(* touching their group" (escrow.rs line 64): extend_ttl gives the 120     *)
(* days only to an entry with less than the threshold of 30 left, and the  *)
(* writes of others do not touch a member's credit.                        *)
CreditOutlivesThreshold ==
    \A id \in Ids, a \in Address :
        claimable[id][a] > 0 /\ creditAge[id][a] < ESCROW_TTL_THRESHOLD => Live(id, a)
=============================================================================
