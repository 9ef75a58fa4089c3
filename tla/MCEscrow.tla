------------------------------ MODULE MCEscrow ------------------------------
(* Groups of one creator paid in one token, their members edited between   *)
(* deposits, claims, distributions and transfers of every small amount.    *)
(* With MinPersistentTtl = ESCROW_TTL_EXTEND_TO entries are all fresh      *)
(* until a period passes, and the instances where it does have one group.  *)
EXTENDS EscrowLifetime

CONSTANTS a1, a2, g1

M(a, p) == [address |-> a, percentage |-> p]

MCMemberLists ==
    {<<M(a1, Total)>>, <<M(a2, Total)>>, <<M(a2, 1), M(a1, Total - 1)>>}

Fresh(ttl) == ttl = MinPersistentTtl

\* No entry of the contract is older than it was when it was written.
AllFresh ==
    /\ Fresh(instanceTtl)
    /\ \A id \in StoredIds :
        /\ Fresh(groupTtl[id])
        /\ escrowed[id] > 0 => Fresh(totalTtl[id])
        /\ \A a \in Address : claimable[id][a] > 0 => Fresh(creditTtl[id][a])

\* Bound: time passes where there is one group, in no handover, whose
\* members are no longer all replaced.
OneGroupAges ==
    AllFresh \/ /\ StoredIds \subseteq {g1}
                /\ pendingAdmin = NoAddress
                /\ \A id \in StoredIds : GroupOf(id).members # <<M(a2, Total)>>
=============================================================================
