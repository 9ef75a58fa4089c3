--------------------------- MODULE Payments_proofs ---------------------------
(***************************************************************************)
(* Where the money goes, for any groups, accounts, tokens and amounts:     *)
(* what a split pays out, that the escrow is a ledger of debts always      *)
(* backed by the contract's balance, that schedules pay what they count as *)
(* run, on time, once, and never once stopped, and that no payment makes   *)
(* or loses a token or touches the registry.                               *)
(***************************************************************************)
EXTENDS EscrowLifetime, Schedule, GroupRegistry_proofs

-----------------------------------------------------------------------------
(* What a split gives each holder.                                         *)

LEMMA HoldersFinite ==
    /\ IsFiniteSet(Address) /\ IsFiniteSet(Holders)
    /\ Address \subseteq Holders /\ Self \in Holders /\ Self \notin Address
  BY SharesAssumption, PaymentsAssumption, FS_AddElement DEF Holders

\* The holders of a stored group that can be paid have a sound list.
LEMMA PaidMembers ==
    ASSUME StorageInv, MembersInv, NEW id \in Ids, Stored(id),
           GroupOf(id).members # <<>>
    PROVE  /\ GroupOf(id).members \in MemberSeqs
           /\ IsInjective(Addresses(GroupOf(id).members))
           /\ TotalPercentage(GroupOf(id).members) = Total
           /\ GroupOf(id).payment_token \in Token
           /\ GroupOf(id).payment_token = groups[id].payment_token
  <1>1. id \in StoredIds /\ GroupOf(id).members = groups[id].members
    BY DEF StoredIds, GroupOf, Decoded
  <1>2. SoundList(GroupOf(id).members)
    BY <1>1 DEF MembersInv
  <1>3. IsGroupRecord(groups[id])
    BY <1>1 DEF StorageInv, TypeOK
  <1>4. /\ GroupOf(id).payment_token = groups[id].payment_token
        /\ GroupOf(id).payment_token \in Token
    BY <1>3 DEF GroupOf, Decoded, IsGroupRecord
  <1>5. GroupOf(id).members \in MemberSeqs
    BY <1>2 DEF SoundList
  <1> QED
    BY <1>2, <1>4, <1>5, SoundForm

(* A split pays every holder what it is due, an account that is no member  *)
(* nothing, and the whole amount in all.                                   *)
LEMMA SharesAddUp ==
    ASSUME NEW members \in MemberSeqs, IsInjective(Addresses(members)),
           TotalPercentage(members) = Total, NEW amount \in Nat,
           NEW S, IsFiniteSet(S), Address \subseteq S
    PROVE  /\ \A a : ShareOf(members, amount, a) \in Nat
           /\ \A a : a \notin Address => ShareOf(members, amount, a) = 0
           /\ [a \in S |-> ShareOf(members, amount, a)] \in [S -> Nat]
           /\ SumFunction([a \in S |-> ShareOf(members, amount, a)]) = amount
           /\ SumFunction(DistributeAmounts(amount, members)) = amount
  <1> DEFINE n == Len(members)
             T == 1 .. n
             g == DistributeAmounts(amount, members)
             f == [a \in S |-> ShareOf(members, amount, a)]
             h == [t \in T |-> members[t].address]
             V == {h[t] : t \in T}
  <1>1. /\ n \in Nat /\ DOMAIN members = T
        /\ \A t \in T : members[t].address \in Address
    BY MemberFields
  <1>2. g \in [T -> Nat] /\ SumFunction(g) = amount
    BY SplitLemma
  <1> HIDE DEF g
  <1>3. ASSUME NEW a, IsMember(members, a)
        PROVE  /\ Position(members, a) \in T
               /\ members[Position(members, a)].address = a
    BY <1>3, FoundPosition
  <1>4. ASSUME NEW t \in T
        PROVE  /\ IsMember(members, members[t].address)
               /\ Position(members, members[t].address) = t
    <2>1. IsMember(members, members[t].address)
      BY <1>1 DEF IsMember
    <2>2. /\ Position(members, members[t].address) \in T
          /\ members[Position(members, members[t].address)].address
                = members[t].address
      BY <1>3, <2>1
    <2>3. \A u \in T : members[u].address = members[t].address => u = t
      BY <1>1 DEF IsInjective, Addresses
    <2> QED
      BY <2>1, <2>2, <2>3
  <1>5. ASSUME NEW a
        PROVE  /\ ShareOf(members, amount, a) \in Nat
               /\ a \notin Address => ShareOf(members, amount, a) = 0
    <2>1. CASE IsMember(members, a)
      <3>1. Position(members, a) \in T /\ a \in Address
        BY <1>1, <1>3, <2>1
      <3>2. ShareOf(members, amount, a) = g[Position(members, a)]
        BY <2>1 DEF ShareOf, g
      <3> QED
        BY <1>2, <3>1, <3>2
    <2>2. CASE ~IsMember(members, a)
      BY <2>2 DEF ShareOf
    <2> QED
      BY <2>1, <2>2
  <1>6. \A t \in T : g[t] = ShareOf(members, amount, members[t].address)
    BY <1>4 DEF ShareOf, g
  <1>7. f \in [S -> Nat] /\ f \in [S -> Int]
    BY <1>5
  <1>8. h \in [T -> S] /\ \A t \in T : h[t] = members[t].address
    BY <1>1
  <1>9. \A t \in T : g[t] = f[h[t]]
    BY <1>6, <1>8
  <1>10. ASSUME NEW t \in T, NEW u \in T, h[t] = h[u]
         PROVE  t = u
    BY <1>4, <1>8, <1>10
  <1>11. V \in SUBSET S
    BY <1>8
  <1>12. \A a \in S \ V : f[a] = 0
    <2>1. ASSUME NEW a \in S \ V PROVE ~IsMember(members, a)
      BY <1>1, <1>8 DEF IsMember
    <2> QED
      BY <2>1 DEF ShareOf
  <1>13. IsFiniteSet(T) /\ g \in [T -> Int]
    BY <1>1, <1>2, FiniteFrom1
  <1> HIDE DEF f, h, T
  <1>14. SumFunction(g) = SumFunction(Restrict(f, V))
    BY <1>7, <1>8, <1>9, <1>10, <1>13, SumImage
  <1>15. SumFunction(f) = SumFunction(Restrict(f, V))
    <2> HIDE DEF V
    <2> QED
      BY <1>7, <1>11, <1>12, SumSupport
  <1> QED
    BY <1>2, <1>5, <1>7, <1>14, <1>15 DEF f, g

-----------------------------------------------------------------------------
(* Balances.                                                               *)

BalanceInv == balance \in [Token -> [Holders -> Int]]

MoneyInv == StorageInv /\ MembersInv /\ BalanceInv

LEMMA InitBalance == PaymentsInit => BalanceInv
  <1> SUFFICES ASSUME PaymentsInit PROVE BalanceInv
    OBVIOUS
  <1>1. balance \in [Token -> [Holders -> 0 .. Supply]]
    BY DEF PaymentsInit
  <1>2. 0 .. Supply \subseteq Int
    BY PaymentsAssumption
  <1> QED
    BY <1>1, <1>2 DEF BalanceInv

\* What a transfer does to each of a token's holders.
LEMMA MovedBalances ==
    ASSUME NEW b \in [Holders -> Int], NEW from \in Holders, NEW to \in Holders,
           NEW amount \in Int
    PROVE  /\ Moved(b, from, to, amount) \in [Holders -> Int]
           /\ \A a \in Holders : Moved(b, from, to, amount)[a] =
                b[a] + (IF a = to THEN amount ELSE 0)
                     - (IF a = from THEN amount ELSE 0)
  <1> DEFINE debited == [b EXCEPT ![from] = @ - amount]
  <1>1. /\ debited \in [Holders -> Int]
        /\ \A a \in Holders :
                debited[a] = b[a] - (IF a = from THEN amount ELSE 0)
    OBVIOUS
  <1>2. Moved(b, from, to, amount) = [debited EXCEPT ![to] = debited[to] + amount]
    BY DEF Moved
  <1> HIDE DEF debited
  <1> QED
    BY <1>1, <1>2

(* What paying a split several times over does to the token it is paid in: *)
(* each holder gets its share each time and the payer gives the amount.    *)
LEMMA PayEffect ==
    ASSUME MoneyInv, NEW id \in Ids, NEW from \in Address, NEW amount \in Nat,
           NEW times \in Nat, Payable(id, from, amount, times),
           Pay(id, from, amount, times)
    PROVE  LET t == GroupOf(id).payment_token
               members == GroupOf(id).members
           IN  /\ BalanceInv'
               /\ t \in Token
               /\ \A u \in Token \ {t} : balance'[u] = balance[u]
               /\ \A a \in Holders : ShareOf(members, amount, a) \in Nat
               /\ \A a \in Holders \ {from} : balance'[t][a] - balance[t][a] =
                    times * ShareOf(members, amount, a)
               /\ balance'[t][from] - balance[t][from] =
                    times * (ShareOf(members, amount, from) - amount)
               /\ balance'[t][Self] = balance[t][Self]
               /\ SumFunction([a \in Holders |-> ShareOf(members, amount, a)])
                    = amount
  <1> DEFINE t == GroupOf(id).payment_token
             members == GroupOf(id).members
             share(a) == ShareOf(members, amount, a)
             gain(a) == times * (share(a) - (IF a = from THEN amount ELSE 0))
             spent == SumFunction(DistributeAmounts(amount, members))
  <1>1. /\ members \in MemberSeqs /\ IsInjective(Addresses(members))
        /\ TotalPercentage(members) = Total /\ t \in Token
    BY PaidMembers DEF MoneyInv, Payable
  <1>2. balance' = [balance EXCEPT ![t] = PaidOut(balance[t], from, members, amount, times)]
    BY DEF Pay
  <1> HIDE DEF t, members
  <1>3. /\ \A a : share(a) \in Nat
        /\ \A a : a \notin Address => share(a) = 0
        /\ SumFunction([a \in Holders |-> share(a)]) = amount
        /\ spent = amount
    BY <1>1, SharesAddUp, HoldersFinite
  <1>4. balance \in [Token -> [Holders -> Int]] /\ balance[t] \in [Holders -> Int]
    BY <1>1 DEF MoneyInv, BalanceInv
  <1>5. PaidOut(balance[t], from, members, amount, times)
            = [a \in Holders |-> balance[t][a]
                + times * (share(a) - (IF a = from THEN spent ELSE 0))]
    BY DEF PaidOut
  <1> HIDE DEF share, spent
  <1>6. \A a \in Holders : gain(a) \in Int
    BY <1>3
  <1>7. PaidOut(balance[t], from, members, amount, times)
            = [a \in Holders |-> balance[t][a] + gain(a)]
    BY <1>3, <1>5
  <1>8. gain(Self) = 0
    <2>1. Self # from /\ share(Self) = 0
      BY <1>3, HoldersFinite
    <2> QED
      BY <2>1
  <1>9. /\ gain(from) = times * (share(from) - amount)
         /\ \A a \in Holders \ {from} : gain(a) = times * share(a)
    <2>1. ASSUME NEW a \in Holders \ {from}
          PROVE  gain(a) = times * share(a)
      <3>1. gain(a) = times * (share(a) - 0)
        OBVIOUS
      <3>2. share(a) - 0 = share(a)
        BY <1>3
      <3> QED
        BY <3>1, <3>2
    <2> QED
      BY <2>1
  <1> HIDE DEF gain
  <1>10. [a \in Holders |-> balance[t][a] + gain(a)] \in [Holders -> Int]
    BY <1>4, <1>6
  <1>11. /\ BalanceInv'
         /\ \A u \in Token \ {t} : balance'[u] = balance[u]
         /\ balance'[t] = [a \in Holders |-> balance[t][a] + gain(a)]
    BY <1>1, <1>2, <1>4, <1>7, <1>10 DEF BalanceInv
  <1>12. ASSUME NEW a \in Holders
         PROVE  balance'[t][a] - balance[t][a] = gain(a)
    BY <1>4, <1>6, <1>11
  <1>13. balance'[t][Self] = balance[t][Self]
    BY <1>4, <1>8, <1>11, HoldersFinite
  <1>14. from \in Holders
    BY HoldersFinite
  <1>15. /\ \A a \in Holders \ {from} :
                balance'[t][a] - balance[t][a] = times * share(a)
         /\ balance'[t][from] - balance[t][from] = times * (share(from) - amount)
    BY <1>12, <1>9, <1>14
  <1> QED
    BY <1>1, <1>3, <1>11, <1>13, <1>15 DEF t, members, share

\* The operations of the registry and the payments keep MoneyInv.
LEMMA PaymentsNextInv ==
    ASSUME MoneyInv, PaymentsNext
    PROVE  MoneyInv'
  <1>1. CASE Next /\ UNCHANGED balance
    BY <1>1, NextStorage, NextMembers DEF MoneyInv, BalanceInv
  <1>2. ASSUME UNCHANGED registryVars, BalanceInv'
        PROVE  MoneyInv'
    BY <1>2, NextStorage, NextMembers DEF MoneyInv
  <1>3. ASSUME NEW id \in Ids, NEW from \in Address, NEW amount \in Amounts,
               Distribute(id, from, amount)
        PROVE  MoneyInv'
    <2>1. amount \in Nat /\ 1 \in Nat
      BY <1>3, PaymentsAssumption DEF Distribute
    <2>2. Payable(id, from, amount, 1) /\ Pay(id, from, amount, 1)
      BY <1>3 DEF Distribute
    <2>3. BalanceInv'
      BY <2>1, <2>2, PayEffect
    <2> QED
      BY <1>2, <1>3, <2>3 DEF Distribute
  <1>4. ASSUME NEW t \in Token, NEW from \in Address, NEW to \in Holders,
               NEW amount \in Amounts, Transfer(t, from, to, amount)
        PROVE  MoneyInv'
    <2>1. amount \in Int /\ from \in Holders
      BY PaymentsAssumption, HoldersFinite
    <2>2. /\ balance' = [balance EXCEPT ![t] = Moved(balance[t], from, to, amount)]
          /\ UNCHANGED registryVars
      BY <1>4 DEF Transfer
    <2>3. balance[t] \in [Holders -> Int]
      BY DEF MoneyInv, BalanceInv
    <2>4. Moved(balance[t], from, to, amount) \in [Holders -> Int]
      BY <2>1, <2>3, MovedBalances
    <2>5. BalanceInv'
      BY <2>2, <2>4 DEF MoneyInv, BalanceInv
    <2> QED
      BY <1>2, <2>2, <2>5
  <1> QED
    BY <1>1, <1>3, <1>4 DEF PaymentsNext

-----------------------------------------------------------------------------
(* Escrow. The inductive invariant: the credits of a group add up to its   *)
(* escrow, a group that is not stored has none, and the escrows of all     *)
(* groups paid in a token are covered by the contract's balance of it.     *)

\* What a group owes in a token; a group is paid in one.
OwedIn(t, id) ==
    IF Stored(id) /\ groups[id].payment_token = t THEN escrowed[id] ELSE 0

OwedInAll(t) == SumFunction([id \in Ids |-> OwedIn(t, id)])

LedgerInv ==
    /\ claimable \in [Ids -> [Address -> Nat]]
    /\ escrowed \in [Ids -> Nat]
    /\ \A id \in Ids : SumFunction(claimable[id]) = escrowed[id]
    /\ \A id \in Ids : ~Stored(id) => escrowed[id] = 0

Backed == \A t \in Token : OwedInAll(t) <= balance[t][Self]

EscrowInv == MoneyInv /\ LedgerInv /\ Backed

LEMMA OwedType ==
    ASSUME LedgerInv, NEW t
    PROVE  [id \in Ids |-> OwedIn(t, id)] \in [Ids -> Nat]
  BY DEF LedgerInv, OwedIn

\* OwedInAll is the sum EscrowBacked speaks of.
LEMMA OwedIsBacked ==
    ASSUME EscrowInv
    PROVE  EscrowBacked
  <1> SUFFICES ASSUME NEW t \in Token
               PROVE  LET paidIn == {id \in StoredIds : groups[id].payment_token = t}
                          owed == [id \in paidIn |-> escrowed[id]]
                      IN  SumFunction(owed) <= balance[t][Self]
    BY DEF EscrowBacked
  <1> DEFINE paidIn == {id \in StoredIds : groups[id].payment_token = t}
             owed == [id \in paidIn |-> escrowed[id]]
             f == [id \in Ids |-> OwedIn(t, id)]
  <1>1. f \in [Ids -> Int] /\ IsFiniteSet(Ids)
    <2>1. f \in [Ids -> Nat]
      BY OwedType DEF EscrowInv
    <2> QED
      BY <2>1, RegistryAssumption
  <1>2. paidIn \in SUBSET Ids
    BY DEF StoredIds
  <1>3. \A id \in Ids \ paidIn : f[id] = 0
    BY DEF OwedIn, StoredIds
  <1>4. Restrict(f, paidIn) = owed
    <2>1. \A id \in paidIn : f[id] = escrowed[id]
      BY DEF OwedIn, StoredIds
    <2> HIDE DEF f, paidIn
    <2> QED
      BY <2>1, Zenon DEF Restrict
  <1>5. SumFunction(f) <= balance[t][Self]
    BY DEF EscrowInv, Backed, OwedInAll
  <1> HIDE DEF f, paidIn, owed
  <1>6. SumFunction(f) = SumFunction(owed)
    BY <1>1, <1>2, <1>3, <1>4, SumSupport
  <1> QED
    BY <1>5, <1>6 DEF owed, paidIn

\* No operation of the registry changes the token a stored group is paid in.
LEMMA TokensKept ==
    ASSUME StorageInv, Next, NEW g \in StoredIds
    PROVE  groups'[g] # NoGroup
           /\ groups'[g].payment_token = groups[g].payment_token
  <1>1. g \in Ids /\ groups[g] # NoGroup /\ DOMAIN groups = Ids
    BY DEF StoredIds, Stored, StorageInv, TypeOK
  <1>2. CASE UNCHANGED groups
    BY <1>1, <1>2
  <1>3. ASSUME NEW c \in Address, NEW limit \in BatchLimits, Migrate(c, limit)
        PROVE  groups'[g] # NoGroup
               /\ groups'[g].payment_token = groups[g].payment_token
    <2>1. CASE groups' = [h \in Ids |-> IF h \in Batch(limit) /\ Stored(h)
                                        THEN Migrated(groups[h]) ELSE groups[h]]
      <3>1. groups'[g] # NoGroup
        BY <1>1, <2>1, MigrateBatch
      <3>2. groups'[g] \in {Migrated(groups[g]), groups[g]}
        BY <1>1, <2>1
      <3>3. Migrated(groups[g]).payment_token = groups[g].payment_token
        BY DEF Migrated, Decoded
      <3> QED
        BY <3>1, <3>2, <3>3
    <2> QED
      BY <1>2, <1>3, <2>1 DEF Migrate
  <1>4. CASE Administration
    BY <1>2, <1>3, <1>4
       DEF Administration, InitContract, ProposeAdmin, AcceptAdmin,
           CancelAdminProposal, Pause, Unpause, Upgrade
  <1>5. ASSUME NEW id \in Ids, NEW c \in Address, NEW t \in Token, Create(id, c, t)
        PROVE  groups'[g] = groups[g]
    BY <1>1, <1>5 DEF Create, Creatable, Stored
  <1>6. CASE Membership
    <2>1. PICK id \in Ids, expected \in 1 .. U32Max : Edit(id, expected)
      BY <1>6 DEF Membership
    <2>2. PICK members : groups' = [groups EXCEPT ![id] = Edited(groups[id], members)]
      BY <2>1, EditStores DEF StoreMembers
    <2>3. \A r : /\ Edited(r, members).payment_token = r.payment_token
                 /\ Edited(r, members) # NoGroup
      BY DEF Edited, NoGroup
    <2> QED
      BY <1>1, <2>2, <2>3
  <1> QED
    BY <1>1, <1>4, <1>5, <1>6 DEF Next

\* The operations of the registry and the payments leave the escrow covered.
LEMMA PaymentsKeepEscrow ==
    ASSUME EscrowInv, PaymentsNext, UNCHANGED escrowVars
    PROVE  EscrowInv'
  <1> USE DEF EscrowInv
  <1>1. claimable' = claimable /\ escrowed' = escrowed
    BY DEF escrowVars
  <1>2. MoneyInv'
    BY PaymentsNextInv
  <1>3. ASSUME NEW id \in Ids, Stored(id)
        PROVE  Stored(id)' /\ groups'[id].payment_token = groups[id].payment_token
    <2>1. CASE Next
      BY <1>3, <2>1, TokensKept DEF MoneyInv, StoredIds, Stored
    <2>2. CASE UNCHANGED registryVars
      BY <1>3, <2>2 DEF registryVars, Stored
    <2> QED
      BY <2>1, <2>2 DEF PaymentsNext, Distribute, Transfer
  <1>4. LedgerInv'
    BY <1>1, <1>3 DEF LedgerInv, Stored
  <1>5. ASSUME NEW t \in Token, NEW id \in Ids
        PROVE  OwedIn(t, id)' = OwedIn(t, id)
    <2>1. CASE Stored(id)
      BY <1>1, <1>3, <2>1 DEF OwedIn
    <2>2. CASE ~Stored(id)
      BY <1>1, <2>2 DEF OwedIn, LedgerInv
    <2> QED
      BY <2>1, <2>2
  <1>6. \A t \in Token : OwedInAll(t)' = OwedInAll(t)
    BY <1>5 DEF OwedInAll
  <1>7. ASSUME NEW t \in Token
        PROVE  balance[t][Self] <= balance'[t][Self]
    <2>1. balance[t] \in [Holders -> Int] /\ balance[t][Self] \in Int
      BY HoldersFinite DEF MoneyInv, BalanceInv
    <2>2. CASE UNCHANGED balance
      BY <2>1, <2>2
    <2>3. ASSUME NEW id \in Ids, NEW from \in Address, NEW amount \in Amounts,
                 Distribute(id, from, amount)
          PROVE  balance'[t][Self] = balance[t][Self]
      <3>1. amount \in Nat /\ 1 \in Nat
        BY <2>3, PaymentsAssumption DEF Distribute
      <3>2. Payable(id, from, amount, 1) /\ Pay(id, from, amount, 1)
        BY <2>3 DEF Distribute
      <3>3. LET u == GroupOf(id).payment_token
            IN  /\ \A v \in Token \ {u} : balance'[v] = balance[v]
                /\ balance'[u][Self] = balance[u][Self]
        BY <3>1, <3>2, PayEffect
      <3> QED
        BY <3>3
    <2>4. ASSUME NEW u \in Token, NEW from \in Address, NEW to \in Holders,
                 NEW amount \in Amounts, Transfer(u, from, to, amount)
          PROVE  balance[t][Self] <= balance'[t][Self]
      <3>1. /\ balance' = [balance EXCEPT ![u] = Moved(balance[u], from, to, amount)]
            /\ amount \in Int /\ amount > 0 /\ from \in Holders /\ from # Self
        BY <2>4, PaymentsAssumption, HoldersFinite DEF Transfer
      <3>2. balance[u] \in [Holders -> Int] /\ DOMAIN balance = Token
        BY DEF MoneyInv, BalanceInv
      <3>3. Moved(balance[u], from, to, amount)[Self] =
                balance[u][Self] + (IF Self = to THEN amount ELSE 0)
                    - (IF Self = from THEN amount ELSE 0)
        BY <3>1, <3>2, HoldersFinite, MovedBalances
      <3> QED
        BY <2>1, <3>1, <3>2, <3>3
    <2> QED
      BY <2>1, <2>2, <2>3, <2>4 DEF PaymentsNext
  <1>8. ASSUME NEW t \in Token
        PROVE  OwedInAll(t)' <= balance'[t][Self]
    <2>1. OwedInAll(t) <= balance[t][Self] /\ OwedInAll(t)' = OwedInAll(t)
      BY <1>6 DEF Backed
    <2>2. balance[t][Self] \in Int /\ balance'[t][Self] \in Int
      BY <1>2, HoldersFinite DEF MoneyInv, BalanceInv
    <2>3. OwedInAll(t) \in Int
      <3>1. [id \in Ids |-> OwedIn(t, id)] \in [Ids -> Int]
        BY OwedType
      <3> QED
        BY <3>1, SumType, RegistryAssumption DEF OwedInAll
    <2> QED
      BY <1>7, <2>1, <2>2, <2>3
  <1> QED
    BY <1>2, <1>4, <1>8 DEF Backed

\* Changing the escrow of one stored group changes what its token owes.
LEMMA OneEscrow ==
    ASSUME EscrowInv, UNCHANGED registryVars, NEW id \in Ids, Stored(id),
           NEW total \in Nat, escrowed' = [escrowed EXCEPT ![id] = total],
           NEW t \in Token
    PROVE  /\ OwedInAll(t) \in Int
           /\ OwedInAll(t)' =
                IF t = groups[id].payment_token
                THEN OwedInAll(t) - escrowed[id] + total ELSE OwedInAll(t)
  <1> DEFINE f == [g \in Ids |-> OwedIn(t, g)]
             h == [g \in Ids |-> OwedIn(t, g)']
  <1>1. /\ UNCHANGED groups
        /\ escrowed \in [Ids -> Nat]
        /\ escrowed' \in [Ids -> Nat]
        /\ escrowed'[id] = total
        /\ \A g \in Ids \ {id} : escrowed'[g] = escrowed[g]
    BY DEF registryVars, EscrowInv, LedgerInv
  <1>2. f \in [Ids -> Int] /\ h \in [Ids -> Int]
    BY <1>1 DEF OwedIn, Stored
  <1>3. \A g \in Ids \ {id} : h[g] = f[g]
    BY <1>1 DEF OwedIn, Stored
  <1>4. /\ f[id] = IF t = groups[id].payment_token THEN escrowed[id] ELSE 0
        /\ h[id] = IF t = groups[id].payment_token THEN total ELSE 0
    BY <1>1 DEF OwedIn, Stored
  <1>5. SumFunction(f) = OwedInAll(t) /\ SumFunction(h) = OwedInAll(t)'
    BY DEF OwedInAll
  <1>6. escrowed[id] \in Int /\ total \in Int
    BY <1>1
  <1> HIDE DEF f, h
  <1>7. IsFiniteSet(Ids)
    BY RegistryAssumption
  <1>8. /\ SumFunction(f) \in Int
        /\ SumFunction(h) = SumFunction(f) - f[id] + h[id]
    BY <1>2, <1>3, <1>7, SumType, SumChange
  <1> QED
    BY <1>4, <1>5, <1>6, <1>8

\* Moving tokens between the contract and a holder.
LEMMA SelfMoved ==
    ASSUME NEW b \in [Holders -> Int], NEW from \in Holders, NEW to \in Holders,
           NEW amount \in Int
    PROVE  /\ Moved(b, from, to, amount) \in [Holders -> Int]
           /\ to = Self /\ from # Self
                => Moved(b, from, to, amount)[Self] = b[Self] + amount
           /\ to # Self /\ from = Self
                => Moved(b, from, to, amount)[Self] = b[Self] - amount
           /\ to = Self /\ from = Self
                => Moved(b, from, to, amount)[Self] = b[Self]
  <1>1. Self \in Holders /\ b[Self] \in Int
    BY HoldersFinite
  <1>2. Moved(b, from, to, amount) \in [Holders -> Int]
    BY MovedBalances
  <1>3. Moved(b, from, to, amount)[Self] =
            b[Self] + (IF Self = to THEN amount ELSE 0)
                    - (IF Self = from THEN amount ELSE 0)
    BY <1>1, MovedBalances
  <1> QED
    BY <1>1, <1>2, <1>3

LEMMA SelfMoves ==
    ASSUME BalanceInv, NEW t \in Token, NEW b, b \in [Holders -> Int],
           balance' = [balance EXCEPT ![t] = b]
    PROVE  /\ BalanceInv'
           /\ balance'[t] = b
           /\ \A u \in Token \ {t} : balance'[u][Self] = balance[u][Self]
           /\ \A u \in Token : balance[u][Self] \in Int
  <1>1. DOMAIN balance = Token
    BY DEF BalanceInv
  <1>2. BalanceInv'
    BY DEF BalanceInv
  <1>3. \A u \in Token : balance[u][Self] \in Int
    BY HoldersFinite DEF BalanceInv
  <1> QED
    BY <1>1, <1>2, <1>3

\* What a deposit credits: a way to owe the amount to the accounts.
LEMMA DepositEffect ==
    ASSUME EscrowInv, NEW id \in Ids, NEW from \in Address, NEW amount \in Amounts,
           Deposit(id, from, amount)
    PROVE  /\ amount \in Nat \ {0} /\ Stored(id)
           /\ GroupOf(id).payment_token = groups[id].payment_token
           /\ GroupOf(id).payment_token \in Token
           /\ \E c \in [Address -> 0 .. amount] :
                /\ SumFunction(c) = amount
                /\ claimable' = [claimable EXCEPT ![id] =
                                    [a \in Address |-> claimable[id][a] + c[a]]]
           /\ escrowed' = [escrowed EXCEPT ![id] = escrowed[id] + amount]
           /\ balance' = [balance EXCEPT ![GroupOf(id).payment_token] =
                    Moved(balance[GroupOf(id).payment_token], from, Self, amount)]
           /\ UNCHANGED registryVars
  <1> DEFINE members == GroupOf(id).members
             c == [a \in Address |-> ShareOf(members, amount, a)]
  <1>1. amount \in Nat \ {0}
    BY PaymentsAssumption DEF Deposit
  <1>2. Stored(id) /\ members # <<>>
    BY DEF Deposit, Payable
  <1>3. /\ members \in MemberSeqs /\ IsInjective(Addresses(members))
        /\ TotalPercentage(members) = Total
        /\ GroupOf(id).payment_token = groups[id].payment_token
        /\ GroupOf(id).payment_token \in Token
    BY <1>2, PaidMembers DEF EscrowInv, MoneyInv
  <1>4. /\ escrowed' = [escrowed EXCEPT ![id] = escrowed[id] + amount]
        /\ balance' = [balance EXCEPT ![GroupOf(id).payment_token] =
                Moved(balance[GroupOf(id).payment_token], from, Self, amount)]
        /\ claimable' = [claimable EXCEPT ![id] = Credited(id, members, amount)]
        /\ UNCHANGED registryVars
    BY DEF Deposit
  <1> HIDE DEF members
  <1>5. c \in [Address -> Nat] /\ SumFunction(c) = amount
    BY <1>1, <1>3, HoldersFinite, SharesAddUp
  <1>6. \A a \in Address : c[a] <= SumFunction(c)
    <2> HIDE DEF c
    <2> QED
      BY <1>5, HoldersFinite, SumNonNegative
  <1>7. c \in [Address -> 0 .. amount]
    <2> HIDE DEF c
    <2>1. \A a \in Address : c[a] \in 0 .. amount
      BY <1>1, <1>5, <1>6
    <2> QED
      BY <1>5, <2>1
  <1>8. Credited(id, members, amount) = [a \in Address |-> claimable[id][a] + c[a]]
    BY DEF Credited
  <1> HIDE DEF c
  <1> QED
    BY <1>1, <1>2, <1>3, <1>4, <1>5, <1>7, <1>8

LEMMA DepositStep ==
    ASSUME EscrowInv, NEW id \in Ids, NEW from \in Address, NEW amount \in Amounts,
           Deposit(id, from, amount)
    PROVE  EscrowInv'
  <1> DEFINE t == GroupOf(id).payment_token
             total == escrowed[id] + amount
  <1>1. PICK c \in [Address -> 0 .. amount] :
            /\ SumFunction(c) = amount
            /\ claimable' = [claimable EXCEPT ![id] =
                                [a \in Address |-> claimable[id][a] + c[a]]]
    BY DepositEffect
  <1>2. /\ amount \in Nat \ {0} /\ Stored(id)
        /\ t = groups[id].payment_token /\ t \in Token
        /\ escrowed' = [escrowed EXCEPT ![id] = total]
        /\ balance' = [balance EXCEPT ![t] = Moved(balance[t], from, Self, amount)]
        /\ UNCHANGED registryVars
    BY DepositEffect
  <1>3. /\ claimable \in [Ids -> [Address -> Nat]] /\ escrowed \in [Ids -> Nat]
        /\ SumFunction(claimable[id]) = escrowed[id]
    BY DEF EscrowInv, LedgerInv
  <1>4. total \in Nat /\ escrowed[id] \in Nat
    BY <1>2, <1>3
  <1> HIDE DEF t
  <1>5. /\ BalanceInv'
        /\ balance'[t][Self] = balance[t][Self] + amount
        /\ \A u \in Token \ {t} : balance'[u][Self] = balance[u][Self]
        /\ \A u \in Token : balance[u][Self] \in Int
    <2>1. BalanceInv /\ from \in Holders /\ Self \in Holders /\ amount \in Int
          /\ from # Self
      BY <1>2, HoldersFinite DEF EscrowInv, MoneyInv
    <2> DEFINE before == balance[t]
               after == Moved(before, from, Self, amount)
    <2>2. before \in [Holders -> Int]
      BY <1>2, <2>1 DEF BalanceInv
    <2>3. balance' = [balance EXCEPT ![t] = after]
      BY <1>2
    <2> HIDE DEF before
    <2>4. after \in [Holders -> Int] /\ after[Self] = before[Self] + amount
      BY <2>1, <2>2, SelfMoved
    <2> HIDE DEF after
    <2>5. /\ BalanceInv' /\ balance'[t] = after
          /\ \A u \in Token \ {t} : balance'[u][Self] = balance[u][Self]
          /\ \A u \in Token : balance[u][Self] \in Int
      BY <1>2, <2>1, <2>3, <2>4, SelfMoves
    <2> QED
      BY <2>4, <2>5 DEF before
  <1>6. MoneyInv'
    BY <1>2, <1>5, NextStorage, NextMembers DEF EscrowInv, MoneyInv
  <1>7. LedgerInv'
    <2> DEFINE d == [a \in Address |-> claimable[id][a] + c[a]]
    <2>1. /\ c \in [Address -> Int] /\ claimable[id] \in [Address -> Int]
          /\ d \in [Address -> Int] /\ d \in [Address -> Nat]
          /\ \A a \in Address : d[a] = claimable[id][a] + c[a]
      BY <1>2, <1>3
    <2>2. claimable' = [claimable EXCEPT ![id] = d]
      BY <1>1
    <2> HIDE DEF d, total
    <2>3. SumFunction(d) = SumFunction(claimable[id]) + SumFunction(c)
      BY <2>1, HoldersFinite, SumAdd
    <2>4. /\ claimable' \in [Ids -> [Address -> Nat]]
          /\ escrowed' \in [Ids -> Nat]
      BY <1>2, <1>3, <1>4, <2>1, <2>2
    <2>5. \A g \in Ids : SumFunction(claimable'[g]) = escrowed'[g]
      BY <1>1, <1>2, <1>3, <2>2, <2>3 DEF EscrowInv, LedgerInv, total
    <2>6. \A g \in Ids : Stored(g)' = Stored(g)
      BY <1>2 DEF registryVars, Stored
    <2>7. \A g \in Ids : ~Stored(g) => escrowed'[g] = 0
      BY <1>2, <1>3 DEF EscrowInv, LedgerInv
    <2> QED
      BY <2>4, <2>5, <2>6, <2>7 DEF LedgerInv
  <1>8. ASSUME NEW u \in Token
        PROVE  OwedInAll(u)' <= balance'[u][Self]
    <2>1. /\ OwedInAll(u) \in Int
          /\ OwedInAll(u)' = IF u = t THEN OwedInAll(u) - escrowed[id] + total
                                      ELSE OwedInAll(u)
      BY <1>2, <1>4, OneEscrow
    <2>2. OwedInAll(u) <= balance[u][Self]
      BY DEF EscrowInv, Backed
    <2> QED
      BY <1>2, <1>4, <1>5, <2>1, <2>2
  <1> QED
    BY <1>6, <1>7, <1>8 DEF EscrowInv, Backed

\* What a claim takes off the ledger.
LEMMA ClaimEffect ==
    ASSUME EscrowInv, NEW id \in Ids, NEW member \in Address, NEW to \in Holders,
           ClaimTo(id, member, to)
    PROVE  /\ Stored(id) /\ claimable[id][member] \in Nat \ {0}
           /\ GroupOf(id).payment_token = groups[id].payment_token
           /\ GroupOf(id).payment_token \in Token
           /\ escrowed[id] - claimable[id][member] \in Nat
           /\ claimable' = [claimable EXCEPT ![id] =
                                [claimable[id] EXCEPT ![member] = 0]]
           /\ escrowed' = [escrowed EXCEPT ![id] =
                                escrowed[id] - claimable[id][member]]
           /\ balance' = [balance EXCEPT ![GroupOf(id).payment_token] =
                    Moved(balance[GroupOf(id).payment_token], Self, to,
                          claimable[id][member])]
           /\ UNCHANGED registryVars
  <1> DEFINE paid == claimable[id][member]
             remaining == escrowed[id] - paid
             t == GroupOf(id).payment_token
  <1>1. /\ claimable \in [Ids -> [Address -> Nat]] /\ escrowed \in [Ids -> Nat]
        /\ claimable[id] \in [Address -> Nat]
        /\ SumFunction(claimable[id]) = escrowed[id]
    BY DEF EscrowInv, LedgerInv
  <1>2. /\ Stored(id) /\ paid > 0
        /\ claimable' = [claimable EXCEPT ![id][member] = 0]
        /\ escrowed' = [escrowed EXCEPT ![id] = IF remaining > 0 THEN remaining ELSE 0]
        /\ balance' = [balance EXCEPT ![t] = Moved(balance[t], Self, to, paid)]
        /\ UNCHANGED registryVars
    BY DEF ClaimTo, CanClaim, MayClaim, Settled
  <1>3. paid <= escrowed[id]
    BY <1>1, HoldersFinite, SumNonNegative
  <1>4. paid \in Nat \ {0} /\ remaining \in Nat
    BY <1>1, <1>2, <1>3
  <1>5. escrowed' = [escrowed EXCEPT ![id] = remaining]
    <2> HIDE DEF remaining
    <2>1. (IF remaining > 0 THEN remaining ELSE 0) = remaining
      BY <1>4
    <2> QED
      BY <1>2, <2>1
  <1>6. t = groups[id].payment_token /\ t \in Token
    <2>1. IsGroupRecord(groups[id])
      BY <1>2 DEF EscrowInv, MoneyInv, StorageInv, TypeOK, StoredIds
    <2> QED
      BY <2>1 DEF GroupOf, Decoded, IsGroupRecord
  <1>7. claimable' = [claimable EXCEPT ![id] = [claimable[id] EXCEPT ![member] = 0]]
    BY <1>2
  <1> QED
    BY <1>2, <1>4, <1>5, <1>6, <1>7

LEMMA ClaimStep ==
    ASSUME EscrowInv, NEW id \in Ids, NEW member \in Address, NEW to \in Holders,
           ClaimTo(id, member, to)
    PROVE  EscrowInv'
  <1> DEFINE paid == claimable[id][member]
             total == escrowed[id] - paid
             t == GroupOf(id).payment_token
             d == [claimable[id] EXCEPT ![member] = 0]
             gain == IF to = Self THEN 0 ELSE -paid
  <1>1. /\ Stored(id) /\ paid \in Nat \ {0}
        /\ t = groups[id].payment_token /\ t \in Token /\ total \in Nat
        /\ claimable' = [claimable EXCEPT ![id] = d]
        /\ escrowed' = [escrowed EXCEPT ![id] = total]
        /\ balance' = [balance EXCEPT ![t] = Moved(balance[t], Self, to, paid)]
        /\ UNCHANGED registryVars
    BY ClaimEffect
  <1>2. /\ claimable \in [Ids -> [Address -> Nat]] /\ escrowed \in [Ids -> Nat]
        /\ claimable[id] \in [Address -> Nat] /\ escrowed[id] \in Nat
        /\ SumFunction(claimable[id]) = escrowed[id]
    BY DEF EscrowInv, LedgerInv
  <1>3. /\ d \in [Address -> Int] /\ d \in [Address -> Nat] /\ d[member] = 0
        /\ claimable[id] \in [Address -> Int]
        /\ \A a \in Address \ {member} : d[a] = claimable[id][a]
    BY <1>2
  <1> HIDE DEF t, d
  <1>4. SumFunction(d) = SumFunction(claimable[id]) - paid + 0
    BY <1>3, HoldersFinite, SumChange
  <1> HIDE DEF paid
  <1>5. /\ BalanceInv'
        /\ balance'[t][Self] = balance[t][Self] + gain
        /\ \A u \in Token \ {t} : balance'[u][Self] = balance[u][Self]
        /\ \A u \in Token : balance[u][Self] \in Int
        /\ gain \in Int /\ -paid <= gain
    <2>1. BalanceInv /\ Self \in Holders /\ paid \in Int
      BY <1>1, HoldersFinite DEF EscrowInv, MoneyInv
    <2>2. gain \in Int /\ -paid <= gain
      BY <1>1, <2>1
    <2> DEFINE before == balance[t]
               after == Moved(before, Self, to, paid)
    <2>3. before \in [Holders -> Int] /\ before[Self] \in Int
      BY <1>1, <2>1 DEF BalanceInv
    <2>4. balance' = [balance EXCEPT ![t] = after]
      BY <1>1
    <2> HIDE DEF before
    <2>5. /\ after \in [Holders -> Int]
          /\ to # Self => after[Self] = before[Self] - paid
          /\ to = Self => after[Self] = before[Self]
      BY <2>1, <2>3, SelfMoved
    <2> HIDE DEF after
    <2>6. after[Self] = before[Self] + gain
      BY <2>1, <2>3, <2>5
    <2>7. /\ BalanceInv' /\ balance'[t] = after
          /\ \A u \in Token \ {t} : balance'[u][Self] = balance[u][Self]
          /\ \A u \in Token : balance[u][Self] \in Int
      BY <1>1, <2>1, <2>4, <2>5, SelfMoves
    <2> HIDE DEF gain
    <2> QED
      BY <2>2, <2>6, <2>7 DEF before
  <1> HIDE DEF gain
  <1>6. MoneyInv'
    BY <1>1, <1>5, NextStorage, NextMembers DEF EscrowInv, MoneyInv
  <1>7. LedgerInv'
    <2>1. SumFunction(d) = total
      BY <1>1, <1>2, <1>4 
    <2> HIDE DEF total
    <2>2. /\ claimable' \in [Ids -> [Address -> Nat]]
          /\ escrowed' \in [Ids -> Nat]
      BY <1>1, <1>2, <1>3
    <2>3. \A g \in Ids : SumFunction(claimable'[g]) = escrowed'[g]
      BY <1>1, <1>2, <2>1 DEF EscrowInv, LedgerInv
    <2>4. \A g \in Ids : Stored(g)' = Stored(g)
      BY <1>1 DEF registryVars, Stored
    <2>5. \A g \in Ids : ~Stored(g) => escrowed'[g] = 0
      BY <1>1, <1>2 DEF EscrowInv, LedgerInv
    <2> QED
      BY <2>2, <2>3, <2>4, <2>5 DEF LedgerInv
  <1>8. ASSUME NEW u \in Token
        PROVE  OwedInAll(u)' <= balance'[u][Self]
    <2>1. /\ OwedInAll(u) \in Int
          /\ OwedInAll(u)' = IF u = t THEN OwedInAll(u) - escrowed[id] + total
                                      ELSE OwedInAll(u)
      <3> HIDE DEF total
      <3> QED
        BY <1>1, OneEscrow
    <2>2. OwedInAll(u) <= balance[u][Self]
      BY DEF EscrowInv, Backed
    <2> QED
      BY <1>1, <1>2, <1>5, <2>1, <2>2
  <1> QED
    BY <1>6, <1>7, <1>8 DEF EscrowInv, Backed

LEMMA InitEscrow == EscrowInit => EscrowInv
  <1> SUFFICES ASSUME EscrowInit PROVE EscrowInv
    OBVIOUS
  <1>1. MoneyInv
    BY InitInv, InitMembers, InitBalance DEF EscrowInit, MoneyInv
  <1>2. LedgerInv
    <2>1. SumFunction([a \in Address |-> 0]) = 0
      BY HoldersFinite, SumOfZeros
    <2> QED
      BY <2>1 DEF EscrowInit, LedgerInv
  <1>3. ASSUME NEW t \in Token
        PROVE  OwedInAll(t) <= balance[t][Self]
    <2>1. [id \in Ids |-> OwedIn(t, id)] = [id \in Ids |-> 0]
      BY DEF OwedIn, EscrowInit
    <2>2. SumFunction([id \in Ids |-> 0]) = 0
      BY RegistryAssumption, SumOfZeros
    <2>3. balance[t][Self] = 0
      BY DEF EscrowInit, PaymentsInit
    <2> QED
      BY <2>1, <2>2, <2>3 DEF OwedInAll
  <1> QED
    BY <1>1, <1>2, <1>3 DEF EscrowInv, Backed

LEMMA SelfAndAddresses == \A a \in Address : a \in Holders
  BY DEF Holders

LEMMA EscrowNextInv ==
    ASSUME EscrowInv, [EscrowNext]_allEscrowVars
    PROVE  EscrowInv'
  <1>1. CASE UNCHANGED allEscrowVars
    BY <1>1 DEF allEscrowVars, escrowVars, registryVars, EscrowInv, MoneyInv,
                StorageInv, TypeOK, IndexesAgree, MembersInv, BalanceInv,
                LedgerInv, Backed, OwedInAll, OwedIn, StoredIds, Stored
  <1>2. ASSUME EscrowStep PROVE EscrowInv'
    BY <1>2, DepositStep, ClaimStep, SelfAndAddresses DEF EscrowStep, Claim
  <1> QED
    BY <1>1, <1>2, PaymentsKeepEscrow DEF EscrowNext

LEMMA EscrowInvariant == EscrowSpec => []EscrowInv
  BY InitEscrow, EscrowNextInv, PTL DEF EscrowSpec

(* What the groups paid in one token are owed together is always in the    *)
(* contract's custody: no deposit, claim, distribution, migration or edit  *)
(* spends another group's escrow.                                          *)
THEOREM EscrowIsBacked == EscrowSpec => []EscrowBacked
  BY EscrowInvariant, OwedIsBacked, PTL

(* "For every group, the sum of all claimable balances equals              *)
(* total_escrowed" (base/escrow.rs, Accounting invariant), whatever        *)
(* deposits, claims and edits came before, and nothing is owed by a        *)
(* group that is not stored.                                               *)
AccountingHolds ==
    \A id \in Ids :
        /\ SumFunction(claimable[id]) = escrowed[id]
        /\ ~Stored(id) => escrowed[id] = 0

THEOREM AccountingAlwaysHolds == EscrowSpec => []AccountingHolds
  <1>1. EscrowInv => AccountingHolds
    BY DEF EscrowInv, LedgerInv, AccountingHolds
  <1> QED
    BY <1>1, EscrowInvariant, PTL

\* Who has a credit has it in a stored group, in its total.
LEMMA CreditStored ==
    ASSUME EscrowInv, NEW id \in Ids, NEW a \in Address, claimable[id][a] > 0
    PROVE  Stored(id) /\ claimable[id][a] <= escrowed[id]
  <1>1. /\ claimable[id] \in [Address -> Nat] /\ escrowed[id] \in Nat
        /\ SumFunction(claimable[id]) = escrowed[id]
        /\ ~Stored(id) => escrowed[id] = 0
    BY DEF EscrowInv, LedgerInv
  <1>2. claimable[id][a] \in Nat /\ claimable[id][a] <= escrowed[id]
    BY <1>1, HoldersFinite, SumNonNegative
  <1> QED
    BY <1>1, <1>2

(* A credit belongs to a stored group and lies, whole, in the contract's   *)
(* balance of the group's token, so that nothing a claim can fail on is    *)
(* left but the pause: CreditorsCanClaim, its ENABLED spelled out.         *)
CreditsCovered ==
    \A id \in Ids, a \in Address :
        claimable[id][a] > 0 =>
            /\ Stored(id)
            /\ claimable[id][a] <= balance[GroupOf(id).payment_token][Self]
            /\ NotPaused => CanClaim(id, a)

THEOREM CreditsAreCovered == EscrowSpec => []CreditsCovered
  <1>1. ASSUME EscrowInv, NEW id \in Ids, NEW a \in Address,
               claimable[id][a] > 0
        PROVE  /\ Stored(id)
               /\ claimable[id][a] <= balance[GroupOf(id).payment_token][Self]
               /\ NotPaused => CanClaim(id, a)
    <2> DEFINE t == GroupOf(id).payment_token
               f == [g \in Ids |-> OwedIn(t, g)]
    <2>1. /\ claimable[id] \in [Address -> Nat] /\ escrowed[id] \in Nat
          /\ SumFunction(claimable[id]) = escrowed[id]
          /\ ~Stored(id) => escrowed[id] = 0
      BY <1>1 DEF EscrowInv, LedgerInv
    <2>2. claimable[id][a] \in Nat /\ claimable[id][a] <= escrowed[id]
      BY <2>1, HoldersFinite, SumNonNegative
    <2>3. Stored(id)
      BY <1>1, <2>1, <2>2
    <2>4. t = groups[id].payment_token /\ t \in Token
      <3>1. IsGroupRecord(groups[id])
        BY <1>1, <2>3 DEF EscrowInv, MoneyInv, StorageInv, TypeOK, StoredIds
      <3> QED
        BY <3>1 DEF GroupOf, Decoded, IsGroupRecord
    <2>5. f \in [Ids -> Nat] /\ IsFiniteSet(Ids)
      BY <1>1, OwedType, RegistryAssumption DEF EscrowInv
    <2>6. f[id] = escrowed[id] /\ SumFunction(f) = OwedInAll(t)
      BY <2>3, <2>4 DEF OwedIn, OwedInAll
    <2> HIDE DEF f
    <2>7. f[id] <= SumFunction(f) /\ SumFunction(f) \in Nat
      BY <2>5, SumNonNegative
    <2>8. OwedInAll(t) <= balance[t][Self] /\ balance[t][Self] \in Int
      BY <1>1, <2>4, HoldersFinite
         DEF EscrowInv, Backed, MoneyInv, BalanceInv
    <2> HIDE DEF t
    <2>9. claimable[id][a] <= balance[t][Self]
      BY <2>1, <2>2, <2>6, <2>7, <2>8
    <2>10. balance[t][Self] >= claimable[id][a]
      BY <2>2, <2>8, <2>9
    <2> QED
      BY <1>1, <2>3, <2>9, <2>10 DEF t, CanClaim, MayClaim
  <1>2. EscrowInv => CreditsCovered
    BY <1>1 DEF CreditsCovered
  <1> QED
    BY <1>2, EscrowInvariant, PTL

-----------------------------------------------------------------------------
(* The escrow implements the ledger: a deposit credits shares that add up  *)
(* to its amount, a claim pays one account in full, and nothing else       *)
(* touches what is owed.                                                   *)

\* The ledger's sums are the escrow's.
LEMMA LedgerSum ==
    ASSUME NEW f
    PROVE  Ledger!SumFunction(f) = SumFunction(f)
  BY DEF SumFunction, SumFunctionOnSet, FoldFunctionOnSet, MapThenFoldSet,
         Ledger!SumFunction, Ledger!SumFunctionOnSet, Ledger!FoldFunctionOnSet,
         Ledger!MapThenFoldSet

LEMMA DepositCredits ==
    ASSUME EscrowInv, NEW id \in Ids, NEW from \in Address, NEW amount \in Amounts,
           Deposit(id, from, amount)
    PROVE  Ledger!Next
  <1>1. amount \in {m \in Amounts : m > 0}
    BY DepositEffect
  <1>2. escrowed' = [escrowed EXCEPT ![id] = escrowed[id] + amount]
    BY DepositEffect
  <1>3. PICK c \in [Address -> 0 .. amount] :
            /\ SumFunction(c) = amount
            /\ claimable' = [claimable EXCEPT ![id] =
                                [a \in Address |-> claimable[id][a] + c[a]]]
    BY DepositEffect
  <1>4. c \in Ledger!Credits(amount)
    BY <1>3, LedgerSum DEF Ledger!Credits
  <1>5. Ledger!Credit(id, amount)
    BY <1>2, <1>3, <1>4 DEF Ledger!Credit
  <1> QED
    BY <1>1, <1>5 DEF Ledger!Next

LEMMA ClaimPays ==
    ASSUME EscrowInv, NEW id \in Ids, NEW member \in Address, NEW to \in Holders,
           ClaimTo(id, member, to)
    PROVE  Ledger!Next
  <1>1. /\ claimable[id][member] \in Nat \ {0}
        /\ claimable' = [claimable EXCEPT ![id] =
                                [claimable[id] EXCEPT ![member] = 0]]
        /\ escrowed' = [escrowed EXCEPT ![id] =
                                escrowed[id] - claimable[id][member]]
    BY ClaimEffect
  <1>2. claimable' = [claimable EXCEPT ![id][member] = 0]
    BY <1>1
  <1>3. claimable[id][member] > 0
    BY <1>1
  <1>4. Ledger!PayInFull(id, member)
    BY <1>1, <1>2, <1>3 DEF Ledger!PayInFull
  <1> QED
    BY <1>4 DEF Ledger!Next

(* The escrow is a ledger of debts: only deposits raise what anyone is     *)
(* owed, by the deposited amount in all, and only paying a debt in full    *)
(* lowers it.                                                              *)
THEOREM EscrowIsALedger == EscrowSpec => ImplementsLedger
  <1>1. EscrowInit => Ledger!Init
    BY DEF EscrowInit, Ledger!Init
  <1>2. ASSUME EscrowInv, [EscrowNext]_allEscrowVars
        PROVE  [Ledger!Next]_(Ledger!ledgerVars)
    <2>1. CASE EscrowStep
      BY <1>2, <2>1, DepositCredits, ClaimPays, SelfAndAddresses
         DEF EscrowStep, Claim
    <2>2. CASE UNCHANGED escrowVars
      BY <2>2 DEF escrowVars, Ledger!ledgerVars
    <2> QED
      BY <1>2, <2>1, <2>2 DEF EscrowNext, allEscrowVars
  <1> QED
    BY <1>1, <1>2, EscrowInvariant, PTL
       DEF EscrowSpec, ImplementsLedger, Ledger!Spec

-----------------------------------------------------------------------------
(* The time to live of the escrow's entries.                               *)

TtlInv ==
    /\ creditTtl \in [Ids -> [Address -> Nat]]
    /\ totalTtl \in [Ids -> Nat]
    /\ groupTtl \in [Ids -> Nat]
    /\ instanceTtl \in Nat

AgeInv == creditAge \in [Ids -> [Address -> Nat]]

\* What is left to an entry of what a deposit made sure of.
Lasts(ttl, age) == ttl + age >= ESCROW_TTL_THRESHOLD

\* A claim's entries last until the member's credit is as old as the
\* threshold.
CreditLasts(id, a) ==
    claimable[id][a] > 0 /\ creditAge[id][a] < ESCROW_TTL_THRESHOLD =>
        /\ Lasts(creditTtl[id][a], creditAge[id][a])
        /\ escrowed[id] > 0 => Lasts(totalTtl[id], creditAge[id][a])
        /\ Lasts(groupTtl[id], creditAge[id][a])
        /\ Lasts(instanceTtl, creditAge[id][a])

WindowInv == \A id \in Ids, a \in Address : CreditLasts(id, a)

LifetimeInv == EscrowInv /\ TtlInv

LEMMA TtlAnswers ==
    ASSUME NEW ttl \in Nat, NEW exists \in BOOLEAN
    PROVE  /\ Extended(ttl) \in Nat /\ Extended(ttl) >= ESCROW_TTL_THRESHOLD
           /\ Written(exists, ttl) \in Nat
           /\ Written(exists, ttl) >= ESCROW_TTL_THRESHOLD
           /\ Restored(exists, ttl) \in Nat
           /\ Less(ttl) \in Nat
  BY LifetimeAssumption DEF Extended, Written, Restored, Less

LEMMA DepositTtl ==
    ASSUME LifetimeInv, NEW id \in Ids, NEW from \in Address, NEW amount \in Amounts,
           LifetimeDeposit(id, from, amount)
    PROVE  /\ TtlInv'
           /\ \A a \in Address : claimable'[id][a] # claimable[id][a] =>
                creditTtl'[id][a] >= ESCROW_TTL_THRESHOLD
           /\ totalTtl'[id] >= ESCROW_TTL_THRESHOLD
           /\ groupTtl'[id] >= ESCROW_TTL_THRESHOLD
           /\ instanceTtl' >= ESCROW_TTL_THRESHOLD
  <1> DEFINE old == creditTtl[id]
             new == [a \in Address |->
                        IF claimable'[id][a] # claimable[id][a]
                        THEN Written(claimable[id][a] > 0, old[a]) ELSE old[a]]
  <1>1. /\ creditTtl \in [Ids -> [Address -> Nat]] /\ old \in [Address -> Nat]
        /\ totalTtl \in [Ids -> Nat] /\ groupTtl \in [Ids -> Nat]
        /\ instanceTtl \in Nat
    BY DEF LifetimeInv, TtlInv
  <1>2. /\ creditTtl' = [creditTtl EXCEPT ![id] = new]
        /\ totalTtl' = [totalTtl EXCEPT ![id] =
                            Written(escrowed[id] > 0, totalTtl[id])]
        /\ groupTtl' = [groupTtl EXCEPT ![id] = Extended(groupTtl[id])]
        /\ instanceTtl' = Extended(instanceTtl)
    BY DEF LifetimeDeposit, BumpGroup
  <1>3. ASSUME NEW a \in Address
        PROVE  /\ new[a] \in Nat
               /\ claimable'[id][a] # claimable[id][a] =>
                    new[a] >= ESCROW_TTL_THRESHOLD
    <2>1. old[a] \in Nat /\ (claimable[id][a] > 0) \in BOOLEAN
      BY <1>1
    <2>2. /\ Written(claimable[id][a] > 0, old[a]) \in Nat
          /\ Written(claimable[id][a] > 0, old[a]) >= ESCROW_TTL_THRESHOLD
      BY <2>1, TtlAnswers
    <2> QED
      BY <2>1, <2>2
  <1>4. new \in [Address -> Nat]
    BY <1>3
  <1>5. /\ Written(escrowed[id] > 0, totalTtl[id]) \in Nat
        /\ Written(escrowed[id] > 0, totalTtl[id]) >= ESCROW_TTL_THRESHOLD
    <2>1. (escrowed[id] > 0) \in BOOLEAN /\ totalTtl[id] \in Nat
      BY <1>1
    <2> QED
      BY <2>1, TtlAnswers
  <1>6. /\ Extended(groupTtl[id]) \in Nat
        /\ Extended(groupTtl[id]) >= ESCROW_TTL_THRESHOLD
        /\ Extended(instanceTtl) \in Nat
        /\ Extended(instanceTtl) >= ESCROW_TTL_THRESHOLD
    BY <1>1, TtlAnswers
  <1> HIDE DEF old, new
  <1>7. creditTtl'[id] = new
    BY <1>1, <1>2
  <1>8. TtlInv'
    BY <1>1, <1>2, <1>4, <1>5, <1>6 DEF TtlInv
  <1> QED
    BY <1>1, <1>2, <1>3, <1>5, <1>6, <1>7, <1>8

LEMMA OtherTtl ==
    ASSUME LifetimeInv, [LifetimeNext]_lifetimeVars,
           \A id \in Ids, from \in Address, n \in Amounts :
                ~LifetimeDeposit(id, from, n)
    PROVE  TtlInv'
  <1>1. /\ creditTtl \in [Ids -> [Address -> Nat]]
        /\ totalTtl \in [Ids -> Nat] /\ groupTtl \in [Ids -> Nat]
        /\ instanceTtl \in Nat
    BY DEF LifetimeInv, TtlInv
  <1>2. ASSUME NEW id \in Ids, NEW member \in Address, NEW to \in Holders,
               LifetimeClaim(id, member, to)
        PROVE  TtlInv'
    <2> DEFINE left == IF escrowed'[id] > 0 THEN Extended(totalTtl[id]) ELSE 0
    <2>1. /\ creditTtl' = [creditTtl EXCEPT ![id][member] = 0]
          /\ totalTtl' = [totalTtl EXCEPT ![id] = left]
          /\ groupTtl' = [groupTtl EXCEPT ![id] = Extended(groupTtl[id])]
          /\ instanceTtl' = Extended(instanceTtl)
      BY <1>2 DEF LifetimeClaim, BumpGroup
    <2>2. /\ Extended(groupTtl[id]) \in Nat /\ Extended(instanceTtl) \in Nat
          /\ left \in Nat
      BY <1>1, TtlAnswers
    <2> HIDE DEF left
    <2>3. creditTtl' \in [Ids -> [Address -> Nat]]
      BY <1>1, <2>1
    <2> QED
      BY <1>1, <2>1, <2>2, <2>3 DEF TtlInv
  <1>3. CASE LifetimeRegistry
    <2>1. /\ UNCHANGED <<creditTtl, totalTtl, instanceTtl>>
          /\ groupTtl' = [id \in Ids |-> IF Stored(id)' /\ ~Stored(id)
                                         THEN MinPersistentTtl ELSE groupTtl[id]]
      BY <1>3 DEF LifetimeRegistry
    <2>2. groupTtl' \in [Ids -> Nat]
      BY <1>1, <2>1, LifetimeAssumption
    <2> QED
      BY <1>1, <2>1, <2>2 DEF TtlInv
  <1>4. CASE Elapse
    <2>1. /\ creditTtl' \in [Ids -> [Address -> Nat]]
          /\ totalTtl' \in [Ids -> Nat]
          /\ groupTtl' \in [Ids -> Nat]
          /\ instanceTtl' \in Nat
      BY <1>1, <1>4 DEF Elapse, Less
    <2> QED
      BY <2>1 DEF TtlInv
  <1>5. ASSUME NEW id \in Ids, Restore(id)
        PROVE  TtlInv'
    <2> DEFINE old == creditTtl[id]
               new == [a \in Address |-> Restored(claimable[id][a] > 0, old[a])]
    <2>1. \A exists, ttl \in Nat : Restored(exists, ttl) \in Nat
      BY LifetimeAssumption DEF Restored
    <2>2. /\ groupTtl' = [groupTtl EXCEPT ![id] = Restored(Stored(id), groupTtl[id])]
          /\ instanceTtl' = Restored(TRUE, instanceTtl)
          /\ totalTtl' = [totalTtl EXCEPT ![id] =
                            Restored(escrowed[id] > 0, totalTtl[id])]
          /\ creditTtl' = [creditTtl EXCEPT ![id] = new]
      BY <1>5 DEF Restore
    <2>3. new \in [Address -> Nat] /\ Restored(TRUE, instanceTtl) \in Nat
          /\ Restored(Stored(id), groupTtl[id]) \in Nat
          /\ Restored(escrowed[id] > 0, totalTtl[id]) \in Nat
      BY <1>1, LifetimeAssumption DEF Restored
    <2> HIDE DEF new
    <2> QED
      BY <1>1, <2>2, <2>3 DEF TtlInv
  <1>6. CASE UNCHANGED ttlVars
    BY <1>1, <1>6 DEF ttlVars, TtlInv
  <1> QED
    BY <1>2, <1>3, <1>4, <1>5, <1>6
       DEF LifetimeNext, LifetimePayments, lifetimeVars, ttlVars

\* With its entries' lifetimes the escrow makes only the escrow's steps.
LEMMA LifetimeSteps ==
    ASSUME [LifetimeNext]_lifetimeVars
    PROVE  [EscrowNext]_allEscrowVars
  <1>1. CASE LifetimeRegistry
    BY <1>1 DEF LifetimeRegistry, EscrowNext, PaymentsNext
  <1>2. CASE LifetimePayments
    BY <1>2 DEF LifetimePayments, EscrowNext, PaymentsNext
  <1>3. ASSUME NEW id \in Ids, NEW from \in Address, NEW n \in Amounts,
               LifetimeDeposit(id, from, n)
        PROVE  EscrowNext
    BY <1>3 DEF LifetimeDeposit, EscrowNext, EscrowStep
  <1>4. ASSUME NEW id \in Ids, NEW member \in Address, NEW to \in Holders,
               LifetimeClaim(id, member, to)
        PROVE  EscrowNext
    BY <1>4 DEF LifetimeClaim, EscrowNext, EscrowStep
  <1> QED
    BY <1>1, <1>2, <1>3, <1>4 DEF LifetimeNext, Elapse, Restore, lifetimeVars

(* Archival takes entries away until they are restored and never changes   *)
(* what they hold: whatever the escrow guarantees holds with lifetimes.    *)
THEOREM LifetimeIsEscrow == LifetimeSpec => EscrowSpec
  <1>1. LifetimeInit => EscrowInit
    BY DEF LifetimeInit
  <1> QED
    BY <1>1, LifetimeSteps, PTL DEF LifetimeSpec, EscrowSpec

LEMMA LifetimeInvariant == LifetimeSpec => []LifetimeInv
  <1>1. LifetimeInit => TtlInv
    BY LifetimeAssumption DEF LifetimeInit, TtlInv
  <1>2. ASSUME EscrowInv, TtlInv, [LifetimeNext]_lifetimeVars
        PROVE  TtlInv'
    BY <1>2, DepositTtl, OtherTtl DEF LifetimeInv
  <1>3. LifetimeSpec => []EscrowInv
    BY LifetimeIsEscrow, EscrowInvariant, PTL
  <1> QED
    BY <1>1, <1>2, <1>3, PTL DEF LifetimeSpec, LifetimeInv

LEMMA AgeTyped ==
    ASSUME AgeInv, [LifetimeNext]_lifetimeVars
    PROVE  AgeInv'
  <1>1. ASSUME NEW id \in Ids, NEW new \in [Address -> Nat],
               creditAge' = [creditAge EXCEPT ![id] = new]
        PROVE  AgeInv'
    BY <1>1 DEF AgeInv
  <1>2. ASSUME NEW id \in Ids, NEW from \in Address, NEW n \in Amounts,
               LifetimeDeposit(id, from, n)
        PROVE  AgeInv'
    <2> DEFINE old == creditAge[id]
               new == [a \in Address |->
                        IF claimable'[id][a] # claimable[id][a] THEN 0 ELSE old[a]]
    <2>1. creditAge' = [creditAge EXCEPT ![id] = new]
      BY <1>2 DEF LifetimeDeposit
    <2>2. new \in [Address -> Nat]
      BY DEF AgeInv
    <2> QED
      BY <1>1, <2>1, <2>2
  <1>3. ASSUME NEW id \in Ids, NEW member \in Address, NEW to \in Holders,
               LifetimeClaim(id, member, to)
        PROVE  AgeInv'
    <2>1. creditAge' = [creditAge EXCEPT ![id][member] = 0]
      BY <1>3 DEF LifetimeClaim
    <2> QED
      BY <2>1 DEF AgeInv
  <1>4. CASE Elapse
    <2>1. creditAge' = [id \in Ids |-> [a \in Address |->
                            Older(claimable[id][a], creditAge[id][a])]]
      BY <1>4 DEF Elapse
    <2>2. \A age \in Nat : \A credit : Older(credit, age) \in Nat
      BY DEF Older
    <2> QED
      BY <2>1, <2>2 DEF AgeInv
  <1>5. CASE UNCHANGED creditAge
    BY <1>5 DEF AgeInv
  <1> QED
    BY <1>2, <1>3, <1>4, <1>5
       DEF LifetimeNext, LifetimeRegistry, LifetimePayments, Restore, lifetimeVars

\* Entries that last no less than they did, of a credit as old.
LEMMA WindowKept ==
    ASSUME TtlInv, AgeInv, NEW id \in Ids, NEW a \in Address, CreditLasts(id, a),
           TtlInv', claimable'[id][a] = claimable[id][a],
           creditAge'[id][a] = creditAge[id][a],
           creditTtl'[id][a] >= creditTtl[id][a],
           escrowed'[id] > 0 => \/ escrowed[id] > 0 /\ totalTtl'[id] >= totalTtl[id]
                                \/ totalTtl'[id] >= ESCROW_TTL_THRESHOLD,
           \/ groupTtl'[id] >= groupTtl[id]
           \/ groupTtl'[id] >= ESCROW_TTL_THRESHOLD,
           \/ instanceTtl' >= instanceTtl
           \/ instanceTtl' >= ESCROW_TTL_THRESHOLD
    PROVE  CreditLasts(id, a)'
  <1>1. /\ creditAge[id][a] \in Nat /\ creditTtl[id][a] \in Nat
        /\ creditTtl'[id][a] \in Nat /\ totalTtl[id] \in Nat /\ totalTtl'[id] \in Nat
        /\ groupTtl[id] \in Nat /\ groupTtl'[id] \in Nat
        /\ instanceTtl \in Nat /\ instanceTtl' \in Nat
        /\ ESCROW_TTL_THRESHOLD \in Nat
    BY LifetimeAssumption DEF TtlInv, AgeInv
  <1> QED
    BY <1>1 DEF CreditLasts, Lasts

LEMMA DepositWindow ==
    ASSUME LifetimeInv, AgeInv, WindowInv,
           NEW g \in Ids, NEW from \in Address, NEW n \in Amounts,
           LifetimeDeposit(g, from, n)
    PROVE  WindowInv'
  <1>1. /\ TtlInv /\ TtlInv'
        /\ \A a \in Address : claimable'[g][a] # claimable[g][a] =>
                creditTtl'[g][a] >= ESCROW_TTL_THRESHOLD
        /\ totalTtl'[g] >= ESCROW_TTL_THRESHOLD
        /\ groupTtl'[g] >= ESCROW_TTL_THRESHOLD
        /\ instanceTtl' >= ESCROW_TTL_THRESHOLD
    BY DepositTtl DEF LifetimeInv
  <1> DEFINE ttls == [a \in Address |->
                        IF claimable'[g][a] # claimable[g][a]
                        THEN Written(claimable[g][a] > 0, creditTtl[g][a])
                        ELSE creditTtl[g][a]]
             ages == [a \in Address |->
                        IF claimable'[g][a] # claimable[g][a] THEN 0
                        ELSE creditAge[g][a]]
  <1>2. /\ creditTtl' = [creditTtl EXCEPT ![g] = ttls]
        /\ creditAge' = [creditAge EXCEPT ![g] = ages]
        /\ totalTtl' = [totalTtl EXCEPT ![g] =
                            Written(escrowed[g] > 0, totalTtl[g])]
        /\ groupTtl' = [groupTtl EXCEPT ![g] = Extended(groupTtl[g])]
    BY DEF LifetimeDeposit, BumpGroup
  <1>3. \E c, m : /\ claimable' = [claimable EXCEPT ![g] = c]
                  /\ escrowed' = [escrowed EXCEPT ![g] = m]
    BY DEF LifetimeDeposit, Deposit
  <1>4. /\ claimable \in [Ids -> [Address -> Nat]] /\ escrowed \in [Ids -> Nat]
        /\ creditTtl \in [Ids -> [Address -> Nat]]
        /\ creditAge \in [Ids -> [Address -> Nat]]
        /\ totalTtl \in [Ids -> Nat] /\ groupTtl \in [Ids -> Nat]
    BY <1>1 DEF LifetimeInv, EscrowInv, LedgerInv, TtlInv, AgeInv
  <1>5. creditTtl'[g] = ttls /\ creditAge'[g] = ages
    BY <1>2, <1>4
  <1>6. ASSUME NEW id \in Ids, id # g
        PROVE  /\ creditTtl'[id] = creditTtl[id] /\ creditAge'[id] = creditAge[id]
               /\ totalTtl'[id] = totalTtl[id] /\ groupTtl'[id] = groupTtl[id]
               /\ claimable'[id] = claimable[id] /\ escrowed'[id] = escrowed[id]
    BY <1>2, <1>3, <1>4, <1>6
  <1>7. ASSUME NEW id \in Ids, NEW a \in Address, id # g PROVE CreditLasts(id, a)'
    <2>1. CreditLasts(id, a)
      BY DEF WindowInv
    <2>2. /\ creditTtl[id][a] \in Nat /\ totalTtl[id] \in Nat /\ groupTtl[id] \in Nat
      BY <1>4
    <2> QED
      BY <1>1, <1>6, <1>7, <2>1, <2>2, WindowKept
  <1>8. ASSUME NEW a \in Address PROVE CreditLasts(g, a)'
    <2>1. CASE claimable'[g][a] = claimable[g][a]
      <3>1. /\ creditTtl'[g][a] = creditTtl[g][a] /\ creditAge'[g][a] = creditAge[g][a]
            /\ creditTtl[g][a] \in Nat
        BY <1>4, <1>5, <2>1
      <3>2. CreditLasts(g, a)
        BY DEF WindowInv
      <3> QED
        BY <1>1, <2>1, <3>1, <3>2, WindowKept
    <2>2. CASE claimable'[g][a] # claimable[g][a]
      <3>1. creditAge'[g][a] = 0 /\ creditTtl'[g][a] >= ESCROW_TTL_THRESHOLD
        BY <1>1, <1>5, <2>2
      <3>2. /\ creditTtl'[g][a] \in Nat /\ totalTtl'[g] \in Nat
            /\ groupTtl'[g] \in Nat /\ instanceTtl' \in Nat
        BY <1>1 DEF TtlInv
      <3> QED
        BY <1>1, <3>1, <3>2 DEF CreditLasts, Lasts
    <2> QED
      BY <2>1, <2>2
  <1> QED
    BY <1>7, <1>8 DEF WindowInv

LEMMA ClaimWindow ==
    ASSUME LifetimeInv, LifetimeInv', AgeInv, WindowInv,
           NEW g \in Ids, NEW member \in Address, NEW to \in Holders,
           LifetimeClaim(g, member, to)
    PROVE  WindowInv'
  <1> DEFINE left == IF escrowed'[g] > 0 THEN Extended(totalTtl[g]) ELSE 0
  <1>1. /\ creditTtl' = [creditTtl EXCEPT ![g][member] = 0]
        /\ creditAge' = [creditAge EXCEPT ![g][member] = 0]
        /\ totalTtl' = [totalTtl EXCEPT ![g] = left]
        /\ groupTtl' = [groupTtl EXCEPT ![g] = Extended(groupTtl[g])]
        /\ instanceTtl' = Extended(instanceTtl)
        /\ claimable' = [claimable EXCEPT ![g][member] = 0]
    BY DEF LifetimeClaim, BumpGroup, ClaimTo, Settled
  <1>2. \E m : escrowed' = [escrowed EXCEPT ![g] = m]
    BY DEF LifetimeClaim, ClaimTo
  <1>3. /\ claimable \in [Ids -> [Address -> Nat]] /\ escrowed \in [Ids -> Nat]
        /\ creditTtl \in [Ids -> [Address -> Nat]]
        /\ creditAge \in [Ids -> [Address -> Nat]]
        /\ totalTtl \in [Ids -> Nat] /\ groupTtl \in [Ids -> Nat]
        /\ instanceTtl \in Nat /\ TtlInv /\ TtlInv'
    BY DEF LifetimeInv, EscrowInv, LedgerInv, TtlInv, AgeInv
  <1>4. /\ Extended(totalTtl[g]) >= ESCROW_TTL_THRESHOLD
        /\ Extended(groupTtl[g]) >= ESCROW_TTL_THRESHOLD
        /\ instanceTtl' >= ESCROW_TTL_THRESHOLD
    BY <1>1, <1>3, TtlAnswers
  <1>5. claimable'[g][member] = 0
    BY <1>1, <1>3
  <1>6. ASSUME NEW id \in Ids, NEW a \in Address, id # g \/ a # member
        PROVE  /\ claimable'[id][a] = claimable[id][a]
               /\ creditAge'[id][a] = creditAge[id][a]
               /\ creditTtl'[id][a] = creditTtl[id][a] /\ creditTtl[id][a] \in Nat
    BY <1>1, <1>3, <1>6
  <1>7. ASSUME NEW id \in Ids
        PROVE  /\ escrowed'[id] > 0 =>
                    \/ escrowed[id] > 0 /\ totalTtl'[id] >= totalTtl[id]
                    \/ totalTtl'[id] >= ESCROW_TTL_THRESHOLD
               /\ \/ groupTtl'[id] >= groupTtl[id]
                  \/ groupTtl'[id] >= ESCROW_TTL_THRESHOLD
    <2>1. CASE id = g
      <3>1. groupTtl'[id] = Extended(groupTtl[g]) /\ totalTtl'[id] = left
        BY <1>1, <1>3, <2>1
      <3> QED
        BY <1>4, <2>1, <3>1
    <2>2. CASE id # g
      <3>1. /\ groupTtl'[id] = groupTtl[id] /\ totalTtl'[id] = totalTtl[id]
            /\ escrowed'[id] = escrowed[id]
            /\ groupTtl[id] \in Nat /\ totalTtl[id] \in Nat
        BY <1>1, <1>2, <1>3, <2>2
      <3> QED
        BY <3>1
    <2> QED
      BY <2>1, <2>2
  <1>8. ASSUME NEW id \in Ids, NEW a \in Address PROVE CreditLasts(id, a)'
    <2>1. CASE id = g /\ a = member
      BY <1>5, <2>1 DEF CreditLasts
    <2>2. CASE id # g \/ a # member
      <3>1. CreditLasts(id, a)
        BY DEF WindowInv
      <3>2. creditTtl'[id][a] >= creditTtl[id][a]
        BY <1>6, <2>2
      <3> QED
        BY <1>3, <1>4, <1>6, <1>7, <2>2, <3>1, <3>2, WindowKept
    <2> QED
      BY <2>1, <2>2
  <1> QED
    BY <1>8 DEF WindowInv

LEMMA ElapseWindow ==
    ASSUME LifetimeInv, AgeInv, WindowInv, Elapse
    PROVE  WindowInv'
  <1>1. ASSUME NEW id \in Ids, NEW a \in Address PROVE CreditLasts(id, a)'
    <2>1. /\ creditTtl'[id][a] = Less(creditTtl[id][a])
          /\ totalTtl'[id] = Less(totalTtl[id]) /\ groupTtl'[id] = Less(groupTtl[id])
          /\ instanceTtl' = Less(instanceTtl)
          /\ creditAge'[id][a] = Older(claimable[id][a], creditAge[id][a])
          /\ claimable' = claimable /\ escrowed' = escrowed
      BY DEF Elapse, allEscrowVars, escrowVars
    <2>2. /\ creditAge[id][a] \in Nat /\ creditTtl[id][a] \in Nat
          /\ totalTtl[id] \in Nat /\ groupTtl[id] \in Nat /\ instanceTtl \in Nat
          /\ ESCROW_TTL_THRESHOLD \in Nat
      BY LifetimeAssumption DEF LifetimeInv, TtlInv, AgeInv
    <2>3. CreditLasts(id, a)
      BY DEF WindowInv
    <2>4. SUFFICES ASSUME claimable[id][a] > 0, creditAge'[id][a] < ESCROW_TTL_THRESHOLD
                   PROVE  CreditLasts(id, a)'
      BY <2>1 DEF CreditLasts
    <2>5. /\ creditAge[id][a] < ESCROW_TTL_THRESHOLD
          /\ creditAge'[id][a] = creditAge[id][a] + 1
      BY <2>1, <2>2, <2>4 DEF Older
    <2> QED
      BY <2>1, <2>2, <2>3, <2>4, <2>5 DEF CreditLasts, Lasts, Less
  <1> QED
    BY <1>1 DEF WindowInv

LEMMA WindowStep ==
    ASSUME LifetimeInv, LifetimeInv', AgeInv, WindowInv, [LifetimeNext]_lifetimeVars
    PROVE  WindowInv'
  <1>1. TtlInv /\ TtlInv'
    BY DEF LifetimeInv
  <1>2. /\ claimable \in [Ids -> [Address -> Nat]] /\ escrowed \in [Ids -> Nat]
        /\ creditTtl \in [Ids -> [Address -> Nat]] /\ totalTtl \in [Ids -> Nat]
        /\ groupTtl \in [Ids -> Nat] /\ instanceTtl \in Nat
    BY DEF LifetimeInv, EscrowInv, LedgerInv, TtlInv
  <1>3. ASSUME UNCHANGED <<escrowVars, creditAge>>, NEW id \in Ids, NEW a \in Address,
               claimable[id][a] > 0 =>
                    /\ creditTtl'[id][a] >= creditTtl[id][a]
                    /\ totalTtl'[id] >= totalTtl[id]
                    /\ groupTtl'[id] >= groupTtl[id] /\ instanceTtl' >= instanceTtl
        PROVE  CreditLasts(id, a)'
    <2>1. CreditLasts(id, a) /\ claimable' = claimable /\ escrowed' = escrowed
      BY <1>3 DEF WindowInv, escrowVars
    <2>2. CASE claimable[id][a] > 0
      BY <1>1, <1>3, <2>1, <2>2, WindowKept
    <2>3. CASE ~(claimable[id][a] > 0)
      BY <2>1, <2>3 DEF CreditLasts
    <2> QED
      BY <2>2, <2>3
  <1>4. CASE LifetimeRegistry
    <2>1. /\ UNCHANGED <<escrowVars, creditAge>>
          /\ UNCHANGED <<creditTtl, totalTtl, instanceTtl>>
          /\ \A id \in Ids : Stored(id) => groupTtl'[id] = groupTtl[id]
      BY <1>4 DEF LifetimeRegistry
    <2>2. ASSUME NEW id \in Ids, NEW a \in Address PROVE CreditLasts(id, a)'
      <3>1. claimable[id][a] > 0 => Stored(id)
        <4>1. EscrowInv
          BY DEF LifetimeInv
        <4> QED
          BY <4>1, CreditStored
      <3>2. creditTtl[id][a] \in Nat /\ totalTtl[id] \in Nat /\ groupTtl[id] \in Nat
        BY <1>2
      <3> QED
        BY <1>2, <1>3, <2>1, <3>1, <3>2
    <2> QED
      BY <2>2 DEF WindowInv
  <1>5. ASSUME NEW g \in Ids, Restore(g) PROVE WindowInv'
    <2> DEFINE ttls == [a \in Address |-> Restored(claimable[g][a] > 0, creditTtl[g][a])]
    <2>1. /\ groupTtl' = [groupTtl EXCEPT ![g] = Restored(Stored(g), groupTtl[g])]
          /\ instanceTtl' = Restored(TRUE, instanceTtl)
          /\ totalTtl' = [totalTtl EXCEPT ![g] = Restored(escrowed[g] > 0, totalTtl[g])]
          /\ creditTtl' = [creditTtl EXCEPT ![g] = ttls]
          /\ UNCHANGED <<escrowVars, creditAge>>
      BY <1>5 DEF Restore, allEscrowVars
    <2>2. \A ttl \in Nat : \A exists : Restored(exists, ttl) >= ttl
      BY LifetimeAssumption DEF Restored
    <2>3. ASSUME NEW id \in Ids, NEW a \in Address
          PROVE  /\ creditTtl'[id][a] >= creditTtl[id][a] /\ totalTtl'[id] >= totalTtl[id]
                 /\ groupTtl'[id] >= groupTtl[id] /\ instanceTtl' >= instanceTtl
      <3>1. creditTtl'[g] = ttls
        BY <1>2, <2>1
      <3>2. \A h \in Ids : h # g => creditTtl'[h] = creditTtl[h]
        BY <1>2, <2>1
      <3>3. creditTtl'[id][a] >= creditTtl[id][a]
        BY <1>2, <2>2, <3>1, <3>2
      <3>4. /\ totalTtl'[id] \in {totalTtl[id], Restored(escrowed[g] > 0, totalTtl[id])}
            /\ groupTtl'[id] \in {groupTtl[id], Restored(Stored(g), groupTtl[id])}
            /\ totalTtl[id] \in Nat /\ groupTtl[id] \in Nat
        <4>1. CASE id = g
          BY <1>2, <2>1, <4>1
        <4>2. CASE id # g
          BY <1>2, <2>1, <4>2
        <4> QED
          BY <4>1, <4>2
      <3>5. totalTtl'[id] >= totalTtl[id]
        BY <2>2, <3>4
      <3>6. groupTtl'[id] >= groupTtl[id]
        BY <2>2, <3>4
      <3>7. instanceTtl' >= instanceTtl
        BY <1>2, <2>1, <2>2
      <3> QED
        BY <3>3, <3>5, <3>6, <3>7
    <2> QED
      BY <1>3, <2>1, <2>3 DEF WindowInv
  <1>6. CASE UNCHANGED <<escrowVars, ttlVars, creditAge>>
    <2>1. ASSUME NEW id \in Ids, NEW a \in Address PROVE CreditLasts(id, a)'
      <3>1. creditTtl[id][a] \in Nat /\ totalTtl[id] \in Nat /\ groupTtl[id] \in Nat
        BY <1>2
      <3> QED
        BY <1>2, <1>3, <1>6, <3>1 DEF ttlVars
    <2> QED
      BY <2>1 DEF WindowInv
  <1> QED
    BY <1>4, <1>5, <1>6, DepositWindow, ClaimWindow, ElapseWindow
       DEF LifetimeNext, LifetimePayments, lifetimeVars, allEscrowVars

(* For as long as the threshold after a deposit last credited a member, no *)
(* entry its claim reads is archived, whatever others claim, edit, create  *)
(* or deposit meanwhile.                                                   *)
THEOREM CreditsOutlive == LifetimeSpec => []CreditOutlivesThreshold
  <1>1. LifetimeInit => AgeInv /\ WindowInv
    <2> SUFFICES ASSUME LifetimeInit PROVE AgeInv /\ WindowInv
      OBVIOUS
    <2>1. AgeInv
      BY DEF LifetimeInit, AgeInv
    <2>2. \A id \in Ids, a \in Address : claimable[id][a] = 0
      BY DEF LifetimeInit, EscrowInit
    <2> QED
      BY <2>1, <2>2 DEF WindowInv, CreditLasts
  <1>2. LifetimeInv /\ LifetimeInv' /\ AgeInv /\ WindowInv /\ [LifetimeNext]_lifetimeVars
            => AgeInv' /\ WindowInv'
    BY AgeTyped, WindowStep
  <1>3. ASSUME LifetimeInv, AgeInv, WindowInv PROVE CreditOutlivesThreshold
    <2>1. ASSUME NEW id \in Ids, NEW a \in Address, claimable[id][a] > 0,
                 creditAge[id][a] < ESCROW_TTL_THRESHOLD
          PROVE  Live(id, a)
      <3>1. CreditLasts(id, a)
        BY <1>3 DEF WindowInv
      <3>2. /\ creditAge[id][a] \in Nat /\ creditTtl[id][a] \in Nat
            /\ totalTtl[id] \in Nat /\ groupTtl[id] \in Nat /\ instanceTtl \in Nat
            /\ ESCROW_TTL_THRESHOLD \in Nat
        BY <1>3, LifetimeAssumption DEF LifetimeInv, TtlInv, AgeInv
      <3> QED
        BY <2>1, <3>1, <3>2 DEF CreditLasts, Lasts, Live
    <2> QED
      BY <2>1 DEF CreditOutlivesThreshold
  <1> QED
    BY <1>1, <1>2, <1>3, LifetimeInvariant, PTL DEF LifetimeSpec

-----------------------------------------------------------------------------
(* Schedules: arithmetic.                                                  *)

LEMMA MultipleModulo ==
    ASSUME NEW k \in Nat, NEW i \in Nat \ {0}
    PROVE  (k * i) % i = 0
  OBVIOUS

LEMMA ModuloBounds ==
    ASSUME NEW q \in Nat, NEW m \in Nat \ {0}
    PROVE  q % m \in Nat /\ q % m <= q
  OBVIOUS

LEMMA ProductMonotonic ==
    ASSUME NEW a \in Nat, NEW b \in Nat, a <= b, NEW i \in Nat
    PROVE  a * i <= b * i
  OBVIOUS

LEMMA MinOfThree ==
    ASSUME NEW a \in Nat, NEW b \in Nat, NEW c \in Nat
    PROVE  /\ Min({a, b, c}) \in {a, b, c}
           /\ Min({a, b, c}) <= a /\ Min({a, b, c}) <= b /\ Min({a, b, c}) <= c
  <1>1. \E x \in {a, b, c} : \A y \in {a, b, c} : x <= y
    OBVIOUS
  <1> QED
    BY <1>1 DEF Min

-----------------------------------------------------------------------------
(* One execution of a schedule.                                            *)

(* What execute_schedule computes for a schedule that is due: between one  *)
(* run and all that remain, no more than intervals begun since next_run_at,*)
(* and a next run on the grid, the first after now.                        *)
LEMMA ExecutionArithmetic ==
    ASSUME NEW s \in ScheduleRecord, now \in Nat, s.next_run_at <= now,
           s.remaining_runs > 0
    PROVE  LET k == RunsToExecute(s)
               q == IntervalsPassed(s)
           IN  /\ q \in Nat
               /\ k \in 1 .. s.remaining_runs
               /\ k <= q + 1
               /\ NextRunAt(s) = s.next_run_at + (q + 1) * s.interval_secs
               /\ NextRunAt(s) \in Nat /\ now < NextRunAt(s)
               /\ NextRunAt(s) - s.interval_secs <= now
  <1> DEFINE k == RunsToExecute(s)
             q == IntervalsPassed(s)
             i == s.interval_secs
             d == now - s.next_run_at
  <1>1. /\ i \in Nat \ {0} /\ s.next_run_at \in Nat /\ d \in Nat
        /\ s.remaining_runs \in Nat \ {0}
    <2>1. /\ s.interval_secs \in Intervals \ {0} /\ s.next_run_at \in 0 .. U64Max
          /\ s.remaining_runs \in 0 .. U32Max
      BY DEF ScheduleRecord
    <2>2. i \in Nat \ {0}
      BY <2>1, ScheduleAssumption
    <2>3. s.next_run_at \in Nat /\ s.remaining_runs \in Nat
      BY <2>1, ScheduleAssumption, RegistryAssumption
    <2> QED
      BY <2>2, <2>3
  <1>2. q = d \div i /\ NextRunAt(s) = s.next_run_at + (q + 1) * i
    BY DEF IntervalsPassed, NextRunAt
  <1> HIDE DEF i, d, q
  <1>3. q \in Nat /\ q * i <= d /\ d < q * i + i
    BY <1>1, <1>2, FloorDivision
  <1>4. RunsDue(s) \in Nat \ {0} /\ RunsDue(s) <= q + 1
    <2>1. U32Max + 1 \in Nat \ {0}
      BY RegistryAssumption
    <2>2. q % (U32Max + 1) \in Nat /\ q % (U32Max + 1) <= q
      BY <1>3, <2>1, ModuloBounds
    <2> QED
      BY <1>3, <2>2 DEF RunsDue, q
  <1>5. k \in 1 .. s.remaining_runs /\ k <= q + 1
    BY <1>1, <1>3, <1>4, MinOfThree, ScheduleAssumption DEF RunsToExecute
  <1> HIDE DEF k
  <1>6. (q + 1) * i = q * i + i /\ q * i \in Nat
    BY <1>1, <1>3
  <1>7. now = s.next_run_at + d
    BY <1>1 DEF d
  <1>8. /\ NextRunAt(s) \in Nat /\ now < NextRunAt(s)
        /\ NextRunAt(s) - i <= now
    BY <1>1, <1>2, <1>3, <1>6, <1>7
  <1> QED
    BY <1>2, <1>3, <1>5, <1>8 DEF k, q, i

-----------------------------------------------------------------------------
(* The inductive invariant of the schedules.                               *)

ScheduleInv == ScheduleTypeOK /\ CompletedInactive

LEMMA ScheduleInitInv == ScheduleInit => ScheduleInv
  BY ScheduleAssumption
     DEF ScheduleInit, ScheduleInv, ScheduleTypeOK, CompletedInactive, Scheduled

LEMMA RecordIsScheduled ==
    ASSUME NEW s \in ScheduleRecord
    PROVE  s # NoSchedule
  BY DEF ScheduleRecord, NoSchedule

(* What an execution does to its schedule and no other.                    *)
LEMMA ExecuteEffect ==
    ASSUME ScheduleInv, NEW id \in Ids, NEW caller, NEW signers,
           ExecuteSchedule(id, caller, signers)
    PROVE  /\ schedules[id] \in ScheduleRecord
           /\ schedules[id].active /\ schedules[id].next_run_at <= now
           /\ schedules[id].remaining_runs > 0
           /\ schedules' = [schedules EXCEPT ![id] = Executed(schedules[id])]
           /\ NextRunAt(schedules[id]) <= U64Max
           /\ now \in Nat /\ UNCHANGED now
  <1>1. schedules[id] \in ScheduleRecord
    BY DEF ExecuteSchedule, Scheduled, ScheduleInv, ScheduleTypeOK
  <1>2. schedules[id].active /\ now >= schedules[id].next_run_at
    BY DEF ExecuteSchedule, Due
  <1>3. schedules[id].remaining_runs > 0
    BY <1>1, <1>2, RecordIsScheduled DEF ScheduleInv, CompletedInactive, Scheduled
  <1>4. now \in Nat
    BY ScheduleAssumption DEF ScheduleInv, ScheduleTypeOK
  <1> QED
    BY <1>1, <1>2, <1>3, <1>4 DEF ExecuteSchedule

LEMMA ExecutedRecord ==
    ASSUME NEW s \in ScheduleRecord, now \in Nat, s.next_run_at <= now,
           s.remaining_runs > 0, NextRunAt(s) <= U64Max
    PROVE  /\ Executed(s) \in ScheduleRecord
           /\ Executed(s).remaining_runs = s.remaining_runs - RunsToExecute(s)
           /\ Executed(s).remaining_runs < s.remaining_runs
           /\ Executed(s).next_run_at = NextRunAt(s)
           /\ Executed(s).active => Executed(s).remaining_runs > 0
  <1> DEFINE left == s.remaining_runs - RunsToExecute(s)
             running == left # 0
  <1>1. /\ Executed(s) = [interval_secs |-> s.interval_secs,
                next_run_at |-> NextRunAt(s), remaining_runs |-> left,
                amount |-> s.amount, funder |-> s.funder, active |-> running]
    BY DEF Executed
  <1>2. running \in BOOLEAN
    OBVIOUS
  <1>3. /\ s.interval_secs \in Intervals \ {0} /\ s.amount \in Amounts \ {0}
        /\ s.funder \in Address /\ s.remaining_runs \in 0 .. U32Max
    BY DEF ScheduleRecord
  <1>4. left \in 0 .. U32Max /\ left < s.remaining_runs
    BY <1>3, ExecutionArithmetic, RegistryAssumption
  <1>5. NextRunAt(s) \in 0 .. U64Max
    BY ExecutionArithmetic, ScheduleAssumption
  <1>6. running => left > 0
    BY <1>4, RegistryAssumption
  <1> HIDE DEF left, running
  <1> QED
    BY <1>1, <1>2, <1>3, <1>4, <1>5, <1>6 DEF ScheduleRecord, left

LEMMA ScheduleNextInv ==
    ASSUME ScheduleInv, [ScheduleNext]_allScheduleVars
    PROVE  ScheduleInv'
  <1>1. CASE UNCHANGED scheduleVars
    BY <1>1 DEF scheduleVars, ScheduleInv, ScheduleTypeOK, CompletedInactive,
                Scheduled
  <1>2. ASSUME NEW id \in Ids, NEW r \in ScheduleRecord,
               r.active => r.remaining_runs > 0,
               schedules' = [schedules EXCEPT ![id] = r], UNCHANGED now
        PROVE  ScheduleInv'
    <2>1. ScheduleTypeOK'
      BY <1>2 DEF ScheduleInv, ScheduleTypeOK
    <2>2. CompletedInactive'
      BY <1>2 DEF ScheduleInv, ScheduleTypeOK, CompletedInactive, Scheduled
    <2> QED
      BY <2>1, <2>2 DEF ScheduleInv
  <1>3. ASSUME NEW id \in Ids, NEW caller \in Address, NEW interval \in Intervals,
               NEW first \in 0 .. MaxTime, NEW runs \in RunCounts,
               NEW amount \in Amounts,
               CreateSchedule(id, caller, interval, first, runs, amount)
        PROVE  ScheduleInv'
    <2> DEFINE r == [interval_secs |-> interval, next_run_at |-> first,
                     remaining_runs |-> runs, amount |-> amount,
                     funder |-> caller, active |-> TRUE]
    <2>1. interval # 0 /\ runs > 0 /\ amount # 0
      BY <1>3, ScheduleAssumption, PaymentsAssumption DEF CreateSchedule
    <2>2. runs \in 0 .. U32Max /\ first \in 0 .. U64Max
      BY ScheduleAssumption
    <2>3. r \in ScheduleRecord /\ r.remaining_runs > 0
      BY <2>1, <2>2 DEF ScheduleRecord
    <2>4. schedules' = [schedules EXCEPT ![id] = r] /\ UNCHANGED now
      BY <1>3 DEF CreateSchedule
    <2> QED
      BY <1>2, <2>3, <2>4
  <1>4. ASSUME NEW id \in Ids, NEW caller \in Address, NEW signers,
               ExecuteSchedule(id, caller, signers)
        PROVE  ScheduleInv'
    BY <1>2, <1>4, ExecuteEffect, ExecutedRecord
  <1>5. ASSUME NEW id \in Ids, NEW caller \in Address, CancelSchedule(id, caller)
        PROVE  ScheduleInv'
    <2> DEFINE r == [schedules[id] EXCEPT !.active = FALSE]
    <2>1. schedules[id] \in ScheduleRecord
      BY <1>5 DEF CancelSchedule, Scheduled, ScheduleInv, ScheduleTypeOK
    <2>2. r \in ScheduleRecord /\ ~r.active
      BY <2>1 DEF ScheduleRecord
    <2>3. schedules' = [schedules EXCEPT ![id] = r] /\ UNCHANGED now
      BY <1>5 DEF CancelSchedule
    <2> QED
      BY <1>2, <2>2, <2>3
  <1>6. CASE Tick
    <2>1. now' \in 0 .. MaxTime
      BY <1>6, ScheduleAssumption DEF Tick, ScheduleInv, ScheduleTypeOK
    <2> QED
      BY <1>6, <2>1 DEF Tick, ScheduleInv, ScheduleTypeOK, CompletedInactive,
                        Scheduled
  <1> QED
    BY <1>1, <1>3, <1>4, <1>5, <1>6
       DEF ScheduleNext, ScheduleStep, allScheduleVars, scheduleVars

-----------------------------------------------------------------------------
(* What schedules guarantee.                                               *)

LEMMA ScheduleInvariant == ScheduleSpec => []ScheduleInv
  BY ScheduleInitInv, ScheduleNextInv, PTL DEF ScheduleSpec

(* Only an active schedule has runs left to execute, and it has some.      *)
THEOREM ScheduleTypeCorrect == ScheduleSpec => [](ScheduleTypeOK /\ CompletedInactive)
  BY ScheduleInvariant, PTL DEF ScheduleInv

\* The steps that lower the runs that remain are executions.
LEMMA OnlyExecutionsRun ==
    ASSUME ScheduleInv, [ScheduleNext]_allScheduleVars, NEW id \in Ids, Runs(id)
    PROVE  \E caller \in Address, signers \in SUBSET Address :
                ExecuteSchedule(id, caller, signers)
  <1>1. Scheduled(id) /\ Remaining(id)' < Remaining(id)
    BY DEF Runs
  <1>2. schedules[id] \in ScheduleRecord /\ Remaining(id) \in Nat
    <2>1. schedules[id] \in ScheduleRecord
      BY <1>1 DEF Scheduled, ScheduleInv, ScheduleTypeOK
    <2>2. schedules[id].remaining_runs \in 0 .. U32Max
      BY <2>1 DEF ScheduleRecord
    <2> QED
      BY <1>1, <2>1, <2>2, RegistryAssumption DEF Remaining
  <1>3. schedules'[id] # schedules[id]
    BY <1>1, <1>2 DEF Remaining, Scheduled
  <1>4. ASSUME NEW g \in Ids, NEW caller \in Address, NEW interval, NEW first,
               NEW runs, NEW amount,
               CreateSchedule(g, caller, interval, first, runs, amount)
        PROVE  FALSE
    BY <1>1, <1>3, <1>4 DEF CreateSchedule, ScheduleInv, ScheduleTypeOK
  <1>5. ASSUME NEW g \in Ids, NEW caller \in Address, CancelSchedule(g, caller)
        PROVE  FALSE
    <2>1. g = id
      BY <1>3, <1>5 DEF CancelSchedule, ScheduleInv, ScheduleTypeOK
    <2>2. schedules'[id] = [schedules[id] EXCEPT !.active = FALSE]
      BY <1>5, <2>1 DEF CancelSchedule, ScheduleInv, ScheduleTypeOK
    <2>3. schedules'[id] \in ScheduleRecord
          /\ schedules'[id].remaining_runs = schedules[id].remaining_runs
      BY <1>2, <2>2 DEF ScheduleRecord
    <2> QED
      BY <1>1, <1>2, <2>3, RecordIsScheduled DEF Remaining, Scheduled
  <1>6. ASSUME NEW g \in Ids, NEW caller, NEW signers,
               ExecuteSchedule(g, caller, signers)
        PROVE  g = id
    BY <1>3, <1>6 DEF ExecuteSchedule, ScheduleInv, ScheduleTypeOK
  <1> QED
    BY <1>3, <1>4, <1>5, <1>6
       DEF ScheduleNext, ScheduleStep, Tick, allScheduleVars, scheduleVars

(* Runs never get ahead of the clock and never share an interval; the grid *)
(* of intervals does not drift, however late the keeper comes.             *)
THEOREM RunsKeepToTheGrid == ScheduleSpec => OneRunPerInterval
  <1> DEFINE OnGrid(id) ==
                LET s == schedules[id]
                    t == schedules'[id]
                    moved == t.next_run_at - s.next_run_at
                IN  /\ s.next_run_at <= now /\ now < t.next_run_at
                    /\ moved % s.interval_secs = 0
                    /\ t.next_run_at - s.interval_secs <= now
                    /\ (s.remaining_runs - t.remaining_runs) * s.interval_secs
                            <= moved
  <1>1. ASSUME ScheduleInv, [ScheduleNext]_allScheduleVars, NEW id \in Ids, Runs(id)
        PROVE  OnGrid(id)
    <2> DEFINE s == schedules[id]
               k == RunsToExecute(s)
               q == IntervalsPassed(s)
               i == s.interval_secs
    <2>1. /\ s \in ScheduleRecord /\ s.next_run_at <= now
          /\ s.remaining_runs > 0
          /\ schedules' = [schedules EXCEPT ![id] = Executed(s)]
          /\ NextRunAt(s) <= U64Max /\ now \in Nat
      BY <1>1, OnlyExecutionsRun, ExecuteEffect
    <2>2. /\ schedules'[id] = Executed(s)
          /\ schedules'[id].next_run_at = NextRunAt(s)
          /\ schedules'[id].remaining_runs = s.remaining_runs - k
      BY <1>1, <2>1, ExecutedRecord DEF ScheduleInv, ScheduleTypeOK
    <2>3. /\ q \in Nat /\ k \in 1 .. s.remaining_runs /\ k <= q + 1
          /\ NextRunAt(s) = s.next_run_at + (q + 1) * i
          /\ NextRunAt(s) \in Nat /\ now < NextRunAt(s)
          /\ NextRunAt(s) - i <= now
      BY <2>1, ExecutionArithmetic
    <2>4. /\ i \in Nat \ {0} /\ s.next_run_at \in Nat /\ s.remaining_runs \in Nat
      <3>1. /\ i \in Intervals \ {0} /\ s.next_run_at \in 0 .. U64Max
            /\ s.remaining_runs \in 0 .. U32Max
        BY <2>1 DEF ScheduleRecord
      <3>2. i \in Nat \ {0}
        BY <3>1, ScheduleAssumption
      <3> QED
        BY <3>1, <3>2, ScheduleAssumption, RegistryAssumption
    <2> HIDE DEF s, k, q, i
    <2>5. NextRunAt(s) - s.next_run_at = (q + 1) * i
      <3>1. (q + 1) * i \in Nat
        BY <2>3, <2>4
      <3> QED
        BY <2>3, <2>4, <3>1
    <2>6. ((q + 1) * i) % i = 0
      BY <2>3, <2>4, MultipleModulo
    <2>7. k \in Nat /\ k * i <= (q + 1) * i
      <3>1. k \in Nat
        BY <2>3, <2>4
      <3> QED
        BY <2>3, <2>4, <3>1, ProductMonotonic
    <2>8. s.remaining_runs - (s.remaining_runs - k) = k
      BY <2>4, <2>7
    <2> QED
      BY <2>1, <2>2, <2>3, <2>5, <2>6, <2>7, <2>8 DEF s, i
  <1>2. ScheduleInv /\ [ScheduleNext]_allScheduleVars
            => [\A id \in Ids : Runs(id) => OnGrid(id)]_allScheduleVars
    BY <1>1
  <1> QED
    BY <1>2, ScheduleInvariant, PTL DEF ScheduleSpec, OneRunPerInterval

(* A schedule that was cancelled or has no run left stays as it is.        *)
THEOREM StoppedStaysStopped == ScheduleSpec => InactiveForGood
  <1> DEFINE Stopped(id) == Scheduled(id) /\ ~schedules[id].active
  <1>1. ASSUME ScheduleInv, [ScheduleNext]_allScheduleVars, NEW id \in Ids,
               Stopped(id)
        PROVE  schedules'[id] = schedules[id]
    <2>1. ASSUME NEW g \in Ids, NEW caller \in Address, NEW interval, NEW first,
                 NEW runs, NEW amount,
                 CreateSchedule(g, caller, interval, first, runs, amount)
          PROVE  schedules'[id] = schedules[id]
      BY <1>1, <2>1 DEF CreateSchedule, ScheduleInv, ScheduleTypeOK
    <2>2. ASSUME NEW g \in Ids, NEW caller, NEW signers,
                 ExecuteSchedule(g, caller, signers)
          PROVE  schedules'[id] = schedules[id]
      <3>1. g # id
        BY <1>1, <2>2, ExecuteEffect
      <3> QED
        BY <1>1, <2>2, <3>1 DEF ExecuteSchedule, ScheduleInv, ScheduleTypeOK
    <2>3. ASSUME NEW g \in Ids, NEW caller \in Address, CancelSchedule(g, caller)
          PROVE  schedules'[id] = schedules[id]
      <3>1. schedules' = [schedules EXCEPT ![g].active = FALSE]
        BY <2>3 DEF CancelSchedule
      <3>2. CASE g # id
        BY <1>1, <3>1, <3>2 DEF ScheduleInv, ScheduleTypeOK
      <3>3. CASE g = id
        <4>1. schedules[id] \in ScheduleRecord
          BY <1>1 DEF Scheduled, ScheduleInv, ScheduleTypeOK
        <4>2. [schedules[id] EXCEPT !.active = FALSE] = schedules[id]
          BY <1>1, <4>1 DEF ScheduleRecord
        <4> QED
          BY <1>1, <3>1, <3>3, <4>2 DEF ScheduleInv, ScheduleTypeOK
      <3> QED
        BY <3>2, <3>3
    <2> QED
      BY <1>1, <2>1, <2>2, <2>3
         DEF ScheduleNext, ScheduleStep, Tick, allScheduleVars, scheduleVars
  <1>2. ASSUME ScheduleInv, NEW id \in Ids, Over(id) PROVE Stopped(id)
    <2>1. Scheduled(id) /\ schedules[id] \in ScheduleRecord
      BY <1>2 DEF Over, Scheduled, ScheduleInv, ScheduleTypeOK
    <2>2. CompletedInactive
      BY <1>2 DEF ScheduleInv
    <2>3. schedules[id].remaining_runs = 0 => ~(schedules[id].remaining_runs > 0)
      OBVIOUS
    <2> QED
      BY <1>2, <2>1, <2>2, <2>3, Zenon DEF Over, CompletedInactive
  <1> HIDE DEF Stopped
  <1>3. ScheduleInv /\ [ScheduleNext]_allScheduleVars
            => [\A id \in Ids : Over(id) => schedules'[id] = schedules[id]
               ]_allScheduleVars
    BY <1>1, <1>2
  <1> QED
    BY <1>3, ScheduleInvariant, PTL DEF ScheduleSpec, InactiveForGood

\* What an execution pays.
LEMMA ExecutePays ==
    ASSUME ScheduleInv, MoneyInv, NEW id \in Ids, NEW caller, NEW signers,
           ExecuteSchedule(id, caller, signers)
    PROVE  LET s == schedules[id]
               k == RunsToExecute(s)
           IN  /\ s.amount \in Nat /\ k \in Nat /\ s.funder \in Address
               /\ Payable(id, s.funder, s.amount, k)
               /\ Pay(id, s.funder, s.amount, k)
               /\ UNCHANGED registryVars
  <1> DEFINE s == schedules[id]
             k == RunsToExecute(s)
  <1>1. /\ s \in ScheduleRecord /\ s.next_run_at <= now
        /\ s.remaining_runs > 0 /\ now \in Nat
    BY ExecuteEffect
  <1>2. /\ s.amount \in Amounts /\ s.funder \in Address
        /\ s.remaining_runs \in 0 .. U32Max
    BY <1>1 DEF ScheduleRecord
  <1>3. /\ Payable(id, s.funder, s.amount, k) /\ Pay(id, s.funder, s.amount, k)
        /\ UNCHANGED registryVars
    BY DEF ExecuteSchedule
  <1>4. s.amount \in Nat
    <2>1. s.amount >= 0
      BY <1>3 DEF Payable, CanDistribute
    <2>2. s.amount \in Int
      BY <1>2, PaymentsAssumption
    <2> HIDE DEF s
    <2> QED
      BY <2>1, <2>2
  <1>5. k \in Nat
    <2>1. k \in 1 .. s.remaining_runs
      BY <1>1, ExecutionArithmetic
    <2> QED
      BY <2>1
  <1> QED
    BY <1>2, <1>3, <1>4, <1>5

LEMMA ScheduleMoneyStep ==
    ASSUME ScheduleInv, MoneyInv, [ScheduleNext]_allScheduleVars
    PROVE  MoneyInv'
  <1>1. ASSUME UNCHANGED registryVars, BalanceInv'
        PROVE  MoneyInv'
    BY <1>1, NextStorage, NextMembers DEF MoneyInv
  <1>2. CASE UNCHANGED <<registryVars, balance>>
    BY <1>1, <1>2 DEF MoneyInv, BalanceInv
  <1>3. ASSUME NEW id \in Ids, NEW caller, NEW signers,
               ExecuteSchedule(id, caller, signers)
        PROVE  MoneyInv'
    <2> DEFINE s == schedules[id]
               k == RunsToExecute(s)
    <2>1. /\ s.amount \in Nat /\ k \in Nat /\ s.funder \in Address
          /\ Payable(id, s.funder, s.amount, k)
          /\ Pay(id, s.funder, s.amount, k)
          /\ UNCHANGED registryVars
      BY <1>3, ExecutePays
    <2> HIDE DEF s, k
    <2>2. BalanceInv'
      BY <2>1, PayEffect
    <2> QED
      BY <1>1, <2>1, <2>2
  <1> QED
    BY <1>2, <1>3, PaymentsNextInv
       DEF ScheduleNext, ScheduleStep, CreateSchedule, CancelSchedule, Tick,
           allScheduleVars

LEMMA ScheduleMoney == ScheduleSpec => []MoneyInv
  <1>1. ScheduleInit => MoneyInv
    BY InitInv, InitMembers, InitBalance DEF ScheduleInit, MoneyInv
  <1> QED
    BY <1>1, ScheduleInvariant, ScheduleMoneyStep, PTL DEF ScheduleSpec

(* What a schedule counts as run is what its funder paid: each run moves   *)
(* the amount, in the group's token, from the funder to the members of     *)
(* that moment, share by share.                                            *)
THEOREM CountedRunsArePaid == ScheduleSpec => RunsArePaid
  <1> DEFINE Paid(id) ==
                LET s == schedules[id]
                    t == GroupOf(id).payment_token
                    count == s.remaining_runs - schedules'[id].remaining_runs
                    gain == [a \in Holders |-> balance'[t][a] - balance[t][a]]
                    share == [a \in Holders |->
                                count * ShareOf(GroupOf(id).members, s.amount, a)]
                IN  /\ SumFunction(share) = count * s.amount
                    /\ \A a \in Holders \ {s.funder} : gain[a] = share[a]
                    /\ gain[s.funder] = share[s.funder] - count * s.amount
  <1>1. ASSUME ScheduleInv, MoneyInv, [ScheduleNext]_allScheduleVars,
               NEW id \in Ids, Runs(id)
        PROVE  Paid(id)
    <2> DEFINE s == schedules[id]
               k == RunsToExecute(s)
               t == GroupOf(id).payment_token
               members == GroupOf(id).members
               amount == s.amount
               funder == s.funder
               each == [a \in Holders |-> ShareOf(members, amount, a)]
               count == s.remaining_runs - schedules'[id].remaining_runs
               gain == [a \in Holders |-> balance'[t][a] - balance[t][a]]
               share == [a \in Holders |-> count * ShareOf(members, amount, a)]
    <2>1. PICK caller \in Address, signers \in SUBSET Address :
                ExecuteSchedule(id, caller, signers)
      BY <1>1, OnlyExecutionsRun
    <2>2. /\ s \in ScheduleRecord /\ s.next_run_at <= now
          /\ s.remaining_runs > 0
          /\ schedules' = [schedules EXCEPT ![id] = Executed(s)]
          /\ NextRunAt(s) <= U64Max /\ now \in Nat
      BY <1>1, <2>1, ExecuteEffect
    <2>3. /\ amount \in Nat /\ k \in Nat /\ funder \in Address
          /\ Payable(id, funder, amount, k)
          /\ Pay(id, funder, amount, k)
      BY <1>1, <2>1, ExecutePays
    <2>4. count = k
      <3>1. schedules'[id] = Executed(s)
        BY <1>1, <2>2 DEF ScheduleInv, ScheduleTypeOK
      <3>2. Executed(s).remaining_runs = s.remaining_runs - k
        BY <2>2, ExecutedRecord
      <3>3. s.remaining_runs \in Nat
        <4>1. s.remaining_runs \in 0 .. U32Max
          BY <2>2 DEF ScheduleRecord
        <4> QED
          BY <4>1, RegistryAssumption
      <3> HIDE DEF s, k
      <3>4. s.remaining_runs - (s.remaining_runs - k) = k
        BY <2>3, <3>3
      <3> QED
        BY <3>1, <3>2, <3>4
    <2> HIDE DEF k, count, amount, funder
    <2>5. /\ \A a \in Holders : ShareOf(members, amount, a) \in Nat
          /\ \A a \in Holders \ {funder} : balance'[t][a] - balance[t][a] =
                k * ShareOf(members, amount, a)
          /\ balance'[t][funder] - balance[t][funder] =
                k * (ShareOf(members, amount, funder) - amount)
          /\ SumFunction(each) = amount
      BY <1>1, <2>3, PayEffect
    <2> HIDE DEF s, t, members
    <2>6. each \in [Holders -> Int]
      BY <2>5
    <2>7. share = [a \in Holders |-> count * each[a]]
      OBVIOUS
    <2>8. SumFunction(share) = count * amount
      <3>1. SumFunction([a \in Holders |-> count * each[a]])
                = count * SumFunction(each)
        <4> HIDE DEF each
        <4>1. count \in Int
          BY <2>3, <2>4
        <4> QED
          BY <2>6, <4>1, HoldersFinite, SumScale
      <3> QED
        BY <2>5, <2>7, <3>1
    <2>9. ASSUME NEW a \in Holders \ {funder}
          PROVE  gain[a] = share[a]
      <3>1. balance'[t][a] - balance[t][a] = k * ShareOf(members, amount, a)
        BY <2>5
      <3> QED
        BY <2>4, <3>1
    <2>10. gain[funder] = share[funder] - count * amount
      <3> DEFINE x == ShareOf(members, amount, funder)
      <3>1. funder \in Holders
        BY <2>3, HoldersFinite
      <3>2. x \in Nat /\ balance'[t][funder] - balance[t][funder] = k * (x - amount)
        BY <2>5, <3>1
      <3> HIDE DEF x
      <3>3. k * (x - amount) = k * x - k * amount
        BY <2>3, <3>2, Distributes
      <3> QED
        BY <2>4, <3>1, <3>2, <3>3 DEF x
    <2> HIDE DEF gain, share
    <2>11. /\ SumFunction(share) = count * amount
           /\ \A a \in Holders \ {funder} : gain[a] = share[a]
           /\ gain[funder] = share[funder] - count * amount
      BY <2>8, <2>9, <2>10
    <2> QED
      BY <2>11 DEF gain, share, count, s, t, members, amount, funder
  <1>2. ScheduleInv /\ MoneyInv /\ [ScheduleNext]_allScheduleVars
            => [\A id \in Ids : Runs(id) => Paid(id)]_allScheduleVars
    BY <1>1
  <1> QED
    BY <1>2, ScheduleInvariant, ScheduleMoney, PTL DEF ScheduleSpec, RunsArePaid

-----------------------------------------------------------------------------
(* Conservation: no operation of the contract makes tokens, loses any or   *)
(* overdraws an account, its own custody included.                         *)

\* The tokens of one currency, spread over its holders.
Spread(b) ==
    /\ b \in [Holders -> Int]
    /\ \A a \in Holders : b[a] >= 0
    /\ SumFunction(b) = Supply

TokensConserved == \A t \in Token : Spread(balance[t])

LEMMA InitConserved == PaymentsInit => TokensConserved
  <1> SUFFICES ASSUME PaymentsInit, NEW t \in Token PROVE Spread(balance[t])
    BY DEF TokensConserved
  <1>1. /\ balance[t] \in [Holders -> 0 .. Supply]
        /\ SumFunction(balance[t]) = Supply
    BY DEF PaymentsInit
  <1>2. \A n \in 0 .. Supply : n \in Int /\ n >= 0
    BY PaymentsAssumption
  <1>3. \A a \in Holders : balance[t][a] \in Int /\ balance[t][a] >= 0
    BY <1>1, <1>2
  <1>4. balance[t] \in [Holders -> Int]
    BY <1>1, <1>3
  <1> QED
    BY <1>1, <1>3, <1>4 DEF Spread

LEMMA OneTokenConserved ==
    ASSUME TokensConserved, BalanceInv, NEW t \in Token, NEW b, Spread(b),
           balance' = [balance EXCEPT ![t] = b]
    PROVE  TokensConserved'
  <1>1. ASSUME NEW u \in Token PROVE Spread(balance'[u])
    BY DEF TokensConserved, BalanceInv
  <1> QED
    BY <1>1 DEF TokensConserved, Spread

(* A transfer takes from one holder what it gives to another.              *)
LEMMA MovedSpread ==
    ASSUME NEW b, Spread(b), NEW from \in Holders, NEW to \in Holders,
           NEW amount \in Nat, b[from] >= amount
    PROVE  Spread(Moved(b, from, to, amount))
  <1> DEFINE d == [b EXCEPT ![from] = b[from] - amount]
             m == Moved(b, from, to, amount)
  <1>1. b \in [Holders -> Int] /\ SumFunction(b) = Supply /\ Supply \in Int
    BY PaymentsAssumption DEF Spread
  <1>2. /\ d \in [Holders -> Int] /\ d[from] = b[from] - amount
        /\ \A a \in Holders \ {from} : d[a] = b[a]
    BY <1>1
  <1>3. m = [d EXCEPT ![to] = d[to] + amount]
    BY DEF Moved
  <1> HIDE DEF d, m
  <1>4. /\ m \in [Holders -> Int] /\ m[to] = d[to] + amount
        /\ \A a \in Holders \ {to} : m[a] = d[a]
    BY <1>2, <1>3
  <1>5. SumFunction(d) = SumFunction(b) - b[from] + d[from]
    BY <1>1, <1>2, HoldersFinite, SumChange
  <1>6. SumFunction(m) = SumFunction(d) - d[to] + m[to]
    BY <1>2, <1>4, HoldersFinite, SumChange
  <1>7. SumFunction(m) = Supply
    <2>1. b[from] \in Int /\ d[to] \in Int
      BY <1>1, <1>2
    <2>2. SumFunction(d) = Supply - amount
      BY <1>1, <1>2, <1>5, <2>1
    <2> QED
      BY <1>1, <1>4, <1>6, <2>1, <2>2
  <1>8. ASSUME NEW a \in Holders PROVE m[a] >= 0
    <2>1. \A x \in Holders : d[x] >= 0 /\ d[x] \in Int
      BY <1>1, <1>2 DEF Spread
    <2> QED
      BY <1>4, <2>1
  <1> QED
    BY <1>4, <1>7, <1>8 DEF Spread, m

(* A payer gives, each time, what the members get together.                *)
LEMMA PaidSpread ==
    ASSUME MoneyInv, TokensConserved, NEW id \in Ids, NEW from \in Address,
           NEW amount \in Nat, NEW times \in Nat,
           Payable(id, from, amount, times), Pay(id, from, amount, times)
    PROVE  TokensConserved'
  <1> DEFINE t == GroupOf(id).payment_token
             members == GroupOf(id).members
             share == [a \in Holders |-> ShareOf(members, amount, a)]
             b == balance[t]
             n == balance'[t]
             c == [a \in Holders |-> b[a] + times * share[a]]
  <1>1. /\ BalanceInv' /\ t \in Token
        /\ \A u \in Token \ {t} : balance'[u] = balance[u]
        /\ \A a \in Holders : ShareOf(members, amount, a) \in Nat
        /\ \A a \in Holders \ {from} : n[a] - b[a] = times * ShareOf(members, amount, a)
        /\ n[from] - b[from] = times * (ShareOf(members, amount, from) - amount)
        /\ SumFunction(share) = amount
    BY PayEffect
  <1>2. from \in Holders /\ b[from] >= amount * times
    BY HoldersFinite DEF Payable
  <1> HIDE DEF t, members
  <1>3. Spread(b)
    BY <1>1 DEF TokensConserved
  <1>4. b \in [Holders -> Int] /\ n \in [Holders -> Int]
    BY <1>1, <1>3 DEF Spread, BalanceInv
  <1>5. share \in [Holders -> Nat] /\ share \in [Holders -> Int]
    BY <1>1
  <1>6. /\ \A a \in Holders \ {from} : n[a] - b[a] = times * share[a]
        /\ n[from] - b[from] = times * (share[from] - amount)
    BY <1>1, <1>2
  <1> DEFINE k == [a \in Holders |-> times * share[a]]
  <1> HIDE DEF b, n, share
  <1>7. \A a \in Holders : times * share[a] \in Nat
    BY <1>5
  <1>8. c \in [Holders -> Int] /\ k \in [Holders -> Int]
    BY <1>4, <1>7
  <1>9. \A a \in Holders : c[a] = b[a] + k[a]
    OBVIOUS
  <1>10. SumFunction(k) = times * amount
    BY <1>1, <1>5, HoldersFinite, SumScale
  <1>11. SumFunction(c) = SumFunction(b) + SumFunction(k)
    <2> HIDE DEF c, k
    <2> QED
      BY <1>4, <1>8, <1>9, HoldersFinite, SumAdd
  <1>12. \A a \in Holders \ {from} : n[a] = c[a]
    BY <1>4, <1>6, <1>7
  <1>13. n[from] = c[from] - times * amount
    <2>1. times * (share[from] - amount) = times * share[from] - times * amount
      BY <1>2, <1>5, Distributes
    <2> QED
      BY <1>2, <1>4, <1>6, <1>7, <2>1
  <1>14. \A a \in Holders : c[a] >= b[a]
    BY <1>4, <1>7
  <1> HIDE DEF c, k
  <1>15. SumFunction(n) = SumFunction(c) - c[from] + n[from]
    BY <1>2, <1>4, <1>8, <1>12, HoldersFinite, SumChange
  <1>16. SumFunction(n) = Supply
    <2> DEFINE p == times * amount
    <2>1. c[from] \in Int /\ Supply \in Int /\ SumFunction(b) = Supply /\ p \in Int
      BY <1>2, <1>3, <1>8, PaymentsAssumption DEF Spread
    <2>2. n[from] = c[from] - p /\ SumFunction(c) = Supply + p
      BY <1>10, <1>11, <1>13, <2>1
    <2> HIDE DEF p
    <2> QED
      BY <1>15, <2>1, <2>2
  <1>17. ASSUME NEW a \in Holders PROVE n[a] >= 0
    <2>1. b[a] >= 0 /\ b[a] \in Int /\ c[a] \in Int /\ c[a] >= b[a]
      BY <1>3, <1>8, <1>14 DEF Spread
    <2>2. CASE a # from
      BY <1>12, <2>1, <2>2
    <2>3. CASE a = from
      <3>1. amount * times = times * amount /\ times * amount \in Int
        OBVIOUS
      <3> QED
        BY <1>2, <1>13, <2>1, <2>3, <3>1
    <2> QED
      BY <2>2, <2>3
  <1>18. Spread(n)
    BY <1>4, <1>16, <1>17 DEF Spread
  <1>19. \A u \in Token : Spread(balance'[u])
    BY <1>1, <1>18 DEF n, TokensConserved
  <1> QED
    BY <1>19 DEF TokensConserved, Spread

LEMMA TransferConserves ==
    ASSUME MoneyInv, TokensConserved, NEW t \in Token, NEW from \in Holders,
           NEW to \in Holders, NEW amount \in Nat, balance[t][from] >= amount,
           balance' = [balance EXCEPT ![t] = Moved(balance[t], from, to, amount)]
    PROVE  TokensConserved'
  <1>1. Spread(balance[t])
    BY DEF TokensConserved
  <1>2. Spread(Moved(balance[t], from, to, amount))
    BY <1>1, MovedSpread
  <1> QED
    BY <1>2, OneTokenConserved DEF MoneyInv

LEMMA PaymentsConserve ==
    ASSUME MoneyInv, TokensConserved, PaymentsNext
    PROVE  TokensConserved'
  <1>1. CASE UNCHANGED balance
    BY <1>1 DEF TokensConserved, Spread
  <1>2. ASSUME NEW id \in Ids, NEW from \in Address, NEW amount \in Amounts,
               Distribute(id, from, amount)
        PROVE  TokensConserved'
    <2>1. amount \in Nat /\ 1 \in Nat
      BY <1>2, PaymentsAssumption DEF Distribute
    <2> QED
      BY <1>2, <2>1, PaidSpread DEF Distribute
  <1>3. ASSUME NEW t \in Token, NEW from \in Address, NEW to \in Holders,
               NEW amount \in Amounts, Transfer(t, from, to, amount)
        PROVE  TokensConserved'
    <2>1. amount \in Nat /\ from \in Holders
      BY <1>3, PaymentsAssumption, HoldersFinite DEF Transfer
    <2> QED
      BY <1>3, <2>1, TransferConserves DEF Transfer
  <1> QED
    BY <1>1, <1>2, <1>3 DEF PaymentsNext

LEMMA DepositConserves ==
    ASSUME EscrowInv, TokensConserved, NEW id \in Ids, NEW from \in Address,
           NEW amount \in Amounts, Deposit(id, from, amount)
    PROVE  TokensConserved'
  <1> DEFINE t == GroupOf(id).payment_token
  <1>1. /\ amount \in Nat \ {0} /\ t \in Token
        /\ balance' = [balance EXCEPT ![t] = Moved(balance[t], from, Self, amount)]
    BY DepositEffect
  <1>2. balance[t][from] >= amount * 1
    BY DEF Deposit, Payable
  <1> HIDE DEF t
  <1>3. amount * 1 = amount /\ from \in Holders /\ Self \in Holders
    BY <1>1, HoldersFinite
  <1>4. balance[t][from] >= amount
    BY <1>2, <1>3
  <1> QED
    BY <1>1, <1>3, <1>4, TransferConserves DEF EscrowInv

LEMMA ClaimConserves ==
    ASSUME EscrowInv, TokensConserved, NEW id \in Ids, NEW member \in Address,
           NEW to \in Holders, ClaimTo(id, member, to)
    PROVE  TokensConserved'
  <1> DEFINE t == GroupOf(id).payment_token
             paid == claimable[id][member]
  <1>1. /\ paid \in Nat \ {0} /\ t \in Token
        /\ balance' = [balance EXCEPT ![t] = Moved(balance[t], Self, to, paid)]
    BY ClaimEffect
  <1>2. balance[t][Self] >= paid
    BY DEF ClaimTo, CanClaim
  <1> HIDE DEF t, paid
  <1> QED
    BY <1>1, <1>2, HoldersFinite, TransferConserves DEF EscrowInv

(* However deposits, claims, distributions and transfers follow each       *)
(* other, each token's balances add up to what they were at first, none    *)
(* below zero: a split's rounding neither makes tokens nor strands any.    *)
THEOREM EscrowConserves == EscrowSpec => []TokensConserved
  <1>1. EscrowInit => TokensConserved
    BY InitConserved DEF EscrowInit
  <1>2. EscrowInv /\ TokensConserved /\ [EscrowNext]_allEscrowVars => TokensConserved'
    <2> SUFFICES ASSUME EscrowInv, TokensConserved, [EscrowNext]_allEscrowVars
                 PROVE  TokensConserved'
      OBVIOUS
    <2>1. CASE PaymentsNext
      BY <2>1, PaymentsConserve DEF EscrowInv
    <2>2. CASE EscrowStep
      BY <2>2, DepositConserves, ClaimConserves, SelfAndAddresses DEF EscrowStep, Claim
    <2>3. CASE UNCHANGED balance
      BY <2>3 DEF TokensConserved, Spread
    <2> QED
      BY <2>1, <2>2, <2>3 DEF EscrowNext, allEscrowVars
  <1> QED
    BY <1>1, <1>2, EscrowInvariant, PTL DEF EscrowSpec

(* The same of schedules, several runs in one execution included.          *)
THEOREM SchedulesConserve == ScheduleSpec => []TokensConserved
  <1>1. ScheduleInit => TokensConserved
    BY InitConserved DEF ScheduleInit
  <1>2. ScheduleInv /\ MoneyInv /\ TokensConserved /\ [ScheduleNext]_allScheduleVars
            => TokensConserved'
    <2> SUFFICES ASSUME ScheduleInv, MoneyInv, TokensConserved,
                        [ScheduleNext]_allScheduleVars
                 PROVE  TokensConserved'
      OBVIOUS
    <2>1. CASE UNCHANGED balance
      BY <2>1 DEF TokensConserved, Spread
    <2>2. ASSUME NEW id \in Ids, NEW caller, NEW signers,
                 ExecuteSchedule(id, caller, signers)
          PROVE  TokensConserved'
      BY <2>2, ExecutePays, PaidSpread
    <2> QED
      BY <2>1, <2>2, PaymentsConserve
         DEF ScheduleNext, ScheduleStep, CreateSchedule, CancelSchedule, Tick,
             allScheduleVars
  <1> QED
    BY <1>1, <1>2, ScheduleInvariant, ScheduleMoney, PTL DEF ScheduleSpec

-----------------------------------------------------------------------------
(* Payments and the registry.                                              *)

LEMMA PaymentsStep ==
    ASSUME PaymentsNext
    PROVE  [Next]_registryVars
  BY DEF PaymentsNext, Distribute, Transfer

(* Deposits, claims and distributions are behaviours of the group          *)
(* registry: nothing that is proved of it is lost when tokens move.        *)
THEOREM EscrowKeepsRegistry == EscrowSpec => Spec
  <1>1. EscrowInit => Init
    BY DEF EscrowInit
  <1>2. [EscrowNext]_allEscrowVars => [Next]_registryVars
    <2>1. CASE UNCHANGED allEscrowVars
      BY <2>1 DEF allEscrowVars
    <2>2. CASE EscrowNext
      BY <2>2, PaymentsStep DEF EscrowNext, EscrowStep, Deposit, Claim, ClaimTo
    <2> QED
      BY <2>1, <2>2
  <1> QED
    BY <1>1, <1>2, PTL DEF EscrowSpec, Spec

(* So are the recurring schedules and their keepers' executions.           *)
THEOREM SchedulesKeepRegistry == ScheduleSpec => Spec
  <1>1. ScheduleInit => Init
    BY DEF ScheduleInit
  <1>2. [ScheduleNext]_allScheduleVars => [Next]_registryVars
    <2>1. CASE UNCHANGED allScheduleVars
      BY <2>1 DEF allScheduleVars
    <2>2. CASE ScheduleNext
      BY <2>2, PaymentsStep DEF ScheduleNext, ScheduleStep, CreateSchedule, ExecuteSchedule,
                                CancelSchedule, Tick
    <2> QED
      BY <2>1, <2>2
  <1> QED
    BY <1>1, <1>2, PTL DEF ScheduleSpec, Spec
=============================================================================
