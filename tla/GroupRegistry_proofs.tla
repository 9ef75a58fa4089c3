------------------------ MODULE GroupRegistry_proofs ------------------------
(***************************************************************************)
(* What holds of the registry for every set of groups and accounts, every  *)
(* member list, batch limit and sequence of releases.                      *)
(***************************************************************************)
EXTENDS GroupRegistry, Shares_proofs

-----------------------------------------------------------------------------
(* Helpers of the registry's operations.                                   *)

LEMMA MinOfTwo ==
    ASSUME NEW a \in Nat, NEW b \in Nat
    PROVE  /\ Min({a, b}) = IF a <= b THEN a ELSE b
           /\ Min({a, b}) \in Nat
  BY DEF Min

(* The optimistic concurrency counter never leaves its range.              *)
LEMMA BumpedRange ==
    ASSUME NEW v \in 1 .. U32Max
    PROVE  Bumped(v) \in 1 .. U32Max
  BY RegistryAssumption DEF Bumped

(* A stored record decodes to one of the current layout that still carries *)
(* a version, and so does what migrate and the member operations write.    *)
LEMMA DecodedRecord ==
    ASSUME NEW r, IsGroupRecord(r)
    PROVE  /\ IsGroupRecord(Decoded(r))
           /\ Decoded(r).group_version \in 1 .. U32Max
  BY RegistryAssumption DEF IsGroupRecord, Decoded

LEMMA MigratedRecord ==
    ASSUME NEW r, IsGroupRecord(r), compiledVersion \in 1 .. LastRelease
    PROVE  /\ IsGroupRecord(Migrated(r))
           /\ Migrated(r).creator = r.creator
           /\ Migrated(r).layout = 8
           /\ Migrated(r).version = compiledVersion
           /\ Decoded(Migrated(r)).members = Decoded(r).members
           /\ Decoded(Migrated(r)).group_version = Decoded(r).group_version
  BY RegistryAssumption DEF IsGroupRecord, Decoded, Migrated

LEMMA RecordPresent ==
    ASSUME NEW r, IsGroupRecord(r)
    PROVE  r # NoGroup
  BY DEF IsGroupRecord, NoGroup

(* Storing records under keys that already have one, by the same creators, *)
(* leaves the indexes right.                                               *)
LEMMA RewriteKeepsIndexes ==
    ASSUME IndexesAgree, UNCHANGED indexVars, DOMAIN groups' = DOMAIN groups,
           \A g \in Ids : groups'[g] # NoGroup <=> groups[g] # NoGroup,
           \A g \in StoredIds : groups'[g].creator = groups[g].creator
    PROVE  StoredIds' = StoredIds /\ IndexesAgree'
  <1>1. StoredIds' = StoredIds
    BY DEF StoredIds, Stored
  <1>2. \A a \in Address : {g \in StoredIds' : groups'[g].creator = a}
                            = {g \in StoredIds : groups[g].creator = a}
    BY <1>1
  <1> QED
    BY <1>1, <1>2 DEF IndexesAgree, indexVars, StoredIds

(* Appending an identifier to an index that does not hold it.              *)
LEMMA AppendedIndex ==
    ASSUME NEW s \in Seq(Ids), IsInjective(s), NEW id \in Ids, id \notin Range(s)
    PROVE  /\ IsInjective(Append(s, id))
           /\ Range(Append(s, id)) = Range(s) \cup {id}
  <1>1. /\ Len(s) \in Nat /\ DOMAIN s = 1 .. Len(s)
        /\ Len(Append(s, id)) = Len(s) + 1
        /\ DOMAIN Append(s, id) = 1 .. Len(s) + 1
        /\ \A i \in 1 .. Len(s) : Append(s, id)[i] = s[i]
        /\ Append(s, id)[Len(s) + 1] = id
    BY AppendProperties, LenProperties
  <1>2. IsInjective(Append(s, id))
    BY <1>1 DEF IsInjective, Range
  <1>3. Range(Append(s, id)) = Range(s) \cup {id}
    BY <1>1 DEF Range
  <1> QED
    BY <1>2, <1>3

-----------------------------------------------------------------------------
(* The inductive invariants. StorageInv holds whatever operators do;       *)
(* MigrationInv, which needs it, where they follow the runbook. What makes *)
(* MigrationSound inductive: the index of all groups misses none, and a    *)
(* contract without an administrator, whose initialisation stamps the      *)
(* schema, has no group to migrate.                                        *)

StorageInv == TypeOK /\ IndexesAgree

Uninitialised ==
    admin = NoAddress => StoredIds = {} /\ schemaVersion = 0 /\ migrationCursor = 0

MigrationInv == MigrationSound /\ Uninitialised

Preserved == StorageInv' /\ (MigrationInv => MigrationInv')

LEMMA InitIndexes ==
    ASSUME NEW s, s \in IndexLists
    PROVE  s \in Seq(Ids)
  <1>1. PICK ids \in SUBSET StoredIds : s \in SetToSeqs(ids)
    BY DEF IndexLists
  <1>2. ids \subseteq Ids
    BY <1>1 DEF StoredIds
  <1>3. Cardinality(ids) \in Nat
    BY <1>2, RegistryAssumption, FS_Subset, FS_CardinalityType
  <1>4. s \in [1 .. Cardinality(ids) -> Ids]
    BY <1>1, <1>2 DEF SetToSeqs
  <1> QED
    BY <1>3, <1>4, IsASeq

(* A deployment, new or of an earlier release, starts in the invariant.    *)
LEMMA InitInv == Init => StorageInv /\ MigrationInv
  <1> SUFFICES ASSUME Init PROVE StorageInv /\ MigrationInv
    OBVIOUS
  <1> USE RegistryAssumption
  <1>1. CASE FreshInit
    <2>1. StoredIds = {}
      BY <1>1 DEF FreshInit, StoredIds, Stored
    <2>2. TypeOK
      <3>1. /\ allGroups \in Seq(Ids)
            /\ creatorGroups \in [Address -> Seq(Ids)]
        BY <1>1, EmptySeq DEF FreshInit
      <3>2. paused \in BOOLEAN
        BY <1>1 DEF FreshInit
      <3> QED
        BY <1>1, <2>1, <3>1, <3>2 DEF Init, FreshInit, TypeOK
    <2>3. IndexesAgree
      BY <1>1, <2>1 DEF FreshInit, IndexesAgree, IsInjective, Range
    <2>4. MigrationSound
      BY <1>1, <2>1 DEF Init, FreshInit, MigrationSound, DoneMeansMigrated,
                        MigrationCurrent
    <2> QED
      BY <1>1, <2>1, <2>2, <2>3, <2>4
         DEF StorageInv, MigrationInv, Uninitialised, FreshInit, Init
  <1>2. CASE UpgradedInit
    <2>1. ~MigrationCurrent /\ admin # NoAddress
      BY <1>2 DEF Init, UpgradedInit, MigrationCurrent
    <2>2. ASSUME NEW g \in StoredIds PROVE IsGroupRecord(groups[g])
      <3>1. groups[g] \in LegacyRecord(schemaVersion)
        BY <1>2 DEF UpgradedInit, StoredIds, Stored
      <3>2. PICK a \in Address, t \in Token, ms \in MemberLists :
                groups[g] = [layout |-> 5 + schemaVersion, creator |-> a,
                    payment_token |-> t, members |-> ms,
                    version |-> IF schemaVersion = 1 THEN 0 ELSE schemaVersion,
                    group_version |-> 0]
        BY <3>1 DEF LegacyRecord
      <3> QED
        BY <1>2, <3>2 DEF UpgradedInit, IsGroupRecord
    <2>3. /\ allGroups \in Seq(Ids)
          /\ creatorGroups \in [Address -> Seq(Ids)]
      BY <1>2, InitIndexes DEF UpgradedInit
    <2>4. TypeOK
      BY <1>2, <2>2, <2>3 DEF Init, UpgradedInit, TypeOK
    <2>5. MigrationSound
      BY <2>1, <2>3, LenProperties DEF Init, MigrationSound, DoneMeansMigrated
    <2> QED
      BY <1>2, <2>1, <2>4, <2>5
         DEF StorageInv, MigrationInv, Uninitialised, UpgradedInit
  <1> QED
    BY <1>1, <1>2 DEF Init

-----------------------------------------------------------------------------
(* Steps.                                                                  *)

(* Rewriting the members of a group of a migrated contract.                *)
LEMMA StoreMembersStep ==
    ASSUME StorageInv, MigrationCurrent, NEW id \in Ids, Stored(id), NEW members,
           StoreMembers(id, members)
    PROVE  Preserved
  <1> DEFINE r == Edited(groups[id], members)
  <1> USE DEF StorageInv
  <1>1. groups' = [groups EXCEPT ![id] = r] /\ DOMAIN groups = Ids
    BY DEF StoreMembers, TypeOK
  <1>2. UNCHANGED <<adminVars, schemaVars, indexVars>>
    BY DEF StoreMembers
  <1>3. IsGroupRecord(groups[id])
    BY DEF TypeOK, StoredIds
  <1>4. /\ IsGroupRecord(r)
        /\ r.creator = groups[id].creator
        /\ r.layout = 8 /\ r.version = compiledVersion
    <2>1. compiledVersion \in 1 .. LastRelease
      BY RegistryAssumption DEF TypeOK
    <2>2. Bumped(Decoded(groups[id]).group_version) \in 1 .. U32Max
      BY <1>3, DecodedRecord, BumpedRange
    <2> QED
      BY <1>3, <2>1, <2>2 DEF IsGroupRecord, Edited
  <1> HIDE DEF r
  <1>5. r # NoGroup
    BY <1>4, RecordPresent
  <1>6. StoredIds' = StoredIds /\ IndexesAgree'
    <2>1. \A g \in Ids : groups'[g] # NoGroup <=> groups[g] # NoGroup
      BY <1>1, <1>5 DEF Stored
    <2>2. \A g \in StoredIds : groups'[g].creator = groups[g].creator
      BY <1>1, <1>4 DEF StoredIds
    <2> QED
      BY <1>1, <1>2, <2>1, <2>2, RewriteKeepsIndexes
  <1>7. TypeOK'
    <2>1. \A g \in StoredIds' : IsGroupRecord(groups'[g])
      BY <1>1, <1>4, <1>6 DEF TypeOK, StoredIds
    <2> QED
      BY <1>1, <1>2, <2>1 DEF TypeOK, adminVars, schemaVars, indexVars
  <1>8. ASSUME MigrationInv PROVE MigrationSound'
    <2> USE <1>8 DEF MigrationInv
    <2>1. \A g \in StoredIds : IsCurrent(g)'
      BY <1>1, <1>2, <1>4
         DEF MigrationSound, DoneMeansMigrated, IsCurrent, StoredIds, schemaVars
    <2>2. migrationCursor' = 0 /\ allGroups' \in Seq(Ids)
      BY <1>2 DEF MigrationSound, schemaVars, indexVars, TypeOK
    <2> QED
      BY <1>6, <2>1, <2>2, LenProperties
         DEF MigrationSound, DoneMeansMigrated
  <1>9. ASSUME MigrationInv PROVE Uninitialised'
    BY <1>2, <1>6, <1>9 DEF MigrationInv, Uninitialised, adminVars, schemaVars
  <1> QED
    BY <1>6, <1>7, <1>8, <1>9 DEF Preserved, MigrationInv

(* Creating a group of a migrated contract.                                *)
LEMMA CreateStep ==
    ASSUME StorageInv, NEW id \in Ids, NEW creator \in Address, NEW token \in Token,
           Create(id, creator, token)
    PROVE  Preserved
  <1> DEFINE r == [layout |-> 8, creator |-> creator, payment_token |-> token,
                   members |-> <<>>, version |-> compiledVersion,
                   group_version |-> 1]
  <1> USE DEF StorageInv
  <1>1. /\ ~Stored(id) /\ MigrationCurrent
        /\ groups' = [groups EXCEPT ![id] = r]
        /\ creatorGroups' = [creatorGroups EXCEPT ![creator] = Append(@, id)]
        /\ allGroups' = Append(allGroups, id)
        /\ UNCHANGED <<adminVars, schemaVars>>
    BY DEF Create, Creatable
  <1>2. /\ DOMAIN groups = Ids
        /\ allGroups \in Seq(Ids)
        /\ creatorGroups \in [Address -> Seq(Ids)]
    BY DEF TypeOK
  <1>3. IsGroupRecord(r) /\ r # NoGroup
    <2>1. IsGroupRecord(r)
      BY RegistryAssumption DEF TypeOK, IsGroupRecord
    <2> QED
      BY <2>1, RecordPresent
  <1>4. r.creator = creator /\ r.layout = 8 /\ r.version = compiledVersion
    OBVIOUS
  <1> HIDE DEF r
  <1>5. StoredIds' = StoredIds \cup {id} /\ id \notin StoredIds
    BY <1>1, <1>2, <1>3 DEF StoredIds, Stored
  <1>6. TypeOK'
    <2>1. \A g \in StoredIds' : IsGroupRecord(groups'[g])
      BY <1>1, <1>2, <1>3, <1>5 DEF TypeOK, StoredIds
    <2>2. allGroups' \in Seq(Ids)
      BY <1>1, <1>2, AppendProperties
    <2>3. creatorGroups' \in [Address -> Seq(Ids)]
      BY <1>1, <1>2, AppendProperties
    <2> QED
      BY <1>1, <2>1, <2>2, <2>3 DEF TypeOK, adminVars, schemaVars
  <1>7. IndexesAgree'
    <2>1. IsInjective(allGroups)' /\ Range(allGroups)' = StoredIds'
      BY <1>1, <1>2, <1>5, AppendedIndex DEF IndexesAgree
    <2>2. ASSUME NEW a \in Address
          PROVE  /\ IsInjective(creatorGroups'[a])
                 /\ Range(creatorGroups'[a])
                        = {g \in StoredIds' : groups'[g].creator = a}
      <3>1. CASE a = creator
        <4>1. creatorGroups'[a] = Append(creatorGroups[a], id)
          BY <1>1, <1>2, <3>1
        <4>2. /\ creatorGroups[a] \in Seq(Ids)
              /\ IsInjective(creatorGroups[a])
              /\ Range(creatorGroups[a])
                    = {g \in StoredIds : groups[g].creator = a}
          BY <1>2 DEF IndexesAgree
        <4>3. /\ IsInjective(creatorGroups'[a])
              /\ Range(creatorGroups'[a]) = Range(creatorGroups[a]) \cup {id}
          BY <4>1, <4>2, <1>5, AppendedIndex
        <4>4. {g \in StoredIds' : groups'[g].creator = a}
                = {g \in StoredIds : groups[g].creator = a} \cup {id}
          BY <1>1, <1>2, <1>4, <1>5, <3>1 DEF StoredIds
        <4> QED
          BY <4>2, <4>3, <4>4
      <3>2. CASE a # creator
        <4>1. creatorGroups'[a] = creatorGroups[a]
          BY <1>1, <1>2, <3>2
        <4>2. {g \in StoredIds' : groups'[g].creator = a}
                = {g \in StoredIds : groups[g].creator = a}
          BY <1>1, <1>2, <1>4, <1>5, <3>2 DEF StoredIds
        <4> QED
          BY <4>1, <4>2 DEF IndexesAgree
      <3> QED
        BY <3>1, <3>2
    <2> QED
      BY <2>1, <2>2 DEF IndexesAgree
  <1>8. ASSUME MigrationInv PROVE MigrationSound'
    <2> USE <1>8 DEF MigrationInv
    <2>1. \A g \in StoredIds' : IsCurrent(g)'
      BY <1>1, <1>2, <1>4, <1>5
         DEF MigrationSound, DoneMeansMigrated, IsCurrent, StoredIds, schemaVars
    <2>2. migrationCursor' = 0 /\ allGroups' \in Seq(Ids)
      BY <1>1, <1>6 DEF MigrationSound, schemaVars, TypeOK
    <2> QED
      BY <2>1, <2>2, LenProperties DEF MigrationSound, DoneMeansMigrated
  <1>9. ASSUME MigrationInv PROVE Uninitialised'
    <2> USE <1>9 DEF MigrationInv
    <2>1. admin # NoAddress
      BY <1>1, RegistryAssumption
         DEF Uninitialised, MigrationCurrent, TypeOK
    <2> QED
      BY <1>1, <2>1 DEF Uninitialised, adminVars
  <1> QED
    BY <1>6, <1>7, <1>8, <1>9 DEF Preserved, MigrationInv

(* What a batch of migrate does to the stored groups: those of the batch   *)
(* are brought to the installed release, and a reader decodes every group  *)
(* as before.                                                              *)
LEMMA MigrateBatch ==
    ASSUME StorageInv, NEW limit \in BatchLimits,
           groups' = [g \in Ids |-> IF g \in Batch(limit) /\ Stored(g)
                                    THEN Migrated(groups[g]) ELSE groups[g]]
    PROVE  /\ \A g \in Ids : groups'[g] # NoGroup <=> groups[g] # NoGroup
           /\ \A g \in StoredIds :
                /\ IsGroupRecord(groups'[g])
                /\ groups'[g].creator = groups[g].creator
                /\ IsCurrent(g) \/ g \in Batch(limit)
                        => groups'[g].layout = 8
                            /\ groups'[g].version = compiledVersion
                /\ Decoded(groups'[g]).members = GroupOf(g).members
                /\ Decoded(groups'[g]).group_version = GroupOf(g).group_version
  <1>1. compiledVersion \in 1 .. LastRelease
    BY RegistryAssumption DEF StorageInv, TypeOK
  <1>2. ASSUME NEW g \in StoredIds
        PROVE  /\ IsGroupRecord(groups'[g])
               /\ groups'[g].creator = groups[g].creator
               /\ IsCurrent(g) \/ g \in Batch(limit)
                        => groups'[g].layout = 8
                            /\ groups'[g].version = compiledVersion
               /\ Decoded(groups'[g]).members = GroupOf(g).members
               /\ Decoded(groups'[g]).group_version = GroupOf(g).group_version
    <2>1. IsGroupRecord(groups[g]) /\ g \in Ids /\ Stored(g)
      BY DEF StorageInv, TypeOK, StoredIds
    <2>2. CASE g \in Batch(limit)
      <3>1. groups'[g] = Migrated(groups[g])
        BY <2>1, <2>2
      <3> QED
        BY <1>1, <2>1, <2>2, <3>1, MigratedRecord DEF GroupOf
    <2>3. CASE g \notin Batch(limit)
      <3>1. groups'[g] = groups[g]
        BY <2>1, <2>3
      <3> QED
        BY <2>1, <2>3, <3>1 DEF GroupOf, IsCurrent
    <2> QED
      BY <2>2, <2>3
  <1>3. \A g \in Ids : groups'[g] # NoGroup <=> groups[g] # NoGroup
    BY <1>2, RecordPresent DEF StoredIds, Stored
  <1> QED
    BY <1>2, <1>3

LEMMA MigrateStep ==
    ASSUME StorageInv, NEW caller \in Address, NEW limit \in BatchLimits,
           Migrate(caller, limit)
    PROVE  Preserved
  <1> USE DEF StorageInv
  <1> DEFINE end == BatchEnd(limit)
             B == [g \in Ids |-> IF g \in Batch(limit) /\ Stored(g)
                                 THEN Migrated(groups[g]) ELSE groups[g]]
  <1>1. /\ ~MigrationCurrent /\ IsAdmin(caller)
        /\ UNCHANGED <<adminVars, compiledVersion, indexVars>>
    BY DEF Migrate
  <1>2. /\ Len(allGroups) \in Nat /\ DOMAIN allGroups = 1 .. Len(allGroups)
        /\ migrationCursor \in Nat /\ limit \in Nat
        /\ Range(allGroups) = StoredIds
        /\ \A i \in DOMAIN allGroups : allGroups[i] \in StoredIds
    BY RegistryAssumption, LenProperties DEF TypeOK, IndexesAgree, Range
  <1>3. /\ end \in Nat
        /\ end = IF migrationCursor + limit <= Len(allGroups)
                 THEN migrationCursor + limit ELSE Len(allGroups)
    BY <1>2, MinOfTwo DEF BatchEnd
  <1> HIDE DEF end
  <1>4. Uninitialised'
    BY <1>1 DEF Uninitialised, IsAdmin, adminVars
  <1>5. CASE /\ migrationCursor >= Len(allGroups)
             /\ FinishMigration
             /\ UNCHANGED groups
    <2>1. MigrationInv => \A g \in StoredIds : IsCurrent(g)
      BY <1>2, <1>5 DEF MigrationInv, MigrationSound, Range
    <2>2. StoredIds' = StoredIds
      BY <1>5 DEF StoredIds, Stored
    <2>3. TypeOK'
      <3>1. schemaVersion' \in 0 .. compiledVersion' /\ migrationCursor' \in Nat
        BY <1>1, <1>5, RegistryAssumption DEF FinishMigration, TypeOK
      <3> QED
        BY <1>1, <1>5, <2>2, <3>1 DEF TypeOK, adminVars, indexVars
    <2>4. IndexesAgree'
      BY <1>1, <1>5, <2>2 DEF IndexesAgree, indexVars
    <2>5. MigrationInv => MigrationSound'
      BY <1>1, <1>2, <1>5, <2>1, <2>2
         DEF FinishMigration, MigrationSound, DoneMeansMigrated, IsCurrent,
             indexVars
    <2> QED
      BY <1>4, <2>3, <2>4, <2>5 DEF Preserved, MigrationInv
  <1>6. CASE /\ migrationCursor < Len(allGroups)
             /\ groups' = B
             /\ IF end = Len(allGroups) THEN FinishMigration
                                        ELSE SaveCursor(end)
    <2>1. /\ \A g \in Ids : groups'[g] # NoGroup <=> groups[g] # NoGroup
          /\ \A g \in StoredIds :
                /\ IsGroupRecord(groups'[g])
                /\ groups'[g].creator = groups[g].creator
                /\ IsCurrent(g) \/ g \in Batch(limit)
                        => groups'[g].layout = 8
                            /\ groups'[g].version = compiledVersion
      BY <1>6, MigrateBatch
    <2>2. StoredIds' = StoredIds /\ IndexesAgree'
      <3>1. DOMAIN groups' = DOMAIN groups
        BY <1>6 DEF TypeOK
      <3> QED
        BY <1>1, <2>1, <3>1, RewriteKeepsIndexes
    <2>3. ASSUME MigrationInv, NEW i \in DOMAIN allGroups, i <= end
          PROVE  IsCurrent(allGroups[i])'
      <3>1. CASE i <= migrationCursor
        BY <1>1, <1>2, <2>1, <2>3, <3>1
           DEF MigrationInv, MigrationSound, IsCurrent, indexVars
      <3>2. CASE i > migrationCursor
        <4>1. allGroups[i] \in Batch(limit)
          BY <1>2, <1>3, <2>3, <3>2 DEF Batch, end
        <4> QED
          BY <1>1, <1>2, <2>1, <4>1 DEF IsCurrent, indexVars
      <3> QED
        BY <1>2, <3>1, <3>2
    <2>4. TypeOK'
      <3>1. \A g \in StoredIds' : IsGroupRecord(groups'[g])
        BY <2>1, <2>2
      <3>2. schemaVersion' \in 0 .. compiledVersion' /\ migrationCursor' \in Nat
        BY <1>1, <1>3, <1>6, RegistryAssumption
           DEF FinishMigration, SaveCursor, TypeOK
      <3> QED
        BY <1>1, <1>6, <3>1, <3>2 DEF TypeOK, adminVars, indexVars
    <2>5. ASSUME MigrationInv PROVE MigrationSound'
      <3>1. CASE end = Len(allGroups)
        <4>1. \A g \in StoredIds : IsCurrent(g)'
          BY <1>1, <1>2, <2>3, <2>5, <3>1 DEF Range, IsCurrent, indexVars
        <4> QED
          BY <1>1, <1>2, <1>6, <2>2, <3>1, <4>1
             DEF FinishMigration, MigrationSound, DoneMeansMigrated, indexVars
      <3>2. CASE end # Len(allGroups)
        <4>1. migrationCursor' = end /\ ~MigrationCurrent'
          BY <1>1, <1>6, <3>2 DEF SaveCursor, MigrationCurrent
        <4> QED
          BY <1>1, <2>3, <2>5, <4>1
             DEF MigrationSound, DoneMeansMigrated, indexVars
      <3> QED
        BY <3>1, <3>2
    <2> QED
      BY <1>4, <2>2, <2>4, <2>5 DEF Preserved, MigrationInv
  <1> QED
    BY <1>5, <1>6 DEF Migrate, end

(* Handovers, pauses and upgrades touch no group.                          *)
LEMMA GroupsUntouched ==
    ASSUME StorageInv, UNCHANGED <<groups, indexVars>>
    PROVE  /\ StoredIds' = StoredIds /\ IndexesAgree'
           /\ \A g \in StoredIds' : IsGroupRecord(groups'[g])
           /\ DOMAIN groups' = Ids
           /\ allGroups' \in Seq(Ids)
           /\ creatorGroups' \in [Address -> Seq(Ids)]
  <1>1. StoredIds' = StoredIds
    BY DEF StoredIds, Stored
  <1>2. IndexesAgree'
    BY <1>1 DEF StorageInv, IndexesAgree, indexVars
  <1> QED
    BY <1>1, <1>2 DEF StorageInv, TypeOK, indexVars

LEMMA AdministrationStep ==
    ASSUME StorageInv, Administration
    PROVE  StorageInv' /\ (Runbook /\ MigrationInv => MigrationInv')
  <1> USE DEF StorageInv
  <1>1. ASSUME NEW a \in Address, InitContract(a)
        PROVE  Preserved
    <2>1. /\ admin = NoAddress /\ admin' = a /\ schemaVersion' = compiledVersion
          /\ paused' = FALSE
          /\ UNCHANGED <<pendingAdmin, migrationCursor, compiledVersion, groups,
                         indexVars>>
      BY <1>1 DEF InitContract
    <2>2. TypeOK'
      <3>1. paused' \in BOOLEAN
        BY <2>1
      <3>2. schemaVersion' \in 0 .. compiledVersion'
        BY <2>1, RegistryAssumption DEF TypeOK
      <3> QED
        BY <2>1, <3>1, <3>2, GroupsUntouched DEF TypeOK
    <2>3. ASSUME MigrationInv PROVE MigrationSound'
      <3>1. StoredIds = {} /\ migrationCursor = 0
        BY <2>1, <2>3 DEF MigrationInv, Uninitialised
      <3> QED
        BY <2>1, <2>2, <3>1, GroupsUntouched, LenProperties
           DEF MigrationSound, DoneMeansMigrated, TypeOK
    <2>4. Uninitialised'
      BY <2>1, RegistryAssumption DEF Uninitialised
    <2> QED
      BY <2>1, <2>2, <2>3, <2>4, GroupsUntouched DEF Preserved, MigrationInv
  <1>2. ASSUME /\ admin' \in Address \cup {NoAddress}
               /\ pendingAdmin' \in Address \cup {NoAddress}
               /\ paused' \in BOOLEAN
               /\ admin' = NoAddress => admin = NoAddress
               /\ UNCHANGED <<schemaVars, groups, indexVars>>
        PROVE  Preserved
    <2>1. TypeOK'
      BY <1>2, GroupsUntouched DEF TypeOK, schemaVars
    <2>2. MigrationSound => MigrationSound'
      BY <1>2, GroupsUntouched
         DEF MigrationSound, DoneMeansMigrated, MigrationCurrent, IsCurrent,
             schemaVars, indexVars
    <2>3. Uninitialised => Uninitialised'
      BY <1>2, GroupsUntouched DEF Uninitialised, schemaVars
    <2> QED
      BY <1>2, <2>1, <2>2, <2>3, GroupsUntouched DEF Preserved, MigrationInv
  <1>3. ASSUME NEW c \in Address, NEW a \in Address, ProposeAdmin(c, a)
        PROVE  Preserved
    BY <1>2, <1>3 DEF ProposeAdmin, TypeOK
  <1>4. ASSUME NEW c \in Address, AcceptAdmin(c)
        PROVE  Preserved
    BY <1>2, <1>4, RegistryAssumption DEF AcceptAdmin, TypeOK
  <1>5. ASSUME NEW c \in Address, CancelAdminProposal(c)
        PROVE  Preserved
    BY <1>2, <1>5 DEF CancelAdminProposal, TypeOK
  <1>6. ASSUME NEW c \in Address, Pause(c) \/ Unpause(c)
        PROVE  Preserved
    <2>1. paused' \in BOOLEAN
      BY <1>6 DEF Pause, Unpause
    <2> QED
      BY <1>2, <1>6, <2>1 DEF Pause, Unpause, TypeOK
  <1>7. ASSUME NEW c \in Address, NEW v \in compiledVersion .. LastRelease,
               Upgrade(c, v)
        PROVE  StorageInv' /\ (Runbook /\ MigrationInv => MigrationInv')
    <2>1. /\ compiledVersion' = v
          /\ UNCHANGED <<adminVars, schemaVersion, migrationCursor, groups,
                         indexVars>>
      BY <1>7 DEF Upgrade
    <2>2. TypeOK'
      <3>1. /\ compiledVersion' \in CURRENT_SCHEMA_VERSION .. LastRelease
            /\ schemaVersion' \in 0 .. compiledVersion'
        BY <2>1, RegistryAssumption DEF TypeOK
      <3> QED
        BY <2>1, <3>1, GroupsUntouched DEF TypeOK, adminVars
    <2>3. ASSUME MigrationSound, Runbook PROVE MigrationSound'
      <3>1. CASE v = compiledVersion
        BY <2>1, <2>3, <3>1, GroupsUntouched
           DEF MigrationSound, DoneMeansMigrated, MigrationCurrent, IsCurrent,
               indexVars
      <3>2. CASE v # compiledVersion
        <4>1. migrationCursor' = 0
          BY <2>1, <2>3, <3>2 DEF Runbook
        <4>2. ~MigrationCurrent'
          BY <2>1, <3>2, RegistryAssumption DEF MigrationCurrent, TypeOK
        <4> QED
          BY <2>2, <4>1, <4>2, LenProperties
             DEF MigrationSound, DoneMeansMigrated, TypeOK
      <3> QED
        BY <3>1, <3>2
    <2>4. Uninitialised => Uninitialised'
      BY <2>1, GroupsUntouched DEF Uninitialised, adminVars
    <2> QED
      BY <2>1, <2>2, <2>3, <2>4, GroupsUntouched DEF MigrationInv
  <1> QED
    BY <1>1, <1>3, <1>4, <1>5, <1>6, <1>7, MigrateStep
       DEF Administration, Preserved

(* What a reader decodes for a stored group is what it decoded before.     *)
Kept(g) ==
    /\ groups'[g] # NoGroup
    /\ Decoded(groups'[g]).creator = GroupOf(g).creator
    /\ Decoded(groups'[g]).members = GroupOf(g).members
    /\ Decoded(groups'[g]).group_version = GroupOf(g).group_version

LEMMA AdministrationKeeps ==
    ASSUME StorageInv, Administration, NEW g \in StoredIds
    PROVE  Kept(g)
  <1>1. CASE UNCHANGED groups
    BY <1>1 DEF Kept, StoredIds, Stored, GroupOf
  <1>2. ASSUME NEW c \in Address, NEW limit \in BatchLimits, Migrate(c, limit)
        PROVE  Kept(g)
    <2>1. CASE groups' = [h \in Ids |-> IF h \in Batch(limit) /\ Stored(h)
                                        THEN Migrated(groups[h]) ELSE groups[h]]
      <3>1. groups'[g].creator = groups[g].creator
        BY <2>1, MigrateBatch
      <3> QED
        BY <2>1, <3>1, MigrateBatch DEF Kept, StoredIds, Stored, GroupOf, Decoded
    <2> QED
      BY <1>1, <1>2, <2>1 DEF Migrate
  <1> QED
    BY <1>1, <1>2 DEF Administration, InitContract, ProposeAdmin, AcceptAdmin,
                      CancelAdminProposal, Pause, Unpause, Upgrade

(* Every member operation writes a group of a migrated contract whose       *)
(* version is the expected one.                                            *)
LEMMA EditStores ==
    ASSUME NEW id \in Ids, NEW expected, Edit(id, expected)
    PROVE  /\ MigrationCurrent /\ Stored(id)
           /\ GroupOf(id).group_version = expected
           /\ \E members : StoreMembers(id, members)
  <1> DEFINE Stores == /\ MigrationCurrent /\ Stored(id)
                      /\ GroupOf(id).group_version = expected
                      /\ \E members : StoreMembers(id, members)
  <1>1. ASSUME NEW c \in Address, NEW members \in MemberLists,
               UpdateMembers(id, c, members, expected)
        PROVE  Stores
    BY <1>1 DEF UpdateMembers, MayEdit
  <1>2. ASSUME NEW c \in Address, NEW a \in Address, NEW policy \in RebalancePolicy
        PROVE  /\ \A p \in 0 .. Total :
                    AddMember(id, c, a, p, policy, expected) => Stores
               /\ RemoveMember(id, c, a, policy, expected) => Stores
               /\ \A p \in 0 .. Total :
                    SetMemberPercentage(id, c, a, p, policy, expected) => Stores
    BY <1>2 DEF AddMember, RemoveMember, SetMemberPercentage, MayEdit
  <1> QED
    BY <1>1, <1>2 DEF Edit

LEMMA MembershipStep ==
    ASSUME StorageInv, Membership
    PROVE  Preserved
  <1>1. PICK id \in Ids, expected \in 1 .. U32Max : Edit(id, expected)
    BY DEF Membership
  <1>2. PICK members : StoreMembers(id, members)
    BY <1>1, EditStores
  <1> QED
    BY <1>1, <1>2, EditStores, StoreMembersStep

LEMMA StutterStep ==
    ASSUME StorageInv, UNCHANGED registryVars
    PROVE  Preserved
  BY DEF StorageInv, MigrationInv, Preserved, TypeOK, IndexesAgree,
         MigrationSound, DoneMeansMigrated, Uninitialised, MigrationCurrent,
         IsCurrent, StoredIds, Stored, registryVars

LEMMA NextStorage ==
    ASSUME StorageInv, [Next]_registryVars
    PROVE  StorageInv'
  BY AdministrationStep, CreateStep, MembershipStep, StutterStep
     DEF Next, Preserved

LEMMA NextMigration ==
    ASSUME StorageInv, MigrationInv, [Next /\ Runbook]_registryVars
    PROVE  MigrationInv'
  BY AdministrationStep, CreateStep, MembershipStep, StutterStep
     DEF Next, Preserved

-----------------------------------------------------------------------------
(* The member lists of the groups. Every operation builds the list it      *)
(* stores from a sound one: the rebalancing makes room in the others for   *)
(* exactly what the member added, removed or set takes or leaves.          *)

SoundList(members) == members \in MemberSeqs /\ ValidMembers(members)

MembersInv == \A g \in StoredIds : SoundList(groups[g].members)

LEMMA SoundForm ==
    ASSUME NEW members \in MemberSeqs
    PROVE  /\ SoundList(members) /\ members # <<>> =>
                /\ IsInjective(Addresses(members))
                /\ \A i \in 1 .. Len(members) : members[i].percentage > 0
                /\ TotalPercentage(members) = Total
                /\ Len(members) \in Nat \ {0}
           /\ Len(members) # 0
                /\ IsInjective(Addresses(members))
                /\ (\A i \in 1 .. Len(members) : members[i].percentage > 0)
                /\ TotalPercentage(members) = Total
                    => SoundList(members) /\ members # <<>>
  <1>1. /\ Len(members) \in Nat
        /\ DOMAIN members = 1 .. Len(members)
        /\ \A i \in 1 .. Len(members) : members[i].percentage \in Nat
    BY MemberFields
  <1>2. members = <<>> <=> Len(members) = 0
    BY EmptySeq DEF MemberSeqs
  <1> QED
    BY <1>1, <1>2 DEF SoundList, ValidMembers, ValidMembersUnique,
                      ValidPercentages

\* Lists of the same addresses have the same members.
LEMMA SameAddresses ==
    ASSUME NEW one \in MemberSeqs, NEW other \in MemberSeqs,
           Addresses(one) = Addresses(other), NEW a
    PROVE  IsMember(one, a) <=> IsMember(other, a)
  <1>1. /\ DOMAIN one = DOMAIN other
        /\ \A i \in DOMAIN one : one[i].address = other[i].address
    BY DEF Addresses
  <1> QED
    BY <1>1 DEF IsMember

\* The empty list, and what a rebalance makes of it.
LEMMA NoMembers ==
    ASSUME NEW delta, NEW policy
    PROVE  /\ <<>> \in MemberSeqs /\ SoundList(<<>>) /\ Len(<<>>) = 0
           /\ ApplyRebalance(<<>>, delta, policy) = <<>>
           /\ IsInjective(Addresses(<<>>))
           /\ TotalPercentage(<<>>) = 0
  <1>1. <<>> \in MemberSeqs /\ Len(<<>>) = 0 /\ DOMAIN <<>> = {}
    BY EmptySeq DEF MemberSeqs
  <1>2. ApplyRebalance(<<>>, delta, policy) = <<>>
    BY <1>1 DEF ApplyRebalance
  <1>3. TotalPercentage(<<>>) = 0
    <2>1. Percentages(<<>>) \in [{} -> Int]
      BY <1>1 DEF Percentages
    <2> QED
      BY <2>1, SumEmpty DEF TotalPercentage
  <1> QED
    BY <1>1, <1>2, <1>3 DEF SoundList, ValidMembers, IsInjective, Addresses

LEMMA AddSound ==
    ASSUME NEW members, SoundList(members), NEW a \in Address,
           NEW p \in 0 .. Total, NEW policy \in RebalancePolicy,
           Addable(members, a, p, policy)
    PROVE  SoundList(Append(ApplyRebalance(members, -p, policy),
                            [address |-> a, percentage |-> p]))
  <1> DEFINE after == ApplyRebalance(members, -p, policy)
             e == [address |-> a, percentage |-> p]
  <1>1. /\ Total \in Nat \ {0} /\ p \in Nat /\ p > 0 /\ -p \in Int
        /\ e \in [address : Address, percentage : Nat]
        /\ e.percentage = p /\ e.address = a
    BY SharesAssumption DEF Addable
  <1>2. /\ after \in MemberSeqs
        /\ IsInjective(Addresses(after)) /\ ~IsMember(after, a)
        /\ TotalPercentage(after) + p = Total
        /\ \A i \in 1 .. Len(after) : after[i].percentage > 0
    <2>1. CASE members = <<>>
      <3>1. after = <<>> /\ p = Total /\ ~IsMember(<<>>, a)
        BY <2>1, NoMembers DEF Addable
      <3> HIDE DEF after
      <3>2. \A i \in 1 .. Len(<<>>) : FALSE
        BY NoMembers
      <3> QED
        BY <1>1, <3>1, <3>2, NoMembers
    <2>2. CASE members # <<>>
      <3>1. members \in MemberSeqs
        BY DEF SoundList
      <3>2. /\ IsInjective(Addresses(members))
            /\ \A i \in 1 .. Len(members) : members[i].percentage > 0
            /\ TotalPercentage(members) = Total
        BY <2>2, <3>1, SoundForm
      <3>3. CanRebalance(members, -p, policy) /\ ~IsMember(members, a)
        BY <2>2 DEF Addable
      <3>4. /\ after \in MemberSeqs
            /\ Len(after) = Len(members)
            /\ Addresses(after) = Addresses(members)
            /\ TotalPercentage(after) = TotalPercentage(members) + -p
            /\ \A i \in 1 .. Len(members) : after[i].percentage > 0
        BY <1>1, <3>1, <3>2, <3>3, RebalanceLemma
      <3> HIDE DEF after
      <3>5. ~IsMember(after, a)
        BY <3>1, <3>3, <3>4, SameAddresses
      <3> QED
        BY <1>1, <3>2, <3>4, <3>5
    <2> QED
      BY <2>1, <2>2
  <1> HIDE DEF after, e
  <1>3. /\ Append(after, e) \in MemberSeqs
        /\ Len(Append(after, e)) = Len(after) + 1
        /\ \A j \in 1 .. Len(after) : Append(after, e)[j] = after[j]
        /\ Append(after, e)[Len(Append(after, e))] = e
        /\ TotalPercentage(Append(after, e)) = TotalPercentage(after) + p
        /\ IsInjective(Addresses(Append(after, e)))
    BY <1>1, <1>2, AppendedMember
  <1>4. Len(after) \in Nat
    BY <1>2, MemberFields
  <1>5. \A j \in 1 .. Len(Append(after, e)) : Append(after, e)[j].percentage > 0
    BY <1>1, <1>2, <1>3, <1>4
  <1>6. SoundList(Append(after, e))
    <2>1. /\ Len(Append(after, e)) # 0
          /\ TotalPercentage(Append(after, e)) = Total
      BY <1>2, <1>3, <1>4
    <2> QED
      BY <1>3, <1>5, <2>1, SoundForm
  <1> QED
    BY <1>6 DEF after, e

\* The position a member is found at.
LEMMA FoundPosition ==
    ASSUME NEW members \in MemberSeqs, NEW a, IsMember(members, a)
    PROVE  /\ Position(members, a) \in 1 .. Len(members)
           /\ members[Position(members, a)].address = a
  BY MemberFields DEF IsMember, Position

LEMMA RemoveSound ==
    ASSUME NEW members, SoundList(members), NEW a \in Address,
           NEW policy \in RebalancePolicy, Removable(members, a, policy)
    PROVE  LET i == Position(members, a)
           IN  SoundList(ApplyRebalance(RemoveAt(members, i),
                                        members[i].percentage, policy))
  <1> DEFINE i == Position(members, a)
             others == RemoveAt(members, i)
             p == members[i].percentage
             after == ApplyRebalance(others, p, policy)
  <1>1. members \in MemberSeqs /\ members # <<>> /\ Len(members) > 1
    BY EmptySeq DEF SoundList, Removable, MemberSeqs
  <1>2. i \in 1 .. Len(members) /\ Len(members) \in Nat /\ p \in Nat
    BY <1>1, FoundPosition, MemberFields DEF Removable
  <1>3. CanRebalance(others, p, policy)
    BY DEF Removable
  <1> HIDE DEF i
  <1>4. /\ others \in MemberSeqs /\ Len(others) = Len(members) - 1
        /\ \A j \in 1 .. Len(others) :
                others[j] = members[IF j < i THEN j ELSE j + 1]
        /\ TotalPercentage(others) = TotalPercentage(members) - p
        /\ IsInjective(Addresses(members))
        /\ \A j \in 1 .. Len(members) : members[j].percentage > 0
        /\ TotalPercentage(members) = Total
    BY <1>1, <1>2, RemovedMember, SoundForm
  <1>5. IsInjective(Addresses(others))
    BY <1>1, <1>2, <1>4, RemovedDistinct
  <1>6. \A j \in 1 .. Len(others) : others[j].percentage > 0
    BY <1>2, <1>4
  <1> HIDE DEF others, p
  <1>7. /\ after \in MemberSeqs /\ Len(after) = Len(others)
        /\ Addresses(after) = Addresses(others)
        /\ TotalPercentage(after) = TotalPercentage(others) + p
        /\ \A j \in 1 .. Len(others) : after[j].percentage > 0
    BY <1>2, <1>3, <1>4, <1>5, <1>6, RebalanceLemma
  <1> HIDE DEF after
  <1>8. Len(after) # 0 /\ TotalPercentage(after) = Total
    BY <1>1, <1>2, <1>4, <1>7, SharesAssumption
  <1>9. SoundList(after)
    BY <1>4, <1>5, <1>7, <1>8, SoundForm
  <1> QED
    BY <1>9 DEF after, others, p, i

LEMMA SetSound ==
    ASSUME NEW members, SoundList(members), NEW a \in Address,
           IsMember(members, a), NEW new \in 0 .. Total,
           NEW policy \in RebalancePolicy,
           new # members[Position(members, a)].percentage,
           Settable(RemoveAt(members, Position(members, a)),
                    members[Position(members, a)].percentage, new, policy)
    PROVE  LET i == Position(members, a)
               others == RemoveAt(members, i)
               old == members[i].percentage
           IN  SoundList(InsertAt(ApplyRebalance(others, old - new, policy), i,
                                  [address |-> a, percentage |-> new]))
  <1> DEFINE i == Position(members, a)
             others == RemoveAt(members, i)
             old == members[i].percentage
             after == ApplyRebalance(others, old - new, policy)
             e == [address |-> a, percentage |-> new]
             more == InsertAt(after, i, e)
  <1>1. members \in MemberSeqs
    BY DEF SoundList
  <1>2. /\ i \in 1 .. Len(members) /\ Len(members) \in Nat /\ old \in Nat
        /\ members[i].address = a
    BY <1>1, FoundPosition, MemberFields
  <1>3. members # <<>>
    BY <1>1, <1>2, EmptySeq DEF MemberSeqs
  <1>4. /\ Total \in Nat \ {0} /\ new \in Nat /\ new > 0 /\ old - new \in Int
        /\ e \in [address : Address, percentage : Nat]
        /\ e.percentage = new /\ e.address = a
    BY <1>2, SharesAssumption DEF Settable
  <1>5. IF others = <<>> THEN new = Total
                         ELSE CanRebalance(others, old - new, policy)
    BY DEF Settable
  <1> HIDE DEF i
  <1>6. /\ others \in MemberSeqs /\ Len(others) = Len(members) - 1
        /\ \A j \in 1 .. Len(others) :
                others[j] = members[IF j < i THEN j ELSE j + 1]
        /\ TotalPercentage(others) = TotalPercentage(members) - old
        /\ IsInjective(Addresses(members))
        /\ \A j \in 1 .. Len(members) : members[j].percentage > 0
        /\ TotalPercentage(members) = Total
    BY <1>1, <1>2, <1>3, RemovedMember, SoundForm
  <1>7. IsInjective(Addresses(others)) /\ ~IsMember(others, a)
    BY <1>1, <1>2, <1>6, RemovedDistinct
  <1>8. \A j \in 1 .. Len(others) : others[j].percentage > 0
    BY <1>2, <1>6
  <1> HIDE DEF others, old, e
  <1>9. /\ after \in MemberSeqs /\ Len(after) = Len(others)
        /\ Addresses(after) = Addresses(others)
        /\ TotalPercentage(after) + new = Total
        /\ \A j \in 1 .. Len(others) : after[j].percentage > 0
    <2>1. CASE others = <<>>
      <3>1. after = others
        BY <2>1, NoMembers
      <3>2. TotalPercentage(others) = 0 /\ new = Total
        BY <1>5, <2>1, NoMembers
      <3> QED
        BY <1>4, <1>6, <1>8, <3>1, <3>2
    <2>2. CASE others # <<>>
      <3>1. CanRebalance(others, old - new, policy)
        BY <1>5, <2>2
      <3>2. /\ after \in MemberSeqs /\ Len(after) = Len(others)
            /\ Addresses(after) = Addresses(others)
            /\ TotalPercentage(after) = TotalPercentage(others) + (old - new)
            /\ \A j \in 1 .. Len(others) : after[j].percentage > 0
        BY <1>4, <1>6, <1>7, <1>8, <3>1, RebalanceLemma
      <3> HIDE DEF after
      <3> QED
        BY <1>2, <1>4, <1>6, <3>2
    <2> QED
      BY <2>1, <2>2
  <1> HIDE DEF after
  <1>10. ~IsMember(after, a)
    BY <1>6, <1>7, <1>9, SameAddresses
  <1>11. i \in 1 .. Len(after) + 1
    BY <1>2, <1>6, <1>9
  <1>12. /\ more \in MemberSeqs /\ Len(more) = Len(after) + 1
         /\ \A j \in 1 .. Len(after) :
                after[j] = more[IF j < i THEN j ELSE j + 1]
         /\ more[i] = e
         /\ TotalPercentage(more) = TotalPercentage(after) + new
         /\ IsInjective(Addresses(more))
    BY <1>4, <1>7, <1>9, <1>10, <1>11, InsertedMember
  <1> HIDE DEF more
  <1>13. ASSUME NEW j \in 1 .. Len(more) PROVE more[j].percentage > 0
    <2>1. CASE j < i
      BY <1>2, <1>6, <1>9, <1>12, <2>1
    <2>2. CASE j = i
      BY <1>4, <1>12, <2>2
    <2>3. CASE j > i
      <3>1. j - 1 \in 1 .. Len(after) /\ ~(j - 1 < i) /\ (j - 1) + 1 = j
        BY <1>2, <1>6, <1>9, <1>12, <2>3
      <3>2. after[j - 1] = more[j]
        BY <1>12, <3>1
      <3> QED
        BY <1>9, <3>1, <3>2
    <2> QED
      BY <1>2, <1>6, <1>9, <1>12, <2>1, <2>2, <2>3
  <1>14. SoundList(more)
    BY <1>2, <1>6, <1>9, <1>12, <1>13, SoundForm
  <1> QED
    BY <1>14 DEF more, after, others, old, e, i

\* What a member operation stores is sound.
LEMMA EditSound ==
    ASSUME StorageInv, MembersInv, NEW id \in Ids, NEW expected,
           Edit(id, expected)
    PROVE  \E members : SoundList(members) /\ StoreMembers(id, members)
  <1> DEFINE Sound == \E members : SoundList(members) /\ StoreMembers(id, members)
             now == GroupOf(id).members
  <1>1. SoundList(now)
    <2>1. Stored(id)
      BY EditStores
    <2> QED
      BY <2>1 DEF MembersInv, StoredIds, GroupOf, Decoded
  <1> HIDE DEF now
  <1>2. ASSUME NEW c \in Address, NEW members \in MemberLists,
               UpdateMembers(id, c, members, expected)
        PROVE  Sound
    <2>1. SoundList(members)
      BY <1>2, RegistryAssumption
         DEF UpdateMembers, SoundList, MemberSeqs, ValidMembers
    <2> QED
      BY <1>2, <2>1 DEF UpdateMembers
  <1>3. ASSUME NEW c \in Address, NEW a \in Address,
               NEW policy \in RebalancePolicy, NEW p \in 0 .. Total,
               AddMember(id, c, a, p, policy, expected)
        PROVE  Sound
    <2>1. /\ Addable(now, a, p, policy)
          /\ StoreMembers(id, Append(ApplyRebalance(now, -p, policy),
                                     [address |-> a, percentage |-> p]))
      BY <1>3 DEF AddMember, now
    <2> QED
      BY <1>1, <2>1, AddSound
  <1>4. ASSUME NEW c \in Address, NEW a \in Address,
               NEW policy \in RebalancePolicy,
               RemoveMember(id, c, a, policy, expected)
        PROVE  Sound
    <2> DEFINE i == Position(now, a)
               next == ApplyRebalance(RemoveAt(now, i), now[i].percentage, policy)
    <2>1. Removable(now, a, policy) /\ StoreMembers(id, next)
      BY <1>4 DEF RemoveMember, now
    <2>2. SoundList(next)
      BY <1>1, <2>1, RemoveSound
    <2> QED
      BY <2>1, <2>2
  <1>5. ASSUME NEW c \in Address, NEW a \in Address,
               NEW policy \in RebalancePolicy, NEW p \in 0 .. Total,
               SetMemberPercentage(id, c, a, p, policy, expected)
        PROVE  Sound
    <2> DEFINE i == Position(now, a)
               others == RemoveAt(now, i)
               old == now[i].percentage
               next == InsertAt(ApplyRebalance(others, old - p, policy), i,
                                [address |-> a, percentage |-> p])
    <2>1. /\ IsMember(now, a) /\ p # old
          /\ Settable(others, old, p, policy)
          /\ StoreMembers(id, next)
      BY <1>5 DEF SetMemberPercentage, now
    <2>2. SoundList(next)
      BY <1>1, <2>1, SetSound
    <2> QED
      BY <2>1, <2>2
  <1> QED
    BY <1>2, <1>3, <1>4, <1>5 DEF Edit

LEMMA AdministrationStored ==
    ASSUME StorageInv, Administration
    PROVE  StoredIds' = StoredIds
  <1>1. CASE UNCHANGED groups
    BY <1>1 DEF StoredIds, Stored
  <1>2. ASSUME NEW c \in Address, NEW limit \in BatchLimits, Migrate(c, limit)
        PROVE  StoredIds' = StoredIds
    <2>1. CASE groups' = [h \in Ids |-> IF h \in Batch(limit) /\ Stored(h)
                                        THEN Migrated(groups[h]) ELSE groups[h]]
      <3>1. \A g \in Ids : groups'[g] # NoGroup <=> groups[g] # NoGroup
        BY <2>1, MigrateBatch
      <3> QED
        BY <3>1 DEF StoredIds, Stored
    <2> QED
      BY <1>1, <1>2, <2>1 DEF Migrate
  <1> QED
    BY <1>1, <1>2 DEF Administration, InitContract, ProposeAdmin, AcceptAdmin,
                      CancelAdminProposal, Pause, Unpause, Upgrade

LEMMA InitMembers == Init => MembersInv
  <1> SUFFICES ASSUME Init, NEW g \in StoredIds
               PROVE  SoundList(groups[g].members)
    BY DEF MembersInv
  <1>1. UpgradedInit
    BY DEF Init, FreshInit, StoredIds, Stored
  <1>2. groups[g] \in LegacyRecord(schemaVersion)
    BY <1>1 DEF UpgradedInit, StoredIds, Stored
  <1>3. groups[g].members \in {m \in MemberLists : ValidMembers(m)}
    BY <1>2 DEF LegacyRecord
  <1> QED
    BY <1>3, RegistryAssumption DEF SoundList, MemberSeqs

LEMMA NextMembers ==
    ASSUME StorageInv, MembersInv, [Next]_registryVars
    PROVE  MembersInv'
  <1>1. CASE Administration
    <2>1. \A g \in StoredIds : groups'[g].members = groups[g].members
      BY <1>1, AdministrationKeeps DEF Kept, GroupOf, Decoded
    <2> QED
      BY <1>1, <2>1, AdministrationStored DEF MembersInv
  <1>2. ASSUME NEW id \in Ids, NEW c \in Address, NEW t \in Token, Create(id, c, t)
        PROVE  MembersInv'
    <2> DEFINE r == [layout |-> 8, creator |-> c, payment_token |-> t,
                     members |-> <<>>, version |-> compiledVersion,
                     group_version |-> 1]
    <2>1. groups' = [groups EXCEPT ![id] = r]
      BY <1>2 DEF Create
    <2>2. r.members = <<>>
      OBVIOUS
    <2> HIDE DEF r
    <2>3. DOMAIN groups = Ids
      BY DEF StorageInv, TypeOK
    <2>4. ASSUME NEW g \in StoredIds'
          PROVE  SoundList(groups'[g].members)
      <3>1. CASE g = id
        BY <2>1, <2>2, <2>3, <3>1, NoMembers
      <3>2. CASE g # id
        <4>1. groups'[g] = groups[g] /\ g \in StoredIds
          BY <2>1, <2>3, <3>2 DEF StoredIds, Stored
        <4> QED
          BY <4>1 DEF MembersInv
      <3> QED
        BY <3>1, <3>2
    <2> QED
      BY <2>4 DEF MembersInv
  <1>3. CASE Membership
    <2>1. PICK id \in Ids, expected \in 1 .. U32Max : Edit(id, expected)
      BY <1>3 DEF Membership
    <2>2. PICK members : SoundList(members) /\ StoreMembers(id, members)
      BY <2>1, EditSound
    <2>3. /\ groups' = [groups EXCEPT ![id] = Edited(groups[id], members)]
          /\ DOMAIN groups = Ids
      BY <2>2 DEF StoreMembers, StorageInv, TypeOK
    <2>4. Edited(groups[id], members).members = members
      BY DEF Edited
    <2>5. ASSUME NEW g \in StoredIds'
          PROVE  SoundList(groups'[g].members)
      <3>1. CASE g = id
        BY <2>2, <2>3, <2>4, <3>1
      <3>2. CASE g # id
        <4>1. groups'[g] = groups[g] /\ g \in StoredIds
          BY <2>3, <3>2 DEF StoredIds, Stored
        <4> QED
          BY <4>1 DEF MembersInv
      <3> QED
        BY <3>1, <3>2
    <2> QED
      BY <2>5 DEF MembersInv
  <1>4. CASE UNCHANGED registryVars
    BY <1>4 DEF registryVars, MembersInv, StoredIds, Stored
  <1> QED
    BY <1>1, <1>2, <1>3, <1>4 DEF Next

-----------------------------------------------------------------------------
(* Results.                                                                *)

LEMMA StorageInvariant == Spec => []StorageInv
  BY InitInv, NextStorage, PTL DEF Spec

LEMMA MembersInvariant == Spec => []MembersInv
  BY StorageInvariant, InitMembers, NextMembers, PTL DEF Spec

LEMMA MigrationInvariant == RunbookSpec => []MigrationInv
  <1>1. RunbookSpec => Init /\ [][Next]_registryVars
    <2>1. [Next /\ Runbook]_registryVars => [Next]_registryVars
      OBVIOUS
    <2> QED
      BY <2>1, PTL DEF RunbookSpec
  <1>2. RunbookSpec => []StorageInv
    BY <1>1, StorageInvariant, PTL DEF Spec
  <1> QED
    BY <1>2, InitInv, NextMigration, PTL DEF RunbookSpec

(* Every stored record keeps the shape of its layout, the schema is never  *)
(* ahead of the installed release and group versions stay within a u32     *)
(* that never wraps to 0.                                                  *)
THEOREM TypeCorrect == Spec => []TypeOK
  BY StorageInvariant, PTL DEF StorageInv

(* Whatever calls build it, a stored member list is empty or has distinct  *)
(* addresses with non-zero percentages that add up to the whole, as        *)
(* distribute takes for granted.                                           *)
THEOREM MembersCorrect == Spec => []MembersSound
  <1>1. MembersInv => MembersSound
    BY DEF MembersInv, MembersSound, SoundList
  <1> QED
    BY <1>1, MembersInvariant, PTL

(* The index of all groups and the index of each creator list exactly the  *)
(* stored groups, each once: no migration, which walks the first of them   *)
(* by position, can miss a group or meet one twice.                        *)
THEOREM IndexesCorrect == Spec => []IndexesAgree
  BY StorageInvariant, PTL DEF StorageInv

(* Whatever limits the batches of a migration have and whatever comes      *)
(* between them, where no release is installed over an unfinished one a    *)
(* schema stamped current leaves no group of an earlier layout or version. *)
THEOREM MigrationCorrect == RunbookSpec => []MigrationSound
  BY MigrationInvariant, PTL DEF MigrationInv

(* While the schema is stale no step changes what a reader decodes for a   *)
(* stored group: not its owner, not its members, not its version.          *)
THEOREM MigrationKeepsGroups == Spec => MigrationPreservesGroups
  <1>1. ASSUME StorageInv, [Next]_registryVars, ~MigrationCurrent,
               NEW g \in StoredIds
        PROVE  Kept(g)
    <2>1. ~Membership
      BY <1>1, EditStores DEF Membership
    <2>2. \A id \in Ids, c \in Address, t \in Token : ~Create(id, c, t)
      BY <1>1 DEF Create
    <2>3. CASE UNCHANGED registryVars
      BY <2>3 DEF Kept, StoredIds, Stored, GroupOf, registryVars
    <2> QED
      BY <1>1, <2>1, <2>2, <2>3, AdministrationKeeps DEF Next
  <1>2. StorageInv /\ [Next]_registryVars
            => [~MigrationCurrent => \A g \in StoredIds : Kept(g)]_registryVars
    BY <1>1
  <1> QED
    BY <1>2, StorageInvariant, PTL DEF Spec, MigrationPreservesGroups, Kept

(* What a pending migration has done is never undone, whatever comes       *)
(* between its batches, a later release included: until the schema is      *)
(* current the cursor stays or moves on and the list it walks is the same; *)
(* and each batch of a positive size ends the migration or moves the       *)
(* cursor on, so there are no more batches than groups.                    *)
MigrationAdvances ==
    [][~MigrationCurrent =>
        /\ \/ MigrationCurrent'
           \/ migrationCursor' >= migrationCursor /\ allGroups' = allGroups
        /\ \A c \in Address, limit \in BatchLimits \ {0} :
            Migrate(c, limit) =>
                \/ MigrationCurrent'
                \/ /\ migrationCursor < migrationCursor'
                   /\ migrationCursor' < Len(allGroups)
      ]_registryVars

LEMMA BatchAdvances ==
    ASSUME StorageInv, NEW c \in Address, NEW limit \in BatchLimits, Migrate(c, limit)
    PROVE  \/ MigrationCurrent'
           \/ /\ migrationCursor' >= migrationCursor /\ allGroups' = allGroups
              /\ migrationCursor' < Len(allGroups)
              /\ limit # 0 => migrationCursor < migrationCursor'
  <1> DEFINE end == BatchEnd(limit)
             length == Len(allGroups)
  <1>1. length \in Nat /\ migrationCursor \in Nat /\ limit \in Nat
    BY RegistryAssumption, LenProperties DEF StorageInv, TypeOK
  <1>2. end = IF migrationCursor + limit <= length THEN migrationCursor + limit ELSE length
    BY <1>1, MinOfTwo DEF BatchEnd
  <1>3. compiledVersion' = compiledVersion /\ allGroups' = allGroups
    BY DEF Migrate, indexVars
  <1>4. CASE FinishMigration
    BY <1>3, <1>4 DEF FinishMigration, MigrationCurrent
  <1>5. CASE migrationCursor < length /\ end # length /\ SaveCursor(end)
    <2>1. migrationCursor' = end
      BY <1>5 DEF SaveCursor
    <2> HIDE DEF end, length
    <2>2. /\ end >= migrationCursor /\ end < length
          /\ limit # 0 => migrationCursor < end
      BY <1>1, <1>2, <1>5
    <2> QED
      BY <1>3, <2>1, <2>2 DEF length
  <1> QED
    BY <1>4, <1>5 DEF Migrate

(* Nothing else moves the cursor of a pending migration, and nothing but a *)
(* creation, which asks for a current schema, extends the list.            *)
LEMMA OthersLeaveCursor ==
    ASSUME StorageInv, [Next]_registryVars, ~MigrationCurrent,
           \A c \in Address, limit \in BatchLimits : ~Migrate(c, limit)
    PROVE  \/ MigrationCurrent'
           \/ migrationCursor' = migrationCursor /\ allGroups' = allGroups
  <1>1. ~Membership
    BY EditStores DEF Membership
  <1>2. \A id \in Ids, c \in Address, t \in Token : ~Create(id, c, t)
    BY DEF Create
  <1>3. CASE UNCHANGED registryVars
    BY <1>3 DEF registryVars
  <1>4. CASE Administration
    BY <1>4 DEF Administration, InitContract, ProposeAdmin, AcceptAdmin,
                CancelAdminProposal, Pause, Unpause, Upgrade, MigrationCurrent,
                schemaVars, indexVars
  <1> QED
    BY <1>1, <1>2, <1>3, <1>4 DEF Next

(* A pending migration only advances: the safety half of                   *)
(* MigrationCompletes, for any sizes of batches.                           *)
THEOREM MigrationAlwaysAdvances == Spec => MigrationAdvances
  <1> DEFINE Advance ==
        ~MigrationCurrent =>
            /\ \/ MigrationCurrent'
               \/ migrationCursor' >= migrationCursor /\ allGroups' = allGroups
            /\ \A c \in Address, limit \in BatchLimits \ {0} :
                Migrate(c, limit) =>
                    \/ MigrationCurrent'
                    \/ /\ migrationCursor < migrationCursor'
                       /\ migrationCursor' < Len(allGroups)
  <1>1. StorageInv /\ [Next]_registryVars => [Advance]_registryVars
    <2> SUFFICES ASSUME StorageInv, [Next]_registryVars, ~MigrationCurrent
                 PROVE  Advance
      OBVIOUS
    <2>1. migrationCursor \in Nat
      BY DEF StorageInv, TypeOK
    <2>2. CASE \A c \in Address, limit \in BatchLimits : ~Migrate(c, limit)
      BY <2>1, <2>2, OthersLeaveCursor
    <2>3. CASE \E c \in Address, limit \in BatchLimits : Migrate(c, limit)
      BY <2>3, BatchAdvances
    <2> QED
      BY <2>2, <2>3
  <1> HIDE DEF Advance
  <1>2. Spec => [][Advance]_registryVars
    BY <1>1, StorageInvariant, PTL DEF Spec
  <1> QED
    BY <1>2 DEF MigrationAdvances, Advance
=============================================================================
