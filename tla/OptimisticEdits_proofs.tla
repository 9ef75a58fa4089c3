----------------------- MODULE OptimisticEdits_proofs -----------------------
(***************************************************************************)
(* For any number of editors, groups and accounts, no editor overwrites a  *)
(* write it has not seen, short of a full circle of the version counter.   *)
(***************************************************************************)
EXTENDS OptimisticEdits, GroupRegistry_proofs

EditsInv == StorageInv /\ EditsTypeOK /\ VersionCountsWrites

LEMMA EditsInitInv == EditsInit => EditsInv
  BY InitInv DEF EditsInit, EditsInv, EditsTypeOK, VersionCountsWrites, Open,
                 Closed

\* The version a group is read with.
LEMMA ReadVersion ==
    ASSUME StorageInv, NEW id \in Ids, Stored(id)
    PROVE  GroupOf(id).group_version \in 1 .. U32Max
  BY DecodedRecord DEF StorageInv, TypeOK, StoredIds, GroupOf

(* One write moves the version of its group on by one, and no other's.     *)
LEMMA EditBumps ==
    ASSUME StorageInv, NEW id \in Ids, NEW expected, Edit(id, expected),
           NEW g \in StoredIds
    PROVE  /\ Stored(g)'
           /\ GroupOf(g)'.group_version =
                IF g = id THEN Bumped(GroupOf(id).group_version)
                          ELSE GroupOf(g).group_version
  <1>1. PICK members : groups' = [groups EXCEPT ![id] = Edited(@, members)]
    BY EditStores DEF StoreMembers
  <1>2. DOMAIN groups = Ids /\ g \in Ids /\ Stored(g)
    BY DEF StorageInv, TypeOK, StoredIds
  <1>3. CASE g = id
    <2>1. groups'[g] = Edited(groups[g], members)
      BY <1>1, <1>2, <1>3
    <2> QED
      BY <1>3, <2>1 DEF Edited, Stored, NoGroup, GroupOf, Decoded
  <1>4. CASE g # id
    BY <1>1, <1>2, <1>4 DEF Stored, GroupOf
  <1> QED
    BY <1>3, <1>4

LEMMA ReadStep ==
    ASSUME EditsInv, NEW e \in Editor, NEW id \in Ids, Read(e, id)
    PROVE  EditsTypeOK' /\ VersionCountsWrites'
  <1> DEFINE r == [id |-> id, version |-> GroupOf(id).group_version]
  <1>1. /\ Stored(id)
        /\ seen' = [seen EXCEPT ![e] = r]
        /\ missed' = [missed EXCEPT ![e] = 0]
        /\ UNCHANGED registryVars
    BY DEF Read
  <1>2. GroupOf(id).group_version \in 1 .. U32Max
    BY <1>1, ReadVersion DEF EditsInv
  <1>3. EditsTypeOK'
    BY <1>1, <1>2 DEF EditsInv, EditsTypeOK
  <1>4. ASSUME NEW f \in Editor, Open(f)'
        PROVE  Tracks(f)'
    <2>1. UNCHANGED groups
      BY <1>1 DEF registryVars
    <2>2. CASE f = e
      <3>1. seen'[f] = r /\ missed'[f] = 0
        BY <1>1, <2>2 DEF EditsInv, EditsTypeOK
      <3> QED
        BY <1>1, <1>2, <2>1, <3>1 DEF Tracks, Stored, GroupOf
    <2>3. CASE f # e
      <3>1. seen'[f] = seen[f] /\ missed'[f] = missed[f] /\ Open(f)
        BY <1>1, <1>4, <2>3 DEF EditsInv, EditsTypeOK, Open
      <3> QED
        BY <2>1, <3>1 DEF EditsInv, VersionCountsWrites, Tracks, Stored, GroupOf
    <2> QED
      BY <2>2, <2>3
  <1> QED
    BY <1>3, <1>4 DEF VersionCountsWrites, Tracks

LEMMA SaveStep ==
    ASSUME EditsInv, NEW e \in Editor, Save(e)
    PROVE  EditsTypeOK' /\ VersionCountsWrites'
  <1> DEFINE id == seen[e].id
             v == seen[e].version
  <1>1. /\ Open(e) /\ Edit(id, v)
        /\ seen' = [seen EXCEPT ![e] = Closed]
        /\ missed' = [f \in Editor |->
                IF f = e THEN 0
                ELSE IF Open(f) /\ seen[f].id = id THEN missed[f] + 1
                ELSE missed[f]]
    BY DEF Save
  <1>2. id \in Ids /\ v \in 1 .. U32Max
    BY <1>1 DEF EditsInv, EditsTypeOK, Open
  <1> HIDE DEF id, v
  <1>3. EditsTypeOK'
    BY <1>1 DEF EditsInv, EditsTypeOK
  <1>4. ASSUME NEW f \in Editor, Open(f)'
        PROVE  Tracks(f)'
    <2>1. /\ f # e /\ Open(f) /\ seen'[f] = seen[f]
          /\ missed'[f] = IF seen[f].id = id THEN missed[f] + 1 ELSE missed[f]
      BY <1>1, <1>4 DEF EditsInv, EditsTypeOK, Open
    <2>2. Tracks(f) /\ seen[f].id \in StoredIds
      BY <2>1 DEF EditsInv, EditsTypeOK, VersionCountsWrites, Tracks, StoredIds,
                  Open
    <2>3. /\ Stored(seen[f].id)'
          /\ GroupOf(seen[f].id)'.group_version =
                IF seen[f].id = id THEN Bumped(GroupOf(id).group_version)
                                   ELSE GroupOf(seen[f].id).group_version
      <3>1. \A g \in StoredIds :
                /\ Stored(g)'
                /\ GroupOf(g)'.group_version =
                    IF g = id THEN Bumped(GroupOf(id).group_version)
                              ELSE GroupOf(g).group_version
        BY <1>1, <1>2, EditBumps DEF EditsInv
      <3> QED
        BY <2>1, <2>2, <3>1 DEF Stored, GroupOf
    <2>4. /\ missed[f] \in Nat /\ seen[f].version \in 1 .. U32Max
      BY <2>1 DEF EditsInv, EditsTypeOK, Open
    <2>5. U32Max \in Nat \ {0}
      BY RegistryAssumption
    <2> QED
      BY <2>1, <2>2, <2>3, <2>4, <2>5 DEF Tracks, Bumped
  <1> QED
    BY <1>3, <1>4 DEF VersionCountsWrites

LEMMA CreateKeeps ==
    ASSUME StorageInv, NEW id \in Ids, NEW c \in Address, NEW t \in Token,
           Create(id, c, t), NEW g \in StoredIds
    PROVE  Kept(g)
  <1>1. groups'[g] = groups[g]
    BY DEF Create, Creatable, StorageInv, TypeOK, StoredIds, Stored
  <1> QED
    BY <1>1 DEF Kept, StoredIds, Stored, GroupOf

LEMMA OtherStep ==
    ASSUME EditsInv, EditsOther
    PROVE  EditsTypeOK' /\ VersionCountsWrites'
  <1>1. UNCHANGED <<seen, missed>>
    BY DEF EditsOther
  <1>2. EditsTypeOK'
    BY <1>1 DEF EditsInv, EditsTypeOK
  <1>3. \A g \in StoredIds : Kept(g)
    BY AdministrationKeeps, CreateKeeps DEF EditsInv, EditsOther
  <1>4. ASSUME NEW f \in Editor, Open(f)'
        PROVE  Tracks(f)'
    <2>1. Tracks(f) /\ seen[f].id \in StoredIds
      BY <1>1, <1>4 DEF EditsInv, EditsTypeOK, VersionCountsWrites, Tracks,
                        StoredIds, Open
    <2>2. Kept(seen[f].id)
      BY <1>3, <2>1
    <2> QED
      BY <1>1, <2>1, <2>2 DEF Kept, Tracks, Stored, GroupOf
  <1> QED
    BY <1>2, <1>4 DEF VersionCountsWrites

LEMMA EditsNextInv ==
    ASSUME EditsInv, [EditsNext]_editVars
    PROVE  EditsInv'
  <1>1. StorageInv'
    <2>1. [Next]_registryVars
      <3>1. ASSUME NEW e \in Editor, Save(e)
            PROVE  Membership
        BY <3>1 DEF Save, Membership, EditsInv, EditsTypeOK, Open
      <3> QED
        BY <3>1 DEF EditsNext, EditsOther, Read, Next, editVars
    <2> QED
      BY <2>1, NextStorage DEF EditsInv
  <1>2. EditsTypeOK' /\ VersionCountsWrites'
    <2>1. CASE UNCHANGED editVars
      BY <2>1 DEF editVars, registryVars, EditsInv, EditsTypeOK,
                  VersionCountsWrites, Tracks, Open, Stored, GroupOf
    <2> QED
      BY <2>1, ReadStep, SaveStep, OtherStep DEF EditsNext
  <1> QED
    BY <1>1, <1>2 DEF EditsInv

-----------------------------------------------------------------------------
(* Results.                                                                *)

LEMMA EditsInvariant == EditsSpec => []EditsInv
  BY EditsInitInv, EditsNextInv, PTL DEF EditsSpec

(* A group's version counts its writes, and nothing else moves it.         *)
THEOREM VersionsCorrect == EditsSpec => []VersionCountsWrites
  BY EditsInvariant, PTL DEF EditsInv

(* No accepted operation overwrites a write its editor has not seen, short *)
(* of U32Max writes in between.                                            *)
THEOREM NoLostUpdate == EditsSpec => LostUpdateOnlyOnWrap
  <1> DEFINE Unseen == \A e \in Editor :
                        Open(e) /\ groups'[seen[e].id] # groups[seen[e].id]
                            /\ seen'[e] = Closed
                        => missed[e] = 0 \/ missed[e] >= U32Max
  <1>1. ASSUME EditsInv, [EditsNext]_editVars, NEW e \in Editor, Open(e),
               seen'[e] = Closed
        PROVE  missed[e] = 0 \/ missed[e] >= U32Max
    <2>1. /\ missed[e] \in Nat /\ seen[e].version \in 1 .. U32Max
          /\ seen[e].id \in Ids
      BY <1>1 DEF EditsInv, EditsTypeOK, Open
    <2>2. Save(e)
      <3>1. seen'[e] # seen[e]
        BY <1>1 DEF Open
      <3>2. ASSUME NEW f \in Editor, NEW id \in Ids, Read(f, id)
            PROVE  FALSE
        <4>1. CASE f = e
          <5>1. seen'[e] = [id |-> id, version |-> GroupOf(id).group_version]
            BY <1>1, <3>2, <4>1 DEF Read, EditsInv, EditsTypeOK
          <5>2. GroupOf(id).group_version # 0
            BY <1>1, <3>2, ReadVersion DEF Read, EditsInv
          <5> QED
            BY <1>1, <5>1, <5>2 DEF Closed
        <4>2. CASE f # e
          BY <1>1, <3>1, <3>2, <4>2 DEF Read, EditsInv, EditsTypeOK
        <4> QED
          BY <4>1, <4>2
      <3>3. ASSUME NEW f \in Editor, Save(f)
            PROVE  f = e
        BY <1>1, <3>1, <3>3 DEF Save, EditsInv, EditsTypeOK
      <3> QED
        BY <1>1, <3>1, <3>2, <3>3 DEF EditsNext, EditsOther, editVars
    <2>3. GroupOf(seen[e].id).group_version = seen[e].version
      BY <2>1, <2>2, EditStores DEF Save
    <2> QED
      BY <1>1, <2>1, <2>3, RegistryAssumption
         DEF EditsInv, VersionCountsWrites, Tracks
  <1>2. EditsInv /\ [EditsNext]_editVars => [Unseen]_editVars
    BY <1>1
  <1> QED
    BY <1>2, EditsInvariant, PTL DEF EditsSpec, LostUpdateOnlyOnWrap
=============================================================================
