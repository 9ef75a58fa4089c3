---------------------------- MODULE GroupRegistry ----------------------------
(***************************************************************************)
(* The registry of the AutoShare contract (contract/src/lib.rs): groups    *)
(* and their members, the indexes over them, the administrator, the pause  *)
(* flag, and the upgrade and batched migration of stored groups.           *)
(*                                                                         *)
(* Every entrypoint is one atomic transaction: an action is a call that    *)
(* returns Ok, its conjuncts the checks the call makes in the code's       *)
(* order; a call that returns an error or aborts leaves the ledger as it   *)
(* was. `caller` is the account that authorised the call (require_auth).   *)
(***************************************************************************)
EXTENDS Shares, FiniteSets

CONSTANTS
    Ids,                    \* group identifiers
    Token,                  \* token contracts a group may be paid in
    NoAddress,              \* an absent storage entry of an address
    U32Max,                 \* the largest u32: group_version wraps after it
    CURRENT_SCHEMA_VERSION, \* the schema version of the release modelled
    LastRelease,            \* bound: schema version of the last later release
    MemberLists,            \* member lists update_members is called with
    BatchLimits             \* limits migrate is called with

ASSUME RegistryAssumption ==
    /\ IsFiniteSet(Ids)
    /\ MemberLists \subseteq Seq([address : Address, percentage : Nat])
    /\ U32Max \in Nat \ {0}
    /\ CURRENT_SCHEMA_VERSION \in Nat /\ CURRENT_SCHEMA_VERSION > 2
    /\ LastRelease \in Nat /\ LastRelease >= CURRENT_SCHEMA_VERSION
    /\ BatchLimits \subseteq Nat
    /\ NoAddress \notin Address

VARIABLES
    admin,            \* DataKey::Admin
    pendingAdmin,     \* DataKey::PendingAdmin
    paused,           \* DataKey::Paused
    schemaVersion,    \* DataKey::SchemaVersion, 0 when absent
    migrationCursor,  \* DataKey::MigrationCursor, 0 when absent
    compiledVersion,  \* CURRENT_SCHEMA_VERSION of the installed WASM
    groups,           \* DataKey::Group(id)
    allGroups,        \* DataKey::AllGroups
    creatorGroups     \* DataKey::CreatorGroups(address)

adminVars == <<admin, pendingAdmin, paused>>
schemaVars == <<schemaVersion, migrationCursor, compiledVersion>>
indexVars == <<allGroups, creatorGroups>>
registryVars == <<admin, pendingAdmin, paused, schemaVersion, migrationCursor,
                  compiledVersion, groups, allGroups, creatorGroups>>

-----------------------------------------------------------------------------
(* Stored groups. `layout` is the number of fields of the stored map: 6    *)
(* for v1, 7 for v2 (which adds version), 8 for v3 (which adds             *)
(* group_version). A field a layout lacks holds 0.                         *)

NoGroup == [layout |-> 0]    \* no entry under the group's key

Stored(g) == groups[g] # NoGroup
StoredIds == {g \in Ids : Stored(g)}

\* validate_group_exists: what a stored record decodes to.
Decoded(r) ==
    [layout |-> 8, creator |-> r.creator, payment_token |-> r.payment_token,
     members |-> r.members,
     version |-> IF r.layout = 6 THEN 1 ELSE r.version,
     group_version |-> IF r.layout = 8 THEN r.group_version ELSE 1]

GroupOf(g) == Decoded(groups[g])

\* Mutant: a migrated group restarts from group version 0.
MigratedToZero(r) ==
    [Decoded(r) EXCEPT !.version = compiledVersion,
                       !.group_version = IF r.layout = 8 THEN @ ELSE 0]

Migrated(r) == [Decoded(r) EXCEPT !.version = compiledVersion]

\* checked_add(1).unwrap_or(1)
Bumped(v) == IF v = U32Max THEN 1 ELSE v + 1

NotPaused == ~paused
MigrationCurrent == schemaVersion = compiledVersion
IsAdmin(caller) == admin # NoAddress /\ caller = admin

-----------------------------------------------------------------------------
(* Initial states: a contract just deployed and not initialised, or one    *)
(* of an earlier release (schema 1 or 2) on which this release was just    *)
(* installed: legacy records, indexes kept by the earlier release.         *)

IndexesAgree ==
    /\ IsInjective(allGroups)
    /\ Range(allGroups) = StoredIds
    /\ \A a \in Address :
        /\ IsInjective(creatorGroups[a])
        /\ Range(creatorGroups[a]) = {g \in StoredIds : groups[g].creator = a}

ValidMembers(members) ==
    members = <<>> \/ (ValidMembersUnique(members) /\ ValidPercentages(members))

LegacyRecord(schema) ==
    {[layout |-> 5 + schema, creator |-> a, payment_token |-> t, members |-> ms,
      version |-> IF schema = 1 THEN 0 ELSE schema, group_version |-> 0] :
        a \in Address, t \in Token, ms \in {m \in MemberLists : ValidMembers(m)}}

IndexLists == UNION {SetToSeqs(ids) : ids \in SUBSET StoredIds}

FreshInit ==
    /\ admin = NoAddress
    /\ paused = FALSE
    /\ schemaVersion = 0
    /\ groups = [g \in Ids |-> NoGroup]
    /\ allGroups = <<>>
    /\ creatorGroups = [a \in Address |-> <<>>]

UpgradedInit ==
    /\ admin \in Address
    /\ paused \in BOOLEAN
    /\ schemaVersion \in {1, 2}
    /\ groups \in [Ids -> LegacyRecord(schemaVersion) \cup {NoGroup}]
    /\ allGroups \in IndexLists
    /\ creatorGroups \in [Address -> IndexLists]
    /\ IndexesAgree

Init ==
    /\ FreshInit \/ UpgradedInit
    /\ pendingAdmin = NoAddress
    /\ migrationCursor = 0
    /\ compiledVersion = CURRENT_SCHEMA_VERSION

-----------------------------------------------------------------------------
(* Administration.                                                         *)

InitContract(a) ==
    /\ admin = NoAddress
    /\ admin' = a
    /\ schemaVersion' = compiledVersion
    /\ paused' = FALSE
    /\ UNCHANGED <<pendingAdmin, migrationCursor, compiledVersion, groups,
                   indexVars>>

ProposeAdmin(caller, a) ==
    /\ IsAdmin(caller)
    /\ pendingAdmin' = a
    /\ UNCHANGED <<admin, paused, schemaVars, groups, indexVars>>

AcceptAdmin(caller) ==
    /\ pendingAdmin # NoAddress
    /\ pendingAdmin = caller
    /\ admin' = caller
    /\ pendingAdmin' = NoAddress
    /\ UNCHANGED <<paused, schemaVars, groups, indexVars>>

CancelAdminProposal(caller) ==
    /\ IsAdmin(caller)
    /\ pendingAdmin' = NoAddress
    /\ UNCHANGED <<admin, paused, schemaVars, groups, indexVars>>

Pause(caller) ==
    /\ IsAdmin(caller)
    /\ paused' = TRUE
    /\ UNCHANGED <<admin, pendingAdmin, schemaVars, groups, indexVars>>

Unpause(caller) ==
    /\ IsAdmin(caller)
    /\ paused' = FALSE
    /\ UNCHANGED <<admin, pendingAdmin, schemaVars, groups, indexVars>>

\* upgrade installs a later release of this program, or rebuilds this one.
Upgrade(caller, version) ==
    /\ IsAdmin(caller)
    /\ paused
    /\ compiledVersion' = version
    /\ UNCHANGED <<adminVars, schemaVersion, migrationCursor, groups, indexVars>>

-----------------------------------------------------------------------------
(* Migration: one call migrates the groups from the cursor on, up to       *)
(* `limit` of them, and either saves the cursor or stamps the schema.      *)

BatchEnd(limit) == Min({migrationCursor + limit, Len(allGroups)})

\* Mutant: the batch starts one past the saved cursor.
BatchSkipsOne(limit) ==
    {allGroups[i] : i \in migrationCursor + 2 .. BatchEnd(limit)}

Batch(limit) == {allGroups[i] : i \in migrationCursor + 1 .. BatchEnd(limit)}

\* Mutant: the last batch leaves the schema unstamped.
FinishMigrationUnstamped ==
    /\ migrationCursor' = 0
    /\ UNCHANGED schemaVersion

FinishMigration ==
    /\ schemaVersion' = compiledVersion
    /\ migrationCursor' = 0

SaveCursor(end) ==
    /\ migrationCursor' = end
    /\ UNCHANGED schemaVersion

Migrate(caller, limit) ==
    /\ IsAdmin(caller)
    /\ ~MigrationCurrent
    /\ \/ /\ migrationCursor >= Len(allGroups)
          /\ FinishMigration
          /\ UNCHANGED groups
       \/ /\ migrationCursor < Len(allGroups)
          /\ migrationCursor + limit <= U32Max     \* overflow aborts
          /\ groups' = [g \in Ids |-> IF g \in Batch(limit) /\ Stored(g)
                                      THEN Migrated(groups[g]) ELSE groups[g]]
          /\ IF BatchEnd(limit) = Len(allGroups)
             THEN FinishMigration
             ELSE SaveCursor(BatchEnd(limit))
    /\ UNCHANGED <<adminVars, compiledVersion, indexVars>>

-----------------------------------------------------------------------------
(* Groups and members.                                                     *)

\* Mutant: the identifier is indexed although a group already exists.
CreatableAlways(id) == TRUE

Creatable(id) == ~Stored(id)

Create(id, creator, token) ==
    /\ NotPaused
    /\ MigrationCurrent
    /\ Creatable(id)
    /\ groups' = [groups EXCEPT ![id] =
            [layout |-> 8, creator |-> creator, payment_token |-> token,
             members |-> <<>>, version |-> compiledVersion,
             group_version |-> 1]]
    /\ creatorGroups' = [creatorGroups EXCEPT ![creator] = Append(@, id)]
    /\ allGroups' = Append(allGroups, id)
    /\ UNCHANGED <<adminVars, schemaVars>>

\* Mutant: the expected version is not compared.
MayEditUnversioned(id, caller, expected) ==
    MigrationCurrent /\ Stored(id) /\ GroupOf(id).creator = caller

\* The checks the four member operations share, after require_not_paused
\* (which only update_members makes).
MayEdit(id, caller, expected) ==
    /\ MigrationCurrent
    /\ Stored(id)
    /\ GroupOf(id).group_version = expected
    /\ GroupOf(id).creator = caller

\* The record a member operation writes.
Edited(r, members) ==
    [layout |-> 8, creator |-> r.creator, payment_token |-> r.payment_token,
     members |-> members, version |-> compiledVersion,
     group_version |-> Bumped(Decoded(r).group_version)]

StoreMembers(id, members) ==
    /\ groups' = [groups EXCEPT ![id] = Edited(@, members)]
    /\ UNCHANGED <<adminVars, schemaVars, indexVars>>

UpdateMembers(id, caller, members, expected) ==
    /\ NotPaused
    /\ MayEdit(id, caller, expected)
    /\ ValidMembersUnique(members)
    /\ ValidPercentages(members)
    /\ StoreMembers(id, members)

\* Mutant: adding a member does not look for the address first.
AddableUnchecked(members, a, percentage, policy) ==
    /\ percentage # 0
    /\ IF members = <<>> THEN percentage = Total
                         ELSE CanRebalance(members, -percentage, policy)

Addable(members, a, percentage, policy) ==
    /\ percentage # 0
    /\ ~IsMember(members, a)
    /\ IF members = <<>> THEN percentage = Total
                         ELSE CanRebalance(members, -percentage, policy)

AddMember(id, caller, a, percentage, policy, expected) ==
    LET members == GroupOf(id).members
        member == [address |-> a, percentage |-> percentage]
    IN  /\ MayEdit(id, caller, expected)
        /\ Addable(members, a, percentage, policy)
        /\ StoreMembers(id,
            Append(ApplyRebalance(members, -percentage, policy), member))

Removable(members, a, policy) ==
    /\ IsMember(members, a)
    /\ Len(members) > 1
    /\ LET i == Position(members, a)
       IN  CanRebalance(RemoveAt(members, i), members[i].percentage, policy)

RemoveMember(id, caller, a, policy, expected) ==
    /\ MayEdit(id, caller, expected)
    /\ LET members == GroupOf(id).members
           i == Position(members, a)
       IN  /\ Removable(members, a, policy)
           /\ StoreMembers(id, ApplyRebalance(RemoveAt(members, i),
                                     members[i].percentage, policy))

Settable(others, old, new, policy) ==
    /\ new # 0
    /\ IF others = <<>> THEN new = Total
                        ELSE CanRebalance(others, old - new, policy)

\* Setting the percentage a member already has returns Ok and writes nothing.
SetMemberPercentage(id, caller, a, new, policy, expected) ==
    /\ MayEdit(id, caller, expected)
    /\ LET members == GroupOf(id).members
           i == Position(members, a)
           others == RemoveAt(members, i)
           old == members[i].percentage
       IN  /\ IsMember(members, a)
           /\ new # old
           /\ Settable(others, old, new, policy)
           /\ StoreMembers(id,
                InsertAt(ApplyRebalance(others, old - new, policy), i,
                         [address |-> a, percentage |-> new]))

-----------------------------------------------------------------------------
Administration ==
    \/ \E a \in Address : InitContract(a)
    \/ \E c, a \in Address : ProposeAdmin(c, a)
    \/ \E c \in Address : AcceptAdmin(c)
    \/ \E c \in Address : CancelAdminProposal(c)
    \/ \E c \in Address : Pause(c)
    \/ \E c \in Address : Unpause(c)
    \/ \E c \in Address, v \in compiledVersion .. LastRelease : Upgrade(c, v)
    \/ \E c \in Address, limit \in BatchLimits : Migrate(c, limit)

\* A call of a member operation that carries the version `expected`.
Edit(id, expected) ==
    \E c \in Address :
        \/ \E members \in MemberLists : UpdateMembers(id, c, members, expected)
        \/ \E a \in Address, policy \in RebalancePolicy :
            \/ \E p \in 0 .. Total : AddMember(id, c, a, p, policy, expected)
            \/ RemoveMember(id, c, a, policy, expected)
            \/ \E p \in 0 .. Total :
                SetMemberPercentage(id, c, a, p, policy, expected)

Membership == \E id \in Ids, expected \in 1 .. U32Max : Edit(id, expected)

Next ==
    \/ Administration
    \/ \E id \in Ids, c \in Address, t \in Token : Create(id, c, t)
    \/ Membership

Spec == Init /\ [][Next]_registryVars

(* What operators are told to do and the code does not enforce: migrate is *)
(* called until done before anything else (contract/README.md, runbook     *)
(* step 4), so no release is installed over a half-done migration.         *)
Runbook == compiledVersion' # compiledVersion => migrationCursor = 0
RunbookSpec == Init /\ [][Next /\ Runbook]_registryVars

\* The administrator keeps calling migrate until it reports done, as the
\* runbook says ("Repeat step 4 if remaining > 0 until done is true").
Fairness == WF_registryVars(\E c \in Address, limit \in BatchLimits \ {0} :
                                Migrate(c, limit))

-----------------------------------------------------------------------------
(* A stored record: its fields are those of its layout, whose version and  *)
(* group version are never the 0 of a missing field.                       *)
IsGroupRecord(r) ==
    /\ r = [layout |-> r.layout, creator |-> r.creator,
            payment_token |-> r.payment_token, members |-> r.members,
            version |-> r.version, group_version |-> r.group_version]
    /\ r.layout \in {6, 7, 8}
    /\ r.creator \in Address
    /\ r.payment_token \in Token
    /\ r.version \in IF r.layout = 6 THEN {0} ELSE 1 .. LastRelease
    /\ r.group_version \in IF r.layout = 8 THEN 1 .. U32Max ELSE {0}

(* Type invariant of the registry's storage; MembersSound is the one of    *)
(* the member lists.                                                       *)
TypeOK ==
    /\ admin \in Address \cup {NoAddress}
    /\ pendingAdmin \in Address \cup {NoAddress}
    /\ paused \in BOOLEAN
    /\ compiledVersion \in CURRENT_SCHEMA_VERSION .. LastRelease
    /\ schemaVersion \in 0 .. compiledVersion
    /\ migrationCursor \in Nat
    /\ DOMAIN groups = Ids
    /\ \A g \in StoredIds : IsGroupRecord(groups[g])
    /\ allGroups \in Seq(Ids)
    /\ creatorGroups \in [Address -> Seq(Ids)]

(* Whatever sequence of create, update_members, add_member, remove_member  *)
(* and set_member_percentage calls is made, the members stored for a group *)
(* are none or distinct addresses with non-zero percentages of total       *)
(* 10_000: distribute's expect("failed to distribute amounts") relies on   *)
(* it (lib.rs, "stored groups are expected to have been validated").       *)
MembersSound == \A g \in StoredIds : ValidMembers(groups[g].members)

(* "Pause the contract to prevent state mutations during the upgrade       *)
(* window" (contract/README.md, runbook step 2): while the contract is     *)
(* paused no group's members change. add_member, remove_member and         *)
(* set_member_percentage do not check the flag.                            *)
PauseFreezesMembers ==
    [][paused => \A g \in StoredIds :
            groups'[g] # NoGroup /\ groups'[g].members = groups[g].members
      ]_registryVars

\* A record carries the schema version of the installed release.
IsCurrent(g) == groups[g].layout = 8 /\ groups[g].version = compiledVersion

(* "`true` when all groups have been migrated" (MigrationProgress::done in *)
(* types.rs): a schema stamped current leaves no group of an earlier       *)
(* layout or version behind. Checked alone without the runbook: upgrade    *)
(* keeps the cursor of a half-done migration, and the next release resumes *)
(* from it.                                                                *)
DoneMeansMigrated == MigrationCurrent => \A g \in StoredIds : IsCurrent(g)

(* DoneMeansMigrated where the runbook is followed, with what makes it     *)
(* inductive: a migration interrupted between batches has migrated exactly *)
(* what lies before its cursor, and none is pending once the schema is     *)
(* current.                                                                *)
MigrationSound ==
    /\ DoneMeansMigrated
    /\ MigrationCurrent => migrationCursor = 0
    /\ \A i \in DOMAIN allGroups : i <= migrationCursor => IsCurrent(allGroups[i])

(* "Group data is never corrupted" by a migration or an upgrade            *)
(* (contract/README.md, Rollback Story): while the schema is stale, what a *)
(* reader decodes for a group, its version for optimistic concurrency      *)
(* included, does not change.                                              *)
MigrationPreservesGroups ==
    [][~MigrationCurrent =>
        \A g \in StoredIds :
            /\ groups'[g] # NoGroup
            /\ Decoded(groups'[g]).creator = GroupOf(g).creator
            /\ Decoded(groups'[g]).members = GroupOf(g).members
            /\ Decoded(groups'[g]).group_version = GroupOf(g).group_version
      ]_registryVars

(* A pending migration ends with the schema stamped current, whatever      *)
(* positive batch limits are chosen and however it is interrupted.         *)
MigrationCompletes ==
    admin # NoAddress /\ ~MigrationCurrent ~> MigrationCurrent
=============================================================================
