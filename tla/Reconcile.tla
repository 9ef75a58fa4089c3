----------------------------- MODULE Reconcile -----------------------------
(***************************************************************************)
(* backend/src/services/reconcile.ts: the scan of the groups table against *)
(* the chain and the repair of the drift it found, as the CLI runs them,   *)
(* beside the two writers of the index and an edit of a group's token.     *)
(*                                                                         *)
(* A group on chain is its revision. In the database it is a row of groups *)
(* and lists of members rows, each inserted together from one reading: the *)
(* table has nothing to stop two lists of one group. PostgreSQL works at   *)
(* READ COMMITTED: a DELETE finds the lists committed when it starts, and  *)
(* ON CONFLICT DO UPDATE locks the group's row until the commit. A writer  *)
(* upserts the groups of a batch in one transaction; here they are taken   *)
(* one by one, the rows they insert having the transaction's created_at.   *)
(***************************************************************************)
EXTENDS Naturals, Sequences, FiniteSets, SequencesExt

CONSTANTS
    Group,
    Writer,          \* processes that upsert groups: the worker, a backfill
    PageSize,        \* rows a page of the scan reads: 50 in the code
    MaxRevision,     \* bound: changes of a group on chain
    Stamp,           \* bound: times at which a transaction begins
    ListId           \* bound: member lists of a group told apart

ASSUME ReconcileAssumption ==
    /\ PageSize \in Nat \ {0} /\ MaxRevision \in Nat
    /\ Stamp \subseteq Nat \ {0} /\ ListId \subseteq Nat
    /\ IsFiniteSet(Group)

VARIABLES
    onchain,     \* revision of each group on chain, 0 before it is created
    archived,    \* groups whose contract entry the RPC does not return
    createdAt,   \* the groups table: created_at of each row, 0 without one
    lists,       \* the members table: the lists of each group
    retokened,   \* rows whose token differs from the chain's
    upsert,      \* the transaction each writer has open
    run,         \* the reconciliation: its scan
    repair,      \* and its repair transaction
    quiet,       \* history: nothing else has changed since the scan began
    raced        \* history: a repair and a writer replaced one group's members

chainView == <<onchain, archived>>
tableVars == <<createdAt, lists, retokened>>
runVars == <<run, repair>>
reconcileVars == <<chainView, tableVars, upsert, runVars, quiet, raced>>

NoUpsert == [at |-> "idle"]
NoRun == [at |-> "idle"]
NoRepair == [todo |-> <<>>, fixes |-> <<>>]

ReconcileInit ==
    /\ onchain = [g \in Group |-> 0]
    /\ archived = {}
    /\ createdAt = [g \in Group |-> 0]
    /\ lists = [g \in Group |-> {}]
    /\ retokened = {}
    /\ upsert = [w \in Writer |-> NoUpsert]
    /\ run = NoRun
    /\ repair = NoRepair
    /\ quiet = FALSE
    /\ raced = FALSE

Indexed == {g \in Group : createdAt[g] > 0}

-----------------------------------------------------------------------------
(* The chain, and the edits of PUT /groups/:id                             *)

ChangeGroup(g) ==
    /\ onchain[g] < MaxRevision
    /\ onchain' = [onchain EXCEPT ![g] = @ + 1]
    /\ archived' = archived \ {g}
    /\ quiet' = FALSE
    /\ UNCHANGED <<tableVars, upsert, runVars, raced>>

Archive(g) ==
    /\ onchain[g] > 0
    /\ archived' = archived \cup {g}
    /\ quiet' = FALSE
    /\ UNCHANGED <<onchain, tableVars, upsert, runVars, raced>>

Replacing(w, g) == upsert[w].at = "replacing" /\ upsert[w].group = g

\* Fixes of the open repair transaction that lock a group's row.
Locking(fix) == fix.missing \/ fix.token

GroupFree(g) ==
    /\ \A w \in Writer : ~Replacing(w, g)
    /\ \A i \in DOMAIN repair.fixes :
        repair.fixes[i].group = g => ~Locking(repair.fixes[i])

EditToken(g) ==
    /\ g \in Indexed
    /\ GroupFree(g)
    /\ retokened' = retokened \cup {g}
    /\ quiet' = FALSE
    /\ UNCHANGED <<chainView, createdAt, lists, upsert, runVars, raced>>

-----------------------------------------------------------------------------
(* processEventBatch and its upsertGroupFromChain, by a writer of the index *)

\* t is later than the transactions that are open or have inserted a row.
Later(t) ==
    /\ \A g \in Group : createdAt[g] < t
    /\ \A w \in Writer : upsert[w] # NoUpsert => upsert[w].began < t

\* NOW() of a transaction is when it began. Of later times one is like the
\* other.
BeginBatch(w) ==
    /\ upsert[w] = NoUpsert
    /\ \E t \in Stamp :
        /\ Later(t) /\ \A s \in Stamp : s < t => ~Later(s)
        /\ upsert' = [upsert EXCEPT ![w] = [at |-> "open", began |-> t]]
    /\ UNCHANGED <<chainView, tableVars, runVars, quiet, raced>>

ReadForUpsert(w, g) ==
    /\ upsert[w].at = "open"
    /\ onchain[g] > 0
    /\ g \notin archived
    /\ upsert' = [upsert EXCEPT
         ![w] = [at |-> "read", began |-> upsert[w].began, group |-> g,
                 revision |-> onchain[g]]]
    /\ UNCHANGED <<chainView, tableVars, runVars, quiet, raced>>

\* Mutant: the members are replaced before the group's row is written.
LockSkipped(g) == TRUE

Locked(g) == GroupFree(g)

\* A repair's DELETE of this group's members is not committed yet.
Repairing(g) ==
    \E i \in DOMAIN repair.fixes : repair.fixes[i].group = g

\* The group's row is upserted, then its members are deleted.
ReplaceMembers(w) ==
    /\ upsert[w].at = "read"
    /\ Locked(upsert[w].group)
    /\ LET g == upsert[w].group
       IN  /\ upsert' = [upsert EXCEPT
                ![w] = [at |-> "replacing", began |-> upsert[w].began, group |-> g,
                        revision |-> upsert[w].revision, deleted |-> lists[g]]]
           /\ raced' = (raced \/ Repairing(g))
    /\ UNCHANGED <<chainView, tableVars, runVars, quiet>>

\* The fixes of a group: it may be reported by two pages, and what the later
\* one deletes includes what the earlier one inserted.
FixesOf(g) == {repair.fixes[i] : i \in {j \in DOMAIN repair.fixes :
                                            repair.fixes[j].group = g}}

\* Lists of a group an open DELETE found: of a writer, of the repair.
FoundBy(w, g) == IF Replacing(w, g) THEN upsert[w].deleted ELSE {}
FoundByRepair(g) == UNION {fix.deleted : fix \in FixesOf(g)}

\* Ids neither of a list that stays nor of one another DELETE has found.
FreeIds(kept, found) == ListId \ {l.id : l \in kept \cup found}

\* Which of the free ids does not matter.
NewList(free, revision) ==
    [id |-> CHOOSE id \in free : \A other \in free : id <= other,
     revision |-> revision]

\* Mutant: the page order is by the last update.
NewestAgain(g, began) == began

\* created_at DEFAULT NOW(), which ON CONFLICT DO UPDATE leaves alone.
TimeOfRow(g, began) == IF g \in Indexed THEN createdAt[g] ELSE began

CommitUpsert(w) ==
    /\ upsert[w].at = "replacing"
    /\ LET g == upsert[w].group
           kept == lists[g] \ upsert[w].deleted
           found == FoundByRepair(g) \cup UNION {FoundBy(v, g) : v \in Writer \ {w}}
       IN  /\ createdAt' = [createdAt EXCEPT ![g] = TimeOfRow(g, upsert[w].began)]
           /\ lists' = [lists EXCEPT ![g] = kept \cup
                            {NewList(FreeIds(kept, found), upsert[w].revision)}]
           /\ retokened' = retokened \ {g}
    /\ upsert' = [upsert EXCEPT ![w] = [at |-> "open", began |-> upsert[w].began]]
    /\ quiet' = FALSE
    /\ UNCHANGED <<chainView, runVars, raced>>

\* The batch is over, or what is left of it is rolled back.
EndBatch(w) ==
    /\ upsert[w] # NoUpsert
    /\ upsert' = [upsert EXCEPT ![w] = NoUpsert]
    /\ UNCHANGED <<chainView, tableVars, runVars, quiet, raced>>

-----------------------------------------------------------------------------
(* reconcileAll: the scan                                                  *)

\* The CLI is started with --repair; a dry run ends with its scan.
StartRun ==
    /\ run.at \in {"idle", "repaired"}
    /\ run' = [at |-> "listing", offset |-> 0, page |-> <<>>, reports |-> <<>>,
               known |-> Indexed, scanned |-> {}]
    /\ quiet' = TRUE
    /\ UNCHANGED <<chainView, tableVars, upsert, repair, raced>>

\* ORDER BY created_at DESC: rows that tie come in any order, which may be
\* another one in the next query.
Orders ==
    {s \in [1 .. Cardinality(Indexed) -> Indexed] :
        \A i, j \in DOMAIN s :
            i # j => s[i] # s[j] /\ (i < j => createdAt[s[i]] >= createdAt[s[j]])}

\* LIMIT PageSize OFFSET offset.
Page(order, offset) ==
    SubSeq(order, offset + 1, Min({offset + PageSize, Len(order)}))

ListPage ==
    /\ run.at = "listing"
    /\ run.page = <<>>
    /\ \E order \in Orders :
       LET page == Page(order, run.offset)
       IN  IF page # <<>>
           THEN run' = [run EXCEPT !.page = page, !.offset = @ + PageSize]
           ELSE run' = [run EXCEPT !.at = "scanned"]
    /\ UNCHANGED <<chainView, tableVars, upsert, repair, quiet, raced>>

\* reconcileGroup reads the row and its members and then the chain.
ReadRow ==
    /\ run.at = "listing"
    /\ run.page # <<>>
    /\ LET g == Head(run.page)
       IN  run' = [at |-> "reading", offset |-> run.offset, page |-> Tail(run.page),
                   reports |-> run.reports, known |-> run.known,
                   scanned |-> run.scanned \cup {g},
                   group |-> g, token |-> g \in retokened, members |-> lists[g]]
    /\ UNCHANGED <<chainView, tableVars, upsert, repair, quiet, raced>>

\* Whether a difference of the members is noticed: the rows go through a map
\* by address, so lists that are equal are one, and of lists that are not
\* the rows read last decide.
Notices(read, revision) ==
    LET revisions == {l.revision : l \in read}
    IN  CASE revisions = {revision} -> {FALSE}
          [] Cardinality(read) > 1 -> BOOLEAN
          [] OTHER -> {TRUE}

\* The next group is to be read, after these reports.
Reported(reports) ==
    run' = [at |-> "listing", offset |-> run.offset, page |-> run.page,
            reports |-> reports, known |-> run.known, scanned |-> run.scanned]

Fix(missing, token, members) ==
    [group |-> run.group, missing |-> missing, token |-> token,
     members |-> members, revision |-> onchain[run.group], deleted |-> {}]

\* The creator is never different: it is set with the row and fixed on chain.
ReadChain ==
    /\ run.at = "reading"
    /\ IF run.group \in archived
       THEN Reported(Append(run.reports, Fix(TRUE, FALSE, FALSE)))
       ELSE \E members \in Notices(run.members, onchain[run.group]) :
                Reported(IF run.token \/ members
                         THEN Append(run.reports, Fix(FALSE, run.token, members))
                         ELSE run.reports)
    /\ UNCHANGED <<chainView, tableVars, upsert, repair, quiet, raced>>

-----------------------------------------------------------------------------
(* reconcileAll: the repair, one transaction for all reports               *)

BeginRepair ==
    /\ run.at = "scanned"
    /\ run' = [run EXCEPT !.at = "repairing"]
    /\ repair' = [todo |-> run.reports, fixes |-> <<>>]
    /\ UNCHANGED <<chainView, tableVars, upsert, quiet, raced>>

\* Mutant: the rows of the new list are added to those there are.
MembersAdded(g) == {}

MembersDeleted(g) == lists[g]

\* A group whose row is written or deleted is waited for; the members are
\* deleted and inserted without its lock.
ApplyFix ==
    /\ run.at = "repairing"
    /\ repair.todo # <<>>
    /\ LET fix == Head(repair.todo)
           deleted == IF fix.members THEN MembersDeleted(fix.group) ELSE {}
       IN  /\ Locking(fix) => \A w \in Writer : ~Replacing(w, fix.group)
           /\ repair' = [todo |-> Tail(repair.todo),
                         fixes |-> Append(repair.fixes,
                                          [fix EXCEPT !.deleted = deleted])]
           /\ raced' = (raced \/ \E w \in Writer : Replacing(w, fix.group))
    /\ UNCHANGED <<chainView, tableVars, upsert, run, quiet>>

Removed == {g \in Group : \E fix \in FixesOf(g) : fix.missing}
Relisted == {g \in Group \ Removed : \E fix \in FixesOf(g) : fix.members}

LastRevision(g) ==
    LET last == CHOOSE i \in DOMAIN repair.fixes :
            /\ repair.fixes[i].group = g /\ repair.fixes[i].members
            /\ \A j \in i + 1 .. Len(repair.fixes) :
                ~(repair.fixes[j].group = g /\ repair.fixes[j].members)
    IN  repair.fixes[last].revision

CommitRepair ==
    /\ run.at = "repairing"
    /\ repair.todo = <<>>
    /\ lists' = [g \in Group |->
            LET kept == lists[g] \ FoundByRepair(g)
                found == UNION {FoundBy(w, g) : w \in Writer}
            IN  CASE g \in Removed -> {}
                  [] g \in Relisted ->
                        kept \cup {NewList(FreeIds(kept, found), LastRevision(g))}
                  [] OTHER -> lists[g]]
    /\ createdAt' = [g \in Group |-> IF g \in Removed THEN 0 ELSE createdAt[g]]
    /\ retokened' = {g \in retokened \ Removed : \A fix \in FixesOf(g) : ~fix.token}
    /\ run' = [run EXCEPT !.at = "repaired"]
    /\ repair' = NoRepair
    /\ UNCHANGED <<chainView, upsert, quiet, raced>>

\* The chain cannot be read, a statement fails or the process dies: the
\* transaction is rolled back and nothing was written.
AbortRun ==
    /\ run.at # "idle"
    /\ run' = NoRun
    /\ repair' = NoRepair
    /\ quiet' = FALSE
    /\ UNCHANGED <<chainView, tableVars, upsert, raced>>

-----------------------------------------------------------------------------
ReconcileNext ==
    \/ \E g \in Group : ChangeGroup(g) \/ Archive(g) \/ EditToken(g)
    \/ \E w \in Writer : \/ BeginBatch(w) \/ ReplaceMembers(w)
                         \/ CommitUpsert(w) \/ EndBatch(w)
                         \/ \E g \in Group : ReadForUpsert(w, g)
    \/ StartRun \/ ListPage \/ ReadRow \/ ReadChain
    \/ BeginRepair \/ ApplyFix \/ CommitRepair \/ AbortRun

ReconcileSpec == ReconcileInit /\ [][ReconcileNext]_reconcileVars

\* No two rows were inserted by one transaction.
Untied == \A g, h \in Indexed : createdAt[g] = createdAt[h] => g = h

(* A group whose row was there when the scan began is scanned, however     *)
(* many are indexed while the pages are read and however late their        *)
(* transactions commit: a new row moves others to later offsets, never to  *)
(* earlier ones (list's order and offset). That takes rows that do not     *)
(* tie: those of one batch may come in another order on the next page, and *)
(* one of them is passed over (RepairIsIdempotent).                        *)
NoGroupSkipped ==
    run.at \in {"scanned", "repairing"} /\ Untied => run.known \subseteq run.scanned

\* The row is a group of the chain with its token, and with its members
\* unless two lists were joined by a race.
Agrees(g) ==
    /\ g \notin archived \cup retokened
    /\ ~raced => {l.revision : l \in lists[g]} = {onchain[g]}

(* The rows that were scanned agree with the chain after the repair, those *)
(* reported once and those reported by two pages, as long as nothing else  *)
(* has changed the chain or the tables since the scan began; a change in   *)
(* between may be overwritten by what was read before it.                  *)
RepairedAgrees ==
    run.at = "repaired" /\ quiet => \A g \in Indexed \cap run.scanned : Agrees(g)

(* "Repair is idempotent: the second run reports zero drift" (reconcile.ts *)
(* line 244): if nothing else has changed since the scan began, no row is  *)
(* left that another run would report.                                     *)
RepairIsIdempotent ==
    run.at = "repaired" /\ quiet /\ ~raced => \A g \in Indexed : Agrees(g)

(* A group has one list of members however its writers interleave: only a  *)
(* repair that replaces them at the same time as a writer joins two lists. *)
OneMemberList == ~raced => \A g \in Indexed : Cardinality(lists[g]) = 1
=============================================================================
