------------------------------- MODULE Indexer -------------------------------
(***************************************************************************)
(* The copy of the chain in PostgreSQL: the live indexer worker            *)
(* (backend/src/workers/indexer.ts) and the backfill CLI                   *)
(* (backend/src/workers/backfill.ts), which share one decode-and-persist   *)
(* path (backend/src/services/indexerProcessor.ts).                        *)
(*                                                                         *)
(* The chain and the RPC node are external: a log of the contract's events *)
(* of which the closed ledgers can be read, back to the oldest one still   *)
(* retained. What a group holds on chain is its revision, the number of    *)
(* changes made to it; a row of the groups table (with its members) holds  *)
(* the revision it was read at.                                            *)
(***************************************************************************)
EXTENDS Naturals, Sequences, FiniteSets

CONSTANTS
    Groups,      \* on-chain group identifiers
    PageLimit,   \* INDEXER_PAGE_LIMIT, events per getEvents call
    MaxEvents,   \* bound: events of the log
    MaxLedger    \* bound: ledgers

ASSUME IndexerAssumption ==
    /\ IsFiniteSet(Groups)
    /\ PageLimit \in Nat \ {0}
    /\ MaxEvents \in Nat
    /\ MaxLedger \in Nat \ {0}

VARIABLES
    log,           \* events, to be seen when their ledger is closed
    tip,           \* last closed ledger (latestLedger)
    oldest,        \* oldest ledger of the RPC's retention window
    startLedger,   \* INDEXER_START_LEDGER
    groupRows,     \* groups and members tables: revision of each, 0 when absent
    transactions,  \* transactions table: number of rows per event
    cursor,        \* the row of indexer_cursor
    batch,         \* the batch each writer has open, with its uncommitted writes
    backfill,      \* the run of the backfill CLI
    reported,      \* history: events whose last processing was a logged skip
    overlapped     \* history: both writers had a batch open at once

chainVars == <<log, tip, oldest>>
dbVars == <<groupRows, transactions, cursor>>
historyVars == <<reported, overlapped>>
indexerVars == <<log, tip, oldest, startLedger, groupRows, transactions, cursor,
                 batch, backfill, reported, overlapped>>

Writers == {"live", "backfill"}
Other(w) == IF w = "live" THEN "backfill" ELSE "live"

-----------------------------------------------------------------------------
(* The chain.                                                              *)

\* Kinds that change a group. "member_added" stands for every event of one
\* member, none of which the decoder knows.
ChangeKinds == {"created", "members_updated", "member_added"}
Kinds == ChangeKinds \cup {"distributed"}

Events(first, last) ==
    {p \in DOMAIN log : log[p].ledger \in first .. last}

\* Events of the ledgers before l: the log is in ledger order.
Before(l) == Cardinality({p \in DOMAIN log : log[p].ledger < l})

Closed == Before(tip + 1)

RevisionAt(g, p) ==
    Cardinality({q \in 1 .. p : log[q].group = g /\ log[q].kind \in ChangeKinds})

\* The logs the contract can emit: a group is created once, before anything
\* else happens to it; the events of a transaction are together, in a ledger.
Logs ==
    {l \in [1 .. MaxEvents -> [ledger : 1 .. MaxLedger, txHash : 1 .. MaxEvents,
                               kind : Kinds, group : Groups]] :
        \A p \in 1 .. MaxEvents :
            /\ l[p].kind = "created" <=>
                    \A q \in 1 .. p - 1 : l[q].group # l[p].group
            /\ \/ l[p].txHash = p
               \/ p > 1 /\ l[p].txHash = l[p - 1].txHash /\ l[p].ledger = l[p - 1].ledger
            /\ \A q \in 1 .. p - 1 : l[q].ledger <= l[p].ledger}

CloseLedger ==
    /\ tip < MaxLedger
    /\ tip' = tip + 1
    /\ UNCHANGED <<log, oldest, startLedger, dbVars, batch, backfill, historyVars>>

\* The RPC node drops its oldest ledger.
Expire ==
    /\ oldest < tip
    /\ oldest' = oldest + 1
    /\ UNCHANGED <<log, tip, startLedger, dbVars, batch, backfill, historyVars>>

-----------------------------------------------------------------------------
(* One batch: processEventBatch.                                           *)

NoCursor == [ledger |-> 0, upto |-> 0]
NoBatch == [next |-> 0]
Open(w) == batch[w].next > 0

\* BEGIN, with the events after `from` and the cursor to persist.
Opened(from, last, token) ==
    [first |-> from + 1, next |-> from + 1, last |-> last, token |-> token, read |-> 0,
     groups |-> [g \in Groups |-> 0], paid |-> {}, skipped |-> {}]

Current(w) == log[batch[w].next]
Pending(w, kind) ==
    /\ Open(w)
    /\ batch[w].next <= batch[w].last
    /\ Current(w).kind = kind

\* A row locked by an uncommitted write of the other writer.
GroupLocked(w, g) == Open(Other(w)) /\ batch[Other(w)].groups[g] > 0

\* What the writer sees: its own writes over the committed rows.
RowOf(w, g) == IF batch[w].groups[g] > 0 THEN batch[w].groups[g] ELSE groupRows[g]

\* The current event is done, with these writes of the batch so far.
Advanced(b, written, paid, skipped) ==
    [first |-> b.first, next |-> b.next + 1, last |-> b.last, token |-> b.token,
     read |-> 0, groups |-> written, paid |-> paid, skipped |-> skipped]

SkipCurrent(w) ==
    batch' = [batch EXCEPT ![w] =
                Advanced(@, @.groups, @.paid, @.skipped \cup {@.next})]

SkipUndecoded(w) ==
    /\ Pending(w, "member_added")
    /\ SkipCurrent(w)
    /\ UNCHANGED <<chainVars, startLedger, dbVars, backfill, historyVars>>

\* upsertGroupFromChain, first half: the group is read from contract storage
\* before any row is locked.
ReadGroup(w) ==
    /\ Pending(w, "created") \/ Pending(w, "members_updated")
    /\ batch[w].read = 0
    /\ batch' = [batch EXCEPT ![w].read = RevisionAt(Current(w).group, Closed)]
    /\ UNCHANGED <<chainVars, startLedger, dbVars, backfill, historyVars>>

\* Second half: the group's row and members are replaced by what was read.
\*
\* Mutant: ON CONFLICT DO NOTHING.
UpsertGroupOnlyNew(w) ==
    /\ Pending(w, "created") \/ Pending(w, "members_updated")
    /\ batch[w].read > 0
    /\ ~GroupLocked(w, Current(w).group)
    /\ LET g == Current(w).group
           written == [batch[w].groups EXCEPT ![g] =
                            IF RowOf(w, g) > 0 THEN @ ELSE batch[w].read]
       IN batch' = [batch EXCEPT ![w] = Advanced(@, written, @.paid, @.skipped)]
    /\ UNCHANGED <<chainVars, startLedger, dbVars, backfill, historyVars>>

UpsertGroup(w) ==
    /\ Pending(w, "created") \/ Pending(w, "members_updated")
    /\ batch[w].read > 0
    /\ ~GroupLocked(w, Current(w).group)
    /\ LET written == [batch[w].groups EXCEPT ![Current(w).group] = batch[w].read]
       IN batch' = [batch EXCEPT ![w] = Advanced(@, written, @.paid, @.skipped)]
    /\ UNCHANGED <<chainVars, startLedger, dbVars, backfill, historyVars>>

\* Rows of a transaction hash, committed or the writer's own.
RowsOfTx(w, tx) ==
    {p \in DOMAIN log : log[p].txHash = tx
                        /\ (transactions[p] > 0 \/ p \in batch[w].paid)}

TxLocked(w, tx) ==
    Open(Other(w)) /\ \E p \in batch[Other(w)].paid : log[p].txHash = tx

InsertDistribution(w) ==
    /\ Pending(w, "distributed")
    /\ RowOf(w, Current(w).group) > 0
    /\ ~TxLocked(w, Current(w).txHash)
    /\ LET inserted == IF RowsOfTx(w, Current(w).txHash) = {}
                       THEN {batch[w].next} ELSE {}
       IN batch' = [batch EXCEPT ![w] =
                        Advanced(@, @.groups, @.paid \cup inserted, @.skipped)]
    /\ UNCHANGED <<chainVars, startLedger, dbVars, backfill, historyVars>>

\* A distribution of a group that is not indexed: the event is skipped.
SkipOrphan(w) ==
    /\ Pending(w, "distributed")
    /\ RowOf(w, Current(w).group) = 0
    /\ SkipCurrent(w)
    /\ UNCHANGED <<chainVars, startLedger, dbVars, backfill, historyVars>>

\* ROLLBACK TO SAVEPOINT: the chain could not be read or a statement failed,
\* and the event is skipped.
SkipFailed(w) ==
    /\ \E kind \in Kinds \ {"member_added"} : Pending(w, kind)
    /\ SkipCurrent(w)
    /\ UNCHANGED <<chainVars, startLedger, dbVars, backfill, historyVars>>

ApplyEvent(w) ==
    \/ SkipUndecoded(w)
    \/ ReadGroup(w)
    \/ UpsertGroup(w)
    \/ InsertDistribution(w)
    \/ SkipOrphan(w)

\* A statement waits for a lock of the other writer.
Waiting(w) ==
    \/ /\ Pending(w, "created") \/ Pending(w, "members_updated")
       /\ batch[w].read > 0
       /\ GroupLocked(w, Current(w).group)
    \/ /\ Pending(w, "distributed")
       /\ RowOf(w, Current(w).group) > 0
       /\ TxLocked(w, Current(w).txHash)

\* When each waits for the other PostgreSQL fails the statement of one, whose
\* event is skipped.
BreakDeadlock ==
    /\ \A w \in Writers : Waiting(w)
    /\ \E w \in Writers : SkipFailed(w)

\* COMMIT, without the cursor.
CommitRows(w) ==
    /\ Open(w)
    /\ batch[w].next > batch[w].last
    /\ groupRows' = [g \in Groups |-> RowOf(w, g)]
    /\ transactions' = [p \in DOMAIN transactions |->
            IF p \in batch[w].paid THEN transactions[p] + 1 ELSE transactions[p]]
    /\ reported' = (reported \ (batch[w].first .. batch[w].last))
                      \cup batch[w].skipped
    /\ batch' = [batch EXCEPT ![w] = NoBatch]
    /\ UNCHANGED <<chainVars, startLedger, overlapped>>

-----------------------------------------------------------------------------
(* The live worker: runIndexerLoop.                                        *)

CursorRetained == cursor # NoCursor /\ cursor.ledger >= oldest
StartRetained == startLedger \in oldest .. tip

ResumeFrom ==
    IF CursorRetained THEN cursor.upto ELSE Before(startLedger)

Min2(a, b) == IF a < b THEN a ELSE b

\* fetchPage from the cursor, or from INDEXER_START_LEDGER when there is no
\* cursor or the RPC no longer retains it. A short page's cursor is the tip.
FetchedPage(from) ==
    LET last == Min2(from + PageLimit, Closed)
    IN Opened(from, last, [ledger |-> IF last = from + PageLimit
                                      THEN log[last].ledger ELSE tip,
                           upto |-> last])

\* Mutant: no fallback.
FetchPageNoFallback ==
    /\ ~Open("live")
    /\ CursorRetained \/ (cursor = NoCursor /\ StartRetained)
    /\ batch' = [batch EXCEPT !["live"] = FetchedPage(ResumeFrom)]
    /\ overlapped' = (overlapped \/ Open("backfill"))
    /\ UNCHANGED <<chainVars, startLedger, dbVars, backfill, reported>>

\* Mutant: any failed request falls back, not only one beyond retention.
FetchPageAnyFailure ==
    /\ ~Open("live")
    /\ \/ CursorRetained /\ batch' = [batch EXCEPT !["live"] = FetchedPage(cursor.upto)]
       \/ /\ StartRetained
          /\ batch' = [batch EXCEPT !["live"] = FetchedPage(Before(startLedger))]
    /\ overlapped' = (overlapped \/ Open("backfill"))
    /\ UNCHANGED <<chainVars, startLedger, dbVars, backfill, reported>>

\* Mutant: the cursor is saved when the page is fetched, before its rows.
FetchPageSavingCursor ==
    /\ ~Open("live")
    /\ CursorRetained \/ StartRetained
    /\ batch' = [batch EXCEPT !["live"] = FetchedPage(ResumeFrom)]
    /\ cursor' = batch'["live"].token
    /\ overlapped' = (overlapped \/ Open("backfill"))
    /\ UNCHANGED <<chainVars, startLedger, groupRows, transactions, backfill, reported>>

FetchPage ==
    /\ ~Open("live")
    /\ CursorRetained \/ StartRetained
    /\ batch' = [batch EXCEPT !["live"] = FetchedPage(ResumeFrom)]
    /\ overlapped' = (overlapped \/ Open("backfill"))
    /\ UNCHANGED <<chainVars, startLedger, dbVars, backfill, reported>>

CommitLive ==
    /\ CommitRows("live")
    /\ cursor' = batch["live"].token
    /\ UNCHANGED backfill

\* The batch throws and is rolled back, or the worker is killed with it.
AbortLive ==
    /\ Open("live")
    /\ batch' = [batch EXCEPT !["live"] = NoBatch]
    /\ UNCHANGED <<chainVars, startLedger, dbVars, backfill, historyVars>>

\* The operator restarts the worker with a later INDEXER_START_LEDGER.
RestartLater ==
    /\ ~Open("live")
    /\ \E l \in startLedger + 1 .. tip : startLedger' = l
    /\ UNCHANGED <<chainVars, dbVars, batch, backfill, historyVars>>

-----------------------------------------------------------------------------
(* The backfill CLI: runBackfill.                                          *)

NoBackfill == [status |-> "none"]

\* Bound: one run per behaviour.
StartBackfill(from, to) ==
    /\ backfill = NoBackfill
    /\ from <= to /\ to <= tip
    /\ backfill' = [status |-> "running", from |-> from, to |-> to,
                    cursorLedger |-> from]
    /\ UNCHANGED <<chainVars, startLedger, dbVars, batch, historyVars>>

\* One page of the range. An empty page ends the run.
FetchBackfill ==
    /\ backfill.status = "running"
    /\ ~Open("backfill")
    /\ backfill.cursorLedger >= oldest
    /\ LET from == Before(backfill.cursorLedger)
           last == Min2(from + PageLimit, Before(backfill.to + 1))
       IN IF last = from
          THEN /\ backfill' = [backfill EXCEPT !.status = "done"]
               /\ UNCHANGED <<batch, overlapped>>
          ELSE /\ batch' = [batch EXCEPT !["backfill"] = Opened(from, last, NoCursor)]
               /\ overlapped' = (overlapped \/ Open("live"))
               /\ UNCHANGED backfill
    /\ UNCHANGED <<chainVars, startLedger, dbVars, reported>>

\* The run is over after a short page, or once past its range; otherwise the
\* next page starts at the ledger after the one of the last event.
NextLedger(b) == log[b.last].ledger + 1

CommitBackfill ==
    /\ CommitRows("backfill")
    /\ LET b == batch["backfill"]
           done == b.last - b.first + 1 < PageLimit \/ NextLedger(b) > backfill.to
       IN backfill' = [backfill EXCEPT !.status = IF done THEN "done" ELSE @,
                                       !.cursorLedger = IF done THEN @ ELSE NextLedger(b)]
    /\ UNCHANGED cursor

\* An error of the RPC or of the database ends the process.
AbortBackfill ==
    /\ backfill.status = "running"
    /\ backfill' = [status |-> "failed"]
    /\ batch' = [batch EXCEPT !["backfill"] = NoBatch]
    /\ UNCHANGED <<chainVars, startLedger, dbVars, historyVars>>

-----------------------------------------------------------------------------

IndexerInit ==
    /\ log \in Logs
    /\ tip = 0
    /\ oldest = 1
    /\ startLedger \in 1 .. MaxLedger
    /\ groupRows = [g \in Groups |-> 0]
    /\ transactions = [p \in 1 .. MaxEvents |-> 0]
    /\ cursor = NoCursor
    /\ batch = [w \in Writers |-> NoBatch]
    /\ backfill = NoBackfill
    /\ reported = {}
    /\ overlapped = FALSE

ChainNext ==
    \/ CloseLedger
    \/ Expire

LiveNext ==
    \/ FetchPage
    \/ ApplyEvent("live")
    \/ SkipFailed("live")
    \/ CommitLive
    \/ AbortLive
    \/ RestartLater

BackfillNext ==
    \/ \E from, to \in 1 .. MaxLedger : StartBackfill(from, to)
    \/ FetchBackfill
    \/ ApplyEvent("backfill")
    \/ SkipFailed("backfill")
    \/ CommitBackfill
    \/ AbortBackfill

IndexerNext == ChainNext \/ LiveNext \/ BackfillNext

\* The worker polls and works through what it fetched, a backfill run does
\* not hold its locks for ever, PostgreSQL detects deadlocks, and neither it
\* nor whoever kills the worker keeps every batch from being committed.
IndexerFairness ==
    /\ WF_indexerVars(FetchPage)
    /\ SF_indexerVars(ApplyEvent("live"))
    /\ WF_indexerVars(ApplyEvent("backfill"))
    /\ SF_indexerVars(CommitLive)
    /\ WF_indexerVars(CommitBackfill)
    /\ WF_indexerVars(BreakDeadlock)

IndexerSpec == IndexerInit /\ [][IndexerNext]_indexerVars /\ IndexerFairness

-----------------------------------------------------------------------------
(* Properties.                                                             *)

IndexerTypeOK ==
    /\ groupRows \in [Groups -> 0 .. MaxEvents]
    /\ transactions \in [1 .. MaxEvents -> 0 .. 1]
    /\ cursor.ledger \in 0 .. tip /\ cursor.upto \in 0 .. Closed
    /\ \A w \in Writers : Open(w) =>
        /\ batch[w].next \in 1 .. batch[w].last + 1
        /\ batch[w].last \in 0 .. Closed

\* Events the cursor has passed that the configuration asks for.
Passed(p) == p <= cursor.upto /\ log[p].ledger >= startLedger

PaymentRecorded(p) ==
    \E q \in DOMAIN log :
        /\ log[q].txHash = log[p].txHash
        /\ transactions[q] = 1
        /\ \A r \in DOMAIN log \ {q} :
            log[r].txHash = log[p].txHash => transactions[r] = 0

\* Whatever is retried, killed, replayed by a backfill or lost by the RPC
\* node, a distribution the cursor has passed is in the history once, or its
\* loss was logged: cursor and rows are committed together.
PaymentsRecordedOnce ==
    \A p \in DOMAIN log :
        Passed(p) /\ log[p].kind = "distributed" /\ p \notin reported =>
            PaymentRecorded(p)

\* As long as no backfill ran beside the worker, no event the cursor has
\* passed knows more of a group than the group's row does: the row is read
\* after the event and never replaced by an older reading.
RowsFresh ==
    ~overlapped =>
        \A p \in DOMAIN log :
            Passed(p) /\ log[p].kind \in {"created", "members_updated"}
                      /\ p \notin reported =>
                groupRows[log[p].group] >= RevisionAt(log[p].group, p)

CaughtUp == \A p \in 1 .. Closed : log[p].ledger >= startLedger => p <= cursor.upto

\* Neither the cursor nor INDEXER_START_LEDGER is in the retention window.
Stranded == ~CursorRetained /\ ~StartRetained

\* Where batches stop being aborted for good, the worker catches up with a
\* chain that rests, however often it was killed and events were skipped
\* before, unless retention has overtaken it and its configuration.
CatchesUp ==
    (<>[][~AbortLive]_indexerVars) => <>[](CaughtUp \/ Stranded)

\* The fallback to INDEXER_START_LEDGER never sends the worker back over
\* events it has passed: it only happens when the cursor's ledger is no longer
\* retained, and then succeeds only from a later one.
NeverRewinds == [][cursor'.upto >= cursor.upto]_indexerVars

\* A run of the backfill that ended by itself applied or logged every
\* distribution of its range.
BackfillReplaysRange ==
    backfill.status = "done" =>
        \A p \in Events(backfill.from, backfill.to) :
            log[p].kind = "distributed" /\ p \notin reported => PaymentRecorded(p)
=============================================================================
