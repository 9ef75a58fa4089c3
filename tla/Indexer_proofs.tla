--------------------------- MODULE Indexer_proofs ---------------------------
(***************************************************************************)
(* For every log, page limit, retention and interleaving of the worker     *)
(* with a backfill: the cursor never goes back, no distribution it has     *)
(* passed is missing from the history or in it twice, no group's row knows *)
(* less than the events it has passed, and every round that has something  *)
(* to fetch takes the cursor on.                                           *)
(***************************************************************************)
EXTENDS Indexer, FiniteSetTheorems, TLAPS

-----------------------------------------------------------------------------
(* The log is in ledger order: the events before a ledger are its first.   *)

LEMMA BeforeSplitsLog ==
    ASSUME IndexerAssumption, log \in Logs, NEW l \in Int
    PROVE  /\ Before(l) \in 0 .. MaxEvents
           /\ \A p \in 1 .. MaxEvents : p <= Before(l) <=> log[p].ledger < l
  <1> DEFINE S == {p \in DOMAIN log : log[p].ledger < l}
  <1>1. /\ DOMAIN log = 1 .. MaxEvents /\ MaxEvents \in Nat
        /\ \A p \in 1 .. MaxEvents : log[p].ledger \in Int
        /\ \A p \in 1 .. MaxEvents : \A q \in 1 .. p - 1 : log[q].ledger <= log[p].ledger
    BY DEF Logs, IndexerAssumption
  <1>2. IsFiniteSet(1 .. MaxEvents) /\ Cardinality(1 .. MaxEvents) = MaxEvents
    BY <1>1, FS_Interval
  <1>3. S \subseteq 1 .. MaxEvents /\ IsFiniteSet(S)
    BY <1>1, <1>2, FS_Subset
  <1>4. Cardinality(S) \in Nat /\ Cardinality(S) <= MaxEvents
    BY <1>2, <1>3, FS_Subset, FS_CardinalityType
  <1>5. ASSUME NEW p \in 1 .. MaxEvents, log[p].ledger < l
        PROVE  p <= Cardinality(S)
    <2>1. 1 .. p \subseteq S
      <3>1. SUFFICES ASSUME NEW q \in 1 .. p PROVE q \in S
        OBVIOUS
      <3>2. q \in 1 .. MaxEvents /\ (q = p \/ q \in 1 .. p - 1)
        BY <1>1
      <3> QED
        BY <1>1, <1>5, <3>2
    <2>2. Cardinality(1 .. p) = p /\ p \in Nat
      BY <1>1, FS_Interval
    <2> QED
      BY <1>3, <2>1, <2>2, FS_Subset
  <1>6. ASSUME NEW p \in 1 .. MaxEvents, ~(log[p].ledger < l)
        PROVE  Cardinality(S) < p
    <2>1. S \subseteq 1 .. p - 1
      <3>1. SUFFICES ASSUME NEW q \in S, q \notin 1 .. p - 1 PROVE FALSE
        BY <1>3
      <3>2. q \in 1 .. MaxEvents /\ (q = p \/ p \in 1 .. q - 1)
        BY <1>1, <1>3, <3>1
      <3> QED
        BY <1>1, <1>6, <3>1, <3>2
    <2>2. IsFiniteSet(1 .. p - 1) /\ Cardinality(1 .. p - 1) = p - 1 /\ p \in Nat \ {0}
      BY <1>1, FS_Interval
    <2> QED
      BY <1>4, <2>1, <2>2, FS_Subset
  <1>7. Before(l) = Cardinality(S)
    BY DEF Before
  <1> HIDE DEF S
  <1> QED
    BY <1>1, <1>4, <1>5, <1>6, <1>7

LEMMA BeforeMonotone ==
    ASSUME IndexerAssumption, log \in Logs, NEW l \in Int, NEW m \in Int, l <= m
    PROVE  Before(l) <= Before(m)
  <1>1. CASE Before(l) = 0
    BY <1>1, BeforeSplitsLog
  <1>2. CASE Before(l) # 0
    <2> DEFINE n == Before(l)
    <2>1. n \in 1 .. MaxEvents
      BY <1>2, BeforeSplitsLog
    <2>2. log[n].ledger < l
      BY <2>1, BeforeSplitsLog
    <2>3. log[n].ledger \in Int
      BY <2>1 DEF Logs, IndexerAssumption
    <2>4. log[n].ledger < m
      BY <2>2, <2>3
    <2> HIDE DEF n
    <2>5. n <= Before(m)
      BY <2>1, <2>4, BeforeSplitsLog
    <2> QED
      BY <2>5 DEF n
  <1> QED
    BY <1>1, <1>2

-----------------------------------------------------------------------------
(* The inductive invariant.                                                *)

Positions == 1 .. MaxEvents

BatchRecord ==
    [first : Nat \ {0}, next : Nat \ {0}, last : 0 .. MaxEvents,
     token : [ledger : Nat, upto : Nat], read : 0 .. MaxEvents,
     groups : [Groups -> 0 .. MaxEvents],
     paid : SUBSET Positions, skipped : SUBSET Positions]

Typed ==
    /\ log \in Logs
    /\ tip \in 0 .. MaxLedger
    /\ oldest \in Nat \ {0}
    /\ startLedger \in 1 .. MaxLedger
    /\ groupRows \in [Groups -> 0 .. MaxEvents]
    /\ transactions \in [Positions -> 0 .. 1]
    /\ cursor \in [ledger : 0 .. tip, upto : Nat]
    /\ batch \in [Writers -> BatchRecord \cup {NoBatch}]

(* The cursor has passed no event of a later ledger than its own.          *)
CursorSound == cursor.upto <= Before(cursor.ledger + 1)

(* A batch's page ends within the closed ledgers.                          *)
PagesSound ==
    \A w \in Writers : Open(w) =>
        /\ batch[w].first <= batch[w].next
        /\ batch[w].next <= batch[w].last + 1
        /\ batch[w].last <= Closed

(* The worker's page follows the cursor, or starts at startLedger with     *)
(* nothing asked for in between, and its token is where it ends.           *)
LiveSound ==
    Open("live") =>
        LET b == batch["live"] IN
        /\ b.token.upto = b.last
        /\ b.token.ledger <= tip
        /\ b.last <= Before(b.token.ledger + 1)
        /\ cursor.upto <= b.last
        /\ \A p \in Positions : p < b.first =>
                p <= cursor.upto \/ log[p].ledger < startLedger

(* Rows of a transaction hash: committed ones and those of open batches.   *)
PaidBy(w, p) == Open(w) /\ p \in batch[w].paid
Present(p) == transactions[p] = 1 \/ \E w \in Writers : PaidBy(w, p)

RowsUnique ==
    /\ \A p, q \in Positions :
        log[p].txHash = log[q].txHash /\ Present(p) /\ Present(q) => p = q
    /\ \A p \in Positions, w \in Writers :
        PaidBy(w, p) => transactions[p] = 0 /\ ~PaidBy(Other(w), p)

(* What a batch has gone through and not skipped is recorded once it is    *)
(* committed, and so is what the cursor has passed.                        *)
BatchesRecord ==
    \A w \in Writers, p \in Positions :
        /\ Open(w)
        /\ batch[w].first <= p /\ p < batch[w].next
        /\ log[p].kind = "distributed"
        /\ p \notin batch[w].skipped
        => \E q \in Positions :
             log[q].txHash = log[p].txHash /\ (transactions[q] = 1 \/ q \in batch[w].paid)

PassedRecorded ==
    \A p \in Positions :
        Passed(p) /\ log[p].kind = "distributed" /\ p \notin reported =>
            \E q \in Positions : log[q].txHash = log[p].txHash /\ transactions[q] = 1

IndexerInv ==
    /\ Typed
    /\ CursorSound
    /\ PagesSound
    /\ LiveSound
    /\ RowsUnique
    /\ BatchesRecord
    /\ PassedRecorded

-----------------------------------------------------------------------------
(* Steps inside a batch.                                                   *)

(* What a writer's step does to its batch: it stays or advances by one     *)
(* event, inserts a row only for a transaction without one, and leaves a   *)
(* distribution it does not skip with a row.                               *)
Moves(w) ==
    LET b == batch[w]
        c == batch'[w]
    IN  /\ Open(w)
        /\ UNCHANGED <<log, tip, oldest, startLedger, groupRows, transactions,
                       cursor, reported>>
        /\ batch' = [batch EXCEPT ![w] = c]
        /\ c \in BatchRecord
        /\ c.first = b.first /\ c.last = b.last /\ c.token = b.token
        /\ c.next \in {b.next, b.next + 1} /\ c.next <= b.last + 1
        /\ b.paid \subseteq c.paid /\ c.paid \subseteq b.paid \cup {b.next}
        /\ b.skipped \subseteq c.skipped
        /\ b.next \in c.paid \ b.paid =>
            \A q \in Positions : log[q].txHash = log[b.next].txHash => ~Present(q)
        /\ c.next = b.next + 1 /\ log[b.next].kind = "distributed"
                /\ b.next \notin c.skipped =>
            \E q \in Positions :
                log[q].txHash = log[b.next].txHash /\ (transactions[q] = 1 \/ q \in c.paid)

LEMMA BatchTyped ==
    ASSUME Typed, NEW w \in Writers, Open(w)
    PROVE  batch[w] \in BatchRecord
  BY DEF Typed, Open, NoBatch

LEMMA LogTyped ==
    ASSUME IndexerAssumption, log \in Logs
    PROVE  /\ MaxEvents \in Nat
           /\ DOMAIN log = Positions
           /\ \A p \in Positions : /\ log[p].ledger \in 1 .. MaxLedger
                                   /\ log[p].group \in Groups
                                   /\ log[p].kind \in Kinds
  BY DEF Logs, Positions, IndexerAssumption

LEMMA ClosedTyped ==
    ASSUME IndexerAssumption, Typed
    PROVE  Closed \in 0 .. MaxEvents /\ (\A p \in Positions : p <= Closed <=> log[p].ledger <= tip)
  <1>1. tip + 1 \in Int /\ log \in Logs /\ tip \in Int
    BY DEF Typed, IndexerAssumption
  <1>2. \A p \in Positions : log[p].ledger \in Int
    BY LogTyped, <1>1 DEF IndexerAssumption
  <1> QED
    BY <1>1, <1>2, BeforeSplitsLog DEF Closed, Positions

LEMMA RevisionTyped ==
    ASSUME NEW g, NEW p \in Nat
    PROVE  RevisionAt(g, p) \in 0 .. p
  <1>1. IsFiniteSet(1 .. p) /\ Cardinality(1 .. p) = p
    BY FS_Interval
  <1>2. {q \in 1 .. p : log[q].group = g /\ log[q].kind \in ChangeKinds} \subseteq 1 .. p
    OBVIOUS
  <1> QED
    BY <1>1, <1>2, FS_Subset, FS_CardinalityType DEF RevisionAt

LEMMA SkipMoves ==
    ASSUME IndexerAssumption, IndexerInv, NEW w \in Writers,
           Open(w), batch[w].next <= batch[w].last, SkipCurrent(w),
           UNCHANGED <<chainVars, startLedger, dbVars, backfill, historyVars>>
    PROVE  Moves(w)
  <1> DEFINE b == batch[w]
             c == Advanced(b, b.groups, b.paid, b.skipped \cup {b.next})
  <1>1. b \in BatchRecord
    BY BatchTyped DEF IndexerInv
  <1>2. batch' = [batch EXCEPT ![w] = c] /\ batch'[w] = c
    BY DEF SkipCurrent, IndexerInv, Typed
  <1>3. b.next \in Positions
    BY <1>1 DEF BatchRecord, Positions
  <1>4. c \in BatchRecord
    BY <1>1, <1>3 DEF BatchRecord, Advanced
  <1>5. /\ c.first = b.first /\ c.last = b.last /\ c.token = b.token
        /\ c.next = b.next + 1 /\ c.paid = b.paid
        /\ c.skipped = b.skipped \cup {b.next}
    BY DEF Advanced
  <1>6. c.next <= b.last + 1 /\ c.next \in {b.next, b.next + 1}
    BY <1>1, <1>5 DEF BatchRecord
  <1>7. b.next \notin c.paid \ b.paid /\ b.next \in c.skipped
    BY <1>5
  <1> HIDE DEF c
  <1> QED
    BY <1>2, <1>4, <1>5, <1>6, <1>7 DEF Moves, chainVars, dbVars, historyVars

LEMMA UpsertMoves ==
    ASSUME IndexerAssumption, IndexerInv, NEW w \in Writers, UpsertGroup(w)
    PROVE  Moves(w)
  <1> DEFINE b == batch[w]
             written == [b.groups EXCEPT ![Current(w).group] = b.read]
             c == Advanced(b, written, b.paid, b.skipped)
  <1>0. Open(w) /\ b.next <= b.last /\ log[b.next].kind # "distributed"
    BY DEF UpsertGroup, Pending, Current
  <1>1. b \in BatchRecord
    BY <1>0, BatchTyped DEF IndexerInv
  <1>2. batch' = [batch EXCEPT ![w] = c] /\ batch'[w] = c
    BY DEF UpsertGroup, IndexerInv, Typed
  <1>3. written \in [Groups -> 0 .. MaxEvents]
    BY <1>1 DEF BatchRecord
  <1>4. c \in BatchRecord
    BY <1>1, <1>3, LogTyped DEF BatchRecord, Advanced, IndexerInv, Typed
  <1>5. /\ c.first = b.first /\ c.last = b.last /\ c.token = b.token
        /\ c.next = b.next + 1 /\ c.paid = b.paid /\ c.skipped = b.skipped
    BY DEF Advanced
  <1>6. c.next <= b.last + 1 /\ c.next \in {b.next, b.next + 1}
    BY <1>0, <1>1, <1>5 DEF BatchRecord
  <1> HIDE DEF c
  <1> QED
    BY <1>0, <1>2, <1>4, <1>5, <1>6
    DEF Moves, UpsertGroup, chainVars, dbVars, historyVars

LEMMA ReadMoves ==
    ASSUME IndexerAssumption, IndexerInv, NEW w \in Writers, ReadGroup(w)
    PROVE  Moves(w)
  <1> DEFINE b == batch[w]
             r == RevisionAt(Current(w).group, Closed)
             c == [b EXCEPT !.read = r]
  <1>0. Open(w) /\ b.next <= b.last
    BY DEF ReadGroup, Pending
  <1>1. b \in BatchRecord
    BY <1>0, BatchTyped DEF IndexerInv
  <1>2. batch' = [batch EXCEPT ![w] = c] /\ batch'[w] = c
    BY DEF ReadGroup, IndexerInv, Typed
  <1>3. r \in 0 .. MaxEvents
    BY ClosedTyped, RevisionTyped, LogTyped DEF IndexerInv, Typed
  <1>4. c \in BatchRecord
    BY <1>1, <1>3 DEF BatchRecord
  <1>5. /\ c.first = b.first /\ c.last = b.last /\ c.token = b.token
        /\ c.next = b.next /\ c.paid = b.paid /\ c.skipped = b.skipped
    BY <1>1 DEF BatchRecord
  <1>6. c.next # b.next + 1 /\ c.next <= b.last + 1
    BY <1>0, <1>1, <1>5 DEF BatchRecord
  <1> HIDE DEF c
  <1> QED
    BY <1>0, <1>2, <1>4, <1>5, <1>6
    DEF Moves, ReadGroup, chainVars, dbVars, historyVars

LEMMA InsertMoves ==
    ASSUME IndexerAssumption, IndexerInv, NEW w \in Writers, InsertDistribution(w)
    PROVE  Moves(w)
  <1> DEFINE b == batch[w]
             tx == Current(w).txHash
             rows == RowsOfTx(w, tx)
             inserted == IF rows = {} THEN {b.next} ELSE {}
             c == Advanced(b, b.groups, b.paid \cup inserted, b.skipped)
  <1>0. Open(w) /\ b.next <= b.last /\ ~TxLocked(w, tx)
    BY DEF InsertDistribution, Pending
  <1>1. b \in BatchRecord
    BY <1>0, BatchTyped DEF IndexerInv
  <1>2. batch' = [batch EXCEPT ![w] = c] /\ batch'[w] = c
    BY DEF InsertDistribution, IndexerInv, Typed
  <1>3. b.next \in Positions
    BY <1>0, <1>1, LogTyped DEF BatchRecord, Positions, IndexerInv, Typed
  <1>4. c \in BatchRecord
    BY <1>1, <1>3 DEF BatchRecord, Advanced
  <1>5. /\ c.first = b.first /\ c.last = b.last /\ c.token = b.token
        /\ c.next = b.next + 1 /\ c.paid = b.paid \cup inserted /\ c.skipped = b.skipped
    BY DEF Advanced
  <1>6. ASSUME rows = {}, NEW q \in Positions, log[q].txHash = tx
        PROVE  ~Present(q)
    <2>1. transactions[q] = 0 /\ q \notin b.paid
      BY <1>6, LogTyped DEF RowsOfTx, IndexerInv, Typed
    <2>2. ~PaidBy(w, q)
      BY <2>1 DEF PaidBy
    <2>3. ~PaidBy(Other(w), q)
      BY <1>0, <1>6, LogTyped DEF TxLocked, PaidBy, IndexerInv, Typed, Positions,
         BatchRecord
    <2>4. \A v \in Writers : v = w \/ v = Other(w)
      BY DEF Writers, Other
    <2> QED
      BY <2>1, <2>2, <2>3, <2>4 DEF Present
  <1>7. \E q \in Positions : log[q].txHash = tx /\ (transactions[q] = 1 \/ q \in c.paid)
    <2>1. CASE rows = {}
      BY <1>3, <1>5, <2>1 DEF Current
    <2>2. CASE rows # {}
      <3>1. PICK q \in rows : TRUE
        BY <2>2
      <3>2. q \in Positions /\ log[q].txHash = tx /\ (transactions[q] > 0 \/ q \in b.paid)
        BY <3>1, LogTyped DEF RowsOfTx, IndexerInv, Typed
      <3>3. transactions[q] \in 0 .. 1
        BY <3>2 DEF IndexerInv, Typed
      <3> QED
        BY <1>5, <3>2, <3>3
    <2> QED
      BY <2>1, <2>2
  <1>8. b.next \in c.paid \ b.paid =>
            \A q \in Positions : log[q].txHash = log[b.next].txHash => ~Present(q)
    BY <1>5, <1>6 DEF Current
  <1>9. c.next <= b.last + 1 /\ c.next \in {b.next, b.next + 1}
    BY <1>0, <1>1, <1>5 DEF BatchRecord
  <1>10. b.paid \subseteq c.paid /\ c.paid \subseteq b.paid \cup {b.next}
    BY <1>5
  <1>11. log[b.next].txHash = tx
    BY DEF Current
  <1> HIDE DEF c, inserted, rows, tx
  <1> QED
    BY <1>0, <1>2, <1>4, <1>5, <1>7, <1>8, <1>9, <1>10, <1>11
    DEF Moves, InsertDistribution, chainVars, dbVars, historyVars

LEMMA StepMoves ==
    ASSUME IndexerAssumption, IndexerInv, NEW w \in Writers,
           ApplyEvent(w) \/ SkipFailed(w)
    PROVE  Moves(w)
  <1>1. CASE SkipUndecoded(w)
    BY <1>1, SkipMoves DEF SkipUndecoded, Pending
  <1>2. CASE SkipOrphan(w)
    BY <1>2, SkipMoves DEF SkipOrphan, Pending
  <1>3. CASE SkipFailed(w)
    BY <1>3, SkipMoves DEF SkipFailed, Pending
  <1> QED
    BY <1>1, <1>2, <1>3, ReadMoves, UpsertMoves, InsertMoves DEF ApplyEvent

LEMMA TwoWriters ==
    /\ \A v, w \in Writers : v = w \/ v = Other(w)
    /\ \A w \in Writers : Other(w) \in Writers /\ Other(w) # w /\ Other(Other(w)) = w
    /\ "live" \in Writers /\ "backfill" \in Writers
    /\ Other("live") = "backfill" /\ Other("backfill") = "live"
  BY DEF Writers, Other

LEMMA MovesPreserve ==
    ASSUME IndexerAssumption, IndexerInv, NEW w \in Writers, Moves(w)
    PROVE  IndexerInv'
  <1> DEFINE b == batch[w]
             c == batch'[w]
  <1>1. /\ Open(w)
        /\ UNCHANGED <<log, tip, oldest, startLedger, groupRows, transactions,
                       cursor, reported>>
        /\ c \in BatchRecord
        /\ c.first = b.first /\ c.last = b.last /\ c.token = b.token
        /\ c.next \in {b.next, b.next + 1} /\ c.next <= b.last + 1
        /\ b.paid \subseteq c.paid /\ c.paid \subseteq b.paid \cup {b.next}
        /\ b.skipped \subseteq c.skipped
    BY DEF Moves
  <1>2. b.next \in c.paid \ b.paid =>
            \A q \in Positions : log[q].txHash = log[b.next].txHash => ~Present(q)
    BY DEF Moves
  <1>3. c.next = b.next + 1 /\ log[b.next].kind = "distributed"
                /\ b.next \notin c.skipped =>
            \E q \in Positions :
                log[q].txHash = log[b.next].txHash /\ (transactions[q] = 1 \/ q \in c.paid)
    BY DEF Moves
  <1>4. /\ batch' \in [Writers -> BatchRecord \cup {NoBatch}]
        /\ \A v \in Writers : v # w => batch'[v] = batch[v]
    BY <1>1 DEF Moves, IndexerInv, Typed
  <1>5. b \in BatchRecord
    BY <1>1, BatchTyped DEF IndexerInv
  <1>6. /\ b.next \in Nat /\ c.next \in Nat /\ b.first \in Nat /\ b.next > 0
        /\ c.paid \subseteq Positions /\ c.skipped \subseteq Positions
        /\ c.next > 0
    BY <1>1, <1>5 DEF BatchRecord
  <1>7. /\ Open(w)' /\ \A v \in Writers : Open(v)' <=> Open(v)
    BY <1>1, <1>4, <1>6 DEF Open
  <1>8. \A l : Before(l)' = Before(l)
    BY <1>1 DEF Before
  <1>9. Closed' = Closed
    BY <1>1 DEF Closed, Before
  <1>10. \A v \in Writers, p \in Positions :
            PaidBy(v, p)' <=> PaidBy(v, p) \/ (v = w /\ p = b.next /\ p \in c.paid \ b.paid)
    <2>1. SUFFICES ASSUME NEW v \in Writers, NEW p \in Positions
                   PROVE  PaidBy(v, p)' <=>
                            PaidBy(v, p) \/ (v = w /\ p = b.next /\ p \in c.paid \ b.paid)
      OBVIOUS
    <2>2. CASE v = w
      BY <1>1, <1>7, <2>2 DEF PaidBy
    <2>3. CASE v # w
      BY <1>4, <1>7, <2>3 DEF PaidBy
    <2> QED
      BY <2>2, <2>3
  <1>11. \A p \in Positions :
            Present(p)' <=> Present(p) \/ (p = b.next /\ p \in c.paid \ b.paid)
    BY <1>1, <1>10 DEF Present
  <1> HIDE DEF b, c
  <1>12. Typed'
    BY <1>1, <1>4 DEF IndexerInv, Typed
  <1>13. CursorSound'
    BY <1>1, <1>8 DEF IndexerInv, CursorSound
  <1>14. PagesSound'
    <2>1. SUFFICES ASSUME NEW v \in Writers, Open(v)'
                   PROVE  /\ batch'[v].first <= batch'[v].next
                          /\ batch'[v].next <= batch'[v].last + 1
                          /\ batch'[v].last <= Closed'
      BY DEF PagesSound
    <2>2. /\ batch[v].first <= batch[v].next
          /\ batch[v].next <= batch[v].last + 1
          /\ batch[v].last <= Closed
      BY <1>7, <2>1 DEF IndexerInv, PagesSound
    <2>3. CASE v = w
      BY <1>1, <1>6, <1>9, <2>2, <2>3 DEF b, c
    <2> QED
      BY <1>4, <1>9, <2>2, <2>3
  <1>15. LiveSound'
    <2>1. SUFFICES ASSUME Open("live")
                   PROVE  LiveSound'
      BY <1>7, TwoWriters DEF LiveSound
    <2>2. /\ batch'["live"].token = batch["live"].token
          /\ batch'["live"].last = batch["live"].last
          /\ batch'["live"].first = batch["live"].first
      <3>1. CASE w = "live"
        BY <1>1, <3>1 DEF b, c
      <3> QED
        BY <1>4, <3>1, TwoWriters
    <2> QED
      BY <1>1, <1>8, <2>1, <2>2 DEF IndexerInv, LiveSound
  <1>16. RowsUnique'
    <2>1. ASSUME NEW p \in Positions, NEW q \in Positions,
                 log[p].txHash = log[q].txHash, Present(p)', Present(q)'
          PROVE  p = q
      BY <1>2, <1>11, <2>1 DEF IndexerInv, RowsUnique
    <2>2. ASSUME NEW p \in Positions, NEW v \in Writers, PaidBy(v, p)'
          PROVE  transactions[p] = 0 /\ ~PaidBy(Other(v), p)'
      <3>1. transactions[p] \in 0 .. 1
        BY DEF IndexerInv, Typed
      <3>2. CASE PaidBy(v, p)
        <4>1. transactions[p] = 0 /\ ~PaidBy(Other(v), p) /\ Present(p)
          BY <3>2 DEF IndexerInv, RowsUnique, Present
        <4> QED
          BY <1>2, <1>10, <4>1, TwoWriters
      <3>3. CASE ~PaidBy(v, p)
        <4>1. v = w /\ p = b.next /\ p \in c.paid \ b.paid
          BY <1>10, <2>2, <3>3
        <4>2. ~Present(p)
          BY <1>2, <4>1
        <4>3. ~PaidBy(Other(v), p) /\ transactions[p] # 1
          BY <4>2, TwoWriters DEF Present
        <4> QED
          BY <1>10, <3>1, <4>1, <4>3, TwoWriters
      <3> QED
        BY <3>2, <3>3
    <2> QED
      BY <1>1, <2>1, <2>2 DEF RowsUnique
  <1>17. BatchesRecord'
    <2>1. SUFFICES ASSUME NEW v \in Writers, NEW p \in Positions, Open(v)',
                          batch'[v].first <= p, p < batch'[v].next,
                          log[p].kind = "distributed", p \notin batch'[v].skipped
                   PROVE  \E q \in Positions : log[q].txHash = log[p].txHash
                            /\ (transactions[q] = 1 \/ q \in batch'[v].paid)
      BY <1>1 DEF BatchesRecord
    <2>2. CASE v # w
      BY <1>4, <1>7, <2>1, <2>2 DEF IndexerInv, BatchesRecord
    <2>3. CASE v = w /\ p < b.next
      <3>1. PICK q \in Positions : log[q].txHash = log[p].txHash
                                   /\ (transactions[q] = 1 \/ q \in b.paid)
        BY <1>1, <2>1, <2>3 DEF IndexerInv, BatchesRecord, b, c
      <3> QED
        BY <1>1, <2>3, <3>1 DEF c
    <2>4. CASE v = w /\ ~(p < b.next)
      <3>1. p = b.next /\ c.next = b.next + 1
        BY <1>1, <1>6, <2>1, <2>4 DEF c, Positions
      <3> QED
        BY <1>3, <2>1, <2>4, <3>1 DEF c
    <2> QED
      BY <2>2, <2>3, <2>4
  <1>18. PassedRecorded'
    BY <1>1 DEF IndexerInv, PassedRecorded, Passed
  <1> QED
    BY <1>12, <1>13, <1>14, <1>15, <1>16, <1>17, <1>18 DEF IndexerInv

-----------------------------------------------------------------------------
(* Batches opened and closed.                                              *)

(* A batch that was rolled back leaves the other writer's as it was.       *)
LEMMA ClosingPreserves ==
    ASSUME IndexerAssumption, IndexerInv, NEW w \in Writers,
           batch' = [batch EXCEPT ![w] = NoBatch],
           UNCHANGED <<log, tip, oldest, startLedger, groupRows, transactions,
                       cursor, reported>>
    PROVE  IndexerInv'
  <1>1. /\ batch' \in [Writers -> BatchRecord \cup {NoBatch}]
        /\ batch'[w] = NoBatch
        /\ \A v \in Writers : v # w => batch'[v] = batch[v]
    BY DEF IndexerInv, Typed
  <1>2. ~Open(w)' /\ \A v \in Writers : v # w => (Open(v)' <=> Open(v))
    BY <1>1 DEF Open, NoBatch
  <1>3. \A l : Before(l)' = Before(l)
    BY DEF Before
  <1>4. Closed' = Closed
    BY DEF Closed, Before
  <1>5. \A v \in Writers, p \in Positions : PaidBy(v, p)' => PaidBy(v, p)
    BY <1>1, <1>2 DEF PaidBy
  <1>6. \A p \in Positions : Present(p)' => Present(p)
    BY <1>5 DEF Present
  <1>7. Typed' /\ CursorSound'
    BY <1>1, <1>3 DEF IndexerInv, Typed, CursorSound
  <1>8. PagesSound'
    BY <1>1, <1>2, <1>4 DEF IndexerInv, PagesSound
  <1>9. LiveSound'
    <2>1. SUFFICES ASSUME Open("live")' PROVE LiveSound'
      BY DEF LiveSound
    <2>2. Open("live") /\ batch'["live"] = batch["live"]
      BY <1>1, <1>2, <2>1, TwoWriters
    <2> QED
      BY <1>3, <2>2 DEF IndexerInv, LiveSound
  <1>10. RowsUnique'
    BY <1>5, <1>6, TwoWriters DEF IndexerInv, RowsUnique
  <1>11. BatchesRecord'
    BY <1>1, <1>2 DEF IndexerInv, BatchesRecord
  <1>12. PassedRecorded'
    BY DEF IndexerInv, PassedRecorded, Passed
  <1> QED
    BY <1>7, <1>8, <1>9, <1>10, <1>11, <1>12 DEF IndexerInv

(* A batch just opened has written nothing and gone through nothing.       *)
LEMMA OpeningPreserves ==
    ASSUME IndexerAssumption, IndexerInv, NEW w \in Writers, ~Open(w),
           NEW from \in Nat, NEW last \in from .. MaxEvents,
           NEW token \in [ledger : Nat, upto : Nat],
           last <= Closed,
           w = "live" =>
                /\ token.upto = last
                /\ token.ledger <= tip
                /\ last <= Before(token.ledger + 1)
                /\ cursor.upto <= last
                /\ \A p \in Positions : p <= from =>
                        p <= cursor.upto \/ log[p].ledger < startLedger,
           batch' = [batch EXCEPT ![w] = Opened(from, last, token)],
           UNCHANGED <<log, tip, oldest, startLedger, groupRows, transactions,
                       cursor, reported>>
    PROVE  IndexerInv'
  <1> DEFINE c == Opened(from, last, token)
  <1>1. /\ c.first = from + 1 /\ c.next = from + 1 /\ c.last = last
        /\ c.token = token /\ c.paid = {} /\ c.skipped = {}
    BY DEF Opened
  <1>2. MaxEvents \in Nat
    BY DEF IndexerAssumption
  <1>3. c \in BatchRecord
    BY <1>2 DEF Opened, BatchRecord
  <1> HIDE DEF c
  <1>4. /\ batch' \in [Writers -> BatchRecord \cup {NoBatch}]
        /\ batch'[w] = c
        /\ \A v \in Writers : v # w => batch'[v] = batch[v]
    BY <1>3 DEF IndexerInv, Typed, c
  <1>5. Open(w)' /\ \A v \in Writers : v # w => (Open(v)' <=> Open(v))
    BY <1>1, <1>4 DEF Open
  <1>6. \A l : Before(l)' = Before(l)
    BY DEF Before
  <1>7. Closed' = Closed
    BY DEF Closed, Before
  <1>8. \A v \in Writers, p \in Positions : PaidBy(v, p)' => PaidBy(v, p)
    BY <1>1, <1>4, <1>5 DEF PaidBy
  <1>9. \A p \in Positions : Present(p)' => Present(p)
    BY <1>8 DEF Present
  <1>10. Typed' /\ CursorSound'
    BY <1>4, <1>6 DEF IndexerInv, Typed, CursorSound
  <1>11. PagesSound'
    <2>1. c.first <= c.next /\ c.next <= c.last + 1 /\ c.last <= Closed
      BY <1>1, <1>2
    <2> QED
      BY <1>4, <1>5, <1>7, <2>1 DEF IndexerInv, PagesSound
  <1>12. LiveSound'
    <2>1. CASE w = "live"
      <3>1. \A p \in Positions : p < from + 1 => p <= from
        BY <1>2 DEF Positions
      <3> QED
        BY <1>1, <1>4, <1>6, <2>1, <3>1 DEF LiveSound
    <2>2. CASE w # "live"
      <3>1. batch'["live"] = batch["live"] /\ (Open("live")' <=> Open("live"))
        BY <1>4, <1>5, <2>2, TwoWriters
      <3> QED
        BY <1>6, <3>1 DEF IndexerInv, LiveSound
    <2> QED
      BY <2>1, <2>2
  <1>13. RowsUnique'
    BY <1>8, <1>9, TwoWriters DEF IndexerInv, RowsUnique
  <1>14. BatchesRecord'
    <2>1. \A p \in Positions : ~(c.first <= p /\ p < c.next)
      BY <1>1, <1>2 DEF Positions
    <2> QED
      BY <1>4, <1>5, <2>1 DEF IndexerInv, BatchesRecord
  <1>15. PassedRecorded'
    BY DEF IndexerInv, PassedRecorded, Passed
  <1> QED
    BY <1>10, <1>11, <1>12, <1>13, <1>14, <1>15 DEF IndexerInv

LEMMA CursorWithinResume ==
    ASSUME IndexerAssumption, IndexerInv, CursorRetained \/ StartRetained
    PROVE  /\ ResumeFrom \in 0 .. Closed
           /\ cursor.upto <= ResumeFrom
           /\ \A p \in Positions : p <= ResumeFrom =>
                    p <= cursor.upto \/ log[p].ledger < startLedger
  <1>1. /\ log \in Logs /\ MaxEvents \in Nat /\ MaxLedger \in Nat
        /\ tip \in Nat /\ oldest \in Nat \ {0} /\ startLedger \in Nat
        /\ cursor.ledger \in 0 .. tip /\ cursor.upto \in Nat
    BY DEF IndexerInv, Typed, IndexerAssumption
  <1>2. Before(cursor.ledger + 1) <= Closed /\ Before(cursor.ledger + 1) \in 0 .. MaxEvents
    <2>1. cursor.ledger + 1 \in Int /\ tip + 1 \in Int /\ cursor.ledger + 1 <= tip + 1
      BY <1>1
    <2>2. Before(cursor.ledger + 1) \in 0 .. MaxEvents
      BY <1>1, <2>1, BeforeSplitsLog
    <2>3. Before(cursor.ledger + 1) <= Before(tip + 1)
      BY <1>1, <2>1, BeforeMonotone
    <2> QED
      BY <2>2, <2>3 DEF Closed
  <1>3. Closed \in Nat
    BY ClosedTyped DEF IndexerInv
  <1>4. cursor.upto <= Before(cursor.ledger + 1)
    BY DEF IndexerInv, CursorSound
  <1>5. CASE CursorRetained
    BY <1>1, <1>2, <1>3, <1>4, <1>5 DEF ResumeFrom
  <1>6. CASE ~CursorRetained
    <2>1. StartRetained /\ startLedger <= tip /\ oldest <= startLedger
      BY <1>1, <1>6 DEF StartRetained
    <2>2. cursor.ledger < startLedger
      BY <1>1, <1>6, <2>1 DEF CursorRetained, NoCursor
    <2>3. /\ Before(startLedger) \in 0 .. MaxEvents
          /\ \A p \in 1 .. MaxEvents : p <= Before(startLedger) <=> log[p].ledger < startLedger
      BY <1>1, BeforeSplitsLog
    <2>4. /\ Closed \in 0 .. MaxEvents
          /\ \A p \in Positions : p <= Closed <=> log[p].ledger <= tip
      BY ClosedTyped DEF IndexerInv
    <2>5. Before(startLedger) <= Closed
      BY <1>1, <2>1, BeforeMonotone DEF Closed
    <2>6. cursor.upto <= Before(startLedger)
      <3>1. CASE cursor.upto = 0
        BY <2>3, <3>1
      <3>2. CASE cursor.upto > 0
        <4>1. cursor.upto \in Positions
          BY <1>1, <1>2, <1>4, <3>2 DEF Positions
        <4>2. log[cursor.upto].ledger < cursor.ledger + 1
          BY <1>1, <1>4, <4>1, BeforeSplitsLog DEF Positions
        <4>3. log[cursor.upto].ledger < startLedger
          BY <1>1, <2>2, <4>1, <4>2, LogTyped
        <4> QED
          BY <2>3, <4>1, <4>3 DEF Positions
      <3> QED
        BY <1>1, <3>1, <3>2
    <2> QED
      BY <1>3, <1>6, <2>3, <2>5, <2>6 DEF ResumeFrom, Positions
  <1> QED
    BY <1>5, <1>6

(* A commit makes the batch's rows visible, and what was gone through in   *)
(* it recorded or reported.                                                *)
LEMMA CommitPreserves ==
    ASSUME IndexerAssumption, IndexerInv, NEW w \in Writers, CommitRows(w),
           \/ w = "live" /\ cursor' = batch["live"].token
           \/ w = "backfill" /\ cursor' = cursor
    PROVE  IndexerInv'
  <1> DEFINE b == batch[w]
  <1>1. /\ Open(w) /\ b.next > b.last
        /\ UNCHANGED <<log, tip, oldest, startLedger>>
        /\ batch' = [batch EXCEPT ![w] = NoBatch]
        /\ transactions' = [p \in DOMAIN transactions |->
                IF p \in b.paid THEN transactions[p] + 1 ELSE transactions[p]]
        /\ reported' = (reported \ (b.first .. b.last)) \cup b.skipped
        /\ groupRows' = [g \in Groups |-> RowOf(w, g)]
    BY DEF CommitRows, chainVars
  <1>2. b \in BatchRecord
    BY <1>1, BatchTyped DEF IndexerInv
  <1>3. /\ batch' \in [Writers -> BatchRecord \cup {NoBatch}]
        /\ batch'[w] = NoBatch
        /\ \A v \in Writers : v # w => batch'[v] = batch[v]
    BY <1>1 DEF IndexerInv, Typed
  <1>4. ~Open(w)' /\ \A v \in Writers : v # w => (Open(v)' <=> Open(v))
    BY <1>3 DEF Open, NoBatch
  <1>5. \A l : Before(l)' = Before(l)
    BY <1>1 DEF Before
  <1>6. Closed' = Closed
    BY <1>1 DEF Closed, Before
  <1>7. /\ b.first \in Nat /\ b.next \in Nat /\ b.last \in 0 .. MaxEvents
        /\ MaxEvents \in Nat
        /\ b.token \in [ledger : Nat, upto : Nat]
        /\ b.groups \in [Groups -> 0 .. MaxEvents]
    BY <1>2 DEF BatchRecord, IndexerAssumption
  <1>8. \A p \in Positions :
            /\ transactions[p] \in 0 .. 1
            /\ transactions'[p] \in 0 .. 1
            /\ transactions'[p] = 1 <=> transactions[p] = 1 \/ PaidBy(w, p)
    <2>1. SUFFICES ASSUME NEW p \in Positions
                   PROVE  /\ transactions[p] \in 0 .. 1
                          /\ transactions'[p] \in 0 .. 1
                          /\ transactions'[p] = 1 <=> transactions[p] = 1 \/ PaidBy(w, p)
      OBVIOUS
    <2>2. transactions[p] \in 0 .. 1 /\ DOMAIN transactions = Positions
      BY DEF IndexerInv, Typed
    <2>3. PaidBy(w, p) <=> p \in b.paid
      BY <1>1 DEF PaidBy
    <2>4. PaidBy(w, p) => transactions[p] = 0
      BY DEF IndexerInv, RowsUnique
    <2> QED
      BY <1>1, <2>2, <2>3, <2>4
  <1>9. transactions' \in [Positions -> 0 .. 1]
    <2>1. DOMAIN transactions = Positions
      BY DEF IndexerInv, Typed
    <2> QED
      BY <1>1, <1>8, <2>1
  <1>10. \A v \in Writers, p \in Positions :
            PaidBy(v, p)' <=> v # w /\ PaidBy(v, p)
    BY <1>3, <1>4 DEF PaidBy
  <1>11. \A p \in Positions : Present(p)' => Present(p)
    BY <1>8, <1>10 DEF Present
  <1>12. groupRows' \in [Groups -> 0 .. MaxEvents]
    <2>1. \A g \in Groups : RowOf(w, g) \in 0 .. MaxEvents
      BY <1>7 DEF RowOf, IndexerInv, Typed
    <2> QED
      BY <1>1, <2>1
  <1>13. /\ cursor' \in [ledger : 0 .. tip, upto : Nat]
         /\ cursor'.upto <= Before(cursor'.ledger + 1)
    <2>1. CASE w = "live" /\ cursor' = batch["live"].token
      <3>1. /\ b.token.upto = b.last /\ b.token.ledger <= tip
            /\ b.last <= Before(b.token.ledger + 1)
        BY <1>1, <2>1 DEF IndexerInv, LiveSound
      <3>2. tip \in Int
        BY DEF IndexerInv, Typed
      <3>3. cursor' = b.token /\ cursor'.ledger \in 0 .. tip
        BY <1>7, <2>1, <3>1, <3>2
      <3>4. \A t \in [ledger : Nat, upto : Nat] :
                t.ledger \in 0 .. tip => t \in [ledger : 0 .. tip, upto : Nat]
        OBVIOUS
      <3> QED
        BY <1>7, <3>1, <3>3, <3>4
    <2>2. CASE w = "backfill" /\ cursor' = cursor
      BY <2>2 DEF IndexerInv, Typed, CursorSound
    <2> QED
      BY <2>1, <2>2
  <1> HIDE DEF b
  <1>14. Typed'
    BY <1>1, <1>3, <1>9, <1>12, <1>13 DEF IndexerInv, Typed
  <1>15. CursorSound'
    BY <1>5, <1>13 DEF CursorSound
  <1>16. PagesSound'
    BY <1>3, <1>4, <1>6 DEF IndexerInv, PagesSound
  <1>17. LiveSound'
    <2>1. SUFFICES ASSUME Open("live")' PROVE LiveSound'
      BY DEF LiveSound
    <2>2. w = "backfill" /\ Open("live") /\ batch'["live"] = batch["live"]
          /\ cursor' = cursor
      BY <1>3, <1>4, <2>1, TwoWriters
    <2> QED
      BY <1>1, <1>5, <2>2 DEF IndexerInv, LiveSound
  <1>18. RowsUnique'
    <2>1. \A p, q \in Positions :
            log'[p].txHash = log'[q].txHash /\ Present(p)' /\ Present(q)' => p = q
      BY <1>1, <1>11 DEF IndexerInv, RowsUnique
    <2>2. ASSUME NEW p \in Positions, NEW v \in Writers, PaidBy(v, p)'
          PROVE  transactions'[p] = 0 /\ ~PaidBy(Other(v), p)'
      <3>1. v # w /\ PaidBy(v, p) /\ Other(v) = w
        BY <1>10, <2>2, TwoWriters
      <3>2. transactions[p] = 0 /\ ~PaidBy(w, p)
        BY <3>1 DEF IndexerInv, RowsUnique
      <3> QED
        BY <1>8, <1>10, <3>1, <3>2
    <2> QED
      BY <2>1, <2>2 DEF RowsUnique
  <1>19. BatchesRecord'
    <2>1. SUFFICES ASSUME NEW v \in Writers, NEW p \in Positions, Open(v)',
                          batch'[v].first <= p, p < batch'[v].next,
                          log[p].kind = "distributed", p \notin batch'[v].skipped
                   PROVE  \E q \in Positions : log[q].txHash = log[p].txHash
                            /\ (transactions'[q] = 1 \/ q \in batch'[v].paid)
      BY <1>1 DEF BatchesRecord
    <2>2. Open(v) /\ batch'[v] = batch[v]
      BY <1>3, <1>4, <2>1
    <2>3. PICK q \in Positions : log[q].txHash = log[p].txHash
                                 /\ (transactions[q] = 1 \/ q \in batch[v].paid)
      BY <2>1, <2>2 DEF IndexerInv, BatchesRecord
    <2> QED
      BY <1>8, <2>2, <2>3
  <1>20. PassedRecorded'
    <2>1. SUFFICES ASSUME NEW p \in Positions, p <= cursor'.upto,
                          log[p].ledger >= startLedger,
                          log[p].kind = "distributed", p \notin reported'
                   PROVE  \E q \in Positions : log[q].txHash = log[p].txHash
                                               /\ transactions'[q] = 1
      BY <1>1 DEF PassedRecorded, Passed
    <2>2. p \in Int
      BY <1>7 DEF Positions
    <2>3. CASE b.first <= p /\ p <= b.last
      <3>1. p < b.next /\ p \notin b.skipped
        BY <1>1, <1>7, <2>1, <2>2, <2>3
      <3>2. PICK q \in Positions : log[q].txHash = log[p].txHash
                                   /\ (transactions[q] = 1 \/ q \in b.paid)
        BY <1>1, <2>1, <2>3, <3>1 DEF IndexerInv, BatchesRecord, b
      <3>3. transactions'[q] = 1
        BY <1>1, <1>8, <3>2 DEF PaidBy, b
      <3> QED
        BY <3>2, <3>3
    <2>4. CASE ~(b.first <= p /\ p <= b.last)
      <3>1. p \notin reported
        BY <1>1, <1>7, <2>1, <2>4
      <3>2. p <= cursor.upto
        <4>1. CASE w = "live" /\ cursor' = batch["live"].token
          <5>1. /\ p <= b.last
                /\ (p < b.first => p <= cursor.upto \/ log[p].ledger < startLedger)
            BY <1>1, <2>1, <4>1 DEF IndexerInv, LiveSound, b
          <5>2. log[p].ledger \in Int /\ startLedger \in Int
            BY LogTyped DEF IndexerInv, Typed, IndexerAssumption
          <5> QED
            BY <1>7, <2>1, <2>2, <2>4, <5>1, <5>2
        <4>2. CASE w = "backfill" /\ cursor' = cursor
          BY <2>1, <4>2
        <4> QED
          BY <4>1, <4>2
      <3>3. PICK q \in Positions : log[q].txHash = log[p].txHash /\ transactions[q] = 1
        BY <2>1, <3>1, <3>2 DEF IndexerInv, PassedRecorded, Passed
      <3> QED
        BY <1>8, <3>3
    <2> QED
      BY <2>3, <2>4
  <1> QED
    BY <1>14, <1>15, <1>16, <1>17, <1>18, <1>19, <1>20 DEF IndexerInv

-----------------------------------------------------------------------------
(* The backfill's own state: a running one stays within a closed range.    *)

BackfillRecord ==
    [status : {"running", "done"}, from : Nat, to : Nat, cursorLedger : Nat]

BackfillSound ==
    /\ \/ backfill \in {NoBackfill, [status |-> "failed"]}
       \/ backfill \in BackfillRecord
    /\ backfill.status = "running" =>
        backfill \in BackfillRecord /\ backfill.to <= tip
                                    /\ backfill.cursorLedger <= backfill.to
    /\ Open("backfill") => backfill.status = "running"

LEMMA MinOfTwo ==
    ASSUME NEW a \in Nat, NEW b \in Nat
    PROVE  Min2(a, b) \in {a, b} /\ Min2(a, b) <= a /\ Min2(a, b) <= b
  BY DEF Min2

LEMMA FetchPagePreserves ==
    ASSUME IndexerAssumption, IndexerInv, FetchPage
    PROVE  IndexerInv'
  <1> DEFINE from == ResumeFrom
             last == Min2(from + PageLimit, Closed)
             token == [ledger |-> IF last = from + PageLimit
                                  THEN log[last].ledger ELSE tip,
                       upto |-> last]
  <1>1. /\ batch' = [batch EXCEPT !["live"] = Opened(from, last, token)]
        /\ ~Open("live")
        /\ UNCHANGED <<log, tip, oldest, startLedger, groupRows, transactions,
                       cursor, reported>>
    BY DEF FetchPage, FetchedPage, chainVars, dbVars
  <1>2. /\ from \in 0 .. Closed
        /\ cursor.upto <= from
        /\ \A p \in Positions : p <= from =>
                p <= cursor.upto \/ log[p].ledger < startLedger
    BY CursorWithinResume DEF FetchPage
  <1>3. /\ Closed \in 0 .. MaxEvents
        /\ \A p \in Positions : p <= Closed <=> log[p].ledger <= tip
    BY ClosedTyped DEF IndexerInv
  <1>4. /\ MaxEvents \in Nat /\ PageLimit \in Nat \ {0} /\ MaxLedger \in Nat
        /\ tip \in Nat /\ log \in Logs /\ cursor.upto \in Nat
    BY DEF IndexerInv, Typed, IndexerAssumption
  <1>5. last \in from .. MaxEvents /\ last <= Closed /\ from \in Nat
        /\ (last # from + PageLimit => last = Closed)
    BY <1>2, <1>3, <1>4, MinOfTwo
  <1>6. /\ token.ledger \in Nat /\ token.ledger <= tip
        /\ last <= Before(token.ledger + 1)
    <2>1. CASE last = from + PageLimit
      <3>1. last \in Positions
        BY <1>4, <1>5, <2>1 DEF Positions
      <3>2. token.ledger = log[last].ledger /\ token.ledger \in 1 .. MaxLedger
        BY <2>1, <3>1, <1>4, LogTyped
      <3>3. last <= Before(token.ledger + 1)
        BY <1>4, <3>1, <3>2, BeforeSplitsLog DEF Positions
      <3> QED
        BY <1>3, <1>4, <1>5, <3>1, <3>2, <3>3
    <2>2. CASE last # from + PageLimit
      BY <1>4, <1>5, <2>2, <1>3 DEF Closed
    <2> QED
      BY <2>1, <2>2
  <1>7. token \in [ledger : Nat, upto : Nat] /\ token.upto = last
    BY <1>4, <1>5, <1>6
  <1>8. cursor.upto <= last
    BY <1>2, <1>4, <1>5
  <1> HIDE DEF from, last, token
  <1> QED
    BY <1>1, <1>2, <1>5, <1>6, <1>7, <1>8, TwoWriters, OpeningPreserves

LEMMA FetchBackfillPreserves ==
    ASSUME IndexerAssumption, IndexerInv, BackfillSound, FetchBackfill
    PROVE  IndexerInv'
  <1> DEFINE from == Before(backfill.cursorLedger)
             last == Min2(from + PageLimit, Before(backfill.to + 1))
  <1>1. /\ ~Open("backfill")
        /\ UNCHANGED <<log, tip, oldest, startLedger, groupRows, transactions,
                       cursor, reported>>
        /\ \/ UNCHANGED batch
           \/ batch' = [batch EXCEPT !["backfill"] = Opened(from, last, NoCursor)]
    BY DEF FetchBackfill, chainVars, dbVars
  <1>2. CASE UNCHANGED batch
    BY <1>1, <1>2 DEF IndexerInv, Typed, CursorSound, PagesSound, LiveSound, RowsUnique,
       BatchesRecord, PassedRecorded, Open, Closed, Before, PaidBy, Present, Passed
  <1>3. CASE batch' = [batch EXCEPT !["backfill"] = Opened(from, last, NoCursor)]
    <2>1. /\ backfill.to \in Nat /\ backfill.cursorLedger \in Nat
          /\ backfill.to <= tip /\ backfill.cursorLedger <= backfill.to
      BY DEF FetchBackfill, BackfillSound, BackfillRecord
    <2>2. /\ MaxEvents \in Nat /\ PageLimit \in Nat \ {0}
          /\ tip \in Nat /\ log \in Logs
      BY DEF IndexerInv, Typed, IndexerAssumption
    <2>3. /\ from \in 0 .. MaxEvents /\ Before(backfill.to + 1) \in 0 .. MaxEvents
          /\ from <= Before(backfill.to + 1) /\ Before(backfill.to + 1) <= Closed
          /\ Closed \in 0 .. MaxEvents
      <3>1. /\ backfill.to + 1 \in Int /\ backfill.cursorLedger \in Int /\ tip + 1 \in Int
            /\ backfill.cursorLedger <= backfill.to + 1 /\ backfill.to + 1 <= tip + 1
        BY <2>1, <2>2
      <3> QED
        BY <2>2, <3>1, BeforeSplitsLog, BeforeMonotone DEF Closed
    <2>4. last \in from .. MaxEvents /\ last <= Closed /\ from \in Nat
      BY <2>2, <2>3, MinOfTwo
    <2>5. NoCursor \in [ledger : Nat, upto : Nat]
      BY DEF NoCursor
    <2> HIDE DEF from, last
    <2>6. "backfill" # "live" /\ "backfill" \in Writers
      BY TwoWriters
    <2> QED
      BY <1>1, <1>3, <2>4, <2>5, <2>6, OpeningPreserves
  <1> QED
    BY <1>1, <1>2, <1>3

LEMMA ChainPreserves ==
    ASSUME IndexerAssumption, IndexerInv, CloseLedger \/ Expire \/ RestartLater
    PROVE  IndexerInv'
  <1>1. /\ UNCHANGED <<log, groupRows, transactions, cursor, reported, batch>>
        /\ tip' \in Int /\ tip <= tip' /\ tip' <= MaxLedger
        /\ oldest' \in Nat \ {0}
        /\ startLedger' \in 1 .. MaxLedger /\ startLedger <= startLedger'
        /\ (startLedger' = startLedger \/ ~Open("live"))
    <2>1. /\ MaxLedger \in Nat /\ tip \in 0 .. MaxLedger /\ oldest \in Nat \ {0}
          /\ startLedger \in 1 .. MaxLedger
      BY DEF IndexerInv, Typed, IndexerAssumption
    <2>2. CASE CloseLedger
      BY <2>1, <2>2 DEF CloseLedger, dbVars, historyVars
    <2>3. CASE Expire
      BY <2>1, <2>3 DEF Expire, dbVars, historyVars
    <2>4. CASE RestartLater
      BY <2>1, <2>4 DEF RestartLater, chainVars, dbVars, historyVars
    <2> QED
      BY <2>2, <2>3, <2>4
  <1>2. /\ log \in Logs /\ tip \in 0 .. MaxLedger /\ MaxLedger \in Nat
        /\ startLedger \in 1 .. MaxLedger
    BY DEF IndexerInv, Typed, IndexerAssumption
  <1>3. \A l : Before(l)' = Before(l)
    BY <1>1 DEF Before
  <1>4. Closed' = Before(tip' + 1)
    BY <1>1 DEF Closed, Before
  <1>5. Closed <= Closed' /\ Closed' \in Nat /\ Closed \in Nat
    <2> DEFINE m == tip
               n == tip'
    <2>1. m \in Int /\ n \in Int /\ m <= n
      BY <1>1, <1>2
    <2> HIDE DEF m, n
    <2>2. m + 1 \in Int /\ n + 1 \in Int /\ m + 1 <= n + 1
      BY <2>1
    <2>3. tip + 1 \in Int /\ tip' + 1 \in Int /\ tip + 1 <= tip' + 1
      BY <2>2 DEF m, n
    <2>4. Before(tip + 1) <= Before(tip' + 1)
      BY <1>2, <2>3, BeforeMonotone
    <2>5. Before(tip + 1) \in 0 .. MaxEvents /\ Before(tip' + 1) \in 0 .. MaxEvents
      BY <1>2, <2>3, BeforeSplitsLog
    <2> QED
      BY <1>4, <2>4, <2>5 DEF Closed, IndexerAssumption
  <1>6. \A v : Open(v)' <=> Open(v)
    BY <1>1 DEF Open
  <1>7. \A v, p : (PaidBy(v, p)' <=> PaidBy(v, p)) /\ (Present(p)' <=> Present(p))
    BY <1>1 DEF PaidBy, Open, Present
  <1>8. Typed'
    <2>1. cursor \in [ledger : 0 .. tip', upto : Nat]
      BY <1>1, <1>2 DEF IndexerInv, Typed
    <2> QED
      BY <1>1, <1>2, <2>1 DEF IndexerInv, Typed
  <1>9. CursorSound'
    BY <1>1, <1>3 DEF IndexerInv, CursorSound
  <1>10. PagesSound'
    <2>1. SUFFICES ASSUME NEW v \in Writers, Open(v) PROVE batch[v].last <= Closed'
      BY <1>1, <1>6 DEF IndexerInv, PagesSound
    <2>2. batch[v].last <= Closed /\ batch[v].last \in 0 .. MaxEvents
      BY <2>1, BatchTyped DEF IndexerInv, PagesSound, BatchRecord
    <2> QED
      BY <1>5, <2>2
  <1>11. LiveSound'
    <2>1. SUFFICES ASSUME Open("live") PROVE LiveSound'
      BY <1>6 DEF LiveSound
    <2>2. startLedger' = startLedger
      BY <1>1, <2>1
    <2>3. batch["live"].token.ledger <= tip'
      <3>1. batch["live"].token.ledger \in Nat
        BY <2>1, TwoWriters, BatchTyped DEF IndexerInv, BatchRecord
      <3> QED
        BY <1>1, <1>2, <2>1, <3>1 DEF IndexerInv, LiveSound
    <2> QED
      BY <1>1, <1>3, <2>1, <2>2, <2>3 DEF IndexerInv, LiveSound
  <1>12. RowsUnique' /\ BatchesRecord'
    BY <1>1, <1>6, <1>7 DEF IndexerInv, RowsUnique, BatchesRecord
  <1>13. PassedRecorded'
    <2>1. \A p \in Positions : Passed(p)' => Passed(p)
      BY <1>1, <1>2, LogTyped DEF Passed
    <2> QED
      BY <1>1, <2>1 DEF IndexerInv, PassedRecorded
  <1> QED
    BY <1>8, <1>9, <1>10, <1>11, <1>12, <1>13 DEF IndexerInv

LEMMA BackfillStays ==
    ASSUME IndexerAssumption, IndexerInv, BackfillSound, [IndexerNext]_indexerVars
    PROVE  BackfillSound'
  <1>1. ASSUME UNCHANGED <<backfill, tip>>, Open("backfill")' => Open("backfill")
        PROVE  BackfillSound'
    BY <1>1 DEF BackfillSound, BackfillRecord
  <1>2. \A w \in Writers : Moves(w) => (Open("backfill")' => Open("backfill"))
    <2>1. SUFFICES ASSUME NEW w \in Writers, Moves(w), w # "backfill"
                   PROVE  Open("backfill")' => Open("backfill")
      BY DEF Moves
    <2>2. batch'["backfill"] = batch["backfill"]
      BY <2>1, TwoWriters DEF Moves, IndexerInv, Typed
    <2> QED
      BY <2>2 DEF Open
  <1>3. ASSUME NEW w \in Writers, ApplyEvent(w) \/ SkipFailed(w)
        PROVE  BackfillSound'
    <2>1. UNCHANGED <<backfill, tip>>
      BY <1>3 DEF ApplyEvent, SkipUndecoded, ReadGroup, UpsertGroup, InsertDistribution,
         SkipOrphan, SkipFailed, chainVars
    <2> QED
      BY <1>1, <1>2, <1>3, <2>1, StepMoves
  <1>4. CASE CloseLedger
    <2>1. backfill' = backfill /\ tip' = tip + 1 /\ batch' = batch /\ tip \in Int
      BY <1>4 DEF CloseLedger, IndexerInv, Typed
    <2>2. \A n \in Nat : n <= tip => n <= tip'
      BY <2>1
    <2> QED
      BY <2>1, <2>2 DEF BackfillSound, BackfillRecord, Open
  <1>5. CASE Expire \/ RestartLater \/ UNCHANGED indexerVars
    BY <1>1, <1>5 DEF Expire, RestartLater, indexerVars, chainVars, Open
  <1>6. CASE FetchPage \/ CommitLive \/ AbortLive
    <2>1. UNCHANGED <<backfill, tip>>
      BY <1>6 DEF FetchPage, CommitLive, CommitRows, AbortLive, chainVars
    <2>2. batch'["backfill"] = batch["backfill"]
      BY <1>6, TwoWriters DEF FetchPage, CommitLive, CommitRows, AbortLive, IndexerInv, Typed
    <2> QED
      BY <1>1, <2>1, <2>2 DEF Open
  <1>7. ASSUME NEW from \in 1 .. MaxLedger, NEW to \in 1 .. MaxLedger,
               StartBackfill(from, to)
        PROVE  BackfillSound'
    <2>1. /\ backfill' = [status |-> "running", from |-> from, to |-> to,
                          cursorLedger |-> from]
          /\ from <= to /\ to <= tip /\ UNCHANGED <<tip, batch>>
      BY <1>7 DEF StartBackfill, chainVars
    <2>2. from \in Nat /\ to \in Nat
      BY DEF IndexerAssumption
    <2> QED
      BY <2>1, <2>2 DEF BackfillSound, BackfillRecord, Open
  <1>8. CASE FetchBackfill
    <2>1. /\ backfill \in BackfillRecord /\ backfill.to <= tip /\ tip' = tip
          /\ backfill.cursorLedger <= backfill.to
          /\ backfill.status = "running" /\ ~Open("backfill")
      BY <1>8 DEF FetchBackfill, BackfillSound, chainVars
    <2>2. CASE backfill' = [backfill EXCEPT !.status = "done"] /\ batch' = batch
      BY <2>1, <2>2 DEF BackfillSound, BackfillRecord, Open
    <2>3. CASE backfill' = backfill
      BY <2>1, <2>3 DEF BackfillSound, BackfillRecord
    <2> QED
      BY <1>8, <2>2, <2>3 DEF FetchBackfill
  <1>9. CASE CommitBackfill
    <2> DEFINE b == batch["backfill"]
               done == b.last - b.first + 1 < PageLimit \/ NextLedger(b) > backfill.to
    <2>1. /\ Open("backfill") /\ tip' = tip
          /\ batch' = [batch EXCEPT !["backfill"] = NoBatch]
          /\ backfill' = [backfill EXCEPT !.status = IF done THEN "done" ELSE @,
                                          !.cursorLedger = IF done THEN @ ELSE NextLedger(b)]
      BY <1>9 DEF CommitBackfill, CommitRows, chainVars
    <2>2. /\ backfill \in BackfillRecord /\ backfill.to <= tip
          /\ backfill.cursorLedger <= backfill.to /\ backfill.status = "running"
      BY <2>1 DEF BackfillSound
    <2>3. ~Open("backfill")'
      BY <2>1, TwoWriters DEF Open, NoBatch, IndexerInv, Typed
    <2>4. CASE done
      <3>1. backfill' = [backfill EXCEPT !.status = "done"]
        BY <2>1, <2>2, <2>4 DEF BackfillRecord
      <3> QED
        BY <2>1, <2>2, <2>3, <3>1 DEF BackfillSound, BackfillRecord
    <2>5. CASE ~done
      <3>1. b \in BatchRecord /\ PageLimit \in Nat \ {0}
        BY <2>1, TwoWriters, BatchTyped DEF IndexerInv, IndexerAssumption
      <3>2. b.last \in Positions
        BY <2>5, <3>1 DEF BatchRecord, Positions
      <3>3. log[b.last].ledger \in Nat
        BY <3>2, LogTyped DEF IndexerInv, Typed, IndexerAssumption
      <3>4. NextLedger(b) \in Nat /\ NextLedger(b) <= backfill.to
        BY <2>2, <2>5, <3>3 DEF NextLedger, BackfillRecord
      <3>5. backfill' = [backfill EXCEPT !.cursorLedger = NextLedger(b)]
        BY <2>1, <2>2, <2>5 DEF BackfillRecord
      <3> HIDE DEF b, done
      <3> QED
        BY <2>1, <2>2, <2>3, <3>4, <3>5 DEF BackfillSound, BackfillRecord
    <2> QED
      BY <2>4, <2>5
  <1>10. CASE AbortBackfill
    <2>1. ~Open("backfill")'
      BY <1>10, TwoWriters DEF AbortBackfill, Open, NoBatch, IndexerInv, Typed
    <2> QED
      BY <1>10, <2>1 DEF AbortBackfill, BackfillSound
  <1> QED
    BY <1>3, <1>4, <1>5, <1>6, <1>7, <1>8, <1>9, <1>10, TwoWriters
    DEF IndexerNext, ChainNext, LiveNext, BackfillNext

-----------------------------------------------------------------------------
(* The theorems.                                                           *)

LEMMA InvariantHolds ==
    IndexerSpec => [](IndexerInv /\ BackfillSound)
  <1>1. IndexerInit => IndexerInv /\ BackfillSound
    <2>1. SUFFICES ASSUME IndexerInit PROVE IndexerInv /\ BackfillSound
      OBVIOUS
    <2>2. \A w : w \in Writers => ~Open(w)
      BY <2>1 DEF IndexerInit, Open, NoBatch
    <2>3. MaxEvents \in Nat /\ MaxLedger \in Nat \ {0} /\ log \in Logs
          /\ cursor.ledger = 0 /\ cursor.upto = 0
      BY <2>1, IndexerAssumption DEF IndexerInit, IndexerAssumption, NoCursor
    <2>4. Typed
      BY <2>1, <2>3 DEF IndexerInit, Typed, NoCursor, Positions
    <2>5. CursorSound
      BY <2>3, IndexerAssumption, BeforeSplitsLog DEF CursorSound
    <2>6. \A p \in Positions : transactions[p] = 0 /\ ~Passed(p)
      BY <2>1, <2>3 DEF IndexerInit, Passed, Positions
    <2>7. RowsUnique /\ PassedRecorded
      BY <2>2, <2>6 DEF RowsUnique, PassedRecorded, Present, PaidBy
    <2>8. PagesSound /\ LiveSound /\ BatchesRecord
      BY <2>2, TwoWriters DEF PagesSound, LiveSound, BatchesRecord
    <2>9. BackfillSound
      BY <2>1, <2>2, TwoWriters DEF IndexerInit, BackfillSound, NoBackfill
    <2> QED
      BY <2>4, <2>5, <2>7, <2>8, <2>9 DEF IndexerInv
  <1>2. IndexerInv /\ BackfillSound /\ [IndexerNext]_indexerVars
            => IndexerInv' /\ BackfillSound'
    <2>1. SUFFICES ASSUME IndexerInv, BackfillSound, [IndexerNext]_indexerVars
                   PROVE  IndexerInv'
      BY BackfillStays, IndexerAssumption
    <2>2. ASSUME NEW w \in Writers, ApplyEvent(w) \/ SkipFailed(w)
          PROVE  IndexerInv'
      BY <2>1, <2>2, IndexerAssumption, StepMoves, MovesPreserve
    <2>3. CASE CloseLedger \/ Expire \/ RestartLater
      BY <2>1, <2>3, IndexerAssumption, ChainPreserves
    <2>4. CASE FetchPage
      BY <2>1, <2>4, IndexerAssumption, FetchPagePreserves
    <2>5. CASE CommitLive
      BY <2>1, <2>5, IndexerAssumption, CommitPreserves, TwoWriters DEF CommitLive
    <2>6. CASE AbortLive
      BY <2>1, <2>6, IndexerAssumption, ClosingPreserves, TwoWriters
      DEF AbortLive, chainVars, dbVars, historyVars
    <2>7. CASE FetchBackfill
      BY <2>1, <2>7, IndexerAssumption, FetchBackfillPreserves
    <2>8. CASE CommitBackfill
      BY <2>1, <2>8, IndexerAssumption, CommitPreserves, TwoWriters DEF CommitBackfill
    <2>9. CASE AbortBackfill
      BY <2>1, <2>9, IndexerAssumption, ClosingPreserves, TwoWriters
      DEF AbortBackfill, chainVars, dbVars, historyVars
    <2>10. ASSUME UNCHANGED <<log, tip, oldest, startLedger, groupRows, transactions,
                              cursor, batch, reported>>
           PROVE  IndexerInv'
      BY <2>1, <2>10 DEF IndexerInv, Typed, CursorSound, PagesSound, LiveSound, RowsUnique,
         BatchesRecord, PassedRecorded, Open, Closed, Before, PaidBy, Present, Passed
    <2>11. CASE \E from, to \in 1 .. MaxLedger : StartBackfill(from, to)
      BY <2>10, <2>11 DEF StartBackfill, chainVars, dbVars, historyVars
    <2>12. CASE UNCHANGED indexerVars
      BY <2>10, <2>12 DEF indexerVars
    <2> QED
      BY <2>1, <2>2, <2>3, <2>4, <2>5, <2>6, <2>7, <2>8, <2>9, <2>11, <2>12, TwoWriters
      DEF IndexerNext, ChainNext, LiveNext, BackfillNext
  <1> QED
    BY <1>1, <1>2, PTL DEF IndexerSpec

(* Rows, cursor and pages keep their types and bounds: no transaction hash *)
(* of the history has two rows of one event, and neither the cursor nor a  *)
(* page gets ahead of the ledgers that are closed.                         *)
THEOREM IndexerTypeCorrect == IndexerSpec => []IndexerTypeOK
  <1>1. IndexerInv => IndexerTypeOK
    <2>1. SUFFICES ASSUME IndexerInv PROVE IndexerTypeOK
      OBVIOUS
    <2>2. /\ log \in Logs /\ tip \in Nat /\ MaxEvents \in Nat
          /\ cursor.ledger \in 0 .. tip /\ cursor.upto \in Nat
      BY <2>1, IndexerAssumption DEF IndexerInv, Typed, IndexerAssumption
    <2>3. Closed \in 0 .. MaxEvents
      BY <2>1, IndexerAssumption, ClosedTyped DEF IndexerInv
    <2>4. cursor.upto \in 0 .. Closed
      <3>1. cursor.ledger + 1 \in Int /\ tip + 1 \in Int /\ cursor.ledger + 1 <= tip + 1
        BY <2>2
      <3>2. /\ Before(cursor.ledger + 1) <= Closed
            /\ Before(cursor.ledger + 1) \in 0 .. MaxEvents
        BY <2>2, <3>1, IndexerAssumption, BeforeMonotone, BeforeSplitsLog DEF Closed
      <3> QED
        BY <2>1, <2>2, <2>3, <3>2 DEF IndexerInv, CursorSound
    <2>5. ASSUME NEW w \in Writers, Open(w)
          PROVE  batch[w].next \in 1 .. batch[w].last + 1 /\ batch[w].last \in 0 .. Closed
      <3>1. batch[w].next \in Nat \ {0} /\ batch[w].last \in 0 .. MaxEvents
        BY <2>1, <2>5, BatchTyped DEF IndexerInv, BatchRecord
      <3> QED
        BY <2>1, <2>2, <2>3, <2>5, <3>1 DEF IndexerInv, PagesSound
    <2> QED
      BY <2>1, <2>2, <2>4, <2>5 DEF IndexerTypeOK, IndexerInv, Typed, Positions
  <1> QED
    BY <1>1, InvariantHolds, PTL

(* Every distribution the cursor has passed is in the history exactly once *)
(* or was reported, whatever batches are aborted, retried or replayed by a *)
(* backfill running at any time.                                           *)
THEOREM PaymentsCorrect == IndexerSpec => []PaymentsRecordedOnce
  <1>1. IndexerInv => PaymentsRecordedOnce
    <2>1. SUFFICES ASSUME IndexerInv, NEW p \in DOMAIN log, Passed(p),
                          log[p].kind = "distributed", p \notin reported
                   PROVE  PaymentRecorded(p)
      BY DEF PaymentsRecordedOnce
    <2>2. DOMAIN log = Positions
      BY <2>1, IndexerAssumption, LogTyped DEF IndexerInv, Typed
    <2>3. PICK q \in Positions : log[q].txHash = log[p].txHash /\ transactions[q] = 1
      BY <2>1, <2>2 DEF IndexerInv, PassedRecorded
    <2>4. ASSUME NEW r \in Positions \ {q}, log[r].txHash = log[p].txHash
          PROVE  transactions[r] = 0
      <3>1. transactions[r] \in 0 .. 1
        BY <2>1 DEF IndexerInv, Typed
      <3>2. ~Present(r)
        BY <2>1, <2>3, <2>4 DEF IndexerInv, RowsUnique, Present
      <3> QED
        BY <3>1, <3>2 DEF Present
    <2> QED
      BY <2>2, <2>3, <2>4 DEF PaymentRecorded
  <1> QED
    BY <1>1, InvariantHolds, PTL

(* The cursor never moves back, the fallback to INDEXER_START_LEDGER       *)
(* included.                                                               *)
THEOREM CursorForward == IndexerSpec => NeverRewinds
  <1>1. IndexerInv /\ [IndexerNext]_indexerVars => [cursor'.upto >= cursor.upto]_indexerVars
    <2>1. SUFFICES ASSUME IndexerInv, IndexerNext PROVE cursor'.upto >= cursor.upto
      OBVIOUS
    <2>2. cursor.upto \in Nat
      BY <2>1 DEF IndexerInv, Typed
    <2>3. CASE CommitLive
      <3>1. Open("live") /\ cursor' = batch["live"].token
        BY <2>3 DEF CommitLive, CommitRows
      <3>2. batch["live"] \in BatchRecord
        BY <2>1, <3>1, TwoWriters, BatchTyped DEF IndexerInv
      <3>3. batch["live"].last \in Int
        BY <3>2 DEF BatchRecord
      <3> QED
        BY <2>1, <2>2, <3>1, <3>3 DEF IndexerInv, LiveSound
    <2>4. CASE ~CommitLive
      <3>1. cursor' = cursor
        BY <2>1, <2>4 DEF IndexerNext, ChainNext, LiveNext, BackfillNext, CloseLedger, Expire,
           FetchPage, ApplyEvent, SkipUndecoded, ReadGroup, UpsertGroup, InsertDistribution,
           SkipOrphan, SkipFailed, AbortLive, RestartLater, StartBackfill, FetchBackfill,
           CommitBackfill, AbortBackfill, dbVars
      <3> QED
        BY <2>2, <3>1
    <2> QED
      BY <2>3, <2>4
  <1> QED
    BY <1>1, InvariantHolds, PTL DEF IndexerSpec, NeverRewinds
-----------------------------------------------------------------------------
(* A row is never replaced by an older reading of its group.               *)

Rereads == {"created", "members_updated"}

(* No reading knows more than the ledgers that are closed.                 *)
ReadingsSound ==
    /\ \A g \in Groups : groupRows[g] <= RevisionAt(g, Closed)
    /\ \A w \in Writers : Open(w) =>
        \A g \in Groups : batch[w].groups[g] <= RevisionAt(g, Closed)

(* What a batch has written is newer than the committed rows, what it has  *)
(* read and not yet written is newer than both and knows the event it was  *)
(* read for, and it has left no event behind that knows more than its rows.*)
BatchFresh(w) ==
    /\ \A g \in Groups : groupRows[g] <= RowOf(w, g)
    /\ batch[w].read > 0 =>
        /\ batch[w].next \in Positions
        /\ RowOf(w, Current(w).group) <= batch[w].read
        /\ RevisionAt(Current(w).group, batch[w].next) <= batch[w].read
        /\ batch[w].read <= RevisionAt(Current(w).group, Closed)
    /\ \A p \in Positions :
        batch[w].first <= p /\ p < batch[w].next
                /\ log[p].kind \in Rereads /\ p \notin batch[w].skipped =>
            RevisionAt(log[p].group, p) <= RowOf(w, log[p].group)

PassedFresh ==
    \A p \in Positions :
        Passed(p) /\ log[p].kind \in Rereads /\ p \notin reported =>
            RevisionAt(log[p].group, p) <= groupRows[log[p].group]

(* All of it as long as the writers took turns.                            *)
FreshInv ==
    ~overlapped =>
        /\ ~(Open("live") /\ Open("backfill"))
        /\ ReadingsSound
        /\ \A w \in Writers : Open(w) => BatchFresh(w)
        /\ PassedFresh

LEMMA RevisionGrows ==
    ASSUME NEW g, NEW p \in Nat, NEW q \in Nat, p <= q
    PROVE  /\ RevisionAt(g, p) \in Nat /\ RevisionAt(g, q) \in Nat
           /\ RevisionAt(g, p) <= RevisionAt(g, q)
  <1> DEFINE Changes(n) == {e \in 1 .. n : log[e].group = g /\ log[e].kind \in ChangeKinds}
  <1>1. RevisionAt(g, p) = Cardinality(Changes(p)) /\ RevisionAt(g, q) = Cardinality(Changes(q))
    BY DEF RevisionAt
  <1>2. Changes(p) \subseteq Changes(q) /\ Changes(q) \subseteq 1 .. q
    OBVIOUS
  <1>3. IsFiniteSet(1 .. q)
    BY FS_Interval
  <1> HIDE DEF Changes
  <1>4. IsFiniteSet(Changes(q)) /\ IsFiniteSet(Changes(p))
    BY <1>2, <1>3, FS_Subset
  <1> QED
    BY <1>1, <1>2, <1>4, FS_Subset, FS_CardinalityType

LEMMA RowTyped ==
    ASSUME IndexerInv, NEW w \in Writers, Open(w), NEW g \in Groups
    PROVE  /\ groupRows[g] \in Nat /\ batch[w].groups[g] \in Nat /\ RowOf(w, g) \in Nat
           /\ RowOf(w, g) = IF batch[w].groups[g] > 0 THEN batch[w].groups[g] ELSE groupRows[g]
  <1>1. batch[w].groups \in [Groups -> 0 .. MaxEvents] /\ groupRows \in [Groups -> 0 .. MaxEvents]
    BY BatchTyped DEF IndexerInv, Typed, BatchRecord
  <1> QED
    BY <1>1 DEF RowOf

(* Nothing that is written for a step inside the other writer's batch, or  *)
(* for the chain's, makes a reading stale: readings are compared with the  *)
(* log, which never changes.                                               *)
LEMMA SameRevisions ==
    ASSUME log' = log
    PROVE  \A g, p : RevisionAt(g, p)' = RevisionAt(g, p)
  BY DEF RevisionAt

LEMMA FreshOpening ==
    ASSUME IndexerAssumption, IndexerInv, FreshInv, NEW w \in Writers, ~Open(w),
           NEW from \in Nat, NEW last \in from .. MaxEvents, NEW token,
           batch' = [batch EXCEPT ![w] = Opened(from, last, token)],
           overlapped' = (overlapped \/ Open(Other(w))),
           UNCHANGED <<log, tip, startLedger, groupRows, cursor, reported>>
    PROVE  FreshInv'
  <1> DEFINE c == Opened(from, last, token)
  <1>1. SUFFICES ASSUME ~overlapped' PROVE FreshInv'
    BY DEF FreshInv
  <1>2. /\ ~overlapped /\ ~Open(Other(w))
        /\ ReadingsSound /\ PassedFresh
    BY <1>1 DEF FreshInv
  <1>3. batch'[w] = c /\ batch'[Other(w)] = batch[Other(w)]
    BY TwoWriters DEF IndexerInv, Typed
  <1>4. /\ c.first = from + 1 /\ c.next = from + 1 /\ c.read = 0
        /\ c.groups = [g \in Groups |-> 0]
    BY DEF Opened
  <1> HIDE DEF c
  <1>5. ~Open(Other(w))'
    BY <1>2, <1>3 DEF Open
  <1>6. \A v \in Writers : Open(v)' => v = w
    BY <1>5, TwoWriters
  <1>7. \A g, p : RevisionAt(g, p)' = RevisionAt(g, p)
    BY SameRevisions
  <1>8. Closed' = Closed
    BY DEF Closed, Before
  <1>9. \A g \in Groups : groupRows[g] \in Nat /\ RowOf(w, g)' = groupRows[g]
    BY <1>3, <1>4 DEF RowOf, IndexerInv, Typed
  <1>10. PassedFresh'
    BY <1>2, <1>7 DEF PassedFresh, Passed
  <1>11. ReadingsSound'
    <2>1. \A g \in Groups : groupRows[g] <= RevisionAt(g, Closed)
      BY <1>2 DEF ReadingsSound
    <2>2. \A g \in Groups : RevisionAt(g, Closed)' = RevisionAt(g, Closed)
      BY <1>7, <1>8 DEF RevisionAt
    <2>3. Closed \in Nat
      BY ClosedTyped DEF IndexerInv
    <2>4. \A g \in Groups : 0 <= RevisionAt(g, Closed)
      BY <2>3, RevisionTyped
    <2> QED
      BY <1>3, <1>4, <1>6, <2>1, <2>2, <2>4 DEF ReadingsSound
  <1>12. BatchFresh(w)'
    <2>1. \A p \in Positions : ~(c.first <= p /\ p < c.next)
      BY <1>4, IndexerAssumption DEF Positions, IndexerAssumption
    <2>2. ~(c.read > 0)
      BY <1>4
    <2> QED
      BY <1>3, <1>9, <2>1, <2>2 DEF BatchFresh
  <1> QED
    BY <1>5, <1>6, <1>10, <1>11, <1>12, TwoWriters DEF FreshInv

LEMMA FreshClosing ==
    ASSUME IndexerAssumption, IndexerInv, FreshInv, NEW w \in Writers,
           batch' = [batch EXCEPT ![w] = NoBatch],
           UNCHANGED <<log, tip, startLedger, groupRows, cursor, reported, overlapped>>
    PROVE  FreshInv'
  <1>1. SUFFICES ASSUME ~overlapped PROVE FreshInv'
    BY DEF FreshInv
  <1>2. /\ ~(Open("live") /\ Open("backfill")) /\ ReadingsSound /\ PassedFresh
        /\ \A v \in Writers : Open(v) => BatchFresh(v)
    BY <1>1 DEF FreshInv
  <1>3. batch'[w] = NoBatch /\ batch'[Other(w)] = batch[Other(w)]
    BY TwoWriters DEF IndexerInv, Typed
  <1>4. ~Open(w)' /\ (Open(Other(w))' <=> Open(Other(w)))
    BY <1>3 DEF Open, NoBatch
  <1>5. \A v \in Writers : Open(v)' => Open(v) /\ batch'[v] = batch[v]
    BY <1>3, <1>4, TwoWriters
  <1>6. \A g, p : RevisionAt(g, p)' = RevisionAt(g, p)
    BY SameRevisions
  <1>7. Closed' = Closed
    BY DEF Closed, Before
  <1>8. \A g : RevisionAt(g, Closed)' = RevisionAt(g, Closed)
    BY <1>7 DEF RevisionAt
  <1>9. PassedFresh' /\ ReadingsSound'
    BY <1>2, <1>5, <1>6, <1>8 DEF PassedFresh, Passed, ReadingsSound
  <1>10. ASSUME NEW v \in Writers, Open(v)' PROVE BatchFresh(v)'
    <2>1. BatchFresh(v) /\ batch'[v] = batch[v]
      BY <1>2, <1>5, <1>10
    <2>2. \A g : RowOf(v, g)' = RowOf(v, g)
      BY <2>1 DEF RowOf
    <2>3. Current(v)' = Current(v)
      BY <2>1 DEF Current
    <2> QED
      BY <1>6, <1>8, <2>1, <2>2, <2>3 DEF BatchFresh
  <1> QED
    BY <1>2, <1>5, <1>9, <1>10, TwoWriters DEF FreshInv

(* What a step inside the batch of w leaves alone, with no other one open. *)
InBatch(w, c) ==
    /\ Open(w) /\ batch' = [batch EXCEPT ![w] = c]
    /\ UNCHANGED <<log, tip, startLedger, groupRows, cursor, reported, overlapped>>

LEMMA FreshReading ==
    ASSUME IndexerAssumption, IndexerInv, FreshInv, NEW w \in Writers, ReadGroup(w)
    PROVE  FreshInv'
  <1> DEFINE b == batch[w]
             g == Current(w).group
             r == RevisionAt(g, Closed)
             c == [b EXCEPT !.read = r]
  <1>1. SUFFICES ASSUME ~overlapped PROVE FreshInv'
    BY DEF FreshInv, ReadGroup, historyVars
  <1>2. InBatch(w, c) /\ b.next <= b.last
    BY DEF InBatch, ReadGroup, Pending, chainVars, dbVars, historyVars
  <1>3. /\ ~(Open("live") /\ Open("backfill")) /\ ReadingsSound /\ PassedFresh
        /\ BatchFresh(w)
    BY <1>1, <1>2 DEF FreshInv, InBatch
  <1>4. /\ b \in BatchRecord /\ b.next \in Positions /\ b.next <= Closed
        /\ Closed \in Nat /\ g \in Groups
    <2>1. b \in BatchRecord /\ Closed \in 0 .. MaxEvents /\ b.last <= Closed
      BY <1>2, BatchTyped, ClosedTyped DEF IndexerInv, PagesSound, InBatch
    <2>2. b.next \in Nat \ {0} /\ b.last \in Nat /\ MaxEvents \in Nat
      BY <2>1 DEF BatchRecord, IndexerAssumption
    <2>3. b.next \in Positions /\ b.next <= Closed
      BY <1>2, <2>1, <2>2 DEF Positions
    <2> QED
      BY <2>1, <2>3, LogTyped DEF Current, IndexerInv, Typed
  <1>5. /\ batch'[w] = c /\ batch'[Other(w)] = batch[Other(w)]
        /\ c.next = b.next /\ c.first = b.first /\ c.skipped = b.skipped
        /\ c.groups = b.groups /\ c.read = r
    BY <1>2, <1>4, TwoWriters DEF IndexerInv, Typed, BatchRecord, InBatch
  <1>6. ~Open(Other(w)) /\ ~Open(Other(w))' /\ Open(w)'
    <2>1. ~Open(Other(w))
      BY <1>2, <1>3, TwoWriters DEF InBatch
    <2> HIDE DEF c, b
    <2> QED
      BY <1>2, <1>5, <2>1 DEF Open, InBatch, b
  <1>7. \A k, p : RevisionAt(k, p)' = RevisionAt(k, p)
    BY <1>2, SameRevisions DEF InBatch
  <1>8. Closed' = Closed /\ \A k : RevisionAt(k, Closed)' = RevisionAt(k, Closed)
    BY <1>2 DEF Closed, Before, InBatch, RevisionAt
  <1>9. PassedFresh'
    BY <1>2, <1>3, <1>7 DEF PassedFresh, Passed, InBatch
  <1>10. ReadingsSound'
    <2>1. \A v \in Writers : Open(v)' => v = w
      BY <1>6, TwoWriters
    <2>2. \A k \in Groups : /\ b.groups[k] <= RevisionAt(k, Closed)
                            /\ groupRows[k] <= RevisionAt(k, Closed)
      BY <1>2, <1>3 DEF ReadingsSound, InBatch
    <2> HIDE DEF c
    <2> QED
      BY <1>2, <1>5, <1>8, <2>1, <2>2 DEF ReadingsSound, InBatch
  <1>11. \A k : RowOf(w, k)' = RowOf(w, k)
    <2> HIDE DEF c
    <2> QED
      BY <1>2, <1>5 DEF RowOf, InBatch, b
  <1>12. Current(w)' = Current(w)
    <2> HIDE DEF c
    <2> QED
      BY <1>2, <1>5 DEF Current, InBatch
  <1>13. BatchFresh(w)'
    <2>1. RowOf(w, g) <= r
      BY <1>2, <1>3, <1>4 DEF RowOf, ReadingsSound, InBatch
    <2>2. b.next \in Nat
      BY <1>4 DEF BatchRecord
    <2>3. RevisionAt(g, b.next) <= r /\ r <= RevisionAt(g, Closed)
      BY <1>4, <2>2, RevisionGrows
    <2>4. \A k \in Groups : groupRows[k] <= RowOf(w, k)
      BY <1>3 DEF BatchFresh
    <2>5. \A p \in Positions :
            c.first <= p /\ p < c.next /\ log[p].kind \in Rereads /\ p \notin c.skipped =>
                RevisionAt(log[p].group, p) <= RowOf(w, log[p].group)
      BY <1>3, <1>5 DEF BatchFresh
    <2> HIDE DEF c, b, r, g
    <2>6. \A k \in Groups : groupRows'[k] <= RowOf(w, k)'
      BY <1>2, <1>11, <2>4 DEF InBatch
    <2>7. /\ batch'[w].next \in Positions
          /\ RowOf(w, Current(w).group)' <= batch'[w].read
          /\ RevisionAt(Current(w).group, batch[w].next)' <= batch'[w].read
          /\ batch'[w].read <= RevisionAt(Current(w).group, Closed)'
      <3>1. RowOf(w, Current(w).group)' = RowOf(w, g)
        BY <1>11, <1>12 DEF g, RowOf
      <3>2. RevisionAt(Current(w).group, batch[w].next)' = RevisionAt(g, b.next)
        BY <1>2, <1>5, <1>12 DEF g, RevisionAt, InBatch
      <3>3. RevisionAt(Current(w).group, Closed)' = RevisionAt(g, Closed)
        BY <1>2, <1>8, <1>12 DEF g, RevisionAt, InBatch
      <3> QED
        BY <1>4, <1>5, <2>1, <2>3, <3>1, <3>2, <3>3
    <2>8. (\A p \in Positions :
            batch[w].first <= p /\ p < batch[w].next
                /\ log[p].kind \in Rereads /\ p \notin batch[w].skipped =>
                RevisionAt(log[p].group, p) <= RowOf(w, log[p].group))'
      BY <1>2, <1>5, <1>7, <1>11, <2>5 DEF InBatch
    <2> QED
      BY <2>6, <2>7, <2>8 DEF BatchFresh
  <1> QED
    BY <1>6, <1>9, <1>10, <1>13, TwoWriters DEF FreshInv

LEMMA FreshAdvancing ==
    ASSUME IndexerAssumption, IndexerInv, FreshInv, NEW w \in Writers, NEW c,
           InBatch(w, c), batch[w].next <= batch[w].last,
           c.first = batch[w].first, c.next = batch[w].next + 1, c.read = 0,
           batch[w].skipped \subseteq c.skipped,
           NEW row \in [Groups -> Nat],
           \A k \in Groups : /\ RowOf(w, k)' = row[k]
                             /\ RowOf(w, k) <= row[k]
                             /\ c.groups[k] <= RevisionAt(k, Closed),
           ~overlapped /\ Current(w).kind \in Rereads /\ batch[w].next \notin c.skipped =>
                RevisionAt(Current(w).group, batch[w].next) <= row[Current(w).group]
    PROVE  FreshInv'
  <1> DEFINE b == batch[w]
  <1>1. SUFFICES ASSUME ~overlapped PROVE FreshInv'
    BY DEF FreshInv, InBatch
  <1>2. /\ Open(w) /\ batch' = [batch EXCEPT ![w] = c]
        /\ UNCHANGED <<log, tip, startLedger, groupRows, cursor, reported, overlapped>>
    BY DEF InBatch
  <1>3. /\ ~(Open("live") /\ Open("backfill")) /\ ReadingsSound /\ PassedFresh
        /\ BatchFresh(w)
    BY <1>1, <1>2 DEF FreshInv
  <1>4. b \in BatchRecord /\ b.next \in Nat \ {0}
    BY <1>2, BatchTyped DEF IndexerInv, BatchRecord
  <1>5. batch'[w] = c /\ batch'[Other(w)] = batch[Other(w)]
    BY <1>2, TwoWriters DEF IndexerInv, Typed
  <1>6. ~Open(Other(w))' /\ Open(w)'
    <2>1. ~Open(Other(w))
      BY <1>2, <1>3, TwoWriters
    <2> QED
      BY <1>4, <1>5, <2>1 DEF Open
  <1>7. \A k, p : RevisionAt(k, p)' = RevisionAt(k, p)
    BY <1>2, SameRevisions
  <1>8. \A k : RevisionAt(k, Closed)' = RevisionAt(k, Closed)
    BY <1>2 DEF Closed, Before, RevisionAt
  <1>9. PassedFresh'
    BY <1>2, <1>3, <1>7 DEF PassedFresh, Passed
  <1>10. ReadingsSound'
    <2>1. \A v \in Writers : Open(v)' => v = w
      BY <1>6, TwoWriters
    <2>2. \A k \in Groups : groupRows[k] <= RevisionAt(k, Closed)
      BY <1>3 DEF ReadingsSound
    <2> QED
      BY <1>2, <1>5, <1>8, <2>1, <2>2 DEF ReadingsSound
  <1>11. \A k \in Groups : groupRows[k] <= row[k]
    <2>1. SUFFICES ASSUME NEW k \in Groups PROVE groupRows[k] <= row[k]
      OBVIOUS
    <2>2. groupRows[k] <= RowOf(w, k) /\ groupRows[k] \in Nat /\ RowOf(w, k) \in Nat
      BY <1>2, <1>3, RowTyped DEF BatchFresh
    <2> QED
      BY <2>2
  <1>12. ASSUME NEW p \in Positions, c.first <= p, p < c.next,
                log[p].kind \in Rereads, p \notin c.skipped
         PROVE  RevisionAt(log[p].group, p) <= row[log[p].group]
    <2>1. p \in Nat /\ log[p].group \in Groups
      BY LogTyped DEF IndexerInv, Typed, Positions
    <2>2. CASE p < b.next
      <3>1. RevisionAt(log[p].group, p) <= RowOf(w, log[p].group)
        BY <1>3, <1>12, <2>2 DEF BatchFresh
      <3>2. RowOf(w, log[p].group) \in Nat /\ RevisionAt(log[p].group, p) \in Nat
        BY <1>2, <2>1, RowTyped, RevisionTyped
      <3>3. RowOf(w, log[p].group) <= row[log[p].group] /\ row[log[p].group] \in Nat
        BY <2>1
      <3> QED
        BY <3>1, <3>2, <3>3
    <2>3. CASE ~(p < b.next)
      <3>1. p = b.next
        BY <1>4, <1>12, <2>1, <2>3
      <3> QED
        BY <1>1, <1>12, <3>1 DEF Current
    <2> QED
      BY <2>2, <2>3
  <1>13. BatchFresh(w)'
    <2>0. \A p \in Positions : log[p].group \in Groups
      BY LogTyped DEF IndexerInv, Typed
    <2>1. (\A k \in Groups : groupRows[k] <= RowOf(w, k))'
      BY <1>2, <1>11
    <2>2. ~(batch'[w].read > 0)
      BY <1>5
    <2>3. (\A p \in Positions :
            batch[w].first <= p /\ p < batch[w].next
                /\ log[p].kind \in Rereads /\ p \notin batch[w].skipped =>
                RevisionAt(log[p].group, p) <= RowOf(w, log[p].group))'
      BY <1>2, <1>5, <1>7, <1>12, <2>0
    <2> QED
      BY <2>1, <2>2, <2>3 DEF BatchFresh
  <1> QED
    BY <1>6, <1>9, <1>10, <1>13, TwoWriters DEF FreshInv

(* A step that goes on to the next event without writing a group: the      *)
(* event is none that a group is read for, or it is skipped.               *)
LEMMA FreshPassing ==
    ASSUME IndexerAssumption, IndexerInv, FreshInv, ~overlapped, NEW w \in Writers,
           NEW paid, NEW skipped,
           InBatch(w, Advanced(batch[w], batch[w].groups, paid, skipped)),
           batch[w].next <= batch[w].last,
           batch[w].skipped \subseteq skipped,
           Current(w).kind \in Rereads => batch[w].next \in skipped
    PROVE  FreshInv'
  <1> DEFINE b == batch[w]
             c == Advanced(b, b.groups, paid, skipped)
  <1>1. /\ c.first = b.first /\ c.next = b.next + 1 /\ c.read = 0
        /\ c.groups = b.groups /\ c.skipped = skipped
    BY DEF Advanced
  <1>2. /\ Open(w) /\ batch' = [batch EXCEPT ![w] = c] /\ groupRows' = groupRows
    BY DEF InBatch
  <1> HIDE DEF c
  <1>3. batch'[w] = c
    BY <1>2 DEF IndexerInv, Typed
  <1>4. \A k \in Groups : /\ RowOf(w, k)' = RowOf(w, k) /\ RowOf(w, k) \in Nat
                          /\ c.groups[k] <= RevisionAt(k, Closed)
    <2>1. SUFFICES ASSUME NEW k \in Groups
                   PROVE  /\ RowOf(w, k)' = RowOf(w, k) /\ RowOf(w, k) \in Nat
                          /\ c.groups[k] <= RevisionAt(k, Closed)
      OBVIOUS
    <2>2. RowOf(w, k)' = RowOf(w, k)
      BY <1>1, <1>2, <1>3 DEF RowOf
    <2>3. ReadingsSound
      BY DEF FreshInv
    <2>4. b.groups[k] <= RevisionAt(k, Closed)
      BY <1>2, <2>3 DEF ReadingsSound
    <2> QED
      BY <1>1, <1>2, <2>2, <2>4, RowTyped
  <1> DEFINE row == [k \in Groups |-> RowOf(w, k)]
  <1>5. /\ row \in [Groups -> Nat]
        /\ \A k \in Groups : RowOf(w, k)' = row[k] /\ RowOf(w, k) <= row[k]
    BY <1>4
  <1>6. InBatch(w, c)
    BY DEF c
  <1> HIDE DEF row
  <1> QED
    BY <1>1, <1>4, <1>5, <1>6, FreshAdvancing

LEMMA FreshUpsert ==
    ASSUME IndexerAssumption, IndexerInv, FreshInv, ~overlapped, NEW w \in Writers,
           UpsertGroup(w)
    PROVE  FreshInv'
  <1> DEFINE b == batch[w]
             g == Current(w).group
             written == [b.groups EXCEPT ![g] = b.read]
             c == Advanced(b, written, b.paid, b.skipped)
  <1>1. /\ c.first = b.first /\ c.next = b.next + 1 /\ c.read = 0
        /\ c.groups = written /\ c.skipped = b.skipped
    BY DEF Advanced
  <1>2. /\ InBatch(w, c) /\ b.read > 0 /\ b.next <= b.last
    BY DEF UpsertGroup, Pending, InBatch, chainVars, dbVars, historyVars
  <1> HIDE DEF c
  <1>3. batch'[w] = c /\ Open(w) /\ groupRows' = groupRows
    BY <1>2 DEF IndexerInv, Typed, InBatch
  <1>4. /\ b \in BatchRecord /\ b.read \in Nat /\ b.groups \in [Groups -> 0 .. MaxEvents]
        /\ g \in Groups
    <2>1. b \in BatchRecord
      BY <1>3, BatchTyped DEF IndexerInv
    <2>2. b.next \in Positions
      BY <1>2, <2>1, LogTyped DEF BatchRecord, Positions, IndexerInv, Typed
    <2> QED
      BY <2>1, <2>2, LogTyped DEF BatchRecord, Current, IndexerInv, Typed, IndexerAssumption
  <1>5. BatchFresh(w) /\ ReadingsSound
    BY <1>3 DEF FreshInv
  <1>6. /\ RowOf(w, g) <= b.read /\ RevisionAt(g, b.next) <= b.read
        /\ b.read <= RevisionAt(g, Closed)
    BY <1>2, <1>5 DEF BatchFresh
  <1> HIDE DEF g, b
  <1> DEFINE row == [k \in Groups |-> IF k = g THEN b.read ELSE RowOf(w, k)]
  <1>7. ASSUME NEW k \in Groups
        PROVE  /\ RowOf(w, k)' = row[k] /\ RowOf(w, k) <= row[k] /\ row[k] \in Nat
               /\ c.groups[k] <= RevisionAt(k, Closed)
    <2>1. RowOf(w, k) \in Nat
      BY <1>3, RowTyped
    <2>2. CASE k = g
      <3>1. c.groups[k] = b.read
        BY <1>1, <1>4, <2>2
      <3>2. RowOf(w, k)' = b.read
        BY <1>2, <1>3, <3>1 DEF RowOf
      <3> QED
        BY <1>4, <1>6, <2>2, <3>1, <3>2
    <2>3. CASE k # g
      <3>1. c.groups[k] = b.groups[k]
        BY <1>1, <1>4, <2>3
      <3>2. RowOf(w, k)' = RowOf(w, k)
        BY <1>3, <3>1 DEF RowOf, b
      <3>3. b.groups[k] <= RevisionAt(k, Closed)
        BY <1>3, <1>5 DEF ReadingsSound, b
      <3> QED
        BY <2>1, <2>3, <3>1, <3>2, <3>3
    <2> QED
      BY <2>2, <2>3
  <1>8. row \in [Groups -> Nat]
    BY <1>7
  <1>9. RevisionAt(Current(w).group, batch[w].next) <= row[Current(w).group]
    BY <1>4, <1>6 DEF g, b
  <1> HIDE DEF row
  <1> QED
    BY <1>1, <1>2, <1>7, <1>8, <1>9, FreshAdvancing DEF b

(* A commit makes rows newer, and what the cursor passes with it is in     *)
(* them: what lies before the batch was passed before or is not asked for. *)
LEMMA FreshCommit ==
    ASSUME IndexerAssumption, IndexerInv, FreshInv, NEW w \in Writers, CommitRows(w),
           \/ w = "live" /\ cursor' = batch["live"].token
           \/ w = "backfill" /\ cursor' = cursor
    PROVE  FreshInv'
  <1> DEFINE b == batch[w]
  <1>1. SUFFICES ASSUME ~overlapped PROVE FreshInv'
    BY DEF FreshInv, CommitRows
  <1>2. /\ Open(w) /\ b.next > b.last
        /\ UNCHANGED <<log, tip, startLedger, overlapped>>
        /\ batch' = [batch EXCEPT ![w] = NoBatch]
        /\ reported' = (reported \ (b.first .. b.last)) \cup b.skipped
        /\ groupRows' = [g \in Groups |-> RowOf(w, g)]
    BY DEF CommitRows, chainVars
  <1>3. /\ ~(Open("live") /\ Open("backfill")) /\ ReadingsSound /\ PassedFresh
        /\ BatchFresh(w)
    BY <1>1, <1>2 DEF FreshInv
  <1>4. /\ b.first \in Nat /\ b.next \in Nat /\ b.last \in Nat /\ b.next = b.last + 1
    <2>1. b \in BatchRecord
      BY <1>2, BatchTyped DEF IndexerInv
    <2>2. /\ b.first \in Nat /\ b.next \in Nat /\ b.last \in Nat
      BY <2>1 DEF BatchRecord, IndexerAssumption
    <2>3. b.next <= b.last + 1
      BY <1>2 DEF IndexerInv, PagesSound
    <2> HIDE DEF b
    <2> QED
      BY <1>2, <2>2, <2>3
  <1>5. batch'[w] = NoBatch /\ batch'[Other(w)] = batch[Other(w)]
    BY <1>2, TwoWriters DEF IndexerInv, Typed
  <1>6. \A v \in Writers : ~Open(v)'
    <2>1. ~Open(Other(w))
      BY <1>2, <1>3, TwoWriters
    <2>2. ~Open(w)' /\ ~Open(Other(w))'
      BY <1>5, <2>1 DEF Open, NoBatch
    <2> QED
      BY <2>2, TwoWriters
  <1>7. \A k, p : RevisionAt(k, p)' = RevisionAt(k, p)
    BY <1>2, SameRevisions
  <1>8. \A k : RevisionAt(k, Closed)' = RevisionAt(k, Closed)
    BY <1>2 DEF Closed, Before, RevisionAt
  <1>9. ReadingsSound'
    <2>1. \A k \in Groups : groupRows'[k] <= RevisionAt(k, Closed)
      BY <1>2, <1>3 DEF ReadingsSound, RowOf
    <2> QED
      BY <1>6, <1>8, <2>1 DEF ReadingsSound
  <1>10. \A k \in Groups : /\ groupRows'[k] = RowOf(w, k) /\ groupRows[k] <= groupRows'[k]
                           /\ groupRows[k] \in Nat /\ groupRows'[k] \in Nat
    BY <1>2, <1>3, RowTyped DEF BatchFresh
  <1>11. ASSUME NEW p \in Positions, Passed(p)', log[p].kind \in Rereads, p \notin reported'
         PROVE  RevisionAt(log[p].group, p) <= groupRows'[log[p].group]
    <2>1. p \in Nat /\ log[p].group \in Groups /\ log[p].ledger \in Nat
          /\ RevisionAt(log[p].group, p) \in Nat
      <3>1. p \in Nat /\ log[p].group \in Groups /\ log[p].ledger \in Nat
        BY LogTyped DEF IndexerInv, Typed, Positions, IndexerAssumption
      <3> QED
        BY <3>1, RevisionTyped
    <2>2. CASE b.first <= p /\ p <= b.last
      <3>1. p < b.next /\ p \notin b.skipped
        BY <1>2, <1>4, <1>11, <2>1, <2>2
      <3>2. RevisionAt(log[p].group, p) <= RowOf(w, log[p].group)
        BY <1>3, <1>11, <2>2, <3>1 DEF BatchFresh
      <3> QED
        BY <1>10, <2>1, <3>2
    <2>3. CASE ~(b.first <= p /\ p <= b.last)
      <3>1. p \notin reported
        BY <1>2, <1>4, <1>11, <2>1, <2>3
      <3>2. Passed(p)
        <4>1. CASE w = "live" /\ cursor' = batch["live"].token
          <5>1. /\ b.token.upto = b.last
                /\ p < b.first => p <= cursor.upto \/ log[p].ledger < startLedger
            BY <1>2, <4>1 DEF IndexerInv, LiveSound
          <5>2. p <= b.last /\ log[p].ledger >= startLedger
            BY <1>2, <1>11, <4>1, <5>1 DEF Passed
          <5>3. p < b.first
            BY <1>4, <2>1, <2>3, <5>2
          <5>4. startLedger \in Nat
            BY DEF IndexerInv, Typed, IndexerAssumption
          <5> QED
            BY <2>1, <5>1, <5>2, <5>3, <5>4 DEF Passed
        <4>2. CASE w = "backfill" /\ cursor' = cursor
          BY <1>2, <1>11, <4>2 DEF Passed
        <4> QED
          BY <4>1, <4>2
      <3>3. RevisionAt(log[p].group, p) <= groupRows[log[p].group]
        BY <1>3, <1>11, <3>1, <3>2 DEF PassedFresh
      <3> QED
        BY <1>10, <2>1, <3>3
    <2> QED
      BY <2>2, <2>3
  <1>12. PassedFresh'
    BY <1>2, <1>7, <1>11 DEF PassedFresh
  <1> QED
    BY <1>6, <1>9, <1>12, TwoWriters DEF FreshInv

(* The chain closes a ledger: what was read is still no newer than it.     *)
LEMMA FreshLedger ==
    ASSUME IndexerAssumption, IndexerInv, FreshInv, CloseLedger
    PROVE  FreshInv'
  <1>1. SUFFICES ASSUME ~overlapped PROVE FreshInv'
    BY DEF FreshInv, CloseLedger, historyVars
  <1>2. /\ tip' = tip + 1 /\ tip \in Int
        /\ UNCHANGED <<log, startLedger, groupRows, cursor, batch, reported, overlapped>>
    BY DEF CloseLedger, dbVars, historyVars, IndexerInv, Typed, IndexerAssumption
  <1>3. /\ ~(Open("live") /\ Open("backfill")) /\ ReadingsSound /\ PassedFresh
        /\ \A v \in Writers : Open(v) => BatchFresh(v)
    BY <1>1 DEF FreshInv
  <1>4. \A k, p : RevisionAt(k, p)' = RevisionAt(k, p)
    BY <1>2, SameRevisions
  <1>5. Closed \in Nat /\ Closed' \in Nat /\ Closed <= Closed'
    <2>1. Closed' = Before(tip + 2)
      BY <1>2 DEF Closed, Before
    <2>2. /\ log \in Logs /\ tip + 1 \in Int /\ tip + 2 \in Int /\ tip + 1 <= tip + 2
      BY <1>2 DEF IndexerInv, Typed
    <2>3. Before(tip + 1) \in 0 .. MaxEvents /\ Before(tip + 2) \in 0 .. MaxEvents
      BY <2>2, BeforeSplitsLog
    <2>4. Before(tip + 1) <= Before(tip + 2)
      BY <2>2, BeforeMonotone
    <2> QED
      BY <2>1, <2>3, <2>4 DEF Closed
  <1>6. \A k : /\ RevisionAt(k, Closed)' = RevisionAt(k, Closed')
               /\ RevisionAt(k, Closed) <= RevisionAt(k, Closed')
               /\ RevisionAt(k, Closed) \in Nat /\ RevisionAt(k, Closed') \in Nat
    <2>1. \A k : RevisionAt(k, Closed)' = RevisionAt(k, Closed')
      BY <1>2 DEF RevisionAt
    <2> QED
      BY <1>5, <2>1, RevisionGrows
  <1>7. \A v : (Open(v)' <=> Open(v)) /\ Current(v)' = Current(v)
    BY <1>2 DEF Open, Current
  <1>8. \A v, k : RowOf(v, k)' = RowOf(v, k)
    BY <1>2 DEF RowOf
  <1>9. PassedFresh'
    BY <1>2, <1>3, <1>4 DEF PassedFresh, Passed
  <1>10. ReadingsSound'
    <2>1. ASSUME NEW k \in Groups PROVE groupRows[k] <= RevisionAt(k, Closed)'
      <3>1. groupRows[k] <= RevisionAt(k, Closed) /\ groupRows[k] \in Nat
        BY <1>3 DEF ReadingsSound, IndexerInv, Typed
      <3> QED
        BY <1>6, <3>1
    <2>2. ASSUME NEW v \in Writers, Open(v), NEW k \in Groups
          PROVE  batch[v].groups[k] <= RevisionAt(k, Closed)'
      <3>1. batch[v].groups[k] <= RevisionAt(k, Closed) /\ batch[v].groups[k] \in Nat
        BY <1>3, <2>2, RowTyped DEF ReadingsSound
      <3> QED
        BY <1>6, <3>1
    <2> QED
      BY <1>2, <1>7, <2>1, <2>2 DEF ReadingsSound
  <1>11. ASSUME NEW v \in Writers, Open(v) PROVE BatchFresh(v)'
    <2>1. BatchFresh(v)
      BY <1>3, <1>11
    <2>2. \A k \in Groups : groupRows'[k] <= RowOf(v, k)'
      BY <1>2, <1>8, <2>1 DEF BatchFresh
    <2>3. (batch[v].read > 0 =>
              /\ batch[v].next \in Positions
              /\ RowOf(v, Current(v).group) <= batch[v].read
              /\ RevisionAt(Current(v).group, batch[v].next) <= batch[v].read
              /\ batch[v].read <= RevisionAt(Current(v).group, Closed))'
      <3>1. SUFFICES ASSUME batch[v].read > 0
                     PROVE  (/\ batch[v].next \in Positions
                             /\ RowOf(v, Current(v).group) <= batch[v].read
                             /\ RevisionAt(Current(v).group, batch[v].next) <= batch[v].read
                             /\ batch[v].read <= RevisionAt(Current(v).group, Closed))'
        BY <1>2
      <3>2. /\ batch[v].next \in Positions
            /\ RowOf(v, Current(v).group) <= batch[v].read
            /\ RevisionAt(Current(v).group, batch[v].next) <= batch[v].read
            /\ batch[v].read <= RevisionAt(Current(v).group, Closed)
        BY <2>1, <3>1 DEF BatchFresh
      <3>3. batch[v].read \in Nat
        BY <1>11, BatchTyped DEF IndexerInv, BatchRecord, IndexerAssumption
      <3>4. batch[v].read <= RevisionAt(Current(v).group, Closed')
        BY <1>6, <3>2, <3>3
      <3>5. RowOf(v, Current(v).group)' = RowOf(v, Current(v).group)
        BY <1>2 DEF RowOf, Current
      <3>6. RevisionAt(Current(v).group, batch[v].next)'
              = RevisionAt(Current(v).group, batch[v].next)
        BY <1>2 DEF RevisionAt, Current
      <3>7. RevisionAt(Current(v).group, Closed)' = RevisionAt(Current(v).group, Closed')
        BY <1>2 DEF RevisionAt, Current
      <3> QED
        BY <1>2, <3>2, <3>4, <3>5, <3>6, <3>7
    <2>4. (\A p \in Positions :
            batch[v].first <= p /\ p < batch[v].next
                /\ log[p].kind \in Rereads /\ p \notin batch[v].skipped =>
                RevisionAt(log[p].group, p) <= RowOf(v, log[p].group))'
      BY <1>2, <1>4, <1>8, <2>1 DEF BatchFresh
    <2> QED
      BY <2>2, <2>3, <2>4 DEF BatchFresh
  <1> QED
    BY <1>2, <1>3, <1>7, <1>9, <1>10, <1>11 DEF FreshInv

LEMMA FreshStays ==
    ASSUME IndexerAssumption, IndexerInv, BackfillSound, FreshInv, [IndexerNext]_indexerVars
    PROVE  FreshInv'
  <1>1. ASSUME overlapped PROVE FreshInv'
    <2>1. overlapped'
      BY <1>1 DEF IndexerNext, ChainNext, LiveNext, BackfillNext, CloseLedger, Expire,
         FetchPage, ApplyEvent, SkipUndecoded, ReadGroup, UpsertGroup, InsertDistribution,
         SkipOrphan, SkipFailed, AbortLive, RestartLater, StartBackfill, FetchBackfill,
         CommitLive, CommitBackfill, CommitRows, AbortBackfill, historyVars, indexerVars
    <2> QED
      BY <2>1 DEF FreshInv
  <1>2. SUFFICES ASSUME ~overlapped PROVE FreshInv'
    BY <1>1
  <1>3. ASSUME NEW w \in Writers, ApplyEvent(w) PROVE FreshInv'
    <2>1. CASE SkipUndecoded(w)
      <3>1. /\ Open(w) /\ batch[w].next <= batch[w].last
            /\ Current(w).kind \notin Rereads
            /\ InBatch(w, Advanced(batch[w], batch[w].groups, batch[w].paid,
                                   batch[w].skipped \cup {batch[w].next}))
        BY <2>1 DEF SkipUndecoded, SkipCurrent, Pending, Rereads, InBatch, chainVars, dbVars,
           historyVars
      <3> QED
        BY <1>2, <3>1, FreshPassing
    <2>2. CASE ReadGroup(w)
      BY <2>2, FreshReading
    <2>3. CASE UpsertGroup(w)
      BY <1>2, <2>3, FreshUpsert
    <2>4. CASE InsertDistribution(w)
      <3> DEFINE inserted == IF RowsOfTx(w, Current(w).txHash) = {} THEN {batch[w].next} ELSE {}
      <3>1. /\ Open(w) /\ batch[w].next <= batch[w].last
            /\ Current(w).kind \notin Rereads
            /\ InBatch(w, Advanced(batch[w], batch[w].groups, batch[w].paid \cup inserted,
                                   batch[w].skipped))
        BY <2>4 DEF InsertDistribution, Pending, Rereads, InBatch, chainVars, dbVars,
           historyVars
      <3> HIDE DEF inserted
      <3> QED
        BY <1>2, <3>1, FreshPassing
    <2>5. CASE SkipOrphan(w)
      <3>1. /\ Open(w) /\ batch[w].next <= batch[w].last
            /\ InBatch(w, Advanced(batch[w], batch[w].groups, batch[w].paid,
                                   batch[w].skipped \cup {batch[w].next}))
        BY <2>5 DEF SkipOrphan, SkipCurrent, Pending, InBatch, chainVars, dbVars, historyVars
      <3> QED
        BY <1>2, <3>1, FreshPassing
    <2> QED
      BY <1>3, <2>1, <2>2, <2>3, <2>4, <2>5 DEF ApplyEvent
  <1>4. ASSUME NEW w \in Writers, SkipFailed(w) PROVE FreshInv'
    <2>1. /\ Open(w) /\ batch[w].next <= batch[w].last
          /\ InBatch(w, Advanced(batch[w], batch[w].groups, batch[w].paid,
                                 batch[w].skipped \cup {batch[w].next}))
      BY <1>4 DEF SkipFailed, SkipCurrent, Pending, InBatch, chainVars, dbVars, historyVars
    <2> QED
      BY <1>2, <2>1, FreshPassing
  <1>5. CASE CloseLedger
    BY <1>5, FreshLedger
  <1>6. ASSUME UNCHANGED <<log, tip, groupRows, cursor, batch, reported, overlapped>>,
                \A p \in Positions : Passed(p)' => Passed(p)
         PROVE  FreshInv'
    <2>1. PassedFresh => PassedFresh'
      BY <1>6 DEF PassedFresh, RevisionAt
    <2>2. ReadingsSound => ReadingsSound'
      BY <1>6 DEF ReadingsSound, RevisionAt, Closed, Before, Open
    <2>3. \A v \in Writers : (Open(v)' <=> Open(v)) /\ (BatchFresh(v) => BatchFresh(v)')
      BY <1>6 DEF BatchFresh, RevisionAt, Closed, Before, Open, RowOf, Current
    <2> QED
      BY <1>2, <1>6, <2>1, <2>2, <2>3, TwoWriters DEF FreshInv
  <1>7. CASE Expire \/ RestartLater
           \/ (\E from, to \in 1 .. MaxLedger : StartBackfill(from, to)) \/ UNCHANGED indexerVars
    <2>1. /\ UNCHANGED <<log, tip, groupRows, cursor, batch, reported, overlapped>>
          /\ \A p \in Positions : Passed(p)' => Passed(p)
      <3>1. UNCHANGED <<log, tip, groupRows, cursor, batch, reported, overlapped>>
        BY <1>7 DEF Expire, RestartLater, StartBackfill, indexerVars, chainVars, dbVars,
           historyVars
      <3>2. startLedger' \in Nat /\ startLedger \in Nat /\ startLedger <= startLedger'
        <4>1. startLedger \in Nat /\ tip \in Nat
          BY DEF IndexerInv, Typed, IndexerAssumption
        <4> QED
          BY <1>7, <4>1 DEF Expire, RestartLater, StartBackfill, indexerVars
      <3>3. \A p \in Positions : log[p].ledger \in Nat
        BY LogTyped DEF IndexerInv, Typed, IndexerAssumption
      <3> QED
        BY <3>1, <3>2, <3>3 DEF Passed
    <2> QED
      BY <1>6, <2>1
  <1>8. CASE FetchPage
    <2> DEFINE from == ResumeFrom
               last == Min2(from + PageLimit, Closed)
               token == [ledger |-> IF last = from + PageLimit THEN log[last].ledger ELSE tip,
                         upto |-> last]
    <2>1. /\ ~Open("live") /\ (CursorRetained \/ StartRetained)
          /\ batch' = [batch EXCEPT !["live"] = Opened(from, last, token)]
          /\ overlapped' = (overlapped \/ Open(Other("live")))
          /\ UNCHANGED <<log, tip, startLedger, groupRows, cursor, reported>>
      BY <1>8, TwoWriters DEF FetchPage, FetchedPage, chainVars, dbVars
    <2>2. from \in Nat /\ last \in from .. MaxEvents
      <3>1. from \in 0 .. Closed /\ Closed \in 0 .. MaxEvents /\ PageLimit \in Nat \ {0}
            /\ MaxEvents \in Nat
        BY <2>1, CursorWithinResume, ClosedTyped DEF IndexerInv, IndexerAssumption
      <3> HIDE DEF from
      <3> QED
        BY <3>1 DEF Min2
    <2> HIDE DEF from, last, token
    <2> QED
      BY <2>1, <2>2, TwoWriters, FreshOpening
  <1>9. CASE CommitLive
    BY <1>9, TwoWriters, FreshCommit DEF CommitLive
  <1>10. CASE AbortLive
    BY <1>10, TwoWriters, FreshClosing DEF AbortLive, chainVars, dbVars, historyVars
  <1>11. CASE FetchBackfill
    <2> DEFINE from == Before(backfill.cursorLedger)
               last == Min2(from + PageLimit, Before(backfill.to + 1))
    <2>1. CASE last = from
      <3>1. UNCHANGED <<log, tip, startLedger, groupRows, cursor, batch, reported, overlapped>>
        BY <1>11, <2>1 DEF FetchBackfill, chainVars, dbVars
      <3> QED
        BY <1>6, <3>1 DEF Passed
    <2>2. CASE last # from
      <3>1. /\ ~Open("backfill") /\ backfill.status = "running"
            /\ batch' = [batch EXCEPT !["backfill"] = Opened(from, last, NoCursor)]
            /\ overlapped' = (overlapped \/ Open(Other("backfill")))
            /\ UNCHANGED <<log, tip, startLedger, groupRows, cursor, reported>>
        BY <1>11, <2>2, TwoWriters DEF FetchBackfill, chainVars, dbVars
      <3>2. from \in Nat /\ last \in from .. MaxEvents
        <4>1. /\ backfill.cursorLedger \in Nat /\ backfill.to \in Nat
              /\ backfill.cursorLedger <= backfill.to
          BY <3>1 DEF BackfillSound, BackfillRecord
        <4>2. /\ log \in Logs /\ PageLimit \in Nat \ {0} /\ MaxEvents \in Nat
              /\ backfill.cursorLedger \in Int /\ backfill.to + 1 \in Int
              /\ backfill.cursorLedger <= backfill.to + 1
          BY <4>1 DEF IndexerInv, Typed, IndexerAssumption
        <4>3. from \in 0 .. MaxEvents /\ Before(backfill.to + 1) \in 0 .. MaxEvents
          BY <4>2, BeforeSplitsLog
        <4>4. from <= Before(backfill.to + 1)
          BY <4>2, BeforeMonotone
        <4> HIDE DEF from
        <4> QED
          BY <4>2, <4>3, <4>4 DEF Min2
      <3> HIDE DEF from, last
      <3> QED
        BY <3>1, <3>2, TwoWriters, FreshOpening
    <2> QED
      BY <2>1, <2>2
  <1>12. CASE CommitBackfill
    BY <1>12, TwoWriters, FreshCommit DEF CommitBackfill
  <1>13. CASE AbortBackfill
    BY <1>13, TwoWriters, FreshClosing DEF AbortBackfill, chainVars, dbVars, historyVars
  <1> QED
    BY <1>3, <1>4, <1>5, <1>7, <1>8, <1>9, <1>10, <1>11, <1>12, <1>13, TwoWriters
    DEF IndexerNext, ChainNext, LiveNext, BackfillNext

(* Unless a backfill ran beside the worker, a group's row knows all that   *)
(* the events the cursor has passed tell of the group, whatever is         *)
(* aborted, retried, replayed by a backfill or read twice.                 *)
THEOREM RowsAreFresh == IndexerSpec => []RowsFresh
  <1>1. IndexerInit => FreshInv
    <2>1. SUFFICES ASSUME IndexerInit PROVE FreshInv
      OBVIOUS
    <2>2. \A w \in Writers : ~Open(w)
      BY <2>1 DEF IndexerInit, Open, NoBatch
    <2>3. MaxEvents \in Nat /\ cursor.upto = 0 /\ log \in Logs /\ tip = 0
      BY <2>1, IndexerAssumption DEF IndexerInit, IndexerAssumption, NoCursor
    <2>4. PassedFresh
      BY <2>3 DEF PassedFresh, Passed, Positions
    <2>5. ReadingsSound
      <3>1. Closed \in Nat
        BY <2>3, IndexerAssumption, BeforeSplitsLog DEF Closed
      <3>2. \A g \in Groups : groupRows[g] = 0 /\ RevisionAt(g, Closed) \in 0 .. Closed
        BY <2>1, <3>1, RevisionTyped DEF IndexerInit
      <3>3. \A n \in 0 .. Closed : 0 <= n
        BY <3>1
      <3> QED
        BY <2>2, <3>2, <3>3 DEF ReadingsSound
    <2> QED
      BY <2>2, <2>4, <2>5, TwoWriters DEF FreshInv
  <1>2. IndexerInv /\ BackfillSound /\ FreshInv /\ [IndexerNext]_indexerVars => FreshInv'
    BY IndexerAssumption, FreshStays
  <1>3. IndexerInv /\ FreshInv => RowsFresh
    <2>1. SUFFICES ASSUME IndexerInv, FreshInv, ~overlapped, NEW p \in DOMAIN log, Passed(p),
                          log[p].kind \in Rereads, p \notin reported
                   PROVE  groupRows[log[p].group] >= RevisionAt(log[p].group, p)
      BY DEF RowsFresh, Rereads
    <2>2. p \in Positions /\ log[p].group \in Groups /\ p \in Nat
      BY <2>1, IndexerAssumption, LogTyped DEF IndexerInv, Typed, Positions
    <2>3. RevisionAt(log[p].group, p) <= groupRows[log[p].group]
      BY <2>1, <2>2 DEF FreshInv, PassedFresh
    <2>4. groupRows[log[p].group] \in Int /\ RevisionAt(log[p].group, p) \in Int
      BY <2>1, <2>2, RevisionTyped DEF IndexerInv, Typed
    <2> QED
      BY <2>3, <2>4
  <1> QED
    BY <1>1, <1>2, <1>3, InvariantHolds, PTL DEF IndexerSpec

-----------------------------------------------------------------------------
(* No round is fruitless.                                                  *)

(* A round of the worker that starts when there are closed events after    *)
(* its cursor opens a page that ends further on, with the whole of it to   *)
(* process; nothing but the commit of that page moves the cursor, and it   *)
(* moves it to the page's end. It is what CatchesUp needs of the steps     *)
(* besides fairness: an empty page never hides events                      *)
(* (runIndexerLoop, fetchPage).                                            *)
RoundsAdvance ==
    [][/\ FetchPage /\ cursor.upto < Closed =>
            LET page == batch'["live"]
            IN  /\ cursor.upto < page.token.upto
                /\ page.token.upto = page.last
                /\ page.next = page.first
                /\ \A p \in DOMAIN log : cursor.upto < p /\ p < page.first =>
                        log[p].ledger < startLedger
       /\ cursor' # cursor =>
            /\ Open("live")
            /\ batch["live"].next > batch["live"].last
            /\ cursor' = batch["live"].token
      ]_indexerVars

LEMMA FetchAdvances ==
    ASSUME IndexerAssumption, IndexerInv, FetchPage, cursor.upto < Closed
    PROVE  LET page == batch'["live"]
           IN  /\ cursor.upto < page.token.upto
               /\ page.token.upto = page.last
               /\ page.next = page.first
               /\ \A p \in DOMAIN log : cursor.upto < p /\ p < page.first =>
                       log[p].ledger < startLedger
  <1> DEFINE from == ResumeFrom
             last == Min2(from + PageLimit, Closed)
             token == [ledger |-> IF last = from + PageLimit
                                  THEN log[last].ledger ELSE tip,
                       upto |-> last]
             page == Opened(from, last, token)
  <1>1. batch'["live"] = page
    <2>1. batch' = [batch EXCEPT !["live"] = Opened(from, last, token)]
      BY DEF FetchPage, FetchedPage
    <2>2. "live" \in Writers /\ DOMAIN batch = Writers
      BY TwoWriters DEF IndexerInv, Typed
    <2> HIDE DEF page
    <2> QED
      BY <2>1, <2>2 DEF page
  <1>2. /\ from \in 0 .. Closed
        /\ cursor.upto <= from
        /\ \A p \in Positions : p <= from =>
                p <= cursor.upto \/ log[p].ledger < startLedger
    BY CursorWithinResume DEF FetchPage
  <1>3. /\ Closed \in Nat /\ PageLimit \in Nat \ {0} /\ cursor.upto \in Nat
        /\ log \in Logs /\ DOMAIN log = Positions
    BY ClosedTyped, LogTyped DEF IndexerInv, Typed, IndexerAssumption
  <1>4. from \in Nat /\ from <= Closed
    BY <1>2, <1>3
  <1>5. cursor.upto < last
    <2>1. last \in {from + PageLimit, Closed}
      BY <1>3, <1>4, MinOfTwo
    <2> HIDE DEF from, last
    <2> QED
      BY <2>1, <1>2, <1>3, <1>4
  <1>6. page.token.upto = last /\ page.last = last /\ page.next = page.first
        /\ page.first = from + 1
    BY DEF Opened
  <1>7. \A p \in DOMAIN log : cursor.upto < p /\ p < from + 1 => log[p].ledger < startLedger
    <2> SUFFICES ASSUME NEW p \in DOMAIN log, cursor.upto < p, p < from + 1
                 PROVE  log[p].ledger < startLedger
      OBVIOUS
    <2>1. p \in Positions /\ p \in Nat
      BY <1>3 DEF Positions
    <2>2. p <= from /\ ~(p <= cursor.upto)
      BY <2>1, <1>3, <1>4
    <2> QED
      BY <2>1, <2>2, <1>2
  <1> HIDE DEF page, from, last
  <1> QED
    BY <1>1, <1>5, <1>6, <1>7

(* No round of the worker that has something to fetch is fruitless.        *)
THEOREM EveryRoundAdvances == IndexerSpec => RoundsAdvance
  <1> DEFINE Advance ==
        /\ FetchPage /\ cursor.upto < Closed =>
            LET page == batch'["live"]
            IN  /\ cursor.upto < page.token.upto
                /\ page.token.upto = page.last
                /\ page.next = page.first
                /\ \A p \in DOMAIN log : cursor.upto < p /\ p < page.first =>
                        log[p].ledger < startLedger
        /\ cursor' # cursor =>
            /\ Open("live")
            /\ batch["live"].next > batch["live"].last
            /\ cursor' = batch["live"].token
  <1>1. IndexerInv /\ [IndexerNext]_indexerVars => [Advance]_indexerVars
    <2> SUFFICES ASSUME IndexerInv, IndexerNext PROVE Advance
      OBVIOUS
    <2>1. cursor' # cursor => CommitLive
      BY DEF IndexerNext, ChainNext, LiveNext, BackfillNext, CloseLedger, Expire,
         FetchPage, ApplyEvent, SkipUndecoded, ReadGroup, UpsertGroup, InsertDistribution,
         SkipOrphan, SkipFailed, AbortLive, RestartLater, StartBackfill, FetchBackfill,
         CommitBackfill, AbortBackfill, dbVars
    <2>2. CommitLive => /\ Open("live")
                        /\ batch["live"].next > batch["live"].last
                        /\ cursor' = batch["live"].token
      BY DEF CommitLive, CommitRows
    <2> QED
      BY <2>1, <2>2, FetchAdvances, IndexerAssumption
  <1> HIDE DEF Advance
  <1>2. IndexerSpec => [][Advance]_indexerVars
    BY <1>1, InvariantHolds, PTL DEF IndexerSpec
  <1> QED
    BY <1>2 DEF RoundsAdvance, Advance
=============================================================================
