# PaymeshStellar: specification and verification

PaymeshStellar splits payments among the members of a group. A Soroban contract
(`contract/`, Rust) holds the groups and moves the money; a backend (`backend/`,
TypeScript, Express, PostgreSQL) authenticates wallets, keeps a database of the
groups and copies what happens on chain into it; a web client (`frontend/`,
Next.js) edits groups and signs transactions. This directory holds TLA+ models
of the parts that carry state, TLC configurations that check them on small
instances, and TLAPS proofs of the main results for every value of the constants.
`PROJECT.json` lists the parts, the runs, the hazards of the code with the
properties that watch them, the theorems, and for every definition the source
lines it models.

## Inventory

### Contract (`contract/src`)

Every entrypoint is one atomic transaction: it returns `Ok` and its writes stand,
or it returns an error or aborts and the ledger is as it was.

| Part | State | Operations | What must hold |
|---|---|---|---|
| Shares (`base/utils.rs`, `base/auth.rs`, `apply_rebalance`) | none | validate, split, rebalance | a split pays exactly the amount; a rebalance keeps the total at 10 000 and nobody at 0 |
| Registry (`lib.rs`, `base/types.rs`) | groups, `AllGroups`, `CreatorGroups` | `create`, `update_members`, `add_member`, `remove_member`, `set_member_percentage`, `get` | stored member lists are always payable; indexes and records agree; no edit overwrites one its editor has not seen |
| Administration and migration | admin, pending admin, paused, schema version, cursor | `init`, two-step handover, `pause`, `upgrade`, `migrate` | interrupted migrations resume, finish, and change no group's content |
| Payments | token balances (external) | `distribute` | members get their split, the payer pays exactly once |
| Escrow (`base/escrow.rs`) | `Claimable`, `Escrowed`, times to live | `deposit`, `claim`, `claim_to` | what is owed is in custody, and whoever is owed can claim it |
| Schedules | `Schedule(id)`, the ledger's clock | `create_schedule`, `execute_schedule`, `cancel_schedule` | one run per interval, none twice, none after a stop |

Hard here: long sequences of calls that each validate only their own arguments;
editors working from a stale read; migrations interrupted between batches;
releases installed at a bad moment; integer rounding, truncation and wrap-around;
storage entries archived at different times.

### Backend (`backend/src`)

| Part | State | Operations | Hard because |
|---|---|---|---|
| Challenges and SEP-10 login (`services/challenges.ts`, `services/sep10.ts`, `routes/auth.ts`) | challenge rows | create, verify, consume | a challenge replayed by concurrent requests while its signers are loaded; a failure between consuming and opening the session |
| Sessions (`services/sessions.ts`, `middleware/auth.ts`) | session rows in families | create, rotate, logout, logout-all, cleanup | rotations, reuse detection and logouts interleave at READ COMMITTED |
| Indexer (`workers/indexer.ts`, `services/indexerProcessor.ts`, `indexerCursor.ts`, `contractReader.ts`) | cursor row, groups, transactions | fetch a page, apply a batch, save the cursor | crash between batches, duplicated events, retention, reads of newer state than the event |
| Backfill (`workers/backfill.ts`) | none of its own | replays a ledger range | pages cut inside a ledger |
| Reconcile (`services/reconcile.ts`) | reconcile issues | compare chain and database, repair | the chain moves between reading and repairing |
| Groups, users, transactions (`services/*.ts`, `routes/*.ts`) | rows | create, list, update | several statements without a transaction; offset paging |
| Horizon client (`services/horizon.ts`) | circuit breaker, cache, retries | read accounts | half-open state shared by concurrent requests |
| Idempotency (`middleware/idempotency.ts`) | key rows | check, insert, save response | check-then-insert, a crash while processing |

### Frontend (`frontend/src`)

| Part | State | Hard because |
|---|---|---|
| Group wizard and its pages (`components/GroupWizard.tsx`, `app/groups/new`, `app/groups/[id]/edit`) | the component, one `sessionStorage` key, the URLs of the tab's history | three copies of one state; back, forward, reload and two pages that share the key |
| Member step (`components/MemberEditor.tsx`, `Allocator.tsx`, `SharePreview.tsx`, `lib/utils/allocation.ts`) | rows, basis points, locks | rounding of the shares shown against the shares paid; rebalancing what is not locked |
| Group submission (`lib/hooks/useGroupSubmission.ts`) | stage, two refs | retries of what may already have been accepted |
| Wallet context, login, token refresh and API client (`contexts/WalletContext.tsx`, `lib/auth/*`, `lib/api/client.ts`, `lib/wallet/freighter.ts`) | status, token, timer, in-flight refresh | the extension changes account during a connect; single flight against resets and reuse detection |
| Other pages and components | none that lasts | presentation only |

The parts meet in few places. The contract's arithmetic is what the member step
previews. The indexer, the backfill and reconciliation write the same tables from
the chain's events. Login and refresh of the frontend call the sessions of the
backend; to the frontend's model the server is external, and to the sessions'
model a client is anything that may present any token ever issued.

That last interface does not fit as the two sides stand: the client builds and
signs a transaction of its own and sends `{ address, nonce, signature }`
(`lib/auth/auth.ts`, `lib/api/client.ts`); the server requires its own challenge
signed, as `transaction` or `xdr` (`schemas/authSchemas.ts`,
`services/sep10.ts`). Each side's tests stand in for the other. `WalletClient`
therefore takes the server as one that speaks the client's protocol, and `Sessions`
the client as one that speaks the server's; the two are not composed.

## Plan

In order of importance; everything planned has been written.

1. `Shares`, then `SplitCalls` over it; their proofs, and those of sums.
2. `GroupRegistry`: registry, administration, migration; its proofs.
3. `OptimisticEdits`: `GroupRegistry` with concurrent editors; its proofs.
4. `Payments`, then `Escrow` over it, refining `EscrowLedger`, and
   `EscrowLifetime` over `Escrow`; their proofs.
5. `Schedule` over `Payments`; its proofs.
6. `Indexer`, the live worker with the backfill over an abstract chain; its proofs.
7. `Sessions` with login and logout, refining `TokenFamilies`; its proofs.
8. `Reconcile` beside the writers of the tables it repairs; its proofs.
9. `Api`: profiles, the group row, the paged history; idempotency and validation
   as far as a request gets; proofs of the profiles and the history.
10. `Horizon`: cache, retries, breaker; its proofs.
11. `Allocation` over `Shares`, `GroupWizard`, `Submission`, `WalletClient`; their
    proofs.

What could follow: a composition of `Reconcile` with the full `Indexer` (today its
writers are an abstraction of the indexer's batches).

## Modules

| Module | Models | State and actions |
|---|---|---|
| `Shares` | `base/utils.rs`, validation of `base/auth.rs`, `apply_rebalance` | operators only; a member list is a sequence of `[address, percentage]` |
| `SplitCalls` | one call of that arithmetic | the list, what was asked, the answer |
| `GroupRegistry` | `lib.rs` without payments | one variable per `DataKey`, plus `compiledVersion`, the constant compiled into the installed WASM; one action per entrypoint, of the same name |
| `OptimisticEdits` | clients that `get`, wait, and submit | `seen` (group and version open in an editor), `missed` (history: writes since) |
| `Payments` | `distribute` and the external token | `balance[token][holder]` |
| `Escrow` | `base/escrow.rs` | `claimable`, `escrowed`; `Deposit`, `ClaimTo`, `Claim` |
| `EscrowLedger` | what the escrow promises | `owed`, `held`; `Credit`, `PayInFull` |
| `EscrowLifetime` | `bump`, `bump_instance`, archival | a time to live per entry a claim reads, `creditAge` (history: how long ago a member was last credited); `Elapse`, `Restore` |
| `Schedule` | the schedule entrypoints | `now`, `schedules` |
| `Indexer` | `workers/indexer.ts`, `workers/backfill.ts`, `services/indexerProcessor.ts`, `indexerCursor.ts` | `log`, `tip`, `oldest` (the chain as the RPC node serves it), the tables, `batch` (each process's open transaction), `backfill`; `reported`, `overlapped` (history) |
| `Sessions` | `services/challenges.ts`, `sep10.ts`, `sessions.ts`, `routes/auth.ts` | the two tables, and of each request where it is, the rows its UPDATE works on and the rows it has locked |
| `TokenFamilies` | what the sessions promise | `opener`, `token`, `given`; `Open`, `Refresh`, `End` |
| `Reconcile` | `services/reconcile.ts` and the `cli` | the chain's revisions, rows with their `created_at` and member lists, each writer's open transaction, the scan and the repair transaction |
| `Horizon` | `services/horizon.ts` | breaker, cache, one call per request, `tripped` (history: how long ago the threshold was made); time in ticks |
| `Api` | `routes/` and `services/` of users, groups, transactions; `validate`, `idempotency` | profiles, a group's row and the PUTs on it, the history and a client's walk through it |
| `Allocation` | `MemberEditor`, `Allocator`, `SharePreview`, `allocation.ts` | `form`: rows of basis points and locks |
| `GroupWizard` | `GroupWizard.tsx` and its two pages | the tab's history, the mounted component, `sessionStorage`, submissions under way |
| `Submission` | `useGroupSubmission.ts` | `stage`, the two refs, where each run awaits |
| `WalletClient` | wallet context, login, refresh, API client | `status`, `shown`, `token`, `cookie`, connects and refreshes under way |
| `Shares_proofs`, `GroupRegistry_proofs`, `OptimisticEdits_proofs`, `Indexer_proofs`, `Sessions_proofs` | theorems about the module named (`Shares_proofs`: with `SplitCalls`) | |
| `Payments_proofs` | theorems about `Payments`, `Escrow`, `EscrowLifetime`, `Schedule` | |
| `Services_proofs` | theorems about `Horizon`, `Reconcile`, `Api` | |
| `Frontend_proofs` | theorems about `Submission`, `WalletClient`, `GroupWizard`, `Allocation` | |
| `MC*` | constants and constraints for TLC | `MCStale`, `MCWorkers` and `MCApp` also put parts that share no state side by side |

*Contract.* An entrypoint's checks are the guard of its action, in the code's
order; a call that fails is a step not taken, since it changes nothing. `caller`
is the account whose `require_auth` succeeded. Names, usage counters, events and
error codes are left out: nothing depends on them. A stored record keeps its
`layout` (6, 7 or 8 fields) because `validate_group_exists` and `migrate` decide
by it. Where a width matters (`group_version`, `cursor + limit`, `runs_due as
u32`, `checked_mul`, `checked_add`) the maximum is a constant.

*Database.* An action is a statement or a call at which another process can come
between; statements whose effect only a commit shows are one step with it. In
`Indexer` a batch is a transaction: its writes are kept in `batch[w]`, seen by its
own process over the committed rows, and lock those rows. In `Sessions` an UPDATE
of several rows takes its snapshot when it starts (`targets`) and locks the rows
one by one (`LockTarget`), at READ COMMITTED; a knot of transactions that wait for
each other is broken by aborting one (`AbortDeadlock`). A token stands for its
session's row; a lost answer needs no action, since any request may present any
token. In `Reconcile` a DELETE finds the lists committed when it starts, and an
upsert locks the group's row; a row's `created_at` is when the transaction that
inserted it began, so rows of one batch tie, a late commit is not the newest, and
each page of the scan takes any order of the ties (`Orders`). The chain is
external: in `Indexer` a log fixed at the start and revealed ledger by ledger, in
`Reconcile` a revision per group.

*Browser and server memory.* JavaScript runs to its next await, so an action is
the code between two awaits. What the awaited party answers (Horizon, the wallet
extension, the hook's caller) is external and nondeterministic. The user moves
through the tab's history by any number of entries at once (`Traverse`): within a
visit that fires one popstate, into another document it mounts the page anew.
History variables (`unclear`, `abandoned`, `mixed`, `unchecked`, `trail`,
`overlapped`, `quiet`, `raced`) record the circumstances a property excludes;
each is described where it is declared, and what happens in them is said under
*Excluded circumstances*.

## Runs and bounds

| Run | Expect | Shows |
|---|---|---|
| `stale` | pass | two parts. Editing: two editors, two groups, `U32Max` 2 so that versions wrap, releases 3 to 5, batch limits 0, 1 and 2, `MaxMissed` 3: edits, interrupted migrations, and that migrations finish. Sessions: two concurrent requests on one wallet's challenge and its sessions, `MaxSessions` 3: logins, refreshes, reuse, logouts, expiry, cleanup, failures; each step checked against `TokenFamilies` |
| `escrow` | pass | two groups sharing one token, amounts 1 and 2 over a `Supply` of 2, members swapped between deposits; entries that age, are archived and restored (threshold 2, extension 3) |
| `workers` | pass | two parts. Schedules: intervals 0 to 2, up to 3 runs, catch-up limit 2, `U32Max` 3 and `U64Max` 7 so that late runs truncate, `MaxTime` 4. Indexer: every log of `MaxEvents` 3 of one group over `MaxLedger` 2, pages of 2, one backfill run of every range beside the worker, kills, skips, restarts, retention |
| `app` | pass | the parts that share no state, see below |
| `pause` | violation | member operations run while the contract is paused |
| `upgrade_midway` | violation | a release installed between two `migrate` batches ends with groups left behind and `done` reported |
| `keeper` | violation | `execute_schedule` needs the funder's signature, so it is not a permissionless keeper call |
| `backfill` | violation | pages of 1: a distribution that shares its ledger with the last event of a full page is neither applied nor logged |
| `revocation` | violation | a session that a refresh inserts while logout-all, or the reuse detection, waits for its predecessor's lock stays active after the answer that it was revoked |
| `repair_twice` | violation | two groups of one batch tie in the scan's order and change places between its pages: one is read twice, the other's drift is left for the next run to report |
| `submission` | violation | the browser's Back mounts the wizard at the review step of its URL with no members, and submits them |
| `group_creation` | violation | no `POST /groups` can succeed: the schema drops the names the next check asks for |

Two groups suffice for the indexes and batches because every action touches one
group and a batch's only relation between groups is their order around one
cursor; two editors because a lost update is a pair; two requests because a fork
of a family is one, and three sessions so that a rotation's successor can be
rotated again. `NoHandover` in `workers` drops pending admin handovers, which
touch nothing that run looks at. `OneGroupAges` in `escrow` lets time pass only
in states with one group, no handover and not all members replaced: an entry's
age concerns one group's entries, and the accounting of two groups is what the
states without ageing explore.

For the indexer, three events are a creation and two that can share a
transaction, a ledger or a batch with it or with each other; pages of two make
batches that hold one lock and wait for another, so that worker and backfill
deadlock; two ledgers separate what is closed, retained and lost.

**The `app` run.** `MCApp` holds eleven instances that share no variable. `focus`
is chosen initially and says which of them moves; the others stay in an initial
state. The state space is the sum of theirs, and every property speaks of one. `MCStale`
and `MCWorkers` do the same with two parts each; each part keeps the fairness it
has alone.

| Focus | Bounds and why they are enough |
|---|---|
| `splits` | up to three members over a `Total` of 5, amounts to `MaxAmount` 11 with an `I128Max` of 30 so that products overflow, changes to `MaxDelta` 5 either way: floors, dust, ties of the largest and refused rebalances all occur |
| `members` | three addresses, one group, lists of up to three entries, among them those validation must refuse |
| `allocation` | `MaxRows` 3, `MaxEntered` 6 (one above the whole), `MaxSample` 9 |
| `reconcile` | two groups, two writers, pages of one row, `MaxRevision` 2, three times at which transactions begin (`Stamp`); `ReconcileBound`: two lists per group, one group archived or edited, two changes of the chain; `ListId` 1 to 5 tells lists apart |
| `horizon` | two callers, one retry, timeout 2, lifetime 2, cooldown 3, `Threshold` 2: a second caller under way when the breaker opens |
| `profiles` | two users, `MaxProfile` 2: the two concurrent creations |
| `groups` | two users' PUTs on one row, a `Whole` of 3 |
| `history` | `MaxHistory` 3 rows, `MaxTime` 2 so that two share a timestamp, pages of 1 and 2 |
| `wizard` | `MaxVisits` 2, `MaxEntries` 6 of the tab's history (a visit's three steps, what is before and after it, and one more), `MaxPending` 1; every jump between entries |
| `submission` | two runs, `MaxAccepted` 3 |
| `wallet` | two accounts, two connects, two refreshes |

Groups and writers of `Reconcile` are interchangeable, hence its symmetry; the
run checks no liveness.

TLC's deadlock check is off: every model may stop, since nobody must call a
contract or a server, and a chain may rest. A request stuck on a lock is what
`RequestsAnswered` looks for.

**Fairness.** `MigrationCompletes` assumes that the administrator keeps calling
`migrate` with a positive limit, as step 4 of the runbook in `contract/README.md`
says ("Repeat step 4 if remaining > 0 until done is true"), and that no release
is installed over a half-done migration (`Runbook`), which the code does not
enforce: `upgrade_midway` is what happens without it.

`CatchesUp` assumes of the worker only what its loop and the database give it
(`IndexerFairness`): it polls for ever, so it fetches when a request can succeed
(WF); a batch's events are applied one after the other (SF, since a row may be
locked in between; WF for the backfill, whose process ends); PostgreSQL detects
deadlocks (WF); a complete batch is committed (WF for the backfill, SF for the
worker, whose batches may be rolled back in between). Nothing is assumed of the
chain, the operator, the retention window or of skips. The property is
conditional on batches ceasing to be aborted, and allows for a worker whose
cursor and `INDEXER_START_LEDGER` are both outside the retention window
(`Stranded`): the loop then retries the same two requests for ever, which the
code only logs.

`RequestsAnswered` assumes that a handler that can go on does (WF of `Progress`:
the event loop and the database run), deadlock detection included, and that a
transaction waiting for a row gets it if it is free again and again (SF of
`LockTarget`: PostgreSQL queues those who wait for a row). No request need arrive
and nothing need fail or expire.

## Proofs

| Theorem | Module | Statement |
|---|---|---|
| `SplitsConserve` | `Shares_proofs` | `SplitsSpec => []SplitConserves` |
| `SplitsFair` | | `SplitsSpec => []SplitFair` |
| `RebalancesExact` | | `SplitsSpec => []RebalanceExact` |
| `TypeCorrect` | `GroupRegistry_proofs` | `Spec => []TypeOK` |
| `MembersCorrect` | | `Spec => []MembersSound` |
| `IndexesCorrect` | | `Spec => []IndexesAgree` |
| `MigrationCorrect` | | `RunbookSpec => []MigrationSound` |
| `MigrationKeepsGroups` | | `Spec => MigrationPreservesGroups` |
| `MigrationAlwaysAdvances` | | `Spec => MigrationAdvances` |
| `VersionsCorrect` | `OptimisticEdits_proofs` | `EditsSpec => []VersionCountsWrites` |
| `NoLostUpdate` | | `EditsSpec => LostUpdateOnlyOnWrap` |
| `EscrowIsBacked` | `Payments_proofs` | `EscrowSpec => []EscrowBacked` |
| `AccountingAlwaysHolds` | | `EscrowSpec => []AccountingHolds` |
| `EscrowConserves` | | `EscrowSpec => []TokensConserved` |
| `EscrowKeepsRegistry` | | `EscrowSpec => Spec` |
| `CreditsAreCovered` | | `EscrowSpec => []CreditsCovered` |
| `EscrowIsALedger` | | `EscrowSpec => ImplementsLedger` |
| `LifetimeIsEscrow` | | `LifetimeSpec => EscrowSpec` |
| `CreditsOutlive` | | `LifetimeSpec => []CreditOutlivesThreshold` |
| `ScheduleTypeCorrect` | | `ScheduleSpec => [](ScheduleTypeOK /\ CompletedInactive)` |
| `RunsKeepToTheGrid` | | `ScheduleSpec => OneRunPerInterval` |
| `StoppedStaysStopped` | | `ScheduleSpec => InactiveForGood` |
| `CountedRunsArePaid` | | `ScheduleSpec => RunsArePaid` |
| `SchedulesConserve` | | `ScheduleSpec => []TokensConserved` |
| `SchedulesKeepRegistry` | | `ScheduleSpec => Spec` |
| `IndexerTypeCorrect` | `Indexer_proofs` | `IndexerSpec => []IndexerTypeOK` |
| `PaymentsCorrect` | | `IndexerSpec => []PaymentsRecordedOnce` |
| `RowsAreFresh` | | `IndexerSpec => []RowsFresh` |
| `CursorForward` | | `IndexerSpec => NeverRewinds` |
| `EveryRoundAdvances` | | `IndexerSpec => RoundsAdvance` |
| `SessionsCorrect` | `Sessions_proofs` | `SessionsSpec => []SessionsInv` |
| `OneLiveTokenHolds` | | `SessionsSpec => []OneLiveToken` |
| `ChallengeLogsInOnceHolds` | | `SessionsSpec => []ChallengeLogsInOnce` |
| `EndedForGoodHolds` | | `SessionsSpec => EndedForGood` |
| `SessionsAreFamilies` | | `SessionsSpec => ImplementsFamilies` |
| `NobodyWaitsForGood` | | `SessionsSpec => []SomebodyGoesOn` |
| `SpentStaysSpent` | | `SessionsSpec => SpentForGood` |
| `SessionsBelong` | | `SessionsSpec => []SessionsBelongToAsker` |
| `HorizonCorrect` | `Services_proofs` | `HorizonSpec => []HorizonInv` |
| `AccountAgeHolds` | | `HorizonSpec => []AccountAgeBounded` |
| `BreakerHoldsAlways` | | `HorizonSpec => BreakerHolds` |
| `MembersAreOneList` | | `ReconcileSpec => []OneMemberList` |
| `ScanSkipsNone` | | `ReconcileSpec => []NoGroupSkipped` |
| `RepairAgrees` | | `ReconcileSpec => []RepairedAgrees` |
| `ProfilesAreUnique` | | `ProfilesSpec => []OneProfilePerAddress` |
| `WalksAreComplete` | | `HistorySpec => []WalkComplete` |
| `OncePerResetHolds` | `Frontend_proofs` | `SubmissionSpec => []OncePerReset` |
| `WalletCorrect` | | `WalletSpec => []WalletInv` |
| `OneRefreshHolds` | | `WalletSpec => []OneRefresh` |
| `ShownIsSignedInHolds` | | `WalletSpec => []ShownIsSignedIn` |
| `ReviewedIsValid` | | `WizardSpec => []ReviewIsValid` |
| `BackStays` | | `WizardSpec => []BackStaysInside` |
| `PreviewsAreRight` | | `AllocationSpec => []PreviewMatchesContract` |
| `RebalancesComplete` | | `AllocationSpec => []RebalanceCompletes` |

They hold for every value of the constants that satisfies the named assumptions
of the modules (`SharesAssumption`, `SplitCallsAssumption`, `RegistryAssumption`,
`EditorsAssumption`, `PaymentsAssumption`, `LifetimeAssumption`,
`ScheduleAssumption`, `IndexerAssumption`, `BoundAssumption`, `NoneAssumption`,
`RequestsAssumption`, `HorizonAssumption`, `ReconcileAssumption`,
`ApiAssumption`, `WalletAssumption`, `AllocationAssumption`), which TLC also
evaluates. They say that bounds, widths and limits are natural numbers (positive
where the code divides by them or pages by them), that accounts, groups and
requests are finitely many, that member lists handed in are lists of an address
and an unsigned percentage, that the contract is not one of its own members, and
that markers for "none" are none of what they mark the absence of. `SplitsSpec`,
`AllocationSpec`, `ReconcileSpec`, `HorizonSpec`, `ProfilesSpec`, `HistorySpec`,
`WizardSpec`, `SubmissionSpec` and `WalletSpec` are the parts of the `app` run
standing alone; `members` of that run is the registry's own `Spec`.

The argument of each, by module:

- *Sums.* `TotalPercentage`, the remainder of a split and the escrow's totals are
  folds of the community modules: a CHOOSE over functions that describe
  themselves recursively. The first part of `Shares_proofs` shows that such a
  function exists (`PartialSumsExist`), that it does not matter which element the
  fold picks first (`AnyFirst`), and from that the laws everything else uses:
  `SumSplit`, `SumChange`, `SumAdd`, `SumScale`, `SumImage`. Each induction takes
  the least element of the set of counter-examples, or shows that the set of good
  ones has every element (`LeastNatural`, `UpTo`, `ElementByElement`).
- *Splits.* A member's floor is short of its share by less than one unit, and the
  last takes what is left, so the payout adds up and the last is at most one unit
  per member above its own. A proportional rebalance scales every share
  to the new total and floors it, the first of the largest takes the remainder,
  and the checks refuse whatever would leave a zero.
- *Members.* `MembersInv`: every stored list passes the contract's validation
  (`SoundList`). `add_member`, `remove_member` and `set_member_percentage` do not
  validate their result; it is sound because the rebalance of the others makes
  exactly the room that the member takes or leaves (`AppendedMember`,
  `RemovedMember`, `InsertedMember`).
- *Registry.* The inductive invariant is `TypeOK` with `IndexesAgree`: an index
  stays injective because `create` appends an identifier that is not stored, and
  "not stored" is "not indexed" only while the indexes agree.
- *Migration.* `MigrationSound` adds to `DoneMeansMigrated` what makes it
  inductive: the groups before the cursor are current, and no cursor is pending
  once the schema is. `Runbook` is needed exactly at `upgrade`. A group created
  or edited meanwhile cannot exist, since those calls require a current schema.
  Hence too the list a pending migration walks is the one it started with, and a
  batch of a positive size either reaches its end or leaves a later cursor
  (`MigrationAdvances`), whatever releases come in between.
- *Editors.* `Tracks` relates an editor's version, the group's and the count of
  writes missed, modulo the wrap; the lost-update theorem is arithmetic on it.
- *Escrow.* `EscrowInv`: the credits of a group add up to its total, a group that
  is not stored has none, and the totals of all groups paid in one token are at
  most the contract's balance of it. A deposit raises both sides by the amount,
  because a split conserves it; a claim lowers both by the credit; a distribution
  never takes from the contract's own balance. The first of these is the accounting
  invariant `escrow.rs` documents (`AccountingHolds`). `CreditsCovered` is
  `CreditorsCanClaim` with its `ENABLED` spelled out: unless the contract is
  paused, whoever has a credit passes every check of `claim_to` (`CanClaim`). The refinement of
  `EscrowLedger` goes step by step (`DepositCredits`, `ClaimPays`, every other
  action a stutter), and `EscrowLifetime` refines `Escrow`, so that its theorems
  hold with ageing entries too. `WindowInv` is `CreditOutlivesThreshold` made
  inductive: of each entry a claim reads, the time left and the age of the credit
  are together at least the threshold, because the deposit left every one of them
  the threshold and others only extend.
- *Tokens.* `TokensConserved`: of each token the holders have together what they
  had at first, and nobody less than nothing (`Spread`). A transfer moves between
  two holders, perhaps the same one; a payout adds the members' shares, which a
  split makes add up to the amount, and takes the amount from the payer once per
  run, so the changes sum to zero. No payer is overdrawn because `Payable` asks
  for the whole of it, all runs of a catch-up together. Payments leave the
  registry's variables alone, so both specifications implement `GroupRegistry`'s
  `Spec` and inherit what is proved of it.
- *Schedules.* `CompletedInactive` is needed with the types: an execution of an
  active schedule has at least one run, so `remaining_runs` falls and stays a
  natural number, and a schedule that is inactive or has no runs left (`Over`)
  is one no execution can start from. The grid is arithmetic on `IntervalsPassed`; what is paid is
  the conservation of a split, taken once per run.
- *Indexer.* The invariant (`IndexerInv` with `BackfillSound`) says of every open
  batch that each distribution already processed has a row, committed or in the
  batch, or is among its skips (`BatchesRecord`); that no transaction hash has a
  row in two places, committed or in either batch, which is what the locks buy
  (`RowsUnique`); and that the live batch starts where the cursor stands, or
  after a gap the start ledger excludes (`LiveSound`). At a commit these become
  `PaymentsRecordedOnce` for the new cursor. That positions and ledgers order
  the log alike is the lemma `BeforeSplitsLog`. `RoundsAdvance` says that the
  fallback never opens a page behind the cursor (`CursorWithinResume`), and a page
  is empty only when the log has nothing closed after it.
- *Freshness of rows.* While the writers took turns, `FreshInv`: a batch's rows
  are at least as new as the committed ones, what it has read and not written is
  at least as new as both and knows the event it was read for, and no event the
  batch has left behind knows more than its rows (`BatchFresh`). At the commit
  that becomes `RowsFresh` for the events the cursor passes. What an event knows
  is a count over the log up to it, hence grows with its position
  (`RevisionGrows`), and no reading knows more than the closed ledgers.
- *Sessions.* `LocksSound` carries the argument: no row is locked by two
  requests, so a row revoked at a commit, which the committing request has locked,
  is not one that another is rotating; a rotation's token is therefore still live
  at its commit, and replacing it leaves the family one live token. A family is
  named by its first session (`FamiliesSound`), so a new login cannot revive an
  old one. For `EndedForGood` (`EndedStep`) only an insertion could bring a login
  back; that of a rotation stands beside a token that is still live at its commit,
  so a login without a live token gets no other, whichever of its earlier tokens
  were rotated and whichever revoked. For logins,
  whoever is past `consume` is alone with its challenge and no session has used it
  (`ConsumedSound`, `ProofsSound`). `RoomKept` keeps the bound on sessions from
  blocking a request half way; it counts requests, hence `RequestsAssumption`.
- *Families of tokens.* `ImplementsFamilies` maps a family's token to the one live
  row it has, if any, which `OneLiveToken` makes a function of the state; its
  opener to the challenge its first session proved; and the tokens given to the
  ids handed out. A rotation's commit is `Refresh` because its token is still the
  live one, a login's `CreateSession` is `Open` because no family has that challenge
  (`ProofsSound`), revocations and cleanups are `End`, everything else a stutter.
- *Locks.* `HoldersBusy`: only a request under way holds locks, so whoever is
  waited for has not finished. If nobody in a set that waits only within itself
  could go on, a smallest such set would exist (requests are finitely many); each
  of it waits for another of it, and each is waited for, since the set without it
  would be smaller. That is a knot, which `AbortDeadlock` breaks
  (`SomebodyGoesOn`).
- *Tokens and owners.* Rows are never un-rotated, un-revoked or renewed and ids
  never reused, so a token once refused stays so (`SpentForGood`). A rotation
  copies its predecessor's owner and family (`SessionsBelongToAsker`); a challenge
  cannot be asked for again once a session was opened with it.
- *Horizon.* `TrippedSound`: within the cooldown of the failure that made the
  threshold the breaker is open and dated by a failure at least as late. A success
  on its way sets the count to 0 and nothing else; only passing the circuit closes
  it, and nobody passes before the date is the cooldown old (`PassingIsLate`). The
  cache's date is at most one timeout younger than its reading (`CacheDated`),
  which bounds what is answered.
- *Reconciliation.* `NothingPassed`: while no rows tie, a known group the scan has
  not read is on its page or at an offset still ahead. Its place in every order is
  after the rows newer than it (`PlaceInOrder`); a commit, however late, can only
  make these more (`RowsMoveBack`), and only the repair, which follows the scan,
  deletes any. `FoundAll`: unless
  raced, an open replacement has deleted the very list its group has, because the
  row's lock keeps other writers out (`OneReplaces`), so a commit leaves one list.
  `ReportsAgree`: while nothing else changes, every drift of a scanned group is
  among the reports, then among what is still to repair or already fixed, with the
  chain's present revision; a group two pages reported is fixed twice, and the
  second fix deletes what the first inserted (`LastFix`).
- *Profiles and history.* An address is free exactly if no profile has it. For the
  walk: sorting is a bijection between the transactions and their places
  (`PlacesAreTaken`, `SortedHistory`); what has been read is in order, ends at the
  cursor and has everything due up to there (`ReadSoFar`), which a page read after
  the cursor in the order of that moment continues (`PageContinues`), whatever was
  inserted before or after it.
- *Submission.* While nothing unclear happened there is one run, it was let in
  while nothing was accepted (`SentFirst`), and what was accepted is marked.
- *Wallet.* `PromisesSound`: the shared promise is a call under way, and the only
  one unless refresh state was reset under a call. `AccountsAgree`: as long as
  the extension changed only where listeners look, every signed challenge,
  session, call under way and token is the extension's account.
- *Wizard.* `CopiesAgree`: component, storage and URL have one step while it is
  mounted. A visit's entries are adjacent in the tab's history, two visits are
  never adjacent, and in a visit walked stepwise an entry's step is no deeper than
  the entries of its visit behind it (`WellKept`), which is `BackStaysInside`. A
  popstate moves to the step before, which is below every step reached
  (`StepBeforeFits`), so the jumps that can break it are those back over several
  entries, and `trail` marks them. `Reviewable`: what the component holds has passed
  the checks of the steps before its own. A popstate keeps it because it only goes
  back; a mount keeps it unless the URL is ahead of what was stored (`Ahead`),
  which is when `unchecked` is set.
- *Allocation.* The preview's running total is the sum of the floors before a
  row, so its last share is the contract's remainder (`RunningTotal`,
  `PreviewIsPayout`), and the form's validation implies the contract's. For a
  rebalance, an even split is whole and within one of even, scaling it down to
  the room loses less than one per row, which the last rows take back
  (`EvenSplitIsWhole`, `ScaledSplitFillsRoom`), and the unlocked rows are counted
  without a gap (`RanksCount`).

Only model-checked: liveness (`MigrationCompletes`, `CatchesUp`,
`RequestsAnswered`) and `ENABLED` (`CreditorsCanClaim`, `KeeperNeedsNoFunder`),
which are out of the prover's reach. What they need of the steps is proved:
`MigrationAdvances`, `RoundsAdvance`, `SomebodyGoesOn` and `CreditsCovered` leave
to TLC the fairness and the counting down; `KeeperNeedsNoFunder` is violated.
Every other property of the passing runs is
the property of a theorem. The library's induction theorems take an operator as a
parameter, which no installed prover can instantiate; where a sum or a sorted
list had to be reasoned about for every length, the proofs go by least elements,
and `Allocation`, `Reconcile` and `Api` say with recursive functions, slices and
ranks what could also be said with an opaque operator.

## Excluded circumstances

Some properties are stated for part of the behaviours only. What the others do,
and what the repository's documents say of it:

- `BackStaysInside` (`trail`): a jump back over several entries of a visit fires one
  popstate (`GroupWizard.tsx` 94 to 101), so the step on the visit's first entry is
  members, and the next Back leaves the wizard; forward over a mounted wizard moves
  a step back as well. `GroupWizard.tsx` 41 claims that Back "moves between steps
  instead of dumping user out". A visit that opens at a later step, because
  storage held one, has nothing behind it from the start.
- `ReviewIsValid` (`unchecked`): the step of the URL wins over the stored state when
  a page mounts (line 54). Back out of the wizard from invalid members and forward
  onto an old `?step=review` entry, and after a submission Back onto it, show and
  submit a review of members no step has accepted, though `GroupWizard.tsx` 40 says
  "State survives back/forward navigation" and `Allocator.tsx` 20 that the
  indicator "blocks submission unless total is exactly 10000". The run
  `submission` is that claim (`SubmissionBlocked`) and its violation. On the edit
  page the group as it was loaded wins over what is stored, so a reload discards
  the edits of the members; an emptied name leaves the old one in the URL, which
  the next mount takes.
- `OncePerReset` (`unclear`): two overlapping calls of `submit` both get through,
  since `hasSubmitted` is looked at when a call starts (`useGroupSubmission.ts` 47)
  and set when the chain has answered (75), and a transaction whose answer was lost
  can be retried. The hook promises otherwise: "Prevents double-submission of
  already-signed transactions" (21), "Prevent double-submission" (46). No page calls it.
- `NoGroupSkipped` (`Untied`): rows of one batch tie in `created_at`, the only key of
  the scan's order (`groups.ts` 152), and a page may order them otherwise than the
  page before: a group is passed over, against "Reconciles all groups"
  (`reconcile.ts` 138). The run `repair_twice` shows it.
- `RepairedAgrees` speaks of the rows that were scanned, and of a run beside which
  nothing changed (`quiet`): a repair writes what the scan read, so a change made
  during the run may be written over until the next run. `OneMemberList`
  (`raced`): a repair and a writer that replace one group's members at the same
  time each insert a list, and the table has nothing against two. No document says
  that the repair may run beside the worker.
- `RowsFresh` (`overlapped`): a backfill that overlaps the worker may write a group
  it read earlier (`indexerProcessor.ts` 137) over a later reading. It also leaves
  out the events of single members, which the decoder does not know: a row follows
  them at the group's next `updated` event.
- `NeverRewinds` and `CatchesUp` take the RPC as one node, whose tip and retention
  window only move on. Behind a balancer a node that lags answers a cursor ahead of
  its tip with an error that `RETENTION_ERROR_PATTERN` (`sorobanRpcClient.ts` 76)
  takes for a retention gap, and the worker then falls back to a start ledger.
- `EndedForGood` says what becomes of a login that has no live token left. Whether a
  revocation gets that far is another matter: logout-all and the reuse detection
  (`sessions.ts` 133 and 87) are each one UPDATE at READ COMMITTED and miss the row
  a rotation has inserted and not committed, though the documents say that all
  sessions, or the entire family, are revoked. The run `revocation` states that for
  both; its shortest trace is a logout-all's. With the reuse detection it is that of
  a login refreshed once: one request rotates the live token while another presents
  the rotated one.
- `ShownIsSignedIn` (`mixed`, `abandoned`): the listeners are heeded while
  connected only, so a switch of account during a connect shows one account and
  signs in another; an overlapping attempt's failure hides a sign-in whose
  refreshes go on; a refresh in flight when its state is reset still stores its
  token when it lands, after a disconnect too.
- `OneRefresh` (`abandoned`): after a reset with a refresh in flight a second refresh
  may run beside the first, and two with one cookie make the server revoke the family.
- `CreditOutlivesThreshold` is the threshold of 30 days. `escrow.rs` promises more:
  120 days, "the window a member has to claim after the last write touching their
  group" (64), and "a four-month window" for an idle group (44). `extend_ttl` gives
  the 120 days only to an entry with less than the threshold left, so an entry
  written at 31 days stays at 31; and a write that touches the group does not
  touch the credits of members it does not credit. Restoring the entry is then the
  member's to pay for; no credit is lost.
- `PreviewMatchesContract` is about integers. `calculateShares` computes in doubles
  (`allocation.ts` 83), which are exact below 2^53; `PREVIEW_VERIFICATION.md` 357
  says "Integer arithmetic throughout (no floating point)".
- A refresh whose answer is lost ends its family: the client presents the old
  token again, which is reuse.

## Not modelled

- *Contract.* Events, error codes and messages; an administrator kept in
  persistent storage by an old release, which `accept_admin` does not find; the
  size of `AllGroups` and `CreatorGroups`, one storage entry each; the times to
  live of entries the escrow never extends; `MAX_SAFE_TOTAL`, which nothing uses.
  A cancelled or completed schedule's entry is never removed, so its group can
  never be given another. `claim_to` the contract's own address keeps the tokens
  in custody with nobody to claim them.
- *Indexer.* The decoding of values, the backoff delays, the health endpoint. A
  second distribution in one transaction has no row of its own (`tx_hash` is
  unique), nor has a run of a schedule. The paging token is always stored, so the
  resumption from `last_ledger + 1` is left out.
- *Sessions.* What the SEP-10 library checks of a signed envelope; the in-memory
  services of the tests, which do in one step what the modelled ones do in many.
- *Groups.* The statements of `groupsService.create`, which no request reaches
  (`group_creation`), and the offset pages of `GET /groups` apart from the scan in
  `Reconcile`. A `GET /transactions` or `GET /groups` without a `limit` reads NaN,
  because `validate` discards the defaults it parsed; the walk of the model always
  asks for one.
- *Idempotency.* What follows the first SELECT: the table that migration 004
  creates has no `status` column, so the SELECT fails and a POST with a key ends
  there.
- *Horizon.* Which fields are returned. Only tests use this service.
- *Frontend.* Pages that show fixed sample data; numbers above 2^53; the errors of
  names and addresses (duplicates among them), which `MemberEditor` shows and
  `canProceed` ignores; `handleAuthFailure` and the hook of `Submission`, which no page calls (the hook
  is modelled all the same).
- *Wiring.* Configuration, logging, rate limits.
