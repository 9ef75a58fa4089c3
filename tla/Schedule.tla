------------------------------ MODULE Schedule ------------------------------
(***************************************************************************)
(* Recurring distributions (create_schedule, execute_schedule and          *)
(* cancel_schedule in contract/src/lib.rs): a group's creator orders a     *)
(* number of runs of one amount, one per interval; a keeper executes those *)
(* that are due, several at once when it comes late.                       *)
(***************************************************************************)
EXTENDS Payments

CONSTANTS
    MAX_CATCHUP,    \* missed runs made up for in one execution
    U64Max,         \* the largest u64
    Intervals,      \* interval_secs create_schedule is called with
    RunCounts,      \* runs create_schedule is called with
    MaxTime         \* bound: the last ledger timestamp

ASSUME ScheduleAssumption ==
    /\ MAX_CATCHUP \in Nat \ {0}
    /\ U64Max \in Nat
    /\ Intervals \subseteq Nat
    /\ RunCounts \subseteq 0 .. U32Max
    /\ MaxTime \in 0 .. U64Max

VARIABLES
    now,          \* the ledger's timestamp
    schedules     \* DataKey::Schedule(id)

scheduleVars == <<now, schedules>>
allScheduleVars == <<registryVars, balance, scheduleVars>>

NoSchedule == [interval_secs |-> 0]
Scheduled(id) == schedules[id] # NoSchedule

ScheduleInit ==
    /\ Init
    /\ PaymentsInit
    /\ now = 0
    /\ schedules = [id \in Ids |-> NoSchedule]

\* The checks create_schedule and cancel_schedule make first.
MaySchedule(id, caller) ==
    /\ NotPaused
    /\ MigrationCurrent
    /\ Stored(id)
    /\ GroupOf(id).creator = caller

CreateSchedule(id, caller, interval, first, runs, amount) ==
    /\ MaySchedule(id, caller)
    /\ interval > 0 /\ runs > 0
    /\ first >= now
    /\ amount > 0
    /\ ~Scheduled(id)
    /\ schedules' = [schedules EXCEPT ![id] =
            [interval_secs |-> interval, next_run_at |-> first,
             remaining_runs |-> runs, amount |-> amount, funder |-> caller,
             active |-> TRUE]]
    /\ UNCHANGED <<registryVars, balance, now>>

Due(s) == s.active /\ now >= s.next_run_at

IntervalsPassed(s) == (now - s.next_run_at) \div s.interval_secs

\* `as u32` keeps the low 32 bits.
RunsDue(s) == (IntervalsPassed(s) % (U32Max + 1)) + 1

RunsToExecute(s) == Min({RunsDue(s), MAX_CATCHUP, s.remaining_runs})

\* Mutant: one interval passes per execution, however late it comes.
NextRunAtOneInterval(s) == s.next_run_at + s.interval_secs

NextRunAt(s) == s.next_run_at + (IntervalsPassed(s) + 1) * s.interval_secs

\* Mutant: a schedule is not marked when its last run is executed.
ExecutedStillActive(s) ==
    [s EXCEPT !.next_run_at = NextRunAt(s), !.remaining_runs = @ - RunsToExecute(s)]

Executed(s) ==
    LET left == s.remaining_runs - RunsToExecute(s)
    IN  [interval_secs |-> s.interval_secs, next_run_at |-> NextRunAt(s),
         remaining_runs |-> left, amount |-> s.amount, funder |-> s.funder,
         active |-> left # 0]

\* `signers` authorised the transaction: the caller and the funder must.
ExecuteSchedule(id, caller, signers) ==
    LET s == schedules[id]
    IN  /\ NotPaused
        /\ MigrationCurrent
        /\ caller \in signers
        /\ Scheduled(id)
        /\ Due(s)
        /\ s.funder \in signers
        /\ RunsDue(s) <= U32Max                    \* overflow aborts
        /\ s.amount * RunsToExecute(s) <= I128Max
        /\ Payable(id, s.funder, s.amount, RunsToExecute(s))
        /\ NextRunAt(s) <= U64Max
        /\ Pay(id, s.funder, s.amount, RunsToExecute(s))
        /\ schedules' = [schedules EXCEPT ![id] = Executed(@)]
        /\ UNCHANGED <<registryVars, now>>

CancelSchedule(id, caller) ==
    /\ MaySchedule(id, caller)
    /\ Scheduled(id)
    /\ schedules' = [schedules EXCEPT ![id].active = FALSE]
    /\ UNCHANGED <<registryVars, balance, now>>

Tick ==
    /\ now < MaxTime
    /\ now' = now + 1
    /\ UNCHANGED <<registryVars, balance, schedules>>

ScheduleStep ==
    \/ \E id \in Ids, caller \in Address :
        \/ \E interval \in Intervals, first \in 0 .. MaxTime,
              runs \in RunCounts, amount \in Amounts :
            CreateSchedule(id, caller, interval, first, runs, amount)
        \/ \E signers \in SUBSET Address : ExecuteSchedule(id, caller, signers)
        \/ CancelSchedule(id, caller)
    \/ Tick

ScheduleNext == (PaymentsNext /\ UNCHANGED scheduleVars) \/ ScheduleStep

ScheduleSpec == ScheduleInit /\ [][ScheduleNext]_allScheduleVars

-----------------------------------------------------------------------------
ScheduleRecord ==
    [interval_secs: Intervals \ {0}, next_run_at: 0 .. U64Max,
     remaining_runs: 0 .. U32Max, amount: Amounts \ {0}, funder: Address,
     active: BOOLEAN]

(* Type invariant of the stored schedules: however many runs a late        *)
(* execution makes up for, remaining_runs stays a u32 and next_run_at a    *)
(* u64 (execute_schedule's `remaining_runs -= 1` would abort below 0).     *)
ScheduleTypeOK ==
    /\ now \in 0 .. MaxTime
    /\ schedules \in [Ids -> ScheduleRecord \cup {NoSchedule}]

Remaining(id) == IF Scheduled(id) THEN schedules[id].remaining_runs ELSE 0

\* The step executes runs of the schedule of group `id`.
Runs(id) == Scheduled(id) /\ Remaining(id)' < Remaining(id)

(* Executions never get ahead of the clock nor pay an interval twice: each *)
(* run executed has an interval of the schedule's grid to itself, the grid *)
(* does not drift with the keeper's delays, and the next run lies in the   *)
(* future (execute_schedule, MAX_CATCHUP).                                 *)
OneRunPerInterval ==
    [][\A id \in Ids : Runs(id) =>
        LET s == schedules[id]
            t == schedules'[id]
            moved == t.next_run_at - s.next_run_at
        IN  /\ s.next_run_at <= now /\ now < t.next_run_at
            /\ moved % s.interval_secs = 0
            /\ t.next_run_at - s.interval_secs <= now
            /\ (s.remaining_runs - t.remaining_runs) * s.interval_secs <= moved
      ]_allScheduleVars

Over(id) ==
    Scheduled(id) /\ (~schedules[id].active \/ schedules[id].remaining_runs = 0)

(* A schedule that was cancelled, or whose last run was executed, in a     *)
(* catch-up or not, never pays or moves again and nothing brings it back:  *)
(* create_schedule refuses while the entry is stored, and execute_schedule *)
(* asks for `active`, which it cleared with the last run.                  *)
InactiveForGood ==
    [][\A id \in Ids : Over(id) => schedules'[id] = schedules[id]]_allScheduleVars

(* An active schedule has runs left: one whose last run was executed, in   *)
(* a catch-up or not, has been marked inactive (execute_schedule), so no   *)
(* execution of zero runs can move its grid.                               *)
CompletedInactive ==
    \A id \in Ids :
        Scheduled(id) /\ schedules[id].active => schedules[id].remaining_runs > 0

(* What a schedule counts as run is what its funder paid: remaining_runs   *)
(* falls by one for each amount that left the funder, in the group's       *)
(* token, to members of that moment (a funder who is a member gets a share *)
(* back, so the members' gain is what is counted).                         *)
RunsArePaid ==
    [][\A id \in Ids : Runs(id) =>
        LET s == schedules[id]
            t == GroupOf(id).payment_token
            count == s.remaining_runs - schedules'[id].remaining_runs
            gain == [a \in Holders |-> balance'[t][a] - balance[t][a]]
            share == [a \in Holders |->
                        count * ShareOf(GroupOf(id).members, s.amount, a)]
        IN  /\ SumFunction(share) = count * s.amount
            /\ \A a \in Holders \ {s.funder} : gain[a] = share[a]
            /\ gain[s.funder] = share[s.funder] - count * s.amount
      ]_allScheduleVars

(* "This is a permissionless keeper call. Returns an error if not due or   *)
(* inactive" (interfaces/autoshare.rs, execute_schedule): a keeper who     *)
(* signs alone can execute whatever its funder could pay for.              *)
KeeperNeedsNoFunder ==
    \A id \in Ids, keeper \in Address :
        Scheduled(id) /\ ENABLED ExecuteSchedule(id, keeper, Address)
            => ENABLED ExecuteSchedule(id, keeper, {keeper})
=============================================================================
