----------------------------- MODULE MCWorkers -----------------------------
(***************************************************************************)
(* Workers that come late. A keeper executes the schedules of one group    *)
(* late, early, several runs at once and not at all, the members edited    *)
(* and the funder's balance spent in between; the indexer is killed,       *)
(* restarted and overtaken by retention on short logs with pages smaller   *)
(* than a ledger. "focus" says which of the two a behaviour follows.       *)
(***************************************************************************)
EXTENDS MCSchedule, Indexer

VARIABLE focus

FirstWorkers ==
    /\ focus # "schedule" =>
        /\ FreshInit
        /\ balance = [t \in Token |-> [h \in Holders |-> IF h = a1 THEN Supply ELSE 0]]
    /\ focus # "indexer" => log = (CHOOSE l \in Logs : TRUE) /\ startLedger = 1

WorkersInit ==
    /\ focus \in {"schedule", "indexer"}
    /\ FirstWorkers
    /\ ScheduleInit /\ IndexerInit

WorkersNext ==
    \/ /\ focus = "schedule" /\ ScheduleNext
       /\ UNCHANGED <<indexerVars, focus>>
    \/ /\ focus = "indexer" /\ IndexerNext
       /\ UNCHANGED <<allScheduleVars, focus>>

workersVars == <<allScheduleVars, indexerVars, focus>>

WorkersSpec == WorkersInit /\ [][WorkersNext]_workersVars /\ IndexerFairness
=============================================================================
