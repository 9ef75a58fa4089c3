---- MODULE MCApp ----
(***************************************************************************)
(* Small instances of the parts that need no other: the contract's split   *)
(* arithmetic and member operations, and the application around the        *)
(* contract, the indexer and the sessions.  They share no state, so a      *)
(* behaviour follows one of them: "focus" says which, and the state space  *)
(* is the sum of the parts' and not their product.                         *)
(***************************************************************************)
EXTENDS MCGroupRegistry, SplitCalls, Allocation, Reconcile, Horizon, Api,
        GroupWizard, Submission, WalletClient, TLC

VARIABLE focus

Parts == {"splits", "members", "allocation", "reconcile", "horizon",
          "profiles", "groups", "history", "wizard", "submission", "wallet"}

Some(S) == CHOOSE x \in S : TRUE

\* A part outside the focus starts in one of its initial states.
FirstStates ==
  /\ focus # "members" => FreshInit
  /\ focus # "splits" => splitOf = Some(SplitLists)
  /\ focus \notin {"groups", "history"} =>
       group = Row(Some(User), {}, "chain")
  /\ focus # "wallet" =>
       extension = [account |-> Some(Account), expected |-> TRUE]

AppInit ==
  /\ focus \in Parts
  /\ Init /\ InitSplits /\ InitAllocation /\ ReconcileInit /\ HorizonInit
  /\ ApiInit /\ WizardInit /\ SubmissionInit /\ WalletInit
  /\ FirstStates

\* The variables of the parts that do not move.
Unfocused(part) ==
  /\ UNCHANGED focus
  /\ part # "members" => UNCHANGED registryVars
  /\ part # "splits" => UNCHANGED splitVars
  /\ part # "allocation" => UNCHANGED form
  /\ part # "reconcile" => UNCHANGED reconcileVars
  /\ part # "horizon" => UNCHANGED horizonVars
  /\ part # "api" => UNCHANGED apiVars
  /\ part # "wizard" => UNCHANGED wizardVars
  /\ part # "submission" => UNCHANGED submissionVars
  /\ part # "wallet" => UNCHANGED walletVars

AppNext ==
  \/ focus = "members" /\ Next /\ Unfocused("members")
  \/ focus = "splits" /\ NextSplits /\ Unfocused("splits")
  \/ focus = "allocation" /\ NextAllocation /\ Unfocused("allocation")
  \/ focus = "reconcile" /\ ReconcileNext /\ Unfocused("reconcile")
  \/ focus = "horizon" /\ HorizonNext /\ Unfocused("horizon")
  \/ focus = "profiles" /\ ProfilesNext /\ Unfocused("api")
  \/ focus = "groups" /\ GroupsNext /\ Unfocused("api")
  \/ focus = "history" /\ HistoryNext /\ Unfocused("api")
  \/ focus = "wizard" /\ WizardNext /\ Unfocused("wizard")
  \/ focus = "submission" /\ SubmissionNext /\ Unfocused("submission")
  \/ focus = "wallet" /\ WalletNext /\ Unfocused("wallet")

appVars == <<registryVars, splitVars, form, reconcileVars, horizonVars,
             apiVars, wizardVars, submissionVars, walletVars, focus>>

AppSpec == AppInit /\ [][AppNext]_appVars

\* Bounds of the reconciliation: two lists of a group, one group archived or
\* edited, two changes of the chain in all.
ReconcileBound ==
  /\ \A g \in Group : Cardinality(lists[g]) <= 2
  /\ Cardinality(archived) + Cardinality(retokened) <= 1
  /\ SumFunction(onchain) <= 2

\* The groups, and the writers, of a reconciliation are alike.
AppSymmetry == Permutations(Group) \cup Permutations(Writer)
====
