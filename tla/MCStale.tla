------------------------------ MODULE MCStale ------------------------------
(***************************************************************************)
(* Clients that come with something stale. Editors of groups old and new   *)
(* submit with the version they read, across migrations to two later       *)
(* releases and long enough for the version counter to wrap; browsers      *)
(* present refresh tokens rotated, revoked or expired meanwhile. The two   *)
(* share no state: "focus" says which of them a behaviour follows.         *)
(***************************************************************************)
EXTENDS OptimisticEdits, Sessions

CONSTANTS a1

VARIABLE focus

MCMemberLists == {<<[address |-> a1, percentage |-> Total]>>}

StaleInit ==
    /\ focus \in {"editing", "sessions"}
    /\ EditsInit
    /\ focus # "editing" => FreshInit
    /\ SessionsInit

StaleNext ==
    \/ /\ focus = "editing" /\ EditsNext /\ Runbook
       /\ UNCHANGED <<sessionVars, focus>>
    \/ /\ focus = "sessions" /\ SessionsNext
       /\ UNCHANGED <<editVars, focus>>

staleVars == <<editVars, sessionVars, focus>>

\* The fairness of each part.
StaleSpec ==
    /\ StaleInit /\ [][StaleNext]_staleVars
    /\ WF_registryVars(/\ focus = "editing"
                       /\ \E c \in Address, limit \in BatchLimits \ {0} : Migrate(c, limit))
    /\ \A r \in Request : WF_sessionVars(focus = "sessions" /\ Progress(r))
    /\ \A r \in Request, s \in Sid :
        SF_sessionVars(focus = "sessions" /\ LockTarget(r, s))
=============================================================================
