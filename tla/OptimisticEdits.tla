--------------------------- MODULE OptimisticEdits ---------------------------
(***************************************************************************)
(* Editors of groups working at the same time: each reads a group (get in  *)
(* contract/src/lib.rs), shows it, and later submits a member operation    *)
(* with the group_version it read, whatever happened in between.           *)
(***************************************************************************)
EXTENDS GroupRegistry

CONSTANTS
    Editor,       \* sessions editing groups, of the creator or not
    MaxMissed     \* bound: writes to a group while an editor has it open

ASSUME EditorsAssumption == MaxMissed \in Nat

VARIABLES
    seen,      \* seen[editor]: the group open in it and the version it read
    missed     \* missed[editor]: writes to that group since it was read

editVars == <<registryVars, seen, missed>>

Closed == [version |-> 0]    \* no group has version 0
Open(e) == seen[e] # Closed

EditsInit ==
    /\ Init
    /\ seen = [e \in Editor |-> Closed]
    /\ missed = [e \in Editor |-> 0]

\* get answers with what the stored record decodes to.
Read(e, id) ==
    /\ Stored(id)
    /\ seen' = [seen EXCEPT ![e] = [id |-> id,
                            version |-> GroupOf(id).group_version]]
    /\ missed' = [missed EXCEPT ![e] = 0]
    /\ UNCHANGED registryVars

\* The operation is accepted: the editor closes, the others fall behind.
Save(e) ==
    /\ Open(e)
    /\ Edit(seen[e].id, seen[e].version)
    /\ seen' = [seen EXCEPT ![e] = Closed]
    /\ missed' = [f \in Editor |->
            IF f = e THEN 0
            ELSE IF Open(f) /\ seen[f].id = seen[e].id THEN missed[f] + 1
            ELSE missed[f]]
    /\ \A f \in Editor : missed'[f] <= MaxMissed

EditsOther ==
    /\ \/ Administration
       \/ \E id \in Ids, c \in Address, t \in Token : Create(id, c, t)
    /\ UNCHANGED <<seen, missed>>

EditsNext ==
    \/ \E e \in Editor, id \in Ids : Read(e, id)
    \/ \E e \in Editor : Save(e)
    \/ EditsOther

EditsSpec == EditsInit /\ [][EditsNext]_editVars

\* The same where the administrator follows the runbook and sees it through.
EditsRunbookSpec ==
    EditsInit /\ [][EditsNext /\ Runbook]_editVars /\ Fairness

-----------------------------------------------------------------------------
(* Type invariant of the editors: what one has open is a stored group's    *)
(* identifier and a version get can answer with, never the 0 of Closed.    *)
EditsTypeOK ==
    /\ seen \in [Editor -> {Closed} \cup
                    [id: Ids, version: 1 .. U32Max]]
    /\ missed \in [Editor -> Nat]

\* The group open in an editor has the version it read, moved on by the
\* writes it missed.
Tracks(e) ==
    LET v == seen[e].version + missed[e]
    IN  /\ Stored(seen[e].id)
        /\ missed[e] < U32Max =>
            GroupOf(seen[e].id).group_version
                = IF v <= U32Max THEN v ELSE v - U32Max

(* A group's version counts its writes and nothing else: no migration,     *)
(* edit of another group or creation moves it, and it wraps from U32Max to *)
(* 1 (checked_add(1).unwrap_or(1)).                                        *)
VersionCountsWrites == \A e \in Editor : Open(e) => Tracks(e)

(* No editor overwrites what it has not seen: an operation is accepted     *)
(* only if nobody wrote the group since the editor read it, or exactly     *)
(* when the counter came full circle meanwhile (StaleGroupVersion: "The    *)
(* group has been modified since you last read it").                       *)
LostUpdateOnlyOnWrap ==
    [][\A e \in Editor : Open(e) /\ groups'[seen[e].id] # groups[seen[e].id]
            /\ seen'[e] = Closed => missed[e] = 0 \/ missed[e] >= U32Max]_editVars
=============================================================================
