----------------------------- MODULE MCSchedule -----------------------------
(* Schedules of one group executed late, early, several runs at once and   *)
(* not at all, with the members edited and the funder's balance spent in   *)
(* between.                                                                *)
EXTENDS Schedule

CONSTANTS a1, a2

M(a, p) == [address |-> a, percentage |-> p]

MCMemberLists == {<<M(a1, Total)>>, <<M(a2, 1), M(a1, Total - 1)>>}

\* Handovers of the administrator are left to the registry's own runs.
NoHandover == pendingAdmin = NoAddress
=============================================================================
