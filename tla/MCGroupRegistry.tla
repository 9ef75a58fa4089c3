--------------------------- MODULE MCGroupRegistry ---------------------------
(* The member operations under every policy: member lists up  *)
(* to three entries, among them the ones validation must refuse.           *)
EXTENDS GroupRegistry

CONSTANTS a1, a2

M(a, p) == [address |-> a, percentage |-> p]

MCMemberLists ==
    {<<>>, <<M(a1, Total)>>, <<M(a2, 1), M(a1, Total - 1)>>,
     <<M(a1, 0), M(a2, Total)>>, <<M(a1, 1), M(a1, Total - 1)>>,
     <<M(a2, 1)>>}
=============================================================================
