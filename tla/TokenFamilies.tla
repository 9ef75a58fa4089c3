--------------------------- MODULE TokenFamilies ---------------------------
(***************************************************************************)
(* What the sessions promise a wallet: a challenge opens at most one       *)
(* family; at any time a family has one refresh token or, once ended, none *)
(* for good; a refresh replaces that one by a token nobody had before.     *)
(***************************************************************************)
CONSTANTS Family, Token, Login, None

VARIABLES
    opener,    \* the login that opened each family, None before
    token,     \* the token each family can go on with, or None
    given      \* every token handed out so far

familyVars == <<opener, token, given>>

Init ==
    /\ opener = [f \in Family |-> None]
    /\ token = [f \in Family |-> None]
    /\ given = {}

Hand(f, t) ==
    /\ t \notin given
    /\ given' = given \cup {t}
    /\ token' = [token EXCEPT ![f] = t]

Open(f, login, t) ==
    /\ opener[f] = None
    /\ \A g \in Family : opener[g] # login
    /\ opener' = [opener EXCEPT ![f] = login]
    /\ Hand(f, t)

Refresh(f, t) ==
    /\ token[f] # None
    /\ Hand(f, t)
    /\ UNCHANGED opener

\* Logout, reuse or age ends the families in F.
End(F) ==
    /\ token' = [f \in Family |-> IF f \in F THEN None ELSE token[f]]
    /\ UNCHANGED <<opener, given>>

Next ==
    \/ \E f \in Family, t \in Token : Refresh(f, t)
    \/ \E f \in Family, t \in Token, login \in Login : Open(f, login, t)
    \/ \E F \in SUBSET Family : End(F)

Spec == Init /\ [][Next]_familyVars
=============================================================================
