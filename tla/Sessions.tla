------------------------------ MODULE Sessions ------------------------------
(***************************************************************************)
(* Wallet login and refresh-token sessions of the backend:                 *)
(* services/challenges.ts, sep10.ts and sessions.ts behind routes/auth.ts. *)
(* The requests of one server share a PostgreSQL database at READ          *)
(* COMMITTED: SELECT ... FOR UPDATE and UPDATE wait for the rows another   *)
(* transaction has locked, an UPDATE of several rows works on those that   *)
(* were committed when it started, and a deadlock aborts one of the        *)
(* transactions. Statements whose effect only the commit shows are one     *)
(* step with it. A request may present any token ever issued: answers get  *)
(* lost, and browsers have several tabs. A token stands for its session.   *)
(***************************************************************************)
EXTENDS Naturals, FiniteSets

CONSTANTS
    Wallet,        \* public keys
    Challenge,     \* SEP-10 challenges that may be asked for
    Request,       \* requests the server handles at the same time
    MaxSessions,   \* bound: sessions ever inserted
    None

ASSUME BoundAssumption == MaxSessions \in Nat
ASSUME NoneAssumption == None \notin Wallet \cup Challenge \cup Nat
ASSUME RequestsAssumption == IsFiniteSet(Request)

VARIABLES
    challenges,    \* auth_challenges: none, fresh, used, expired
    asker,         \* wallet_address of each challenge
    issued,        \* session ids handed out so far: 1 .. issued
    stored,        \* ids with a row in auth_sessions
    family,        \* family_id: here the id of the family's first session
    owner,         \* public_key
    proof,         \* the challenge the family's login consumed (history)
    rotated,       \* rows with rotated_at
    revoked,       \* rows with revoked_at
    expired,       \* rows past their expires_at
    alerts,        \* families with a refresh_token_reuse event
    pc,            \* where each request is
    subject,       \* its challenge or session
    targets,       \* rows its multi-row UPDATE works on
    held           \* rows its transaction has locked

challengeVars == <<challenges, asker>>
rowVars == <<issued, stored, family, owner, proof, rotated, revoked, expired>>
requestVars == <<pc, subject, targets, held>>
sessionVars == <<challengeVars, rowVars, alerts, requestVars>>

Sid == 1 .. MaxSessions

SessionsInit ==
    /\ challenges = [c \in Challenge |-> "none"]
    /\ asker = [c \in Challenge |-> None]
    /\ issued = 0
    /\ stored = {}
    /\ family = [s \in Sid |-> s]
    /\ owner = [s \in Sid |-> None]
    /\ proof = [s \in Sid |-> None]
    /\ rotated = {}
    /\ revoked = {}
    /\ expired = {}
    /\ alerts = {}
    /\ pc = [r \in Request |-> "idle"]
    /\ subject = [r \in Request |-> None]
    /\ targets = [r \in Request |-> {}]
    /\ held = [r \in Request |-> {}]

-----------------------------------------------------------------------------
Unlocked(s) == \A r \in Request : s \notin held[r]

\* isActive
Active(s) == s \in stored \ (rotated \cup revoked \cup expired)

Inserting(r) == pc[r] \in {"verifying", "consumed", "rotating"}

\* Bound: every insertion under way has an id left.
Room == issued + Cardinality({r \in Request : Inserting(r)}) < MaxSessions

Goto(r, where, what) ==
    /\ pc' = [pc EXCEPT ![r] = where]
    /\ subject' = [subject EXCEPT ![r] = what]

\* The answer is sent, the transaction over and its locks are gone.
Answered(r) ==
    /\ Goto(r, "idle", None)
    /\ targets' = [targets EXCEPT ![r] = {}]
    /\ held' = [held EXCEPT ![r] = {}]

\* insertSession
Insert(fam, key, login) ==
    LET s == issued + 1
    IN  /\ issued' = s
        /\ stored' = stored \cup {s}
        /\ family' = [family EXCEPT ![s] = IF fam = None THEN s ELSE fam]
        /\ owner' = [owner EXCEPT ![s] = key]
        /\ proof' = [proof EXCEPT ![s] = login]
        /\ UNCHANGED <<revoked, expired>>

-----------------------------------------------------------------------------
(* POST /auth/challenge and /auth/verify                                   *)

CreateChallenge(c, w) ==
    /\ challenges[c] = "none"
    /\ challenges' = [challenges EXCEPT ![c] = "fresh"]
    /\ asker' = [asker EXCEPT ![c] = w]
    /\ UNCHANGED <<rowVars, alerts, requestVars>>

\* find, and the checks of the handler on what it returns; the account's
\* signers are then loaded from Horizon.
VerifyFind(r, c) ==
    /\ pc[r] = "idle"
    /\ challenges[c] = "fresh"
    /\ Room
    /\ Goto(r, "verifying", c)
    /\ UNCHANGED <<challengeVars, rowVars, alerts, targets, held>>

\* Mutant: consume trusts what find returned.
ConsumableFound(c) == challenges[c] \in {"fresh", "used"}

Consumable(c) == challenges[c] = "fresh"

Consume(r) ==
    /\ pc[r] = "verifying"
    /\ LET c == subject[r]
       IN  \/ /\ Consumable(c)
              /\ challenges' = [challenges EXCEPT ![c] = "used"]
              /\ Goto(r, "consumed", c)
              /\ UNCHANGED <<targets, held>>
           \/ /\ ~Consumable(c)
              /\ Answered(r)
              /\ UNCHANGED challenges
    /\ UNCHANGED <<asker, rowVars, alerts>>

CreateSession(r) ==
    /\ pc[r] = "consumed"
    /\ Insert(None, asker[subject[r]], subject[r])
    /\ Answered(r)
    /\ UNCHANGED <<challengeVars, rotated, alerts>>

-----------------------------------------------------------------------------
(* POST /auth/refresh: rotate. An unknown token changes nothing.           *)

\* Mutant: the row is read without FOR UPDATE.
ReadRowUnlocked(r, s) == s \in stored

LockRow(r, s) == s \in stored /\ Unlocked(s)

\* A live token: its row stays locked until the commit.
RotateLive(r, s) ==
    /\ pc[r] = "idle"
    /\ LockRow(r, s)
    /\ s \notin rotated \cup revoked \cup expired
    /\ Room
    /\ Goto(r, "rotating", s)
    /\ held' = [held EXCEPT ![r] = {s}]
    /\ UNCHANGED <<challengeVars, rowVars, alerts, targets>>

RotateCommit(r) ==
    /\ pc[r] = "rotating"
    /\ LET s == subject[r]
       IN  /\ Insert(family[s], owner[s], proof[s])
           /\ rotated' = rotated \cup {s}
    /\ Answered(r)
    /\ UNCHANGED <<challengeVars, alerts>>

\* An expired token: revoked and committed.
RotateExpired(r, s) ==
    /\ pc[r] = "idle"
    /\ LockRow(r, s)
    /\ s \in expired \ (rotated \cup revoked)
    /\ revoked' = revoked \cup {s}
    /\ UNCHANGED <<challengeVars, issued, stored, family, owner, proof,
                   rotated, expired, alerts, requestVars>>

\* A token already rotated or revoked: the family is to be revoked. The
\* UPDATE takes its snapshot in a statement of its own.
RotateReused(r, s) ==
    /\ pc[r] = "idle"
    /\ LockRow(r, s)
    /\ s \in rotated \cup revoked
    /\ Goto(r, "reused", s)
    /\ held' = [held EXCEPT ![r] = {s}]
    /\ UNCHANGED <<challengeVars, rowVars, alerts, targets>>

RevokeFamily(r) ==
    /\ pc[r] = "reused"
    /\ Goto(r, "revoking", subject[r])
    /\ targets' = [targets EXCEPT
         ![r] = {s \in stored : family[s] = family[subject[r]]}]
    /\ UNCHANGED <<challengeVars, rowVars, alerts, held>>

-----------------------------------------------------------------------------
(* POST /auth/logout and /auth/logout-all                                  *)

Logout(s) ==
    /\ s \in stored
    /\ Unlocked(s)
    /\ revoked' = revoked \cup {s}
    /\ UNCHANGED <<challengeVars, issued, stored, family, owner, proof,
                   rotated, expired, alerts, requestVars>>

\* requireAuth: the access token names a session that is active.
Authenticated(w) == \E s \in stored : owner[s] = w /\ Active(s)

LogoutAll(r, w) ==
    /\ pc[r] = "idle"
    /\ Authenticated(w)
    /\ Goto(r, "revoking", None)
    /\ targets' = [targets EXCEPT
         ![r] = {s \in stored \ revoked : owner[s] = w}]
    /\ UNCHANGED <<challengeVars, rowVars, alerts, held>>

\* A multi-row UPDATE locks its rows one after the other.
Missing(r) == (targets[r] \cap stored) \ held[r]

LockTarget(r, s) ==
    /\ pc[r] = "revoking"
    /\ s \in Missing(r)
    /\ Unlocked(s)
    /\ held' = [held EXCEPT ![r] = @ \cup {s}]
    /\ UNCHANGED <<challengeVars, rowVars, alerts, pc, subject, targets>>

RevokeCommit(r) ==
    /\ pc[r] = "revoking"
    /\ Missing(r) = {}
    /\ revoked' = revoked \cup (targets[r] \cap stored)
    /\ alerts' = IF subject[r] = None THEN alerts
                 ELSE alerts \cup {family[subject[r]]}
    /\ Answered(r)
    /\ UNCHANGED <<challengeVars, issued, stored, family, owner, proof,
                   rotated, expired>>

-----------------------------------------------------------------------------
(* Failures, the database's deadlock detection, time and the cleanup       *)

\* Mutant: a failed transaction is not rolled back.
RollbackForgotten(r) == Goto(r, "idle", None) /\ UNCHANGED <<targets, held>>

Rollback(r) == Answered(r)

\* Horizon, the database or the server fails: the transaction's work is
\* lost, a consumed challenge is not given back.
Fail(r) ==
    /\ pc[r] # "idle"
    /\ Rollback(r)
    /\ UNCHANGED <<challengeVars, rowVars, alerts>>

\* e holds a row that d needs.
Waits(d, e) == pc[d] = "revoking" /\ d # e /\ Missing(d) \cap held[e] # {}

\* r is in a set of transactions each of which waits for another.
Deadlocked(r) ==
    \E knot \in SUBSET Request :
        /\ r \in knot
        /\ \A d \in knot : \E e \in knot : Waits(d, e)
        /\ \A d \in knot : \E e \in knot : Waits(e, d)

AbortDeadlock(r) ==
    /\ Deadlocked(r)
    /\ Answered(r)
    /\ UNCHANGED <<challengeVars, rowVars, alerts>>

\* The cleanup timer deletes an expired challenge later, which no request can
\* tell from an expired one.
ExpireChallenge(c) ==
    /\ challenges[c] = "fresh"
    /\ challenges' = [challenges EXCEPT ![c] = "expired"]
    /\ UNCHANGED <<asker, rowVars, alerts, requestVars>>

ExpireSession(s) ==
    /\ s \in stored \ expired
    /\ expired' = expired \cup {s}
    /\ UNCHANGED <<challengeVars, issued, stored, family, owner, proof,
                   rotated, revoked, alerts, requestVars>>

\* cleanup deletes the rows that expired 30 days ago: any time later.
Cleanup(s) ==
    /\ s \in stored \cap expired
    /\ Unlocked(s)
    /\ stored' = stored \ {s}
    /\ UNCHANGED <<challengeVars, issued, family, owner, proof, rotated,
                   revoked, expired, alerts, requestVars>>

-----------------------------------------------------------------------------
Progress(r) ==
    \/ Consume(r) \/ CreateSession(r) \/ RotateCommit(r) \/ RevokeFamily(r)
    \/ RevokeCommit(r) \/ AbortDeadlock(r)
    \/ \E s \in Sid : LockTarget(r, s)

Arrive(r) ==
    \/ \E c \in Challenge : VerifyFind(r, c)
    \/ \E s \in Sid : RotateLive(r, s) \/ RotateExpired(r, s) \/ RotateReused(r, s)
    \/ \E w \in Wallet : LogoutAll(r, w)

SessionsNext ==
    \/ \E r \in Request : Arrive(r) \/ Progress(r) \/ Fail(r)
    \/ \E s \in Sid : Logout(s) \/ ExpireSession(s) \/ Cleanup(s)
    \/ \E c \in Challenge :
        \/ ExpireChallenge(c)
        \/ \E w \in Wallet : CreateChallenge(c, w)

\* A request that is being handled goes on, and the database queues those who
\* wait for a row; nothing makes requests arrive, fail or time pass.
SessionsSpec ==
    /\ SessionsInit /\ [][SessionsNext]_sessionVars
    /\ \A r \in Request : WF_sessionVars(Progress(r))
    /\ \A r \in Request, s \in Sid : SF_sessionVars(LockTarget(r, s))

-----------------------------------------------------------------------------
SessionsTypeOK ==
    /\ challenges \in [Challenge -> {"none", "fresh", "used", "expired"}]
    /\ asker \in [Challenge -> Wallet \cup {None}]
    /\ issued \in 0 .. MaxSessions
    /\ stored \in SUBSET Sid
    /\ \A s \in stored : s <= issued
    /\ family \in [Sid -> Sid]
    /\ owner \in [Sid -> Wallet \cup {None}]
    /\ proof \in [Sid -> Challenge \cup {None}]
    /\ rotated \in SUBSET Sid
    /\ revoked \in SUBSET Sid
    /\ expired \in SUBSET Sid
    /\ pc \in [Request -> {"idle", "verifying", "consumed", "rotating",
                           "reused", "revoking"}]
    /\ subject \in [Request -> Challenge \cup Sid \cup {None}]
    /\ targets \in [Request -> SUBSET Sid]
    /\ held \in [Request -> SUBSET Sid]

(* A challenge logs in at most once, however many requests present it      *)
(* while the signers are being loaded (consume, routes/auth.ts:124).       *)
ChallengeLogsInOnce ==
    \A s, t \in 1 .. issued :
        family[s] = s /\ family[t] = t /\ proof[s] = proof[t] => s = t

(* However refreshes of its tokens interleave, a family has at most one    *)
(* token that can still be rotated (rotate's FOR UPDATE).                  *)
OneLiveToken ==
    \A s, t \in stored :
        /\ family[s] = family[t]
        /\ s \notin rotated \cup revoked
        /\ t \notin rotated \cup revoked
        => s = t

LiveOf(f) == {s \in stored \ (rotated \cup revoked) : family[s] = f}

\* A login opened the family, and none of its tokens can be rotated.
Ended(f) == f \in 1 .. issued /\ family[f] = f /\ LiveOf(f) = {}

(* Once the one live token of a login is logged out, expired and revoked,  *)
(* revoked by reuse detection or cleaned up, the login has no live token   *)
(* again, however often it was refreshed before and whatever refreshes     *)
(* were under way (rotate). Whether reuse detection always gets that far   *)
(* is RevocationsEndLogins.                                                *)
EndedForGood == [][\A f \in Sid : Ended(f) => Ended(f)']_sessionVars

(* The tables, seen as families of tokens: whatever the requests do to     *)
(* their rows, each step opens a family, replaces the one token of one, or *)
(* ends some for good (create, rotate, logout, logoutAll, cleanup).        *)
FamilyOpener ==
    [f \in Sid |-> IF f <= issued /\ family[f] = f THEN proof[f] ELSE None]

FamilyToken ==
    [f \in Sid |-> IF LiveOf(f) = {} THEN None ELSE CHOOSE s \in LiveOf(f) : TRUE]

Families == INSTANCE TokenFamilies
    WITH Family <- Sid, Token <- Sid, Login <- Challenge,
         opener <- FamilyOpener, token <- FamilyToken, given <- 1 .. issued

ImplementsFamilies == Families!Spec

(* Every request is answered: no deadlock of transactions and no lock of a *)
(* failed one keeps it waiting (rotate's catch and finally).               *)
RequestsAnswered == \A r \in Request : pc[r] # "idle" ~> pc[r] = "idle"

(* Claimed by the README of the backend: logout-all "revokes every session *)
(* for req.user.publicKey" and "Reusing a rotated refresh token revokes    *)
(* its entire family". When either is answered, no login it has found has  *)
(* a session left that could still be rotated.                             *)
RevocationsEndLogins ==
    [][\A r \in Request :
         RevokeCommit(r) =>
             \A s \in stored', t \in targets[r] :
                 family'[s] = family'[t] => s \in rotated' \cup revoked']_sessionVars
=============================================================================
