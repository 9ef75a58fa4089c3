-------------------------- MODULE Sessions_proofs --------------------------
(***************************************************************************)
(* For any number of wallets, challenges, requests and sessions: a         *)
(* challenge logs in once, a login has one live token, and a family that   *)
(* was ended stays so, which together make the tables an implementation of *)
(* TokenFamilies. What the row locks buy is that a rotation's token is     *)
(* still live at its commit; that among requests waiting for each other    *)
(* one can always go on is the theorem NobodyWaitsForGood.                 *)
(***************************************************************************)
EXTENDS Sessions, FiniteSetTheorems, TLAPS

Inserters == {r \in Request : Inserting(r)}

\* Every insertion under way has an id left.
RoomKept == issued + Cardinality(Inserters) <= MaxSessions

\* A family is named by its first session.
FamiliesSound == \A s \in 1 .. issued : family[s] \in 1 .. s

\* No row is locked twice, and one that is being rotated stays live.
LocksSound ==
    /\ \A r, q \in Request : r # q => held[r] \cap held[q] = {}
    /\ \A r \in Request : pc[r] = "rotating" =>
        /\ subject[r] \in held[r]
        /\ subject[r] \in stored \ (rotated \cup revoked)

\* A challenge that somebody consumed is used, by nobody else.
ConsumedSound ==
    /\ \A r \in Request : pc[r] \in {"verifying", "consumed"} =>
        subject[r] \in Challenge
    /\ \A r \in Request : pc[r] = "consumed" =>
        /\ challenges[subject[r]] = "used"
        /\ \A s \in 1 .. issued : proof[s] # subject[r]
    /\ \A r, q \in Request :
        pc[r] = "consumed" /\ pc[q] = "consumed" /\ subject[r] = subject[q] => r = q

\* A session was opened by a challenge that is used.
ProofsSound ==
    \A s \in 1 .. issued : proof[s] \in Challenge /\ challenges[proof[s]] = "used"

\* No row is marked before it is inserted.
MarksSound == rotated \cup revoked \subseteq 1 .. issued

\* Whoever has locked a row is being handled.
HoldersBusy == \A r \in Request : held[r] # {} => pc[r] # "idle"

RowsInv == SessionsTypeOK /\ RoomKept /\ FamiliesSound
LocksInv == LocksSound /\ OneLiveToken
LoginInv == ConsumedSound /\ ProofsSound /\ ChallengeLogsInOnce
BusyInv == MarksSound /\ HoldersBusy
SessionsInv == RowsInv /\ LocksInv /\ LoginInv /\ BusyInv

-----------------------------------------------------------------------------
(* Counting the insertions under way.                                      *)

LEMMA InsertersCounted ==
    IsFiniteSet(Inserters) /\ Cardinality(Inserters) \in Nat
  <1>1. Inserters \in SUBSET Request
    BY DEF Inserters
  <1> QED
    BY <1>1, RequestsAssumption, FS_Subset, FS_CardinalityType

(* One more request inserts only if there was room.                        *)
LEMMA InserterArrives ==
    ASSUME RowsInv, NEW r \in Request, pc[r] = "idle", Room, issued' = issued,
           NEW where \in {"verifying", "rotating"}, NEW what, Goto(r, where, what)
    PROVE  RoomKept'
  <1>1. Inserters' = Inserters \cup {r} /\ r \notin Inserters
    BY DEF Inserters, Inserting, Goto, RowsInv, SessionsTypeOK
  <1>2. Cardinality(Inserters \cup {r}) = Cardinality(Inserters) + 1
    BY <1>1, InsertersCounted, FS_AddElement
  <1>3. issued + Cardinality(Inserters) < MaxSessions
    BY DEF Room, Inserters
  <1> DEFINE c == Cardinality(Inserters)
  <1>4. c \in Nat /\ issued \in Nat /\ MaxSessions \in Nat
    BY InsertersCounted, BoundAssumption DEF RowsInv, SessionsTypeOK
  <1>5. c + issued < MaxSessions
    BY <1>3, <1>4
  <1> DEFINE cc == Cardinality(Inserters')
  <1>6. cc = c + 1
    BY <1>1, <1>2
  <1> HIDE DEF c, cc
  <1>7. issued' + cc <= MaxSessions
    BY <1>4, <1>5, <1>6
  <1> QED
    BY <1>7 DEF RoomKept, cc

(* A request that was to insert has done so, or never will.                *)
LEMMA InserterLeaves ==
    ASSUME RowsInv, NEW r \in Request, Inserters' = Inserters \ {r},
           issued' = issued \/ (r \in Inserters /\ issued' = issued + 1)
    PROVE  RoomKept'
  <1> DEFINE c == Cardinality(Inserters)
             d == Cardinality(Inserters \ {r})
  <1>1. d = IF r \in Inserters THEN c - 1 ELSE c
    BY InsertersCounted, FS_RemoveElement
  <1>2. c \in Nat /\ issued \in Nat /\ MaxSessions \in Nat
    BY InsertersCounted, BoundAssumption DEF RowsInv, SessionsTypeOK
  <1>3. issued + c <= MaxSessions
    BY DEF RowsInv, RoomKept
  <1> DEFINE dd == Cardinality(Inserters')
             i  == issued'
  <1>4. dd = d
    OBVIOUS
  <1>5. i = issued \/ (r \in Inserters /\ i = issued + 1)
    OBVIOUS
  <1> HIDE DEF c, d, dd, i
  <1>6. i + dd <= MaxSessions
    BY <1>1, <1>2, <1>3, <1>4, <1>5
  <1> QED
    BY <1>6 DEF RoomKept, i, dd

LEMMA InsertersStay ==
    ASSUME RowsInv, Inserters' = Inserters, issued' = issued
    PROVE  RoomKept'
  BY DEF RowsInv, RoomKept

LEMMA RoomForOneMore ==
    ASSUME RowsInv, NEW r \in Request, Inserting(r)
    PROVE  issued + 1 \in Sid
  <1>1. r \in Inserters
    BY DEF Inserters
  <1> DEFINE c == Cardinality(Inserters)
  <1>2. c \in Nat /\ c # 0
    BY <1>1, InsertersCounted, FS_EmptySet
  <1>3. issued \in Nat /\ MaxSessions \in Nat /\ issued + c <= MaxSessions
    BY BoundAssumption DEF RowsInv, SessionsTypeOK, RoomKept
  <1> HIDE DEF c
  <1> QED
    BY <1>2, <1>3 DEF Sid

(* The request of an answer leaves the insertions, the others do not move. *)
LEMMA AnswerLeaves ==
    ASSUME RowsInv, NEW r \in Request, Answered(r)
    PROVE  Inserters' = Inserters \ {r}
  BY DEF Inserters, Inserting, Answered, Goto, RowsInv, SessionsTypeOK

-----------------------------------------------------------------------------
(* Rows and requests are well formed, every insertion finds an id, and a   *)
(* family is named by its first session.                                   *)

LEMMA RowsInit == SessionsInit => RowsInv
  <1> SUFFICES ASSUME SessionsInit PROVE RowsInv
    OBVIOUS
  <1>1. SessionsTypeOK
    BY BoundAssumption DEF SessionsInit, SessionsTypeOK, Sid
  <1>2. Inserters = {}
    BY DEF Inserters, Inserting, SessionsInit
  <1>3. RoomKept
    BY <1>2, FS_EmptySet, BoundAssumption DEF RoomKept, SessionsInit
  <1> QED
    BY <1>1, <1>3 DEF RowsInv, FamiliesSound, SessionsInit

(* A row is inserted with the next id, into its own family or an earlier.  *)
LEMMA InsertRows ==
    ASSUME RowsInv, NEW r \in Request, Inserting(r),
           NEW fam \in (1 .. issued) \cup {None}, NEW key \in Wallet \cup {None},
           NEW login \in Challenge \cup {None}, Insert(fam, key, login)
    PROVE  /\ issued' \in 0 .. MaxSessions
           /\ stored' \in SUBSET Sid
           /\ \A s \in stored' : s <= issued'
           /\ family' \in [Sid -> Sid]
           /\ owner' \in [Sid -> Wallet \cup {None}]
           /\ proof' \in [Sid -> Challenge \cup {None}]
           /\ FamiliesSound'
  <1>1. issued + 1 \in Sid /\ issued \in Nat /\ MaxSessions \in Nat
    BY RoomForOneMore, BoundAssumption DEF RowsInv, SessionsTypeOK
  <1>2. issued' = issued + 1 /\ stored' = stored \cup {issued + 1}
    BY DEF Insert
  <1>3. /\ owner' \in [Sid -> Wallet \cup {None}]
        /\ proof' \in [Sid -> Challenge \cup {None}]
    BY <1>1 DEF Insert, RowsInv, SessionsTypeOK
  <1> DEFINE f == IF fam = None THEN issued + 1 ELSE fam
  <1>4. f \in 1 .. issued + 1 /\ f \in Sid
    BY <1>1, NoneAssumption DEF Sid
  <1>5. family' = [family EXCEPT ![issued + 1] = f]
    BY DEF Insert
  <1> HIDE DEF f
  <1>6. family' \in [Sid -> Sid]
    BY <1>1, <1>4, <1>5 DEF RowsInv, SessionsTypeOK
  <1>7. FamiliesSound'
    <2> SUFFICES ASSUME NEW s \in 1 .. issued + 1 PROVE family'[s] \in 1 .. s
      BY <1>2 DEF FamiliesSound
    <2>1. CASE s = issued + 1
      BY <2>1, <1>1, <1>4, <1>5 DEF RowsInv, SessionsTypeOK
    <2>2. CASE s # issued + 1
      <3>1. s \in 1 .. issued /\ s \in Sid
        BY <2>2, <1>1 DEF Sid
      <3> QED
        BY <3>1, <2>2, <1>5 DEF RowsInv, SessionsTypeOK, FamiliesSound
    <2> QED
      BY <2>1, <2>2
  <1>8. \A s \in stored' : s <= issued'
    BY <1>1, <1>2 DEF RowsInv, SessionsTypeOK, Sid
  <1> QED
    BY <1>1, <1>2, <1>3, <1>6, <1>7, <1>8 DEF Sid, RowsInv, SessionsTypeOK

LEMMA RowsStep == SessionsInv /\ [SessionsNext]_sessionVars => RowsInv'
  <1> SUFFICES ASSUME SessionsInv, [SessionsNext]_sessionVars PROVE RowsInv'
    OBVIOUS
  <1> USE DEF RowsInv
  <1>i. SessionsTypeOK /\ RoomKept /\ FamiliesSound /\ RowsInv
    BY DEF SessionsInv
  <1>1. ASSUME NEW c \in Challenge, NEW w \in Wallet, CreateChallenge(c, w)
        PROVE  RowsInv'
    <2>1. SessionsTypeOK' /\ FamiliesSound'
      BY <1>i, <1>1 DEF CreateChallenge, SessionsTypeOK, FamiliesSound, rowVars, requestVars
    <2>2. Inserters' = Inserters /\ issued' = issued
      BY <1>1 DEF CreateChallenge, Inserters, Inserting, rowVars, requestVars
    <2> QED
      BY <1>i, <2>1, <2>2, InsertersStay
  <1>2. ASSUME NEW r \in Request, NEW c \in Challenge, VerifyFind(r, c)
        PROVE  RowsInv'
    <2>1. SessionsTypeOK' /\ FamiliesSound'
      BY <1>i, <1>2 DEF VerifyFind, Goto, SessionsTypeOK, FamiliesSound, rowVars, challengeVars
    <2>2. RoomKept'
      BY <1>i, <1>2, InserterArrives DEF VerifyFind, rowVars
    <2> QED
      BY <2>1, <2>2
  <1>3. ASSUME NEW r \in Request, Consume(r)
        PROVE  RowsInv'
    <2>1. SessionsTypeOK' /\ FamiliesSound' /\ issued' = issued
      BY <1>i, <1>3 DEF Consume, Goto, Answered, SessionsTypeOK, FamiliesSound, rowVars
    <2>2. Inserters' = Inserters \/ Inserters' = Inserters \ {r}
      <3>1. CASE Answered(r)
        BY <3>1, <1>i, AnswerLeaves
      <3>2. CASE pc' = [pc EXCEPT ![r] = "consumed"]
        BY <3>2, <1>i, <1>3 DEF Consume, Inserters, Inserting, SessionsTypeOK
      <3> QED
        BY <3>1, <3>2, <1>3 DEF Consume, Goto
    <2> QED
      BY <1>i, <2>1, <2>2, InsertersStay, InserterLeaves
  <1>4. ASSUME NEW r \in Request, CreateSession(r)
        PROVE  RowsInv'
    <2>1. Inserting(r) /\ subject[r] \in Challenge
      BY <1>4 DEF CreateSession, Inserting, SessionsInv, LoginInv, ConsumedSound
    <2>2. asker[subject[r]] \in Wallet \cup {None}
      BY <1>i, <2>1 DEF SessionsTypeOK
    <2>3. Insert(None, asker[subject[r]], subject[r])
      BY <1>4 DEF CreateSession
    <2>4. /\ issued' \in 0 .. MaxSessions
          /\ stored' \in SUBSET Sid
          /\ \A s \in stored' : s <= issued'
          /\ family' \in [Sid -> Sid]
          /\ owner' \in [Sid -> Wallet \cup {None}]
          /\ proof' \in [Sid -> Challenge \cup {None}]
          /\ FamiliesSound'
      BY <1>i, <2>1, <2>2, <2>3, InsertRows
    <2>5. SessionsTypeOK'
      BY <1>i, <1>4, <2>4
      DEF CreateSession, Insert, Answered, Goto, SessionsTypeOK, challengeVars
    <2>6. Inserters' = Inserters \ {r}
      BY <1>i, <1>4, AnswerLeaves DEF CreateSession
    <2>7. r \in Inserters /\ issued' = issued + 1
      BY <2>1, <2>3 DEF Inserters, Insert
    <2> QED
      BY <1>i, <2>4, <2>5, <2>6, <2>7, InserterLeaves
  <1>5. ASSUME NEW r \in Request, NEW s \in Sid, RotateLive(r, s)
        PROVE  RowsInv'
    <2>1. SessionsTypeOK' /\ FamiliesSound'
      BY <1>i, <1>5 DEF RotateLive, Goto, SessionsTypeOK, FamiliesSound, rowVars, challengeVars
    <2>2. RoomKept'
      BY <1>i, <1>5, InserterArrives DEF RotateLive, rowVars
    <2> QED
      BY <2>1, <2>2
  <1>6. ASSUME NEW r \in Request, RotateCommit(r)
        PROVE  RowsInv'
    <2> DEFINE s == subject[r]
    <2>1. Inserting(r) /\ s \in stored /\ s \in Sid /\ s \in 1 .. issued
      BY <1>i, <1>6
      DEF RotateCommit, Inserting, SessionsInv, LocksInv, LocksSound, SessionsTypeOK, Sid
    <2>2. /\ family[s] \in (1 .. issued) \cup {None}
          /\ owner[s] \in Wallet \cup {None}
          /\ proof[s] \in Challenge \cup {None}
      BY <1>i, <2>1 DEF SessionsTypeOK, FamiliesSound, Sid
    <2>3. Insert(family[s], owner[s], proof[s])
      BY <1>6 DEF RotateCommit
    <2>4. /\ issued' \in 0 .. MaxSessions
          /\ stored' \in SUBSET Sid
          /\ \A t \in stored' : t <= issued'
          /\ family' \in [Sid -> Sid]
          /\ owner' \in [Sid -> Wallet \cup {None}]
          /\ proof' \in [Sid -> Challenge \cup {None}]
          /\ FamiliesSound'
      <3> HIDE DEF s
      <3> QED
        BY <1>i, <2>1, <2>2, <2>3, InsertRows
    <2>5. SessionsTypeOK'
      BY <1>i, <1>6, <2>1, <2>4
      DEF RotateCommit, Insert, Answered, Goto, SessionsTypeOK, challengeVars
    <2>6. Inserters' = Inserters \ {r}
      BY <1>i, <1>6, AnswerLeaves DEF RotateCommit
    <2>7. r \in Inserters /\ issued' = issued + 1
      BY <2>1, <2>3 DEF Inserters, Insert
    <2> QED
      BY <1>i, <2>4, <2>5, <2>6, <2>7, InserterLeaves
  <1>7. ASSUME NEW r \in Request, NEW s \in Sid, RotateExpired(r, s)
        PROVE  RowsInv'
    <2>1. SessionsTypeOK' /\ FamiliesSound'
      BY <1>i, <1>7 DEF RotateExpired, SessionsTypeOK, FamiliesSound, requestVars, challengeVars
    <2>2. Inserters' = Inserters /\ issued' = issued
      BY <1>7 DEF RotateExpired, Inserters, Inserting, requestVars
    <2> QED
      BY <1>i, <2>1, <2>2, InsertersStay
  <1>8. ASSUME NEW r \in Request, NEW s \in Sid, RotateReused(r, s)
        PROVE  RowsInv'
    <2>1. SessionsTypeOK' /\ FamiliesSound'
      BY <1>i, <1>8 DEF RotateReused, Goto, SessionsTypeOK, FamiliesSound, rowVars, challengeVars
    <2>2. Inserters' = Inserters /\ issued' = issued
      BY <1>i, <1>8 DEF RotateReused, Goto, Inserters, Inserting, rowVars, SessionsTypeOK
    <2> QED
      BY <1>i, <2>1, <2>2, InsertersStay
  <1>9. ASSUME NEW r \in Request, RevokeFamily(r)
        PROVE  RowsInv'
    <2>1. SessionsTypeOK' /\ FamiliesSound'
      BY <1>i, <1>9 DEF RevokeFamily, Goto, SessionsTypeOK, FamiliesSound, rowVars, challengeVars
    <2>2. Inserters' = Inserters /\ issued' = issued
      BY <1>i, <1>9 DEF RevokeFamily, Goto, Inserters, Inserting, rowVars, SessionsTypeOK
    <2> QED
      BY <1>i, <2>1, <2>2, InsertersStay
  <1>10. ASSUME NEW s \in Sid, Logout(s)
         PROVE  RowsInv'
    <2>1. SessionsTypeOK' /\ FamiliesSound'
      BY <1>i, <1>10 DEF Logout, SessionsTypeOK, FamiliesSound, requestVars, challengeVars
    <2>2. Inserters' = Inserters /\ issued' = issued
      BY <1>10 DEF Logout, Inserters, Inserting, requestVars
    <2> QED
      BY <1>i, <2>1, <2>2, InsertersStay
  <1>11. ASSUME NEW r \in Request, NEW w \in Wallet, LogoutAll(r, w)
         PROVE  RowsInv'
    <2>1. SessionsTypeOK' /\ FamiliesSound'
      BY <1>i, <1>11 DEF LogoutAll, Goto, SessionsTypeOK, FamiliesSound, rowVars, challengeVars
    <2>2. Inserters' = Inserters /\ issued' = issued
      BY <1>i, <1>11 DEF LogoutAll, Goto, Inserters, Inserting, rowVars, SessionsTypeOK
    <2> QED
      BY <1>i, <2>1, <2>2, InsertersStay
  <1>12. ASSUME NEW r \in Request, NEW s \in Sid, LockTarget(r, s)
         PROVE  RowsInv'
    <2>1. SessionsTypeOK' /\ FamiliesSound'
      BY <1>i, <1>12 DEF LockTarget, SessionsTypeOK, FamiliesSound, rowVars, challengeVars
    <2>2. Inserters' = Inserters /\ issued' = issued
      BY <1>12 DEF LockTarget, Inserters, Inserting, rowVars
    <2> QED
      BY <1>i, <2>1, <2>2, InsertersStay
  <1>13. ASSUME NEW r \in Request, RevokeCommit(r)
         PROVE  RowsInv'
    <2>1. SessionsTypeOK' /\ FamiliesSound' /\ issued' = issued
      BY <1>i, <1>13 DEF RevokeCommit, Answered, Goto, SessionsTypeOK, FamiliesSound, challengeVars
    <2>2. Inserters' = Inserters \ {r}
      BY <1>i, <1>13, AnswerLeaves DEF RevokeCommit
    <2> QED
      BY <1>i, <2>1, <2>2, InserterLeaves
  <1>14. ASSUME NEW r \in Request, Answered(r), UNCHANGED <<challengeVars, rowVars, alerts>>
         PROVE  RowsInv'
    <2>1. SessionsTypeOK' /\ FamiliesSound' /\ issued' = issued
      BY <1>i, <1>14 DEF Answered, Goto, SessionsTypeOK, FamiliesSound, challengeVars, rowVars
    <2>2. Inserters' = Inserters \ {r}
      BY <1>i, <1>14, AnswerLeaves
    <2> QED
      BY <1>i, <2>1, <2>2, InserterLeaves
  <1>15. ASSUME NEW c \in Challenge, ExpireChallenge(c)
         PROVE  RowsInv'
    <2>1. SessionsTypeOK' /\ FamiliesSound'
      BY <1>i, <1>15 DEF ExpireChallenge, SessionsTypeOK, FamiliesSound, rowVars, requestVars
    <2>2. Inserters' = Inserters /\ issued' = issued
      BY <1>15 DEF ExpireChallenge, Inserters, Inserting, rowVars, requestVars
    <2> QED
      BY <1>i, <2>1, <2>2, InsertersStay
  <1>16. ASSUME NEW s \in Sid, ExpireSession(s) \/ Cleanup(s)
         PROVE  RowsInv'
    <2>1. SessionsTypeOK' /\ FamiliesSound'
      BY <1>i, <1>16
      DEF ExpireSession, Cleanup, SessionsTypeOK, FamiliesSound, requestVars, challengeVars
    <2>2. Inserters' = Inserters /\ issued' = issued
      BY <1>16 DEF ExpireSession, Cleanup, Inserters, Inserting, requestVars
    <2> QED
      BY <1>i, <2>1, <2>2, InsertersStay
  <1>17. CASE UNCHANGED sessionVars
    <2>1. SessionsTypeOK' /\ FamiliesSound'
      BY <1>i, <1>17
      DEF sessionVars, challengeVars, rowVars, requestVars, SessionsTypeOK, FamiliesSound
    <2>2. Inserters' = Inserters /\ issued' = issued
      BY <1>17 DEF sessionVars, rowVars, requestVars, Inserters, Inserting
    <2> QED
      BY <1>i, <2>1, <2>2, InsertersStay
  <1> HIDE DEF RowsInv
  <1>18. CASE SessionsNext
    BY <1>18, <1>1, <1>2, <1>3, <1>4, <1>5, <1>6, <1>7, <1>8, <1>9, <1>10, <1>11,
       <1>12, <1>13, <1>14, <1>15, <1>16
    DEF SessionsNext, Arrive, Progress, Fail, Rollback, AbortDeadlock
  <1> QED
    BY <1>17, <1>18

-----------------------------------------------------------------------------
(* What the row locks keep: the token of a rotation stays live until its   *)
(* commit, which leaves the family one live token.                         *)

Live == stored \ (rotated \cup revoked)

LEMMA LocksInit == SessionsInit => LocksInv
  BY DEF SessionsInit, LocksInv, LocksSound, OneLiveToken

LEMMA NoNewLiveToken ==
    ASSUME OneLiveToken, Live' \subseteq Live, family' = family
    PROVE  OneLiveToken'
  BY DEF OneLiveToken, Live

(* A transaction that ends gives its rows up; the others keep theirs.      *)
LEMMA AnswerUnlocks ==
    ASSUME SessionsTypeOK, NEW r \in Request, Answered(r), LocksSound
    PROVE  /\ \A p, q \in Request : p # q => held'[p] \cap held'[q] = {}
           /\ \A q \in Request : pc'[q] = "rotating" =>
               /\ q # r
               /\ pc[q] = "rotating"
               /\ subject'[q] = subject[q]
               /\ held'[q] = held[q]
  <1>1. /\ pc' = [pc EXCEPT ![r] = "idle"]
        /\ subject' = [subject EXCEPT ![r] = None]
        /\ held' = [held EXCEPT ![r] = {}]
    BY DEF Answered, Goto
  <1>2. \A q \in Request : held'[q] = IF q = r THEN {} ELSE held[q]
    BY <1>1 DEF SessionsTypeOK
  <1>3. \A q \in Request : q # r => pc'[q] = pc[q] /\ subject'[q] = subject[q]
    BY <1>1 DEF SessionsTypeOK
  <1>4. pc'[r] = "idle"
    BY <1>1 DEF SessionsTypeOK
  <1>5. \A p, q \in Request : p # q => held'[p] \cap held'[q] = {}
    BY <1>2 DEF LocksSound
  <1> QED
    BY <1>2, <1>3, <1>4, <1>5

(* A request that locks one more free row disturbs nobody.                 *)
LEMMA LockingKeepsLocks ==
    ASSUME SessionsTypeOK, LocksSound, NEW r \in Request, NEW s \in Sid, Unlocked(s),
           held' = [held EXCEPT ![r] = @ \cup {s}] \/ (held' = [held EXCEPT ![r] = {s}])
    PROVE  \A p, q \in Request : p # q => held'[p] \cap held'[q] = {}
  <1>1. \A q \in Request : q # r => held'[q] = held[q]
    BY DEF SessionsTypeOK
  <1>2. held'[r] \subseteq held[r] \cup {s}
    BY DEF SessionsTypeOK
  <1> QED
    BY <1>1, <1>2 DEF LocksSound, Unlocked

LEMMA LocksStep == SessionsInv /\ [SessionsNext]_sessionVars => LocksInv'
  <1> SUFFICES ASSUME SessionsInv, [SessionsNext]_sessionVars PROVE LocksInv'
    OBVIOUS
  <1>i. SessionsTypeOK /\ RowsInv /\ LocksSound /\ OneLiveToken
    BY DEF SessionsInv, RowsInv, LocksInv
  <1>1. ASSUME NEW c \in Challenge, NEW w \in Wallet, CreateChallenge(c, w)
        PROVE  LocksInv'
    BY <1>i, <1>1
    DEF CreateChallenge, LocksInv, LocksSound, OneLiveToken, rowVars, requestVars
  <1>2. ASSUME NEW r \in Request, NEW c \in Challenge, VerifyFind(r, c)
        PROVE  LocksInv'
    <2>1. OneLiveToken'
      BY <1>i, <1>2 DEF VerifyFind, OneLiveToken, rowVars
    <2>2. LocksSound'
      BY <1>i, <1>2 DEF VerifyFind, Goto, LocksSound, SessionsTypeOK, rowVars
    <2> QED
      BY <2>1, <2>2 DEF LocksInv
  <1>3. ASSUME NEW r \in Request, Consume(r)
        PROVE  LocksInv'
    <2>1. OneLiveToken'
      BY <1>i, <1>3 DEF Consume, OneLiveToken, rowVars
    <2>2. CASE Answered(r)
      <3>1. LocksSound'
        BY <1>i, <1>3, <2>2, AnswerUnlocks DEF Consume, LocksSound, rowVars
      <3> QED
        BY <3>1, <2>1 DEF LocksInv
    <2>3. CASE Goto(r, "consumed", subject[r]) /\ held' = held
      <3>1. LocksSound'
        BY <1>i, <1>3, <2>3 DEF Consume, Goto, LocksSound, SessionsTypeOK, rowVars
      <3> QED
        BY <3>1, <2>1 DEF LocksInv
    <2> QED
      BY <1>3, <2>2, <2>3 DEF Consume
  <1>4. ASSUME NEW r \in Request, CreateSession(r)
        PROVE  LocksInv'
    <2> DEFINE n == issued + 1
    <2>1. n \in Sid /\ n \notin stored
      BY <1>i, <1>4, RoomForOneMore DEF CreateSession, Inserting, SessionsTypeOK, Sid
    <2>2. /\ stored' = stored \cup {n}
          /\ family' = [family EXCEPT ![n] = n]
          /\ rotated' = rotated /\ revoked' = revoked
      BY <1>4 DEF CreateSession, Insert
    <2>3. \A t \in stored : family[t] # n
      BY <1>i DEF RowsInv, FamiliesSound, SessionsTypeOK, Sid
    <2>4. OneLiveToken'
      <3> HIDE DEF n
      <3> QED
        BY <1>i, <2>1, <2>2, <2>3 DEF OneLiveToken, SessionsTypeOK
    <2>5. LocksSound'
      BY <1>i, <1>4, <2>2, AnswerUnlocks DEF CreateSession, LocksSound
    <2> QED
      BY <2>4, <2>5 DEF LocksInv
  <1>5. ASSUME NEW r \in Request, NEW s \in Sid, RotateLive(r, s)
        PROVE  LocksInv'
    <2>1. OneLiveToken'
      BY <1>i, <1>5 DEF RotateLive, OneLiveToken, rowVars
    <2>2. \A p, q \in Request : p # q => held'[p] \cap held'[q] = {}
      BY <1>i, <1>5, LockingKeepsLocks DEF RotateLive, LockRow
    <2>3. \A q \in Request : pc'[q] = "rotating" =>
            /\ subject'[q] \in held'[q]
            /\ subject'[q] \in stored' \ (rotated' \cup revoked')
      BY <1>i, <1>5 DEF RotateLive, LockRow, Goto, LocksSound, SessionsTypeOK, rowVars
    <2> QED
      BY <2>1, <2>2, <2>3 DEF LocksInv, LocksSound
  <1>6. ASSUME NEW r \in Request, RotateCommit(r)
        PROVE  LocksInv'
    <2> DEFINE n == issued + 1
               s == subject[r]
    <2>1. n \in Sid /\ n \notin stored
      BY <1>i, <1>6, RoomForOneMore DEF RotateCommit, Inserting, SessionsTypeOK, Sid
    <2>2. s \in Live /\ s \in held[r] /\ s \in Sid
      BY <1>i, <1>6 DEF RotateCommit, LocksSound, Live, SessionsTypeOK
    <2>3. /\ stored' = stored \cup {n}
          /\ rotated' = rotated \cup {s} /\ revoked' = revoked
      BY <1>6 DEF RotateCommit, Insert
    <2>4. family' = [family EXCEPT ![n] = family[s]]
      <3>1. family[s] \in Nat /\ family[s] # None
        BY <1>i, <2>2, NoneAssumption DEF SessionsTypeOK, Sid
      <3> QED
        BY <1>6, <3>1 DEF RotateCommit, Insert
    <2>5. OneLiveToken'
      <3> HIDE DEF n, s
      <3>1. Live' \subseteq (Live \ {s}) \cup {n}
        BY <2>3 DEF Live
      <3>2. \A t \in Live \ {s} : family[t] # family[s]
        BY <1>i, <2>2 DEF OneLiveToken, Live
      <3>3. \A t \in stored : family'[t] = family[t]
        BY <1>i, <2>1, <2>4 DEF SessionsTypeOK
      <3>4. family'[n] = family[s]
        BY <1>i, <2>1, <2>4 DEF SessionsTypeOK
      <3>5. \A t, u \in Live' : family'[t] = family'[u] => t = u
        BY <1>i, <3>1, <3>2, <3>3, <3>4 DEF OneLiveToken, Live
      <3> QED
        BY <3>5 DEF OneLiveToken, Live
    <2>6. LocksSound'
      BY <1>i, <1>6, <2>2, <2>3, AnswerUnlocks DEF RotateCommit, LocksSound
    <2> QED
      BY <2>5, <2>6 DEF LocksInv
  <1>7. ASSUME NEW r \in Request, NEW s \in Sid, RotateExpired(r, s)
        PROVE  LocksInv'
    <2>1. OneLiveToken'
      BY <1>i, <1>7, NoNewLiveToken DEF RotateExpired, Live
    <2>2. LocksSound'
      BY <1>i, <1>7 DEF RotateExpired, LockRow, Unlocked, LocksSound, requestVars
    <2> QED
      BY <2>1, <2>2 DEF LocksInv
  <1>8. ASSUME NEW r \in Request, NEW s \in Sid, RotateReused(r, s)
        PROVE  LocksInv'
    <2>1. OneLiveToken'
      BY <1>i, <1>8 DEF RotateReused, OneLiveToken, rowVars
    <2>2. \A p, q \in Request : p # q => held'[p] \cap held'[q] = {}
      BY <1>i, <1>8, LockingKeepsLocks DEF RotateReused, LockRow
    <2>3. \A q \in Request : pc'[q] = "rotating" =>
            /\ subject'[q] \in held'[q]
            /\ subject'[q] \in stored' \ (rotated' \cup revoked')
      BY <1>i, <1>8 DEF RotateReused, Goto, LocksSound, SessionsTypeOK, rowVars
    <2> QED
      BY <2>1, <2>2, <2>3 DEF LocksInv, LocksSound
  <1>9. ASSUME NEW r \in Request, RevokeFamily(r)
        PROVE  LocksInv'
    <2>1. OneLiveToken'
      BY <1>i, <1>9 DEF RevokeFamily, OneLiveToken, rowVars
    <2>2. LocksSound'
      BY <1>i, <1>9 DEF RevokeFamily, Goto, LocksSound, SessionsTypeOK, rowVars
    <2> QED
      BY <2>1, <2>2 DEF LocksInv
  <1>10. ASSUME NEW s \in Sid, Logout(s)
         PROVE  LocksInv'
    <2>1. OneLiveToken'
      BY <1>i, <1>10, NoNewLiveToken DEF Logout, Live
    <2>2. LocksSound'
      BY <1>i, <1>10 DEF Logout, Unlocked, LocksSound, requestVars
    <2> QED
      BY <2>1, <2>2 DEF LocksInv
  <1>11. ASSUME NEW r \in Request, NEW w \in Wallet, LogoutAll(r, w)
         PROVE  LocksInv'
    <2>1. OneLiveToken'
      BY <1>i, <1>11 DEF LogoutAll, OneLiveToken, rowVars
    <2>2. LocksSound'
      BY <1>i, <1>11 DEF LogoutAll, Goto, LocksSound, SessionsTypeOK, rowVars
    <2> QED
      BY <2>1, <2>2 DEF LocksInv
  <1>12. ASSUME NEW r \in Request, NEW s \in Sid, LockTarget(r, s)
         PROVE  LocksInv'
    <2>1. OneLiveToken'
      BY <1>i, <1>12 DEF LockTarget, OneLiveToken, rowVars
    <2>2. \A p, q \in Request : p # q => held'[p] \cap held'[q] = {}
      BY <1>i, <1>12, LockingKeepsLocks DEF LockTarget
    <2>3. \A q \in Request : pc'[q] = "rotating" =>
            /\ subject'[q] \in held'[q]
            /\ subject'[q] \in stored' \ (rotated' \cup revoked')
      BY <1>i, <1>12 DEF LockTarget, LocksSound, SessionsTypeOK, rowVars
    <2> QED
      BY <2>1, <2>2, <2>3 DEF LocksInv, LocksSound
  <1>13. ASSUME NEW r \in Request, RevokeCommit(r)
         PROVE  LocksInv'
    <2>1. OneLiveToken'
      BY <1>i, <1>13, NoNewLiveToken DEF RevokeCommit, Live
    <2>2. targets[r] \cap stored \subseteq held[r]
      BY <1>13 DEF RevokeCommit, Missing
    <2>3. revoked' = revoked \cup (targets[r] \cap stored)
      BY <1>13 DEF RevokeCommit
    <2>4. LocksSound'
      BY <1>i, <1>13, <2>2, <2>3, AnswerUnlocks DEF RevokeCommit, LocksSound
    <2> QED
      BY <2>1, <2>4 DEF LocksInv
  <1>14. ASSUME NEW r \in Request, Answered(r), UNCHANGED <<challengeVars, rowVars, alerts>>
         PROVE  LocksInv'
    <2>1. OneLiveToken'
      BY <1>i, <1>14 DEF OneLiveToken, rowVars
    <2>2. LocksSound'
      BY <1>i, <1>14, AnswerUnlocks DEF LocksSound, rowVars
    <2> QED
      BY <2>1, <2>2 DEF LocksInv
  <1>15. ASSUME NEW c \in Challenge, ExpireChallenge(c)
         PROVE  LocksInv'
    BY <1>i, <1>15
    DEF ExpireChallenge, LocksInv, LocksSound, OneLiveToken, rowVars, requestVars
  <1>16. ASSUME NEW s \in Sid, ExpireSession(s)
         PROVE  LocksInv'
    BY <1>i, <1>16
    DEF ExpireSession, LocksInv, LocksSound, OneLiveToken, requestVars
  <1>17. ASSUME NEW s \in Sid, Cleanup(s)
         PROVE  LocksInv'
    <2>1. OneLiveToken'
      BY <1>i, <1>17, NoNewLiveToken DEF Cleanup, Live
    <2>2. LocksSound'
      BY <1>i, <1>17 DEF Cleanup, Unlocked, LocksSound, requestVars
    <2> QED
      BY <2>1, <2>2 DEF LocksInv
  <1>18. CASE UNCHANGED sessionVars
    BY <1>i, <1>18
    DEF sessionVars, LocksInv, LocksSound, OneLiveToken, rowVars, requestVars
  <1>19. CASE SessionsNext
    BY <1>19, <1>1, <1>2, <1>3, <1>4, <1>5, <1>6, <1>7, <1>8, <1>9, <1>10, <1>11,
       <1>12, <1>13, <1>14, <1>15, <1>16, <1>17
    DEF SessionsNext, Arrive, Progress, Fail, Rollback, AbortDeadlock
  <1> QED
    BY <1>18, <1>19

-----------------------------------------------------------------------------
(* What consume keeps: a challenge has one request past it, and no session *)
(* before.                                                                 *)

LEMMA LoginInit == SessionsInit => LoginInv
  BY DEF SessionsInit, LoginInv, ConsumedSound, ProofsSound, ChallengeLogsInOnce

(* Challenges and rows stay; no request starts a login but with a challenge *)
LEMMA LoginKept ==
    ASSUME LoginInv, UNCHANGED <<challenges, issued, family, proof>>,
           \A r \in Request : pc'[r] \in {"verifying", "consumed"} =>
               pc'[r] = pc[r] /\ subject'[r] = subject[r]
    PROVE  LoginInv'
  BY DEF LoginInv, ConsumedSound, ProofsSound, ChallengeLogsInOnce

LEMMA LoginStep == SessionsInv /\ [SessionsNext]_sessionVars => LoginInv'
  <1> SUFFICES ASSUME SessionsInv, [SessionsNext]_sessionVars PROVE LoginInv'
    OBVIOUS
  <1>i. SessionsTypeOK /\ RowsInv /\ LocksSound /\ LoginInv
    BY DEF SessionsInv, RowsInv, LocksInv
  <1>1. ASSUME NEW c \in Challenge, NEW w \in Wallet, CreateChallenge(c, w)
        PROVE  LoginInv'
    BY <1>i, <1>1
    DEF CreateChallenge, LoginInv, ConsumedSound, ProofsSound, ChallengeLogsInOnce,
        SessionsTypeOK, rowVars, requestVars
  <1>2. ASSUME NEW r \in Request, NEW c \in Challenge, VerifyFind(r, c)
        PROVE  LoginInv'
    BY <1>i, <1>2
    DEF VerifyFind, Goto, LoginInv, ConsumedSound, ProofsSound, ChallengeLogsInOnce,
        SessionsTypeOK, challengeVars, rowVars
  <1>3. ASSUME NEW r \in Request, Consume(r)
        PROVE  LoginInv'
    <2>1. CASE Answered(r) /\ challenges' = challenges
      BY <1>i, <1>3, <2>1, LoginKept DEF Consume, Answered, Goto, SessionsTypeOK, rowVars
    <2>2. CASE /\ challenges[subject[r]] = "fresh"
               /\ challenges' = [challenges EXCEPT ![subject[r]] = "used"]
               /\ Goto(r, "consumed", subject[r])
      BY <1>i, <1>3, <2>2
      DEF Consume, Goto, LoginInv, ConsumedSound, ProofsSound, ChallengeLogsInOnce,
          SessionsTypeOK, rowVars
    <2> QED
      BY <1>3, <2>1, <2>2 DEF Consume, Consumable
  <1>4. ASSUME NEW r \in Request, CreateSession(r)
        PROVE  LoginInv'
    <2> DEFINE n == issued + 1
               c == subject[r]
    <2>1. n \in Sid /\ issued \in Nat
      BY <1>i, <1>4, RoomForOneMore DEF CreateSession, Inserting, SessionsTypeOK
    <2>2. c \in Challenge /\ challenges[c] = "used" /\ \A s \in 1 .. issued : proof[s] # c
      BY <1>i, <1>4 DEF CreateSession, LoginInv, ConsumedSound
    <2>3. /\ issued' = n
          /\ family' = [family EXCEPT ![n] = n]
          /\ proof' = [proof EXCEPT ![n] = c]
          /\ challenges' = challenges
      BY <1>4 DEF CreateSession, Insert, challengeVars
    <2>4. \A s \in 1 .. issued : s \in Sid /\ s # n
      BY <2>1, BoundAssumption DEF Sid
    <2>5. 1 .. n = (1 .. issued) \cup {n}
      BY <2>1
    <2>6. /\ proof'[n] = c
          /\ \A s \in 1 .. issued : family'[s] = family[s] /\ proof'[s] = proof[s]
      BY <1>i, <2>1, <2>3, <2>4 DEF SessionsTypeOK
    <2>7. \A q \in Request : pc'[q] \in {"verifying", "consumed"} =>
            q # r /\ pc'[q] = pc[q] /\ subject'[q] = subject[q]
      BY <1>i, <1>4 DEF CreateSession, Answered, Goto, SessionsTypeOK
    <2>8. pc[r] = "consumed"
      BY <1>4 DEF CreateSession
    <2> HIDE DEF n
    <2>9. ConsumedSound'
      BY <1>i, <2>2, <2>3, <2>5, <2>6, <2>7, <2>8 DEF LoginInv, ConsumedSound
    <2>10. ProofsSound'
      BY <1>i, <2>2, <2>3, <2>5, <2>6 DEF LoginInv, ProofsSound
    <2>11. ChallengeLogsInOnce'
      BY <1>i, <2>2, <2>3, <2>5, <2>6 DEF LoginInv, ChallengeLogsInOnce
    <2> QED
      BY <2>9, <2>10, <2>11 DEF LoginInv
  <1>5. ASSUME NEW r \in Request, NEW s \in Sid, RotateLive(r, s)
        PROVE  LoginInv'
    BY <1>i, <1>5, LoginKept
    DEF RotateLive, Goto, SessionsTypeOK, challengeVars, rowVars
  <1>6. ASSUME NEW r \in Request, RotateCommit(r)
        PROVE  LoginInv'
    <2> DEFINE n == issued + 1
               s == subject[r]
    <2>1. n \in Sid /\ issued \in Nat
      BY <1>i, <1>6, RoomForOneMore DEF RotateCommit, Inserting, SessionsTypeOK
    <2>2. s \in 1 .. issued /\ s \in Sid
      BY <1>i, <1>6 DEF RotateCommit, LocksSound, SessionsTypeOK, Sid
    <2>3. family[s] \in 1 .. s /\ family[s] # n /\ family[s] # None
      BY <1>i, <2>2, NoneAssumption DEF RowsInv, FamiliesSound, SessionsTypeOK
    <2>4. /\ issued' = n
          /\ family' = [family EXCEPT ![n] = family[s]]
          /\ proof' = [proof EXCEPT ![n] = proof[s]]
          /\ challenges' = challenges
      BY <1>6, <2>3 DEF RotateCommit, Insert, challengeVars
    <2>5. \A t \in 1 .. issued : t \in Sid /\ t # n
      BY <2>1, BoundAssumption DEF Sid
    <2>6. 1 .. n = (1 .. issued) \cup {n}
      BY <2>1
    <2>7. /\ proof'[n] = proof[s] /\ family'[n] # n
          /\ \A t \in 1 .. issued : family'[t] = family[t] /\ proof'[t] = proof[t]
      BY <1>i, <2>1, <2>3, <2>4, <2>5 DEF SessionsTypeOK
    <2>8. \A q \in Request : pc'[q] \in {"verifying", "consumed"} =>
            q # r /\ pc'[q] = pc[q] /\ subject'[q] = subject[q]
      BY <1>i, <1>6 DEF RotateCommit, Answered, Goto, SessionsTypeOK
    <2> HIDE DEF n, s
    <2>9. ConsumedSound'
      BY <1>i, <2>2, <2>4, <2>6, <2>7, <2>8 DEF LoginInv, ConsumedSound
    <2>10. ProofsSound'
      BY <1>i, <2>2, <2>4, <2>6, <2>7 DEF LoginInv, ProofsSound
    <2>11. ChallengeLogsInOnce'
      BY <1>i, <2>4, <2>6, <2>7 DEF LoginInv, ChallengeLogsInOnce
    <2> QED
      BY <2>9, <2>10, <2>11 DEF LoginInv
  <1>7. ASSUME NEW r \in Request, NEW s \in Sid, RotateExpired(r, s)
        PROVE  LoginInv'
    BY <1>i, <1>7, LoginKept DEF RotateExpired, challengeVars, requestVars
  <1>8. ASSUME NEW r \in Request, NEW s \in Sid, RotateReused(r, s)
        PROVE  LoginInv'
    BY <1>i, <1>8, LoginKept
    DEF RotateReused, Goto, SessionsTypeOK, challengeVars, rowVars
  <1>9. ASSUME NEW r \in Request, RevokeFamily(r)
        PROVE  LoginInv'
    BY <1>i, <1>9, LoginKept
    DEF RevokeFamily, Goto, SessionsTypeOK, challengeVars, rowVars
  <1>10. ASSUME NEW s \in Sid, Logout(s)
         PROVE  LoginInv'
    BY <1>i, <1>10, LoginKept DEF Logout, challengeVars, requestVars
  <1>11. ASSUME NEW r \in Request, NEW w \in Wallet, LogoutAll(r, w)
         PROVE  LoginInv'
    BY <1>i, <1>11, LoginKept
    DEF LogoutAll, Goto, SessionsTypeOK, challengeVars, rowVars
  <1>12. ASSUME NEW r \in Request, NEW s \in Sid, LockTarget(r, s)
         PROVE  LoginInv'
    BY <1>i, <1>12, LoginKept DEF LockTarget, challengeVars, rowVars
  <1>13. ASSUME NEW r \in Request, RevokeCommit(r)
         PROVE  LoginInv'
    BY <1>i, <1>13, LoginKept
    DEF RevokeCommit, Answered, Goto, SessionsTypeOK, challengeVars
  <1>14. ASSUME NEW r \in Request, Answered(r), UNCHANGED <<challengeVars, rowVars, alerts>>
         PROVE  LoginInv'
    BY <1>i, <1>14, LoginKept DEF Answered, Goto, SessionsTypeOK, challengeVars, rowVars
  <1>15. ASSUME NEW c \in Challenge, ExpireChallenge(c)
         PROVE  LoginInv'
    BY <1>i, <1>15
    DEF ExpireChallenge, LoginInv, ConsumedSound, ProofsSound, ChallengeLogsInOnce,
        SessionsTypeOK, rowVars, requestVars
  <1>16. ASSUME NEW s \in Sid, ExpireSession(s) \/ Cleanup(s)
         PROVE  LoginInv'
    BY <1>i, <1>16, LoginKept DEF ExpireSession, Cleanup, challengeVars, requestVars
  <1>17. CASE UNCHANGED sessionVars
    BY <1>i, <1>17, LoginKept DEF sessionVars, challengeVars, rowVars, requestVars
  <1>18. CASE SessionsNext
    BY <1>18, <1>1, <1>2, <1>3, <1>4, <1>5, <1>6, <1>7, <1>8, <1>9, <1>10, <1>11,
       <1>12, <1>13, <1>14, <1>15, <1>16
    DEF SessionsNext, Arrive, Progress, Fail, Rollback, AbortDeadlock
  <1> QED
    BY <1>17, <1>18

-----------------------------------------------------------------------------
(* Marks and locks: only stored rows are marked, only by those handled.    *)

LEMMA BusyInit == SessionsInit => BusyInv
  BY DEF SessionsInit, BusyInv, MarksSound, HoldersBusy

LEMMA MarksStep == SessionsInv /\ [SessionsNext]_sessionVars => MarksSound'
  <1> SUFFICES ASSUME SessionsInv, [SessionsNext]_sessionVars PROVE MarksSound'
    OBVIOUS
  <1>i. SessionsTypeOK /\ LocksSound /\ MarksSound
    BY DEF SessionsInv, RowsInv, LocksInv, BusyInv
  <1>1. stored \subseteq 1 .. issued /\ issued \in Nat
    BY <1>i DEF SessionsTypeOK, Sid
  <1>2. /\ rotated' \subseteq rotated \cup stored
        /\ revoked' \subseteq revoked \cup stored
        /\ issued' = issued \/ issued' = issued + 1
    <2>1. CASE UNCHANGED sessionVars
      BY <2>1 DEF sessionVars, rowVars
    <2>2. CASE SessionsNext
      BY <2>2, <1>i
      DEF SessionsNext, Arrive, Progress, Fail, Rollback, AbortDeadlock, CreateChallenge,
          VerifyFind, Consume, CreateSession, Insert, RotateLive, RotateCommit, RotateExpired,
          RotateReused, LockRow, RevokeFamily, Logout, LogoutAll, LockTarget,
          RevokeCommit, ExpireChallenge, ExpireSession, Cleanup, LocksSound, rowVars
    <2> QED
      BY <2>1, <2>2
  <1>3. 1 .. issued \subseteq (1 .. issued)'
    BY <1>1, <1>2
  <1> QED
    BY <1>1, <1>2, <1>3, <1>i DEF MarksSound

LEMMA HoldersStep == SessionsInv /\ [SessionsNext]_sessionVars => HoldersBusy'
  <1> SUFFICES ASSUME SessionsInv, [SessionsNext]_sessionVars PROVE HoldersBusy'
    OBVIOUS
  <1>i. SessionsTypeOK /\ HoldersBusy
    BY DEF SessionsInv, RowsInv, BusyInv
  <1>1. ASSUME NEW r \in Request, Answered(r)
        PROVE  HoldersBusy'
    BY <1>i, <1>1 DEF Answered, Goto, SessionsTypeOK, HoldersBusy
  <1>2. ASSUME NEW r \in Request, NEW p, NEW what, p # "idle", Goto(r, p, what),
               \A q \in Request : q # r => held'[q] = held[q]
        PROVE  HoldersBusy'
    BY <1>i, <1>2 DEF Goto, SessionsTypeOK, HoldersBusy
  <1>3. ASSUME NEW r \in Request, NEW s \in Sid, LockTarget(r, s)
        PROVE  HoldersBusy'
    BY <1>i, <1>3 DEF LockTarget, SessionsTypeOK, HoldersBusy
  <1>4. ASSUME NEW r \in Request, Consume(r)
        PROVE  HoldersBusy'
    BY <1>1, <1>2, <1>4 DEF Consume
  <1>5. ASSUME NEW r \in Request, NEW s \in Sid, RotateLive(r, s) \/ RotateReused(r, s)
        PROVE  HoldersBusy'
    <2>1. \A q \in Request : q # r => held'[q] = held[q]
      BY <1>i, <1>5 DEF RotateLive, RotateReused, SessionsTypeOK
    <2> QED
      BY <2>1, <1>2, <1>5 DEF RotateLive, RotateReused
  <1>6. ASSUME NEW r \in Request,
               \/ RevokeFamily(r)
               \/ \E w \in Wallet : LogoutAll(r, w)
               \/ \E c \in Challenge : VerifyFind(r, c)
        PROVE  HoldersBusy'
    BY <1>2, <1>6 DEF RevokeFamily, LogoutAll, VerifyFind
  <1>7. CASE UNCHANGED requestVars
    BY <1>i, <1>7 DEF requestVars, HoldersBusy
  <1>8. CASE UNCHANGED sessionVars
    BY <1>7, <1>8 DEF sessionVars
  <1>9. CASE SessionsNext
    BY <1>9, <1>1, <1>3, <1>4, <1>5, <1>6, <1>7
    DEF SessionsNext, Arrive, Progress, Fail, Rollback, AbortDeadlock,
        CreateChallenge, CreateSession,
        RotateCommit, RotateExpired, Logout, RevokeCommit, ExpireChallenge,
        ExpireSession, Cleanup
  <1> QED
    BY <1>8, <1>9

LEMMA BusyStep == SessionsInv /\ [SessionsNext]_sessionVars => BusyInv'
  BY MarksStep, HoldersStep DEF BusyInv

-----------------------------------------------------------------------------
(* The inductive invariant of the sessions: rows, locks, logins, marks.    *)
THEOREM SessionsCorrect == SessionsSpec => []SessionsInv
  <1>1. SessionsInit => SessionsInv
    BY RowsInit, LocksInit, LoginInit, BusyInit DEF SessionsInv
  <1>2. SessionsInv /\ [SessionsNext]_sessionVars => SessionsInv'
    BY RowsStep, LocksStep, LoginStep, BusyStep DEF SessionsInv
  <1> QED
    BY <1>1, <1>2, PTL DEF SessionsSpec

(* However refreshes interleave, a family has one live token.              *)
THEOREM OneLiveTokenHolds == SessionsSpec => []OneLiveToken
  <1>1. SessionsInv => OneLiveToken
    BY DEF SessionsInv, LocksInv
  <1> QED
    BY <1>1, SessionsCorrect, PTL

(* A challenge logs in once, however many requests present it.             *)
THEOREM ChallengeLogsInOnceHolds == SessionsSpec => []ChallengeLogsInOnce
  <1>1. SessionsInv => ChallengeLogsInOnce
    BY DEF SessionsInv, LoginInv
  <1> QED
    BY <1>1, SessionsCorrect, PTL

(* Only an insertion could bring a family back: that of a login opens a    *)
(* new one, that of a refresh continues one with a live token.             *)
LEMMA EndedStep ==
    ASSUME SessionsInv, [SessionsNext]_sessionVars, NEW f \in Sid, Ended(f)
    PROVE  Ended(f)'
  <1>i. SessionsTypeOK /\ RowsInv /\ LocksSound
    BY DEF SessionsInv, RowsInv, LocksInv
  <1>1. CASE /\ stored' \subseteq stored /\ issued' = issued /\ family' = family
             /\ revoked \subseteq revoked' /\ rotated' = rotated
    BY <1>1 DEF Ended, LiveOf
  <1>2. ASSUME NEW r \in Request, CreateSession(r)
        PROVE  Ended(f)'
    <2> DEFINE n == issued + 1
    <2>1. n \in Sid /\ issued \in Nat
      BY <1>i, <1>2, RoomForOneMore DEF CreateSession, Inserting, SessionsTypeOK
    <2>2. /\ stored' = stored \cup {n} /\ issued' = n
          /\ family' = [family EXCEPT ![n] = n]
          /\ revoked' = revoked /\ rotated' = rotated
      BY <1>2 DEF CreateSession, Insert
    <2>3. f # n /\ f \in 1 .. issued'
      BY <2>1, <2>2 DEF Ended
    <2>4. family'[n] = n /\ \A t \in Sid \ {n} : family'[t] = family[t]
      BY <1>i, <2>1, <2>2 DEF SessionsTypeOK
    <2>5. stored \subseteq Sid
      BY <1>i DEF SessionsTypeOK
    <2> HIDE DEF n
    <2> QED
      BY <2>2, <2>3, <2>4, <2>5 DEF Ended, LiveOf
  <1>3. ASSUME NEW r \in Request, RotateCommit(r)
        PROVE  Ended(f)'
    <2> DEFINE n == issued + 1
               t == subject[r]
    <2>1. n \in Sid /\ issued \in Nat
      BY <1>i, <1>3, RoomForOneMore DEF RotateCommit, Inserting, SessionsTypeOK
    <2>2. t \in stored \ (rotated \cup revoked) /\ t \in Sid
      BY <1>i, <1>3 DEF RotateCommit, LocksSound, SessionsTypeOK
    <2>3. family' = [family EXCEPT ![n] = family[t]]
      <3>1. family[t] \in Nat /\ family[t] # None
        BY <1>i, <2>2, NoneAssumption DEF SessionsTypeOK, Sid
      <3> QED
        BY <1>3, <3>1 DEF RotateCommit, Insert
    <2>4. /\ stored' = stored \cup {n} /\ issued' = n
          /\ revoked' = revoked /\ rotated' = rotated \cup {t}
      BY <1>3 DEF RotateCommit, Insert
    <2>5. family[t] # f
      BY <2>2 DEF Ended, LiveOf
    <2>6. f # n /\ f \in 1 .. issued'
      BY <2>1, <2>4 DEF Ended
    <2>7. family'[n] = family[t] /\ \A s \in Sid \ {n} : family'[s] = family[s]
      BY <1>i, <2>1, <2>3 DEF SessionsTypeOK
    <2>8. stored \subseteq Sid
      BY <1>i DEF SessionsTypeOK
    <2> HIDE DEF n, t
    <2> QED
      BY <2>4, <2>5, <2>6, <2>7, <2>8 DEF Ended, LiveOf
  <1>4. CASE SessionsNext
    BY <1>1, <1>2, <1>3, <1>4
    DEF SessionsNext, Arrive, Progress, Fail, Rollback, AbortDeadlock, CreateChallenge,
        VerifyFind, Consume, RotateLive, RotateExpired, RotateReused, RevokeFamily,
        Logout, LogoutAll, LockTarget, RevokeCommit, Answered, ExpireChallenge,
        ExpireSession, Cleanup, rowVars
  <1>5. CASE UNCHANGED sessionVars
    BY <1>1, <1>5 DEF sessionVars, rowVars
  <1> QED
    BY <1>4, <1>5

(* A login whose last live token was ended has none again: no refresh      *)
(* under way revives it.                                                   *)
THEOREM EndedForGoodHolds == SessionsSpec => EndedForGood
  <1> DEFINE Kept == \A f \in Sid : Ended(f) => Ended(f)'
  <1>1. SessionsInv /\ [SessionsNext]_sessionVars => [Kept]_sessionVars
    BY EndedStep
  <1>2. SessionsSpec => [][SessionsNext]_sessionVars
    BY PTL DEF SessionsSpec
  <1>3. SessionsSpec => [][Kept]_sessionVars
    <2> HIDE DEF Kept
    <2> QED
      BY <1>1, <1>2, SessionsCorrect, PTL
  <1> QED
    BY <1>3 DEF EndedForGood

-----------------------------------------------------------------------------
(* The refinement: a family's live rows are at most one, so the token the  *)
(* mapping chooses is that row.                                            *)

LEMMA TokenOfFamily ==
    ASSUME SessionsTypeOK, OneLiveToken, NEW f \in Sid
    PROVE  /\ LiveOf(f) = {} => FamilyToken[f] = None
           /\ \A s \in LiveOf(f) : FamilyToken[f] = s /\ LiveOf(f) = {s}
           /\ FamilyToken[f] # None => LiveOf(f) = {FamilyToken[f]}
           /\ None \notin LiveOf(f)
  <1>1. \A s, t \in LiveOf(f) : s = t
    BY DEF LiveOf, OneLiveToken
  <1>2. None \notin Sid /\ LiveOf(f) \subseteq Sid
    <2>1. Sid \subseteq Nat
      BY BoundAssumption DEF Sid
    <2>2. LiveOf(f) \subseteq Sid
      BY DEF LiveOf, SessionsTypeOK
    <2> QED
      BY <2>1, <2>2, NoneAssumption
  <1>3. FamilyToken[f] = IF LiveOf(f) = {} THEN None ELSE CHOOSE s \in LiveOf(f) : TRUE
    BY DEF FamilyToken
  <1>4. LiveOf(f) # {} => (CHOOSE s \in LiveOf(f) : TRUE) \in LiveOf(f)
    OBVIOUS
  <1> QED
    BY <1>1, <1>2, <1>3, <1>4

LEMMA FamiliesInit == SessionsInit => Families!Init
  <1> SUFFICES ASSUME SessionsInit PROVE Families!Init
    OBVIOUS
  <1>1. issued = 0 /\ stored = {}
    BY DEF SessionsInit
  <1>2. FamilyOpener = [f \in Sid |-> None]
    BY <1>1 DEF FamilyOpener, Sid
  <1>3. FamilyToken = [f \in Sid |-> None]
    BY <1>1 DEF FamilyToken, LiveOf
  <1> QED
    BY <1>1, <1>2, <1>3 DEF Families!Init

(* Where rows only stop being live, families end or stay as they are.      *)
LEMMA FamiliesEnd ==
    ASSUME SessionsInv, SessionsInv', UNCHANGED <<issued, family, proof>>, Live' \subseteq Live
    PROVE  \E F \in SUBSET Sid : Families!End(F)
  <1>i. SessionsTypeOK /\ SessionsTypeOK' /\ OneLiveToken /\ OneLiveToken'
    BY DEF SessionsInv, RowsInv, LocksInv
  <1> DEFINE F == {f \in Sid : LiveOf(f)' = {}}
  <1>1. \A f \in Sid : LiveOf(f)' \subseteq LiveOf(f)
    BY DEF Live, LiveOf
  <1>2. \A f \in Sid : FamilyToken'[f] = IF f \in F THEN None ELSE FamilyToken[f]
    <2> SUFFICES ASSUME NEW f \in Sid
                 PROVE  FamilyToken'[f] = IF f \in F THEN None ELSE FamilyToken[f]
      OBVIOUS
    <2>1. LiveOf(f)' = {} => FamilyToken'[f] = None
      BY <1>i DEF FamilyToken
    <2>2. ASSUME NEW s \in LiveOf(f)' PROVE FamilyToken'[f] = s
      <3>1. \A t \in LiveOf(f)' : t = s
        BY <1>i, <2>2 DEF LiveOf, OneLiveToken
      <3> QED
        BY <3>1, <2>2 DEF FamilyToken
    <2>3. \A s \in LiveOf(f) : FamilyToken[f] = s
      BY <1>i, TokenOfFamily
    <2> QED
      BY <1>1, <2>1, <2>2, <2>3
  <1>3. FamilyToken' = [f \in Sid |-> IF f \in F THEN None ELSE FamilyToken[f]]
    BY <1>2 DEF FamilyToken
  <1>4. FamilyOpener' = FamilyOpener /\ (1 .. issued)' = 1 .. issued
    BY DEF FamilyOpener
  <1>5. Families!End(F)
    BY <1>3, <1>4 DEF Families!End
  <1>6. F \in SUBSET Sid
    OBVIOUS
  <1> HIDE DEF F
  <1> QED
    BY <1>5, <1>6

(* A step that leaves a family one live row, or those it had.              *)
LEMMA TokenNow ==
    ASSUME NEW f \in Sid, NEW s, LiveOf(f)' = {s}
    PROVE  FamilyToken'[f] = s
  BY DEF FamilyToken

LEMMA TokenKept ==
    ASSUME NEW f \in Sid, LiveOf(f)' = LiveOf(f)
    PROVE  FamilyToken'[f] = FamilyToken[f]
  BY DEF FamilyToken

LEMMA FamiliesCreate ==
    ASSUME SessionsInv, SessionsInv', NEW r \in Request, CreateSession(r)
    PROVE  \E f \in Sid, t \in Sid, login \in Challenge : Families!Open(f, login, t)
  <1>i. SessionsTypeOK /\ RowsInv /\ LoginInv /\ MarksSound
    BY DEF SessionsInv, RowsInv, BusyInv
  <1> DEFINE n == issued + 1
             login == subject[r]
  <1>1. n \in Sid /\ n \notin stored /\ issued \in Nat /\ n \notin 1 .. issued
    BY <1>i, RoomForOneMore DEF CreateSession, Inserting, SessionsTypeOK, Sid
  <1>2. /\ stored' = stored \cup {n} /\ issued' = n
        /\ family' = [family EXCEPT ![n] = n]
        /\ proof' = [proof EXCEPT ![n] = login]
        /\ rotated' = rotated /\ revoked' = revoked
    BY DEF CreateSession, Insert
  <1>3. login \in Challenge /\ \A s \in 1 .. issued : proof[s] # login
    BY <1>i DEF CreateSession, LoginInv, ConsumedSound
  <1>4. \A s \in stored : family[s] # n
    BY <1>i DEF RowsInv, FamiliesSound, SessionsTypeOK, Sid
  <1>5. (1 .. issued)' = (1 .. issued) \cup {n}
    BY <1>1, <1>2
  <1>6. FamilyOpener[n] = None
    BY <1>1 DEF FamilyOpener
  <1>7. \A g \in Sid : FamilyOpener[g] # login
    <2> SUFFICES ASSUME NEW g \in Sid PROVE FamilyOpener[g] # login
      OBVIOUS
    <2>1. FamilyOpener[g] = IF g <= issued /\ family[g] = g THEN proof[g] ELSE None
      BY DEF FamilyOpener
    <2>2. g <= issued => g \in 1 .. issued
      BY <1>1, BoundAssumption DEF Sid
    <2> QED
      BY <2>1, <2>2, <1>3, NoneAssumption
  <1>8. FamilyOpener' = [FamilyOpener EXCEPT ![n] = login]
    <2>1. FamilyOpener \in [Sid -> Challenge \cup {None}]
      BY <1>i DEF FamilyOpener, SessionsTypeOK
    <2>2. \A f \in Sid : FamilyOpener'[f] = IF f = n THEN login ELSE FamilyOpener[f]
      <3> SUFFICES ASSUME NEW f \in Sid
                   PROVE  FamilyOpener'[f] = IF f = n THEN login ELSE FamilyOpener[f]
        OBVIOUS
      <3>1. FamilyOpener'[f] = IF f <= issued' /\ family'[f] = f THEN proof'[f] ELSE None
        BY DEF FamilyOpener
      <3>2. FamilyOpener[f] = IF f <= issued /\ family[f] = f THEN proof[f] ELSE None
        BY DEF FamilyOpener
      <3>3. family'[f] = IF f = n THEN n ELSE family[f]
        BY <1>i, <1>1, <1>2 DEF SessionsTypeOK
      <3>4. proof'[f] = IF f = n THEN login ELSE proof[f]
        BY <1>i, <1>1, <1>2 DEF SessionsTypeOK
      <3>5. f \in Nat /\ (f # n => (f <= issued' <=> f <= issued)) /\ n <= issued'
        BY <1>1, <1>2, BoundAssumption DEF Sid
      <3> HIDE DEF n, login
      <3> QED
        BY <3>1, <3>2, <3>3, <3>4, <3>5
    <2>3. FamilyOpener' = [f \in Sid |-> FamilyOpener'[f]]
      BY DEF FamilyOpener
    <2> HIDE DEF n, login
    <2> QED
      BY <2>1, <2>2, <2>3
  <1>9. FamilyToken' = [FamilyToken EXCEPT ![n] = n]
    <2>1. n \notin rotated \cup revoked
      BY <1>i, <1>1 DEF MarksSound
    <2>2. /\ \A s \in stored : family'[s] = family[s]
          /\ family'[n] = n
      BY <1>i, <1>1, <1>2 DEF SessionsTypeOK
    <2> HIDE DEF n
    <2>3. \A f \in Sid : FamilyToken'[f] = IF f = n THEN n ELSE FamilyToken[f]
      <3> SUFFICES ASSUME NEW f \in Sid
                   PROVE  FamilyToken'[f] = IF f = n THEN n ELSE FamilyToken[f]
        OBVIOUS
      <3>1. CASE f = n
        <4>1. LiveOf(f)' = {n}
          BY <3>1, <2>1, <2>2, <1>2, <1>4 DEF LiveOf
        <4> QED
          BY <4>1, <3>1, TokenNow
      <3>2. CASE f # n
        <4>1. LiveOf(f)' = LiveOf(f)
          BY <3>2, <2>1, <2>2, <1>2, <1>4 DEF LiveOf
        <4> QED
          BY <4>1, <3>2, TokenKept
      <3> QED
        BY <3>1, <3>2
    <2>4. FamilyToken' = [f \in Sid |-> FamilyToken'[f]]
          /\ FamilyToken = [f \in Sid |-> FamilyToken[f]]
      BY DEF FamilyToken
    <2> QED
      BY <2>3, <2>4, <1>1
  <1> QED
    BY <1>1, <1>3, <1>5, <1>6, <1>7, <1>8, <1>9 DEF Families!Open, Families!Hand

LEMMA FamiliesRotate ==
    ASSUME SessionsInv, NEW r \in Request, RotateCommit(r)
    PROVE  \E f \in Sid, t \in Sid : Families!Refresh(f, t)
  <1>i. SessionsTypeOK /\ RowsInv /\ LocksSound /\ OneLiveToken /\ MarksSound
    BY DEF SessionsInv, RowsInv, LocksInv, BusyInv
  <1> DEFINE n == issued + 1
             s == subject[r]
             f == family[s]
  <1>1. n \in Sid /\ n \notin stored /\ issued \in Nat /\ n \notin 1 .. issued
    BY <1>i, RoomForOneMore DEF RotateCommit, Inserting, SessionsTypeOK, Sid
  <1>2. s \in Live /\ s \in stored /\ s \in Sid /\ f \in Sid /\ s # n /\ s \in LiveOf(f)
    BY <1>i, <1>1 DEF RotateCommit, LocksSound, Live, LiveOf, SessionsTypeOK
  <1>3. /\ stored' = stored \cup {n} /\ issued' = n
        /\ proof' = [proof EXCEPT ![n] = proof[s]]
        /\ rotated' = rotated \cup {s} /\ revoked' = revoked
    BY DEF RotateCommit, Insert
  <1>4. family' = [family EXCEPT ![n] = f]
    <2>1. f \in Nat /\ f # None
      BY <1>2, BoundAssumption, NoneAssumption DEF Sid
    <2> QED
      BY <2>1 DEF RotateCommit, Insert
  <1>5. (1 .. issued)' = (1 .. issued) \cup {n}
    BY <1>1, <1>3
  <1>6. f <= issued /\ f \in Nat
    BY <1>i, <1>2, BoundAssumption DEF RowsInv, FamiliesSound, SessionsTypeOK, Sid
  <1>7. FamilyOpener' = FamilyOpener
    <2>1. \A g \in Sid : FamilyOpener'[g] = FamilyOpener[g]
      <3> SUFFICES ASSUME NEW g \in Sid PROVE FamilyOpener'[g] = FamilyOpener[g]
        OBVIOUS
      <3>1. FamilyOpener'[g] = IF g <= issued' /\ family'[g] = g THEN proof'[g] ELSE None
        BY DEF FamilyOpener
      <3>2. FamilyOpener[g] = IF g <= issued /\ family[g] = g THEN proof[g] ELSE None
        BY DEF FamilyOpener
      <3>3. family'[g] = IF g = n THEN f ELSE family[g]
        BY <1>i, <1>1, <1>4 DEF SessionsTypeOK
      <3>4. proof'[g] = IF g = n THEN proof[s] ELSE proof[g]
        BY <1>i, <1>1, <1>3 DEF SessionsTypeOK
      <3>5. g \in Nat /\ (g # n => (g <= issued' <=> g <= issued)) /\ ~(n <= issued) /\ f # n
        BY <1>1, <1>3, <1>6, BoundAssumption DEF Sid
      <3> HIDE DEF n, s, f
      <3> QED
        BY <3>1, <3>2, <3>3, <3>4, <3>5
    <2> QED
      BY <2>1 DEF FamilyOpener
  <1>8. FamilyToken[f] = s /\ LiveOf(f) = {s}
    BY <1>i, <1>2, TokenOfFamily
  <1>9. FamilyToken[f] # None
    BY <1>8, <1>2, BoundAssumption, NoneAssumption DEF Sid
  <1>10. FamilyToken' = [FamilyToken EXCEPT ![f] = n]
    <2>1. \A t \in stored : family'[t] = family[t]
      BY <1>i, <1>1, <1>4 DEF SessionsTypeOK
    <2>2. family'[n] = f
      BY <1>i, <1>1, <1>4 DEF SessionsTypeOK
    <2>3. n \notin rotated \cup revoked
      BY <1>i, <1>1 DEF MarksSound
    <2> HIDE DEF n, s, f
    <2>4. \A t \in stored \ (rotated \cup revoked) : family[t] = f <=> t = s
      BY <1>8 DEF LiveOf
    <2>5. \A g \in Sid : FamilyToken'[g] = IF g = f THEN n ELSE FamilyToken[g]
      <3> SUFFICES ASSUME NEW g \in Sid
                   PROVE  FamilyToken'[g] = IF g = f THEN n ELSE FamilyToken[g]
        OBVIOUS
      <3>1. CASE g = f
        <4>1. LiveOf(g)' = {n}
          BY <3>1, <2>1, <2>2, <2>3, <2>4, <1>2, <1>3 DEF LiveOf
        <4> QED
          BY <4>1, <3>1, TokenNow
      <3>2. CASE g # f
        <4>1. LiveOf(g)' = LiveOf(g)
          BY <3>2, <2>1, <2>2, <2>3, <2>4, <1>2, <1>3 DEF LiveOf
        <4> QED
          BY <4>1, <3>2, TokenKept
      <3> QED
        BY <3>1, <3>2
    <2>6. FamilyToken' = [g \in Sid |-> FamilyToken'[g]]
          /\ FamilyToken = [g \in Sid |-> FamilyToken[g]]
      BY DEF FamilyToken
    <2> QED
      BY <2>5, <2>6, <1>2
  <1>11. Families!Refresh(f, n)
    BY <1>1, <1>5, <1>7, <1>9, <1>10 DEF Families!Refresh, Families!Hand
  <1> HIDE DEF n, s, f
  <1> QED
    BY <1>1, <1>2, <1>11

(* Every other step leaves issued, family and proof alone and makes no row *)
(* live: it ends families, or changes nothing a client could see.          *)
LEMMA FamiliesStep ==
    ASSUME SessionsInv, SessionsInv', [SessionsNext]_sessionVars
    PROVE  [Families!Next]_(Families!familyVars)
  <1>1. ASSUME UNCHANGED <<issued, family, proof>>, Live' \subseteq Live
        PROVE  Families!Next
    BY <1>1, FamiliesEnd DEF Families!Next
  <1>2. ASSUME NEW r \in Request, CreateSession(r)
        PROVE  Families!Next
    BY <1>2, FamiliesCreate DEF Families!Next
  <1>3. ASSUME NEW r \in Request, RotateCommit(r)
        PROVE  Families!Next
    BY <1>3, FamiliesRotate DEF Families!Next
  <1>4. CASE UNCHANGED sessionVars
    BY <1>1, <1>4 DEF sessionVars, rowVars, Live
  <1>5. CASE SessionsNext
    BY <1>1, <1>2, <1>3, <1>5
    DEF SessionsNext, Arrive, Progress, Fail, Rollback, AbortDeadlock, CreateChallenge,
        VerifyFind, Consume, RotateLive, RotateExpired, RotateReused, RevokeFamily,
        Logout, LogoutAll, LockTarget, RevokeCommit, ExpireChallenge,
        ExpireSession, Cleanup, rowVars, Live
  <1> QED
    BY <1>4, <1>5

(* The sessions implement TokenFamilies: seen through a wallet's families, *)
(* every step of every request opens one with a challenge of its own,      *)
(* replaces the one token of one, ends some for good, or cannot be seen.   *)
THEOREM SessionsAreFamilies == SessionsSpec => ImplementsFamilies
  <1>1. SessionsInit => Families!Init
    BY FamiliesInit
  <1>2. SessionsInv /\ SessionsInv' /\ [SessionsNext]_sessionVars =>
            [Families!Next]_(Families!familyVars)
    BY FamiliesStep
  <1>3. SessionsSpec => SessionsInit /\ [][SessionsNext]_sessionVars
    BY PTL DEF SessionsSpec
  <1> QED
    BY <1>1, <1>2, <1>3, SessionsCorrect, PTL DEF ImplementsFamilies, Families!Spec

-----------------------------------------------------------------------------
(* Nobody waits for good, as far as a state shows it: the safety half of   *)
(* RequestsAnswered.                                                       *)

\* The guard of one of the disjuncts of Progress(r) holds.
CanProgress(r) ==
    \/ pc[r] \in {"verifying", "consumed", "rotating", "reused"}
    \/ /\ pc[r] = "revoking"
       /\ Missing(r) = {} \/ \E s \in Missing(r) : Unlocked(s)
    \/ Deadlocked(r)

\* Whom any of W waits for is in W.
WaitsWithin(W) == \A d \in W, e \in Request : Waits(d, e) => e \in W

\* Follow whom a request waits for, and whom they wait for: somebody can go on.
SomebodyGoesOn ==
    \A r \in Request : \A W \in SUBSET Request :
        pc[r] # "idle" /\ r \in W /\ WaitsWithin(W) => \E q \in W : CanProgress(q)

LEMMA SmallestSet ==
    ASSUME NEW F \in SUBSET (SUBSET Request), F # {}
    PROVE  \E K \in F : \A J \in F : J \subseteq K => J = K
  <1>1. F \subseteq FiniteSubsetsOf(Request)
    BY RequestsAssumption, FS_Subset DEF FiniteSubsetsOf
  <1>2. PICK K \in F : \A J \in F : <<J, K>> \notin StrictSubsetOrdering(Request)
    BY <1>1, FS_StrictSubsetOrderingWellFounded, WFMin
  <1>3. \A J \in F : J \subseteq K /\ J # K => <<J, K>> \in StrictSubsetOrdering(Request)
    BY DEF StrictSubsetOrdering
  <1>4. \A J \in F : J \subseteq K => J = K
    BY <1>2, <1>3
  <1> WITNESS K \in F
  <1> QED
    BY <1>4

(* Whoever cannot go on has a row to lock that another request has.        *)
LEMMA BlockedWaits ==
    ASSUME SessionsTypeOK, NEW d \in Request, pc[d] # "idle", ~CanProgress(d)
    PROVE  \E e \in Request : Waits(d, e)
  <1>1. pc[d] = "revoking"
    BY DEF CanProgress, SessionsTypeOK
  <1>2. PICK s \in Missing(d) : ~Unlocked(s)
    BY <1>1 DEF CanProgress
  <1>3. PICK e \in Request : s \in held[e]
    BY <1>2 DEF Unlocked
  <1>4. s \notin held[d]
    BY <1>2 DEF Missing
  <1> QED
    BY <1>1, <1>2, <1>3, <1>4 DEF Waits

(* A smallest set of requests that wait within it is a knot: each waits    *)
(* for one of them, and is waited for, since the set without it is smaller.*)
LEMMA SomebodyCan == SessionsInv => SomebodyGoesOn
  <1> SUFFICES ASSUME SessionsInv, NEW r \in Request, NEW W \in SUBSET Request,
                      pc[r] # "idle", r \in W, WaitsWithin(W),
                      \A q \in W : ~CanProgress(q)
               PROVE  FALSE
    BY DEF SomebodyGoesOn
  <1>i. SessionsTypeOK /\ HoldersBusy
    BY DEF SessionsInv, RowsInv, BusyInv
  <1> DEFINE F == {K \in SUBSET W : /\ K # {} /\ WaitsWithin(K)
                                    /\ \A d \in K : pc[d] # "idle"}
  <1>1. {d \in W : pc[d] # "idle"} \in F
    <2>1. \A d, e \in Request : Waits(d, e) => pc[e] # "idle"
      BY <1>i DEF Waits, HoldersBusy
    <2> QED
      BY <2>1 DEF WaitsWithin
  <1>2. PICK K \in F : \A J \in F : J \subseteq K => J = K
    <2>1. F \in SUBSET (SUBSET Request) /\ F # {}
      BY <1>1
    <2> HIDE DEF F
    <2> QED
      BY <2>1, SmallestSet
  <1>3. \A d \in K : \E e \in K : Waits(d, e)
    BY <1>i, BlockedWaits DEF WaitsWithin
  <1>4. ASSUME NEW d \in K, \A e \in K : ~Waits(e, d)
        PROVE  FALSE
    <2>1. K \ {d} # {}
      BY <1>3 DEF Waits
    <2>2. WaitsWithin(K \ {d})
      BY <1>4 DEF WaitsWithin
    <2>3. K \ {d} \in F
      BY <2>1, <2>2
    <2> QED
      BY <1>2, <2>3
  <1>5. K \in SUBSET Request /\ K # {}
    OBVIOUS
  <1>6. \A d \in K : Deadlocked(d)
    BY <1>3, <1>4, <1>5 DEF Deadlocked
  <1> QED
    BY <1>5, <1>6 DEF CanProgress

(* No request waits for good for the rows of others: among those it waits  *)
(* for, directly or not, one can take its next step, or the database finds *)
(* the deadlock and aborts one of them.                                    *)
THEOREM NobodyWaitsForGood == SessionsSpec => []SomebodyGoesOn
  BY SomebodyCan, SessionsCorrect, PTL

-----------------------------------------------------------------------------
(* Tokens that are no longer accepted.                                     *)

(* A token the server has once refused to go on with, because it was       *)
(* rotated, revoked or expired or its row is gone, is never accepted       *)
(* again: neither for a refresh nor, as an access token's session, by      *)
(* requireAuth (isActive).                                                 *)
SpentForGood == [][\A s \in 1 .. issued : ~Active(s) => ~Active(s)']_sessionVars

LEMMA SpentStep ==
    ASSUME SessionsInv, [SessionsNext]_sessionVars, NEW s \in 1 .. issued, ~Active(s)
    PROVE  ~Active(s)'
  <1>i. SessionsTypeOK /\ issued \in Nat
    BY DEF SessionsInv, RowsInv, SessionsTypeOK
  <1>1. CASE /\ stored' \subseteq stored /\ rotated \subseteq rotated'
             /\ revoked \subseteq revoked' /\ expired \subseteq expired'
    BY <1>1 DEF Active
  <1>2. CASE /\ stored' = stored \cup {issued + 1} /\ rotated \subseteq rotated'
             /\ revoked \subseteq revoked' /\ expired \subseteq expired'
    <2>1. s # issued + 1
      BY <1>i
    <2> QED
      BY <1>2, <2>1 DEF Active
  <1>3. CASE UNCHANGED sessionVars
    BY <1>1, <1>3 DEF sessionVars, rowVars
  <1>4. CASE SessionsNext
    BY <1>1, <1>2, <1>4
    DEF SessionsNext, Arrive, Progress, Fail, Rollback, AbortDeadlock, CreateChallenge,
        VerifyFind, Consume, CreateSession, Insert, RotateLive, RotateCommit, RotateExpired,
        RotateReused, RevokeFamily, Logout, LogoutAll, LockTarget, RevokeCommit,
        Answered, ExpireChallenge, ExpireSession, Cleanup, rowVars
  <1> QED
    BY <1>3, <1>4

(* A token once refused is refused for good.                               *)
THEOREM SpentStaysSpent == SessionsSpec => SpentForGood
  <1> DEFINE Refused == \A s \in 1 .. issued : ~Active(s) => ~Active(s)'
  <1>1. SessionsInv /\ [SessionsNext]_sessionVars => [Refused]_sessionVars
    BY SpentStep
  <1>2. SessionsSpec => [][Refused]_sessionVars
    <2> HIDE DEF Refused
    <2> QED
      BY <1>1, SessionsCorrect, PTL DEF SessionsSpec
  <1> QED
    BY <1>2 DEF SpentForGood

-----------------------------------------------------------------------------
(* Whose a session is.                                                     *)

(* Through any number of rotations a session belongs to the wallet that    *)
(* asked for the challenge its family's login has proved.                  *)
SessionsBelongToAsker ==
    \A s \in 1 .. issued : owner[s] = asker[proof[s]] /\ proof[s] = proof[family[s]]

LEMMA OwnersStep ==
    ASSUME SessionsInv, SessionsBelongToAsker, [SessionsNext]_sessionVars
    PROVE  SessionsBelongToAsker'
  <1>i. /\ SessionsTypeOK /\ FamiliesSound /\ LocksSound
        /\ ConsumedSound /\ ProofsSound /\ issued \in Nat
    BY DEF SessionsInv, RowsInv, LocksInv, LoginInv, SessionsTypeOK
  <1>1. CASE UNCHANGED <<asker, issued, owner, proof, family>>
    BY <1>1 DEF SessionsBelongToAsker
  <1>2. ASSUME NEW c \in Challenge, NEW w \in Wallet, CreateChallenge(c, w)
        PROVE  SessionsBelongToAsker'
    <2>1. \A s \in 1 .. issued : proof[s] # c
      BY <1>i, <1>2 DEF CreateChallenge, ProofsSound
    <2> QED
      BY <1>i, <1>2, <2>1 DEF CreateChallenge, SessionsBelongToAsker, ProofsSound,
                              SessionsTypeOK, rowVars
  <1> DEFINE n == issued + 1
  <1>3. ASSUME n \in Sid, NEW f \in 1 .. n, NEW login \in Challenge,
               UNCHANGED asker, issued' = n,
               family' = [family EXCEPT ![n] = f],
               owner' = [owner EXCEPT ![n] = asker[login]],
               proof' = [proof EXCEPT ![n] = login],
               f = n \/ proof[f] = login
        PROVE  SessionsBelongToAsker'
    <2>1. \A s \in 1 .. issued' : s = n \/ s \in 1 .. issued
      BY <1>i, <1>3
    <2>a. MaxSessions \in Nat /\ n \in Nat /\ n <= MaxSessions
      BY <1>i, <1>3, BoundAssumption DEF Sid
    <2>2. \A s \in 1 .. issued : s # n /\ s \in Sid /\ family[s] # n
      <3> SUFFICES ASSUME NEW s \in 1 .. issued
                   PROVE  s # n /\ s \in Sid /\ family[s] # n
        OBVIOUS
      <3>1. s \in Nat /\ s >= 1 /\ s < n
        BY <1>i
      <3>2. family[s] \in 1 .. s
        BY <1>i DEF FamiliesSound
      <3>3. family[s] # n
        BY <3>1, <3>2, <2>a
      <3>4. s \in 1 .. MaxSessions
        BY <3>1, <2>a
      <3> QED
        BY <3>1, <3>3, <3>4 DEF Sid
    <2>3. f \in Sid
      BY <1>3, <2>a DEF Sid
    <2> HIDE DEF n
    <2>4. \A s \in 1 .. issued : owner'[s] = asker'[proof'[s]] /\ proof'[s] = proof'[family'[s]]
      BY <1>i, <1>3, <2>2 DEF SessionsBelongToAsker, SessionsTypeOK
    <2>5. owner'[n] = asker'[proof'[n]] /\ proof'[n] = proof'[family'[n]]
      BY <1>i, <1>3, <2>3 DEF SessionsTypeOK
    <2> QED
      BY <2>1, <2>4, <2>5 DEF SessionsBelongToAsker
  <1>4. ASSUME NEW r \in Request, CreateSession(r)
        PROVE  SessionsBelongToAsker'
    <2>1. n \in Sid
      BY <1>i, <1>4, RoomForOneMore DEF CreateSession, Inserting, SessionsInv
    <2>2. subject[r] \in Challenge /\ n \in 1 .. n
      BY <1>i, <1>4 DEF CreateSession, ConsumedSound
    <2>3. /\ issued' = n /\ family' = [family EXCEPT ![n] = n]
          /\ owner' = [owner EXCEPT ![n] = asker[subject[r]]]
          /\ proof' = [proof EXCEPT ![n] = subject[r]]
          /\ UNCHANGED asker
      BY <1>4 DEF CreateSession, Insert, challengeVars
    <2> HIDE DEF n
    <2> QED
      BY <1>3, <2>1, <2>2, <2>3
  <1>5. ASSUME NEW r \in Request, RotateCommit(r)
        PROVE  SessionsBelongToAsker'
    <2> DEFINE s == subject[r]
               f == family[s]
    <2>1. n \in Sid
      BY <1>i, <1>5, RoomForOneMore DEF RotateCommit, Inserting, SessionsInv
    <2>2. s \in stored /\ s \in 1 .. issued
      BY <1>i, <1>5 DEF RotateCommit, LocksSound, SessionsTypeOK, Sid
    <2>3. f \in 1 .. s /\ f \in Nat /\ f # None
      BY <1>i, <2>2, NoneAssumption DEF FamiliesSound
    <2>4. proof[s] \in Challenge /\ owner[s] = asker[proof[s]] /\ proof[f] = proof[s]
      BY <1>i, <2>2 DEF ProofsSound, SessionsBelongToAsker
    <2>5. /\ issued' = n /\ family' = [family EXCEPT ![n] = f]
          /\ owner' = [owner EXCEPT ![n] = owner[s]]
          /\ proof' = [proof EXCEPT ![n] = proof[s]]
          /\ UNCHANGED asker
      BY <1>5, <2>3 DEF RotateCommit, Insert, challengeVars
    <2>6. f \in 1 .. n
      BY <1>i, <2>2, <2>3
    <2> HIDE DEF n, s, f
    <2> QED
      BY <1>3, <2>1, <2>4, <2>5, <2>6
  <1>6. CASE UNCHANGED sessionVars
    BY <1>1, <1>6 DEF sessionVars, rowVars, challengeVars
  <1>7. CASE SessionsNext
    BY <1>1, <1>2, <1>4, <1>5, <1>7
    DEF SessionsNext, Arrive, Progress, Fail, Rollback, AbortDeadlock, VerifyFind, Consume,
        RotateLive, RotateExpired, RotateReused, RevokeFamily, Logout, LogoutAll,
        LockTarget, RevokeCommit, ExpireChallenge, ExpireSession, Cleanup, rowVars,
        challengeVars
  <1> QED
    BY <1>6, <1>7

(* A session is of the wallet that asked for its login's challenge.        *)
THEOREM SessionsBelong == SessionsSpec => []SessionsBelongToAsker
  <1>1. SessionsInit => SessionsBelongToAsker
    BY DEF SessionsInit, SessionsBelongToAsker
  <1>2. SessionsInv /\ SessionsBelongToAsker /\ [SessionsNext]_sessionVars => SessionsBelongToAsker'
    BY OwnersStep
  <1> QED
    BY <1>1, <1>2, SessionsCorrect, PTL DEF SessionsSpec
=============================================================================
