-------------------------- MODULE Services_proofs --------------------------
(***************************************************************************)
(* The services of the backend that keep no history of their own.          *)
(*                                                                         *)
(* Horizon: for any number of requests and retries, any lifetimes and any  *)
(* threshold of the breaker, what the cache answers is of a bounded age,   *)
(* and nobody passes a breaker that has tripped before the cooldown,       *)
(* whatever the requests under way do to its counter.  Reconcile: for any  *)
(* groups, any number of writers and any page size, a scan of rows that do *)
(* not tie skips none, the members of a group stay one list and a repair   *)
(* nobody disturbs leaves the rows it scanned as the chain has them.  Api: *)
(* an address has one profile, and the pages of a growing history make up  *)
(* a complete list of what was there.                                      *)
(***************************************************************************)
EXTENDS Horizon, Reconcile, Api, FiniteSetTheorems, SequenceTheorems,
        WellFoundedInduction, TLAPS

-----------------------------------------------------------------------------
(* The cache and the breaker.                                              *)

HorizonTypeOK ==
    /\ failures \in Nat
    /\ isOpen \in BOOLEAN
    /\ lastFailure \in Nat
    /\ cache \in [read : Nat, cached : Nat]
    /\ served \in Nat
    /\ tripped \in Nat
    /\ call \in [Caller ->
         {NoCall}
         \cup [at : {"calling"}, what : {"account", "records"}, left : Nat,
               age : 0 .. REQUEST_TIMEOUT]
         \cup [at : {"backoff"}, what : {"account", "records"}, left : Nat]]

\* A breaker that tripped within the cooldown is open, whatever its failures
\* are set to meanwhile, and the failure it dates its opening by is as late.
TrippedSound == tripped <= Cooldown => isOpen /\ lastFailure <= tripped

\* The cache dates a reading by the end of a call that took no longer than
\* its timeout.
CacheDated == cache.cached < CACHE_TTL => cache.read <= cache.cached + REQUEST_TIMEOUT

HorizonInv ==
    /\ HorizonTypeOK
    /\ TrippedSound
    /\ CacheDated
    /\ AccountAgeBounded

-----------------------------------------------------------------------------
LEMMA HorizonInvInit == HorizonInit => HorizonInv
  <1> SUFFICES ASSUME HorizonInit PROVE HorizonInv
    OBVIOUS
  <1>1. HorizonTypeOK
    <2>1. isOpen \in BOOLEAN
      BY Zenon DEF HorizonInit
    <2>2. cache \in [read : Nat, cached : Nat] /\ lastFailure \in Nat
        /\ tripped \in Nat
      BY HorizonAssumption DEF HorizonInit, NotCached
    <2> QED
      BY <2>1, <2>2 DEF HorizonInit, HorizonTypeOK
  <1>2. CacheDated /\ AccountAgeBounded
    BY HorizonAssumption DEF HorizonInit, CacheDated, AccountAgeBounded, NotCached
  <1>3. TrippedSound
    BY HorizonAssumption DEF HorizonInit, TrippedSound
  <1> QED
    BY <1>1, <1>2, <1>3 DEF HorizonInv

(* Whoever passes the circuit comes after the cooldown of the last trip.   *)
LEMMA PassingIsLate ==
    ASSUME HorizonInv, PassCircuit
    PROVE  tripped > Cooldown
  BY HorizonAssumption
  DEF HorizonInv, HorizonTypeOK, TrippedSound, PassCircuit, Admits, Cooled

(* Passing the circuit leaves it closed, which it may be by then.          *)
LEMMA PassingKeeps ==
    ASSUME HorizonInv, PassCircuit, tripped' = tripped
    PROVE  failures' \in Nat /\ isOpen' \in BOOLEAN /\ TrippedSound'
  <1>1. isOpen' = FALSE /\ (failures' = 0 \/ (~isOpen /\ failures' = failures))
    BY DEF PassCircuit
  <1>2. isOpen' \in BOOLEAN
    BY <1>1, Zenon
  <1>3. failures' \in Nat
    BY <1>1 DEF HorizonInv, HorizonTypeOK
  <1>4. TrippedSound'
    BY PassingIsLate, HorizonAssumption DEF HorizonInv, HorizonTypeOK, TrippedSound
  <1> QED
    BY <1>2, <1>3, <1>4

LEMMA CountingKeeps ==
    ASSUME HorizonInv, CountFailure
    PROVE  /\ failures' \in Nat /\ isOpen' \in BOOLEAN /\ lastFailure' \in Nat
           /\ tripped' \in Nat /\ TrippedSound'
  <1>1. isOpen' = (isOpen \/ failures' >= Threshold)
    BY DEF CountFailure, Opened
  <1>2. isOpen' \in BOOLEAN
    BY <1>1, Zenon
  <1>3. failures' \in Nat /\ lastFailure' = 0 /\ tripped' \in Nat
        /\ tripped' = IF failures' >= Threshold THEN 0 ELSE tripped
    BY DEF HorizonInv, HorizonTypeOK, CountFailure
  <1>4. TrippedSound'
    <2> SUFFICES ASSUME tripped' <= Cooldown
                 PROVE  isOpen' /\ lastFailure' <= tripped'
      BY DEF TrippedSound
    <2>1. isOpen \/ failures' >= Threshold
      BY <1>3 DEF TrippedSound, HorizonInv
    <2>2. lastFailure' <= tripped'
      BY <1>3
    <2> QED
      BY <1>1, <2>1, <2>2, Zenon
  <1> QED
    BY <1>2, <1>3, <1>4

LEMMA HorizonInvStep == HorizonInv /\ [HorizonNext]_horizonVars => HorizonInv'
  <1> SUFFICES ASSUME HorizonInv, [HorizonNext]_horizonVars PROVE HorizonInv'
    OBVIOUS
  <1>i. HorizonTypeOK /\ TrippedSound /\ CacheDated /\ AccountAgeBounded
    BY DEF HorizonInv
  <1>1. ASSUME NEW r \in Caller, CacheHit(r)
        PROVE  HorizonInv'
    <2>1. failures' \in Nat /\ isOpen' \in BOOLEAN /\ TrippedSound'
      BY <1>1, PassingKeeps DEF CacheHit
    <2>2. /\ cache' = cache /\ cache.cached < CACHE_TTL /\ served' = cache.read
          /\ lastFailure' = lastFailure /\ call' = call
          /\ tripped' = tripped
      BY <1>1 DEF CacheHit, Hit
    <2>3. CacheDated' /\ AccountAgeBounded'
      BY <1>i, <2>2, HorizonAssumption
      DEF CacheDated, AccountAgeBounded, HorizonTypeOK
    <2>4. HorizonTypeOK'
      BY <1>i, <2>1, <2>2 DEF HorizonTypeOK
    <2> QED
      BY <2>1, <2>3, <2>4 DEF HorizonInv
  <1>2. ASSUME NEW r \in Caller, NEW what \in {"account", "records"}, Begin(r, what)
        PROVE  HorizonInv'
    <2>1. failures' \in Nat /\ isOpen' \in BOOLEAN /\ TrippedSound'
      BY <1>2, PassingKeeps DEF Begin
    <2>2. Calling(what, Retries) \in
            [at : {"calling"}, what : {"account", "records"}, left : Nat,
             age : 0 .. REQUEST_TIMEOUT]
      BY HorizonAssumption DEF Calling
    <2>3. HorizonTypeOK'
      BY <1>i, <1>2, <2>1, <2>2 DEF Begin, HorizonTypeOK
    <2>4. CacheDated' /\ AccountAgeBounded'
      BY <1>i, <1>2 DEF Begin, CacheDated, AccountAgeBounded
    <2> QED
      BY <2>1, <2>3, <2>4 DEF HorizonInv
  <1>3. ASSUME NEW r \in Caller, Succeed(r)
        PROVE  HorizonInv'
    <2>1. call[r] \in [at : {"calling"}, what : {"account", "records"}, left : Nat,
                       age : 0 .. REQUEST_TIMEOUT]
      BY <1>i, <1>3 DEF Succeed, HorizonTypeOK, NoCall
    <2>2. /\ call' = [call EXCEPT ![r] = NoCall]
          /\ isOpen' = isOpen /\ lastFailure' = lastFailure /\ tripped' = tripped
      BY <1>3 DEF Succeed, SuccessResets
    <2>3. CASE call[r].what = "account"
      <3>1. /\ cache' = [read |-> call[r].age, cached |-> 0]
            /\ served' = call[r].age /\ failures' = 0
        BY <1>3, <2>3 DEF Succeed, SuccessResets
      <3>2. call[r].age \in 0 .. REQUEST_TIMEOUT
        BY <2>1
      <3>3. TrippedSound' /\ CacheDated' /\ AccountAgeBounded'
        BY <1>i, <2>2, <3>1, <3>2, HorizonAssumption
        DEF TrippedSound, CacheDated, AccountAgeBounded
      <3>4. HorizonTypeOK'
        BY <1>i, <2>2, <3>1, <3>2, HorizonAssumption DEF HorizonTypeOK
      <3> QED
        BY <3>3, <3>4 DEF HorizonInv
    <2>4. CASE call[r].what # "account"
      BY <1>i, <1>3, <2>2, <2>4
      DEF Succeed, HorizonInv, HorizonTypeOK, TrippedSound, CacheDated,
          AccountAgeBounded
    <2> QED
      BY <2>3, <2>4
  <1>4. ASSUME NEW r \in Caller, CallAgain(r)
        PROVE  HorizonInv'
    <2>1. call[r] \in [at : {"backoff"}, what : {"account", "records"}, left : Nat]
      BY <1>i, <1>4 DEF CallAgain, HorizonTypeOK, NoCall
    <2>2. Calling(call[r].what, call[r].left) \in
            [at : {"calling"}, what : {"account", "records"}, left : Nat,
             age : 0 .. REQUEST_TIMEOUT]
      BY <2>1, HorizonAssumption DEF Calling
    <2>3. HorizonTypeOK'
      BY <1>i, <1>4, <2>2 DEF CallAgain, HorizonTypeOK
    <2> QED
      BY <1>i, <1>4, <2>3
      DEF CallAgain, HorizonInv, TrippedSound, CacheDated, AccountAgeBounded
  <1>5. ASSUME NEW r \in Caller, NEW error \in Errors, CallFails(r, error)
        PROVE  HorizonInv'
    <2>1. call[r] \in [at : {"calling"}, what : {"account", "records"}, left : Nat,
                       age : 0 .. REQUEST_TIMEOUT]
      BY <1>i, <1>5 DEF CallFails, HorizonTypeOK, NoCall
    <2>2. cache' = cache /\ served' = served /\ CacheDated' /\ AccountAgeBounded'
      BY <1>i, <1>5 DEF CallFails, CacheDated, AccountAgeBounded
    <2>3. CASE Retry(r)
      <3> DEFINE waiting == [at |-> "backoff", what |-> call[r].what,
                             left |-> call[r].left - 1]
      <3>1. call[r].left - 1 \in Nat /\ call[r].what \in {"account", "records"}
        BY <2>1, <2>3 DEF Retry
      <3>2. waiting \in [at : {"backoff"}, what : {"account", "records"}, left : Nat]
        BY <3>1
      <3>3. call' = [call EXCEPT ![r] = waiting]
        BY <2>3 DEF Retry
      <3> HIDE DEF waiting
      <3>4. HorizonTypeOK' /\ TrippedSound'
        BY <1>i, <2>2, <2>3, <3>2, <3>3 DEF Retry, HorizonTypeOK, TrippedSound
      <3> QED
        BY <2>2, <3>4 DEF HorizonInv
    <2>4. CASE GiveUp(r, error)
      <3>1. /\ failures' \in Nat /\ isOpen' \in BOOLEAN /\ lastFailure' \in Nat
            /\ tripped' \in Nat /\ TrippedSound'
        BY <1>i, <2>4, CountingKeeps DEF GiveUp, HorizonTypeOK, TrippedSound
      <3>2. HorizonTypeOK'
        BY <1>i, <2>2, <2>4, <3>1 DEF GiveUp, HorizonTypeOK
      <3> QED
        BY <2>2, <3>1, <3>2 DEF HorizonInv
    <2> QED
      BY <1>5, <2>3, <2>4 DEF CallFails
  <1>6. CASE HorizonTick
    <2>1. failures' = failures /\ isOpen' = isOpen /\ served' = served
      BY <1>6 DEF HorizonTick
    <2>2. lastFailure' \in Nat /\ tripped' \in Nat /\ TrippedSound'
      BY <1>i, <1>6, HorizonAssumption
      DEF HorizonTick, HorizonTypeOK, TrippedSound, Cooled
    <2>3. cache' \in [read : Nat, cached : Nat] /\ CacheDated'
      BY <1>i, <1>6, HorizonAssumption
      DEF HorizonTick, HorizonTypeOK, CacheDated, NotCached
    <2>4. call' \in [Caller ->
           {NoCall}
           \cup [at : {"calling"}, what : {"account", "records"}, left : Nat,
                 age : 0 .. REQUEST_TIMEOUT]
           \cup [at : {"backoff"}, what : {"account", "records"}, left : Nat]]
      <3> DEFINE Older(r) == IF call[r].at = "calling"
                             THEN [call[r] EXCEPT !.age = @ + 1] ELSE call[r]
      <3>1. ASSUME NEW r \in Caller
            PROVE  Older(r) \in
              {NoCall}
              \cup [at : {"calling"}, what : {"account", "records"}, left : Nat,
                    age : 0 .. REQUEST_TIMEOUT]
              \cup [at : {"backoff"}, what : {"account", "records"}, left : Nat]
        <4>1. CASE call[r].at = "calling"
          <5>1. call[r] \in [at : {"calling"}, what : {"account", "records"},
                             left : Nat, age : 0 .. REQUEST_TIMEOUT]
            BY <1>i, <4>1 DEF HorizonTypeOK, NoCall
          <5>2. call[r].age + 1 \in 0 .. REQUEST_TIMEOUT
            BY <1>6, <4>1, <5>1, HorizonAssumption DEF HorizonTick, InTime
          <5>3. [call[r] EXCEPT !.age = @ + 1] \in
                  [at : {"calling"}, what : {"account", "records"},
                   left : Nat, age : 0 .. REQUEST_TIMEOUT]
            BY <5>1, <5>2
          <5> QED
            BY <4>1, <5>3
        <4>2. CASE call[r].at # "calling"
          BY <1>i, <4>2 DEF HorizonTypeOK
        <4> QED
          BY <4>1, <4>2
      <3>2. call' = [r \in Caller |-> Older(r)]
        BY <1>6 DEF HorizonTick
      <3> HIDE DEF Older
      <3> QED
        BY <3>1, <3>2
    <2>5. HorizonTypeOK'
      BY <1>i, <2>1, <2>2, <2>3, <2>4 DEF HorizonTypeOK
    <2> QED
      BY <1>i, <2>1, <2>2, <2>3, <2>5 DEF HorizonInv, AccountAgeBounded
  <1>7. CASE UNCHANGED horizonVars
    BY <1>i, <1>7
    DEF horizonVars, HorizonInv, HorizonTypeOK, TrippedSound, CacheDated,
        AccountAgeBounded
  <1> QED
    BY <1>1, <1>2, <1>3, <1>4, <1>5, <1>6, <1>7 DEF HorizonNext

(* The inductive invariant of the cache and the breaker.                   *)
THEOREM HorizonCorrect == HorizonSpec => []HorizonInv
  BY HorizonInvInit, HorizonInvStep, PTL DEF HorizonSpec

(* An account is answered as it was at most CACHE_TTL and REQUEST_TIMEOUT  *)
(* ago.                                                                    *)
THEOREM AccountAgeHolds == HorizonSpec => []AccountAgeBounded
  <1>1. HorizonInv => AccountAgeBounded
    BY DEF HorizonInv
  <1> QED
    BY <1>1, HorizonCorrect, PTL

(* Whatever requests under way do to the count of failures, nobody is let  *)
(* through within the cooldown of the failure that made the threshold.     *)
THEOREM BreakerHoldsAlways == HorizonSpec => BreakerHolds
  <1> DEFINE Passing(r) == CacheHit(r) \/ Begin(r, "account") \/ Begin(r, "records")
             Held == \A r \in Caller : Passing(r) => tripped > Cooldown
  <1>1. HorizonInv => Held
    BY PassingIsLate DEF CacheHit, Begin
  <1>2. HorizonSpec => [][Held]_horizonVars
    <2>1. HorizonInv /\ [HorizonNext]_horizonVars => [Held]_horizonVars
      BY <1>1
    <2> HIDE DEF Held
    <2> QED
      BY <2>1, HorizonCorrect, PTL DEF HorizonSpec
  <1> QED
    BY <1>2 DEF BreakerHolds
-----------------------------------------------------------------------------
(* Sequences and the sets of what is in them.                              *)

NatLess == {p \in Nat \X Nat : p[1] < p[2]}

\* Every set of naturals with an element has a least one.
LEMMA LeastNatural ==
    ASSUME NEW T \in SUBSET Nat, T # {}
    PROVE  \E n \in T : \A m \in T : n <= m
<1>1. NatLess = OpToRel(<, Nat)
  BY Zenon DEF OpToRel, NatLess
<1>2. IsWellFoundedOn(NatLess, Nat)
  BY <1>1, NatLessThanWellFounded, Zenon
<1>3. PICK n \in T : \A m \in T : ~(<<m, n>> \in NatLess)
  BY <1>2, WFMin
<1>4. ASSUME NEW m \in T PROVE n <= m
  <2>1. n \in Nat /\ m \in Nat
    OBVIOUS
  <2>2. m < n => <<m, n>> \in NatLess
    BY <2>1 DEF NatLess
  <2> QED BY <2>1, <2>2, <1>3
<1> QED BY <1>3, <1>4

LEMMA OneMore ==
    ASSUME NEW S, NEW s \in Seq(S), NEW x \in S
    PROVE  /\ Append(s, x) \in Seq(S)
           /\ ToSet(Append(s, x)) = ToSet(s) \cup {x}
<1>1. DOMAIN s = 1 .. Len(s) /\ Len(s) \in Nat
  OBVIOUS
<1>2. /\ Append(s, x) \in Seq(S) /\ Len(Append(s, x)) = Len(s) + 1
      /\ \A i \in 1 .. Len(s) : Append(s, x)[i] = s[i]
      /\ Append(s, x)[Len(s) + 1] = x
  BY AppendProperties
<1>3. DOMAIN Append(s, x) = (1 .. Len(s)) \cup {Len(s) + 1}
  BY <1>1, <1>2
<1> QED BY <1>1, <1>2, <1>3 DEF ToSet

LEMMA OneBefore ==
    ASSUME NEW S, NEW s \in Seq(S), NEW x \in S
    PROVE  /\ <<x>> \o s \in Seq(S)
           /\ Len(<<x>> \o s) = Len(s) + 1
           /\ (<<x>> \o s)[1] = x
           /\ \A i \in 1 .. Len(s) : (<<x>> \o s)[i + 1] = s[i]
           /\ ToSet(<<x>> \o s) = {x} \cup ToSet(s)
<1> DEFINE t == <<x>> \o s
<1>1. DOMAIN s = 1 .. Len(s) /\ Len(s) \in Nat
  OBVIOUS
<1>2. /\ t \in Seq(S) /\ Len(t) = Len(s) + 1 /\ t[1] = x
      /\ \A i \in 1 .. Len(s) : t[i + 1] = s[i]
  <2>1. <<x>> \in Seq(S) /\ Len(<<x>>) = 1 /\ <<x>>[1] = x
    OBVIOUS
  <2>2. /\ t \in Seq(S) /\ Len(t) = 1 + Len(s)
        /\ \A i \in 1 .. 1 + Len(s) : t[i] = IF i <= 1 THEN <<x>>[i] ELSE s[i - 1]
    BY <2>1, ConcatProperties
  <2> HIDE DEF t
  <2>3. \A i \in 1 .. Len(s) : i + 1 \in 1 .. 1 + Len(s) /\ ~(i + 1 <= 1) /\ (i + 1) - 1 = i
    BY <1>1
  <2> QED BY <1>1, <2>1, <2>2, <2>3
<1> HIDE DEF t
<1>3. DOMAIN t = 1 .. Len(s) + 1
  BY <1>2
<1>4. \A i \in 1 .. Len(s) + 1 : i = 1 \/ (i - 1 \in 1 .. Len(s) /\ i = (i - 1) + 1)
  BY <1>1
<1>5. \A i \in 1 .. Len(s) : i + 1 \in 1 .. Len(s) + 1
  BY <1>1
<1>6. ToSet(t) \subseteq {x} \cup ToSet(s)
  <2>1. ASSUME NEW i \in 1 .. Len(s) + 1 PROVE t[i] \in {x} \cup ToSet(s)
    <3>1. CASE i = 1
      BY <1>2, <3>1
    <3>2. CASE i # 1
      <4>1. i - 1 \in 1 .. Len(s) /\ t[(i - 1) + 1] = s[i - 1] /\ i = (i - 1) + 1
        BY <1>2, <1>4, <3>2
      <4>2. t[i] = s[i - 1]
        BY <4>1
      <4> QED BY <1>1, <4>1, <4>2 DEF ToSet
    <3> QED BY <3>1, <3>2
  <2>2. ToSet(t) = {t[i] : i \in 1 .. Len(s) + 1}
    BY <1>3 DEF ToSet
  <2> QED BY <2>1, <2>2
<1>7. {x} \cup ToSet(s) \subseteq ToSet(t)
  BY <1>1, <1>2, <1>3, <1>5 DEF ToSet
<1> QED BY <1>2, <1>6, <1>7 DEF t

-----------------------------------------------------------------------------
(* The members of a group: what an open transaction has deleted is what    *)
(* there is, so that its commit leaves one list.                           *)

\* An id that NewList gives, also where there is none left.
AnyId == ListId \cup {NewList({}, 0).id}
MemberList == [id : AnyId, revision : Nat]
FixRecord == [group : Group, missing : BOOLEAN, token : BOOLEAN, members : BOOLEAN,
              revision : Nat, deleted : SUBSET MemberList]
Scan == [at : {"listing", "scanned", "repairing", "repaired"}, offset : Nat,
         page : Seq(Group), reports : Seq(FixRecord), known : SUBSET Group,
         scanned : SUBSET Group]
Reading == [at : {"reading"}, offset : Nat, page : Seq(Group),
            reports : Seq(FixRecord), known : SUBSET Group, scanned : SUBSET Group,
            group : Group, token : BOOLEAN, members : SUBSET MemberList]

\* Two writers never replace one group's members: the row is locked.
OneReplaces ==
    \A v, w \in Writer : \A g \in Group : Replacing(v, g) /\ Replacing(w, g) => v = w

\* Without a race a writer that replaces a group's members has found its
\* list, and so has every fix.
FoundAll ==
    /\ \A g \in Indexed : Cardinality(lists[g]) = 1
    /\ \A w \in Writer : \A g \in Group :
        Replacing(w, g) => upsert[w].deleted = lists[g] /\ ~Repairing(g)
    /\ \A i \in DOMAIN repair.fixes : repair.fixes[i].members =>
        repair.fixes[i].deleted = lists[repair.fixes[i].group]

\* The rows that precede a group's in every order of a table without ties.
Newer(g) == {h \in Indexed : createdAt[h] > createdAt[g]}

\* What the scan has not read yet lies on the page or behind the offset.
NothingPassed ==
    /\ run.at \in {"listing", "reading"} =>
        /\ ToSet(run.page) \subseteq Indexed /\ run.known \subseteq Indexed
        /\ Untied => \A g \in run.known :
            \/ g \in run.scanned \cup ToSet(run.page)
            \/ Cardinality(Newer(g)) >= run.offset
    /\ run.at = "reading" => run.group \in Indexed
    /\ run.at \in {"scanned", "repairing"} =>
        (Untied => run.known \subseteq run.scanned)

\* Every drift of a group is among these reports.
Noticed(g, reports) ==
    /\ g \in archived => \E fix \in reports : fix.group = g /\ fix.missing
    /\ g \in retokened \ archived => \E fix \in reports : fix.group = g /\ fix.token
    /\ \/ raced \/ g \in archived
       \/ {l.revision : l \in lists[g]} = {onchain[g]}
       \/ \E fix \in reports : fix.group = g /\ fix.members

Dated(reports) == \A fix \in reports : fix.revision = onchain[fix.group]

ReportsAgree ==
    /\ run.at \in {"listing", "reading", "scanned", "repairing"} =>
        Dated(ToSet(run.reports))
    /\ run.at \in {"listing", "scanned"} =>
        \A g \in run.scanned : Noticed(g, ToSet(run.reports))
    /\ run.at = "reading" =>
        /\ \A g \in run.scanned \ {run.group} : Noticed(g, ToSet(run.reports))
        /\ run.token = (run.group \in retokened)
        /\ run.members = lists[run.group]
    /\ run.at = "repairing" =>
        LET reports == ToSet(repair.todo) \cup ToSet(repair.fixes)
        IN  Dated(reports) /\ \A g \in run.scanned : Noticed(g, reports)
    /\ RepairedAgrees

Batch == [at : {"open"}, began : Stamp]
Upsert == [at : {"read"}, began : Stamp, group : Group, revision : Nat]
Replacement == [at : {"replacing"}, began : Stamp, group : Group, revision : Nat,
                deleted : SUBSET MemberList]
Upserts == {NoUpsert} \cup Batch \cup Upsert \cup Replacement

ReconcileTypeOK ==
    /\ onchain \in [Group -> Nat] /\ archived \in SUBSET Group
    /\ createdAt \in [Group -> Nat]
    /\ lists \in [Group -> SUBSET MemberList] /\ retokened \in SUBSET Group
    /\ upsert \in [Writer -> Upserts]
    /\ run \in {NoRun} \cup Scan \cup Reading
    /\ repair \in [todo : Seq(FixRecord), fixes : Seq(FixRecord)]
    /\ quiet \in BOOLEAN /\ raced \in BOOLEAN

ReconcileInv ==
    /\ ReconcileTypeOK
    /\ OneReplaces
    /\ raced \/ FoundAll
    /\ NothingPassed
    /\ quiet => ReportsAgree

LEMMA NewListType ==
    ASSUME NEW free \in SUBSET ListId, NEW r \in Nat
    PROVE  NewList(free, r) \in MemberList /\ NewList(free, r).revision = r
<1>1. NewList(free, r).id \in AnyId
  <2>1. CASE free = {}
    <3>1. NewList(free, r).id = NewList({}, 0).id
      BY <2>1 DEF NewList
    <3> QED BY <3>1 DEF AnyId
  <2>2. CASE free # {}
    <3>1. \E id \in free : \A other \in free : id <= other
      BY <2>2, LeastNatural, ReconcileAssumption
    <3>2. NewList(free, r).id = CHOOSE id \in free : \A other \in free : id <= other
      BY DEF NewList
    <3>3. NewList(free, r).id \in free
      BY <3>1, <3>2
    <3> QED BY <3>3 DEF AnyId
  <2> QED BY <2>1, <2>2
<1>2. NewList(free, r) = [id |-> NewList(free, r).id, revision |-> r]
  BY DEF NewList
<1> QED BY <1>1, <1>2 DEF MemberList

LEMMA RunKinds ==
    ASSUME ReconcileTypeOK
    PROVE  /\ run.at = "reading" => run \in Reading
           /\ run.at \in {"listing", "scanned", "repairing", "repaired"} => run \in Scan
           /\ run.at = "idle" => run = NoRun
           /\ run.at \in {"idle", "listing", "reading", "scanned", "repairing", "repaired"}
  BY DEF ReconcileTypeOK, Reading, Scan, NoRun

LEMMA UpsertKinds ==
    ASSUME ReconcileTypeOK, NEW w \in Writer
    PROVE  /\ upsert[w].at = "open" => upsert[w] \in Batch
           /\ upsert[w].at = "read" => upsert[w] \in Upsert
           /\ upsert[w].at = "replacing" => upsert[w] \in Replacement
           /\ upsert[w] \in Upserts
  BY DEF ReconcileTypeOK, Upserts, Batch, Upsert, Replacement, NoUpsert

LEMMA IndexedFinite ==
    /\ Indexed \in SUBSET Group
    /\ IsFiniteSet(Indexed)
    /\ Cardinality(Indexed) \in Nat
<1>1. Indexed \in SUBSET Group
  BY DEF Indexed
<1> QED BY <1>1, ReconcileAssumption, FS_Subset, FS_CardinalityType

LEMMA ReconcileInvInit == ReconcileInit => ReconcileInv
<1> SUFFICES ASSUME ReconcileInit PROVE ReconcileInv
  OBVIOUS
<1>1. /\ createdAt = [g \in Group |-> 0] /\ Indexed = {} /\ retokened = {} /\ archived = {}
      /\ run.at = "idle" /\ run = NoRun /\ repair = NoRepair
      /\ repair.fixes = <<>> /\ repair.todo = <<>> /\ raced = FALSE /\ quiet = FALSE
      /\ \A w \in Writer : upsert[w] = NoUpsert
  BY DEF ReconcileInit, Indexed, NoRun, NoRepair
<1>2. ReconcileTypeOK
  <2>1. archived \in SUBSET Group /\ retokened \in SUBSET Group
    BY <1>1
  <2>2. /\ onchain \in [Group -> Nat] /\ lists \in [Group -> SUBSET MemberList]
        /\ createdAt \in [Group -> Nat]
    BY DEF ReconcileInit
  <2>3. upsert \in [Writer -> Upserts]
    BY DEF ReconcileInit, Upserts
  <2>4. repair \in [todo : Seq(FixRecord), fixes : Seq(FixRecord)]
    BY <1>1 DEF NoRepair
  <2>5. quiet \in BOOLEAN /\ raced \in BOOLEAN
    BY <1>1
  <2>6. run \in {NoRun} \cup Scan \cup Reading
    BY <1>1
  <2> QED BY <2>1, <2>2, <2>3, <2>4, <2>5, <2>6 DEF ReconcileTypeOK
<1>3. \A w \in Writer : \A g \in Group : ~Replacing(w, g)
  BY <1>1 DEF Replacing, NoUpsert
<1>4. OneReplaces
  BY <1>3 DEF OneReplaces
<1>5. FoundAll
  <2>1. DOMAIN repair.fixes = {}
    BY <1>1
  <2> QED BY <1>1, <1>3, <2>1 DEF FoundAll
<1>6. NothingPassed
  BY <1>1 DEF NothingPassed
<1> QED BY <1>1, <1>2, <1>4, <1>5, <1>6 DEF ReconcileInv

(* Types. *)
LEMMA UpsertsTyped ==
    ASSUME ReconcileTypeOK, NEW w \in Writer,
           \/ \E g \in Group : ReadForUpsert(w, g)
           \/ BeginBatch(w) \/ ReplaceMembers(w) \/ CommitUpsert(w) \/ EndBatch(w)
    PROVE  ReconcileTypeOK'
<1>1. ASSUME NEW next \in Upserts,
             upsert' = [upsert EXCEPT ![w] = next], createdAt' \in [Group -> Nat],
             lists' \in [Group -> SUBSET MemberList], retokened' \in SUBSET Group,
             quiet' \in BOOLEAN, raced' \in BOOLEAN, UNCHANGED <<chainView, runVars>>
      PROVE  ReconcileTypeOK'
  BY <1>1 DEF ReconcileTypeOK, chainView, runVars
<1>2. ASSUME NEW g \in Group, ReadForUpsert(w, g) PROVE ReconcileTypeOK'
  <2>1. upsert[w] \in Batch
    BY <1>2, UpsertKinds DEF ReadForUpsert
  <2>3. onchain[g] \in Nat
    BY DEF ReconcileTypeOK
  <2>2. [at |-> "read", began |-> upsert[w].began, group |-> g,
         revision |-> onchain[g]] \in Upserts
    BY <2>1, <2>3 DEF Batch, Upsert, Upserts
  <2> QED BY <1>1, <1>2, <2>2 DEF ReadForUpsert, tableVars, ReconcileTypeOK
<1>3. CASE ReplaceMembers(w)
  <2>1. upsert[w] \in Upsert
    BY <1>3, UpsertKinds DEF ReplaceMembers
  <2>2. [at |-> "replacing", began |-> upsert[w].began, group |-> upsert[w].group,
         revision |-> upsert[w].revision, deleted |-> lists[upsert[w].group]] \in Upserts
    BY <2>1 DEF ReconcileTypeOK, Upsert, Replacement, Upserts
  <2>3. raced' \in BOOLEAN
    BY <1>3, Zenon DEF ReplaceMembers
  <2> QED BY <1>1, <1>3, <2>2, <2>3 DEF ReplaceMembers, tableVars, ReconcileTypeOK
<1>4. CASE CommitUpsert(w)
  <2> DEFINE g == upsert[w].group
             kept == lists[g] \ upsert[w].deleted
             found == FoundByRepair(g) \cup UNION {FoundBy(v, g) : v \in Writer \ {w}}
             new == NewList(FreeIds(kept, found), upsert[w].revision)
  <2>1. upsert[w] \in Replacement
    BY <1>4, UpsertKinds DEF CommitUpsert
  <2>2. g \in Group /\ upsert[w].revision \in Nat /\ upsert[w].began \in Stamp
    BY <2>1 DEF Replacement
  <2>3. new \in MemberList
    <3>1. FreeIds(kept, found) \in SUBSET ListId
      BY DEF FreeIds
    <3> QED BY <2>2, <3>1, NewListType
  <2>4. /\ createdAt' = [createdAt EXCEPT ![g] = TimeOfRow(g, upsert[w].began)]
        /\ lists' = [lists EXCEPT ![g] = kept \cup {new}]
        /\ retokened' = retokened \ {g}
        /\ upsert' = [upsert EXCEPT ![w] = [at |-> "open", began |-> upsert[w].began]]
        /\ quiet' = FALSE /\ UNCHANGED <<chainView, runVars, raced>>
    BY <1>4 DEF CommitUpsert
  <2> HIDE DEF new
  <2>5. lists' \in [Group -> SUBSET MemberList]
    BY <2>2, <2>3, <2>4 DEF ReconcileTypeOK
  <2>6. createdAt' \in [Group -> Nat]
    <3>1. TimeOfRow(g, upsert[w].began) \in Nat
      BY <2>2, ReconcileAssumption DEF TimeOfRow, ReconcileTypeOK
    <3> QED BY <2>4, <3>1 DEF ReconcileTypeOK
  <2>7. [at |-> "open", began |-> upsert[w].began] \in Upserts
    BY <2>2 DEF Batch, Upserts
  <2> HIDE DEF g
  <2> QED BY <1>1, <2>4, <2>5, <2>6, <2>7 DEF ReconcileTypeOK
<1>5. CASE EndBatch(w)
  BY <1>1, <1>5 DEF EndBatch, tableVars, ReconcileTypeOK, Upserts
<1>6. CASE BeginBatch(w)
  <2>1. PICK t \in Stamp : upsert' = [upsert EXCEPT ![w] = [at |-> "open", began |-> t]]
    BY <1>6 DEF BeginBatch
  <2>2. [at |-> "open", began |-> t] \in Upserts
    BY DEF Batch, Upserts
  <2> QED BY <1>1, <1>6, <2>1, <2>2 DEF BeginBatch, tableVars, ReconcileTypeOK
<1> QED BY <1>2, <1>3, <1>4, <1>5, <1>6

(* A page is a part of the order, from the offset on.                      *)
LEMMA PageKept ==
    ASSUME NEW order \in Orders, NEW offset \in Nat
    PROVE  /\ Page(order, offset) \in Seq(Group)
           /\ ToSet(Page(order, offset)) \subseteq Indexed
           /\ \A i \in 1 .. Cardinality(Indexed) :
                i > offset /\ i <= offset + PageSize =>
                    order[i] \in ToSet(Page(order, offset))
           /\ Page(order, offset) = <<>> =>
                \A i \in 1 .. Cardinality(Indexed) : ~(i > offset)
<1> DEFINE last == Min({offset + PageSize, Len(order)})
           page == Page(order, offset)
<1>0. order \in Seq(Indexed) /\ Len(order) = Cardinality(Indexed)
  <2>1. order \in [1 .. Cardinality(Indexed) -> Indexed] /\ Cardinality(Indexed) \in Nat
    BY IndexedFinite DEF Orders
  <2> QED BY <2>1
<1>1. PageSize \in Nat /\ PageSize > 0 /\ Len(order) \in Nat
  BY <1>0, ReconcileAssumption
<1>2. /\ last \in Nat /\ last <= Len(order) /\ last <= offset + PageSize
      /\ last = Len(order) \/ last = offset + PageSize
  <2>1. \E x \in {offset + PageSize, Len(order)} :
            \A y \in {offset + PageSize, Len(order)} : x <= y
    BY <1>1
  <2>2. /\ last \in {offset + PageSize, Len(order)}
        /\ \A y \in {offset + PageSize, Len(order)} : last <= y
    BY <2>1 DEF Min
  <2>3. offset + PageSize \in Nat
    BY <1>1
  <2> HIDE DEF last
  <2> QED BY <1>1, <2>2, <2>3
<1>3. page = SubSeq(order, offset + 1, last)
  BY DEF Page
<1> HIDE DEF last, page
<1>4. \A i \in offset + 1 .. last : order[i] \in Indexed
  BY <1>0, <1>1, <1>2
<1>5. /\ page \in Seq(Indexed)
      /\ Len(page) = IF offset + 1 <= last THEN last - (offset + 1) + 1 ELSE 0
      /\ \A i \in 1 .. last - (offset + 1) + 1 : page[i] = order[(offset + 1) + i - 1]
  BY <1>0, <1>2, <1>3, <1>4, SubSeqProperties
<1>6. DOMAIN page = 1 .. Len(page) /\ page \in Seq(Group)
  BY <1>5 DEF Indexed
<1>7. ASSUME NEW i \in 1 .. Len(page)
      PROVE  page[i] = order[offset + i]
  <2>1. offset + 1 <= last /\ i \in 1 .. last - (offset + 1) + 1
    BY <1>2, <1>5
  <2>2. (offset + 1) + i - 1 = offset + i
    BY <1>1, <1>2, <2>1
  <2> QED BY <1>5, <2>1, <2>2
<1>8. ToSet(page) \subseteq Indexed
  BY <1>5, <1>6 DEF ToSet
<1>9. ASSUME NEW i \in 1 .. Cardinality(Indexed), i > offset, i <= offset + PageSize
      PROVE  order[i] \in ToSet(page)
  <2>1. i <= last /\ i - offset \in 1 .. last - (offset + 1) + 1 /\ offset + 1 <= last
    BY <1>0, <1>1, <1>2, <1>9
  <2>2. i - offset \in 1 .. Len(page) /\ offset + (i - offset) = i
    BY <1>1, <1>2, <1>5, <2>1
  <2> QED BY <1>6, <1>7, <2>2 DEF ToSet
<1>10. ASSUME page = <<>>, NEW i \in 1 .. Cardinality(Indexed), i > offset
       PROVE  FALSE
  <2>1. Len(page) = 0
    BY <1>10
  <2>2. ~(offset + 1 <= last)
    BY <1>2, <1>5, <2>1
  <2> QED BY <1>0, <1>1, <1>2, <1>10, <2>2
<1> QED BY <1>6, <1>8, <1>9, <1>10 DEF page

(* Without ties a group comes, in any order, after those that are newer    *)
(* and no others.                                                          *)
LEMMA PlaceInOrder ==
    ASSUME ReconcileTypeOK, NEW order \in Orders, NEW g \in Indexed, Untied
    PROVE  \E p \in 1 .. Cardinality(Indexed) :
             order[p] = g /\ Cardinality(Newer(g)) = p - 1
<1> DEFINE n == Cardinality(Indexed)
<1>1. /\ n \in Nat /\ IsFiniteSet(Indexed) /\ Indexed \subseteq Group
      /\ order \in [1 .. n -> Indexed]
      /\ \A i, j \in 1 .. n :
            i # j => order[i] # order[j] /\
                     (i < j => createdAt[order[i]] >= createdAt[order[j]])
  BY IndexedFinite DEF Orders
<1> HIDE DEF n
<1>2. Cardinality(1 .. n) = n
  <2>1. 1 \in Int /\ n \in Int
    BY <1>1
  <2>2. Cardinality(1 .. n) = IF 1 > n THEN 0 ELSE n - 1 + 1
    BY <2>1, FS_Interval
  <2> QED BY <1>1, <2>2
<1>3. order \in Injection(1 .. n, Indexed)
  <2>1. \A i, j \in 1 .. n : order[i] = order[j] => i = j
    BY <1>1
  <2> QED BY <1>1, <2>1 DEF Injection, IsInjective
<1>4. order \in Surjection(1 .. n, Indexed)
  BY <1>1, <1>2, <1>3, FS_Injection DEF n
<1>5. \A h \in Indexed : \E i \in 1 .. n : order[i] = h
  BY <1>4 DEF Surjection
<1>6. PICK p \in 1 .. n : order[p] = g
  BY <1>5
<1>7. \A h \in Indexed : createdAt[h] \in Nat
  BY <1>1 DEF ReconcileTypeOK
<1>8. ASSUME NEW i \in 1 .. p - 1 PROVE i \in 1 .. n /\ order[i] \in Newer(g)
  <2>1. i \in 1 .. n /\ i < p /\ i # p
    BY <1>1, <1>6
  <2>2. order[i] # g /\ order[i] \in Indexed /\ createdAt[order[i]] >= createdAt[g]
    BY <1>1, <1>6, <2>1
  <2>3. createdAt[order[i]] # createdAt[g]
    BY <2>2 DEF Untied
  <2> QED BY <1>7, <2>1, <2>2, <2>3 DEF Newer
<1>9. ASSUME NEW h \in Newer(g) PROVE \E i \in 1 .. p - 1 : order[i] = h
  <2>1. h \in Indexed /\ createdAt[h] > createdAt[g] /\ createdAt[h] # createdAt[g]
    BY <1>7 DEF Newer
  <2>2. PICK i \in 1 .. n : order[i] = h
    BY <1>5, <2>1
  <2>3. i # p
    BY <1>6, <2>1, <2>2
  <2>4. ~(p < i)
    BY <1>1, <1>6, <1>7, <2>1, <2>2
  <2>5. i \in 1 .. p - 1
    BY <1>1, <2>3, <2>4
  <2> QED BY <2>2, <2>5
<1> DEFINE before == [i \in 1 .. p - 1 |-> order[i]]
<1>10. before \in Bijection(1 .. p - 1, Newer(g))
  <2>1. \A i \in 1 .. p - 1 : before[i] = order[i]
    OBVIOUS
  <2>2. before \in [1 .. p - 1 -> Newer(g)]
    BY <1>8
  <2> HIDE DEF before
  <2>3. before \in Injection(1 .. p - 1, Newer(g))
    <3>1. \A i, j \in 1 .. p - 1 : before[i] = before[j] => i = j
      BY <1>1, <1>8, <2>1
    <3> QED BY <2>2, <3>1 DEF Injection, IsInjective
  <2>4. before \in Surjection(1 .. p - 1, Newer(g))
    BY <1>9, <2>1, <2>2 DEF Surjection
  <2> QED BY <2>3, <2>4 DEF Bijection
<1> HIDE DEF before
<1>11. /\ IsFiniteSet(1 .. p - 1) /\ Cardinality(1 .. p - 1) = p - 1
  <2>1. 1 \in Int /\ p - 1 \in Int
    BY <1>1
  <2>2. /\ IsFiniteSet(1 .. p - 1)
        /\ Cardinality(1 .. p - 1) = IF 1 > p - 1 THEN 0 ELSE p - 1 - 1 + 1
    BY <2>1, FS_Interval
  <2> QED BY <1>1, <2>2
<1>12. Cardinality(Newer(g)) = p - 1
  <2>1. ExistsBijection(1 .. p - 1, Newer(g))
    BY <1>10 DEF ExistsBijection
  <2> QED BY <1>11, <2>1, FS_Bijection
<1> QED BY <1>6, <1>12 DEF n

(* The row of a batch that commits.                                        *)
LEMMA CommittedRow ==
    ASSUME ReconcileTypeOK, NEW g \in Group, NEW began \in Nat \ {0},
           createdAt' = [createdAt EXCEPT ![g] = TimeOfRow(g, began)]
    PROVE  /\ Indexed \subseteq Indexed'
           /\ g \in Indexed' /\ Indexed' \subseteq Indexed \cup {g}
           /\ \A h \in Indexed : createdAt'[h] = createdAt[h]
<1>1. /\ createdAt \in [Group -> Nat]
      /\ createdAt'[g] = IF createdAt[g] > 0 THEN createdAt[g] ELSE began
      /\ \A h \in Group : h # g => createdAt'[h] = createdAt[h]
  BY DEF ReconcileTypeOK, TimeOfRow, Indexed
<1>2. createdAt'[g] > 0
  BY <1>1
<1> QED BY <1>1, <1>2 DEF Indexed

LEMMA FixTyped ==
    ASSUME ReconcileTypeOK, run \in Reading, NEW missing \in BOOLEAN,
           NEW token \in BOOLEAN, NEW members \in BOOLEAN
    PROVE  Fix(missing, token, members) \in FixRecord
  BY DEF Fix, FixRecord, Reading, ReconcileTypeOK

LEMMA ScansTyped ==
    ASSUME ReconcileTypeOK,
           StartRun \/ ListPage \/ ReadRow \/ ReadChain \/ BeginRepair
    PROVE  ReconcileTypeOK'
<1>1. ASSUME run' \in Scan \cup Reading,
             repair' \in [todo : Seq(FixRecord), fixes : Seq(FixRecord)],
             quiet' \in BOOLEAN, UNCHANGED <<chainView, tableVars, upsert, raced>>
      PROVE  ReconcileTypeOK'
  BY <1>1 DEF ReconcileTypeOK, chainView, tableVars
<1>2. /\ repair \in [todo : Seq(FixRecord), fixes : Seq(FixRecord)]
      /\ quiet \in BOOLEAN
  BY DEF ReconcileTypeOK
<1>3. Indexed \in SUBSET Group
  BY DEF Indexed
<1>4. CASE StartRun
  <2>1. run' = [at |-> "listing", offset |-> 0, page |-> <<>>, reports |-> <<>>,
                known |-> Indexed, scanned |-> {}]
    BY <1>4 DEF StartRun
  <2>2. <<>> \in Seq(Group) /\ <<>> \in Seq(FixRecord)
    OBVIOUS
  <2>3. run' \in Scan
    BY <1>3, <2>1, <2>2 DEF Scan
  <2> QED BY <1>1, <1>2, <1>4, <2>3 DEF StartRun
<1>5. CASE ListPage
  <2>1. run \in Scan /\ run.offset \in Nat
    BY <1>5, RunKinds DEF ListPage, Scan
  <2>2. \A order \in Orders : Page(order, run.offset) \in Seq(Group)
    BY <2>1, PageKept
  <2>3. run.offset + PageSize \in Nat
    BY <2>1, ReconcileAssumption
  <2>4. PICK order \in Orders :
          \/ run' = [run EXCEPT !.page = Page(order, run.offset),
                                !.offset = run.offset + PageSize]
          \/ run' = [run EXCEPT !.at = "scanned"]
    BY <1>5 DEF ListPage
  <2>5. run' \in Scan
    BY <2>1, <2>2, <2>3, <2>4 DEF Scan
  <2> QED BY <1>1, <1>2, <1>5, <2>5 DEF ListPage
<1>6. CASE ReadRow
  <2>1. run \in Scan /\ run.page \in Seq(Group) /\ run.page # <<>>
    BY <1>6, RunKinds DEF ReadRow, Scan
  <2>2. Head(run.page) \in Group /\ Tail(run.page) \in Seq(Group)
    BY <2>1
  <2>3. lists[Head(run.page)] \in SUBSET MemberList
    BY <2>2 DEF ReconcileTypeOK
  <2>4. run' = [at |-> "reading", offset |-> run.offset, page |-> Tail(run.page),
                reports |-> run.reports, known |-> run.known,
                scanned |-> run.scanned \cup {Head(run.page)},
                group |-> Head(run.page), token |-> Head(run.page) \in retokened,
                members |-> lists[Head(run.page)]]
    BY <1>6 DEF ReadRow
  <2>5. /\ run.offset \in Nat /\ run.reports \in Seq(FixRecord) /\ run.known \in SUBSET Group
        /\ run.scanned \in SUBSET Group
    BY <2>1 DEF Scan
  <2>6. run.scanned \cup {Head(run.page)} \in SUBSET Group
    BY <2>2, <2>5
  <2>7. run' \in Reading
    BY <2>2, <2>3, <2>4, <2>5, <2>6 DEF Reading
  <2> QED BY <1>1, <1>2, <1>6, <2>7 DEF ReadRow
<1>7. CASE ReadChain
  <2>1. run \in Reading
    BY <1>7, RunKinds DEF ReadChain
  <2>2. ASSUME NEW reports \in Seq(FixRecord), Reported(reports) PROVE run' \in Scan
    BY <2>1, <2>2 DEF Reported, Reading, Scan
  <2>3. run.reports \in Seq(FixRecord) /\ run.token \in BOOLEAN
    BY <2>1 DEF Reading
  <2>4. \A fix \in FixRecord : Append(run.reports, fix) \in Seq(FixRecord)
    BY <2>3
  <2>5. CASE run.group \in archived
    <3>1. Fix(TRUE, FALSE, FALSE) \in FixRecord
      BY <2>1, FixTyped
    <3>2. Reported(Append(run.reports, Fix(TRUE, FALSE, FALSE)))
      BY <1>7, <2>5 DEF ReadChain
    <3>3. run' \in Scan
      BY <2>2, <2>4, <3>1, <3>2
    <3> QED BY <1>1, <1>2, <1>7, <3>3 DEF ReadChain
  <2>6. CASE run.group \notin archived
    <3>1. PICK members \in Notices(run.members, onchain[run.group]) :
            Reported(IF run.token \/ members
                     THEN Append(run.reports, Fix(FALSE, run.token, members))
                     ELSE run.reports)
      BY <1>7, <2>6 DEF ReadChain
    <3>2. members \in BOOLEAN
      BY <3>1 DEF Notices
    <3>3. Fix(FALSE, run.token, members) \in FixRecord
      BY <2>1, <2>3, <3>2, FixTyped
    <3>4. run' \in Scan
      BY <2>2, <2>3, <2>4, <3>1, <3>3
    <3> QED BY <1>1, <1>2, <1>7, <3>4 DEF ReadChain
  <2> QED BY <2>5, <2>6
<1>8. CASE BeginRepair
  <2>1. run \in Scan
    BY <1>8, RunKinds DEF BeginRepair
  <2>2. run.reports \in Seq(FixRecord) /\ <<>> \in Seq(FixRecord)
    BY <2>1 DEF Scan
  <2>3. [run EXCEPT !.at = "repairing"] \in Scan
    BY <2>1 DEF Scan
  <2>4. [todo |-> run.reports, fixes |-> <<>>] \in [todo : Seq(FixRecord), fixes : Seq(FixRecord)]
    BY <2>2
  <2> QED BY <1>1, <1>2, <1>8, <2>3, <2>4 DEF BeginRepair
<1> QED BY <1>4, <1>5, <1>6, <1>7, <1>8

LEMMA LastFix ==
    ASSUME ReconcileTypeOK, NEW g \in Relisted
    PROVE  \E i \in DOMAIN repair.fixes :
            /\ repair.fixes[i].group = g
            /\ LastRevision(g) = repair.fixes[i].revision
<1> DEFINE fixed == {i \in DOMAIN repair.fixes :
                        repair.fixes[i].group = g /\ repair.fixes[i].members}
           back == {Len(repair.fixes) - i : i \in fixed}
<1>1. /\ DOMAIN repair.fixes = 1 .. Len(repair.fixes)
      /\ Len(repair.fixes) \in Nat
  BY DEF ReconcileTypeOK
<1>2. fixed # {}
  BY DEF Relisted, FixesOf
<1>3. \A i \in fixed : i \in 1 .. Len(repair.fixes)
  BY <1>1
<1>4. back \in SUBSET Nat /\ back # {}
  <2>1. Len(repair.fixes) \in Nat
    BY <1>1
  <2> HIDE DEF fixed
  <2> QED BY <1>2, <1>3, <2>1
<1>5. PICK n \in back : \A m \in back : n <= m
  <2> HIDE DEF back
  <2> QED BY <1>4, LeastNatural
<1>6. PICK i \in fixed : n = Len(repair.fixes) - i
  OBVIOUS
<1>7. \A j \in fixed : Len(repair.fixes) - i <= Len(repair.fixes) - j
  BY <1>5, <1>6
<1>8. \A j \in i + 1 .. Len(repair.fixes) : j \notin fixed
  <2>1. Len(repair.fixes) \in Nat
    BY <1>1
  <2> HIDE DEF fixed
  <2> QED BY <1>3, <1>7, <2>1
<1>9. \E k \in DOMAIN repair.fixes :
        /\ repair.fixes[k].group = g /\ repair.fixes[k].members
        /\ \A j \in k + 1 .. Len(repair.fixes) :
            ~(repair.fixes[j].group = g /\ repair.fixes[j].members)
  <2>1. \A j \in i + 1 .. Len(repair.fixes) : j \in DOMAIN repair.fixes
    <3>1. i \in 1 .. Len(repair.fixes) /\ Len(repair.fixes) \in Nat
      BY <1>1, <1>3
    <3>2. \A j \in i + 1 .. Len(repair.fixes) : j \in 1 .. Len(repair.fixes)
      <4> HIDE DEF fixed
      <4> QED BY <3>1
    <3> QED BY <1>1, <3>2
  <2> QED BY <1>8, <2>1
<1> QED BY <1>9 DEF LastRevision

LEMMA RepairsTyped ==
    ASSUME ReconcileTypeOK, ApplyFix \/ CommitRepair \/ AbortRun
    PROVE  ReconcileTypeOK'
<1>1. NoRepair \in [todo : Seq(FixRecord), fixes : Seq(FixRecord)]
  <2>1. <<>> \in Seq(FixRecord)
    OBVIOUS
  <2> QED BY <2>1 DEF NoRepair
<1>2. repair.todo \in Seq(FixRecord) /\ repair.fixes \in Seq(FixRecord)
  BY DEF ReconcileTypeOK
<1>3. CASE ApplyFix
  <2> DEFINE fix == Head(repair.todo)
             deleted == IF fix.members THEN MembersDeleted(fix.group) ELSE {}
             done == [fix EXCEPT !.deleted = deleted]
  <2>1. repair.todo # <<>>
    BY <1>3 DEF ApplyFix
  <2>2. fix \in FixRecord /\ Tail(repair.todo) \in Seq(FixRecord)
    BY <1>2, <2>1
  <2>3. deleted \in SUBSET MemberList
    BY <2>2 DEF MembersDeleted, FixRecord, ReconcileTypeOK
  <2>4. done \in FixRecord
    <3> HIDE DEF fix, deleted
    <3> QED BY <2>2, <2>3 DEF FixRecord
  <2>5. repair' = [todo |-> Tail(repair.todo), fixes |-> Append(repair.fixes, done)]
    BY <1>3 DEF ApplyFix
  <2>6. Append(repair.fixes, done) \in Seq(FixRecord)
    <3> HIDE DEF done
    <3> QED BY <1>2, <2>4
  <2>7. repair' \in [todo : Seq(FixRecord), fixes : Seq(FixRecord)]
    <3> HIDE DEF done
    <3> QED BY <2>2, <2>5, <2>6
  <2>8. raced' \in BOOLEAN
    BY <1>3, Zenon DEF ApplyFix
  <2> QED BY <1>3, <2>7, <2>8 DEF ApplyFix, ReconcileTypeOK, chainView, tableVars
<1>4. CASE CommitRepair
  <2>1. run \in Scan
    BY <1>4, RunKinds DEF CommitRepair
  <2>2. run' \in Scan
    BY <1>4, <2>1 DEF CommitRepair, Scan
  <2>3. createdAt' \in [Group -> Nat]
    BY <1>4 DEF CommitRepair, ReconcileTypeOK
  <2>4. retokened' \in SUBSET Group
    BY <1>4 DEF CommitRepair, ReconcileTypeOK
  <2>5. ASSUME NEW g \in Group, g \in Relisted PROVE LastRevision(g) \in Nat
    <3>1. PICK i \in DOMAIN repair.fixes : LastRevision(g) = repair.fixes[i].revision
      BY <2>5, LastFix
    <3>2. repair.fixes[i] \in FixRecord
      BY <1>2
    <3> QED BY <3>1, <3>2 DEF FixRecord
  <2>6. ASSUME NEW g \in Group, NEW kept \in SUBSET MemberList, NEW found,
               g \in Relisted
        PROVE  NewList(FreeIds(kept, found), LastRevision(g)) \in MemberList
    <3>1. FreeIds(kept, found) \in SUBSET ListId
      BY DEF FreeIds
    <3> QED BY <2>5, <2>6, <3>1, NewListType
  <2>7. lists' \in [Group -> SUBSET MemberList]
    <3> DEFINE kept(g) == lists[g] \ FoundByRepair(g)
               found(g) == UNION {FoundBy(w, g) : w \in Writer}
               new(g) == NewList(FreeIds(kept(g), found(g)), LastRevision(g))
    <3>1. lists' = [g \in Group |-> CASE g \in Removed -> {}
                                      [] g \in Relisted -> kept(g) \cup {new(g)}
                                      [] OTHER -> lists[g]]
      BY <1>4 DEF CommitRepair
    <3>2. \A g \in Group : lists[g] \in SUBSET MemberList /\ kept(g) \in SUBSET MemberList
      BY DEF ReconcileTypeOK
    <3>3. \A g \in Group : g \in Relisted => new(g) \in MemberList
      BY <2>6, <3>2
    <3>4. \A g \in Removed : g \notin Relisted
      BY DEF Relisted
    <3> HIDE DEF kept, new
    <3> QED BY <3>1, <3>2, <3>3, <3>4
  <2> QED BY <1>1, <1>4, <2>2, <2>3, <2>4, <2>7
      DEF CommitRepair, ReconcileTypeOK, chainView
<1>5. CASE AbortRun
  BY <1>1, <1>5 DEF AbortRun, ReconcileTypeOK, chainView, tableVars
<1> QED BY <1>3, <1>4, <1>5

-----------------------------------------------------------------------------
(* One list of members.                                                    *)

\* A step after which fewer members are replaced, and no list has changed.
LEMMA FewerReplaced ==
    ASSUME OneReplaces, raced \/ FoundAll, raced' = raced,
           UNCHANGED <<createdAt, lists>>,
           \A w \in Writer : upsert'[w] = upsert[w] \/ upsert'[w].at # "replacing",
           repair' = repair \/ DOMAIN repair'.fixes = {}
    PROVE  OneReplaces' /\ (raced' \/ FoundAll')
<1>1. \A w \in Writer : \A g \in Group : Replacing(w, g)' =>
        Replacing(w, g) /\ upsert'[w] = upsert[w]
  BY DEF Replacing
<1>2. OneReplaces'
  BY <1>1 DEF OneReplaces
<1>3. \A g \in Group : Repairing(g)' => Repairing(g)
  BY DEF Repairing
<1>4. Indexed' = Indexed
  BY DEF Indexed
<1>5. FoundAll => FoundAll'
  BY <1>1, <1>3, <1>4 DEF FoundAll
<1> QED BY <1>2, <1>5

LEMMA ReplacedAlone ==
    ASSUME ReconcileTypeOK, OneReplaces, raced \/ FoundAll,
           NEW w \in Writer, ReplaceMembers(w)
    PROVE  OneReplaces' /\ (raced' \/ FoundAll')
<1> DEFINE g == upsert[w].group
<1>1. g \in Group /\ upsert[w].at = "read"
  BY UpsertKinds DEF ReplaceMembers, Upsert
<1>2. /\ upsert'[w] = [at |-> "replacing", began |-> upsert[w].began, group |-> g,
                       revision |-> upsert[w].revision, deleted |-> lists[g]]
      /\ \A v \in Writer : v # w => upsert'[v] = upsert[v]
  BY DEF ReplaceMembers, ReconcileTypeOK
<1>3. /\ \A v \in Writer : ~Replacing(v, g)
      /\ raced' = (raced \/ Repairing(g)) /\ UNCHANGED <<createdAt, lists, repair>>
  BY DEF ReplaceMembers, Locked, GroupFree, tableVars, runVars
<1>4. \A v \in Writer : \A h \in Group :
        Replacing(v, h)' => \/ v = w /\ h = g
                            \/ v # w /\ Replacing(v, h) /\ upsert'[v] = upsert[v]
  BY <1>2 DEF Replacing
<1>5. OneReplaces'
  <2> HIDE DEF g
  <2> QED BY <1>3, <1>4 DEF OneReplaces
<1>6. ASSUME ~raced' PROVE FoundAll'
  <2>1. ~raced /\ ~Repairing(g) /\ FoundAll
    BY <1>3, <1>6
  <2>2. Indexed' = Indexed /\ \A h : Repairing(h)' <=> Repairing(h)
    BY <1>3 DEF Indexed, Repairing
  <2>3. upsert'[w].deleted = lists[g]
    BY <1>2
  <2> HIDE DEF g
  <2> QED BY <1>3, <1>4, <2>1, <2>2, <2>3 DEF FoundAll
<1> QED BY <1>5, <1>6

LEMMA UpsertLeavesOne ==
    ASSUME ReconcileTypeOK, OneReplaces, raced \/ FoundAll,
           NEW w \in Writer, CommitUpsert(w)
    PROVE  OneReplaces' /\ (raced' \/ FoundAll')
<1> DEFINE g == upsert[w].group
           kept == lists[g] \ upsert[w].deleted
           found == FoundByRepair(g) \cup UNION {FoundBy(v, g) : v \in Writer \ {w}}
           new == NewList(FreeIds(kept, found), upsert[w].revision)
<1>1. g \in Group /\ Replacing(w, g)
  BY UpsertKinds DEF CommitUpsert, Replacement, Replacing
<1>2. /\ createdAt' = [createdAt EXCEPT ![g] = TimeOfRow(g, upsert[w].began)]
      /\ lists' = [lists EXCEPT ![g] = kept \cup {new}]
      /\ raced' = raced /\ repair' = repair
      /\ upsert'[w].at = "open"
      /\ \A v \in Writer : v # w => upsert'[v] = upsert[v]
  BY DEF CommitUpsert, runVars, ReconcileTypeOK
<1> HIDE DEF new
<1>3. \A v \in Writer : \A h \in Group :
        Replacing(v, h)' => v # w /\ Replacing(v, h) /\ upsert'[v] = upsert[v]
  BY <1>2 DEF Replacing
<1>4. OneReplaces'
  BY <1>3 DEF OneReplaces
<1>5. ASSUME ~raced' PROVE FoundAll'
  <2>1. FoundAll /\ upsert[w].deleted = lists[g] /\ ~Repairing(g)
    BY <1>1, <1>2, <1>5 DEF FoundAll
  <2>2. kept = {}
    BY <2>1
  <2>3. lists' = [lists EXCEPT ![g] = {new}] /\ lists \in [Group -> SUBSET MemberList]
    BY <1>2, <2>2 DEF ReconcileTypeOK
  <2>4. Cardinality({new}) = 1
    BY FS_Singleton
  <2>5. Indexed' = Indexed \cup {g}
    <3>1. upsert[w].began \in Nat \ {0}
      BY <1>1, UpsertKinds, ReconcileAssumption DEF Replacing, Replacement
    <3> HIDE DEF g
    <3>2. /\ Indexed \subseteq Indexed'
          /\ g \in Indexed' /\ Indexed' \subseteq Indexed \cup {g}
      BY <1>1, <1>2, <3>1, CommittedRow
    <3> QED BY <3>2
  <2> HIDE DEF g, kept
  <2>6. \A h \in Group : lists'[h] = IF h = g THEN {new} ELSE lists[h]
    BY <1>1, <2>3
  <2>7. \A h \in Indexed' : Cardinality(lists'[h]) = 1
    <3>1. Indexed \subseteq Group
      BY DEF Indexed
    <3> QED BY <1>1, <2>1, <2>4, <2>5, <2>6, <3>1 DEF FoundAll
  <2>8. \A v \in Writer : \A h \in Group : Replacing(v, h)' =>
            upsert'[v].deleted = lists'[h] /\ ~Repairing(h)'
    <3>1. \A h : Repairing(h)' <=> Repairing(h)
      BY <1>2 DEF Repairing
    <3>2. \A v \in Writer : \A h \in Group : Replacing(v, h)' => h # g
      BY <1>1, <1>3 DEF OneReplaces
    <3> QED BY <1>3, <2>1, <2>6, <3>1, <3>2 DEF FoundAll
  <2>9. \A i \in DOMAIN repair'.fixes : repair'.fixes[i].members =>
            repair'.fixes[i].deleted = lists'[repair'.fixes[i].group]
    <3>1. \A i \in DOMAIN repair.fixes : repair.fixes[i].group # g
                                      /\ repair.fixes[i].group \in Group
      <4>1. \A i \in DOMAIN repair.fixes : repair.fixes[i] \in FixRecord
        BY DEF ReconcileTypeOK
      <4> QED BY <2>1, <4>1 DEF Repairing, FixRecord
    <3> QED BY <1>2, <2>1, <2>6, <3>1 DEF FoundAll
  <2> QED BY <2>7, <2>8, <2>9 DEF FoundAll
<1> QED BY <1>4, <1>5

LEMMA FixFindsAll ==
    ASSUME ReconcileTypeOK, OneReplaces, raced \/ FoundAll, ApplyFix
    PROVE  OneReplaces' /\ (raced' \/ FoundAll')
<1> DEFINE fix == Head(repair.todo)
           deleted == IF fix.members THEN MembersDeleted(fix.group) ELSE {}
           done == [fix EXCEPT !.deleted = deleted]
<1>1. /\ repair.todo # <<>> /\ repair'.fixes = Append(repair.fixes, done)
      /\ raced' = (raced \/ \E w \in Writer : Replacing(w, fix.group))
      /\ UNCHANGED <<createdAt, lists, upsert>>
  BY DEF ApplyFix, tableVars
<1>2. fix \in FixRecord /\ repair.fixes \in Seq(FixRecord)
  BY <1>1 DEF ReconcileTypeOK
<1> HIDE DEF fix
<1>3. /\ done.group = fix.group /\ done.members = fix.members
      /\ done.members => done.deleted = lists[done.group]
  BY <1>2 DEF FixRecord, MembersDeleted
<1> HIDE DEF done
<1>4. /\ DOMAIN repair'.fixes = 1 .. Len(repair.fixes) + 1
      /\ DOMAIN repair.fixes = 1 .. Len(repair.fixes) /\ Len(repair.fixes) \in Nat
      /\ repair'.fixes[Len(repair.fixes) + 1] = done
      /\ \A i \in 1 .. Len(repair.fixes) : repair'.fixes[i] = repair.fixes[i]
  BY <1>1, <1>2
<1>5. \A i \in DOMAIN repair'.fixes :
        \/ repair'.fixes[i] = done
        \/ i \in DOMAIN repair.fixes /\ repair'.fixes[i] = repair.fixes[i]
  BY <1>4
<1>6. \A w : \A g : Replacing(w, g)' <=> Replacing(w, g)
  BY <1>1 DEF Replacing
<1>7. OneReplaces'
  BY <1>6 DEF OneReplaces
<1>8. ASSUME ~raced' PROVE FoundAll'
  <2>1. FoundAll /\ \A w \in Writer : ~Replacing(w, fix.group)
    BY <1>1, <1>8
  <2>2. \A g : Repairing(g)' => Repairing(g) \/ g = fix.group
    BY <1>3, <1>5 DEF Repairing
  <2>3. Indexed' = Indexed
    BY <1>1 DEF Indexed
  <2> QED BY <1>1, <1>3, <1>5, <1>6, <2>1, <2>2, <2>3 DEF FoundAll
<1> QED BY <1>7, <1>8

LEMMA RepairLeavesOne ==
    ASSUME ReconcileTypeOK, OneReplaces, raced \/ FoundAll, CommitRepair
    PROVE  OneReplaces' /\ (raced' \/ FoundAll')
<1> DEFINE kept(g) == lists[g] \ FoundByRepair(g)
           found(g) == UNION {FoundBy(w, g) : w \in Writer}
           new(g) == NewList(FreeIds(kept(g), found(g)), LastRevision(g))
<1>1. /\ createdAt' = [g \in Group |-> IF g \in Removed THEN 0 ELSE createdAt[g]]
      /\ repair' = NoRepair /\ raced' = raced /\ upsert' = upsert
      /\ lists' = [g \in Group |-> CASE g \in Removed -> {}
                                     [] g \in Relisted -> kept(g) \cup {new(g)}
                                     [] OTHER -> lists[g]]
  BY DEF CommitRepair
<1> HIDE DEF new
<1>2. Indexed' = Indexed \ Removed
  BY <1>1 DEF Indexed
<1>3. \A w : \A g : Replacing(w, g)' <=> Replacing(w, g)
  BY <1>1 DEF Replacing
<1>4. OneReplaces'
  BY <1>3 DEF OneReplaces
<1>5. ASSUME ~raced' PROVE FoundAll'
  <2>1. FoundAll
    BY <1>1, <1>5
  <2>2. ASSUME NEW g \in Relisted PROVE g \in Group \ Removed /\ kept(g) = {}
    <3>1. g \in Group \ Removed
      BY DEF Relisted
    <3>2. PICK i \in DOMAIN repair.fixes :
            repair.fixes[i].group = g /\ repair.fixes[i].members
      BY DEF Relisted, FixesOf
    <3>3. repair.fixes[i] \in FixesOf(g) /\ repair.fixes[i].deleted = lists[g]
      BY <2>1, <3>2 DEF FixesOf, FoundAll
    <3>4. lists[g] \subseteq FoundByRepair(g)
      BY <3>3 DEF FoundByRepair
    <3> QED BY <3>1, <3>4
  <2>3. \A g \in Relisted : lists'[g] = {new(g)} /\ Cardinality({new(g)}) = 1
    BY <1>1, <2>2, FS_Singleton
  <2>4. \A g \in Group \ (Removed \cup Relisted) : lists'[g] = lists[g]
    BY <1>1
  <2>5. \A g \in Indexed' : Cardinality(lists'[g]) = 1
    <3>1. Indexed \subseteq Group
      BY DEF Indexed
    <3> QED BY <1>2, <2>1, <2>3, <2>4, <3>1 DEF FoundAll
  <2>6. \A w \in Writer : \A g \in Group : Replacing(w, g)' =>
            upsert'[w].deleted = lists'[g] /\ ~Repairing(g)'
    <3>1. \A g : ~Repairing(g)'
      BY <1>1 DEF Repairing, NoRepair
    <3>2. ASSUME NEW w \in Writer, NEW g \in Group, Replacing(w, g)
          PROVE  upsert[w].deleted = lists[g] /\ g \notin Removed \cup Relisted
      BY <2>1, <3>2 DEF FoundAll, Removed, Relisted, FixesOf, Repairing
    <3> QED BY <1>1, <1>3, <2>4, <3>1, <3>2
  <2>7. DOMAIN repair'.fixes = {}
    BY <1>1 DEF NoRepair
  <2> QED BY <2>5, <2>6, <2>7 DEF FoundAll
<1> QED BY <1>4, <1>5
-----------------------------------------------------------------------------
(* The scan passes no row.                                                 *)

LEMMA OneLess ==
    ASSUME NEW S, NEW s \in Seq(S), s # <<>>
    PROVE  /\ Head(s) \in S /\ Tail(s) \in Seq(S)
           /\ ToSet(s) = {Head(s)} \cup ToSet(Tail(s))
<1>1. /\ Head(s) \in S /\ Tail(s) \in Seq(S) /\ s = <<Head(s)>> \o Tail(s)
  OBVIOUS
<1>2. ToSet(<<Head(s)>> \o Tail(s)) = {Head(s)} \cup ToSet(Tail(s))
  BY <1>1, OneBefore
<1> QED BY <1>1, <1>2

LEMMA SameRows ==
    ASSUME createdAt' = createdAt
    PROVE  /\ Indexed' = Indexed /\ (Untied' <=> Untied)
           /\ \A g : Newer(g)' = Newer(g)
<1>1. Indexed' = Indexed
  BY DEF Indexed
<1> QED BY <1>1 DEF Untied, Newer

LEMMA SamePlaces ==
    ASSUME NothingPassed, createdAt' = createdAt, run' = run
    PROVE  NothingPassed'
  BY SameRows DEF NothingPassed

\* A new row moves others to later places, never to earlier ones, and an
\* upsert leaves the place of a row as it is.
LEMMA RowsMoveBack ==
    ASSUME ReconcileTypeOK, NothingPassed, NEW g \in Group, NEW began \in Nat \ {0},
           createdAt' = [createdAt EXCEPT ![g] = TimeOfRow(g, began)], run' = run
    PROVE  NothingPassed'
<1>1. /\ Indexed \subseteq Indexed'
      /\ \A h \in Indexed : createdAt'[h] = createdAt[h]
  BY CommittedRow
<1>2. Untied' => Untied
  BY <1>1 DEF Untied
<1>3. ASSUME NEW h \in Indexed, NEW n \in Nat, Cardinality(Newer(h)) >= n
      PROVE  Cardinality(Newer(h)') >= n
  <2>1. Newer(h) \subseteq Newer(h)'
    BY <1>1 DEF Newer
  <2>2. Newer(h)' \in SUBSET Group
    BY DEF Newer, Indexed
  <2>3. IsFiniteSet(Newer(h)')
    BY <2>2, ReconcileAssumption, FS_Subset
  <2>4. /\ Cardinality(Newer(h)) <= Cardinality(Newer(h)')
        /\ IsFiniteSet(Newer(h))
    BY <2>1, <2>3, FS_Subset
  <2>5. Cardinality(Newer(h)) \in Nat /\ Cardinality(Newer(h)') \in Nat
    BY <2>3, <2>4, FS_CardinalityType
  <2> QED BY <1>3, <2>4, <2>5
<1>4. run.at \in {"listing", "reading"} => run.offset \in Nat
  BY RunKinds DEF Reading, Scan
<1> QED BY <1>1, <1>2, <1>3, <1>4 DEF NothingPassed

LEMMA ScanPassesNothing ==
    ASSUME ReconcileTypeOK, NothingPassed,
           StartRun \/ ListPage \/ ReadRow \/ ReadChain \/ BeginRepair
    PROVE  NothingPassed'
<1>1. createdAt' = createdAt
  BY DEF StartRun, ListPage, ReadRow, ReadChain, BeginRepair, tableVars
<1>2. /\ Indexed' = Indexed /\ (Untied' <=> Untied)
      /\ \A g : Newer(g)' = Newer(g)
  BY <1>1, SameRows
<1>3. CASE StartRun
  <2>1. /\ run'.at = "listing" /\ run'.offset = 0 /\ run'.page = <<>>
        /\ run'.known = Indexed /\ run'.scanned = {}
    BY <1>3 DEF StartRun
  <2>2. ToSet(run'.page) \subseteq Indexed' /\ run'.known \subseteq Indexed'
    BY <1>2, <2>1 DEF ToSet
  <2>3. ASSUME NEW g PROVE Cardinality(Newer(g)) >= 0
    <3>1. Newer(g) \in SUBSET Indexed
      BY DEF Newer
    <3>2. Cardinality(Newer(g)) \in Nat
      BY <3>1, IndexedFinite, FS_Subset, FS_CardinalityType
    <3> QED BY <3>2
  <2>4. \A g : Cardinality(Newer(g)') >= run'.offset
    BY <1>2, <2>1, <2>3
  <2> QED BY <2>1, <2>2, <2>4 DEF NothingPassed
<1>4. CASE ListPage
  <2>1. /\ run \in Scan /\ run.at = "listing" /\ run.page = <<>> /\ run.offset \in Nat
    BY <1>4, RunKinds DEF ListPage, Scan
  <2>2. ToSet(run.page) = {}
    BY <2>1 DEF ToSet
  <2>3. PICK order \in Orders :
            IF Page(order, run.offset) # <<>>
            THEN run' = [run EXCEPT !.page = Page(order, run.offset),
                                    !.offset = @ + PageSize]
            ELSE run' = [run EXCEPT !.at = "scanned"]
    BY <1>4 DEF ListPage
  <2> DEFINE page == Page(order, run.offset)
  <2>4. /\ ToSet(page) \subseteq Indexed
        /\ \A i \in 1 .. Cardinality(Indexed) :
              i > run.offset /\ i <= run.offset + PageSize => order[i] \in ToSet(page)
        /\ page = <<>> => \A i \in 1 .. Cardinality(Indexed) : ~(i > run.offset)
    BY <2>1, PageKept
  <2>5. run.known \subseteq Indexed
    BY <2>1 DEF NothingPassed
  <2>6. ASSUME Untied, NEW g \in run.known, g \notin run.scanned
        PROVE  /\ g \in ToSet(page) \/ Cardinality(Newer(g)) >= run.offset + PageSize
               /\ page # <<>>
    <3>1. g \in Indexed /\ Cardinality(Newer(g)) >= run.offset
      BY <2>1, <2>2, <2>5, <2>6 DEF NothingPassed
    <3>2. PICK p \in 1 .. Cardinality(Indexed) :
            order[p] = g /\ Cardinality(Newer(g)) = p - 1
      BY <2>6, <3>1, PlaceInOrder
    <3>3. p \in Nat /\ run.offset + PageSize \in Nat
      BY <2>1, IndexedFinite, ReconcileAssumption
    <3> HIDE DEF page
    <3>4. p > run.offset /\ page # <<>>
      BY <2>1, <2>4, <3>1, <3>2, <3>3
    <3>5. p <= run.offset + PageSize \/ p - 1 >= run.offset + PageSize
      BY <3>3
    <3> QED BY <2>4, <3>2, <3>4, <3>5
  <2> HIDE DEF page
  <2>7. CASE page # <<>>
    <3>1. /\ run'.at = "listing" /\ run'.offset = run.offset + PageSize
          /\ run'.page = page /\ run'.known = run.known /\ run'.scanned = run.scanned
      BY <2>1, <2>3, <2>7 DEF Scan, page
    <3>2. ToSet(run'.page) \subseteq Indexed' /\ run'.known \subseteq Indexed'
      BY <1>2, <2>4, <2>5, <3>1
    <3>3. Untied' => \A g \in run'.known :
            \/ g \in run'.scanned \cup ToSet(run'.page)
            \/ Cardinality(Newer(g)') >= run'.offset
      BY <1>2, <2>6, <3>1
    <3> QED BY <3>1, <3>2, <3>3 DEF NothingPassed
  <2>8. CASE page = <<>>
    <3>1. /\ run'.at = "scanned"
          /\ run'.known = run.known /\ run'.scanned = run.scanned
      BY <2>1, <2>3, <2>8 DEF Scan, page
    <3> QED BY <1>2, <2>6, <2>8, <3>1 DEF NothingPassed
  <2> QED BY <2>7, <2>8
<1>5. CASE ReadRow
  <2>1. run \in Scan /\ run.at = "listing" /\ run.page \in Seq(Group) /\ run.page # <<>>
    BY <1>5, RunKinds DEF ReadRow, Scan
  <2>2. /\ run'.at = "reading" /\ run'.offset = run.offset /\ run'.page = Tail(run.page)
        /\ run'.known = run.known /\ run'.scanned = run.scanned \cup {Head(run.page)}
        /\ run'.group = Head(run.page)
    BY <1>5 DEF ReadRow
  <2>3. ToSet(run.page) = {Head(run.page)} \cup ToSet(Tail(run.page))
    BY <2>1, OneLess
  <2>4. ToSet(run.page) \subseteq Indexed
    BY <2>1 DEF NothingPassed
  <2>5. Head(run.page) \in Indexed /\ ToSet(Tail(run.page)) \subseteq Indexed
    BY <2>3, <2>4
  <2>6. run.known \subseteq Indexed /\
        (Untied => \A g \in run.known :
            \/ g \in run.scanned \cup ToSet(run.page)
            \/ Cardinality(Newer(g)) >= run.offset)
    BY <2>1 DEF NothingPassed
  <2>7. /\ ToSet(run'.page) \subseteq Indexed' /\ run'.known \subseteq Indexed'
        /\ Untied' => \A g \in run'.known :
                \/ g \in run'.scanned \cup ToSet(run'.page)
                \/ Cardinality(Newer(g)') >= run'.offset
    BY <1>2, <2>2, <2>3, <2>5, <2>6
  <2> QED BY <1>2, <2>2, <2>5, <2>7 DEF NothingPassed
<1>6. CASE ReadChain
  <2>1. run.at = "reading"
    BY <1>6 DEF ReadChain
  <2>2. PICK reports : Reported(reports)
    BY <1>6 DEF ReadChain
  <2>3. /\ run'.at = "listing" /\ run'.offset = run.offset /\ run'.page = run.page
        /\ run'.known = run.known /\ run'.scanned = run.scanned
    BY <2>2 DEF Reported
  <2> QED BY <1>2, <2>1, <2>3 DEF NothingPassed
<1>7. CASE BeginRepair
  <2>1. run \in Scan /\ run.at = "scanned"
    BY <1>7, RunKinds DEF BeginRepair
  <2>2. run'.at = "repairing" /\ run'.known = run.known /\ run'.scanned = run.scanned
    BY <1>7, <2>1 DEF BeginRepair, Scan
  <2> QED BY <1>2, <2>1, <2>2 DEF NothingPassed
<1> QED BY <1>3, <1>4, <1>5, <1>6, <1>7

LEMMA RepairPassesNothing ==
    ASSUME ReconcileTypeOK, NothingPassed, ApplyFix \/ CommitRepair \/ AbortRun
    PROVE  NothingPassed'
<1>1. CASE ApplyFix
  BY <1>1, SamePlaces DEF ApplyFix, tableVars
<1>2. CASE CommitRepair
  <2>1. run \in Scan /\ run.at = "repairing"
    BY <1>2, RunKinds DEF CommitRepair
  <2>2. run'.at = "repaired" /\ run'.known = run.known /\ run'.scanned = run.scanned
    BY <1>2, <2>1 DEF CommitRepair, Scan
  <2> QED BY <2>1, <2>2 DEF NothingPassed
<1>3. CASE AbortRun
  BY <1>3 DEF AbortRun, NoRun, NothingPassed
<1> QED BY <1>1, <1>2, <1>3
-----------------------------------------------------------------------------
(* While nothing else changes, the reports cover every drift.              *)

LEMMA MoreNoticed ==
    ASSUME NEW g, NEW reports, NEW more, Noticed(g, reports),
           raced => raced', UNCHANGED <<archived, retokened, lists, onchain>>,
           \A fix \in reports : \E other \in more :
                /\ other.group = fix.group /\ other.missing = fix.missing
                /\ other.token = fix.token /\ other.members = fix.members
    PROVE  Noticed(g, more)'
<1>1. g \in archived => \E fix \in more : fix.group = g /\ fix.missing
  BY DEF Noticed
<1>2. g \in retokened \ archived => \E fix \in more : fix.group = g /\ fix.token
  BY DEF Noticed
<1>3. \/ raced \/ g \in archived
      \/ {l.revision : l \in lists[g]} = {onchain[g]}
      \/ \E fix \in more : fix.group = g /\ fix.members
  BY DEF Noticed
<1> QED BY <1>1, <1>2, <1>3 DEF Noticed

\* A step of a writer that leaves the chain, the tables and the run alone.
LEMMA WriterKeepsReports ==
    ASSUME quiet => ReportsAgree, quiet' = quiet, raced => raced',
           UNCHANGED <<chainView, tableVars, runVars>>
    PROVE  quiet' => ReportsAgree'
<1> SUFFICES ASSUME quiet PROVE ReportsAgree'
  OBVIOUS
<1>1. /\ ReportsAgree /\ quiet'
      /\ UNCHANGED <<onchain, archived, createdAt, lists, retokened, run, repair>>
  BY DEF chainView, tableVars, runVars
<1>2. Indexed' = Indexed
  BY <1>1 DEF Indexed
<1>3. \A g, reports : Noticed(g, reports) => Noticed(g, reports)'
  <2> SUFFICES ASSUME NEW g, NEW reports, Noticed(g, reports) PROVE Noticed(g, reports)'
    OBVIOUS
  <2> QED BY <1>1, MoreNoticed
<1>4. \A reports : Dated(reports) => Dated(reports)'
  BY <1>1 DEF Dated
<1>5. RepairedAgrees'
  BY <1>1, <1>2 DEF ReportsAgree, RepairedAgrees, Agrees
<1>6. (run.at \in {"listing", "reading", "scanned", "repairing"} =>
        Dated(ToSet(run.reports)))'
  BY <1>1, <1>2, <1>4 DEF ReportsAgree
<1>7. (run.at \in {"listing", "scanned"} =>
        \A g \in run.scanned : Noticed(g, ToSet(run.reports)))'
  BY <1>1, <1>3 DEF ReportsAgree
<1>8. (run.at = "reading" =>
        /\ \A g \in run.scanned \ {run.group} : Noticed(g, ToSet(run.reports))
        /\ run.token = (run.group \in retokened)
        /\ run.members = lists[run.group])'
  BY <1>1, <1>3 DEF ReportsAgree
<1>9. (run.at = "repairing" =>
        LET reports == ToSet(repair.todo) \cup ToSet(repair.fixes)
        IN  Dated(reports) /\ \A g \in run.scanned : Noticed(g, reports))'
  BY <1>1, <1>2, <1>3, <1>4 DEF ReportsAgree
<1> QED BY <1>5, <1>6, <1>7, <1>8, <1>9 DEF ReportsAgree

\* What ReadChain appends is what the group read needs.
LEMMA ReadGroupNoticed ==
    ASSUME ReconcileTypeOK, raced \/ FoundAll, NothingPassed, ReadChain,
           run.token = (run.group \in retokened), run.members = lists[run.group],
           Dated(ToSet(run.reports))
    PROVE  \E reports \in Seq(FixRecord) :
            /\ Reported(reports)
            /\ ToSet(run.reports) \subseteq ToSet(reports)
            /\ Dated(ToSet(reports))
            /\ Noticed(run.group, ToSet(reports))
<1>1. run \in Reading /\ run.at = "reading" /\ run.reports \in Seq(FixRecord)
      /\ run.token \in BOOLEAN
  BY RunKinds DEF ReadChain, Reading
<1>2. ASSUME NEW fix \in FixRecord
      PROVE  /\ Append(run.reports, fix) \in Seq(FixRecord)
             /\ ToSet(Append(run.reports, fix)) = ToSet(run.reports) \cup {fix}
  BY <1>1, OneMore
<1>3. CASE run.group \in archived
  <2> DEFINE fix == Fix(TRUE, FALSE, FALSE)
  <2>1. fix \in FixRecord
    BY <1>1, FixTyped
  <2>2. fix.group = run.group /\ fix.missing /\ fix.revision = onchain[run.group]
    BY DEF Fix
  <2>3. Reported(Append(run.reports, fix))
    BY <1>3 DEF ReadChain
  <2> HIDE DEF fix
  <2>4. Dated(ToSet(run.reports) \cup {fix})
    BY <2>2 DEF Dated
  <2>5. Noticed(run.group, ToSet(run.reports) \cup {fix})
    BY <1>3, <2>2 DEF Noticed
  <2> QED BY <1>2, <2>1, <2>3, <2>4, <2>5
<1>4. CASE run.group \notin archived
  <2>1. PICK members \in Notices(run.members, onchain[run.group]) :
            Reported(IF run.token \/ members
                     THEN Append(run.reports, Fix(FALSE, run.token, members))
                     ELSE run.reports)
    BY <1>4 DEF ReadChain
  <2>2. members \in BOOLEAN
    BY <2>1 DEF Notices
  <2>3. members \/ raced \/ {l.revision : l \in lists[run.group]} = {onchain[run.group]}
    <3>1. SUFFICES ASSUME ~raced, {l.revision : l \in lists[run.group]} # {onchain[run.group]}
                   PROVE  members
      OBVIOUS
    <3>2. run.group \in Indexed
      BY <1>1 DEF NothingPassed
    <3>3. Cardinality(run.members) = 1
      BY <3>1, <3>2 DEF FoundAll
    <3>4. ~(Cardinality(run.members) > 1)
      BY <3>3
    <3>5. {l.revision : l \in run.members} # {onchain[run.group]}
      BY <3>1
    <3>6. Notices(run.members, onchain[run.group]) = {TRUE}
      BY <3>4, <3>5 DEF Notices
    <3> QED BY <2>1, <3>6
  <2>4. CASE run.token \/ members
    <3> DEFINE fix == Fix(FALSE, run.token, members)
    <3>1. fix \in FixRecord
      BY <1>1, <2>2, FixTyped
    <3>2. /\ fix.group = run.group /\ fix.token = run.token /\ fix.members = members
          /\ fix.revision = onchain[run.group]
      BY DEF Fix
    <3>3. Reported(Append(run.reports, fix))
      BY <2>1, <2>4
    <3> HIDE DEF fix
    <3>4. Dated(ToSet(run.reports) \cup {fix})
      BY <3>2 DEF Dated
    <3>5. Noticed(run.group, ToSet(run.reports) \cup {fix})
      BY <1>4, <2>3, <3>2 DEF Noticed
    <3> QED BY <1>2, <3>1, <3>3, <3>4, <3>5
  <2>5. CASE ~(run.token \/ members)
    <3>1. Reported(run.reports)
      BY <2>1, <2>5
    <3>2. Noticed(run.group, ToSet(run.reports))
      BY <1>4, <2>3, <2>5 DEF Noticed
    <3> QED BY <1>1, <3>1, <3>2
  <2> QED BY <2>4, <2>5
<1> QED BY <1>3, <1>4

LEMMA ScanKeepsReports ==
    ASSUME ReconcileTypeOK, raced \/ FoundAll, NothingPassed, quiet => ReportsAgree,
           StartRun \/ ListPage \/ ReadRow \/ ReadChain \/ BeginRepair
    PROVE  quiet' => ReportsAgree'
<1>1. /\ UNCHANGED <<chainView, tableVars, upsert, raced>>
      /\ UNCHANGED <<onchain, archived, createdAt, lists, retokened>>
  BY DEF StartRun, ListPage, ReadRow, ReadChain, BeginRepair, chainView, tableVars
<1>2. Indexed' = Indexed
  BY <1>1 DEF Indexed
<1>3. ASSUME NEW g, NEW reports, NEW more, reports \subseteq more, Noticed(g, reports)
      PROVE  Noticed(g, more)'
  BY <1>1, <1>3, MoreNoticed
<1>4. \A reports : Dated(reports) => Dated(reports)'
  BY <1>1 DEF Dated
<1>5. CASE StartRun
  <2>1. /\ run'.at = "listing" /\ run'.reports = <<>> /\ run'.known = Indexed
        /\ run'.scanned = {}
    BY <1>5 DEF StartRun
  <2>2. ToSet(run'.reports) = {}
    BY <2>1 DEF ToSet
  <2>3. Dated(ToSet(run.reports))'
    BY <2>2 DEF Dated
  <2> QED BY <1>2, <2>1, <2>3 DEF ReportsAgree, RepairedAgrees
<1>6. CASE ListPage
  <2>1. run \in Scan /\ run.at = "listing" /\ quiet' = quiet
    BY <1>6, RunKinds DEF ListPage
  <2>2. /\ run'.at \in {"listing", "scanned"} /\ run'.reports = run.reports
        /\ run'.known = run.known /\ run'.scanned = run.scanned
    BY <1>6, <2>1 DEF ListPage, Scan
  <2> SUFFICES ASSUME quiet PROVE ReportsAgree'
    BY <2>1
  <2>3. Dated(ToSet(run.reports))
        /\ \A g \in run.scanned : Noticed(g, ToSet(run.reports))
    BY <2>1 DEF ReportsAgree
  <2>4. (\A g \in run.scanned : Noticed(g, ToSet(run.reports)))'
    BY <1>3, <2>2, <2>3
  <2>5. (Dated(ToSet(run.reports)))'
    BY <1>2, <1>4, <2>2, <2>3
  <2> QED BY <2>2, <2>4, <2>5 DEF ReportsAgree, RepairedAgrees
<1>7. CASE ReadRow
  <2>1. run.at = "listing" /\ quiet' = quiet
    BY <1>7 DEF ReadRow
  <2>2. /\ run'.at = "reading" /\ run'.reports = run.reports
        /\ run'.known = run.known /\ run'.scanned = run.scanned \cup {Head(run.page)}
        /\ run'.group = Head(run.page)
        /\ run'.token = (Head(run.page) \in retokened)
        /\ run'.members = lists[Head(run.page)]
    BY <1>7 DEF ReadRow
  <2> SUFFICES ASSUME quiet PROVE ReportsAgree'
    BY <2>1
  <2>3. Dated(ToSet(run.reports))
        /\ \A g \in run.scanned : Noticed(g, ToSet(run.reports))
    BY <2>1 DEF ReportsAgree
  <2>4. (\A g \in run.scanned \ {run.group} : Noticed(g, ToSet(run.reports)))'
    BY <1>3, <2>2, <2>3
  <2>5. (Dated(ToSet(run.reports)))'
    BY <1>2, <1>4, <2>2, <2>3
  <2>6. (run.token = (run.group \in retokened) /\ run.members = lists[run.group])'
    BY <1>1, <2>2
  <2> QED BY <2>2, <2>4, <2>5, <2>6 DEF ReportsAgree, RepairedAgrees
<1>8. CASE ReadChain
  <2>1. run.at = "reading" /\ quiet' = quiet
    BY <1>8 DEF ReadChain
  <2> SUFFICES ASSUME quiet PROVE ReportsAgree'
    BY <2>1
  <2>2. /\ Dated(ToSet(run.reports))
        /\ \A g \in run.scanned \ {run.group} : Noticed(g, ToSet(run.reports))
        /\ run.token = (run.group \in retokened) /\ run.members = lists[run.group]
    BY <2>1 DEF ReportsAgree
  <2>3. PICK reports \in Seq(FixRecord) :
            /\ Reported(reports)
            /\ ToSet(run.reports) \subseteq ToSet(reports)
            /\ Dated(ToSet(reports))
            /\ Noticed(run.group, ToSet(reports))
    BY <1>8, <2>2, ReadGroupNoticed
  <2>4. /\ run'.at = "listing" /\ run'.reports = reports
        /\ run'.known = run.known /\ run'.scanned = run.scanned
    BY <2>3 DEF Reported
  <2>5. (\A g \in run.scanned : Noticed(g, ToSet(run.reports)))'
    BY <1>3, <2>2, <2>3, <2>4
  <2>6. (Dated(ToSet(run.reports)))'
    BY <1>2, <1>4, <2>2, <2>3, <2>4
  <2> QED BY <2>4, <2>5, <2>6 DEF ReportsAgree, RepairedAgrees
<1>9. CASE BeginRepair
  <2>1. run \in Scan /\ run.at = "scanned" /\ quiet' = quiet
    BY <1>9, RunKinds DEF BeginRepair
  <2>2. /\ run'.at = "repairing" /\ run'.reports = run.reports
        /\ run'.scanned = run.scanned
        /\ repair'.todo = run.reports /\ repair'.fixes = <<>>
    BY <1>9, <2>1 DEF BeginRepair, Scan
  <2> SUFFICES ASSUME quiet PROVE ReportsAgree'
    BY <2>1
  <2>3. /\ Dated(ToSet(run.reports))
        /\ \A g \in run.scanned : Noticed(g, ToSet(run.reports))
    BY <2>1 DEF ReportsAgree
  <2>5. (Dated(ToSet(run.reports)))'
    BY <1>2, <1>4, <2>2, <2>3
  <2>6. ToSet(repair'.todo) \cup ToSet(repair'.fixes) = ToSet(run.reports)
    <3>1. ToSet(<<>>) = {}
      BY DEF ToSet
    <3> QED BY <2>2, <3>1
  <2>7. (\A g \in run.scanned : Noticed(g, ToSet(repair.todo) \cup ToSet(repair.fixes)))'
    BY <1>3, <2>2, <2>3, <2>6
  <2>8. Dated(ToSet(repair.todo) \cup ToSet(repair.fixes))'
    BY <1>4, <2>3, <2>6
  <2> QED BY <2>2, <2>5, <2>7, <2>8 DEF ReportsAgree, RepairedAgrees
<1> QED BY <1>5, <1>6, <1>7, <1>8, <1>9

LEMMA FixKeepsReports ==
    ASSUME ReconcileTypeOK, quiet => ReportsAgree, ApplyFix
    PROVE  quiet' => ReportsAgree'
<1> DEFINE fix == Head(repair.todo)
           deleted == IF fix.members THEN MembersDeleted(fix.group) ELSE {}
           done == [fix EXCEPT !.deleted = deleted]
           told == ToSet(repair.todo) \cup ToSet(repair.fixes)
<1>1. /\ run.at = "repairing" /\ run' = run /\ quiet' = quiet
      /\ UNCHANGED <<onchain, archived, createdAt, lists, retokened>>
      /\ repair.todo # <<>> /\ repair'.todo = Tail(repair.todo)
      /\ repair'.fixes = Append(repair.fixes, done)
  BY DEF ApplyFix, chainView, tableVars
<1>r. raced => raced'
  BY Zenon DEF ApplyFix
<1> SUFFICES ASSUME quiet PROVE ReportsAgree'
  BY <1>1
<1>2. repair.todo \in Seq(FixRecord) /\ repair.fixes \in Seq(FixRecord)
  BY DEF ReconcileTypeOK
<1>3. fix \in FixRecord /\ ToSet(repair.todo) = {fix} \cup ToSet(Tail(repair.todo))
  BY <1>1, <1>2, OneLess
<1>4. /\ done.group = fix.group /\ done.missing = fix.missing /\ done.token = fix.token
      /\ done.members = fix.members /\ done.revision = fix.revision
  <2> HIDE DEF fix, deleted
  <2> QED BY <1>3 DEF FixRecord
<1>5. done \in FixRecord
  <2>1. fix \in FixRecord /\ deleted \in SUBSET MemberList
    BY <1>3 DEF MembersDeleted, FixRecord, ReconcileTypeOK
  <2> HIDE DEF fix, deleted
  <2> QED BY <2>1 DEF FixRecord
<1> HIDE DEF done, fix
<1>6. ToSet(repair'.fixes) = ToSet(repair.fixes) \cup {done}
  BY <1>1, <1>2, <1>5, OneMore
<1>7. ToSet(repair'.todo) \cup ToSet(repair'.fixes) =
        ToSet(Tail(repair.todo)) \cup ToSet(repair.fixes) \cup {done}
  BY <1>1, <1>6
<1>8. /\ Dated(told) /\ \A g \in run.scanned : Noticed(g, told)
      /\ Dated(ToSet(run.reports))
  <2>1. ReportsAgree /\ run.at = "repairing"
    BY <1>1
  <2> QED BY <2>1, Zenon DEF ReportsAgree
<1>9. \A old \in told : \E new \in ToSet(repair'.todo) \cup ToSet(repair'.fixes) :
        /\ new.group = old.group /\ new.missing = old.missing
        /\ new.token = old.token /\ new.members = old.members
  BY <1>3, <1>4, <1>7
<1>10. \A new \in ToSet(repair'.todo) \cup ToSet(repair'.fixes) :
        new \in told \/ new = done
  BY <1>3, <1>7
<1>11. fix \in told
  BY <1>3
<1> HIDE DEF told
<1>13. (\A g \in run.scanned : Noticed(g, ToSet(repair.todo) \cup ToSet(repair.fixes)))'
  <2>1. ASSUME NEW g \in run.scanned, NEW all,
               all = ToSet(repair'.todo) \cup ToSet(repair'.fixes)
        PROVE  Noticed(g, all)'
    <3>1. \A old \in told : \E new \in all :
            /\ new.group = old.group /\ new.missing = old.missing
            /\ new.token = old.token /\ new.members = old.members
      BY <1>9, <2>1
    <3> QED BY <1>1, <1>r, <1>8, <3>1, MoreNoticed
  <2> QED BY <1>1, <2>1
<1>d. onchain' = onchain /\ run' = run
  BY <1>1
<1>14. Dated(ToSet(repair.todo) \cup ToSet(repair.fixes))'
  BY <1>d, <1>4, <1>8, <1>10, <1>11 DEF Dated
<1>15. (Dated(ToSet(run.reports)))'
  BY <1>d, <1>8 DEF Dated
<1> QED BY <1>1, <1>13, <1>14, <1>15 DEF ReportsAgree, RepairedAgrees

\* The transaction repairs what it was told of.
LEMMA RepairMakesAgree ==
    ASSUME ReconcileTypeOK, raced \/ FoundAll, quiet => ReportsAgree, CommitRepair
    PROVE  quiet' => ReportsAgree'
<1> DEFINE kept(g) == lists[g] \ FoundByRepair(g)
           found(g) == UNION {FoundBy(w, g) : w \in Writer}
           new(g) == NewList(FreeIds(kept(g), found(g)), LastRevision(g))
<1>1. /\ run.at = "repairing" /\ repair.todo = <<>> /\ quiet' = quiet /\ raced' = raced
      /\ UNCHANGED <<onchain, archived>>
      /\ createdAt' = [g \in Group |-> IF g \in Removed THEN 0 ELSE createdAt[g]]
      /\ retokened' = {g \in retokened \ Removed : \A fix \in FixesOf(g) : ~fix.token}
      /\ lists' = [g \in Group |-> CASE g \in Removed -> {}
                                     [] g \in Relisted -> kept(g) \cup {new(g)}
                                     [] OTHER -> lists[g]]
  BY DEF CommitRepair, chainView
<1>2. run'.at = "repaired" /\ run'.scanned = run.scanned
  <2>1. run \in Scan
    BY <1>1, RunKinds
  <2> QED BY <2>1 DEF CommitRepair, Scan
<1> SUFFICES ASSUME quiet PROVE RepairedAgrees'
  BY <1>1, <1>2 DEF ReportsAgree
<1>3. Indexed' = Indexed \ Removed /\ Indexed \subseteq Group
  BY <1>1 DEF Indexed
<1>4. ToSet(repair.todo) \cup ToSet(repair.fixes) = ToSet(repair.fixes)
  <2>1. ToSet(<<>>) = {}
    BY DEF ToSet
  <2> QED BY <1>1, <2>1
<1>5. Dated(ToSet(repair.fixes)) /\ \A g \in run.scanned : Noticed(g, ToSet(repair.fixes))
  BY <1>1, <1>4 DEF ReportsAgree
<1>6. \A g : \A fix \in ToSet(repair.fixes) : fix.group = g => fix \in FixesOf(g)
  BY DEF FixesOf, ToSet
<1>7. ASSUME NEW g \in Indexed' \cap run.scanned PROVE g \notin archived
  <2>1. g \in Group /\ g \in Indexed /\ g \notin Removed
    BY <1>3
  <2> QED BY <1>5, <1>6, <2>1 DEF Noticed, Removed
<1>8. ASSUME NEW g \in Indexed' \cap run.scanned PROVE g \notin retokened'
  <2>1. g \in Indexed
    BY <1>3
  <2> QED BY <1>1, <1>5, <1>6, <1>7, <2>1 DEF Noticed
<1>9. ASSUME ~raced, NEW g \in Indexed' \cap run.scanned
      PROVE  {l.revision : l \in lists'[g]} = {onchain[g]}
  <2>1. g \in Group /\ g \in Indexed /\ g \notin Removed /\ Noticed(g, ToSet(repair.fixes))
    BY <1>3, <1>5
  <2>2. CASE g \in Relisted
    <3>1. PICK i \in DOMAIN repair.fixes :
            repair.fixes[i].group = g /\ repair.fixes[i].members
      BY <2>2 DEF Relisted, FixesOf
    <3>2. repair.fixes[i] \in FixesOf(g) /\ repair.fixes[i].deleted = lists[g]
      BY <1>9, <3>1 DEF FixesOf, FoundAll
    <3>3. kept(g) = {}
      BY <3>2 DEF FoundByRepair
    <3>4. lists'[g] = {new(g)}
      <4> HIDE DEF new, kept
      <4> QED BY <1>1, <2>1, <2>2, <3>3
    <3>5. PICK k \in DOMAIN repair.fixes :
            repair.fixes[k].group = g /\ LastRevision(g) = repair.fixes[k].revision
      BY <2>2, LastFix
    <3>6. repair.fixes[k] \in ToSet(repair.fixes)
      BY DEF ToSet
    <3>7. LastRevision(g) = onchain[g]
      BY <1>5, <3>5, <3>6 DEF Dated
    <3>8. LastRevision(g) \in Nat
      BY <2>1, <3>7 DEF ReconcileTypeOK
    <3>9. FreeIds(kept(g), found(g)) \in SUBSET ListId
      BY DEF FreeIds
    <3>10. new(g).revision = onchain[g]
      BY <3>7, <3>8, <3>9, NewListType
    <3> HIDE DEF new
    <3> QED BY <3>4, <3>10
  <2>3. CASE g \notin Relisted
    <3>1. lists'[g] = lists[g]
      <4> HIDE DEF new, kept
      <4> QED BY <1>1, <2>1, <2>3
    <3>2. ~ \E fix \in ToSet(repair.fixes) : fix.group = g /\ fix.members
      BY <1>6, <2>1, <2>3 DEF Relisted
    <3> QED BY <1>7, <1>9, <2>1, <3>1, <3>2 DEF Noticed
  <2> QED BY <2>2, <2>3
<1>10. \A g \in Indexed' \cap run'.scanned : g \notin archived' \cup retokened'
  BY <1>1, <1>2, <1>7, <1>8
<1>11. ~raced' => \A g \in Indexed' \cap run'.scanned :
            {l.revision : l \in lists'[g]} = {onchain'[g]}
  BY <1>1, <1>2, <1>9
<1> QED BY <1>10, <1>11 DEF RepairedAgrees, Agrees
-----------------------------------------------------------------------------
LEMMA ReconcileInvStep == ReconcileInv /\ [ReconcileNext]_reconcileVars => ReconcileInv'
<1> SUFFICES ASSUME ReconcileInv, [ReconcileNext]_reconcileVars PROVE ReconcileInv'
  OBVIOUS
<1>i. /\ ReconcileTypeOK /\ OneReplaces /\ (raced \/ FoundAll) /\ NothingPassed
      /\ quiet => ReportsAgree
  BY DEF ReconcileInv
<1>1. ASSUME NEW g \in Group, ChangeGroup(g) \/ Archive(g) \/ EditToken(g)
      PROVE  ReconcileInv'
  <2>1. /\ UNCHANGED <<createdAt, lists, upsert, run, repair, raced>> /\ quiet' = FALSE
        /\ archived' \in SUBSET Group /\ retokened' \in SUBSET Group
    BY <1>i, <1>1
       DEF ChangeGroup, Archive, EditToken, chainView, tableVars, runVars, ReconcileTypeOK
  <2>2. onchain' \in [Group -> Nat]
    BY <1>i, <1>1 DEF ChangeGroup, Archive, EditToken, chainView, ReconcileTypeOK
  <2>3. ReconcileTypeOK'
    BY <1>i, <2>1, <2>2 DEF ReconcileTypeOK
  <2>4. OneReplaces' /\ (raced' \/ FoundAll')
    BY <1>i, <2>1, FewerReplaced
  <2>5. NothingPassed'
    BY <1>i, <2>1, SamePlaces
  <2> QED BY <2>1, <2>3, <2>4, <2>5 DEF ReconcileInv
<1>2. ASSUME NEW w \in Writer, NEW g \in Group, ReadForUpsert(w, g)
      PROVE  ReconcileInv'
  <2>1. ReconcileTypeOK'
    BY <1>i, <1>2, UpsertsTyped
  <2>2. /\ UNCHANGED <<chainView, tableVars, runVars, quiet, raced>>
        /\ UNCHANGED <<createdAt, lists, run, repair>>
    BY <1>2 DEF ReadForUpsert, tableVars, runVars
  <2>3. \A v \in Writer : upsert'[v] = upsert[v] \/ upsert'[v].at # "replacing"
    BY <1>i, <1>2 DEF ReadForUpsert, ReconcileTypeOK
  <2>4. OneReplaces' /\ (raced' \/ FoundAll')
    BY <1>i, <2>2, <2>3, FewerReplaced
  <2>5. NothingPassed'
    BY <1>i, <2>2, SamePlaces
  <2>6. quiet' => ReportsAgree'
    BY <1>i, <2>2, WriterKeepsReports
  <2> QED BY <2>1, <2>4, <2>5, <2>6 DEF ReconcileInv
<1>3. ASSUME NEW w \in Writer, BeginBatch(w) \/ EndBatch(w)
      PROVE  ReconcileInv'
  <2>1. ReconcileTypeOK'
    BY <1>i, <1>3, UpsertsTyped
  <2>2. /\ UNCHANGED <<chainView, tableVars, runVars, quiet, raced>>
        /\ UNCHANGED <<createdAt, lists, run, repair>>
    BY <1>3 DEF BeginBatch, EndBatch, tableVars, runVars
  <2>3. \A v \in Writer : upsert'[v] = upsert[v] \/ upsert'[v].at # "replacing"
    BY <1>i, <1>3 DEF BeginBatch, EndBatch, NoUpsert, ReconcileTypeOK
  <2>4. OneReplaces' /\ (raced' \/ FoundAll')
    BY <1>i, <2>2, <2>3, FewerReplaced
  <2>5. NothingPassed'
    BY <1>i, <2>2, SamePlaces
  <2>6. quiet' => ReportsAgree'
    BY <1>i, <2>2, WriterKeepsReports
  <2> QED BY <2>1, <2>4, <2>5, <2>6 DEF ReconcileInv
<1>4. ASSUME NEW w \in Writer, ReplaceMembers(w)
      PROVE  ReconcileInv'
  <2>1. ReconcileTypeOK'
    BY <1>i, <1>4, UpsertsTyped
  <2>2. /\ UNCHANGED <<chainView, tableVars, runVars, quiet>>
        /\ UNCHANGED <<createdAt, run>>
    BY <1>4 DEF ReplaceMembers, tableVars, runVars
  <2>3. raced => raced'
    BY <1>4, Zenon DEF ReplaceMembers
  <2>4. OneReplaces' /\ (raced' \/ FoundAll')
    BY <1>i, <1>4, ReplacedAlone
  <2>5. NothingPassed'
    BY <1>i, <2>2, SamePlaces
  <2>6. quiet' => ReportsAgree'
    BY <1>i, <2>2, <2>3, WriterKeepsReports
  <2> QED BY <2>1, <2>4, <2>5, <2>6 DEF ReconcileInv
<1>5. ASSUME NEW w \in Writer, CommitUpsert(w)
      PROVE  ReconcileInv'
  <2>1. ReconcileTypeOK'
    BY <1>i, <1>5, UpsertsTyped
  <2>2. OneReplaces' /\ (raced' \/ FoundAll')
    BY <1>i, <1>5, UpsertLeavesOne
  <2>3. /\ upsert[w].group \in Group /\ upsert[w].began \in Nat \ {0}
        /\ createdAt' = [createdAt EXCEPT
                ![upsert[w].group] = TimeOfRow(upsert[w].group, upsert[w].began)]
        /\ run' = run /\ quiet' = FALSE
    BY <1>i, <1>5, UpsertKinds, ReconcileAssumption DEF CommitUpsert, Replacement, runVars
  <2>4. NothingPassed'
    BY <1>i, <2>3, RowsMoveBack
  <2> QED BY <2>1, <2>2, <2>3, <2>4 DEF ReconcileInv
<1>6. ASSUME StartRun \/ ListPage \/ ReadRow \/ ReadChain \/ BeginRepair
      PROVE  ReconcileInv'
  <2>1. ReconcileTypeOK' /\ NothingPassed' /\ (quiet' => ReportsAgree')
    BY <1>i, <1>6, ScansTyped, ScanPassesNothing, ScanKeepsReports
  <2>2. UNCHANGED <<createdAt, lists, upsert, raced>>
    BY <1>6 DEF StartRun, ListPage, ReadRow, ReadChain, BeginRepair, tableVars
  <2>3. repair' = repair \/ DOMAIN repair'.fixes = {}
    <3>1. CASE StartRun \/ ListPage \/ ReadRow \/ ReadChain
      BY <3>1 DEF StartRun, ListPage, ReadRow, ReadChain
    <3>2. CASE BeginRepair
      <4>1. repair' = [todo |-> run.reports, fixes |-> <<>>]
        BY <3>2 DEF BeginRepair
      <4>2. repair'.fixes = <<>>
        BY <4>1
      <4> QED BY <4>2
    <3> QED BY <1>6, <3>1, <3>2
  <2>4. OneReplaces' /\ (raced' \/ FoundAll')
    BY <1>i, <2>2, <2>3, FewerReplaced
  <2> QED BY <2>1, <2>4 DEF ReconcileInv
<1>7. ASSUME ApplyFix PROVE ReconcileInv'
  <2>1. ReconcileTypeOK' /\ NothingPassed' /\ (quiet' => ReportsAgree')
    BY <1>i, <1>7, RepairsTyped, RepairPassesNothing, FixKeepsReports
  <2>2. OneReplaces' /\ (raced' \/ FoundAll')
    BY <1>i, <1>7, FixFindsAll
  <2> QED BY <2>1, <2>2 DEF ReconcileInv
<1>8. ASSUME CommitRepair PROVE ReconcileInv'
  <2>1. ReconcileTypeOK' /\ NothingPassed' /\ (quiet' => ReportsAgree')
    BY <1>i, <1>8, RepairsTyped, RepairPassesNothing, RepairMakesAgree
  <2>2. OneReplaces' /\ (raced' \/ FoundAll')
    BY <1>i, <1>8, RepairLeavesOne
  <2> QED BY <2>1, <2>2 DEF ReconcileInv
<1>9. ASSUME AbortRun PROVE ReconcileInv'
  <2>1. ReconcileTypeOK' /\ NothingPassed'
    BY <1>i, <1>9, RepairsTyped, RepairPassesNothing
  <2>2. UNCHANGED <<createdAt, lists, upsert, raced>> /\ quiet' = FALSE
    BY <1>9 DEF AbortRun, tableVars
  <2>3. DOMAIN repair'.fixes = {}
    BY <1>9 DEF AbortRun, NoRepair
  <2>4. OneReplaces' /\ (raced' \/ FoundAll')
    BY <1>i, <2>2, <2>3, FewerReplaced
  <2> QED BY <2>1, <2>2, <2>4 DEF ReconcileInv
<1>10. CASE UNCHANGED reconcileVars
  <2>1. UNCHANGED <<onchain, archived, createdAt, lists, retokened, upsert, run, repair,
                    quiet, raced>>
    BY <1>10 DEF reconcileVars, chainView, tableVars, runVars
  <2>2. UNCHANGED <<chainView, tableVars, runVars>>
    BY <2>1 DEF chainView, tableVars, runVars
  <2>3. ReconcileTypeOK' /\ NothingPassed'
    BY <1>i, <2>1, SamePlaces DEF ReconcileTypeOK
  <2>4. OneReplaces' /\ (raced' \/ FoundAll')
    BY <1>i, <2>1, FewerReplaced
  <2>5. quiet' => ReportsAgree'
    BY <1>i, <2>1, <2>2, WriterKeepsReports
  <2> QED BY <2>3, <2>4, <2>5 DEF ReconcileInv
<1> QED BY <1>1, <1>2, <1>3, <1>4, <1>5, <1>6, <1>7, <1>8, <1>9, <1>10
    DEF ReconcileNext

LEMMA ReconcileInvariant == ReconcileSpec => []ReconcileInv
<1> QED BY ReconcileInvInit, ReconcileInvStep, PTL DEF ReconcileSpec

\* However the worker, a backfill and a repair interleave their transactions,
\* without a race of the repair with a writer an indexed group has one list
\* of members (upsertGroupFromChain, applyRepair).
THEOREM MembersAreOneList == ReconcileSpec => []OneMemberList
<1>1. ReconcileInv => OneMemberList
  BY DEF ReconcileInv, FoundAll, OneMemberList
<1> QED BY <1>1, ReconcileInvariant, PTL

\* However many groups are indexed between its pages, however late their
\* transactions commit and whatever the size of a page, reconcileAll scans
\* each row that was there when it began, if no two rows tie in created_at.
THEOREM ScanSkipsNone == ReconcileSpec => []NoGroupSkipped
<1>1. ReconcileInv => NoGroupSkipped
  BY DEF ReconcileInv, NothingPassed, NoGroupSkipped
<1> QED BY <1>1, ReconcileInvariant, PTL

\* After a repair beside which nothing else has changed, the rows the scan
\* has read are what the chain holds (reconcileAll, applyRepair).
THEOREM RepairAgrees == ReconcileSpec => []RepairedAgrees
<1>1. ReconcileInv => RepairedAgrees
  BY DEF ReconcileInv, ReportsAgree, RepairedAgrees
<1> QED BY <1>1, ReconcileInvariant, PTL
-----------------------------------------------------------------------------
(* The profiles.                                                           *)

Profile == [id : Nat, address : User, name : {"a", "b"}]

ProfilesInv ==
    /\ profiles \in Seq(Profile) /\ created \in Nat
    /\ OneProfilePerAddress

LEMMA ProfilesInvInit == ApiInit => ProfilesInv
<1> SUFFICES ASSUME ApiInit PROVE ProfilesInv
  OBVIOUS
<1>1. profiles = <<>> /\ DOMAIN profiles = {} /\ created = 0
  BY DEF ApiInit
<1>2. profiles \in Seq(Profile)
  BY <1>1
<1> QED BY <1>1, <1>2 DEF ProfilesInv, OneProfilePerAddress

LEMMA ProfilesInvStep == ProfilesInv /\ [ProfilesNext]_apiVars => ProfilesInv'
<1> SUFFICES ASSUME ProfilesInv, [ProfilesNext]_apiVars PROVE ProfilesInv'
  OBVIOUS
<1>i. /\ profiles \in Seq(Profile) /\ created \in Nat
      /\ DOMAIN profiles = 1 .. Len(profiles) /\ Len(profiles) \in Nat
      /\ OneProfilePerAddress
  BY DEF ProfilesInv
<1>1. ASSUME NEW u \in User, NEW name \in {"a", "b"}, PostUser(u, name)
      PROVE  ProfilesInv'
  <2>1. CASE Free(u, name)
    <3> DEFINE new == [id |-> created + 1, address |-> u, name |-> name]
    <3>1. profiles' = Append(profiles, new) /\ created' = created + 1
      BY <1>1, <2>1 DEF PostUser
    <3>2. new \in Profile /\ new.address = u
      BY <1>i DEF Profile
    <3> HIDE DEF new
    <3>3. /\ profiles' \in Seq(Profile) /\ Len(profiles') = Len(profiles) + 1
          /\ \A i \in 1 .. Len(profiles) : profiles'[i] = profiles[i]
          /\ profiles'[Len(profiles) + 1] = new
      BY <1>i, <3>1, <3>2, AppendProperties
    <3>4. \A i \in DOMAIN profiles' : i \in DOMAIN profiles \/ i = Len(profiles) + 1
      BY <1>i, <3>3
    <3>5. \A i \in DOMAIN profiles : profiles[i].address # u
      BY <2>1 DEF Free, ProfilesOf, ToSet
    <3>6. OneProfilePerAddress'
      BY <1>i, <3>2, <3>3, <3>4, <3>5 DEF OneProfilePerAddress
    <3>7. created' \in Nat
      BY <1>i, <3>1
    <3> QED BY <3>3, <3>6, <3>7 DEF ProfilesInv
  <2>2. CASE ~Free(u, name)
    <3>1. UNCHANGED profileVars
      BY <1>1, <2>2 DEF PostUser
    <3> QED BY <3>1 DEF ProfilesInv, profileVars, OneProfilePerAddress
  <2> QED BY <2>1, <2>2
<1>2. ASSUME NEW u \in User, NEW name \in {"a", "b"}, NEW id \in 1 .. created,
             PutUser(u, id, name)
      PROVE  ProfilesInv'
  <2>1. PICK i \in DOMAIN profiles : profiles' = [profiles EXCEPT ![i].name = name]
    BY <1>2 DEF PutUser
  <2>2. /\ \A j \in DOMAIN profiles : profiles[j] \in Profile
        /\ [profiles[i] EXCEPT !.name = name] \in Profile
    <3>1. \A j \in DOMAIN profiles : profiles[j] \in Profile
      BY <1>i
    <3>2. profiles[i] \in Profile
      BY <3>1
    <3>3. [profiles[i] EXCEPT !.name = name] \in Profile
      BY <3>2 DEF Profile
    <3> QED BY <3>1, <3>3
  <2>3. /\ DOMAIN profiles' = DOMAIN profiles
        /\ \A j \in DOMAIN profiles : profiles'[j] =
                IF j = i THEN [profiles[i] EXCEPT !.name = name] ELSE profiles[j]
    BY <1>i, <2>1
  <2>4. \A j \in DOMAIN profiles : profiles'[j].address = profiles[j].address
    BY <2>2, <2>3 DEF Profile
  <2>5. profiles' \in Seq(Profile)
    BY <1>i, <2>1, <2>2
  <2>6. created' = created
    BY <1>2 DEF PutUser
  <2> QED BY <1>i, <2>3, <2>4, <2>5, <2>6 DEF ProfilesInv, OneProfilePerAddress
<1>3. ASSUME RestartServer PROVE ProfilesInv'
  <2>1. profiles' = <<>> /\ DOMAIN profiles' = {} /\ created' = created
    BY <1>3 DEF RestartServer
  <2>2. profiles' \in Seq(Profile)
    BY <2>1
  <2> QED BY <1>i, <2>1, <2>2 DEF ProfilesInv, OneProfilePerAddress
<1>4. CASE UNCHANGED apiVars
  BY <1>i, <1>4 DEF apiVars, profileVars, ProfilesInv, OneProfilePerAddress
<1> QED BY <1>1, <1>2, <1>3, <1>4 DEF ProfilesNext

\* Whoever asks, however often and with whatever names, and across restarts,
\* an address has one profile (routes/users.ts, services/users.ts).
THEOREM ProfilesAreUnique == ProfilesSpec => []OneProfilePerAddress
<1>1. ProfilesInv => OneProfilePerAddress
  BY DEF ProfilesInv
<1> QED BY <1>1, ProfilesInvInit, ProfilesInvStep, PTL DEF ProfilesSpec
-----------------------------------------------------------------------------
(* The paged history.                                                      *)

Order == {"asc", "desc"}
Transaction == [id : Nat, timestamp : Nat]

Numbered == \A i \in DOMAIN history : history[i].id = i

LEMMA OrderIsStrict ==
    ASSUME NEW order \in Order,
           NEW a \in Transaction, NEW b \in Transaction, NEW c \in Transaction
    PROVE  /\ ~Precedes(order, a, a)
           /\ Precedes(order, a, b) /\ Precedes(order, b, c) => Precedes(order, a, c)
           /\ a.id # b.id => Precedes(order, a, b) \/ Precedes(order, b, a)
<1>1. /\ a.id \in Nat /\ b.id \in Nat /\ c.id \in Nat
      /\ a.timestamp \in Nat /\ b.timestamp \in Nat /\ c.timestamp \in Nat
  BY DEF Transaction
<1>2. (order = "asc" \/ order = "desc") /\ "asc" # "desc"
  BY DEF Order
<1> QED BY <1>1, <1>2 DEF Precedes

Before(order, t) == {u \in ToSet(history) : Precedes(order, u, t)}
InOrder(S, order) ==
    \A i, j \in 1 .. Len(S) : i < j => Precedes(order, S[i], S[j])

\* The ids are distinct, so as many transactions are stored as were added.
LEMMA HistoryIsCounted ==
    ASSUME history \in Seq(Transaction), Numbered
    PROVE  /\ Len(history) \in Nat /\ DOMAIN history = 1 .. Len(history)
           /\ ToSet(history) \in SUBSET Transaction
           /\ \A a, b \in ToSet(history) : a.id = b.id => a = b
           /\ IsFiniteSet(ToSet(history)) /\ Cardinality(ToSet(history)) = Len(history)
<1> DEFINE n == Len(history)
           stored == ToSet(history)
<1>1. n \in Nat /\ DOMAIN history = 1 .. n /\ history \in [1 .. n -> Transaction]
  OBVIOUS
<1>2. \A i \in 1 .. n : history[i] \in stored
  BY <1>1 DEF ToSet
<1>3. \A t \in stored : \E i \in 1 .. n : t = history[i] /\ t.id = i
  BY <1>1 DEF ToSet, Numbered
<1>4. history \in [1 .. n -> stored]
  <2> HIDE DEF n, stored
  <2> QED BY <1>1, <1>2
<1>5. \A i, j \in 1 .. n : history[i] = history[j] => i = j
  BY <1>1 DEF Numbered
<1>6. history \in Bijection(1 .. n, stored)
  <2> HIDE DEF n, stored
  <2> QED BY <1>1, <1>3, <1>4, <1>5 DEF Bijection, Injection, Surjection, IsInjective
<1>7. IsFiniteSet(1 .. n) /\ Cardinality(1 .. n) = n
  <2>1. 1 \in Int /\ n \in Int
    BY <1>1
  <2>2. /\ IsFiniteSet(1 .. n)
        /\ Cardinality(1 .. n) = IF 1 > n THEN 0 ELSE n - 1 + 1
    BY <2>1, FS_Interval
  <2> HIDE DEF n
  <2> QED BY <1>1, <2>2
<1>8. IsFiniteSet(stored) /\ Cardinality(stored) = n
  <2>1. ExistsBijection(1 .. n, stored)
    BY <1>6 DEF ExistsBijection
  <2> HIDE DEF n, stored
  <2> QED BY <1>7, <2>1, FS_Bijection
<1>9. stored \in SUBSET Transaction
  <2> HIDE DEF n, stored
  <2> QED BY <1>1, <1>3
<1>10. \A a, b \in stored : a.id = b.id => a = b
  <2> HIDE DEF n, stored
  <2> QED BY <1>3
<1> QED BY <1>1, <1>8, <1>9, <1>10

\* A transaction's place is the number of those that precede it: no two share
\* one, so every place is taken.
LEMMA PlacesAreTaken ==
    ASSUME history \in Seq(Transaction), Numbered, NEW order \in Order
    PROVE  /\ \A t \in ToSet(history) :
                Cardinality(Before(order, t)) \in 0 .. Len(history) - 1
           /\ \A a, b \in ToSet(history) : Precedes(order, a, b) =>
                Cardinality(Before(order, a)) < Cardinality(Before(order, b))
           /\ \A i \in 1 .. Len(history) : \E t \in ToSet(history) :
                Cardinality(Before(order, t)) = i - 1
<1> DEFINE n == Len(history)
           stored == ToSet(history)
           place == [t \in stored |-> Cardinality(Before(order, t))]
<1>1. /\ n \in Nat /\ stored \in SUBSET Transaction
      /\ \A a, b \in stored : a.id = b.id => a = b
      /\ IsFiniteSet(stored) /\ Cardinality(stored) = n
  BY HistoryIsCounted
<1>2. ASSUME NEW t \in stored
      PROVE  /\ Before(order, t) \in SUBSET stored /\ t \notin Before(order, t)
             /\ IsFiniteSet(Before(order, t)) /\ Cardinality(Before(order, t)) \in 0 .. n - 1
  <2>1. Before(order, t) \in SUBSET stored
    BY DEF Before
  <2>2. t \notin Before(order, t)
    BY <1>1, OrderIsStrict DEF Before
  <2>3. /\ IsFiniteSet(Before(order, t)) /\ Cardinality(Before(order, t)) \in Nat
        /\ Cardinality(Before(order, t)) <= n /\ Cardinality(Before(order, t)) # n
    <3> HIDE DEF n, stored
    <3> QED BY <1>1, <2>1, <2>2, FS_Subset, FS_CardinalityType
  <2> HIDE DEF n, stored
  <2> QED BY <1>1, <2>1, <2>2, <2>3
<1>3. ASSUME NEW a \in stored, NEW b \in stored, Precedes(order, a, b)
      PROVE  Cardinality(Before(order, a)) < Cardinality(Before(order, b))
  <2>1. Before(order, a) \in SUBSET Before(order, b)
    <3> SUFFICES ASSUME NEW u \in stored, Precedes(order, u, a)
                 PROVE  Precedes(order, u, b)
      BY DEF Before
    <3>1. u \in Transaction /\ a \in Transaction /\ b \in Transaction
      BY <1>1
    <3> QED BY <1>3, <3>1, OrderIsStrict
  <2>2. a \in Before(order, b) /\ a \notin Before(order, a)
    BY <1>2, <1>3 DEF Before
  <2>3. /\ IsFiniteSet(Before(order, a)) /\ IsFiniteSet(Before(order, b))
        /\ Cardinality(Before(order, a)) \in Int /\ Cardinality(Before(order, b)) \in Int
    BY <1>1, <1>2
  <2>4. /\ Cardinality(Before(order, a)) <= Cardinality(Before(order, b))
        /\ Cardinality(Before(order, a)) # Cardinality(Before(order, b))
    BY <2>1, <2>2, <2>3, FS_Subset
  <2> QED BY <2>3, <2>4
<1>4. place \in Injection(stored, 0 .. n - 1)
  <2>1. place \in [stored -> 0 .. n - 1]
    <3> HIDE DEF n, stored
    <3> QED BY <1>2
  <2>2. ASSUME NEW a \in stored, NEW b \in stored, place[a] = place[b] PROVE a = b
    <3>1. a \in Transaction /\ b \in Transaction
      BY <1>1
    <3>2. place[a] \in Int /\ place[b] \in Int
      <4> HIDE DEF place, n, stored
      <4> QED BY <1>1, <2>1
    <3>3. ~Precedes(order, a, b) /\ ~Precedes(order, b, a)
      BY <1>3, <2>2, <3>2
    <3> QED BY <1>1, <3>1, <3>3, OrderIsStrict
  <2> HIDE DEF place, n, stored
  <2> QED BY <2>1, <2>2 DEF Injection, IsInjective
<1>5. IsFiniteSet(0 .. n - 1) /\ Cardinality(0 .. n - 1) = n
  <2>1. 0 \in Int /\ n - 1 \in Int
    BY <1>1
  <2>2. /\ IsFiniteSet(0 .. n - 1)
        /\ Cardinality(0 .. n - 1) = IF 0 > n - 1 THEN 0 ELSE (n - 1) - 0 + 1
    <3> HIDE DEF n
    <3> QED BY <2>1, FS_Interval
  <2> HIDE DEF n
  <2> QED BY <1>1, <2>2
<1>6. place \in Surjection(stored, 0 .. n - 1)
  <2> HIDE DEF place, n, stored
  <2> QED BY <1>1, <1>4, <1>5, FS_Injection
<1>7. ASSUME NEW i \in 1 .. n PROVE \E t \in stored : Cardinality(Before(order, t)) = i - 1
  <2>1. i - 1 \in 0 .. n - 1
    BY <1>1
  <2>2. \E t \in stored : place[t] = i - 1
    <3> HIDE DEF place, n, stored
    <3> QED BY <1>6, <2>1 DEF Surjection
  <2> QED BY <2>2
<1> QED BY <1>2, <1>3, <1>7

\* Array.sort on the timestamps: every transaction once, in order.
LEMMA SortedHistory ==
    ASSUME history \in Seq(Transaction), Numbered, NEW order \in Order
    PROVE  /\ Sorted(order) \in Seq(Transaction)
           /\ Len(Sorted(order)) = Len(history)
           /\ \A i \in 1 .. Len(history) : Sorted(order)[i] \in ToSet(history)
           /\ \A t \in ToSet(history) : \E i \in 1 .. Len(history) : Sorted(order)[i] = t
           /\ InOrder(Sorted(order), order)
<1> DEFINE n == Len(history)
           stored == ToSet(history)
           S == Sorted(order)
           At(i, t) == Cardinality({u \in stored : Precedes(order, u, t)}) = i - 1
<1>1. /\ n \in Nat /\ stored \in SUBSET Transaction
      /\ \A a, b \in stored : a.id = b.id => a = b
  BY HistoryIsCounted
<1>2. S = [i \in 1 .. n |-> CHOOSE t \in stored : At(i, t)]
  BY DEF Sorted
<1>3. ASSUME NEW i \in 1 .. n
      PROVE  S[i] \in stored /\ Cardinality(Before(order, S[i])) = i - 1
  <2>1. \E t \in stored : At(i, t)
    BY PlacesAreTaken DEF Before
  <2>2. S[i] = CHOOSE t \in stored : At(i, t)
    <3> HIDE DEF S, At
    <3> QED BY <1>2
  <2>3. S[i] \in stored /\ At(i, S[i])
    <3> HIDE DEF S, At, stored
    <3> QED BY <2>1, <2>2
  <2> QED BY <2>3 DEF Before
<1>4. \A i \in 1 .. n : S[i] \in Transaction
  BY <1>1, <1>3
<1>5. S \in Seq(Transaction) /\ Len(S) = n
  <2>1. S = [i \in 1 .. n |-> S[i]]
    <3> HIDE DEF At, stored, n
    <3> QED BY <1>2
  <2>2. S \in [1 .. n -> Transaction]
    <3> HIDE DEF S, n
    <3> QED BY <1>4, <2>1
  <2> HIDE DEF S, n
  <2> QED BY <1>1, <2>2
<1>6. ASSUME NEW i \in 1 .. n, NEW j \in 1 .. n, i < j
      PROVE  Precedes(order, S[i], S[j])
  <2>1. /\ S[i] \in stored /\ S[j] \in stored
        /\ Cardinality(Before(order, S[i])) = i - 1
        /\ Cardinality(Before(order, S[j])) = j - 1
    BY <1>3
  <2> HIDE DEF S
  <2>2. S[i].id # S[j].id
    <3> SUFFICES ASSUME S[i] = S[j] PROVE FALSE
      BY <1>1, <2>1
    <3>1. i - 1 = j - 1
      BY <2>1
    <3> QED BY <1>6, <3>1
  <2>3. ~Precedes(order, S[j], S[i])
    <3> SUFFICES ASSUME Precedes(order, S[j], S[i]) PROVE FALSE
      OBVIOUS
    <3>1. j - 1 < i - 1
      BY <2>1, PlacesAreTaken
    <3> QED BY <1>6, <3>1
  <2>4. S[i] \in Transaction /\ S[j] \in Transaction
    BY <1>1, <2>1
  <2> QED BY <2>2, <2>3, <2>4, OrderIsStrict
<1>7. ASSUME NEW t \in stored PROVE \E i \in 1 .. n : S[i] = t
  <2> DEFINE i == Cardinality(Before(order, t)) + 1
  <2>1. Cardinality(Before(order, t)) \in 0 .. n - 1
    BY PlacesAreTaken
  <2>2. i \in 1 .. n /\ Cardinality(Before(order, t)) = i - 1
    BY <1>1, <2>1
  <2> HIDE DEF i
  <2>3. /\ S[i] \in stored
        /\ Cardinality(Before(order, S[i])) = Cardinality(Before(order, t))
    BY <1>3, <2>2
  <2> HIDE DEF S
  <2>4. ~Precedes(order, S[i], t) /\ ~Precedes(order, t, S[i])
    <3>1. Cardinality(Before(order, t)) \in Int
      BY <2>1
    <3>2. \A a, b \in stored : Precedes(order, a, b) =>
                Cardinality(Before(order, a)) < Cardinality(Before(order, b))
      BY PlacesAreTaken
    <3> HIDE DEF stored
    <3> QED BY <2>3, <3>1, <3>2
  <2>5. S[i] \in Transaction /\ t \in Transaction
    BY <1>1, <2>3
  <2>6. S[i] = t
    BY <1>1, <2>3, <2>4, <2>5, OrderIsStrict
  <2> QED BY <2>2, <2>6
<1>8. InOrder(S, order)
  <2> HIDE DEF S
  <2> QED BY <1>5, <1>6 DEF InOrder
<1> QED BY <1>3, <1>5, <1>7, <1>8

Walk == [at : {"reading", "done"}, reader : User, order : Order, cursor : Nat,
         got : Seq(Transaction), due : SUBSET Transaction]

\* A list read in order, whose last is the cursor; whatever of the due is not
\* after that last one has been read.
ReadSoFar(order, got, due, cursor) ==
    /\ \A i \in 1 .. Len(got) : got[i] \in ToSet(history)
    /\ due \subseteq ToSet(history)
    /\ InOrder(got, order)
    /\ IF got = <<>> THEN cursor = 0 ELSE cursor = got[Len(got)].id
    /\ got # <<>> =>
            \A d \in due : Precedes(order, got[Len(got)], d) \/ d \in ToSet(got)

WalkSound ==
    /\ walk \in Walk
    /\ ReadSoFar(walk.order, walk.got, walk.due, walk.cursor)
    /\ walk.at = "done" => walk.due \subseteq ToSet(walk.got)

HistoryInv ==
    /\ history \in Seq(Transaction) /\ Numbered
    /\ walk = NoWalk \/ WalkSound

LEMMA WalkFields ==
    ASSUME walk \in Walk
    PROVE  /\ walk.at \in {"reading", "done"} /\ walk.order \in Order
           /\ walk.got \in Seq(Transaction) /\ Len(walk.got) \in Nat
           /\ DOMAIN walk.got = 1 .. Len(walk.got)
           /\ walk.due \in SUBSET Transaction /\ walk.cursor \in Nat
<1>1. walk.got \in Seq(Transaction)
  BY DEF Walk
<1>2. Len(walk.got) \in Nat /\ DOMAIN walk.got = 1 .. Len(walk.got)
  BY <1>1
<1> QED BY <1>1, <1>2 DEF Walk

LEMMA HistoryInvInit == ApiInit => HistoryInv
<1> SUFFICES ASSUME ApiInit PROVE HistoryInv
  OBVIOUS
<1>1. history = <<>> /\ DOMAIN history = {} /\ walk = NoWalk
  BY DEF ApiInit
<1> QED BY <1>1 DEF HistoryInv, Numbered

LEMMA HistoryAdds ==
    ASSUME HistoryInv, NEW time \in 1 .. MaxTime, AddTransaction(time)
    PROVE  HistoryInv'
<1> DEFINE n == Len(history)
           new == [id |-> n + 1, timestamp |-> time]
<1>1. history \in Seq(Transaction) /\ n \in Nat /\ DOMAIN history = 1 .. n
  BY DEF HistoryInv
<1>2. history' = Append(history, new) /\ walk' = walk
  BY DEF AddTransaction
<1>3. new \in Transaction /\ new.id = n + 1
  BY <1>1 DEF Transaction
<1> HIDE DEF new
<1>4. /\ history' \in Seq(Transaction) /\ Len(history') = n + 1
      /\ \A i \in 1 .. n : history'[i] = history[i]
      /\ history'[n + 1] = new
  BY <1>1, <1>2, <1>3, AppendProperties
<1>5. DOMAIN history' = 1 .. n + 1
  BY <1>4
<1>6. Numbered'
  <2> SUFFICES ASSUME NEW i \in 1 .. n + 1 PROVE history'[i].id = i
    BY <1>5 DEF Numbered
  <2>1. CASE i \in 1 .. n
    BY <1>1, <1>4, <2>1 DEF HistoryInv, Numbered
  <2>2. CASE i = n + 1
    BY <1>3, <1>4, <2>2
  <2> QED BY <1>1, <2>1, <2>2
<1>7. ToSet(history) \subseteq ToSet(history)'
  <2>1. \A i \in 1 .. n : i \in 1 .. n + 1
    BY <1>1
  <2> QED BY <1>1, <1>4, <1>5, <2>1 DEF ToSet
<1>8. WalkSound => WalkSound'
  BY <1>2, <1>7 DEF WalkSound, ReadSoFar
<1>9. walk' = NoWalk \/ WalkSound'
  BY <1>2, <1>8 DEF HistoryInv
<1> QED BY <1>4, <1>6, <1>9 DEF HistoryInv

LEMMA HistoryBegins ==
    ASSUME HistoryInv, NEW u \in User, NEW order \in Order, BeginWalk(u, order)
    PROVE  HistoryInv'
<1> DEFINE new == [at |-> "reading", reader |-> u, order |-> order, cursor |-> 0,
                   got |-> <<>>, due |-> ToSet(history)]
<1>1. walk' = new /\ history' = history
  BY DEF BeginWalk
<1>2. ToSet(history) \in SUBSET Transaction
  BY HistoryIsCounted DEF HistoryInv
<1>3. <<>> \in Seq(Transaction) /\ Len(<<>>) = 0
  OBVIOUS
<1>4. new \in Walk
  BY <1>2, <1>3 DEF Walk
<1>5. ReadSoFar(order, <<>>, ToSet(history), 0)
  BY <1>3 DEF ReadSoFar, InOrder
<1>6. ReadSoFar(order, <<>>, ToSet(history), 0)'
  BY <1>1, <1>5 DEF ReadSoFar, InOrder
<1>7. WalkSound'
  BY <1>1, <1>4, <1>6 DEF WalkSound, ReadSoFar
<1> QED BY <1>1, <1>7 DEF HistoryInv, Numbered

\* The slice between the cursor and the end of the page continues the list.
LEMMA PageContinues ==
    ASSUME history \in Seq(Transaction), Numbered, NEW order \in Order,
           NEW got \in Seq(Transaction), NEW due, NEW cursor,
           ReadSoFar(order, got, due, cursor),
           NEW S, S = Sorted(order),
           NEW start, start = StartAt(S, got, cursor),
           NEW last \in start .. Len(S)
    PROVE  LET page == SubSeq(S, start + 1, last)
               more == got \o page
               next == IF page = <<>> THEN cursor ELSE Last(page).id
           IN  /\ start \in 0 .. Len(S)
               /\ page \in Seq(Transaction) /\ more \in Seq(Transaction)
               /\ next \in Nat
               /\ ReadSoFar(order, more, due, next)
               /\ last = Len(S) => due \subseteq ToSet(more)
<1> DEFINE n == Len(S)
           g == Len(got)
           page == SubSeq(S, start + 1, last)
           more == got \o page
           next == IF page = <<>> THEN cursor ELSE Last(page).id
           stored == ToSet(history)
<1>1. /\ S \in Seq(Transaction) /\ n \in Nat
      /\ \A i \in 1 .. n : S[i] \in stored
      /\ \A t \in stored : \E i \in 1 .. n : S[i] = t
      /\ InOrder(S, order)
  <2>1. Sorted(order) \in Seq(Transaction) => Len(Sorted(order)) \in Nat
    OBVIOUS
  <2> QED BY SortedHistory, <2>1
<1>2. /\ DOMAIN S = 1 .. n /\ \A i \in 1 .. n : S[i] \in Transaction
      /\ g \in Nat /\ DOMAIN got = 1 .. g
  BY <1>1
<1>3. /\ stored \in SUBSET Transaction
      /\ \A a, b \in stored : a.id = b.id => a = b
      /\ \A a \in stored : a.id \in 1 .. Len(history)
  <2>1. /\ stored \in SUBSET Transaction /\ \A a, b \in stored : a.id = b.id => a = b
        /\ DOMAIN history = 1 .. Len(history)
    BY HistoryIsCounted
  <2>2. \A a \in stored : a.id \in 1 .. Len(history)
    BY <2>1 DEF ToSet, Numbered
  <2> QED BY <2>1, <2>2
\* Where the page starts: after the last read, or at the first of all.
<1>4. /\ start \in 0 .. n
      /\ got = <<>> => start = 0
      /\ got # <<>> => g >= 1 /\ start >= 1 /\ S[start] = got[g]
  <2>1. CASE got = <<>>
    <3>1. cursor = 0
      BY <2>1 DEF ReadSoFar
    <3>2. \A i \in 1 .. n : S[i].id # 0
      BY <1>1, <1>3
    <3>3. start = 0
      BY <1>2, <3>1, <3>2 DEF StartAt
    <3> QED BY <1>1, <2>1, <3>3
  <2>2. CASE got # <<>>
    <3>1. g >= 1 /\ g \in 1 .. g
      BY <1>2, <2>2, EmptySeq
    <3>2. cursor = got[g].id /\ got[g] \in stored
      BY <2>2, <3>1 DEF ReadSoFar
    <3>3. \E i \in DOMAIN S : S[i].id = cursor
      BY <1>1, <1>2, <3>2
    <3>4. start \in DOMAIN S /\ S[start].id = cursor
      BY <3>3 DEF StartAt
    <3>5. start \in 1 .. n /\ S[start] = got[g]
      BY <1>1, <1>2, <1>3, <3>2, <3>4
    <3> QED BY <1>1, <2>2, <3>1, <3>5
  <2> QED BY <2>1, <2>2
<1>5. last \in Int /\ start \in Int /\ start <= last /\ last <= n /\ 0 <= start
  BY <1>1, <1>4
<1>6. /\ page \in Seq(Transaction) /\ Len(page) = last - start
      /\ \A i \in 1 .. last - start : page[i] = S[start + i]
  <2>1. start + 1 \in Int /\ last \in Int /\ \A i \in start + 1 .. last : S[i] \in Transaction
    BY <1>2, <1>5, <1>1
  <2>2. /\ page \in Seq(Transaction)
        /\ Len(page) = IF start + 1 <= last THEN last - (start + 1) + 1 ELSE 0
        /\ \A i \in 1 .. last - (start + 1) + 1 : page[i] = S[(start + 1) + i - 1]
    <3> HIDE DEF n
    <3> QED BY <2>1, SubSeqProperties
  <2>3. last - (start + 1) + 1 = last - start /\ Len(page) = last - start
    BY <1>5, <2>2
  <2>4. \A i \in 1 .. last - start : page[i] = S[(start + 1) + i - 1]
    BY <2>2, <2>3
  <2>5. \A i \in 1 .. last - start : (start + 1) + i - 1 = start + i
    BY <1>5
  <2> HIDE DEF page
  <2> QED BY <2>2, <2>3, <2>4, <2>5
<1> HIDE DEF page
<1>7. /\ more \in Seq(Transaction) /\ Len(more) = g + (last - start)
      /\ \A i \in 1 .. g : more[i] = got[i]
      /\ \A i \in 1 .. last - start : more[g + i] = S[start + i]
  <2>1. /\ more \in Seq(Transaction) /\ Len(more) = g + Len(page)
        /\ \A i \in 1 .. g + Len(page) : more[i] =
                IF i <= g THEN got[i] ELSE page[i - g]
    BY <1>6, ConcatProperties
  <2> HIDE DEF more
  <2>2. \A i \in 1 .. g : more[i] = got[i]
    BY <1>2, <1>5, <1>6, <2>1
  <2>3. ASSUME NEW i \in 1 .. last - start PROVE more[g + i] = S[start + i]
    <3>1. g + i \in 1 .. g + Len(page) /\ ~(g + i <= g) /\ (g + i) - g = i
      BY <1>2, <1>5, <1>6
    <3>2. more[g + i] = page[i]
      BY <2>1, <3>1
    <3> QED BY <1>6, <3>2
  <2> QED BY <1>6, <2>1, <2>2, <2>3
<1> HIDE DEF more
<1>8. /\ DOMAIN more = 1 .. Len(more)
      /\ \A i \in 1 .. Len(more) : i \in 1 .. g \/ \E k \in 1 .. last - start : i = g + k
  <2>1. ASSUME NEW i \in 1 .. Len(more), ~(i \in 1 .. g)
        PROVE  \E k \in 1 .. last - start : i = g + k
    <3>1. i - g \in 1 .. last - start /\ i = g + (i - g)
      BY <1>2, <1>5, <1>7, <2>1
    <3> QED BY <3>1
  <2> QED BY <1>7, <2>1
<1>9. \A k \in 1 .. last - start : start + k \in 1 .. n
  BY <1>1, <1>5
<1>10. \A i \in 1 .. Len(more) : more[i] \in stored
  <2>1. \A i \in 1 .. g : got[i] \in stored
    BY DEF ReadSoFar
  <2> SUFFICES ASSUME NEW i \in 1 .. Len(more) PROVE more[i] \in stored
    OBVIOUS
  <2>2. CASE i \in 1 .. g
    BY <1>7, <2>1, <2>2
  <2>3. ASSUME NEW k \in 1 .. last - start, i = g + k PROVE more[i] \in stored
    <3>1. more[i] = S[start + k] /\ start + k \in 1 .. n
      BY <1>7, <1>9, <2>3
    <3> QED BY <1>1, <3>1
  <2> QED BY <1>8, <2>2, <2>3
\* What was read precedes what the page holds.
<1>11. ASSUME NEW i \in 1 .. g, NEW m \in 1 .. n, start < m
       PROVE  Precedes(order, got[i], S[m])
  <2>1. g >= 1 /\ got # <<>> /\ start \in 1 .. n /\ S[start] = got[g] /\ g \in 1 .. g
    BY <1>2, <1>4, EmptySeq
  <2>2. Precedes(order, S[start], S[m])
    BY <1>1, <1>11, <2>1 DEF InOrder
  <2>3. i = g \/ Precedes(order, got[i], got[g])
    <3>1. i = g \/ i < g
      <4>1. g \in Nat
        BY <1>2
      <4> HIDE DEF g
      <4> QED BY <4>1
    <3> QED BY <2>1, <3>1 DEF ReadSoFar, InOrder
  <2>4. got[i] \in Transaction /\ got[g] \in Transaction /\ S[m] \in Transaction
    BY <1>2, <2>1
  <2> QED BY <2>1, <2>2, <2>3, <2>4, OrderIsStrict
<1>12. InOrder(more, order)
  <2> SUFFICES ASSUME NEW i \in 1 .. Len(more), NEW j \in 1 .. Len(more), i < j
               PROVE  Precedes(order, more[i], more[j])
    BY DEF InOrder
  <2>1. CASE i \in 1 .. g /\ j \in 1 .. g
    <3>1. more[i] = got[i] /\ more[j] = got[j]
      BY <1>7, <2>1
    <3> QED BY <2>1, <3>1 DEF ReadSoFar, InOrder
  <2>2. ASSUME i \in 1 .. g, NEW k \in 1 .. last - start, j = g + k
        PROVE  Precedes(order, more[i], more[j])
    <3>1. start + k \in 1 .. n /\ start < start + k
      BY <1>5, <1>9
    <3>2. more[i] = got[i] /\ more[j] = S[start + k]
      BY <1>7, <2>2
    <3>3. Precedes(order, got[i], S[start + k])
      BY <1>11, <2>2, <3>1
    <3> QED BY <3>2, <3>3
  <2>3. ASSUME NEW k \in 1 .. last - start, i = g + k,
               NEW m \in 1 .. last - start, j = g + m
        PROVE  Precedes(order, more[i], more[j])
    <3>1. start + k \in 1 .. n /\ start + m \in 1 .. n /\ start + k < start + m
      BY <1>2, <1>5, <1>9, <2>3
    <3>2. more[i] = S[start + k] /\ more[j] = S[start + m]
      BY <1>7, <2>3
    <3>3. Precedes(order, S[start + k], S[start + m])
      BY <1>1, <3>1 DEF InOrder
    <3> QED BY <3>2, <3>3
  <2>4. ASSUME NEW k \in 1 .. last - start, i = g + k PROVE j \notin 1 .. g
    BY <1>2, <1>5, <2>4
  <2> QED BY <1>8, <2>1, <2>2, <2>3, <2>4
\* Where the list now ends.
<1>13. /\ page = <<>> <=> last = start
       /\ page = <<>> => more = got
       /\ page # <<>> => /\ last \in 1 .. n /\ start < last
                         /\ more[Len(more)] = S[last] /\ Last(page) = S[last]
                         /\ more # <<>>
  <2>1. page = <<>> <=> last = start
    <3>1. page # <<>> => Len(page) >= 1
      BY <1>6, EmptySeq
    <3>2. page = <<>> => Len(page) = 0
      OBVIOUS
    <3> QED BY <1>5, <1>6, <3>1, <3>2
  <2>2. page = <<>> => more = got
    BY DEF more
  <2>3. ASSUME page # <<>>
        PROVE  /\ last \in 1 .. n /\ start < last
               /\ more[Len(more)] = S[last] /\ Last(page) = S[last]
               /\ more # <<>>
    <3>1. start < last /\ last - start \in 1 .. last - start /\ last \in 1 .. n
      BY <1>1, <1>5, <2>1, <2>3
    <3>2. start + (last - start) = last
      BY <1>5
    <3>3. more[g + (last - start)] = S[last] /\ page[last - start] = S[last]
      BY <1>6, <1>7, <3>1, <3>2
    <3>4. Len(more) # 0
      BY <1>2, <1>7, <3>1, <1>5
    <3>5. more # <<>>
      BY <3>4
    <3> QED BY <1>6, <1>7, <3>1, <3>3, <3>5 DEF Last
  <2> QED BY <2>1, <2>2, <2>3
\* The due up to the end of the page has been read.
<1>14. ASSUME NEW d \in due, NEW m \in 1 .. last, S[m] = d
       PROVE  d \in ToSet(more)
  <2>1. CASE m <= start
    <3>1. start \in 1 .. n /\ m \in 1 .. n /\ got # <<>> /\ S[start] = got[g] /\ g \in 1 .. g
      BY <1>1, <1>2, <1>4, <1>5, <2>1
    <3>2. ~Precedes(order, got[g], d)
      <4>1. m = start \/ m < start
        BY <1>5, <2>1
      <4>2. S[m] \in Transaction /\ S[start] \in Transaction
        BY <1>2, <3>1
      <4>3. m < start => Precedes(order, S[m], S[start])
        BY <1>1, <3>1 DEF InOrder
      <4> QED BY <1>14, <3>1, <4>1, <4>2, <4>3, OrderIsStrict
    <3>3. d \in ToSet(got)
      BY <3>1, <3>2 DEF ReadSoFar
    <3>4. PICK i \in 1 .. g : d = got[i]
      BY <1>2, <3>3 DEF ToSet
    <3>5. i \in 1 .. Len(more) /\ more[i] = d
      BY <1>2, <1>5, <1>7, <3>4
    <3> QED BY <1>8, <3>5 DEF ToSet
  <2>2. CASE start < m
    <3>1. m - start \in 1 .. last - start /\ start + (m - start) = m
      BY <1>5, <2>2
    <3>2. more[g + (m - start)] = d
      BY <1>7, <1>14, <3>1
    <3>3. g + (m - start) \in 1 .. Len(more)
      <4>1. g \in Nat /\ Len(more) = g + (last - start)
        BY <1>2, <1>7
      <4>2. last - start \in Int
        BY <1>5
      <4> HIDE DEF g
      <4> QED BY <3>1, <4>1, <4>2
    <3> QED BY <1>8, <3>2, <3>3 DEF ToSet
  <2> QED BY <1>5, <2>1, <2>2
<1>15. ASSUME NEW d \in due PROVE \E m \in 1 .. n : S[m] = d
  BY <1>1 DEF ReadSoFar
<1>16. last = n => due \subseteq ToSet(more)
  BY <1>14, <1>15
<1>17. more # <<>> =>
            \A d \in due : Precedes(order, more[Len(more)], d) \/ d \in ToSet(more)
  <2> SUFFICES ASSUME more # <<>>, NEW d \in due, ~Precedes(order, more[Len(more)], d)
               PROVE  d \in ToSet(more)
    OBVIOUS
  <2>1. CASE page = <<>>
    <3>1. more = got
      BY <1>13, <2>1
    <3> QED BY <3>1 DEF ReadSoFar
  <2>2. CASE page # <<>>
    <3>1. PICK m \in 1 .. n : S[m] = d
      BY <1>15
    <3>2. last \in 1 .. n /\ more[Len(more)] = S[last]
      BY <1>13, <2>2
    <3>3. ~(last < m)
      BY <1>1, <3>1, <3>2 DEF InOrder
    <3>4. m \in 1 .. last
      BY <1>5, <3>1, <3>3
    <3> QED BY <1>14, <3>1, <3>4
  <2> QED BY <2>1, <2>2
<1>18. next \in Nat /\ IF more = <<>> THEN next = 0 ELSE next = more[Len(more)].id
  <2>1. CASE page = <<>>
    <3>1. more = got /\ next = cursor
      BY <1>13, <2>1
    <3>2. IF got = <<>> THEN cursor = 0 ELSE cursor = got[g].id
      BY DEF ReadSoFar
    <3>3. got # <<>> => got[g].id \in Nat
      <4>1. got # <<>> => got[g] \in Transaction
        BY <1>2, EmptySeq
      <4> QED BY <4>1 DEF Transaction
    <3> QED BY <3>1, <3>2, <3>3
  <2>2. CASE page # <<>>
    <3>1. next = S[last].id /\ more # <<>> /\ more[Len(more)] = S[last] /\ S[last] \in Transaction
      BY <1>2, <1>13, <2>2
    <3> QED BY <3>1 DEF Transaction
  <2> QED BY <2>1, <2>2
<1>19. ReadSoFar(order, more, due, next)
  <2>1. due \subseteq stored
    BY DEF ReadSoFar
  <2> HIDE DEF next
  <2> QED BY <1>10, <1>12, <1>17, <1>18, <2>1 DEF ReadSoFar
<1> HIDE DEF next
<1> QED BY <1>4, <1>6, <1>7, <1>16, <1>18, <1>19 DEF next, more, page

LEMMA HistoryReads ==
    ASSUME HistoryInv, NEW limit \in PageLimits, ReadPage(limit)
    PROVE  HistoryInv'
<1> DEFINE order == walk.order
           got == walk.got
           S == Sorted(order)
           start == StartAt(S, got, walk.cursor)
           left == start + limit < Len(S)
           last == IF left THEN start + limit ELSE Len(S)
           page == SubSeq(S, start + 1, last)
           more == got \o page
           next == IF page = <<>> THEN walk.cursor ELSE Last(page).id
           at == IF left THEN "reading" ELSE "done"
<1>1. /\ walk' = [walk EXCEPT !.got = more, !.cursor = next, !.at = at]
      /\ history' = history
  BY DEF ReadPage
<1>2. /\ history \in Seq(Transaction) /\ Numbered /\ walk \in Walk
      /\ ReadSoFar(order, got, walk.due, walk.cursor)
  BY DEF HistoryInv, WalkSound, ReadPage, NoWalk
<1>3. /\ order \in Order /\ got \in Seq(Transaction) /\ walk.due \in SUBSET Transaction
      /\ limit \in Nat
  BY <1>2, WalkFields, ApiAssumption
<1>4. S \in Seq(Transaction) /\ Len(S) \in Nat
  <2>1. S \in Seq(Transaction)
    BY <1>2, <1>3, SortedHistory
  <2> HIDE DEF S
  <2> QED BY <2>1
<1>5. start \in 0 .. Len(S)
  <2>1. StartAt(S, got, walk.cursor) \in 0 .. Len(S)
    <3> HIDE DEF S, order, got
    <3>1. DOMAIN S = 1 .. Len(S)
      BY <1>4
    <3>2. CASE \E i \in DOMAIN S : S[i].id = walk.cursor
      <4>1. StartAt(S, got, walk.cursor) \in DOMAIN S
        BY <3>2 DEF StartAt
      <4> QED BY <1>4, <3>1, <4>1
    <3>3. CASE ~\E i \in DOMAIN S : S[i].id = walk.cursor
      BY <1>4, <3>3 DEF StartAt
    <3> QED BY <3>2, <3>3
  <2> QED BY <2>1
<1>6. last \in start .. Len(S) /\ (~left => last = Len(S))
  <2> HIDE DEF start, S
  <2> QED BY <1>3, <1>4, <1>5
<1>7. /\ more \in Seq(Transaction) /\ next \in Nat
      /\ ReadSoFar(order, more, walk.due, next)
      /\ last = Len(S) => walk.due \subseteq ToSet(more)
  <2> HIDE DEF last
  <2> QED BY <1>2, <1>3, <1>6, PageContinues
<1>8. at \in {"reading", "done"} /\ (at = "done" => walk.due \subseteq ToSet(more))
  <2> HIDE DEF left, last, more, S
  <2> QED BY <1>6, <1>7
<1> HIDE DEF more, next, at, order, got
<1>9. /\ walk' \in Walk /\ walk'.got = more /\ walk'.cursor = next /\ walk'.at = at
      /\ walk'.order = order /\ walk'.due = walk.due
  BY <1>1, <1>2, <1>7, <1>8 DEF Walk, order
<1>10. WalkSound'
  BY <1>1, <1>7, <1>8, <1>9 DEF WalkSound, ReadSoFar
<1> QED BY <1>1, <1>2, <1>10 DEF HistoryInv, Numbered

LEMMA HistoryInvStep == HistoryInv /\ [HistoryNext]_apiVars => HistoryInv'
<1> SUFFICES ASSUME HistoryInv, [HistoryNext]_apiVars PROVE HistoryInv'
  OBVIOUS
<1>1. CASE RestartServer
  <2>1. history' = <<>> /\ DOMAIN history' = {} /\ walk' = NoWalk
    BY <1>1 DEF RestartServer
  <2> QED BY <2>1 DEF HistoryInv, Numbered, NoWalk
<1>2. CASE TableNext \/ UNCHANGED apiVars
  <2>1. history' = history /\ walk' = walk
    BY <1>2 DEF TableNext, IndexGroup, DeleteGroup, walkVars, apiVars
  <2> QED BY <2>1 DEF HistoryInv, Numbered, WalkSound, ReadSoFar
<1> QED BY <1>1, <1>2, HistoryAdds, HistoryBegins, HistoryReads DEF HistoryNext, Order

\* Whatever is added between the pages, with whatever timestamps, a client
\* that follows the cursors to the end gets all there was when it began, and
\* nothing twice (getTransactions).
THEOREM WalksAreComplete == HistorySpec => []WalkComplete
<1>1. HistoryInv => WalkComplete
  <2> SUFFICES ASSUME HistoryInv, walk.at # "idle"
               PROVE  IsInjective(walk.got)
                      /\ (walk.at = "done" => walk.due \subseteq ToSet(walk.got))
    BY DEF WalkComplete
  <2>1. WalkSound
    BY DEF HistoryInv, NoWalk
  <2>2. /\ walk.got \in Seq(Transaction) /\ Len(walk.got) \in Nat
        /\ DOMAIN walk.got = 1 .. Len(walk.got) /\ walk.order \in Order
    BY <2>1, WalkFields DEF WalkSound
  <2>3. ASSUME NEW i \in DOMAIN walk.got, NEW j \in DOMAIN walk.got, i < j
        PROVE  walk.got[i] # walk.got[j]
    <3>1. Precedes(walk.order, walk.got[i], walk.got[j])
      BY <2>1, <2>2, <2>3 DEF WalkSound, ReadSoFar, InOrder
    <3>2. walk.got[i] \in Transaction
      BY <2>2
    <3> QED BY <2>2, <3>1, <3>2, OrderIsStrict
  <2>4. \A i, j \in DOMAIN walk.got : i # j => i < j \/ j < i
    BY <2>2
  <2> QED BY <2>1, <2>3, <2>4 DEF IsInjective, WalkSound
<1> QED BY <1>1, HistoryInvInit, HistoryInvStep, PTL DEF HistorySpec
=============================================================================
