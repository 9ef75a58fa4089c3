-------------------------------- MODULE Api --------------------------------
(***************************************************************************)
(* The REST API of the backend: profiles (routes/users.ts and              *)
(* services/users.ts, kept in memory), the groups table as PUT and GET see *)
(* it (routes/groups.ts, services/groups.ts), the paged history            *)
(* (routes/transactions.ts, services/transactions.ts) and what stands      *)
(* before them (validate, idempotency). Handlers between two awaits of     *)
(* the database are one step; so are those that only await memory.         *)
(***************************************************************************)
EXTENDS Naturals, Sequences, FiniteSets, SequencesExt

CONSTANTS
    User,              \* authenticated public keys
    Whole,             \* percentages of a group: 100 in the code
    MaxProfile,        \* bound: profiles ever created
    MaxHistory,        \* bound: transactions added
    MaxTime,           \* bound: timestamps
    PageLimits         \* limits asked for

ASSUME ApiAssumption ==
    {Whole, MaxProfile, MaxHistory, MaxTime} \cup PageLimits \subseteq Nat

VARIABLES
    profiles,     \* users: sequence of [id, address, name]
    created,      \* profile ids handed out
    group,        \* the row of one group, or NoRow once a repair deleted it
    put,          \* the PUT of each user on it
    history,      \* transactions, in the order they were added
    walk,         \* a client reading the history page by page
    answer        \* the last answer to a POST

profileVars == <<profiles, created>>
groupVars == <<group, put>>
walkVars == <<history, walk>>
apiVars == <<profileVars, groupVars, walkVars, answer>>

NoRow == [stored |-> FALSE]
Row(creator, members, token) ==
    [stored |-> TRUE, creator |-> creator, members |-> members, token |-> token]

NoPut == [at |-> "idle"]
NoWalk == [at |-> "idle"]
NoAnswer == [status |-> 0]

ApiInit ==
    /\ profiles = <<>>
    /\ created = 0
    /\ group \in {Row(c, m, "chain") : c \in User, m \in SUBSET User}
    /\ put = [u \in User |-> NoPut]
    /\ history = <<>>
    /\ walk = NoWalk
    /\ answer = NoAnswer

-----------------------------------------------------------------------------
(* Before the handlers                                                     *)

\* validate parses the body but hands the handler the body as it came.
\* The schema of a member drops the name that validateMembers asks for.
ParsedMember(m) == [address |-> m.address, percentage |-> m.percentage]

CompleteMembers(members) ==
    LET percentages == [i \in DOMAIN members |-> members[i].percentage]
    IN  /\ \A i \in DOMAIN members :
            /\ {"address", "name", "percentage"} \subseteq DOMAIN members[i]
            /\ members[i].percentage > 0
        /\ SumFunction(percentages) = Whole

SchemaAccepts(members) ==
    CompleteMembers([i \in DOMAIN members |-> ParsedMember(members[i])])

\* Member lists a client sends.
NamedMember(u, p) == [address |-> u, name |-> u, percentage |-> p]
Bodies == {<<NamedMember(u, p)>> : u \in User, p \in {1, Whole}}
            \cup {<<NamedMember(u, 1), NamedMember(v, Whole - 1)>> : u, v \in User}

\* The middleware reads a column the table has not: any key is an error.
KeyedPost ==
    /\ answer' = [status |-> 500]
    /\ UNCHANGED <<profileVars, groupVars, walkVars>>

\* POST /groups: create would follow.
PostGroup(members) ==
    /\ ~SchemaAccepts(members)
    /\ answer' = [status |-> 400, members |-> members]
    /\ UNCHANGED <<profileVars, groupVars, walkVars>>

-----------------------------------------------------------------------------
(* Profiles                                                                *)

ProfilesOf(u) == {p \in ToSet(profiles) : p.address = u}

\* Mutant: the check is by the name of the profile.
FreeName(u, name) == \A p \in ToSet(profiles) : p.name # name

Free(u, name) == ProfilesOf(u) = {}

PostUser(u, name) ==
    /\ created < MaxProfile
    /\ IF Free(u, name)
       THEN /\ profiles' = Append(profiles, [id |-> created + 1, address |-> u,
                                             name |-> name])
            /\ created' = created + 1
            /\ answer' = [status |-> 201]
       ELSE /\ answer' = [status |-> 409]
            /\ UNCHANGED profileVars
    /\ UNCHANGED <<groupVars, walkVars>>

Owns(u, p) == p.address = u

PutUser(u, id, name) ==
    /\ \E i \in DOMAIN profiles :
        /\ profiles[i].id = id
        /\ Owns(u, profiles[i])
        /\ profiles' = [profiles EXCEPT ![i].name = name]
    /\ UNCHANGED <<created, groupVars, walkVars, answer>>

\* The profiles are in memory.
RestartServer ==
    /\ profiles' = <<>>
    /\ put' = [u \in User |-> NoPut]
    /\ walk' = NoWalk
    /\ history' = <<>>
    /\ UNCHANGED <<created, group, answer>>

-----------------------------------------------------------------------------
(* PUT /groups/:id without members: no list of members is ever accepted    *)

AuthorizePut(u) ==
    /\ put[u] = NoPut
    /\ group.stored
    /\ group.creator = u
    /\ put' = [put EXCEPT ![u] = [at |-> "authorized"]]
    /\ UNCHANGED <<profileVars, group, walkVars, answer>>

\* update: a row that is gone is answered 500.
UpdateGroup(u) ==
    /\ put[u].at = "authorized"
    /\ group' = IF group.stored THEN [group EXCEPT !.token = "edited"] ELSE group
    /\ put' = [put EXCEPT ![u] = NoPut]
    /\ UNCHANGED <<profileVars, walkVars, answer>>

\* The indexer writes the chain's token and members; a repair deletes the row
\* of a group the chain does not return, and the indexer may insert another.
IndexGroup ==
    /\ \E members \in SUBSET User, creator \in User :
        /\ group.stored => creator = group.creator
        /\ group' = Row(creator, members, "chain")
    /\ UNCHANGED <<profileVars, put, walkVars, answer>>

DeleteGroup ==
    /\ group' = NoRow
    /\ UNCHANGED <<profileVars, put, walkVars, answer>>

-----------------------------------------------------------------------------
(* GET /transactions                                                       *)

AddTransaction(time) ==
    /\ Len(history) < MaxHistory
    /\ history' = Append(history, [id |-> Len(history) + 1, timestamp |-> time])
    /\ UNCHANGED <<profileVars, groupVars, walk, answer>>

MayRead(u) == group.stored /\ (group.creator = u \/ u \in group.members)

Precedes(order, a, b) ==
    \/ order = "asc" /\ a.timestamp < b.timestamp
    \/ order = "desc" /\ a.timestamp > b.timestamp
    \/ a.timestamp = b.timestamp /\ a.id < b.id

\* Each transaction stands where as many stand before it as precede it.
Sorted(order) ==
    LET stored == ToSet(history)
        before(t) == {u \in stored : Precedes(order, u, t)}
    IN  [i \in 1 .. Len(history) |->
            CHOOSE t \in stored : Cardinality(before(t)) = i - 1]

\* Mutant: the cursor is the number of transactions read.
StartAtCount(sorted, got, cursor) == Len(got)

\* The place after the cursor's transaction, or the beginning.
StartAt(sorted, got, cursor) ==
    IF \E i \in DOMAIN sorted : sorted[i].id = cursor
    THEN CHOOSE i \in DOMAIN sorted : sorted[i].id = cursor
    ELSE 0

BeginWalk(u, order) ==
    /\ walk.at # "reading"
    /\ walk' = [at |-> "reading", reader |-> u, order |-> order, cursor |-> 0,
                got |-> <<>>, due |-> ToSet(history)]
    /\ UNCHANGED <<profileVars, groupVars, history, answer>>

ReadPage(limit) ==
    /\ walk.at = "reading"
    /\ MayRead(walk.reader)
    /\ LET sorted == Sorted(walk.order)
           start == StartAt(sorted, walk.got, walk.cursor)
           more == start + limit < Len(sorted)
           page == SubSeq(sorted, start + 1,
                          IF more THEN start + limit ELSE Len(sorted))
       IN  walk' = [walk EXCEPT
                !.got = @ \o page,
                !.cursor = IF page = <<>> THEN @ ELSE Last(page).id,
                !.at = IF more THEN "reading" ELSE "done"]
    /\ UNCHANGED <<profileVars, groupVars, history, answer>>

-----------------------------------------------------------------------------
ProfilesNext ==
    \/ \E u \in User, name \in {"a", "b"} :
        \/ PostUser(u, name)
        \/ \E id \in 1 .. created : PutUser(u, id, name)
    \/ RestartServer

ProfilesSpec == ApiInit /\ [][ProfilesNext]_apiVars

TableNext == IndexGroup \/ DeleteGroup

GroupsNext ==
    \/ KeyedPost
    \/ \E members \in Bodies : PostGroup(members)
    \/ \E u \in User : AuthorizePut(u) \/ UpdateGroup(u)
    \/ TableNext

GroupsSpec == ApiInit /\ [][GroupsNext]_apiVars

HistoryNext ==
    \/ \E time \in 1 .. MaxTime : AddTransaction(time)
    \/ \E u \in User, order \in {"asc", "desc"} : BeginWalk(u, order)
    \/ \E limit \in PageLimits : ReadPage(limit)
    \/ TableNext
    \/ RestartServer

HistorySpec == ApiInit /\ [][HistoryNext]_apiVars

(* An address has one profile ("One profile per address", routes/users.ts  *)
(* line 40), however often it asks and whatever others are called.         *)
OneProfilePerAddress ==
    \A i, j \in DOMAIN profiles :
        profiles[i].address = profiles[j].address => i = j

(* A client that follows the cursors gets every transaction there was when *)
(* it began, and none twice, whatever is added, in whatever order, between *)
(* the pages.                                                              *)
WalkComplete ==
    walk.at # "idle" =>
        /\ IsInjective(walk.got)
        /\ walk.at = "done" => walk.due \subseteq ToSet(walk.got)

(* A group the client describes in full, with percentages that add up, is  *)
(* not refused as malformed: "returns 201 with the created group payload   *)
(* on success" (groups.test.ts line 176).                                  *)
WellFormedGroupIsCreated ==
    answer.status = 400 => ~CompleteMembers(answer.members)
=============================================================================
