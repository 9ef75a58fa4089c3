------------------------------ MODULE Horizon ------------------------------
(***************************************************************************)
(* backend/src/services/horizon.ts: concurrent requests that share one     *)
(* cache of accounts and one circuit breaker, each of which calls Horizon  *)
(* again after a transient failure. Time passes in ticks; Horizon's        *)
(* answers are external. What an account holds is how old the reading is.  *)
(***************************************************************************)
EXTENDS Naturals

CONSTANTS
    Caller,             \* requests in progress at the same time
    Retries,            \* 3 in the code
    REQUEST_TIMEOUT,
    CACHE_TTL,
    Cooldown,           \* circuitBreaker.cooldown
    Threshold           \* circuitBreaker.threshold: 5 in the code

ASSUME HorizonAssumption ==
    /\ {Retries, REQUEST_TIMEOUT, CACHE_TTL, Cooldown} \subseteq Nat
    /\ Threshold \in Nat \ {0}

VARIABLES
    failures, isOpen,   \* circuitBreaker
    lastFailure,        \* ticks since circuitBreaker.lastFailure
    cache,              \* ticks since the one account was read and cached
    call,               \* what each request is doing
    served,             \* history: the age of the account last answered
    tripped             \* history: ticks since a failure was counted that made
                        \* the threshold, told apart up to the cooldown

horizonVars == <<failures, isOpen, lastFailure, cache, call, served, tripped>>

NotCached == [read |-> 0, cached |-> CACHE_TTL]
NoCall == [at |-> "idle"]

HorizonInit ==
    /\ failures = 0
    /\ isOpen = FALSE
    /\ lastFailure = Cooldown + 1
    /\ cache = NotCached
    /\ call = [r \in Caller |-> NoCall]
    /\ served = 0
    /\ tripped = Cooldown + 1

Calling(what, left) == [at |-> "calling", what |-> what, left |-> left, age |-> 0]

-----------------------------------------------------------------------------
(* checkCircuit                                                            *)

Cooled == lastFailure > Cooldown
Admits == isOpen => Cooled

\* Half open: everybody is let in again.
PassCircuit ==
    /\ Admits
    /\ isOpen' = FALSE
    /\ failures' = IF isOpen THEN 0 ELSE failures

(* getAccountDetails, getAccountBalances, getTransactions and getPayments  *)

\* Mutant: an answer from the cache renews it.
RenewedHit == cache' = [cache EXCEPT !.cached = 0]

Hit == UNCHANGED cache

CacheHit(r) ==
    /\ call[r] = NoCall
    /\ PassCircuit
    /\ cache.cached < CACHE_TTL
    /\ served' = cache.read
    /\ Hit
    /\ UNCHANGED <<lastFailure, call, tripped>>

Begin(r, what) ==
    /\ call[r] = NoCall
    /\ PassCircuit
    /\ what = "account" => cache.cached >= CACHE_TTL
    /\ call' = [call EXCEPT ![r] = Calling(what, Retries)]
    /\ UNCHANGED <<lastFailure, cache, served, tripped>>

\* Mutant: the success of a request that was under way closes the breaker.
SuccessCloses == failures' = 0 /\ isOpen' = FALSE

\* A success resets the failures of the breaker without closing it, and only
\* that of an account does.
SuccessResets == failures' = 0 /\ UNCHANGED isOpen

Succeed(r) ==
    /\ call[r].at = "calling"
    /\ IF call[r].what = "account"
       THEN /\ cache' = [read |-> call[r].age, cached |-> 0]
            /\ served' = call[r].age
            /\ SuccessResets
       ELSE UNCHANGED <<cache, served, failures, isOpen>>
    /\ call' = [call EXCEPT ![r] = NoCall]
    /\ UNCHANGED <<lastFailure, tripped>>

-----------------------------------------------------------------------------
(* withRetry and handleHorizonError                                        *)

\* 404 ends the request, 429 is transient but no failure of Horizon's, and
\* 5xx, a network error and the timeout are both.
Errors == {"not_found", "limited", "down"}

Opened == isOpen' = (isOpen \/ failures' >= Threshold)

\* Bound: failures are counted up to the threshold and one more.
CountFailure ==
    /\ failures' = IF failures > Threshold THEN failures ELSE failures + 1
    /\ lastFailure' = 0
    /\ Opened
    /\ tripped' = IF failures' >= Threshold THEN 0 ELSE tripped

Retry(r) ==
    /\ call[r].left > 0
    /\ call' = [call EXCEPT ![r] = [at |-> "backoff", what |-> call[r].what,
                                    left |-> call[r].left - 1]]
    /\ UNCHANGED <<failures, isOpen, lastFailure, tripped>>

GiveUp(r, error) ==
    /\ error # "not_found" => call[r].left = 0
    /\ call' = [call EXCEPT ![r] = NoCall]
    /\ IF error = "down" THEN CountFailure
       ELSE UNCHANGED <<failures, isOpen, lastFailure, tripped>>

InTime(age) == age < REQUEST_TIMEOUT

CallFails(r, error) ==
    /\ call[r].at = "calling"
    /\ (error # "not_found" /\ Retry(r)) \/ GiveUp(r, error)
    /\ UNCHANGED <<cache, served>>

\* The wait before a retry is over; the circuit is not looked at again.
CallAgain(r) ==
    /\ call[r].at = "backoff"
    /\ call' = [call EXCEPT ![r] = Calling(call[r].what, call[r].left)]
    /\ UNCHANGED <<failures, isOpen, lastFailure, cache, served, tripped>>

\* A call whose time is up ends first, by its timer or by its answer. Ages
\* are told apart up to where they make no difference.
HorizonTick ==
    /\ \A r \in Caller : call[r].at = "calling" => InTime(call[r].age)
    /\ call' = [r \in Caller |-> IF call[r].at = "calling"
                                 THEN [call[r] EXCEPT !.age = @ + 1] ELSE call[r]]
    /\ cache' = IF cache.cached < CACHE_TTL
                THEN [read |-> cache.read + 1, cached |-> cache.cached + 1]
                ELSE NotCached
    /\ lastFailure' = IF Cooled THEN lastFailure ELSE lastFailure + 1
    /\ tripped' = IF tripped > Cooldown THEN tripped ELSE tripped + 1
    /\ UNCHANGED <<failures, isOpen, served>>

HorizonNext ==
    \/ \E r \in Caller :
        \/ CacheHit(r) \/ Succeed(r) \/ CallAgain(r)
        \/ \E what \in {"account", "records"} : Begin(r, what)
        \/ \E error \in Errors : CallFails(r, error)
    \/ HorizonTick

HorizonSpec == HorizonInit /\ [][HorizonNext]_horizonVars

(* An account is answered as it was at most CACHE_TTL and REQUEST_TIMEOUT  *)
(* ago, though the cache dates it from the end of a call that was slow and *)
(* a slower call may overwrite what a later one read.                      *)
AccountAgeBounded == served <= CACHE_TTL + REQUEST_TIMEOUT

(* From the failure that made the threshold nobody is let through, to the  *)
(* cache or to Horizon, until the cooldown is over: not when a request     *)
(* that was already under way succeeds, which sets the failures to 0, nor  *)
(* when others fail later, which only makes it longer (checkCircuit).      *)
BreakerHolds ==
    [][\A r \in Caller :
        CacheHit(r) \/ Begin(r, "account") \/ Begin(r, "records")
            => tripped > Cooldown]_horizonVars
=============================================================================
