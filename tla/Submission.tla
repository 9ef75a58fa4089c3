---- MODULE Submission ----
(***************************************************************************)
(* The hook that carries a group to the chain in stages, with retries      *)
(* (lib/hooks/useGroupSubmission.ts).  Each call of submit is a run of its *)
(* own: nothing stops a caller from starting one while another is on its   *)
(* way.  No page uses the hook yet; its caller's onSubmit is external: it  *)
(* may answer, refuse, or fail after the chain accepted the transaction.   *)
(***************************************************************************)
EXTENDS Naturals, FiniteSets

CONSTANTS Run,          \* the calls of submit
          MaxAccepted   \* bound on the transactions counted

VARIABLES
  stage,         \* what the page shows
  canRetry,
  hasSigned,     \* the two refs
  hasSubmitted,
  phase,         \* phase[r]: where run r awaits
  accepted,      \* history: transactions the chain accepted since the reset
  unclear        \* history: runs overlapped, or an answer was lost

submissionVars == <<stage, canRetry, hasSigned, hasSubmitted, phase,
                    accepted, unclear>>

Alive == {r \in Run : phase[r] # "idle"}

SubmissionInit ==
  /\ stage = "idle" /\ canRetry = TRUE
  /\ hasSigned = FALSE /\ hasSubmitted = FALSE
  /\ phase = [r \in Run |-> "idle"]
  /\ accepted = 0 /\ unclear = FALSE

Reset ==
  /\ stage' = "idle" /\ canRetry' = TRUE
  /\ hasSigned' = FALSE /\ hasSubmitted' = FALSE
  /\ accepted' = 0 /\ unclear' = (Alive # {})
  /\ UNCHANGED phase

\* A second submission after an accepted one is refused for good.
SubmitGroup(r, retried) ==
  /\ phase[r] = "idle"
  /\ IF hasSubmitted
     THEN /\ stage' = "error" /\ canRetry' = FALSE
          /\ UNCHANGED <<phase, unclear>>
     ELSE /\ stage' = "simulating"
          /\ canRetry' = IF retried THEN TRUE ELSE canRetry
          /\ phase' = [phase EXCEPT ![r] = "simulating"]
          /\ unclear' = (unclear \/ Alive # {})
  /\ UNCHANGED <<hasSigned, hasSubmitted, accepted>>

RetrySubmission(r) == canRetry /\ SubmitGroup(r, TRUE)

\* A retry keeps the signature of the run before and goes straight on.
Simulated(r) ==
  /\ phase[r] = "simulating"
  /\ stage' = IF hasSigned THEN "submitting" ELSE "awaiting_signature"
  /\ phase' = [phase EXCEPT ![r] = IF hasSigned THEN "sending" ELSE "signing"]
  /\ UNCHANGED <<canRetry, hasSigned, hasSubmitted, accepted, unclear>>

Signed(r) ==
  /\ phase[r] = "signing"
  /\ hasSigned' = TRUE /\ stage' = "submitting"
  /\ phase' = [phase EXCEPT ![r] = "sending"]
  /\ UNCHANGED <<canRetry, hasSubmitted, accepted, unclear>>

\* Mutant: the ref is left for onSuccess's caller to set.
AcceptedUnmarked(r) ==
  /\ phase[r] = "sending" /\ accepted < MaxAccepted
  /\ accepted' = accepted + 1 /\ stage' = "confirming"
  /\ phase' = [phase EXCEPT ![r] = "confirming"]
  /\ UNCHANGED <<canRetry, hasSigned, hasSubmitted, unclear>>

\* onSubmit answered: the ref is set before the confirmation is awaited.
Accepted(r) ==
  /\ phase[r] = "sending" /\ accepted < MaxAccepted
  /\ accepted' = accepted + 1
  /\ hasSubmitted' = TRUE /\ stage' = "confirming"
  /\ phase' = [phase EXCEPT ![r] = "confirming"]
  /\ UNCHANGED <<canRetry, hasSigned, unclear>>

\* The catch: a failure can be retried unless onSubmit once answered.
Failed(r) ==
  /\ stage' = "error" /\ canRetry' = ~hasSubmitted
  /\ phase' = [phase EXCEPT ![r] = "idle"]
  /\ UNCHANGED <<hasSigned, hasSubmitted>>

Refused(r) ==
  /\ phase[r] = "sending" /\ Failed(r)
  /\ UNCHANGED <<accepted, unclear>>

AnswerLost(r) ==
  /\ phase[r] = "sending" /\ accepted < MaxAccepted
  /\ accepted' = accepted + 1 /\ unclear' = TRUE
  /\ Failed(r)

Confirmed(r) ==
  /\ phase[r] = "confirming" /\ stage' = "success"
  /\ phase' = [phase EXCEPT ![r] = "idle"]
  /\ UNCHANGED <<canRetry, hasSigned, hasSubmitted, accepted, unclear>>

\* onSuccess throws inside the try block.
SuccessHandlerFails(r) ==
  /\ phase[r] = "confirming" /\ Failed(r)
  /\ UNCHANGED <<accepted, unclear>>

SubmissionNext ==
  \/ Reset
  \/ \E r \in Run :
       \/ SubmitGroup(r, FALSE) \/ RetrySubmission(r) \/ Simulated(r) \/ Signed(r)
       \/ Accepted(r) \/ Refused(r) \/ AnswerLost(r) \/ Confirmed(r)
       \/ SuccessHandlerFails(r)

SubmissionSpec == SubmissionInit /\ [][SubmissionNext]_submissionVars

(***************************************************************************)
(* "Prevents double-submission of already-signed transactions"             *)
(* (useGroupSubmission.ts line 21), as far as the code keeps it: while no  *)
(* two runs overlap and no answer is lost, however often a failed run is   *)
(* retried and wherever it failed, the chain accepts at most one           *)
(* transaction between two resets.  Runs that overlap (line 47 looks at    *)
(* what line 75 sets after the chain has answered) break the promise.      *)
(***************************************************************************)
OncePerReset == unclear \/ accepted <= 1
====
