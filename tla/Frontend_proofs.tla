-------------------------- MODULE Frontend_proofs --------------------------
(***************************************************************************)
(* The frontend's machines, each for any number of runs, accounts, visits, *)
(* rows and steps: the submission of a group, the signed-in state of the   *)
(* wallet, the wizard with the browser's history under it, and the form    *)
(* that allocates basis points beside the contract's arithmetic.           *)
(***************************************************************************)
EXTENDS Submission, WalletClient, GroupWizard, Allocation, Shares_proofs

-----------------------------------------------------------------------------
(* However many runs a page starts, retries and resets: as long as no two  *)
(* overlapped and no answer was lost, the chain accepted at most one       *)
(* transaction. The reason: hasSubmitted is set in the step that sees the  *)
(* answer, so a run past its start was let in while nothing was accepted.  *)

SubmissionTypeOK ==
  /\ accepted \in Nat
  /\ hasSubmitted \in BOOLEAN /\ hasSigned \in BOOLEAN /\ unclear \in BOOLEAN
  /\ phase \in [Run -> {"idle", "simulating", "signing", "sending", "confirming"}]

OneRun == \A r, s \in Alive : r = s

\* A run on its way to the chain started while nothing was accepted.
SentFirst == \A r \in Alive : phase[r] # "confirming" => accepted = 0

AcceptedIsMarked == accepted <= 1 /\ (accepted = 1 => hasSubmitted)

SubmissionInv ==
  /\ SubmissionTypeOK
  /\ unclear \/ (OneRun /\ SentFirst /\ AcceptedIsMarked)

-----------------------------------------------------------------------------
LEMMA SubmissionInvInit == SubmissionInit => SubmissionInv
  <1> SUFFICES ASSUME SubmissionInit PROVE SubmissionInv
    OBVIOUS
  <1>1. SubmissionTypeOK
    <2>1. accepted \in Nat
      BY DEF SubmissionInit
    <2>2. hasSubmitted \in BOOLEAN /\ hasSigned \in BOOLEAN /\ unclear \in BOOLEAN
      BY Zenon DEF SubmissionInit
    <2>3. phase \in [Run -> {"idle", "simulating", "signing", "sending", "confirming"}]
      BY DEF SubmissionInit
    <2> QED
      BY <2>1, <2>2, <2>3 DEF SubmissionTypeOK
  <1>2. Alive = {} /\ accepted = 0
    BY DEF SubmissionInit, Alive
  <1> QED
    BY <1>1, <1>2 DEF SubmissionInv, OneRun, SentFirst, AcceptedIsMarked

(* A run that goes on, or ends, while nothing new is accepted.             *)
LEMMA RunMoves ==
  ASSUME SubmissionInv, NEW r \in Run, phase[r] # "idle",
         NEW next \in {"idle", "simulating", "signing", "sending", "confirming"},
         phase' = [phase EXCEPT ![r] = next],
         next = "idle" \/ phase[r] = "confirming" \/ next # "confirming",
         phase[r] = "confirming" => next = "idle",
         accepted' = accepted, hasSubmitted' = hasSubmitted, unclear' = unclear,
         hasSigned' \in BOOLEAN
  PROVE  SubmissionInv'
  <1>1. SubmissionTypeOK'
    BY DEF SubmissionInv, SubmissionTypeOK
  <1>2. CASE unclear
    BY <1>1, <1>2 DEF SubmissionInv
  <1>3. CASE OneRun /\ SentFirst /\ AcceptedIsMarked
    <2>1. Alive' \subseteq Alive
      BY DEF Alive, SubmissionInv, SubmissionTypeOK
    <2>2. OneRun' /\ AcceptedIsMarked'
      BY <1>3, <2>1 DEF OneRun, AcceptedIsMarked
    <2>3. SentFirst'
      BY <1>3, <2>1 DEF SentFirst, Alive, SubmissionInv, SubmissionTypeOK
    <2> QED
      BY <1>1, <2>2, <2>3 DEF SubmissionInv
  <1> QED
    BY <1>2, <1>3 DEF SubmissionInv

LEMMA SubmissionInvStep ==
  SubmissionInv /\ [SubmissionNext]_submissionVars => SubmissionInv'
  <1> SUFFICES ASSUME SubmissionInv, [SubmissionNext]_submissionVars
               PROVE  SubmissionInv'
    OBVIOUS
  <1>t. SubmissionTypeOK
    BY DEF SubmissionInv
  <1>1. CASE Reset
    <2>1. phase' = phase /\ accepted' = 0 /\ unclear' = (Alive # {})
      BY <1>1 DEF Reset
    <2>2. /\ hasSubmitted' \in BOOLEAN /\ hasSigned' \in BOOLEAN
          /\ unclear' \in BOOLEAN
      BY <1>1, Zenon DEF Reset
    <2>3. SubmissionTypeOK'
      BY <1>t, <2>1, <2>2 DEF SubmissionTypeOK
    <2>4. CASE Alive = {}
      <3>1. Alive' = {}
        BY <2>1, <2>4 DEF Alive
      <3> QED
        BY <2>1, <2>3, <3>1 DEF SubmissionInv, OneRun, SentFirst, AcceptedIsMarked
    <2> QED
      BY <2>1, <2>3, <2>4 DEF SubmissionInv
  <1>2. ASSUME NEW r \in Run, NEW retried \in BOOLEAN, SubmitGroup(r, retried)
        PROVE  SubmissionInv'
    <2>1. CASE hasSubmitted
      BY <1>2, <2>1 DEF SubmitGroup, SubmissionInv, SubmissionTypeOK, OneRun,
                        SentFirst, AcceptedIsMarked, Alive
    <2>2. CASE ~hasSubmitted
      <3>1. SubmissionTypeOK' /\ accepted' = accepted /\ hasSubmitted' = hasSubmitted
        BY <1>t, <1>2, <2>2 DEF SubmitGroup, SubmissionTypeOK
      <3>2. Alive' = Alive \cup {r} /\ phase'[r] = "simulating"
        BY <1>t, <1>2, <2>2 DEF SubmitGroup, SubmissionTypeOK, Alive
      <3>3. unclear' = (unclear \/ Alive # {})
        BY <1>2, <2>2 DEF SubmitGroup
      <3>4. CASE ~unclear'
        <4>1. ~unclear /\ Alive = {}
          BY <3>3, <3>4
        <4>2. accepted <= 1 /\ accepted # 1 /\ accepted \in Nat
          BY <1>t, <2>2, <4>1
          DEF SubmissionInv, AcceptedIsMarked, SubmissionTypeOK
        <4> QED
          BY <3>1, <3>2, <4>1, <4>2
          DEF SubmissionInv, OneRun, SentFirst, AcceptedIsMarked
      <3> QED
        BY <3>1, <3>4 DEF SubmissionInv
    <2> QED
      BY <2>1, <2>2
  <1>3. ASSUME NEW r \in Run, Simulated(r)
        PROVE  SubmissionInv'
    BY <1>t, <1>3, RunMoves DEF Simulated, SubmissionTypeOK
  <1>4. ASSUME NEW r \in Run, Signed(r)
        PROVE  SubmissionInv'
    BY <1>t, <1>4, RunMoves DEF Signed, SubmissionTypeOK
  <1>5. ASSUME NEW r \in Run, Accepted(r)
        PROVE  SubmissionInv'
    <2>1. /\ SubmissionTypeOK' /\ hasSubmitted' /\ unclear' = unclear
          /\ Alive' = Alive /\ r \in Alive /\ phase[r] = "sending"
          /\ accepted' = accepted + 1 /\ phase'[r] = "confirming"
      BY <1>t, <1>5 DEF Accepted, SubmissionTypeOK, Alive
    <2> QED
      BY <2>1 DEF SubmissionInv, OneRun, SentFirst, AcceptedIsMarked
  <1>6. ASSUME NEW r \in Run, Refused(r) \/ SuccessHandlerFails(r)
        PROVE  SubmissionInv'
    BY <1>t, <1>6, RunMoves
    DEF Refused, SuccessHandlerFails, Failed, SubmissionTypeOK
  <1>7. ASSUME NEW r \in Run, AnswerLost(r)
        PROVE  SubmissionInv'
    BY <1>t, <1>7 DEF AnswerLost, Failed, SubmissionInv, SubmissionTypeOK
  <1>8. ASSUME NEW r \in Run, Confirmed(r)
        PROVE  SubmissionInv'
    BY <1>t, <1>8, RunMoves DEF Confirmed, SubmissionTypeOK
  <1>9. CASE UNCHANGED submissionVars
    BY <1>9 DEF submissionVars, SubmissionInv, SubmissionTypeOK, OneRun,
                SentFirst, AcceptedIsMarked, Alive
  <1> QED
    BY <1>1, <1>2, <1>3, <1>4, <1>5, <1>6, <1>7, <1>8, <1>9
    DEF SubmissionNext, RetrySubmission

(* At most one transaction is accepted between two resets, unless runs     *)
(* overlapped or an answer was lost.                                       *)
THEOREM OncePerResetHolds == SubmissionSpec => []OncePerReset
  <1>1. SubmissionInv => OncePerReset
    BY DEF SubmissionInv, AcceptedIsMarked, OncePerReset
  <1> QED
    BY <1>1, SubmissionInvInit, SubmissionInvStep, PTL DEF SubmissionSpec

-----------------------------------------------------------------------------
(* For any number of accounts, connects and refreshes, in any order: while *)
(* refresh state was not reset under a call, one refresh is under way, and *)
(* while the extension changed only where the listeners look, the account  *)
(* shown is the account of the token.                                      *)

WalletTypeOK ==
  /\ extension \in [account : Account, expected : BOOLEAN]
  /\ cookie \in Account \cup {NoAccount}
  /\ attempt \in [Attempt -> [at : {"idle", "probe", "identify", "verify", "reread"},
                              account : Account \cup {NoAccount}]]
  /\ flights \in [Refresh -> Account \cup {NoAccount}]

Signing(c) == attempt[c].at \in {"verify", "reread"}
Rereading(c) == attempt[c].at = "reread"

\* Who asks for an account has one, and who refreshes has a session.
SessionsKnown ==
  /\ \A c \in Attempt : Signing(c) => attempt[c].account # NoAccount
  /\ timer \/ (\E c \in Attempt : Rereading(c)) => cookie # NoAccount

\* A promise is that of a call under way, and the only one.
PromisesSound ==
  /\ refreshPromise \subseteq InFlight
  /\ \A f, g \in refreshPromise : f = g
  /\ abandoned \/ InFlight \subseteq refreshPromise

\* Whatever is signed in, or on its way to be, is the extension's account.
Current(a) == a = extension.account

AccountsAgree ==
  /\ \A c \in Attempt : Signing(c) => Current(attempt[c].account)
  /\ timer \/ (\E c \in Attempt : Rereading(c)) => Current(cookie)
  /\ \A f \in InFlight : Current(flights[f])
  /\ status = "connected" => Current(shown) /\ (token = NoAccount \/ Current(token))

WalletInv ==
  /\ WalletTypeOK
  /\ SessionsKnown
  /\ PromisesSound
  /\ mixed \/ abandoned \/ AccountsAgree

-----------------------------------------------------------------------------
LEMMA WalletInvInit == WalletInit => WalletInv
  BY WalletAssumption
  DEF WalletInit, WalletInv, WalletTypeOK, SessionsKnown, PromisesSound,
      AccountsAgree, Signing, Rereading, InFlight, Idle

(* A step of one connect, described by what it leaves of its attempt.      *)
LEMMA AttemptMoves ==
  ASSUME WalletTypeOK, NEW c \in Attempt,
         NEW next \in [at : {"idle", "probe", "identify", "verify", "reread"},
                       account : Account \cup {NoAccount}],
         attempt' = [attempt EXCEPT ![c] = next]
  PROVE  /\ attempt' \in [Attempt -> [at : {"idle", "probe", "identify", "verify", "reread"},
                                      account : Account \cup {NoAccount}]]
         /\ attempt'[c] = next
         /\ \A d \in Attempt : d # c => attempt'[d] = attempt[d]
  BY DEF WalletTypeOK

(* A step that only says where the connect now awaits.                     *)
LEMMA AttemptAt ==
  ASSUME WalletTypeOK, NEW c \in Attempt, NEW place
  PROVE  [attempt EXCEPT ![c].at = place] =
           [attempt EXCEPT ![c] = [at |-> place, account |-> attempt[c].account]]
  <1>1. attempt[c] \in [at : {"idle", "probe", "identify", "verify", "reread"},
                        account : Account \cup {NoAccount}]
    BY DEF WalletTypeOK
  <1>2. [attempt[c] EXCEPT !.at = place] = [at |-> place, account |-> attempt[c].account]
    BY <1>1
  <1> QED
    BY <1>2

LEMMA WalletInvStep == WalletInv /\ [WalletNext]_walletVars => WalletInv'
  <1> SUFFICES ASSUME WalletInv, [WalletNext]_walletVars PROVE WalletInv'
    OBVIOUS
  <1>i. WalletTypeOK /\ SessionsKnown /\ PromisesSound
    BY DEF WalletInv
  <1>a. mixed \/ abandoned \/ AccountsAgree
    BY DEF WalletInv
  \* Refreshes and the extension are left alone, no attempt learns an account.
  <1>quiet. ASSUME NEW c \in Attempt, NEW next \in {"idle", "probe", "identify"},
                   NEW account \in Account \cup {NoAccount},
                   attempt' = [attempt EXCEPT ![c] = [at |-> next, account |-> account]],
                   UNCHANGED <<extension, cookie, timer, refreshPromise, flights>>,
                   status' # "connected"
            PROVE  /\ WalletTypeOK' /\ SessionsKnown'
                   /\ (abandoned' = abandoned \/ InFlight = {}) => PromisesSound'
                   /\ AccountsAgree => AccountsAgree'
    <2> DEFINE now == [at |-> next, account |-> account]
    <2>1. now \in [at : {"idle", "probe", "identify", "verify", "reread"},
                   account : Account \cup {NoAccount}]
      OBVIOUS
    <2>2. now.at \notin {"verify", "reread"}
      OBVIOUS
    <2>3. attempt' = [attempt EXCEPT ![c] = now]
      BY <1>quiet
    <2> HIDE DEF now
    <2>4. /\ attempt' \in [Attempt -> [at : {"idle", "probe", "identify", "verify", "reread"},
                                       account : Account \cup {NoAccount}]]
          /\ attempt'[c] = now
          /\ \A d \in Attempt : d # c => attempt'[d] = attempt[d]
      BY <1>i, <2>1, <2>3, AttemptMoves
    <2>5. \A d \in Attempt : (Signing(d))' => Signing(d) /\ attempt'[d] = attempt[d]
      BY <2>2, <2>4 DEF Signing
    <2>6. \A d \in Attempt : (Rereading(d))' => Rereading(d)
      BY <2>2, <2>4 DEF Rereading
    <2>7. InFlight' = InFlight
      BY <1>quiet DEF InFlight
    <2>8. WalletTypeOK'
      BY <1>i, <1>quiet, <2>4 DEF WalletTypeOK
    <2>9. SessionsKnown'
      BY <1>i, <1>quiet, <2>5, <2>6 DEF SessionsKnown
    <2>10. (abandoned' = abandoned \/ InFlight = {}) => PromisesSound'
      BY <1>i, <1>quiet, <2>7 DEF PromisesSound
    <2>11. AccountsAgree => AccountsAgree'
      BY <1>quiet, <2>5, <2>6, <2>7 DEF AccountsAgree, Current
    <2> QED
      BY <2>8, <2>9, <2>10, <2>11
  <1>1. ASSUME NEW c \in Attempt, Click(c)
        PROVE  WalletInv'
    <2>1. attempt[c] = [at |-> "idle", account |-> NoAccount]
      BY <1>1 DEF Click, Idle
    <2>2. attempt' = [attempt EXCEPT ![c] = [at |-> "probe", account |-> NoAccount]]
      <3>1. attempt' = [attempt EXCEPT ![c].at = "probe"]
        BY <1>1 DEF Click
      <3>2. attempt[c].account = NoAccount
        BY <2>1
      <3> QED
        BY <1>i, <3>1, <3>2, AttemptAt
    <2>3. /\ UNCHANGED <<extension, cookie, timer, refreshPromise, flights>>
          /\ status' # "connected"
      BY <1>1 DEF Click
    <2>4. /\ WalletTypeOK' /\ SessionsKnown'
          /\ (abandoned' = abandoned \/ InFlight = {}) => PromisesSound'
          /\ AccountsAgree => AccountsAgree'
      BY <1>quiet, <2>2, <2>3
    <2>5. CASE Connecting = {} /\ InFlight = {} /\ ~timer
      <3>1. InFlight' = {} /\ ~timer' /\ \A d \in Attempt : ~(Signing(d))' /\ ~(Rereading(d))'
        BY <1>i, <2>2, <2>3, <2>5
        DEF InFlight, Connecting, Signing, Rereading, WalletTypeOK
      <3>2. AccountsAgree'
        BY <2>3, <3>1 DEF AccountsAgree
      <3> QED
        BY <2>4, <2>5, <3>2 DEF WalletInv
    <2>6. CASE ~(Connecting = {} /\ InFlight = {} /\ ~timer)
      <3>1. (abandoned' <=> abandoned) /\ (mixed' <=> mixed)
        BY <1>1, <2>6 DEF Click
      <3>2. PromisesSound'
        <4>1. InFlight' = InFlight /\ refreshPromise' = refreshPromise
          BY <2>3 DEF InFlight
        <4> QED
          BY <1>i, <3>1, <4>1 DEF PromisesSound
      <3> QED
        BY <1>a, <2>4, <3>1, <3>2 DEF WalletInv
    <2> QED
      BY <2>5, <2>6
  <1>2. ASSUME NEW c \in Attempt, NEW there \in BOOLEAN, IsAvailable(c, there)
        PROVE  WalletInv'
    <2> DEFINE next == IF there THEN "identify" ELSE "idle"
    <2>1. attempt' = [attempt EXCEPT ![c] = [at |-> next, account |-> attempt[c].account]]
      BY <1>i, <1>2, AttemptAt DEF IsAvailable
    <2>2. attempt[c].account \in Account \cup {NoAccount}
      BY <1>i DEF WalletTypeOK
    <2>3. next \in {"idle", "probe", "identify"}
      OBVIOUS
    <2>4. /\ UNCHANGED <<extension, cookie, timer, refreshPromise, flights>>
          /\ status' # "connected" /\ abandoned' = abandoned /\ mixed' = mixed
      BY <1>2 DEF IsAvailable
    <2> HIDE DEF next
    <2>5. /\ WalletTypeOK' /\ SessionsKnown' /\ PromisesSound'
          /\ AccountsAgree => AccountsAgree'
      BY <1>quiet, <2>1, <2>2, <2>3, <2>4
    <2> QED
      BY <1>a, <2>4, <2>5 DEF WalletInv
  <1>3. ASSUME NEW c \in Attempt, ConnectFails(c)
        PROVE  WalletInv'
    <2>1. attempt' = [attempt EXCEPT ![c] = [at |-> "idle", account |-> NoAccount]]
      BY <1>3 DEF ConnectFails, Idle
    <2>2. /\ UNCHANGED <<extension, cookie, timer, refreshPromise, flights>>
          /\ status' # "connected" /\ abandoned' = abandoned /\ mixed' = mixed
      BY <1>3 DEF ConnectFails
    <2>3. /\ WalletTypeOK' /\ SessionsKnown' /\ PromisesSound'
          /\ AccountsAgree => AccountsAgree'
      BY <1>quiet, <2>1, <2>2
    <2> QED
      BY <1>a, <2>2, <2>3 DEF WalletInv
  <1>4. ASSUME NEW c \in Attempt, Identify(c)
        PROVE  WalletInv'
    <2> DEFINE now == [at |-> "verify", account |-> extension.account]
    <2>1. now \in [at : {"idle", "probe", "identify", "verify", "reread"},
                   account : Account \cup {NoAccount}]
      BY <1>i DEF WalletTypeOK
    <2>2. now.at = "verify" /\ now.account = extension.account /\ extension.account # NoAccount
      BY <1>i, WalletAssumption DEF WalletTypeOK
    <2>3. attempt' = [attempt EXCEPT ![c] = now]
      BY <1>4 DEF Identify
    <2> HIDE DEF now
    <2>4. /\ attempt' \in [Attempt -> [at : {"idle", "probe", "identify", "verify", "reread"},
                                       account : Account \cup {NoAccount}]]
          /\ attempt'[c] = now
          /\ \A d \in Attempt : d # c => attempt'[d] = attempt[d]
      BY <1>i, <2>1, <2>3, AttemptMoves
    <2>5. /\ UNCHANGED <<extension, status, shown, token, cookie, timer, refreshPromise>>
          /\ UNCHANGED <<flights, abandoned, mixed>>
      BY <1>4 DEF Identify
    <2>6. InFlight' = InFlight
      BY <2>5 DEF InFlight
    <2>7. WalletTypeOK' /\ SessionsKnown' /\ PromisesSound'
      BY <1>i, <2>2, <2>4, <2>5, <2>6
      DEF WalletTypeOK, SessionsKnown, PromisesSound, Signing, Rereading
    <2>8. AccountsAgree => AccountsAgree'
      BY <2>2, <2>4, <2>5, <2>6 DEF AccountsAgree, Signing, Rereading, Current
    <2> QED
      BY <1>a, <2>5, <2>7, <2>8 DEF WalletInv
  <1>5. ASSUME NEW c \in Attempt, Verify(c)
        PROVE  WalletInv'
    <2> DEFINE now == [at |-> "reread", account |-> attempt[c].account]
    <2>1. now \in [at : {"idle", "probe", "identify", "verify", "reread"},
                   account : Account \cup {NoAccount}]
      BY <1>i DEF WalletTypeOK
    <2>2. now.at = "reread" /\ now.account = attempt[c].account
      OBVIOUS
    <2>3. attempt' = [attempt EXCEPT ![c] = now]
      BY <1>i, <1>5, AttemptAt DEF Verify
    <2> HIDE DEF now
    <2>4. /\ attempt' \in [Attempt -> [at : {"idle", "probe", "identify", "verify", "reread"},
                                       account : Account \cup {NoAccount}]]
          /\ attempt'[c] = now
          /\ \A d \in Attempt : d # c => attempt'[d] = attempt[d]
      BY <1>i, <2>1, <2>3, AttemptMoves
    <2>5. /\ UNCHANGED <<extension, status, shown, timer, refreshPromise>>
          /\ UNCHANGED <<flights, abandoned, mixed>>
          /\ cookie' = attempt[c].account /\ token' = attempt[c].account
      BY <1>5 DEF Verify
    <2>6. InFlight' = InFlight
      BY <2>5 DEF InFlight
    <2>7. Signing(c) /\ attempt[c].account # NoAccount
          /\ attempt[c].account \in Account \cup {NoAccount}
      BY <1>i, <1>5 DEF Verify, Signing, SessionsKnown, WalletTypeOK
    <2>8. WalletTypeOK'
      BY <1>i, <2>4, <2>5, <2>7 DEF WalletTypeOK
    <2>9. SessionsKnown' /\ PromisesSound'
      BY <1>i, <2>2, <2>4, <2>5, <2>6, <2>7 DEF SessionsKnown, PromisesSound, Signing
    <2>10. AccountsAgree => AccountsAgree'
      BY <2>2, <2>4, <2>5, <2>6, <2>7 DEF AccountsAgree, Signing, Current
    <2> QED
      BY <1>a, <2>5, <2>8, <2>9, <2>10 DEF WalletInv
  <1>6. ASSUME NEW c \in Attempt, Connected(c)
        PROVE  WalletInv'
    <2> DEFINE now == [at |-> "idle", account |-> NoAccount]
    <2>1. now \in [at : {"idle", "probe", "identify", "verify", "reread"},
                   account : Account \cup {NoAccount}]
      OBVIOUS
    <2>2. now.at = "idle"
      OBVIOUS
    <2>3. attempt' = [attempt EXCEPT ![c] = now]
      BY <1>6 DEF Connected, Idle
    <2> HIDE DEF now
    <2>4. /\ attempt' \in [Attempt -> [at : {"idle", "probe", "identify", "verify", "reread"},
                                       account : Account \cup {NoAccount}]]
          /\ attempt'[c] = now
          /\ \A d \in Attempt : d # c => attempt'[d] = attempt[d]
      BY <1>i, <2>1, <2>3, AttemptMoves
    <2>5. /\ UNCHANGED <<extension, cookie, refreshPromise, flights, abandoned, mixed>>
          /\ token' = attempt[c].account /\ shown' = extension.account
      BY <1>6 DEF Connected
    <2>6. InFlight' = InFlight
      BY <2>5 DEF InFlight
    <2>7. Signing(c) /\ Rereading(c)
      BY <1>6 DEF Connected, Signing, Rereading
    <2>8. \A d \in Attempt : (Signing(d))' => Signing(d) /\ attempt'[d] = attempt[d]
      BY <2>2, <2>4 DEF Signing
    <2>9. WalletTypeOK' /\ SessionsKnown' /\ PromisesSound'
      BY <1>i, <2>4, <2>5, <2>6, <2>7, <2>8
      DEF WalletTypeOK, SessionsKnown, PromisesSound
    <2>10. AccountsAgree => AccountsAgree'
      BY <2>5, <2>6, <2>7, <2>8 DEF AccountsAgree, Current
    <2> QED
      BY <1>a, <2>5, <2>9, <2>10 DEF WalletInv
  \* Refresh state is reset on the way out of a sign-in.
  <1>reset. ASSUME ResetRefreshState, UNCHANGED <<cookie, attempt, flights>>,
                   status' = "disconnected",
                   extension' \in [account : Account, expected : BOOLEAN]
            PROVE  /\ WalletTypeOK' /\ SessionsKnown' /\ PromisesSound'
                   /\ abandoned => abandoned'
                   /\ \/ abandoned'
                      \/ InFlight' = {} /\ ~timer'
    <2>1. /\ refreshPromise' = {} /\ ~timer'
          /\ abandoned' = (abandoned \/ InFlight # {})
      BY <1>reset DEF ResetRefreshState
    <2>2. InFlight' = InFlight
      BY <1>reset DEF InFlight
    <2>3. WalletTypeOK'
      BY <1>i, <1>reset DEF WalletTypeOK
    <2>4. SessionsKnown'
      BY <1>i, <1>reset, <2>1 DEF SessionsKnown, Signing, Rereading
    <2>5. PromisesSound'
      BY <2>1, <2>2 DEF PromisesSound
    <2> QED
      BY <2>1, <2>2, <2>3, <2>4, <2>5
  <1>7. CASE Disconnect
    <2>1. /\ WalletTypeOK' /\ SessionsKnown' /\ PromisesSound'
          /\ abandoned => abandoned'
          /\ abandoned' \/ (InFlight' = {} /\ ~timer')
      BY <1>i, <1>7, <1>reset DEF Disconnect, WalletTypeOK
    <2>2. AccountsAgree /\ ~abandoned' => AccountsAgree'
      BY <1>7, <2>1 DEF Disconnect, AccountsAgree, Signing, Rereading, Current
    <2>3. mixed' = mixed
      BY <1>7 DEF Disconnect
    <2> QED
      BY <1>a, <2>1, <2>2, <2>3 DEF WalletInv
  <1>8. ASSUME NEW now \in [account : Account, expected : BOOLEAN], ExtensionChanges(now)
        PROVE  WalletInv'
    <2>1. /\ mixed' = (mixed \/ Connecting # {}
                       \/ (status # "connected" /\ (timer \/ InFlight # {})))
          /\ extension' = now /\ UNCHANGED <<cookie, attempt, flights>>
      BY <1>8 DEF ExtensionChanges
    <2>2. ~mixed' => \A c \in Attempt : ~(Signing(c))' /\ ~(Rereading(c))'
      BY <2>1 DEF Connecting, Signing, Rereading
    <2>3. CASE status = "connected"
      <3>1. ResetRefreshState /\ status' = "disconnected"
        BY <1>8, <2>3 DEF ExtensionChanges
      <3>2. /\ WalletTypeOK' /\ SessionsKnown' /\ PromisesSound'
            /\ abandoned' \/ (InFlight' = {} /\ ~timer')
        BY <1>reset, <2>1, <3>1
      <3>3. ~mixed' /\ ~abandoned' => AccountsAgree'
        BY <2>2, <3>1, <3>2 DEF AccountsAgree
      <3> QED
        BY <3>2, <3>3 DEF WalletInv
    <2>4. CASE status # "connected"
      <3>1. UNCHANGED <<status, timer, refreshPromise, abandoned>>
        BY <1>8, <2>4 DEF ExtensionChanges
      <3>2. InFlight' = InFlight
        BY <2>1 DEF InFlight
      <3>3. WalletTypeOK' /\ SessionsKnown' /\ PromisesSound'
        BY <1>i, <2>1, <3>1, <3>2
        DEF WalletTypeOK, SessionsKnown, PromisesSound, Signing, Rereading
      <3>4. ~mixed' => AccountsAgree'
        BY <2>1, <2>2, <2>4, <3>1, <3>2 DEF AccountsAgree
      <3> QED
        BY <3>3, <3>4 DEF WalletInv
    <2> QED
      BY <2>3, <2>4
  <1>9. ASSUME NEW f \in Refresh, TimerFires(f)
        PROVE  WalletInv'
    <2>1. /\ UNCHANGED <<extension, status, shown, token, cookie, attempt>>
          /\ UNCHANGED <<abandoned, mixed>>
          /\ timer /\ ~timer'
      BY <1>9 DEF TimerFires
    <2>2. CASE refreshPromise # {}
      <3>1. UNCHANGED <<refreshPromise, flights>>
        BY <1>9, <2>2 DEF TimerFires, Shares
      <3>2. InFlight' = InFlight
        BY <3>1 DEF InFlight
      <3>3. WalletTypeOK' /\ SessionsKnown' /\ PromisesSound'
        BY <1>i, <2>1, <3>1, <3>2
        DEF WalletTypeOK, SessionsKnown, PromisesSound, Signing, Rereading
      <3>4. AccountsAgree => AccountsAgree'
        BY <2>1, <3>1, <3>2 DEF AccountsAgree, Signing, Rereading, Current
      <3> QED
        BY <1>a, <2>1, <3>3, <3>4 DEF WalletInv
    <2>3. CASE refreshPromise = {}
      <3>1. /\ flights' = [flights EXCEPT ![f] = cookie]
            /\ refreshPromise' = {f}
        BY <1>9, <2>3 DEF TimerFires, Shares
      <3>2. cookie # NoAccount /\ cookie \in Account \cup {NoAccount}
        BY <1>i, <2>1 DEF SessionsKnown, WalletTypeOK
      <3>3. InFlight' = InFlight \cup {f}
        BY <1>i, <3>1, <3>2 DEF InFlight, WalletTypeOK
      <3>4. abandoned \/ InFlight = {}
        BY <1>i, <2>3 DEF PromisesSound
      <3>5. WalletTypeOK'
        BY <1>i, <2>1, <3>1, <3>2 DEF WalletTypeOK
      <3>6. SessionsKnown'
        BY <1>i, <2>1 DEF SessionsKnown, Signing, Rereading
      <3>7. PromisesSound'
        BY <2>1, <3>1, <3>3, <3>4 DEF PromisesSound
      <3>8. flights'[f] = cookie
        BY <1>i, <3>1 DEF WalletTypeOK
      <3>9. AccountsAgree /\ ~abandoned => AccountsAgree'
        BY <2>1, <3>3, <3>4, <3>8 DEF AccountsAgree, Signing, Rereading, Current
      <3> QED
        BY <1>a, <2>1, <3>5, <3>6, <3>7, <3>9 DEF WalletInv
    <2> QED
      BY <2>2, <2>3
  \* A call that ends leaves the calls under way.
  <1>landed. ASSUME NEW f \in Refresh, Landed(f)
             PROVE  /\ flights' \in [Refresh -> Account \cup {NoAccount}]
                    /\ InFlight' = InFlight \ {f} /\ f \in InFlight
                    /\ \A g \in InFlight' : flights'[g] = flights[g]
                    /\ abandoned' = abandoned => PromisesSound'
    <2>1. /\ flights[f] # NoAccount /\ refreshPromise' = {}
          /\ flights' = [flights EXCEPT ![f] = NoAccount]
      BY <1>landed DEF Landed
    <2>2. /\ flights' \in [Refresh -> Account \cup {NoAccount}]
          /\ InFlight' = InFlight \ {f} /\ f \in InFlight
          /\ \A g \in InFlight' : flights'[g] = flights[g]
      BY <1>i, <2>1 DEF WalletTypeOK, InFlight
    <2>3. abandoned' = abandoned => PromisesSound'
      BY <1>i, <2>1, <2>2 DEF PromisesSound
    <2> QED
      BY <2>2, <2>3
  <1>10. ASSUME NEW f \in Refresh, RefreshAnswers(f)
         PROVE  WalletInv'
    <2>1. /\ UNCHANGED <<extension, status, shown, attempt, abandoned, mixed>>
          /\ token' = flights[f] /\ cookie' = flights[f] /\ Landed(f)
      BY <1>10 DEF RefreshAnswers
    <2>2. /\ flights' \in [Refresh -> Account \cup {NoAccount}]
          /\ InFlight' = InFlight \ {f} /\ f \in InFlight
          /\ \A g \in InFlight' : flights'[g] = flights[g]
          /\ PromisesSound'
      BY <1>landed, <2>1
    <2>3. flights[f] # NoAccount /\ flights[f] \in Account \cup {NoAccount}
      BY <1>i, <2>1 DEF Landed, WalletTypeOK
    <2>4. WalletTypeOK' /\ SessionsKnown'
      BY <1>i, <2>1, <2>2, <2>3 DEF WalletTypeOK, SessionsKnown, Signing
    <2>5. AccountsAgree => AccountsAgree'
      BY <2>1, <2>2 DEF AccountsAgree, Signing, Current
    <2> QED
      BY <1>a, <2>1, <2>2, <2>4, <2>5 DEF WalletInv
  <1>11. ASSUME NEW f \in Refresh, RefreshFails(f)
         PROVE  WalletInv'
    <2>1. /\ UNCHANGED <<extension, status, shown, cookie, attempt, abandoned, mixed>>
          /\ token' = NoAccount /\ ~timer' /\ Landed(f)
      BY <1>11 DEF RefreshFails
    <2>2. /\ flights' \in [Refresh -> Account \cup {NoAccount}]
          /\ InFlight' = InFlight \ {f}
          /\ \A g \in InFlight' : flights'[g] = flights[g]
          /\ PromisesSound'
      BY <1>landed, <2>1
    <2>3. WalletTypeOK' /\ SessionsKnown'
      BY <1>i, <2>1, <2>2 DEF WalletTypeOK, SessionsKnown, Signing, Rereading
    <2>4. AccountsAgree => AccountsAgree'
      BY <2>1, <2>2 DEF AccountsAgree, Signing, Rereading, Current
    <2> QED
      BY <1>a, <2>1, <2>2, <2>3, <2>4 DEF WalletInv
  <1>12. CASE LoadPage
    <2>1. /\ attempt' = [c \in Attempt |-> Idle]
          /\ flights' = [f \in Refresh |-> NoAccount]
          /\ refreshPromise' = {} /\ ~timer' /\ status' = "disconnected"
          /\ UNCHANGED <<extension, cookie>>
      BY <1>12 DEF LoadPage
    <2>2. InFlight' = {} /\ \A c \in Attempt : ~(Signing(c))' /\ ~(Rereading(c))'
      BY <2>1 DEF InFlight, Signing, Rereading, Idle
    <2>3. WalletTypeOK'
      BY <1>i, <2>1 DEF WalletTypeOK, Idle
    <2>4. SessionsKnown' /\ PromisesSound' /\ AccountsAgree'
      BY <2>1, <2>2 DEF SessionsKnown, PromisesSound, AccountsAgree
    <2> QED
      BY <2>3, <2>4 DEF WalletInv
  <1>13. CASE UNCHANGED walletVars
    BY <1>13 DEF walletVars, WalletInv, WalletTypeOK, SessionsKnown, PromisesSound,
                 AccountsAgree, Signing, Rereading, Current, InFlight
  <1> QED
    BY <1>1, <1>2, <1>3, <1>4, <1>5, <1>6, <1>7, <1>8, <1>9, <1>10, <1>11, <1>12, <1>13
    DEF WalletNext

(* The inductive invariant of the signed-in state.                         *)
THEOREM WalletCorrect == WalletSpec => []WalletInv
  BY WalletInvInit, WalletInvStep, PTL DEF WalletSpec

(* At most one refresh call is under way, unless refresh state was reset   *)
(* under one.                                                              *)
THEOREM OneRefreshHolds == WalletSpec => []OneRefresh
  <1>1. WalletInv => OneRefresh
    <2> SUFFICES ASSUME WalletInv, ~abandoned PROVE Cardinality(InFlight) <= 1
      BY DEF OneRefresh
    <2>1. \A f, g \in InFlight : f = g
      BY DEF WalletInv, PromisesSound
    <2>2. CASE InFlight = {}
      BY <2>2, FS_EmptySet
    <2>3. CASE InFlight # {}
      <3>1. PICK f \in InFlight : InFlight = {f}
        BY <2>1, <2>3
      <3> QED
        BY <3>1, FS_Singleton
    <2> QED
      BY <2>2, <2>3
  <1> QED
    BY <1>1, WalletCorrect, PTL

(* The account shown is the account requests are made for, unless the user *)
(* switched where no listener looks or refresh state was reset under a call.*)
THEOREM ShownIsSignedInHolds == WalletSpec => []ShownIsSignedIn
  <1>1. WalletInv => ShownIsSignedIn
    BY DEF WalletInv, AccountsAgree, Current, ShownIsSignedIn
  <1> QED
    BY <1>1, WalletCorrect, PTL

-----------------------------------------------------------------------------
(* The wizard. Visits are numbered as they are trail, a visit's entries   *)
(* are next to each other, and between two visits lies an entry of some    *)
(* other page. Within a visit no entry's step is deeper than its place.    *)

WizardStep == {"details", "members", "review"}
Manner == {"stepwise", "skipped"}
Entry == [visit : Nat, step : WizardStep \cup {""}, name : Names]
WizardState ==
  [step : WizardStep, name : Names, members : Lists, visit : Nat]

\* Within a visit walked stepwise, there is room for step at entry i.
Fits(h, i, step, trails) ==
  trails[h[i].visit] = "stepwise" =>
    /\ step \in {"members", "review"} =>
         i > 1 /\ h[i - 1].visit = h[i].visit
    /\ step = "review" => i > 2 /\ h[i - 2].visit = h[i].visit

Separate(h) ==
  \A i \in 1 .. Len(h) - 1 :
    h[i].visit # 0 /\ h[i + 1].visit # 0 => h[i].visit = h[i + 1].visit

Contiguous(h) ==
  \A i, k \in 1 .. Len(h) :
    h[i].visit = h[k].visit /\ h[i].visit # 0 =>
      \A j \in i .. k : h[j].visit = h[i].visit

Deep(h, trails) ==
  \A i \in 1 .. Len(h) : h[i].visit # 0 => Fits(h, i, h[i].step, trails)

WellKept(h, trails) ==
  /\ h \in Seq(Entry)
  /\ \A i \in 1 .. Len(h) : h[i].visit <= Len(trails)
  /\ Separate(h) /\ Contiguous(h) /\ Deep(h, trails)

\* Every entry of a visit but entry i has its step in its URL.
Stamped(h, i) ==
  \A j \in 1 .. Len(h) : j # i /\ h[j].visit # 0 => h[j].step # ""

Reviewable(state) ==
  /\ state.step \in {"members", "review"} => state.name # ""
  /\ state.step = "review" => state.members = "good"

WizardTypeOK ==
  /\ at \in 1 .. Len(entries)
  /\ modes \in Seq({"create", "edit"})
  /\ trail \in Seq(Manner) /\ Len(trail) = Len(modes)
  /\ wizard \in WizardState \cup {None}
  /\ storage \in WizardState \cup {None}
  /\ unchecked \in BOOLEAN

\* The three copies of the state agree while the wizard is mounted.
CopiesAgree ==
  /\ Mounted => /\ storage = wizard /\ wizard.visit = Visit /\ Visit # 0
                /\ entries[at].step = wizard.step
  /\ ~Mounted => Visit = 0

WizardInv ==
  /\ WizardTypeOK
  /\ WellKept(entries, trail) /\ Stamped(entries, 0)
  /\ CopiesAgree
  /\ unchecked \/ Reviewable(storage)

LEMMA WizardInvInit == WizardInit => WizardInv
  <1> SUFFICES ASSUME WizardInit PROVE WizardInv
    OBVIOUS
  <1>1. /\ entries = <<Elsewhere>> /\ at = 1 /\ Len(entries) = 1
        /\ entries[1] = Elsewhere /\ modes = <<>> /\ trail = <<>>
        /\ wizard = None /\ storage = None /\ unchecked = FALSE
    BY DEF WizardInit
  <1>2. Elsewhere \in Entry /\ Elsewhere.visit = 0 /\ None.visit = 0
    BY DEF Elsewhere, Entry, Names, None
  <1>3. WizardTypeOK
    <2>1. modes \in Seq({"create", "edit"}) /\ trail \in Seq(Manner)
      BY <1>1
    <2>2. Len(trail) = Len(modes) /\ at \in 1 .. Len(entries)
      BY <1>1
    <2> QED
      BY <1>1, <2>1, <2>2 DEF WizardTypeOK
  <1>4. WellKept(entries, trail) /\ Stamped(entries, 0)
    <2>1. entries \in Seq(Entry)
      BY <1>1, <1>2
    <2>2. \A i \in 1 .. Len(entries) : i = 1 /\ entries[i].visit = 0
      BY <1>1, <1>2
    <2>3. 0 <= Len(trail)
      BY <1>1
    <2>4. Separate(entries) /\ Contiguous(entries) /\ Deep(entries, trail)
      BY <2>2 DEF Separate, Contiguous, Deep
    <2> QED
      BY <2>1, <2>2, <2>3, <2>4 DEF WellKept, Stamped
  <1>5. CopiesAgree /\ Reviewable(storage)
    BY <1>1, <1>2 DEF CopiesAgree, Mounted, Visit, Reviewable, None
  <1> QED
    BY <1>3, <1>4, <1>5 DEF WizardInv

(* Rewriting the URL of an entry of a visit with a step it has room for.   *)
LEMMA RewrittenKept ==
  ASSUME NEW h, NEW trails \in Seq(Manner), NEW i \in 1 .. Len(h),
         WellKept(h, trails), Stamped(h, i), h[i].visit # 0,
         NEW state \in WizardState, Fits(h, i, state.step, trails)
  PROVE  LET r == Rewritten(h, i, state)
         IN  /\ WellKept(r, trails) /\ Stamped(r, 0) /\ Len(r) = Len(h)
             /\ r[i].step = state.step
             /\ \A j \in 1 .. Len(h) : r[j].visit = h[j].visit
             /\ \A j \in 1 .. Len(h) : j # i => r[j] = h[j]
  <1> DEFINE r == Rewritten(h, i, state)
             name == Or(state.name, h[i].name)
             new == [h[i] EXCEPT !.step = state.step, !.name = name]
  <1>1. h \in Seq(Entry) /\ h[i] \in Entry
    BY DEF WellKept
  <1>2. name \in Names /\ state.step \in WizardStep
    BY <1>1 DEF Or, WizardState, Entry
  <1>3. new \in Entry /\ new.visit = h[i].visit /\ new.step = state.step
    BY <1>1, <1>2 DEF Entry
  <1>4. r = [h EXCEPT ![i] = new]
    BY <1>1 DEF Rewritten, Entry
  <1> HIDE DEF name, new, r
  <1>5. /\ r \in Seq(Entry) /\ Len(r) = Len(h) /\ r[i] = new
        /\ \A j \in 1 .. Len(h) : j # i => r[j] = h[j]
    BY <1>1, <1>3, <1>4
  <1>6. \A j \in 1 .. Len(h) : r[j].visit = h[j].visit
    BY <1>3, <1>5
  <1>7. /\ \A j \in 1 .. Len(r) : r[j].visit <= Len(trails)
        /\ Separate(r) /\ Contiguous(r)
    <2>1. \A j \in 1 .. Len(r) : r[j].visit <= Len(trails)
      BY <1>5, <1>6 DEF WellKept
    <2>2. Separate(r)
      BY <1>1, <1>5, <1>6 DEF WellKept, Separate
    <2>3. Contiguous(r)
      BY <1>1, <1>5, <1>6 DEF WellKept, Contiguous
    <2> QED
      BY <2>1, <2>2, <2>3
  <1>8. Deep(r, trails)
    <2>1. ASSUME NEW j \in 1 .. Len(r), r[j].visit # 0
          PROVE  Fits(r, j, r[j].step, trails)
      <3>1. Fits(h, j, r[j].step, trails)
        BY <2>1, <1>3, <1>5, <1>6 DEF WellKept, Deep
      <3>2. /\ r[j].visit = h[j].visit
            /\ j > 1 => r[j - 1].visit = h[j - 1].visit
            /\ j > 2 => r[j - 2].visit = h[j - 2].visit
        BY <1>1, <1>5, <1>6
      <3> QED
        BY <3>1, <3>2 DEF Fits
    <2> QED
      BY <2>1 DEF Deep
  <1>9. Stamped(r, 0)
    BY <1>2, <1>3, <1>5 DEF Stamped, WizardStep
  <1> QED
    BY <1>3, <1>5, <1>6, <1>7, <1>8, <1>9 DEF WellKept, r

(* Pushing an entry after entry i: of a page elsewhere, of the visit at i, *)
(* or of a new visit after an entry that is of none.                       *)
LEMMA PushedKept ==
  ASSUME NEW h, NEW trails \in Seq(Manner), NEW i \in 1 .. Len(h),
         WellKept(h, trails), Stamped(h, 0), NEW entry \in Entry,
         entry.visit <= Len(trails),
         \/ entry.visit = 0
         \/ entry.visit = h[i].visit
         \/ h[i].visit = 0 /\ \A j \in 1 .. i : h[j].visit # entry.visit,
         entry.visit # 0 /\ trails[entry.visit] = "stepwise" =>
           /\ entry.step \in {"members", "review"} => h[i].visit = entry.visit
           /\ entry.step = "review" => i > 1 /\ h[i - 1].visit = entry.visit
  PROVE  LET p == Append(SubSeq(h, 1, i), entry)
         IN  /\ WellKept(p, trails) /\ Stamped(p, i + 1) /\ Len(p) = i + 1
             /\ p[i + 1] = entry
             /\ \A j \in 1 .. i : p[j] = h[j]
  <1> DEFINE s == SubSeq(h, 1, i)
             p == Append(s, entry)
  <1>1. h \in Seq(Entry) /\ i \in Nat /\ i >= 1 /\ i <= Len(h)
    BY DEF WellKept
  <1>2. /\ s \in Seq(Entry) /\ Len(s) = i
        /\ \A j \in 1 .. i : s[j] = h[j]
    <2>1. \A j \in 1 .. i : h[j] \in Entry
      BY <1>1
    <2> QED
      BY <1>1, <2>1, SubSeqProperties
  <1> HIDE DEF s
  <1>3. /\ p \in Seq(Entry) /\ Len(p) = i + 1 /\ p[i + 1] = entry
        /\ \A j \in 1 .. i : p[j] = h[j]
    BY <1>1, <1>2, AppendProperties
  <1> HIDE DEF p
  <1>4. \A j \in 1 .. Len(p) : p[j].visit <= Len(trails)
    <2>1. ASSUME NEW j \in 1 .. Len(p) PROVE j = i + 1 \/ j \in 1 .. i
      BY <1>1, <1>3
    <2>2. \A j \in 1 .. i : j \in 1 .. Len(h)
      BY <1>1
    <2> QED
      BY <1>3, <2>1, <2>2 DEF WellKept
  <1>5. Separate(p)
    <2>1. ASSUME NEW j \in 1 .. Len(p) - 1, p[j].visit # 0, p[j + 1].visit # 0
          PROVE  p[j].visit = p[j + 1].visit
      <3>1. CASE j = i
        BY <1>1, <1>3, <2>1, <3>1
      <3>2. CASE j # i
        <4>1. j \in 1 .. Len(h) - 1 /\ j \in 1 .. i /\ j + 1 \in 1 .. i
          BY <1>1, <1>3, <2>1, <3>2
        <4> QED
          BY <1>3, <2>1, <4>1 DEF WellKept, Separate
      <3> QED
        BY <3>1, <3>2
    <2> QED
      BY <2>1 DEF Separate
  <1>6. Contiguous(p)
    <2>1. ASSUME NEW m \in 1 .. Len(p), NEW k \in 1 .. Len(p),
                 p[m].visit = p[k].visit, p[m].visit # 0, NEW j \in m .. k
          PROVE  p[j].visit = p[m].visit
      <3>1. CASE k <= i
        <4>1. m \in 1 .. Len(h) /\ k \in 1 .. Len(h) /\ j \in 1 .. i
              /\ m \in 1 .. i /\ k \in 1 .. i
          BY <1>1, <1>3, <2>1, <3>1
        <4> QED
          BY <1>3, <2>1, <4>1 DEF WellKept, Contiguous
      <3>2. CASE k = i + 1 /\ m <= i
        <4>1. m \in 1 .. i /\ p[k].visit = entry.visit
          BY <1>1, <1>3, <2>1, <3>2
        <4>2. h[m].visit = h[i].visit /\ h[m].visit # 0 /\ h[i].visit = entry.visit
          BY <1>3, <2>1, <4>1
        <4>3. CASE j = i + 1
          BY <2>1, <3>2, <4>3
        <4>4. CASE j # i + 1
          <5>1. j \in m .. i /\ j \in 1 .. i /\ m \in 1 .. Len(h) /\ i \in 1 .. Len(h)
            BY <1>1, <1>3, <2>1, <3>2, <4>1, <4>4
          <5> QED
            BY <1>3, <4>1, <4>2, <5>1 DEF WellKept, Contiguous
        <4> QED
          BY <4>3, <4>4
      <3>3. CASE k = i + 1 /\ m = i + 1
        BY <1>1, <2>1, <3>3
      <3> QED
        BY <1>1, <1>3, <2>1, <3>1, <3>2, <3>3
    <2> QED
      BY <2>1 DEF Contiguous
  <1>7. Deep(p, trails)
    <2>1. ASSUME NEW j \in 1 .. Len(p), p[j].visit # 0
          PROVE  Fits(p, j, p[j].step, trails)
      <3>1. CASE j = i + 1
        <4>1. p[j] = entry /\ p[j - 1] = h[i] /\ (i > 1 => p[j - 2] = h[i - 1])
          BY <1>1, <1>3, <3>1
        <4>2. j > 1 /\ (i > 1 => j > 2)
          BY <1>1, <3>1
        <4> QED
          BY <2>1, <4>1, <4>2 DEF Fits
      <3>2. CASE j # i + 1
        <4>1. j \in 1 .. i /\ j \in 1 .. Len(h)
          BY <1>1, <1>3, <2>1, <3>2
        <4>2. p[j] = h[j] /\ (j > 1 => p[j - 1] = h[j - 1])
          BY <1>1, <1>3, <4>1
        <4>3. j > 2 => p[j - 2] = h[j - 2]
          BY <1>1, <1>3, <4>1
        <4>4. Fits(h, j, h[j].step, trails)
          BY <1>3, <2>1, <4>1 DEF WellKept, Deep
        <4> QED
          BY <4>2, <4>3, <4>4 DEF Fits
      <3> QED
        BY <3>1, <3>2
    <2> QED
      BY <2>1 DEF Deep
  <1>8. Stamped(p, i + 1)
    <2>1. ASSUME NEW j \in 1 .. Len(p), j # i + 1
          PROVE  j \in 1 .. i /\ j \in 1 .. Len(h) /\ j # 0
      BY <1>1, <1>3, <2>1
    <2> QED
      BY <1>3, <2>1 DEF Stamped
  <1> QED
    BY <1>3, <1>4, <1>5, <1>6, <1>7, <1>8 DEF WellKept, p, s

(* The wizard is mounted, or stays so, at an entry its state is written to.*)
LEMMA WizardAtEntry ==
  ASSUME NEW h, at' \in 1 .. Len(h), WellKept(h, trail'), Stamped(h, at'),
         h[at'].visit # 0, wizard' \in WizardState, storage' = wizard',
         wizard'.visit = h[at'].visit, Fits(h, at', wizard'.step, trail'),
         entries' = Rewritten(h, at', wizard'),
         unchecked' \/ Reviewable(wizard'), unchecked' \in BOOLEAN,
         modes' \in Seq({"create", "edit"}),
         trail' \in Seq(Manner), Len(trail') = Len(modes')
  PROVE  WizardInv'
  <1>1. /\ WellKept(entries', trail') /\ Stamped(entries', 0)
        /\ Len(entries') = Len(h) /\ entries'[at'].step = wizard'.step
        /\ \A j \in 1 .. Len(h) : entries'[j].visit = h[j].visit
    BY RewrittenKept
  <1>2. WizardTypeOK'
    BY <1>1 DEF WizardTypeOK
  <1>3. wizard' # None /\ entries'[at'].visit = wizard'.visit
    <2>1. wizard'.step # "" /\ None.step = ""
      BY DEF None, WizardState, WizardStep
    <2>2. entries'[at'].visit = wizard'.visit
      BY <1>1
    <2> QED
      BY <2>1, <2>2
  <1>4. CopiesAgree'
    BY <1>1, <1>3 DEF CopiesAgree, Mounted, Visit
  <1> QED
    BY <1>1, <1>2, <1>4 DEF WizardInv

LEMMA EntryOf ==
  ASSUME NEW h \in Seq(Entry), NEW i \in 1 .. Len(h)
  PROVE  h[i] \in Entry /\ h[i].visit \in Nat
  <1>1. h[i] \in Entry
    OBVIOUS
  <1> QED
    BY <1>1 DEF Entry

LEMMA StampedBut ==
  ASSUME NEW h \in Seq(Entry), Stamped(h, 0), NEW i
  PROVE  Stamped(h, i)
  <1>1. \A j \in 1 .. Len(h) : j # 0
    OBVIOUS
  <1> QED
    BY <1>1 DEF Stamped

\* The user is on a page elsewhere.
LEMMA WizardElsewhere ==
  ASSUME at' \in 1 .. Len(entries'), WellKept(entries', trail'),
         Stamped(entries', 0), entries'[at'].visit = 0,
         wizard' = None, storage' \in WizardState \cup {None},
         unchecked' \/ Reviewable(storage'), unchecked' \in BOOLEAN,
         modes' \in Seq({"create", "edit"}),
         trail' \in Seq(Manner), Len(trail') = Len(modes')
  PROVE  WizardInv'
  <1>1. WizardTypeOK'
    BY DEF WizardTypeOK
  <1>2. CopiesAgree'
    BY DEF CopiesAgree, Mounted, Visit
  <1> QED
    BY <1>1, <1>2 DEF WizardInv

\* The step before one there is room for has room an entry back, here, and
\* further on in the visit.
LEMMA StepBeforeFits ==
  ASSUME NEW h, NEW trails, NEW i \in 1 .. Len(h), WellKept(h, trails),
         NEW step \in WizardStep, Fits(h, i, step, trails),
         NEW k \in 1 .. Len(h), k >= i - 1, h[k].visit = h[i].visit,
         h[i].visit # 0
  PROVE  StepBefore(step) \in WizardStep /\ Fits(h, k, StepBefore(step), trails)
  <1>1. /\ step = "details" => StepBefore(step) = "details"
        /\ step = "members" => StepBefore(step) = "details"
        /\ step = "review" => StepBefore(step) = "members"
    BY DEF StepBefore, STEP_ORDER, StepIndex
  <1>2. h \in Seq(Entry) /\ i \in Nat /\ k \in Nat /\ i >= 1 /\ k >= 1
        /\ Len(h) \in Nat
    BY DEF WellKept
  <1>3. CASE step # "review"
    BY <1>1, <1>3 DEF Fits, WizardStep
  <1>4. CASE step = "review"
    <2>1. ASSUME trails[h[k].visit] = "stepwise"
          PROVE  k > 1 /\ h[k - 1].visit = h[k].visit
      <3>1. /\ i > 1 /\ h[i - 1].visit = h[i].visit
            /\ i > 2 /\ h[i - 2].visit = h[i].visit
        BY <1>4, <2>1 DEF Fits
      <3>2. CASE k = i - 1
        <4>1. k - 1 = i - 2 /\ k > 1
          BY <1>2, <3>1, <3>2
        <4> QED
          BY <3>1, <3>2, <4>1
      <3>3. CASE k = i
        BY <3>1, <3>3
      <3>4. CASE k > i
        <4>1. k - 1 \in i .. k
          BY <1>2, <3>4
        <4>2. h[k - 1].visit = h[i].visit
          BY <4>1 DEF WellKept, Contiguous
        <4> QED
          BY <1>2, <3>4, <4>2
      <3> QED
        BY <1>2, <3>2, <3>3, <3>4
    <2> QED
      BY <1>1, <1>4, <2>1 DEF Fits, WizardStep
  <1> QED
    BY <1>3, <1>4

\* A history is as well kept when fewer of its visits are stepwise.
LEMMA FewerStepwise ==
  ASSUME NEW h, NEW trails, WellKept(h, trails), NEW less, Len(less) = Len(trails),
         \A v \in 1 .. Len(trails) : less[v] = "stepwise" => trails[v] = "stepwise"
  PROVE  WellKept(h, less)
  <1>1. ASSUME NEW i \in 1 .. Len(h), h[i].visit # 0
        PROVE  h[i].visit \in 1 .. Len(trails)
    <2>1. h[i].visit \in Nat /\ h[i].visit <= Len(trails)
      BY EntryOf DEF WellKept
    <2> QED
      BY <1>1, <2>1
  <1>2. Deep(h, less)
    BY <1>1 DEF WellKept, Deep, Fits
  <1> QED
    BY <1>2 DEF WellKept

\* What could be reviewed still can be at the step before.
LEMMA StepBeforeReviewable ==
  ASSUME NEW state \in WizardState
  PROVE  LET before == [state EXCEPT !.step = StepBefore(@)]
         IN  /\ before \in WizardState /\ before.visit = state.visit
             /\ before.step = StepBefore(state.step)
             /\ Reviewable(state) => Reviewable(before)
             /\ before.step # "review"
  <1>1. /\ state.step \in WizardStep
        /\ state.step = "details" => StepBefore(state.step) = "details"
        /\ state.step = "members" => StepBefore(state.step) = "details"
        /\ state.step = "review" => StepBefore(state.step) = "members"
    BY DEF StepBefore, STEP_ORDER, StepIndex, WizardState
  <1> QED
    BY <1>1 DEF WizardState, WizardStep, Reviewable

\* A step that does not come after another.
LEMMA StepsUpTo ==
  ASSUME NEW step \in WizardStep, NEW last \in WizardStep,
         ~(StepIndex[step] > StepIndex[last])
  PROVE  /\ step \in {"members", "review"} => last \in {"members", "review"}
         /\ step = "review" => last = "review"
  <1>1. /\ StepIndex["details"] = 1 /\ StepIndex["members"] = 2
        /\ StepIndex["review"] = 3
    BY DEF StepIndex
  <1>2. CASE last = "details"
    BY <1>1, <1>2 DEF WizardStep
  <1>3. CASE last = "members"
    BY <1>1, <1>3 DEF WizardStep
  <1> QED
    BY <1>2, <1>3 DEF WizardStep

(* A mount takes the step of the URL, where it has one, and is unchecked   *)
(* where the stored state had not come to it.                              *)
LEMMA MountKept ==
  ASSUME WizardInv, NEW h, NEW mode \in {"create", "edit"},
         at' \in 1 .. Len(h), WellKept(h, trail'), Stamped(h, at'),
         h[at'].visit # 0, Mount(h, mode),
         h[at'].step = "" =>
           (trail'[h[at'].visit] = "stepwise" => wizard'.step = "details"),
         modes' \in Seq({"create", "edit"}),
         trail' \in Seq(Manner), Len(trail') = Len(modes')
  PROVE  WizardInv'
  <1> DEFINE url == h[at']
             first == [None EXCEPT !.step = "details"]
             loaded == [None EXCEPT !.step = "details", !.name = "valid",
                                    !.members = "good"]
             base == IF mode = "edit" THEN loaded
                     ELSE IF storage # None THEN storage ELSE first
             state == [base EXCEPT !.step = Or(url.step, @),
                                   !.name = Or(url.name, @), !.visit = url.visit]
  <1>1. url \in Entry
    <2>1. h \in Seq(Entry) /\ at' \in 1 .. Len(h)
      BY DEF WellKept
    <2>2. h[at'] \in Entry
      BY <2>1, EntryOf, Zenon
    <2> QED
      BY <2>2
  <1>2. first \in WizardState /\ loaded \in WizardState
    BY DEF None, WizardState, WizardStep, Names, Lists
  <1>3. base \in WizardState
    BY <1>2 DEF WizardInv, WizardTypeOK
  <1>4. /\ state \in WizardState /\ state.visit = url.visit
        /\ state.step = Or(url.step, base.step)
        /\ state.name = Or(url.name, base.name)
        /\ state.members = base.members
    <2>1. Or(url.step, base.step) \in WizardStep /\ Or(url.name, base.name) \in Names
      BY <1>1, <1>3 DEF Or, Entry, WizardState
    <2> HIDE DEF base, url
    <2> QED
      BY <1>1, <1>3, <2>1 DEF WizardState, Entry
  <1>5. state = Restored(mode, url)
    BY DEF Restored
  <1>6. /\ wizard' = state /\ storage' = state
        /\ entries' = Rewritten(h, at', state)
        /\ unchecked' = /\ state.step # "details" /\ mode = "create"
                        /\ unchecked \/ Ahead(url)
    BY <1>5 DEF Mount
  <1>7. ASSUME ~unchecked' PROVE Reviewable(state)
    <2>1. CASE mode = "edit"
      <3>1. base.name # "" /\ base.members = "good"
        BY <2>1 DEF None
      <3> HIDE DEF base, state
      <3> QED
        BY <1>4, <3>1 DEF Reviewable, Or
    <2>2. CASE mode # "edit" /\ state.step # "details"
      <3>1. mode = "create" /\ ~unchecked /\ ~Ahead(url) /\ Reviewable(storage)
        BY <1>6, <1>7, <2>2 DEF WizardInv
      <3>2. url.step # "" =>
              /\ storage.visit = url.visit
              /\ ~(StepIndex[url.step] > StepIndex[storage.step])
        BY <3>1 DEF Ahead
      <3>3. storage # None
        <4>1. ASSUME storage = None PROVE FALSE
          <5>1. storage.visit = 0 /\ base.step = "details"
            BY <2>2, <4>1 DEF None
          <5>2. url.step # ""
            BY <1>4, <2>2, <5>1 DEF Or
          <5> QED
            BY <3>2, <5>1, <5>2
        <4> QED
          BY <4>1
      <3>4. base = storage
        BY <2>2, <3>3
      <3> HIDE DEF base, state
      <3>5. storage \in WizardState /\ state.step \in WizardStep
            /\ storage.step \in WizardStep
        BY <1>3, <1>4, <3>4 DEF WizardState
      <3>7. /\ state.step \in {"members", "review"} =>
                 storage.step \in {"members", "review"}
            /\ state.step = "review" => storage.step = "review"
        <4>1. CASE url.step = ""
          BY <1>4, <3>4, <4>1 DEF Or
        <4>2. CASE url.step # ""
          <5>1. state.step = url.step
            BY <1>4, <4>2 DEF Or
          <5>2. ~(StepIndex[state.step] > StepIndex[storage.step])
            BY <3>2, <4>2, <5>1
          <5> HIDE DEF url
          <5> QED
            BY <3>5, <5>2, StepsUpTo
        <4> QED
          BY <4>1, <4>2
      <3> QED
        BY <1>4, <3>1, <3>4, <3>7 DEF Reviewable, Or
    <2>3. CASE state.step = "details"
      BY <2>3 DEF Reviewable
    <2> QED
      BY <2>1, <2>2, <2>3
  <1>8. Fits(h, at', state.step, trail')
    <2>1. CASE url.step = ""
      BY <1>6, <2>1 DEF Fits
    <2>2. CASE url.step # ""
      <3>1. state.step = url.step
        BY <1>4, <2>2 DEF Or
      <3>2. Fits(h, at', url.step, trail')
        BY DEF WellKept, Deep
      <3> QED
        BY <3>1, <3>2
    <2> QED
      BY <2>1, <2>2
  <1>9. unchecked' \in BOOLEAN
    BY <1>6, Zenon
  <1> HIDE DEF state, base
  <1>10. unchecked' \/ Reviewable(wizard')
    BY <1>6, <1>7
  <1>11. /\ wizard' \in WizardState /\ storage' = wizard'
         /\ wizard'.visit = h[at'].visit
         /\ Fits(h, at', wizard'.step, trail')
         /\ entries' = Rewritten(h, at', wizard')
    BY <1>4, <1>6, <1>8
  <1> QED
    BY <1>9, <1>10, <1>11, WizardAtEntry

(* A traversal to any entry while the wizard, if mounted, holds "state".   *)
LEMMA ArriveKept ==
  ASSUME WizardInv, NEW i \in 1 .. Len(entries), i # at, modes' = modes,
         NEW state, Arrive(i, state),
         ~Mounted => state = None,
         Mounted => /\ state \in WizardState /\ state.visit = Visit
                    /\ Fits(entries, at, state.step, trail)
                    /\ unchecked \/ Reviewable(state)
  PROVE  WizardInv'
  <1> DEFINE there == entries[i].visit
             left == IF state = None THEN entries ELSE Rewritten(entries, at, state)
  <1>1. /\ WizardTypeOK /\ WellKept(entries, trail) /\ Stamped(entries, 0)
        /\ CopiesAgree
        /\ at \in Nat /\ i \in Nat /\ at \in 1 .. Len(entries)
        /\ unchecked \/ Reviewable(storage)
    BY DEF WizardInv, WizardTypeOK
  <1>2. at' = i
    BY DEF Arrive
  <1>3. Mounted => state # None
    <2>1. \A s \in WizardState : s # None
      <3>1. ASSUME NEW s \in WizardState PROVE s.step # "" /\ None.step = ""
        BY DEF WizardState, WizardStep, None
      <3> QED
        BY <3>1
    <2> QED
      BY <2>1
  <1>4. /\ WellKept(left, trail) /\ Stamped(left, 0) /\ Len(left) = Len(entries)
        /\ \A j \in 1 .. Len(entries) : left[j].visit = entries[j].visit
        /\ \A j \in 1 .. Len(entries) : j # at => left[j] = entries[j]
    <2>1. CASE ~Mounted
      BY <1>1, <2>1
    <2>2. CASE Mounted
      <3>1. Visit # 0 /\ left = Rewritten(entries, at, state)
        BY <1>1, <1>3, <2>2 DEF CopiesAgree
      <3>2. Stamped(entries, at)
        BY <1>1, StampedBut DEF WellKept
      <3> HIDE DEF left
      <3> QED
        BY <1>1, <2>2, <3>1, <3>2, RewrittenKept DEF Visit, WizardTypeOK
    <2> QED
      BY <2>1, <2>2
  <1>5. /\ modes' \in Seq({"create", "edit"}) /\ trail \in Seq(Manner)
        /\ Len(trail) = Len(modes') /\ i \in 1 .. Len(left)
    BY <1>1, <1>4 DEF WizardTypeOK
  <1>6. there # 0 => there \in 1 .. Len(trail) /\ there \in 1 .. Len(modes)
    <2>1. there \in Nat /\ there <= Len(trail)
      <3>1. entries \in Seq(Entry)
        BY <1>1 DEF WellKept
      <3> QED
        BY <1>1, <3>1, EntryOf DEF WellKept
    <2>2. Len(trail) = Len(modes) /\ Len(modes) \in Nat
      BY <1>1 DEF WizardTypeOK
    <2> QED
      BY <2>1, <2>2
  <1>7. Stamped(left, i) /\ entries[i].step = left[i].step
    BY <1>2, <1>4, StampedBut DEF WellKept
  <1>8. CASE there = 0 /\ Unmount /\ UNCHANGED <<trail, unchecked>>
             /\ entries' = left
             /\ storage' = IF state = None THEN storage ELSE state
    <2>1. /\ wizard' = None /\ unchecked' \in BOOLEAN
          /\ storage' \in WizardState \cup {None}
          /\ unchecked' \/ Reviewable(storage')
      BY <1>1, <1>3, <1>8 DEF Unmount, WizardTypeOK
    <2>2. entries'[at'].visit = 0
      BY <1>2, <1>4, <1>8
    <2>3. /\ at' \in 1 .. Len(entries') /\ WellKept(entries', trail')
          /\ Stamped(entries', 0) /\ trail' = trail
      BY <1>2, <1>4, <1>8
    <2> QED
      BY <1>5, <2>1, <2>2, <2>3, WizardElsewhere
  <1>9. CASE /\ there # 0 /\ Mounted
             /\ Persist(left, [state EXCEPT !.step = StepBefore(@), !.visit = there])
             /\ trail' = IF there = Visit /\ i >= at - 1 THEN trail
                         ELSE [trail EXCEPT ![there] = "skipped"]
    <2> DEFINE before == [state EXCEPT !.step = StepBefore(@)]
               after == [state EXCEPT !.step = StepBefore(@), !.visit = there]
    <2>1. /\ before \in WizardState /\ before.step = StepBefore(state.step)
          /\ unchecked \/ Reviewable(before)
      BY <1>9, StepBeforeReviewable
    <2>2. after = [before EXCEPT !.visit = there]
      BY <1>9 DEF WizardState
    <2> HIDE DEF before, after
    <2>3. /\ after \in WizardState /\ after.step = before.step
          /\ after.visit = left[i].visit
          /\ unchecked \/ Reviewable(after)
      <3>1. there \in Nat /\ left[i].visit = there
        BY <1>1, <1>4, <1>6, <1>9
      <3> HIDE DEF there, left
      <3>2. /\ after \in WizardState /\ after.visit = there
            /\ after.step = before.step /\ after.name = before.name
            /\ after.members = before.members
        <4>1. before \in WizardState /\ after = [before EXCEPT !.visit = there]
          BY <2>1, <2>2, Zenon
        <4> QED
          BY <3>1, <4>1 DEF WizardState
      <3> QED
        BY <2>1, <3>1, <3>2 DEF Reviewable
    <2>4. /\ trail' \in Seq(Manner) /\ Len(trail') = Len(trail)
          /\ \A v \in 1 .. Len(trail) :
               trail'[v] = "stepwise" => trail[v] = "stepwise"
      <3>1. CASE trail' = trail
        BY <1>5, <3>1
      <3>2. CASE trail' = [trail EXCEPT ![there] = "skipped"]
        <4>1. there \in 1 .. Len(trail) /\ "skipped" \in Manner /\ "skipped" # "stepwise"
          BY <1>6, <1>9 DEF Manner
        <4> HIDE DEF there, Manner
        <4> QED
          BY <1>5, <3>2, <4>1
      <3> QED
        BY <1>9, <3>1, <3>2
    <2>5. WellKept(left, trail')
      BY <1>4, <2>4, FewerStepwise
    <2>6. Fits(left, i, after.step, trail')
      <3>1. CASE there = Visit /\ i >= at - 1
        <4>1. Fits(left, at, state.step, trail)
          <5>1. Len(left) \in Nat /\ (at > 1 => at - 1 \in 1 .. Len(entries))
                /\ (at > 2 => at - 2 \in 1 .. Len(entries))
            BY <1>1, <1>4
          <5> HIDE DEF left
          <5> QED
            BY <1>1, <1>4, <1>9, <5>1 DEF Fits
        <4>2. /\ state.step \in WizardStep /\ at \in 1 .. Len(left)
              /\ left[i].visit = left[at].visit /\ left[at].visit # 0
          BY <1>1, <1>4, <1>9, <3>1 DEF WizardState, Visit
        <4>3. trail' = trail /\ after.step = StepBefore(state.step) /\ i >= at - 1
          BY <1>9, <2>1, <2>3, <3>1
        <4> HIDE DEF left, there
        <4>4. Fits(left, i, StepBefore(state.step), trail)
          BY <1>4, <1>5, <4>1, <4>2, <4>3, StepBeforeFits
        <4> QED
          BY <4>3, <4>4
      <3>2. CASE ~(there = Visit /\ i >= at - 1)
        <4>1. trail'[there] = "skipped" /\ left[i].visit = there
          BY <1>4, <1>5, <1>6, <1>9, <3>2
        <4> QED
          BY <4>1 DEF Fits
      <3> QED
        BY <3>1, <3>2
    <2>7. /\ wizard' = after /\ storage' = after
          /\ entries' = Rewritten(left, at', after)
          /\ unchecked' = (unchecked /\ after.step # "details")
      BY <1>9 DEF Persist, after
    <2>8. unchecked' \in BOOLEAN
      BY <2>7, Zenon
    <2>9. unchecked' \/ Reviewable(wizard')
      BY <2>3, <2>7 DEF Reviewable
    <2>10. /\ left[i].visit # 0 /\ Len(trail') = Len(modes')
           /\ modes' \in Seq({"create", "edit"}) /\ at' \in 1 .. Len(left)
      BY <1>2, <1>4, <1>5, <1>9, <2>4
    <2>11. /\ storage' = wizard' /\ wizard' \in WizardState
           /\ entries' = Rewritten(left, at', wizard')
           /\ wizard'.visit = left[at'].visit /\ left[at'].visit # 0
           /\ Fits(left, at', wizard'.step, trail') /\ Stamped(left, at')
      BY <1>2, <1>7, <2>3, <2>6, <2>7, <2>10
    <2> HIDE DEF left, there
    <2> QED
      BY <2>4, <2>5, <2>8, <2>9, <2>10, <2>11, WizardAtEntry
  <1>10. CASE there # 0 /\ Mount(left, modes[there]) /\ trail' = trail
    <2>1. modes[there] \in {"create", "edit"}
      BY <1>1, <1>6, <1>10 DEF WizardTypeOK
    <2>2. left[i].step # "" /\ left[i].visit # 0
      <3>1. i # 0
        BY <1>1
      <3> QED
        BY <1>4, <1>5, <1>10, <3>1 DEF Stamped
    <2> HIDE DEF left
    <2> QED
      BY <1>2, <1>4, <1>5, <1>7, <1>10, <2>1, <2>2, MountKept
  <1> QED
    BY <1>8, <1>9, <1>10 DEF Arrive

LEMMA WizardInvStep ==
  WizardInv /\ [WizardNext]_wizardVars => WizardInv'
  <1> SUFFICES ASSUME WizardInv, [WizardNext]_wizardVars PROVE WizardInv'
    OBVIOUS
  <1>1. /\ WizardTypeOK /\ WellKept(entries, trail) /\ Stamped(entries, 0)
        /\ CopiesAgree
        /\ unchecked \/ Reviewable(storage)
    BY DEF WizardInv
  <1>s. /\ entries \in Seq(Entry) /\ trail \in Seq(Manner)
        /\ modes \in Seq({"create", "edit"})
    BY <1>1 DEF WellKept, WizardTypeOK
  <1>2. /\ at \in Nat /\ at \in 1 .. Len(entries) /\ Len(entries) \in Nat
        /\ Len(trail) = Len(modes) /\ Len(modes) \in Nat
        /\ entries[at] \in Entry /\ Visit \in Nat
    <2>1. /\ at \in 1 .. Len(entries) /\ Len(trail) = Len(modes)
      BY <1>1 DEF WizardTypeOK
    <2>2. entries[at] \in Entry /\ Visit \in Nat
      BY <1>s, <2>1, EntryOf DEF Visit
    <2>3. Len(entries) \in Nat /\ Len(modes) \in Nat
      BY <1>s
    <2> QED
      BY <2>1, <2>2, <2>3
  <1>3. Elsewhere \in Entry /\ Elsewhere.visit = 0
    BY DEF Elsewhere, Entry, Names
  \* Where the wizard is mounted, its state is stored and has room.
  <1>4. ASSUME Mounted
        PROVE  /\ wizard \in WizardState /\ storage = wizard /\ wizard.visit = Visit
               /\ Visit # 0 /\ entries[at].step = wizard.step
               /\ Fits(entries, at, wizard.step, trail)
               /\ unchecked \/ Reviewable(wizard)
               /\ Stamped(entries, at)
    <2>1. /\ wizard \in WizardState /\ storage = wizard /\ wizard.visit = Visit
          /\ Visit # 0 /\ entries[at].step = wizard.step
      BY <1>1, <1>4 DEF CopiesAgree, WizardTypeOK, Mounted
    <2>2. Fits(entries, at, wizard.step, trail)
      BY <1>1, <1>2, <1>s, <2>1 DEF WellKept, Deep, Visit
    <2>3. Stamped(entries, at)
      BY <1>1, <1>2, <1>s, StampedBut
    <2> QED
      BY <1>1, <2>1, <2>2, <2>3
  \* An entry of a page elsewhere is pushed.
  <1>5. LET pushed == Pushed(Elsewhere)
        IN  /\ WellKept(pushed, trail) /\ Stamped(pushed, 0)
            /\ Len(pushed) = at + 1 /\ pushed[at + 1].visit = 0
            /\ \A j \in 1 .. at : pushed[j] = entries[j]
    <2> DEFINE pushed == Pushed(Elsewhere)
    <2>1. /\ WellKept(pushed, trail) /\ Stamped(pushed, at + 1)
          /\ Len(pushed) = at + 1 /\ pushed[at + 1] = Elsewhere
          /\ \A j \in 1 .. at : pushed[j] = entries[j]
      <3>1. Elsewhere.visit <= Len(trail)
        <4>1. 0 <= Len(trail)
          BY <1>2
        <4> QED
          BY <1>3, <4>1, Zenon
      <3>2. WellKept(entries, trail) /\ Stamped(entries, 0)
        BY <1>1
      <3>3. trail \in Seq(Manner) /\ at \in 1 .. Len(entries)
        BY <1>2, <1>s
      <3> HIDE DEF Elsewhere
      <3> QED
        BY <1>3, <3>1, <3>2, <3>3, PushedKept DEF Pushed
    <2> HIDE DEF pushed
    <2>2. Stamped(pushed, 0)
      BY <1>3, <2>1 DEF Stamped
    <2> QED
      BY <1>3, <2>1, <2>2 DEF pushed
  <1>6. ASSUME NEW mode \in {"create", "edit"}, Open(mode)
        PROVE  WizardInv'
    <2> DEFINE n == Len(modes) + 1
               entry == [Elsewhere EXCEPT !.visit = n]
               h == Pushed(entry)
    <2>1. /\ Visit = 0 /\ at' = at + 1 /\ modes' = Append(modes, mode)
          /\ trail' = Append(trail, IF wizard'.step = "details" THEN "stepwise"
                                    ELSE "skipped")
          /\ Mount(h, mode)
      BY <1>1, <1>6 DEF Open, CopiesAgree
    <2>2. n \in Nat /\ entry \in Entry /\ entry.visit = n /\ n # 0
      <3>1. n \in Nat /\ n # 0
        BY <1>2
      <3> HIDE DEF n
      <3> QED
        BY <3>1 DEF Elsewhere, Entry, Names
    <2>e. entry.step = "" /\ "" \notin {"members", "review"}
      BY DEF Elsewhere
    <2>3. wizard'.step \in WizardStep
      <3>1. wizard' = Restored(mode, h[at'])
        BY <2>1 DEF Mount
      <3>2. h[at'] = entry
        <4>1. /\ SubSeq(entries, 1, at) \in Seq(Entry)
              /\ Len(SubSeq(entries, 1, at)) = at
          BY <1>2, <1>s
        <4> QED
          <5> HIDE DEF entry
          <5>1. Append(SubSeq(entries, 1, at), entry)[at + 1] = entry
            BY <1>2, <2>2, <4>1, AppendProperties
          <5> QED
            BY <2>1, <5>1 DEF Pushed
      <3>3. entry.name = ""
        BY DEF Elsewhere
      <3> DEFINE base == IF mode = "edit"
                         THEN [None EXCEPT !.step = "details", !.name = "valid",
                                           !.members = "good"]
                         ELSE IF storage # None THEN storage
                         ELSE [None EXCEPT !.step = "details"]
      <3>4. base \in WizardState
        BY <1>1 DEF WizardTypeOK, None, WizardState, WizardStep, Names, Lists
      <3>5. wizard' = [base EXCEPT !.step = Or(entry.step, @),
                         !.name = Or(entry.name, @), !.visit = entry.visit]
        BY <3>1, <3>2 DEF Restored
      <3> HIDE DEF base, entry
      <3> QED
        BY <2>2, <2>e, <3>4, <3>5 DEF Or, WizardState
    <2>4. /\ trail' \in Seq(Manner) /\ Len(trail') = n
          /\ modes' \in Seq({"create", "edit"}) /\ Len(modes') = n
          /\ trail'[n] = "stepwise" => wizard'.step = "details"
          /\ \A v \in 1 .. Len(trail) : trail'[v] = trail[v]
      <3> DEFINE manner == IF wizard'.step = "details" THEN "stepwise" ELSE "skipped"
      <3>1. /\ manner \in Manner /\ trail' = Append(trail, manner)
            /\ manner = "stepwise" => wizard'.step = "details"
            /\ modes' = Append(modes, mode)
        BY <2>1 DEF Manner
      <3> HIDE DEF manner, Manner
      <3>2. /\ trail' \in Seq(Manner) /\ Len(trail') = n /\ trail'[n] = manner
            /\ \A v \in 1 .. Len(trail) : trail'[v] = trail[v]
        BY <1>2, <1>s, <3>1
      <3>3. modes' \in Seq({"create", "edit"}) /\ Len(modes') = n
        BY <1>2, <1>s, <3>1
      <3> QED
        BY <3>1, <3>2, <3>3
    <2>5. WellKept(entries, trail')
      <3>1. \A i \in 1 .. Len(entries) :
              /\ entries[i].visit <= Len(trail')
              /\ entries[i].visit # 0 => entries[i].visit \in 1 .. Len(trail)
        <4>1. ASSUME NEW i \in 1 .. Len(entries)
              PROVE  entries[i].visit \in Nat /\ entries[i].visit <= Len(trail)
          BY <1>1, <1>s, EntryOf DEF WellKept
        <4> QED
          BY <1>2, <1>s, <2>4, <4>1
      <3>2. Deep(entries, trail')
        BY <1>1, <2>4, <3>1 DEF WellKept, Deep, Fits
      <3> QED
        BY <1>1, <3>1, <3>2 DEF WellKept
    <2>6. \A j \in 1 .. at : entries[j].visit # n
      <3>1. \A j \in 1 .. at : j \in 1 .. Len(entries)
        BY <1>2, <1>s
      <3>2. \A j \in 1 .. Len(entries) : entries[j].visit \in Nat
        BY <1>s, EntryOf
      <3> QED
        BY <1>1, <1>2, <3>1, <3>2 DEF WellKept
    <2>7. /\ WellKept(h, trail') /\ Stamped(h, at') /\ Len(h) = at'
          /\ h[at'] = entry
      <3> HIDE DEF entry, n
      <3>1. Visit = 0 /\ Len(trail') = n /\ n \in Nat /\ at' = at + 1
        BY <2>1, <2>2, <2>4
      <3>2. entry.visit <= Len(trail') /\ entries[at].visit = 0
        <4>1. entry.visit = Len(trail') /\ Len(trail') <= Len(trail')
          BY <2>2, <3>1
        <4>2. entry.visit <= Len(trail')
          BY <4>1, Zenon
        <4> QED
          BY <3>1, <4>2 DEF Visit
      <3>3. /\ trail' \in Seq(Manner) /\ at \in 1 .. Len(entries)
            /\ WellKept(entries, trail') /\ Stamped(entries, 0)
        BY <1>1, <1>2, <2>4, <2>5
      <3>4. entry.visit = n /\ entry \in Entry /\ entry.step \notin {"members", "review"}
        <4>1. entry.step \notin {"members", "review"}
          BY <2>e, Zenon
        <4> QED
          BY <2>2, <4>1
      <3>5. /\ WellKept(h, trail') /\ Stamped(h, at + 1) /\ Len(h) = at + 1
            /\ h[at + 1] = entry
        BY <2>6, <3>2, <3>3, <3>4, PushedKept DEF Pushed
      <3> HIDE DEF h
      <3> QED
        BY <3>1, <3>5
    <2> HIDE DEF h, entry
    <2>8. at' \in 1 .. Len(h) /\ h[at'].visit # 0
      <3>1. at' = at + 1
        BY <2>1
      <3> HIDE DEF n
      <3> QED
        BY <1>2, <2>2, <2>7, <3>1
    <2>9. h[at'].step = ""
      BY <2>7, <2>e, Zenon
    <2>10. trail'[h[at'].visit] = "stepwise" => wizard'.step = "details"
      BY <2>2, <2>4, <2>7
    <2> QED
      BY <2>1, <2>2, <2>4, <2>7, <2>8, <2>9, <2>10, MountKept
  <1>7. ASSUME at' = at + 1, entries' = Pushed(Elsewhere), Unmount,
               UNCHANGED <<modes, trail, unchecked>>,
               storage' = None \/ (Mounted /\ storage' = storage)
        PROVE  WizardInv'
    <2>1. storage' = None => Reviewable(storage')
      <3>1. None.step = ""
        BY DEF None
      <3> HIDE DEF None
      <3> QED
        BY <3>1 DEF Reviewable
    <2>3. /\ at' \in 1 .. Len(entries') /\ WellKept(entries', trail')
          /\ Stamped(entries', 0) /\ entries'[at'].visit = 0
      BY <1>2, <1>s, <1>5, <1>7
    <2>4. /\ storage' \in WizardState \cup {None} /\ unchecked' \in BOOLEAN
          /\ unchecked' \/ Reviewable(storage')
      BY <1>1, <1>7, <2>1 DEF WizardTypeOK
    <2> QED
      BY <1>2, <1>s, <1>7, <2>1, <2>3, <2>4, WizardElsewhere DEF Unmount
  <1>8. ASSUME NEW i \in DOMAIN entries, Traverse(i) PROVE WizardInv'
    <2>1. i \in 1 .. Len(entries) /\ i # at /\ Arrive(i, wizard) /\ modes' = modes
      BY <1>s, <1>8 DEF Traverse
    <2>2. ~Mounted => wizard = None
      BY DEF Mounted
    <2> QED
      BY <1>4, <2>1, <2>2, ArriveKept
  <1>9. ASSUME ReloadPage PROVE WizardInv'
    <2>1. /\ Mounted /\ at' = at /\ Mount(entries, modes[Visit])
          /\ modes' = modes /\ trail' = trail
      BY <1>9 DEF ReloadPage
    <2>2. modes[Visit] \in {"create", "edit"}
      <3>1. Visit \in 1 .. Len(modes)
        BY <1>1, <1>2, <1>s, <1>4, <2>1 DEF WellKept, Visit
      <3> QED
        BY <1>2, <1>s, <3>1
    <2>3. entries[at].step # ""
      BY <1>4, <2>1 DEF WizardState, WizardStep
    <2> QED
      BY <1>1, <1>2, <1>s, <1>4, <2>1, <2>2, <2>3, MountKept DEF Visit
  \* The state changes at the current entry.
  <1>10. ASSUME Mounted, NEW state \in WizardState, at' = at,
                Persist(entries, state), state.visit = wizard.visit,
                UNCHANGED <<modes, trail>>,
                Fits(entries, at, state.step, trail),
                state.step = "details" \/ unchecked \/ Reviewable(state)
         PROVE  WizardInv'
    <2>1. /\ wizard' = state /\ storage' = state
          /\ entries' = Rewritten(entries, at', state)
          /\ unchecked' = (unchecked /\ state.step # "details")
      BY <1>10 DEF Persist
    <2>2. unchecked' \in BOOLEAN
      BY <2>1, Zenon
    <2>3. unchecked' \/ Reviewable(wizard')
      BY <1>10, <2>1 DEF Reviewable
    <2> QED
      BY <1>1, <1>2, <1>s, <1>4, <1>10, <2>1, <2>2, <2>3, WizardAtEntry DEF Visit
  <1>11. ASSUME NEW name \in Names, EditDetails(name) PROVE WizardInv'
    <2>1. /\ [wizard EXCEPT !.name = name] \in WizardState
          /\ [wizard EXCEPT !.name = name].visit = wizard.visit
          /\ [wizard EXCEPT !.name = name].step = "details"
      BY <1>4, <1>11 DEF EditDetails, WizardState
    <2>2. Fits(entries, at, "details", trail)
      BY DEF Fits
    <2> QED
      BY <1>10, <1>11, <2>1, <2>2 DEF EditDetails
  <1>12. ASSUME NEW list \in Lists, EditMembers(list) PROVE WizardInv'
    <2>1. /\ [wizard EXCEPT !.members = list] \in WizardState
          /\ [wizard EXCEPT !.members = list].visit = wizard.visit
          /\ [wizard EXCEPT !.members = list].step = wizard.step
          /\ [wizard EXCEPT !.members = list].name = wizard.name
          /\ wizard.step = "members" /\ Mounted
      BY <1>4, <1>12 DEF EditMembers, WizardState
    <2>2. unchecked \/ Reviewable([wizard EXCEPT !.members = list])
      BY <1>4, <2>1 DEF Reviewable
    <2> QED
      BY <1>4, <1>10, <1>12, <2>1, <2>2 DEF EditMembers
  <1>13. ASSUME NextStep PROVE WizardInv'
    <2> DEFINE next == STEP_ORDER[StepIndex[wizard.step] + 1]
               entry == [visit |-> Visit, step |-> next, name |-> ""]
               state == [wizard EXCEPT !.step = next]
               h == Pushed(entry)
    <2>1. /\ Mounted /\ wizard.step # "review" /\ CanProceed(wizard)
          /\ at' = at + 1 /\ Persist(h, state)
          /\ modes' = modes /\ trail' = trail
      BY <1>13 DEF NextStep
    <2>2. \/ wizard.step = "details" /\ next = "members" /\ wizard.name # ""
          \/ /\ wizard.step = "members" /\ next = "review"
             /\ wizard.members = "good"
      <3>1. wizard.step \in {"details", "members"}
        BY <1>4, <2>1 DEF WizardState, WizardStep
      <3>2. next = IF wizard.step = "details" THEN "members" ELSE "review"
        BY <3>1 DEF STEP_ORDER, StepIndex
      <3> HIDE DEF next
      <3> QED
        BY <2>1, <3>1, <3>2 DEF CanProceed
    <2> HIDE DEF next
    <2>3. /\ state \in WizardState /\ state.step = next /\ state.visit = Visit
          /\ state.name = wizard.name /\ state.members = wizard.members
      BY <1>4, <2>1, <2>2 DEF WizardState, WizardStep
    <2>4. entry \in Entry /\ entry.visit = Visit /\ entry.step = next
      BY <1>2, <1>s, <2>2 DEF Entry, WizardStep, Names
    <2> HIDE DEF entry, state
    <2>5. \A trails : WellKept(entries, trails) /\ trails = trail =>
            /\ entry.visit <= Len(trails)
            /\ entry.visit # 0 /\ trails[entry.visit] = "stepwise" =>
                 /\ entry.step \in {"members", "review"} => entries[at].visit = entry.visit
                 /\ entry.step = "review" => at > 1 /\ entries[at - 1].visit = entry.visit
      BY <1>2, <1>s, <1>4, <2>1, <2>2, <2>4 DEF WellKept, Visit, Fits
    <2>6. /\ WellKept(h, trail) /\ Stamped(h, at + 1) /\ Len(h) = at + 1
          /\ h[at + 1] = entry
          /\ \A j \in 1 .. at : h[j] = entries[j]
      BY <1>1, <1>2, <1>s, <2>4, <2>5, PushedKept DEF Pushed, Visit
    <2> HIDE DEF h
    <2>7. at' \in 1 .. Len(h) /\ h[at'].visit = Visit /\ Visit # 0
      BY <1>2, <1>s, <1>4, <2>1, <2>4, <2>6
    <2>8. Fits(h, at', state.step, trail)
      BY <1>2, <1>s, <2>1, <2>3, <2>4, <2>6, <2>7 DEF WellKept, Deep
    <2>9. /\ wizard' = state /\ storage' = state /\ entries' = Rewritten(h, at', state)
          /\ unchecked' = (unchecked /\ state.step # "details")
      BY <2>1 DEF Persist
    <2>10. unchecked' \in BOOLEAN
      BY <2>9, Zenon
    <2>11. unchecked' \/ Reviewable(wizard')
      BY <1>4, <2>1, <2>2, <2>3, <2>9 DEF Reviewable
    <2> QED
      BY <1>2, <1>s, <2>1, <2>3, <2>6, <2>7, <2>8, <2>9, <2>10, <2>11, WizardAtEntry
  <1>14. ASSUME GoToPreviousStep PROVE WizardInv'
    <2> DEFINE state == [wizard EXCEPT !.step = StepBefore(@)]
    <2>1. /\ Mounted /\ at > 1 /\ Arrive(at - 1, state)
          /\ modes' = modes
      BY <1>14 DEF GoToPreviousStep
    <2>2. /\ state \in WizardState /\ state.visit = Visit
          /\ state.step = StepBefore(wizard.step)
          /\ unchecked \/ Reviewable(state)
      BY <1>4, <2>1, StepBeforeReviewable
    <2> HIDE DEF state
    <2>3. Fits(entries, at, state.step, trail)
      <3>1. at >= at - 1 /\ wizard.step \in WizardStep /\ entries[at].visit # 0
        BY <1>2, <1>4, <2>1 DEF WizardState, Visit
      <3> QED
        BY <1>1, <1>2, <1>4, <2>1, <2>2, <3>1, StepBeforeFits
    <2>4. at - 1 \in 1 .. Len(entries) /\ at - 1 # at /\ modes' = modes
      BY <1>2, <1>s, <2>1
    <2> QED
      BY <2>1, <2>2, <2>3, <2>4, ArriveKept
  <1>15. ASSUME NEW step \in DOMAIN StepIndex, GoToStep(step) PROVE WizardInv'
    <2>1. /\ Mounted /\ StepIndex[step] < StepIndex[wizard.step]
          /\ wizard.step \in WizardStep /\ step \in WizardStep
      BY <1>4, <1>15 DEF GoToStep, WizardState, WizardStep, StepIndex
    <2>2. \/ step = "details"
          \/ step = "members" /\ wizard.step = "review"
      BY <2>1 DEF WizardStep, StepIndex
    <2>3. /\ [wizard EXCEPT !.step = step] \in WizardState
          /\ [wizard EXCEPT !.step = step].visit = wizard.visit
          /\ [wizard EXCEPT !.step = step].step = step
          /\ [wizard EXCEPT !.step = step].name = wizard.name
      BY <1>4, <2>1 DEF WizardState
    <2>4. Fits(entries, at, step, trail)
      BY <1>4, <2>1, <2>2 DEF Fits
    <2>5. step = "details" \/ unchecked \/ Reviewable([wizard EXCEPT !.step = step])
      BY <1>4, <2>1, <2>2, <2>3 DEF Reviewable
    <2> QED
      BY <1>10, <1>15, <2>1, <2>3, <2>4, <2>5 DEF GoToStep
  <1>16. ASSUME UNCHANGED <<entries, at, modes, wizard, storage, trail, unchecked>>
         PROVE  WizardInv'
    <2>1. /\ WellKept(entries', trail') /\ Stamped(entries', 0)
          /\ Reviewable(storage') = Reviewable(storage)
      BY <1>1, <1>16, Zenon
    <2>2. WizardTypeOK' /\ CopiesAgree'
      BY <1>1, <1>16 DEF WizardTypeOK, CopiesAgree, Mounted, Visit
    <2> QED
      BY <1>1, <1>16, <2>1, <2>2 DEF WizardInv
  <1>17. Leave => WizardInv'
    BY <1>7 DEF Leave
  <1>18. Finish => WizardInv'
    BY <1>7 DEF Finish
  <1>19. SubmitWizard \/ Abandon \/ UNCHANGED wizardVars => WizardInv'
    BY <1>16 DEF SubmitWizard, Abandon, wizardVars
  <1> QED
    BY <1>6, <1>8, <1>9, <1>11, <1>12, <1>13, <1>14, <1>15, <1>17, <1>18, <1>19
    DEF WizardNext

(* What is reviewed passed both checks, whichever way the user came to the *)
(* review step: the lazy state, popstate and handleNext of                 *)
(* GroupWizard.tsx, over any number of history entries at once, unless the *)
(* page mounted at a step of its URL the stored state had not come to.     *)
THEOREM ReviewedIsValid == WizardSpec => []ReviewIsValid
  <1>1. WizardInv => ReviewIsValid
    BY DEF WizardInv, CopiesAgree, Reviewable, ReviewIsValid
  <1> QED
    BY <1>1, WizardInvInit, WizardInvStep, PTL DEF WizardSpec

(* Past the first step of a visit walked stepwise, Back stays with the     *)
(* wizard, however many entries the user went forward, out and in at once. *)
THEOREM BackStays == WizardSpec => []BackStaysInside
  <1>1. ASSUME WizardInv PROVE BackStaysInside
    <2>1. ASSUME Mounted, wizard.step # "details", trail[Visit] = "stepwise"
          PROVE  entries[at - 1].visit = Visit
      <3>1. /\ wizard \in WizardState /\ entries[at].visit # 0
            /\ entries[at].step = wizard.step /\ at \in 1 .. Len(entries)
        BY <1>1, <2>1 DEF WizardInv, WizardTypeOK, CopiesAgree, Mounted, Visit
      <3>2. Fits(entries, at, wizard.step, trail)
        BY <1>1, <3>1 DEF WizardInv, WellKept, Deep
      <3> QED
        BY <2>1, <3>1, <3>2 DEF Fits, Visit, WizardState, WizardStep
    <2> QED
      BY <2>1 DEF BackStaysInside
  <1> QED
    BY <1>1, WizardInvInit, WizardInvStep, PTL DEF WizardSpec

-----------------------------------------------------------------------------
(* The preview of an allocation.                                           *)

FormRow == [percentage : Nat, locked : BOOLEAN]

LEMMA RowFields ==
    ASSUME NEW list \in Seq(FormRow)
    PROVE  /\ Len(list) \in Nat /\ DOMAIN list = 1 .. Len(list)
           /\ \A i \in 1 .. Len(list) :
                list[i] \in FormRow /\ list[i].percentage \in Nat
           /\ Percentages(list) \in [1 .. Len(list) -> Nat]
           /\ \A i \in 1 .. Len(list) : Percentages(list)[i] = list[i].percentage
<1>1. Len(list) \in Nat /\ DOMAIN list = 1 .. Len(list)
  OBVIOUS
<1>2. \A i \in 1 .. Len(list) : list[i] \in FormRow
  OBVIOUS
<1>3. \A r \in FormRow : r.percentage \in Nat
  BY DEF FormRow
<1>4. \A i \in 1 .. Len(list) : list[i].percentage \in Nat
  BY <1>2, <1>3
<1>5. Percentages(list) = [i \in 1 .. Len(list) |-> list[i].percentage]
  BY <1>1 DEF Percentages
<1> QED BY <1>1, <1>2, <1>4, <1>5

\* A running total, as calculateShares keeps one.
IsRunning(run, N, f) == run = [i \in 0 .. N |-> IF i = 0 THEN 0 ELSE run[i - 1] + f[i]]

LEMMA RunningTotal ==
    ASSUME NEW N \in Nat, NEW f \in [1 .. N -> Int]
    PROVE  /\ \E run : IsRunning(run, N, f)
           /\ \A run : IsRunning(run, N, f) =>
                \A n \in 0 .. N : run[n] = SumFunction([i \in 1 .. n |-> f[i]])
<1> DEFINE part(n) == [i \in 1 .. n |-> f[i]]
           sum == [n \in 0 .. N |-> SumFunction(part(n))]
<1>1. ASSUME NEW n \in 0 .. N, n # 0
      PROVE  SumFunction(part(n)) = SumFunction(part(n - 1)) + f[n]
  <2>1. /\ part(n) \in [1 .. n -> Int] /\ n \in Nat /\ n \in 1 .. n
        /\ part(n)[n] = f[n] /\ f[n] \in Int
    BY <1>1
  <2>2. [i \in (1 .. n) \ {n} |-> part(n)[i]] = part(n - 1)
    <3>1. (1 .. n) \ {n} = 1 .. n - 1
      BY <2>1
    <3>2. \A i \in 1 .. n - 1 : part(n)[i] = f[i]
      BY <2>1
    <3> HIDE DEF part
    <3>3. part(n - 1) = [i \in 1 .. n - 1 |-> f[i]]
      BY DEF part
    <3> QED BY <3>1, <3>2, <3>3
  <2>3. IsFiniteSet(1 .. n) /\ IsFiniteSet(1 .. n - 1) /\ part(n - 1) \in [1 .. n - 1 -> Int]
    <3>1. n - 1 \in Nat
      BY <1>1
    <3>2. part(n - 1) \in [1 .. n - 1 -> Int]
      BY <3>1, <1>1
    <3> HIDE DEF part
    <3> QED BY <2>1, <3>1, <3>2, FiniteFrom1
  <2> HIDE DEF part
  <2>4. SumFunction(part(n)) = f[n] + SumFunction(part(n - 1))
    <3>1. SumFunction(part(n)) =
            part(n)[n] + SumFunction([i \in (1 .. n) \ {n} |-> part(n)[i]])
      BY <2>1, <2>3, SumSplit
    <3> QED BY <2>1, <2>2, <3>1
  <2>5. SumFunction(part(n - 1)) \in Int
    BY <2>3, SumType
  <2> QED BY <2>1, <2>4, <2>5
<1>2. SumFunction(part(0)) = 0
  <2>1. part(0) \in [{} -> Int]
    OBVIOUS
  <2> QED BY <2>1, SumEmpty
<1>3. sum = [i \in 0 .. N |-> IF i = 0 THEN 0 ELSE sum[i - 1] + f[i]]
  <2>1. \A i \in 0 .. N : i # 0 => i - 1 \in 0 .. N
    OBVIOUS
  <2>2. \A n \in 0 .. N : sum[n] = SumFunction(part(n))
    OBVIOUS
  <2> HIDE DEF part
  <2>3. sum = [i \in 0 .. N |-> sum[i]]
    OBVIOUS
  <2> HIDE DEF sum
  <2> QED BY <1>1, <1>2, <2>1, <2>2, <2>3
<1>4. ASSUME NEW run,
             run = [i \in 0 .. N |-> IF i = 0 THEN 0 ELSE run[i - 1] + f[i]]
      PROVE  \A n \in 0 .. N : run[n] = SumFunction(part(n))
  <2> DEFINE good == {n \in Nat : n <= N => run[n] = SumFunction(part(n))}
  <2>1. 0 \in good
    <3>1. 0 \in 0 .. N
      OBVIOUS
    <3>2. run[0] = 0
      <4> HIDE DEF part
      <4> QED BY <1>4, <3>1
    <3> HIDE DEF part
    <3> QED BY <1>2, <3>2
  <2>2. ASSUME NEW n \in Nat, n \in good PROVE n + 1 \in good
    <3> SUFFICES ASSUME n + 1 <= N PROVE run[n + 1] = SumFunction(part(n + 1))
      OBVIOUS
    <3>1. n + 1 \in 0 .. N /\ n + 1 # 0 /\ (n + 1) - 1 = n /\ n <= N
      OBVIOUS
    <3>2. run[n] = SumFunction(part(n))
      BY <2>2, <3>1
    <3>3. SumFunction(part(n + 1)) = SumFunction(part((n + 1) - 1)) + f[n + 1]
      BY <1>1, <3>1
    <3>4. run[n + 1] = run[(n + 1) - 1] + f[n + 1]
      <4> HIDE DEF part
      <4> QED BY <1>4, <3>1
    <3> HIDE DEF part
    <3> QED BY <3>1, <3>2, <3>3, <3>4
  <2> HIDE DEF good
  <2>3. \A n \in Nat : n \in good
    BY <2>1, <2>2, UpTo
  <2> HIDE DEF part
  <2> QED BY <2>3 DEF good
<1>5. \E run : run = [i \in 0 .. N |-> IF i = 0 THEN 0 ELSE run[i - 1] + f[i]]
  <2> HIDE DEF sum
  <2> QED BY <1>3
<1> QED BY <1>4, <1>5 DEF part, IsRunning

\* The frontend's arithmetic is the contract's.
LEMMA PreviewIsPayout ==
    ASSUME NEW list \in Seq(FormRow), list # <<>>, NEW amount \in Nat, amount > 0
    PROVE  CalculateShares(amount, list) = DistributeAmounts(amount, list)
<1> DEFINE N == Len(list)
           f == [i \in 1 .. N |-> FlooredShare(amount, list, i)]
           run == CHOOSE g : g = [i \in 0 .. N |->
                        IF i = 0 THEN 0 ELSE g[i - 1] + FlooredShare(amount, list, i)]
           floor == [i \in 1 .. N - 1 |-> CalculateShare(amount, list[i].percentage)]
<1>1. /\ N \in Nat \ {0} /\ DOMAIN list = 1 .. N
      /\ \A i \in 1 .. N : list[i].percentage \in Nat
  BY RowFields
<1>2. \A i \in 1 .. N : f[i] = FlooredShare(amount, list, i)
  OBVIOUS
<1>3. f \in [1 .. N -> Int]
  <2>1. \A i \in 1 .. N : amount * list[i].percentage \in Nat
    BY <1>1
  <2>2. \A i \in 1 .. N : FlooredShare(amount, list, i) \in Int
    BY <2>1, SharesAssumption, FloorDivision DEF FlooredShare
  <2> QED BY <2>2
<1> HIDE DEF f
<1>4. IsRunning(run, N, f)
  <2>1. \A g : [i \in 0 .. N |-> IF i = 0 THEN 0
                                   ELSE g[i - 1] + FlooredShare(amount, list, i)] =
               [i \in 0 .. N |-> IF i = 0 THEN 0 ELSE g[i - 1] + f[i]]
    <3>1. \A i \in 0 .. N : i # 0 => i \in 1 .. N
      BY <1>1
    <3> HIDE DEF N
    <3> QED BY <1>2, <3>1
  <2>2. PICK total : IsRunning(total, N, f)
    <3> HIDE DEF N
    <3> QED BY <1>1, <1>3, RunningTotal
  <2>3. \E g : g = [i \in 0 .. N |->
                IF i = 0 THEN 0 ELSE g[i - 1] + FlooredShare(amount, list, i)]
    <3>1. total = [i \in 0 .. N |-> IF i = 0 THEN 0 ELSE total[i - 1] + f[i]]
      BY <2>2 DEF IsRunning
    <3>2. [i \in 0 .. N |-> IF i = 0 THEN 0 ELSE total[i - 1] + f[i]] =
            [i \in 0 .. N |->
                IF i = 0 THEN 0 ELSE total[i - 1] + FlooredShare(amount, list, i)]
      BY <2>1
    <3>3. total = [i \in 0 .. N |->
                IF i = 0 THEN 0 ELSE total[i - 1] + FlooredShare(amount, list, i)]
      <4> HIDE DEF N
      <4> QED BY <3>1, <3>2, Zenon
    <3> HIDE DEF N
    <3> QED BY <3>3, Zenon
  <2>4. run = [i \in 0 .. N |->
                IF i = 0 THEN 0 ELSE run[i - 1] + FlooredShare(amount, list, i)]
    <3> HIDE DEF N
    <3> QED BY <2>3, Zenon
  <2> HIDE DEF N, run
  <2> QED BY <2>1, <2>4 DEF IsRunning
<1>5. CalculateShares(amount, list) =
        [i \in 1 .. N |-> IF i = N THEN amount - run[i - 1]
                          ELSE FlooredShare(amount, list, i)]
  <2>1. ~(list = <<>> \/ amount <= 0)
    OBVIOUS
  <2>2. DOMAIN list = 1 .. N
    BY <1>1
  <2> QED BY <2>1, <2>2, Zenon DEF CalculateShares
<1> HIDE DEF run
<1>6. run[N - 1] = SumFunction([i \in 1 .. N - 1 |-> f[i]])
  <2>1. N - 1 \in 0 .. N /\ N \in Nat
    <3>1. N \in Nat \ {0}
      BY <1>1
    <3> HIDE DEF N
    <3> QED BY <3>1
  <2> HIDE DEF N
  <2>2. \A n \in 0 .. N : run[n] = SumFunction([i \in 1 .. n |-> f[i]])
    BY <1>3, <1>4, <2>1, RunningTotal
  <2> QED BY <2>1, <2>2
<1>7. [i \in 1 .. N - 1 |-> f[i]] = floor
  <2>1. \A i \in 1 .. N - 1 : i \in 1 .. N /\ f[i] = CalculateShare(amount, list[i].percentage)
    BY <1>1, <1>2 DEF FlooredShare, CalculateShare
  <2> QED BY <2>1
<1>8. DistributeAmounts(amount, list) =
        [i \in 1 .. N |-> IF i = N THEN amount - SumFunction(floor) ELSE floor[i]]
  BY <1>1 DEF DistributeAmounts
<1>9. \A i \in 1 .. N : i # N => i \in 1 .. N - 1
  <2>1. N \in Nat \ {0}
    BY <1>1
  <2> HIDE DEF N
  <2> QED BY <2>1
<1>10. \A i \in 1 .. N : i # N => floor[i] = FlooredShare(amount, list, i)
  BY <1>9 DEF FlooredShare, CalculateShare
<1> HIDE DEF floor, N
<1> QED BY <1>5, <1>6, <1>7, <1>8, <1>10

-----------------------------------------------------------------------------
(* Splitting the whole evenly, and scaling the split to the room there is. *)

LEMMA SumParts ==
    ASSUME NEW S, IsFiniteSet(S), NEW f \in [S -> Int], NEW V \in SUBSET S
    PROVE  SumFunction(f) = SumFunction(Restrict(f, V)) + SumFunction(Restrict(f, S \ V))
<1> DEFINE g == [x \in S |-> IF x \in V THEN f[x] ELSE 0]
           h == [x \in S |-> IF x \in S \ V THEN f[x] ELSE 0]
<1>1. /\ g \in [S -> Int] /\ h \in [S -> Int]
      /\ \A x \in S : f[x] = g[x] + h[x]
      /\ \A x \in S \ V : g[x] = 0
      /\ \A x \in S \ (S \ V) : h[x] = 0
  OBVIOUS
<1>2. Restrict(g, V) = Restrict(f, V) /\ Restrict(h, S \ V) = Restrict(f, S \ V)
  BY DEF Restrict
<1> HIDE DEF g, h
<1>3. SumFunction(f) = SumFunction(g) + SumFunction(h)
  BY <1>1, SumAdd
<1>4. SumFunction(g) = SumFunction(Restrict(g, V))
  BY <1>1, SumSupport
<1>5. SumFunction(h) = SumFunction(Restrict(h, S \ V))
  BY <1>1, SumSupport
<1> QED BY <1>2, <1>3, <1>4, <1>5

\* One each for the last of a list.
LEMMA LastOnes ==
    ASSUME NEW n \in Nat, NEW r \in 0 .. n
    PROVE  SumFunction([k \in 1 .. n |-> IF k > n - r THEN 1 ELSE 0]) = r
<1> DEFINE f == [k \in 1 .. n |-> IF k > n - r THEN 1 ELSE 0]
           V == n - r + 1 .. n
<1>1. f \in [1 .. n -> Int] /\ V \in SUBSET (1 .. n)
  OBVIOUS
<1>2. \A k \in (1 .. n) \ V : f[k] = 0
  OBVIOUS
<1>3. Restrict(f, V) = [k \in V |-> 1]
  <2>1. \A k \in V : k \in 1 .. n /\ k > n - r
    OBVIOUS
  <2>2. \A k \in V : f[k] = 1
    BY <2>1
  <2> HIDE DEF f, V
  <2> QED BY <2>2 DEF Restrict
<1>4. IsFiniteSet(V) /\ Cardinality(V) = r
  <2>1. n - r + 1 \in Int /\ n \in Int
    OBVIOUS
  <2>2. /\ IsFiniteSet(V)
        /\ Cardinality(V) = IF n - r + 1 > n THEN 0 ELSE n - (n - r + 1) + 1
    BY <2>1, FS_Interval
  <2> HIDE DEF V
  <2> QED BY <2>2
<1>5. SumFunction([k \in V |-> 1]) = 1 * Cardinality(V)
  <2>1. 1 \in Int
    OBVIOUS
  <2> HIDE DEF V
  <2> QED BY <2>1, <1>4, SumOfConstant
<1>6. SumFunction(f) = SumFunction(Restrict(f, V))
  <2>1. IsFiniteSet(1 .. n)
    BY FiniteFrom1
  <2> HIDE DEF f, V
  <2> QED BY <2>1, <1>1, <1>2, SumSupport
<1> QED BY <1>3, <1>4, <1>5, <1>6

LEMMA EvenSplitIsWhole ==
    ASSUME NEW n \in Nat \ {0}
    PROVE  /\ EvenSplit(n) \in [1 .. n -> Nat]
           /\ SumFunction(EvenSplit(n)) = Total
           /\ \A k, m \in 1 .. n : EvenSplit(n)[k] <= EvenSplit(n)[m] + 1
<1> DEFINE q == Total \div n
           r == Total % n
           const == [k \in 1 .. n |-> q]
           ones == [k \in 1 .. n |-> IF k > n - r THEN 1 ELSE 0]
           e == EvenSplit(n)
<1>1. q \in Nat /\ r \in 0 .. n /\ q * n + r = Total
  BY SharesAssumption
<1>2. e = [k \in 1 .. n |-> q + (IF k > n - r THEN 1 ELSE 0)]
  BY DEF EvenSplit
<1> HIDE DEF q, r, e
<1>3. /\ e \in [1 .. n -> Nat] /\ const \in [1 .. n -> Int] /\ ones \in [1 .. n -> Int]
      /\ \A k \in 1 .. n : e[k] = const[k] + ones[k]
      /\ \A k, m \in 1 .. n : e[k] <= e[m] + 1
  BY <1>1, <1>2
<1>4. IsFiniteSet(1 .. n) /\ Cardinality(1 .. n) = n
  <2>1. 1 \in Int /\ n \in Int
    OBVIOUS
  <2>2. /\ IsFiniteSet(1 .. n)
        /\ Cardinality(1 .. n) = IF 1 > n THEN 0 ELSE n - 1 + 1
    BY <2>1, FS_Interval
  <2> QED BY <2>2
<1>5. SumFunction(const) = q * n
  <2>1. q \in Int
    BY <1>1
  <2>2. SumFunction(const) = q * Cardinality(1 .. n)
    BY <2>1, <1>4, SumOfConstant
  <2> QED BY <2>2, <1>4
<1>6. SumFunction(ones) = r
  BY <1>1, LastOnes
<1>7. SumFunction(e) = SumFunction(const) + SumFunction(ones)
  <2> HIDE DEF const, ones
  <2> DEFINE S == 1 .. n
  <2>1. /\ e \in [S -> Int] /\ const \in [S -> Int] /\ ones \in [S -> Int]
        /\ \A k \in S : e[k] = const[k] + ones[k]
        /\ IsFiniteSet(S)
    BY <1>3, <1>4
  <2> HIDE DEF S
  <2> QED BY <2>1, SumAdd
<1> QED BY <1>1, <1>3, <1>5, <1>6, <1>7 DEF e

LEMMA ScaledSplitFillsRoom ==
    ASSUME NEW n \in Nat \ {0}, NEW room \in Nat, room <= Total
    PROVE  /\ ScaledSplit(n, room) \in [1 .. n -> Nat]
           /\ SumFunction(ScaledSplit(n, room)) = room
           /\ \A k, m \in 1 .. n : ScaledSplit(n, room)[k] <= ScaledSplit(n, room)[m] + 2
<1> DEFINE e == EvenSplit(n)
           S == 1 .. n
           floored == [k \in S |-> (e[k] * room) \div Total]
           F == SumFunction(floored)
           rest == room - F
           ones == [k \in S |-> IF k > n - rest THEN 1 ELSE 0]
           s == ScaledSplit(n, room)
           scaled == [k \in S |-> room * e[k]]
           below == [k \in S |-> Total * floored[k]]
           const == [k \in S |-> Total]
           above == [k \in S |-> below[k] + const[k]]
<1>1. /\ e \in [S -> Nat] /\ SumFunction(e) = Total
      /\ \A k, m \in S : e[k] <= e[m] + 1
  BY EvenSplitIsWhole
<1>t. Total \in Nat \ {0}
  BY SharesAssumption
<1>2. IsFiniteSet(S) /\ Cardinality(S) = n
  <2>1. 1 \in Int /\ n \in Int
    OBVIOUS
  <2>2. /\ IsFiniteSet(S)
        /\ Cardinality(S) = IF 1 > n THEN 0 ELSE n - 1 + 1
    BY <2>1, FS_Interval
  <2> QED BY <2>2
<1>3. s = [k \in S |-> floored[k] + (IF k > n - rest THEN 1 ELSE 0)]
  BY DEF ScaledSplit
<1> HIDE DEF e, s
<1>4. ASSUME NEW k \in S
      PROVE  /\ e[k] * room \in Nat /\ floored[k] \in Nat
             /\ floored[k] * Total <= e[k] * room
             /\ e[k] * room < floored[k] * Total + Total
  <2>1. e[k] \in Nat
    BY <1>1
  <2>2. e[k] * room \in Nat
    BY <2>1
  <2>3. floored[k] = (e[k] * room) \div Total
    OBVIOUS
  <2> HIDE DEF floored
  <2> QED BY <1>t, <2>2, <2>3, FloorDivision
<1>5. floored \in [S -> Int] /\ e \in [S -> Int]
  BY <1>1, <1>4
<1> HIDE DEF floored, S
<1>6. F \in Int
  BY <1>2, <1>5, SumType
<1>7. SumFunction(scaled) = room * Total
  <2>1. room \in Int
    OBVIOUS
  <2>2. SumFunction(scaled) = room * SumFunction(e)
    BY <2>1, <1>2, <1>5, SumScale
  <2> QED BY <1>1, <2>2
<1>8. SumFunction(below) = Total * F
  <2>1. Total \in Int
    BY <1>t
  <2> QED BY <2>1, <1>2, <1>5, SumScale
<1>9. SumFunction(const) = Total * n
  <2>1. Total \in Int
    BY <1>t
  <2>2. SumFunction(const) = Total * Cardinality(S)
    BY <2>1, <1>2, SumOfConstant
  <2> QED BY <2>2, <1>2
<1>10. ASSUME NEW k \in S PROVE below[k] <= scaled[k] /\ scaled[k] <= above[k]
  <2>1. /\ e[k] \in Int /\ floored[k] \in Int /\ room \in Int /\ Total \in Int
    BY <1>t, <1>5
  <2>2. room * e[k] = e[k] * room /\ Total * floored[k] = floored[k] * Total
    BY <2>1
  <2>3. e[k] * room \in Int /\ floored[k] * Total \in Int
    BY <2>1
  <2>4. /\ below[k] = floored[k] * Total /\ scaled[k] = e[k] * room
        /\ above[k] = floored[k] * Total + Total
    BY <2>2
  <2> HIDE DEF below, scaled, above
  <2> QED BY <1>4, <1>t, <2>3, <2>4
<1>11. /\ scaled \in [S -> Int] /\ below \in [S -> Int] /\ const \in [S -> Int]
       /\ above \in [S -> Int]
  BY <1>t, <1>5
<1>12. SumFunction(above) = SumFunction(below) + SumFunction(const)
  <2>1. \A k \in S : above[k] = below[k] + const[k]
    OBVIOUS
  <2> HIDE DEF above, below, const
  <2> QED BY <1>2, <1>11, <2>1, SumAdd
<1>13. Total * F <= room * Total /\ room * Total <= Total * F + Total * n
  <2> HIDE DEF above, below, const, scaled, F
  <2>1. SumFunction(below) <= SumFunction(scaled)
    BY <1>2, <1>10, <1>11, SumAtMost
  <2>2. SumFunction(scaled) <= SumFunction(above)
    BY <1>2, <1>10, <1>11, SumAtMost
  <2> QED BY <2>1, <2>2, <1>7, <1>8, <1>9, <1>12
<1>14. F <= room /\ room <= F + n
  <2> HIDE DEF F
  <2>1. Total * F = F * Total /\ Total * F + Total * n = (F + n) * Total
    <3>1. Total \in Int /\ n \in Int
      BY <1>t
    <3>2. Total * F + Total * n = Total * (F + n)
      BY <1>6, <3>1, Distributes
    <3>3. \A a, b \in Int : a * b = b * a
      OBVIOUS
    <3>4. F + n \in Int
      BY <1>6, <3>1
    <3> QED BY <1>6, <3>1, <3>2, <3>3, <3>4
  <2>2. F * Total <= room * Total /\ room * Total <= (F + n) * Total
    BY <1>13, <2>1
  <2>3. F + n \in Int /\ room \in Int
    BY <1>6
  <2> QED BY <2>2, <2>3, <1>6, <1>t, OrderTimes
<1>15. rest \in 0 .. n
  <2> HIDE DEF F
  <2> QED BY <1>6, <1>14
<1>16. SumFunction(ones) = rest
  <2> HIDE DEF rest
  <2> QED BY <1>15, LastOnes DEF S
<1>17. /\ s \in [S -> Nat] /\ ones \in [S -> Int]
       /\ \A k \in S : s[k] = floored[k] + ones[k]
       /\ \A k \in S : floored[k] <= s[k] /\ s[k] <= floored[k] + 1
  <2> HIDE DEF rest
  <2> QED BY <1>3, <1>4
<1>18. SumFunction(s) = room
  <2>1. s \in [S -> Int]
    BY <1>17
  <2> HIDE DEF ones
  <2>2. SumFunction(s) = F + SumFunction(ones)
    BY <2>1, <1>2, <1>5, <1>17, SumAdd
  <2> HIDE DEF F
  <2> QED BY <2>2, <1>6, <1>16
<1>19. ASSUME NEW k \in S, NEW m \in S PROVE floored[k] <= floored[m] + 1
  <2>1. /\ e[k] \in Nat /\ e[m] \in Nat /\ e[k] <= e[m] + 1
        /\ floored[k] \in Int /\ floored[m] \in Int
    BY <1>1, <1>5
  <2>2. e[k] * room <= (e[m] + 1) * room
    <3>1. room = 0 \/ room \in Nat \ {0}
      OBVIOUS
    <3>2. CASE room = 0
      BY <2>1, <3>2
    <3>3. CASE room \in Nat \ {0}
      BY <2>1, <3>3, OrderTimes
    <3> QED BY <3>1, <3>2, <3>3
  <2>3. (e[m] + 1) * room = e[m] * room + 1 * room
    BY <2>1, Distributes
  <2>4. /\ floored[k] * Total <= e[k] * room
        /\ e[m] * room < floored[m] * Total + Total
    BY <1>4
  <2>5. (floored[m] + 1) * Total = floored[m] * Total + 1 * Total
        /\ ((floored[m] + 1) + 1) * Total = (floored[m] + 1) * Total + 1 * Total
    BY <2>1, <1>t, Distributes
  <2>6. floored[k] * Total < ((floored[m] + 1) + 1) * Total
    <3> DEFINE x == e[k] * room
               y == e[m] * room
               u == floored[k] * Total
               v == floored[m] * Total
               z == (e[m] + 1) * room
               w == (floored[m] + 1) * Total
               ww == ((floored[m] + 1) + 1) * Total
    <3>1. x \in Int /\ y \in Int /\ u \in Int /\ v \in Int /\ z \in Int /\ w \in Int /\ ww \in Int
      BY <2>1, <1>t
    <3>2. x <= z /\ z = y + room /\ u <= x /\ y < v + Total /\ w = v + Total /\ ww = w + Total
      BY <2>2, <2>3, <2>4, <2>5, <1>t
    <3> HIDE DEF x, y, u, v, z, w, ww
    <3>3. u < ww
      BY <3>1, <3>2, <1>t
    <3> QED BY <3>3 DEF u, ww
  <2>7. floored[k] < (floored[m] + 1) + 1
    <3>1. (floored[m] + 1) + 1 \in Int
      BY <2>1
    <3> QED BY <2>1, <2>6, <3>1, <1>t, OrderTimes
  <2> QED BY <2>1, <2>7
<1>20. \A k, m \in S : s[k] <= s[m] + 2
  <2> SUFFICES ASSUME NEW k \in S, NEW m \in S PROVE s[k] <= s[m] + 2
    OBVIOUS
  <2>1. /\ s[k] \in Nat /\ s[m] \in Nat /\ floored[k] \in Int /\ floored[m] \in Int
        /\ floored[m] <= s[m] /\ s[k] <= floored[k] + 1 /\ floored[k] <= floored[m] + 1
    BY <1>5, <1>17, <1>19
  <2> QED BY <2>1
<1> HIDE DEF F, rest, ones
<1> QED BY <1>17, <1>18, <1>20 DEF s, S

IsRank(rank, U) == rank = [i \in U |-> Cardinality({j \in U : j <= i})]

\* The unlocked rows, counted from the first on.
LEMMA RanksCount ==
    ASSUME NEW N \in Nat, NEW U \in SUBSET (1 .. N),
           NEW rank, IsRank(rank, U)
    PROVE  /\ IsFiniteSet(U) /\ Cardinality(U) \in Nat
           /\ rank \in [U -> 1 .. Cardinality(U)]
           /\ \A i, j \in U : rank[i] = rank[j] => i = j
           /\ {rank[i] : i \in U} = 1 .. Cardinality(U)
<1> DEFINE n == Cardinality(U)
           upto(i) == {j \in U : j <= i}
<1>1. IsFiniteSet(U) /\ n \in Nat
  <2>1. IsFiniteSet(U)
    BY FiniteFrom1, FS_Subset
  <2> QED BY <2>1, FS_CardinalityType
<1>2. ASSUME NEW i \in U
      PROVE  /\ rank[i] = Cardinality(upto(i)) /\ IsFiniteSet(upto(i))
             /\ rank[i] \in 1 .. n
  <2>1. upto(i) \in SUBSET U /\ i \in upto(i)
    OBVIOUS
  <2>2. IsFiniteSet(upto(i)) /\ Cardinality(upto(i)) <= n /\ Cardinality(upto(i)) \in Nat
    <3> HIDE DEF upto
    <3> QED BY <1>1, <2>1, FS_Subset, FS_CardinalityType
  <2>3. Cardinality(upto(i)) # 0
    <3> HIDE DEF upto
    <3> QED BY <2>1, <2>2, FS_EmptySet
  <2>4. rank[i] = Cardinality(upto(i))
    BY DEF IsRank
  <2> HIDE DEF upto, n
  <2> QED BY <1>1, <2>2, <2>3, <2>4
<1>3. ASSUME NEW i \in U, NEW j \in U, i < j PROVE rank[i] < rank[j]
  <2>1. upto(i) \in SUBSET upto(j)
    <3>1. \A k \in U : k \in Int
      OBVIOUS
    <3>2. \A k \in U : k <= i => k <= j
      BY <1>3, <3>1
    <3> QED BY <3>2
  <2>2. j \in upto(j) /\ j \notin upto(i)
    BY <1>3
  <2>3. IsFiniteSet(upto(j)) /\ IsFiniteSet(upto(i))
    BY <1>2
  <2> HIDE DEF upto
  <2>4. /\ Cardinality(upto(i)) <= Cardinality(upto(j))
        /\ Cardinality(upto(j)) = Cardinality(upto(i)) => upto(j) = upto(i)
    BY <2>1, <2>3, FS_Subset
  <2>5. Cardinality(upto(i)) \in Nat /\ Cardinality(upto(j)) \in Nat
    BY <2>3, FS_CardinalityType
  <2> QED BY <1>2, <2>2, <2>4, <2>5
<1>4. \A i, j \in U : rank[i] = rank[j] => i = j
  <2> SUFFICES ASSUME NEW i \in U, NEW j \in U, rank[i] = rank[j], i # j PROVE FALSE
    OBVIOUS
  <2>1. i < j \/ j < i
    OBVIOUS
  <2>2. rank[i] \in 1 .. n /\ rank[j] \in 1 .. n
    BY <1>2
  <2>3. rank[i] < rank[j] \/ rank[j] < rank[i]
    BY <1>3, <2>1
  <2> HIDE DEF n
  <2> QED BY <1>1, <2>2, <2>3
<1>5. rank \in [U -> 1 .. n]
  <2>1. rank = [i \in U |-> rank[i]]
    BY DEF IsRank
  <2> HIDE DEF n
  <2> QED BY <1>2, <2>1
<1>6. rank \in Injection(U, 1 .. n)
  <2> HIDE DEF n
  <2> QED BY <1>4, <1>5 DEF Injection, IsInjective
<1>7. IsFiniteSet(1 .. n) /\ Cardinality(1 .. n) = n
  <2>1. 1 \in Int /\ n \in Int
    BY <1>1
  <2>2. /\ IsFiniteSet(1 .. n)
        /\ Cardinality(1 .. n) = IF 1 > n THEN 0 ELSE n - 1 + 1
    BY <2>1, FS_Interval
  <2> HIDE DEF n
  <2> QED BY <1>1, <2>2
<1>8. rank \in Surjection(U, 1 .. n)
  BY <1>6, <1>7, FS_Injection
<1>9. {rank[i] : i \in U} = 1 .. n
  <2> HIDE DEF n
  <2> QED BY <1>5, <1>8 DEF Surjection
<1> QED BY <1>1, <1>4, <1>5, <1>9

\* What the locked rows leave of the whole.
Room(list) ==
    Total - SumFunction([i \in LockedRows(list) |-> list[i].percentage])

Unlocked(list) == DOMAIN list \ LockedRows(list)

\* The locked rows as they were, the whole allocated, the rest within two.
Completed(list, after) ==
    /\ \A i \in LockedRows(list) : after[i] = list[i]
    /\ TotalPercentage(after) = Total
    /\ \A i, j \in Unlocked(list) : after[i].percentage <= after[j].percentage + 2

\* rebalanceAllocation: with room left by the locked rows, the whole is
\* allocated; without, the unlocked rows get nothing.
LEMMA RebalancedRows ==
    ASSUME NEW list \in Seq(FormRow)
    PROVE  /\ Rebalanced(list) \in Seq(FormRow)
           /\ Unlocked(list) # {} /\ Room(list) > 0 => Completed(list, Rebalanced(list))
<1> DEFINE N == Len(list)
           L == LockedRows(list)
           U == DOMAIN list \ L
           n == Cardinality(U)
           rank == [i \in U |-> Cardinality({j \in U : j <= i})]
           locked == [i \in L |-> list[i].percentage]
           room == Total - SumFunction(locked)
           split == ScaledSplit(n, room)
           after == Rebalanced(list)
<1>1. /\ N \in Nat /\ DOMAIN list = 1 .. N
      /\ \A i \in 1 .. N : list[i] \in FormRow /\ list[i].percentage \in Nat
  BY RowFields
<1>2. /\ L \in SUBSET (1 .. N) /\ U = (1 .. N) \ L /\ U \in SUBSET (1 .. N)
      /\ \A i \in 1 .. N : list[i].locked <=> i \in L
  BY <1>1 DEF LockedRows
<1>3. /\ IsFiniteSet(U) /\ n \in Nat /\ rank \in [U -> 1 .. n]
      /\ \A i, j \in U : rank[i] = rank[j] => i = j
      /\ {rank[i] : i \in U} = 1 .. n
  <2>1. IsRank(rank, U)
    BY DEF IsRank
  <2>2. N \in Nat /\ U \in SUBSET (1 .. N)
    BY <1>1, <1>2
  <2> HIDE DEF N, U, rank
  <2> QED BY <2>1, <2>2, RanksCount
<1>4. IsFiniteSet(1 .. N) /\ IsFiniteSet(L)
  <2> HIDE DEF N, L
  <2> QED BY <1>1, <1>2, FiniteFrom1, FS_Subset
<1>5. locked \in [L -> Nat]
  BY <1>1, <1>2
<1>6. SumFunction(locked) \in Nat
  <2> HIDE DEF locked, L
  <2> QED BY <1>4, <1>5, SumNonNegative
<1>7. room \in Int /\ room <= Total
  <2> HIDE DEF locked
  <2> QED BY <1>6, SharesAssumption
<1>8. U # {} => n # 0
  <2> HIDE DEF U
  <2> QED BY <1>3, FS_EmptySet
<1>9. after = IF U = {} THEN list
              ELSE [i \in DOMAIN list |->
                     IF list[i].locked THEN list[i]
                     ELSE [list[i] EXCEPT !.percentage =
                             IF room <= 0 THEN 0
                             ELSE split[Cardinality({j \in U : j <= i})]]]
  BY DEF Rebalanced
<1>10. U # {} => after =
            [i \in 1 .. N |->
                IF i \in L THEN list[i]
                ELSE [list[i] EXCEPT !.percentage =
                        IF room <= 0 THEN 0 ELSE split[rank[i]]]]
  <2> SUFFICES ASSUME U # {}
               PROVE  after = [i \in 1 .. N |->
                        IF i \in L THEN list[i]
                        ELSE [list[i] EXCEPT !.percentage =
                                IF room <= 0 THEN 0 ELSE split[rank[i]]]]
    OBVIOUS
  <2>1. \A i \in 1 .. N : i \notin L => Cardinality({j \in U : j <= i}) = rank[i]
    BY <1>2
  <2>2. after = [i \in 1 .. N |->
                     IF list[i].locked THEN list[i]
                     ELSE [list[i] EXCEPT !.percentage =
                             IF room <= 0 THEN 0
                             ELSE split[Cardinality({j \in U : j <= i})]]]
    <3> HIDE DEF after, L, U, room, split, N
    <3> QED BY <1>1, <1>9
  <2> HIDE DEF after, L, U, rank, room, split, N
  <2> QED BY <1>2, <2>1, <2>2
<1> HIDE DEF after
<1>11. n # 0 /\ room > 0 =>
         /\ split \in [1 .. n -> Nat] /\ SumFunction(split) = room
         /\ \A k, m \in 1 .. n : split[k] <= split[m] + 2
  <2> HIDE DEF room, n
  <2> QED BY <1>3, <1>7, ScaledSplitFillsRoom
<1> HIDE DEF rank, split, room
<1>12. U # {} => \A i \in 1 .. N :
         /\ after[i] \in FormRow
         /\ i \in L => after[i] = list[i]
         /\ i \in U => after[i].percentage = IF room <= 0 THEN 0 ELSE split[rank[i]]
  <2> SUFFICES ASSUME U # {}, NEW i \in 1 .. N
               PROVE  /\ after[i] \in FormRow
                      /\ i \in L => after[i] = list[i]
                      /\ i \in U => after[i].percentage =
                            IF room <= 0 THEN 0 ELSE split[rank[i]]
    OBVIOUS
  <2>1. CASE i \in L
    <3>1. i \notin U
      BY <2>1
    <3> HIDE DEF U, L, N
    <3> QED BY <1>1, <1>10, <2>1, <3>1
  <2>2. CASE i \notin L
    <3>1. i \in U
      BY <1>2, <2>2
    <3> DEFINE p == IF room <= 0 THEN 0 ELSE split[rank[i]]
    <3>2. p \in Nat
      <4>1. n # 0 /\ rank[i] \in 1 .. n
        <5> HIDE DEF U, n
        <5> QED BY <1>3, <1>8, <3>1
      <4>2. CASE room <= 0
        BY <4>2
      <4>3. CASE room > 0
        <5> HIDE DEF n
        <5> QED BY <1>7, <1>11, <4>1, <4>3
      <4> QED BY <1>7, <4>2, <4>3
    <3>3. after[i] = [list[i] EXCEPT !.percentage = p]
      <4> HIDE DEF U, L, N
      <4> QED BY <1>10, <2>2
    <3>4. list[i] \in FormRow
      BY <1>1
    <3> HIDE DEF p
    <3>5. after[i] \in FormRow /\ after[i].percentage = p
      BY <3>2, <3>3, <3>4 DEF FormRow
    <3> QED BY <2>2, <3>5 DEF p
  <2> QED BY <2>1, <2>2
<1>13. after \in Seq(FormRow) /\ (U # {} => DOMAIN after = 1 .. N)
  <2>1. CASE U = {}
    <3> HIDE DEF U
    <3> QED BY <1>9, <2>1
  <2>2. CASE U # {}
    <3>1. DOMAIN after = 1 .. N
      <4> HIDE DEF U, L, N
      <4> QED BY <1>10, <2>2
    <3>2. \A i \in 1 .. N : after[i] \in FormRow
      BY <1>12, <2>2
    <3>3. after = [i \in 1 .. N |-> after[i]]
      <4> HIDE DEF U, L, N
      <4> QED BY <1>10, <2>2
    <3> HIDE DEF N
    <3>4. after \in Seq(FormRow)
      <4>1. after \in [1 .. N -> FormRow]
        BY <3>2, <3>3
      <4> QED BY <1>1, <4>1
    <3> QED BY <3>1, <3>4
  <2> QED BY <2>1, <2>2
<1>14. ASSUME U # {}, room > 0
       PROVE  /\ \A i \in L : after[i] = list[i]
              /\ TotalPercentage(after) = Total
              /\ \A i, j \in U : after[i].percentage <= after[j].percentage + 2
  <2>1. \A i \in L : after[i] = list[i]
    BY <1>2, <1>12, <1>14
  <2>2. /\ split \in [1 .. n -> Nat] /\ SumFunction(split) = room
        /\ \A k, m \in 1 .. n : split[k] <= split[m] + 2
    <3>1. n # 0
      BY <1>8, <1>14
    <3> HIDE DEF n
    <3> QED BY <1>11, <1>14, <3>1
  <2>3. \A i \in U : after[i].percentage = split[rank[i]] /\ rank[i] \in 1 .. n
    <3>1. ~(room <= 0)
      BY <1>7, <1>14
    <3> HIDE DEF N, L, n
    <3> QED BY <1>2, <1>3, <1>12, <1>14, <3>1
  <2>4. \A i, j \in U : after[i].percentage <= after[j].percentage + 2
    <3> HIDE DEF n, U
    <3> QED BY <2>2, <2>3
  <2>5. TotalPercentage(after) = Total
    <3> DEFINE p == Percentages(after)
    <3>1. /\ p \in [1 .. N -> Int] /\ \A i \in 1 .. N : p[i] = after[i].percentage
      <4>1. DOMAIN after = 1 .. N /\ Len(after) = N
        <5>1. DOMAIN after = 1 .. N /\ Len(after) \in Nat /\ DOMAIN after = 1 .. Len(after)
          BY <1>13, <1>14
        <5> HIDE DEF N
        <5> QED BY <1>1, <1>13, <5>1
      <4>2. /\ p \in [1 .. Len(after) -> Nat]
            /\ \A i \in 1 .. Len(after) : p[i] = after[i].percentage
        BY <1>13, RowFields
      <4> HIDE DEF p, N
      <4>3. p \in [1 .. N -> Nat]
        BY <4>1, <4>2
      <4> QED BY <4>1, <4>2, <4>3
    <3> HIDE DEF p
    <3>2. SumFunction(p) = SumFunction(Restrict(p, L)) + SumFunction(Restrict(p, U))
      <4> HIDE DEF N, L
      <4>1. SumFunction(p) =
              SumFunction(Restrict(p, L)) + SumFunction(Restrict(p, (1 .. N) \ L))
        BY <1>2, <1>4, <3>1, SumParts
      <4> HIDE DEF U
      <4> QED BY <1>2, <4>1
    <3>3. Restrict(p, L) = locked
      <4>1. \A i \in L : p[i] = list[i].percentage
        BY <1>2, <2>1, <3>1
      <4> HIDE DEF L
      <4> QED BY <4>1 DEF Restrict
    <3>4. SumFunction(Restrict(p, U)) = room
      <4> DEFINE g == [i \in U |-> p[i]]
      <4>1. g \in [U -> Int] /\ \A i \in U : g[i] = split[rank[i]]
        <5>1. \A i \in U : p[i] \in Int /\ p[i] = split[rank[i]]
          BY <1>2, <2>3, <3>1
        <5> HIDE DEF U
        <5> QED BY <5>1
      <4>2. split \in [1 .. n -> Int] /\ IsFiniteSet(1 .. n)
        <5> HIDE DEF n
        <5> QED BY <1>3, <2>2, FiniteFrom1
      <4>3. Restrict(p, U) = g
        BY DEF Restrict
      <4> HIDE DEF g, U, n
      <4>4. SumFunction(g) = SumFunction(Restrict(split, {rank[i] : i \in U}))
        <5> DEFINE S == 1 .. n
        <5>1. /\ rank \in [U -> S] /\ split \in [S -> Int] /\ IsFiniteSet(S)
              /\ IsFiniteSet(U) /\ g \in [U -> Int]
              /\ \A i, j \in U : rank[i] = rank[j] => i = j
              /\ \A i \in U : g[i] = split[rank[i]]
          BY <1>3, <4>1, <4>2
        <5> HIDE DEF S
        <5> QED BY <5>1, SumImage
      <4>5. Restrict(split, {rank[i] : i \in U}) = split
        BY <1>3, <4>2, WholeAndEmpty
      <4> QED BY <2>2, <4>3, <4>4, <4>5
    <3>5. SumFunction(locked) + room = Total
      <4> HIDE DEF locked
      <4> QED BY <1>6, SharesAssumption DEF room
    <3> HIDE DEF locked, L, U
    <3> QED BY <3>2, <3>3, <3>4, <3>5 DEF p, TotalPercentage
  <2> QED BY <2>1, <2>4, <2>5
<1>15. U # {} /\ room > 0 => Completed(list, after)
  <2>1. U = Unlocked(list)
    BY DEF Unlocked
  <2> HIDE DEF U
  <2> QED BY <1>14, <2>1 DEF Completed
<1>16. U = Unlocked(list) /\ room = Room(list) /\ after = Rebalanced(list)
  BY DEF Unlocked, Room, room, after
<1> HIDE DEF U
<1> QED BY <1>13, <1>15, <1>16

FormType == form \in Seq(FormRow)

\* Replacing the percentage of a row, or its lock, leaves a form.
LEMMA EditedRow ==
    ASSUME NEW r \in FormRow, NEW p \in Nat
    PROVE  [r EXCEPT !.percentage = p] \in FormRow /\ [r EXCEPT !.locked = ~@] \in FormRow
BY DEF FormRow

LEMMA FormEdits ==
    ASSUME NEW list \in Seq(FormRow), NEW i \in DOMAIN list
    PROVE  /\ Append(list, [percentage |-> 0, locked |-> FALSE]) \in Seq(FormRow)
           /\ RemoveAt(list, i) \in Seq(FormRow)
           /\ \A p \in Nat : [list EXCEPT ![i].percentage = p] \in Seq(FormRow)
           /\ [list EXCEPT ![i].locked = ~@] \in Seq(FormRow)
<1> DEFINE N == Len(list)
<1>1. N \in Nat /\ DOMAIN list = 1 .. N /\ i \in 1 .. N /\ list \in [1 .. N -> FormRow]
  OBVIOUS
<1>2. Append(list, [percentage |-> 0, locked |-> FALSE]) \in Seq(FormRow)
  <2>1. [percentage |-> 0, locked |-> FALSE] \in FormRow
    BY DEF FormRow
  <2> QED BY <2>1
<1>3. RemoveAt(list, i) \in Seq(FormRow)
  <2>1. /\ SubSeq(list, 1, i - 1) \in Seq(FormRow)
        /\ SubSeq(list, i + 1, Len(list)) \in Seq(FormRow)
    BY <1>1
  <2> QED BY <2>1 DEF RemoveAt
<1>4. ASSUME NEW r \in FormRow PROVE [list EXCEPT ![i] = r] \in Seq(FormRow)
  <2>1. [list EXCEPT ![i] = r] \in [1 .. N -> FormRow]
    BY <1>1
  <2> QED BY <1>1, <2>1
<1>5. list[i] \in FormRow
  BY <1>1
<1>6. \A p \in Nat : [list EXCEPT ![i].percentage = p] \in Seq(FormRow)
  <2> SUFFICES ASSUME NEW p \in Nat
               PROVE  [list EXCEPT ![i].percentage = p] \in Seq(FormRow)
    OBVIOUS
  <2>1. [list EXCEPT ![i].percentage = p] = [list EXCEPT ![i] = [list[i] EXCEPT !.percentage = p]]
    OBVIOUS
  <2> QED BY <1>4, <1>5, <2>1, EditedRow
<1>7. [list EXCEPT ![i].locked = ~@] \in Seq(FormRow)
  <2>1. [list EXCEPT ![i].locked = ~@] = [list EXCEPT ![i] = [list[i] EXCEPT !.locked = ~@]]
    OBVIOUS
  <2> QED BY <1>4, <1>5, <2>1, EditedRow
<1> QED BY <1>2, <1>3, <1>6, <1>7

\* Split evenly is an edit of every row.
LEMMA SplitIsForm ==
    ASSUME form \in Seq(FormRow), form # <<>>
    PROVE  SplitRows \in Seq(FormRow)
<1> DEFINE N == Len(form)
           split == EvenSplit(N)
<1>1. N \in Nat \ {0} /\ DOMAIN form = 1 .. N /\ \A i \in 1 .. N : form[i] \in FormRow
  OBVIOUS
<1>2. split \in [1 .. N -> Nat]
  <2>1. N \in Nat \ {0}
    BY <1>1
  <2> HIDE DEF N
  <2> QED BY <2>1, EvenSplitIsWhole
<1>3. SplitRows = [i \in 1 .. N |-> [form[i] EXCEPT !.percentage = split[i]]]
  BY <1>1 DEF SplitRows
<1> HIDE DEF split, N
<1>4. \A i \in 1 .. N : [form[i] EXCEPT !.percentage = split[i]] \in FormRow
  <2>1. \A i \in 1 .. N : form[i] \in FormRow /\ split[i] \in Nat
    BY <1>1, <1>2
  <2> QED BY <2>1, EditedRow
<1>5. SplitRows \in [1 .. N -> FormRow]
  BY <1>3, <1>4
<1> QED BY <1>1, <1>5

\* Every row of the form keeps a natural number of basis points and a lock.
LEMMA FormTyped == AllocationSpec => []FormType
<1>1. InitAllocation => FormType
  BY DEF InitAllocation, FormType
<1>2. FormType /\ [NextAllocation]_form => FormType'
  <2> SUFFICES ASSUME FormType, [NextAllocation]_form PROVE FormType'
    OBVIOUS
  <2> USE DEF FormType
  <2>1. CASE AddRow
    <3>1. [percentage |-> 0, locked |-> FALSE] \in FormRow
      BY DEF FormRow
    <3> QED BY <2>1, <3>1 DEF AddRow
  <2>2. CASE SplitEvenly
    BY <2>2, SplitIsForm DEF SplitEvenly
  <2>3. CASE RebalanceUnlocked
    BY <2>3, RebalancedRows DEF RebalanceUnlocked
  <2>4. ASSUME NEW i \in DOMAIN form, RemoveRow(i) PROVE FormType'
    BY <2>4, FormEdits DEF RemoveRow
  <2>5. ASSUME NEW i \in DOMAIN form, ToggleLock(i) PROVE FormType'
    BY <2>5, FormEdits DEF ToggleLock
  <2>6. ASSUME NEW i \in DOMAIN form, NEW n \in 0 .. MaxEntered, EnterBasisPoints(i, n)
        PROVE  FormType'
    <3>1. n \in Nat
      OBVIOUS
    <3> QED BY <2>6, <3>1, FormEdits DEF EnterBasisPoints
  <2>7. CASE UNCHANGED form
    BY <2>7
  <2> QED BY <2>1, <2>2, <2>3, <2>4, <2>5, <2>6, <2>7 DEF NextAllocation
<1> QED BY <1>1, <1>2, PTL DEF AllocationSpec

\* What the preview shows is what the contract pays: an allocation that the
\* form lets pass is one that the contract accepts, and for every amount
\* the running total of calculateShares ends with the remainder that
\* distribute gives its last member.
THEOREM PreviewsAreRight == AllocationSpec => []PreviewMatchesContract
<1>1. FormType => PreviewMatchesContract
  <2> SUFFICES ASSUME FormType, ValidAllocation(form)
               PROVE  /\ ValidPercentages(form)
                      /\ \A amount \in 1 .. MaxSample :
                           Preview(amount) = DistributeAmounts(amount, form)
    BY DEF PreviewMatchesContract
  <2>1. form \in Seq(FormRow) /\ form # <<>>
    BY DEF FormType, ValidAllocation
  <2>2. ValidPercentages(form)
    <3>1. \A i \in DOMAIN form : form[i].percentage # 0
      <4>1. \A i \in DOMAIN form : form[i].percentage > 0
        BY DEF ValidAllocation
      <4> QED BY <4>1
    <3>2. TotalPercentage(form) = Total
      <4>1. TotalPercentage(form) \in Int
        <5>1. /\ Len(form) \in Nat
              /\ Percentages(form) \in [1 .. Len(form) -> Nat]
          BY <2>1, RowFields
        <5>2. Percentages(form) \in [1 .. Len(form) -> Int] /\ IsFiniteSet(1 .. Len(form))
          BY <5>1, FiniteFrom1
        <5> DEFINE S == 1 .. Len(form)
        <5> HIDE DEF S
        <5>3. Percentages(form) \in [S -> Int] /\ IsFiniteSet(S)
          BY <5>2 DEF S
        <5> QED BY <5>3, SumType DEF TotalPercentage
      <4>2. Total - TotalPercentage(form) = 0
        BY DEF ValidAllocation, Remaining
      <4> QED BY <4>1, <4>2, SharesAssumption
    <3> QED BY <2>1, <3>1, <3>2 DEF ValidPercentages
  <2>3. ASSUME NEW amount \in 1 .. MaxSample
        PROVE  Preview(amount) = DistributeAmounts(amount, form)
    <3>1. amount \in Nat /\ amount > 0
      OBVIOUS
    <3>2. Preview(amount) = CalculateShares(amount, form)
      BY <3>1, Zenon DEF Preview
    <3> QED BY <2>1, <3>1, <3>2, PreviewIsPayout
  <2> QED BY <2>2, <2>3
<1> QED BY <1>1, FormTyped, PTL

\* A rebalance of a form whose locked rows leave room completes it, whatever
\* was entered, locked, split or removed before: the floors of the scaled
\* split fall short of the room by no more than the number of unlocked rows,
\* so one unit each for the last of them makes it up.
THEOREM RebalancesComplete == AllocationSpec => []RebalanceCompletes
<1>1. FormType => RebalanceCompletes
  <2> SUFFICES ASSUME FormType PROVE RebalanceCompletes
    OBVIOUS
  <2>1. Unlocked(form) # {} /\ Room(form) > 0 => Completed(form, Rebalanced(form))
    BY RebalancedRows DEF FormType
  <2> QED BY <2>1 DEF RebalanceCompletes, Completed, Unlocked, Room
<1> QED BY <1>1, FormTyped, PTL

=============================================================================
