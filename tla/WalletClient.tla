---- MODULE WalletClient ----
(***************************************************************************)
(* The signed-in state of one page load of the frontend: the wallet        *)
(* context (contexts/WalletContext.tsx), the login with the Freighter      *)
(* extension (lib/auth/auth.ts, lib/wallet/freighter.ts), the access token *)
(* of the API client (lib/api/client.ts) and its silent refresh            *)
(* (lib/auth/refresh.ts).  The extension and the server are external: the  *)
(* user switches account or network at any time, a call may fail, and an   *)
(* access token is stood for by the account it was issued to.              *)
(***************************************************************************)
EXTENDS Naturals, FiniteSets

CONSTANTS Account,   \* accounts of the extension
          NoAccount, \* no token, no cookie, no address
          Attempt,   \* calls of connect
          Refresh    \* calls of refreshAccessToken

ASSUME WalletAssumption == NoAccount \notin Account

VARIABLES
  extension,     \* [account, expected]: expected = on the expected network
  status,        \* disconnected | connecting | connected | error
  shown,         \* the address of the connected status
  token,         \* accessToken: whose it is
  cookie,        \* the refresh token's cookie: whose session
  attempt,       \* attempt[c] = [at, account]: where connect c awaits
  timer,         \* a refresh is scheduled
  refreshPromise,\* the call that others wait for, or {}
  flights,       \* flights[f]: the session refresh call f was sent with
  abandoned,     \* history: refresh state was reset during a refresh
  mixed          \* history: the extension changed during a connect, or
                 \* while a refresh is due that no connected status shows

walletVars == <<extension, status, shown, token, cookie, attempt, timer,
                refreshPromise, flights, abandoned, mixed>>

Idle == [at |-> "idle", account |-> NoAccount]
Connecting == {c \in Attempt : attempt[c].at # "idle"}
InFlight == {f \in Refresh : flights[f] # NoAccount}

WalletInit ==
  /\ extension \in [account : Account, expected : BOOLEAN]
  /\ status = "disconnected" /\ shown = NoAccount
  /\ token = NoAccount /\ cookie = NoAccount
  /\ attempt = [c \in Attempt |-> Idle]
  /\ timer = FALSE /\ refreshPromise = {}
  /\ flights = [f \in Refresh |-> NoAccount]
  /\ abandoned = FALSE /\ mixed = FALSE

\* Mutant: the timer is left running.
ResetButTimer ==
  /\ refreshPromise' = {} /\ token' = NoAccount
  /\ abandoned' = (abandoned \/ InFlight # {})
  /\ UNCHANGED timer

\* The call in flight is forgotten, not aborted.
ResetRefreshState ==
  /\ timer' = FALSE /\ refreshPromise' = {} /\ token' = NoAccount
  /\ abandoned' = (abandoned \/ InFlight # {})

(***************************************************************************)
(* Connecting.  The button is there until the status says "connecting",    *)
(* which it says only after the extension has been probed.                 *)
(***************************************************************************)

Click(c) ==
  /\ status \in {"disconnected", "error"} /\ attempt[c] = Idle
  /\ attempt' = [attempt EXCEPT ![c].at = "probe"]
  /\ LET quiet == Connecting = {} /\ InFlight = {} /\ ~timer IN
     /\ abandoned' = (abandoned /\ ~quiet)
     /\ mixed' = (mixed /\ ~quiet)
  /\ UNCHANGED <<extension, status, shown, token, cookie, timer,
                 refreshPromise, flights>>

IsAvailable(c, there) ==
  /\ attempt[c].at = "probe"
  /\ status' = IF there THEN "connecting" ELSE "error"
  /\ attempt' = [attempt EXCEPT ![c].at = IF there THEN "identify" ELSE "idle"]
  /\ UNCHANGED <<extension, shown, token, cookie, timer, refreshPromise,
                 flights, abandoned, mixed>>

\* A network mismatch, a refused signature, a failed call.
ConnectFails(c) ==
  /\ attempt[c].at \in {"identify", "verify", "reread"}
  /\ attempt' = [attempt EXCEPT ![c] = Idle]
  /\ status' = "error"
  /\ UNCHANGED <<extension, shown, token, cookie, timer, refreshPromise,
                 flights, abandoned, mixed>>

\* getAddress, getNetwork and the challenge for that address.
Identify(c) ==
  /\ attempt[c].at = "identify" /\ extension.expected
  /\ attempt' = [attempt EXCEPT ![c] = [at |-> "verify",
                                        account |-> extension.account]]
  /\ UNCHANGED <<extension, status, shown, token, cookie, timer,
                 refreshPromise, flights, abandoned, mixed>>

\* The signed challenge is accepted: verifyChallenge stores the token.
Verify(c) ==
  /\ attempt[c].at = "verify"
  /\ token' = attempt[c].account /\ cookie' = attempt[c].account
  /\ attempt' = [attempt EXCEPT ![c].at = "reread"]
  /\ UNCHANGED <<extension, status, shown, timer, refreshPromise, flights,
                 abandoned, mixed>>

\* The address and the network are asked for again, and only shown.
Connected(c) ==
  /\ attempt[c].at = "reread"
  /\ token' = attempt[c].account /\ timer' = TRUE
  /\ status' = "connected" /\ shown' = extension.account
  /\ attempt' = [attempt EXCEPT ![c] = Idle]
  /\ UNCHANGED <<extension, cookie, refreshPromise, flights, abandoned, mixed>>

Disconnect ==
  /\ status = "connected"
  /\ ResetRefreshState
  /\ status' = "disconnected" /\ shown' = NoAccount
  /\ UNCHANGED <<extension, cookie, attempt, flights, mixed>>

\* accountChanged and networkChanged are heeded while connected only.
ExtensionChanges(now) ==
  /\ extension # now /\ extension' = now
  /\ mixed' = (mixed \/ Connecting # {}
               \/ (status # "connected" /\ (timer \/ InFlight # {})))
  /\ IF status = "connected"
     THEN /\ ResetRefreshState
          /\ status' = "disconnected" /\ shown' = NoAccount
     ELSE UNCHANGED <<status, shown, token, timer, refreshPromise, abandoned>>
  /\ UNCHANGED <<cookie, attempt, flights>>

(***************************************************************************)
(* Refreshing.                                                             *)
(***************************************************************************)

\* Mutant: every timer sends a refresh of its own.
SharesNone == FALSE

\* silentRefresh: a caller that finds a promise waits for it instead.
Shares == refreshPromise # {}

TimerFires(f) ==
  /\ timer /\ timer' = FALSE
  /\ IF Shares
     THEN UNCHANGED <<refreshPromise, flights>>
     ELSE /\ flights[f] = NoAccount
          /\ flights' = [flights EXCEPT ![f] = cookie]
          /\ refreshPromise' = {f}
  /\ UNCHANGED <<extension, status, shown, token, cookie, attempt, abandoned,
                 mixed>>

\* Whichever call ends clears the promise, its own or a later call's.
Landed(f) ==
  /\ flights[f] # NoAccount
  /\ flights' = [flights EXCEPT ![f] = NoAccount]
  /\ refreshPromise' = {}

RefreshAnswers(f) ==
  /\ Landed(f)
  /\ token' = flights[f] /\ cookie' = flights[f] /\ timer' = TRUE
  /\ UNCHANGED <<extension, status, shown, attempt, abandoned, mixed>>

RefreshFails(f) ==
  /\ Landed(f)
  /\ token' = NoAccount /\ timer' = FALSE
  /\ UNCHANGED <<extension, status, shown, cookie, attempt, abandoned, mixed>>

\* A new page load keeps the cookie and nothing else.
LoadPage ==
  /\ status' = "disconnected" /\ shown' = NoAccount
  /\ token' = NoAccount /\ timer' = FALSE /\ refreshPromise' = {}
  /\ attempt' = [c \in Attempt |-> Idle]
  /\ flights' = [f \in Refresh |-> NoAccount]
  /\ abandoned' = FALSE /\ mixed' = FALSE
  /\ UNCHANGED <<extension, cookie>>

WalletNext ==
  \/ \E c \in Attempt :
       \/ Click(c) \/ ConnectFails(c) \/ Identify(c) \/ Verify(c)
       \/ Connected(c) \/ \E there \in BOOLEAN : IsAvailable(c, there)
  \/ Disconnect \/ LoadPage
  \/ \E now \in [account : Account, expected : BOOLEAN] :
       ExtensionChanges(now)
  \/ \E f \in Refresh :
       TimerFires(f) \/ RefreshAnswers(f) \/ RefreshFails(f)

WalletSpec == WalletInit /\ [][WalletNext]_walletVars

(***************************************************************************)
(* Properties.                                                             *)
(***************************************************************************)

\* The account shown is the account requests are made for, through silent
\* refreshes, failed attempts and attempts that overlap - unless the user
\* switched where the listeners do not look: while an attempt was under way,
\* or after an overlapping attempt's failure hid a sign-in that refreshes
\* still keep alive; or a refresh call outlived the sign-in it was made for.
ShownIsSignedIn ==
  status = "connected" /\ ~mixed /\ ~abandoned => token \in {NoAccount, shown}

\* At most one refresh call is under way, so that the server never sees one
\* refresh token twice (it would revoke the whole family), unless refresh
\* state was reset while a call was.
OneRefresh == abandoned \/ Cardinality(InFlight) <= 1
====
