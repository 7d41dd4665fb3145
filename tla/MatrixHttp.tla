----------------------------- MODULE MatrixHttp -----------------------------
(***************************************************************************)
(* MatrixHttp.request (http.ts): retries of ambiguous failures, and the    *)
(* refresh of a rejected access token that concurrent requests share, with *)
(* the hook of session-recovery.ts that exchanges the refresh token,       *)
(* persists the session and falls back to a password login; against a      *)
(* homeserver that loses answers and rotates tokens, and a process that    *)
(* may die at any point.                                                   *)
(*                                                                         *)
(* Credentials come in generations: generation g is an access token with   *)
(* the refresh token issued with it.                                       *)
(***************************************************************************)
EXTENDS Integers, FiniteSets

CONSTANTS
  Requests,     \* calls of request()
  Idempotent,   \* the ones made with `idempotent`
  MaxRetries,   \* maxRetries (4 in the code)
  MaxExpiries,  \* bound: how often the homeserver expires the access token
  MaxGen,       \* bound on the generations issued
  MaxRestarts   \* bound on the crashes

ASSUME HttpAssumption ==
  /\ Idempotent \subseteq Requests
  /\ MaxRetries \in Nat /\ MaxExpiries \in Nat /\ MaxGen \in Nat /\ MaxRestarts \in Nat

VARIABLES
  newest,    \* homeserver: the last generation issued
  accepted,  \* homeserver: generations whose access token it accepts
  usable,    \* homeserver: generations whose refresh token it accepts
  applied,   \* homeserver: how often each request took effect
  session,   \* session.json: the generation stored
  relogin,   \* configuration: autoRelogin with a password
  bearer,    \* MatrixHttp.accessToken
  refresh,   \* refreshInFlight
  req,       \* the requests
  expiries, restarts   \* counters for the bounds

homeserver == <<newest, accepted, usable, applied>>
httpVars == <<newest, accepted, usable, applied, session, relogin, bearer, refresh, req, expiries, restarts>>

Gens == 0..MaxGen
NoGen == -1

(* refreshInFlight: null; exchanging the refresh token; logging in again;  *)
(* holding the new credentials; a settled promise, until a timer clears it *)
NoRefresh == [pc |-> "none", gen |-> NoGen]
RefreshStates == [pc : {"none", "exchange", "login", "save", "settled"}, gen : Gens \cup {NoGen}]

(* A failure that leaves open whether the request was applied is "lost":   *)
(* a timeout, a network error, a 5xx.  "limited": a 429 with a pause the   *)
(* client honours; "refused": any other error, a 429 that asks for longer  *)
(* than MAX_HONOURED_RETRY_AFTER_MS included.                              *)
Answers == {"none", "ok", "denied", "limited", "lost", "refused"}
Pcs == {"ready", "sent", "answered", "refreshing", "backoff", "done", "failed", "authFailed"}
NewRequest == [pc |-> "ready", attempt |-> 0, refreshed |-> FALSE, token |-> NoGen, answer |-> "none"]

HttpTypeOK ==
  /\ newest \in Gens /\ accepted \subseteq 0..newest /\ usable \subseteq 0..newest
  /\ applied \in [Requests -> Nat]
  /\ session \in 0..newest /\ bearer \in 0..newest
  /\ relogin \in BOOLEAN
  /\ refresh \in RefreshStates
  /\ req \in [Requests -> [pc : Pcs, attempt : 0..(MaxRetries + 2), refreshed : BOOLEAN,
                           token : Gens \cup {NoGen}, answer : Answers]]
  /\ expiries \in 0..MaxExpiries /\ restarts \in 0..MaxRestarts

HttpInit ==
  /\ newest = 0 /\ accepted = {0} /\ usable = {0}
  /\ applied = [q \in Requests |-> 0]
  /\ session = 0 /\ bearer = 0
  /\ relogin \in BOOLEAN
  /\ refresh = NoRefresh
  /\ req = [q \in Requests |-> NewRequest]
  /\ expiries = 0 /\ restarts = 0

-----------------------------------------------------------------------------
(* The homeserver. *)

(* The access token times out. *)
Expire ==
  /\ expiries < MaxExpiries
  /\ accepted # {}
  /\ accepted' = {}
  /\ expiries' = expiries + 1
  /\ UNCHANGED <<newest, usable, applied, session, relogin, bearer, refresh, req, restarts>>

(* A generation in use revokes the ones before it, and only then. *)
Since(g, gens) == {x \in gens : x >= g}

Answer(q, a) == req' = [req EXCEPT ![q].pc = "answered", ![q].answer = a]

ServerDenies(q) ==
  /\ req[q].pc = "sent"
  /\ req[q].token \notin accepted
  /\ Answer(q, "denied")
  /\ UNCHANGED <<homeserver, session, relogin, bearer, refresh, expiries, restarts>>

(* The request takes effect; the answer arrives or is lost. *)
ServerApplies(q) ==
  /\ req[q].pc = "sent"
  /\ req[q].token \in accepted
  /\ accepted' = Since(req[q].token, accepted)
  /\ usable' = Since(req[q].token, usable)
  /\ applied' = [applied EXCEPT ![q] = @ + 1]
  /\ Answer(q, "ok") \/ Answer(q, "lost")
  /\ UNCHANGED <<newest, session, relogin, bearer, refresh, expiries, restarts>>

(* It does not: throttled, refused, or lost on its way. *)
ServerAppliesNothing(q) ==
  /\ req[q].pc = "sent"
  /\ \/ /\ req[q].token \in accepted
        /\ Answer(q, "limited") \/ Answer(q, "refused")
     \/ Answer(q, "lost")
  /\ UNCHANGED <<homeserver, session, relogin, bearer, refresh, expiries, restarts>>

-----------------------------------------------------------------------------
(* request() and attempt(). *)

Attempt(q) ==
  /\ req[q].pc = "ready"
  /\ req' = [req EXCEPT ![q].pc = "sent", ![q].attempt = @ + 1, ![q].token = bearer]
  /\ UNCHANGED <<homeserver, session, relogin, bearer, refresh, expiries, restarts>>

RequestReturns(q) ==
  /\ req[q].pc = "answered" /\ req[q].answer = "ok"
  /\ req' = [req EXCEPT ![q].pc = "done"]
  /\ UNCHANGED <<homeserver, session, relogin, bearer, refresh, expiries, restarts>>

(* The caller's signal aborts a request or the pause before a retry. *)
Abort(q) ==
  /\ req[q].pc \in {"sent", "answered", "backoff"}
  /\ req[q].answer # "ok"
  /\ req' = [req EXCEPT ![q].pc = "failed"]
  /\ UNCHANGED <<homeserver, session, relogin, bearer, refresh, expiries, restarts>>

(* Every ambiguous failure replayed. *)
RetryableAlways(q) == req[q].answer \in {"limited", "lost"}

(* retryDelayFor: 429 is always safe to replay, an ambiguous failure only  *)
(* if the request is idempotent.                                           *)
Retryable(q) ==
  \/ req[q].answer = "limited"
  \/ req[q].answer = "lost" /\ q \in Idempotent

WithinBudget(q) == req[q].attempt <= MaxRetries

Retry(q) ==
  /\ req[q].pc = "answered" /\ Retryable(q) /\ WithinBudget(q)
  /\ req' = [req EXCEPT ![q].pc = "backoff"]
  /\ UNCHANGED <<homeserver, session, relogin, bearer, refresh, expiries, restarts>>

(* sleep() ends. *)
WakeUp(q) ==
  /\ req[q].pc = "backoff"
  /\ req' = [req EXCEPT ![q].pc = "ready"]
  /\ UNCHANGED <<homeserver, session, relogin, bearer, refresh, expiries, restarts>>

RequestThrows(q) ==
  /\ req[q].pc = "answered" /\ req[q].answer \in {"limited", "lost", "refused"}
  /\ ~(Retryable(q) /\ WithinBudget(q))
  /\ req' = [req EXCEPT ![q].pc = "failed"]
  /\ UNCHANGED <<homeserver, session, relogin, bearer, refresh, expiries, restarts>>

(* A 401 after this request's own refresh: AuthenticationError. *)
DeniedAgain(q) ==
  /\ req[q].pc = "answered" /\ req[q].answer = "denied"
  /\ req[q].refreshed
  /\ req' = [req EXCEPT ![q].pc = "authFailed"]
  /\ UNCHANGED <<homeserver, session, relogin, bearer, refresh, expiries, restarts>>

-----------------------------------------------------------------------------
(* tryRefreshToken() and the hook. *)

(* A 401 that waits for a refresh somebody else has to start. *)
JoinRefreshOnly(q) ==
  /\ req[q].pc = "answered" /\ req[q].answer = "denied"
  /\ ~req[q].refreshed
  /\ req' = [req EXCEPT ![q].pc = "refreshing"]
  /\ UNCHANGED <<homeserver, session, relogin, bearer, refresh, expiries, restarts>>

(* A 401: join the refresh in flight, settled or not, or start one. *)
JoinRefresh(q) ==
  /\ req[q].pc = "answered" /\ req[q].answer = "denied"
  /\ ~req[q].refreshed
  /\ req' = [req EXCEPT ![q].pc = "refreshing"]
  /\ refresh' = IF refresh = NoRefresh THEN [pc |-> "exchange", gen |-> NoGen] ELSE refresh
  /\ UNCHANGED <<homeserver, session, relogin, bearer, expiries, restarts>>

Issue ==
  /\ newest < MaxGen
  /\ newest' = newest + 1

(* POST /refresh with the stored refresh token; both generations stay good *)
(* until the new one is used.                                              *)
Exchange ==
  /\ refresh.pc = "exchange" /\ session \in usable
  /\ Issue
  /\ usable' = Since(session, usable) \cup {newest + 1}
  /\ accepted' = Since(session, accepted) \cup {newest + 1}

ExchangeAnswered ==
  /\ Exchange
  /\ refresh' = [pc |-> "save", gen |-> newest + 1]
  /\ UNCHANGED <<applied, session, relogin, bearer, req, expiries, restarts>>

(* The exchange fails, or its answer is lost, or no refresh token is       *)
(* stored: a password login, if there is a password, or null.              *)
AfterFailure ==
  /\ refresh' = [pc |-> IF relogin THEN "login" ELSE "settled", gen |-> NoGen]

ExchangeFails ==
  /\ \/ refresh.pc = "exchange" /\ UNCHANGED <<newest, usable, accepted>>
     \/ Exchange
  /\ AfterFailure
  /\ UNCHANGED <<applied, session, relogin, bearer, req, expiries, restarts>>

(* A login as the same device revokes what it had at once. *)
Login ==
  /\ refresh.pc = "login"
  /\ Issue
  /\ usable' = {newest + 1}
  /\ accepted' = {newest + 1}

LoginAnswered ==
  /\ Login
  /\ refresh' = [pc |-> "save", gen |-> newest + 1]
  /\ UNCHANGED <<applied, session, relogin, bearer, req, expiries, restarts>>

LoginFails ==
  /\ \/ refresh.pc = "login" /\ UNCHANGED <<newest, usable, accepted>>
     \/ Login
  /\ refresh' = [pc |-> "settled", gen |-> NoGen]
  /\ UNCHANGED <<applied, session, relogin, bearer, req, expiries, restarts>>

(* The new credentials handed out, and persisted some other time. *)
SaveRefreshedLater ==
  /\ refresh.pc = "save"
  /\ refresh' = [refresh EXCEPT !.pc = "settled"]
  /\ UNCHANGED <<homeserver, session, relogin, bearer, req, expiries, restarts>>

(* saveSession, then the promise settles with the access token. *)
SaveRefreshed ==
  /\ refresh.pc = "save"
  /\ session' = refresh.gen
  /\ refresh' = [refresh EXCEPT !.pc = "settled"]
  /\ UNCHANGED <<homeserver, relogin, bearer, req, expiries, restarts>>

(* A request waiting on the promise goes on: with the token, ... *)
Refreshed(q) ==
  /\ req[q].pc = "refreshing" /\ refresh.pc = "settled"
  /\ refresh.gen # NoGen
  /\ bearer' = refresh.gen
  /\ req' = [req EXCEPT ![q].pc = "ready", ![q].refreshed = TRUE]
  /\ UNCHANGED <<homeserver, session, relogin, refresh, expiries, restarts>>

(* ... or, on null, with AuthenticationError. *)
RefreshRefused(q) ==
  /\ req[q].pc = "refreshing" /\ refresh.pc = "settled"
  /\ refresh.gen = NoGen
  /\ req' = [req EXCEPT ![q].pc = "authFailed"]
  /\ UNCHANGED <<homeserver, session, relogin, bearer, refresh, expiries, restarts>>

(* The timer set when the promise settled; the requests that wait on it    *)
(* are resumed before any timer runs.                                      *)
ClearRefresh ==
  /\ refresh.pc = "settled"
  /\ \A q \in Requests : req[q].pc # "refreshing"
  /\ refresh' = NoRefresh
  /\ UNCHANGED <<homeserver, session, relogin, bearer, req, expiries, restarts>>

-----------------------------------------------------------------------------
(* The process dies and is started again with the session on disk; calls   *)
(* that had not settled are made anew.                                     *)
Restart ==
  /\ restarts < MaxRestarts
  /\ restarts' = restarts + 1
  /\ bearer' = session
  /\ refresh' = NoRefresh
  /\ req' = [q \in Requests |-> NewRequest]
  /\ applied' = [q \in Requests |-> 0]
  /\ UNCHANGED <<newest, accepted, usable, session, relogin, expiries>>

Homeserver(q) == ServerDenies(q) \/ ServerApplies(q) \/ ServerAppliesNothing(q)

Client(q) ==
  \/ Attempt(q) \/ RequestReturns(q) \/ Retry(q) \/ WakeUp(q) \/ RequestThrows(q)
  \/ DeniedAgain(q) \/ JoinRefresh(q) \/ Refreshed(q) \/ RefreshRefused(q)

Hook == ExchangeAnswered \/ ExchangeFails \/ LoginAnswered \/ LoginFails \/ SaveRefreshed \/ ClearRefresh

Settled(q) == req[q].pc \in {"done", "failed", "authFailed"}

(* Every call has settled and nothing is left to happen. *)
AllSettled ==
  /\ \A q \in Requests : Settled(q)
  /\ UNCHANGED httpVars

HttpNext ==
  \/ \E q \in Requests : Homeserver(q) \/ Client(q) \/ Abort(q)
  \/ Hook \/ Expire \/ Restart \/ AllSettled

(* The event loop runs; a request is answered or its timeout fires (that   *)
(* is a lost answer), and so are the exchange and the login.               *)
Fairness ==
  /\ \A q \in Requests : WF_httpVars(Homeserver(q)) /\ WF_httpVars(Client(q))
  /\ WF_httpVars(Hook)

HttpSpec == HttpInit /\ [][HttpNext]_httpVars

FairSpec == HttpSpec /\ Fairness

-----------------------------------------------------------------------------
(* retryDelayFor, "Unknown whether applied": a request that is not         *)
(* idempotent takes effect at most once per call, through timeouts, rate   *)
(* limits and token refreshes.                                             *)
NonIdempotentOnce == \A q \in Requests \ Idempotent : applied[q] <= 1

(* The session on disk can always be resumed: whenever the process dies,   *)
(* the homeserver still takes the stored refresh token, or there is a      *)
(* password.  Lost answers and lost sessions do not add up.                *)
SessionRecoverable == relogin \/ session \in usable

(* Every request settles: no retry, pause or shared refresh holds it up    *)
(* for ever.                                                               *)
RequestsSettle == \A q \in Requests : <>Settled(q)
=============================================================================
