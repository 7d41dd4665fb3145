------------------------------- MODULE MiniApp -------------------------------
(***************************************************************************)
(* A mini app from its launch to its answer: the bot signs launch data     *)
(* (bot.ts createMiniAppLaunch, initdata.ts), the page in the user's       *)
(* client gets it through the bridge (bridge.ts), trades it for a session  *)
(* at the HTTP server (server.ts), posts data with it, and the handler     *)
(* answers the launch's query (query.ts, bot.ts answerMiniAppQuery).       *)
(* Requests and handlers run concurrently; every await is a step boundary. *)
(* The clock counts ticks, Second of them to a second: launch data and     *)
(* sessions are dated in whole seconds, stores and queries are not.        *)
(***************************************************************************)
EXTENDS TtlStore, FiniteSets

CONSTANTS
  Setups,        \* how bot and server may be configured, see below
  Second,        \* ticks per second
  MaxLaunches,   \* bound: launches; each has its own nonce and query
  MaxRequests,   \* bound: HTTP requests, numbered as they come
  Origins,       \* of "host", "other" and "null"
  Answerers,     \* calls of answerMiniAppQuery
  InitTtl, SessionTtl, \* in seconds
  QueryTtl,      \* in ticks
  BotAhead,      \* ticks the signer's clock is ahead of the server's
  Tolerance,     \* clock skew validateInitData accepts, in seconds
  NonceCapacity, QueryCapacity, UsedCapacity

(* A setup: the kinds of nonce store and of query registry (signed tokens  *)
(* with their claims in a file or in Redis), how many seconds the nonce    *)
(* store keeps a nonce, whether requireMembership is ["join"], whether the *)
(* bot has an outbox, whether resolveRoomAuth always knows the user (the   *)
(* bot's own does), and whether the launch url carries matrixWebAppHost.   *)
(* Its bounds: the clock, launches, requests, restarts of the process,     *)
(* answers and the origins the page hears from.                            *)
Bounds == [time : Nat, launches : Nat, requests : Nat, restarts : Nat, answers : Nat, origins : SUBSET Origins]
Setup == [nonces : {"memory", "async"}, queries : {"memory", "signed", "signedAsync"}, nonceTtl : Nat,
          gated : BOOLEAN, outbox : BOOLEAN, knowing : BOOLEAN, pinned : BOOLEAN, bounds : Bounds]

ASSUME MiniAppBounds ==
  /\ {MaxLaunches, MaxRequests, InitTtl, SessionTtl, QueryTtl, BotAhead, Tolerance} \subseteq Nat
  /\ {Second, NonceCapacity, QueryCapacity, UsedCapacity} \subseteq Nat \ {0}
  /\ Origins \subseteq {"host", "other", "null"}
  /\ Setups \subseteq Setup
  /\ IsFiniteSet(Answerers)

Launches == 1..MaxLaunches
Requests == 1..MaxRequests

VARIABLES
  setup,
  now,
  restarts,
  membership, \* of the user in the room, as the bot knows it
  launched,   \* launch -> [auth, snap, expQ], << >> of those made so far
  page,       \* the page: hostOrigin and the launch its initData is of
  nonces,     \* the nonce store
  req,        \* request -> [pc, launch, seen, member]
  sessions,   \* the session tokens issued: [launch, snap, exp], in order
  fed,        \* the sessions whose data reached the dispatcher
  queries,    \* MiniAppQueryRegistry.queries: the launches, oldest first
  claimed,    \* the queries marked as used, in the process
  disk,       \* ... and in the file it writes them to
  claimedNX,  \* the queries claimed in Redis
  ans,        \* answerMiniAppQuery: [pc, query, ttl]
  outbox,     \* the queries of the answers queued for another try
  target,     \* history: origins that sendData was posted to
  evicted,    \* history: nonces pushed out of the store, or lost with it
  untimely,   \* history: launches whose nonce was recorded at the wrong time
  passed,     \* history: what let a request through the gates
  posted,     \* history: messages posted for each query
  doubtful,   \* history: queries with an answer that failed and is posted all the same
  forgotten   \* history: queries whose claim was lost, or came too late

vars == <<setup, now, restarts, membership, launched, page, nonces, req, sessions, fed, queries, claimed, disk, claimedNX,
          ans, outbox, target, evicted, untimely, passed, posted, doubtful, forgotten>>

nonceStore == <<nonces, evicted, untimely>>
http == <<nonceStore, req, sessions, fed, passed>>
claims == <<claimed, disk, claimedNX, forgotten>>
answering == <<claims, ans, outbox, posted, doubtful>>

NoReq == [pc |-> "idle", launch |-> 0, seen |-> "none", member |-> FALSE]
NoAns == [pc |-> "idle", query |-> 0, ttl |-> 0]

(* The types of the state; n is the number of launches made. *)
LaunchData == [auth : Nat, snap : {"join", "leave"}, expQ : Nat]
Page(n) == [open : BOOLEAN, hostOrigin : {"*", "host"} \cup Origins, launch : 0..n, heard : SUBSET Origins]
Entry == [key : Launches, exp : Nat]
Request == [pc : {"idle", "claiming", "gating", "refreshing", "done"}, launch : Nat,
            seen : {"none", "unknown", "join", "leave"}, member : BOOLEAN]
Session(n) == [launch : 1..n, snap : {"join", "leave"}, exp : Nat]
Answer(n) == [pc : {"idle", "claiming", "sending", "done"}, query : 0..n, ttl : Nat]

TypeOK ==
  /\ setup \in Setups
  /\ now \in Nat /\ restarts \in Nat
  /\ membership \in {"join", "leave"}
  /\ launched \in Seq(LaunchData) /\ Len(launched) <= MaxLaunches
  /\ page \in Page(Len(launched))
  /\ nonces \in Seq(Entry)
  /\ req \in [Requests -> Request]
  /\ sessions \in Seq(Session(Len(launched)))
  /\ queries \in Seq(Launches)
  /\ claimed \in Seq(Entry) /\ disk \in Seq(Entry) /\ claimedNX \in Seq(Entry)
  /\ ans \in [Answerers -> Answer(Len(launched))]
  /\ outbox \in Seq(Launches)
  /\ posted \in [Launches -> Nat]

Init ==
  /\ setup \in Setups
  /\ now = 0 /\ restarts = 0
  /\ membership = "join"
  /\ launched = << >>
  /\ page = [open |-> FALSE, hostOrigin |-> "*", launch |-> 0, heard |-> {}]
  /\ nonces = << >>
  /\ req = [r \in Requests |-> NoReq]
  /\ sessions = << >> /\ fed = {}
  /\ queries = << >>
  /\ claimed = << >> /\ disk = << >> /\ claimedNX = << >>
  /\ ans = [a \in Answerers |-> NoAns]
  /\ outbox = << >>
  /\ target = {}
  /\ evicted = {} /\ untimely = {} /\ passed = {}
  /\ posted = [l \in Launches |-> 0]
  /\ doubtful = {} /\ forgotten = {}

-----------------------------------------------------------------------------
Tick ==
  /\ now < setup.bounds.time
  /\ now' = now + 1
  /\ UNCHANGED <<setup, restarts, membership, launched, page, http, queries, answering, target>>

(* The user leaves the room, or is removed (bound: only in a setup that     *)
(* asks for membership).                                                    *)
Leaves ==
  /\ setup.gated /\ membership = "join" /\ launched # << >>
  /\ membership' = "leave"
  /\ UNCHANGED <<setup, now, restarts, launched, page, http, queries, answering, target>>

(* MiniAppQueryRegistry.prune, at issue(). *)
PruneQueries ==
  LET kept == Kept(queries, {q \in 1..Len(launched) : launched[q].expQ > now})
  IN IF Len(kept) < QueryCapacity THEN kept ELSE SubSeq(kept, Len(kept) - QueryCapacity + 2, Len(kept))

(* issue() of the query: the expiry is in the signed token; only the memory *)
(* registry keeps it.                                                       *)
IssueQuery(q) == queries' = IF setup.queries = "memory" THEN Append(PruneQueries, q) ELSE queries

(* createInitData: signed, with auth_date and a snapshot of the user's      *)
(* membership; beside it the expiry of the query id it carries.             *)
InitData(m) == [auth |-> (now + BotAhead) \div Second, snap |-> m, expQ |-> now + QueryTtl]

CreateMiniAppLaunch ==
  /\ Len(launched) < MaxLaunches /\ Len(launched) < setup.bounds.launches
  /\ launched' = Append(launched, InitData(membership))
  /\ IssueQuery(Len(launched) + 1)
  /\ UNCHANGED <<setup, now, restarts, membership, page, http, answering, target>>

-----------------------------------------------------------------------------
(* The bridge script. *)

(* The script starts: launch data and host origin come from the fragment.  *)
BridgeLoads(l) ==
  /\ ~page.open /\ l \in 1..Len(launched)
  /\ page' = [page EXCEPT !.open = TRUE, !.launch = l, !.hostOrigin = IF setup.pinned THEN "host" ELSE "*"]
  /\ UNCHANGED <<setup, now, restarts, membership, launched, http, queries, answering, target>>

(* A listener that believes every window. *)
BelievesAnyone(source, origin) == setup.pinned => origin = "host"

(* The first two lines of the message listener, in a page that has a host   *)
(* window (one without posts nothing).                                      *)
Believes(source, origin) ==
  /\ source = "hostWindow"
  /\ setup.pinned => origin = "host"

(* The message listener: an "init" message, with the newest launch's data   *)
(* or without.                                                              *)
(* The first origin heard from is the one posted to from then on; "null" is *)
(* that of a sandboxed document.  `heard` are the host window's origins (an *)
(* opener may navigate).                                                    *)
BridgeMessage(source, origin, fresh) ==
  /\ page.open /\ origin \in setup.bounds.origins \ page.heard
  /\ Believes(source, origin)
  /\ page' = [page EXCEPT !.heard = IF source = "hostWindow" THEN @ \cup {origin} ELSE @,
                          !.hostOrigin = IF @ = "*" /\ origin # "null" THEN origin ELSE @,
                          !.launch = IF fresh THEN Len(launched) ELSE @]
  /\ UNCHANGED <<setup, now, restarts, membership, launched, http, queries, answering, target>>

(* api.sendData posts to the host window, addressed to hostOrigin. *)
SendData ==
  /\ page.open /\ page.hostOrigin \notin target
  /\ target' = target \cup {page.hostOrigin}
  /\ UNCHANGED <<setup, now, restarts, membership, launched, page, http, queries, answering>>

-----------------------------------------------------------------------------
(* POST /auth. *)

(* validateInitData up to the nonce. *)
InDate(l) ==
  LET nowSeconds == now \div Second
  IN nowSeconds - launched[l].auth <= InitTtl /\ launched[l].auth - nowSeconds <= Tolerance

Goto(r, s) == req' = [req EXCEPT ![r].pc = s]

(* A request has its response. *)
Finish(r) == req' = [req EXCEPT ![r] = [NoReq EXCEPT !.pc = "done"]]

(* A request comes in. *)
Begin(r, s, l) ==
  req' = [req EXCEPT ![r] = [pc |-> s, launch |-> l, seen |-> "none", member |-> membership = "join"]]

NextRequest(r) == r <= setup.bounds.requests /\ req[r].pc = "idle" /\ \A q \in 1..(r - 1) : req[q].pc # "idle"

(* A nonce store whose add() forgets the nonce at once. *)
RecordNothing(l) == UNCHANGED nonceStore

(* The answer of the nonce store: has(), or the outcome of SET NX. *)
NonceSeen(l) == HasKey(nonces, l, now)

(* The time in which a nonce has to be recorded to be kept until the launch *)
(* data expires, which is at Until: one that is kept for just as many       *)
(* seconds has to be recorded after the second of auth_date.                *)
From(l) == (launched[l].auth + (IF setup.nonceTtl = InitTtl THEN 1 ELSE 0)) * Second
Until(l) == (launched[l].auth + InitTtl + 1) * Second

(* The nonce is recorded.  The memory store is bounded and keeps it for     *)
(* ttl milliseconds and the next, Redis for EX seconds.                     *)
RecordNonce(l) ==
  LET memory == setup.nonces = "memory"
      exp == now + setup.nonceTtl * Second + (IF memory THEN 1 ELSE 0)
  IN /\ nonces' = IF memory THEN AddKey(nonces, l, exp, now, NonceCapacity) ELSE SetKey(nonces, l, exp, now)
     /\ evicted' = IF memory THEN evicted \cup Evicted(nonces, l, now, NonceCapacity) ELSE evicted
     /\ untimely' = IF now < From(l) \/ now >= Until(l) THEN untimely \cup {l} ELSE untimely

(* authenticateAsync up to its first await. *)
PostAuth(r) ==
  /\ NextRequest(r) /\ page.launch # 0
  /\ LET l == page.launch
     IN CASE ~InDate(l) -> Finish(r) /\ UNCHANGED nonceStore
          [] InDate(l) /\ setup.nonces = "async" -> Begin(r, "claiming", l) /\ UNCHANGED nonceStore
          [] OTHER -> IF NonceSeen(l) THEN Finish(r) /\ UNCHANGED nonceStore
                      ELSE Begin(r, "gating", l) /\ RecordNonce(l)
  /\ UNCHANGED <<setup, now, restarts, membership, launched, page, sessions, fed, passed, queries, answering, target>>

(* ... the async store has answered (SET NX). *)
ClaimNonce(r) ==
  /\ req[r].pc = "claiming"
  /\ LET l == req[r].launch
     IN IF NonceSeen(l) THEN Finish(r) /\ UNCHANGED nonceStore
        ELSE Goto(r, "gating") /\ RecordNonce(l)
  /\ UNCHANGED <<setup, now, restarts, membership, launched, page, sessions, fed, passed, queries, answering, target>>

(* resolveRoomAuth answers; the gates come later, behind its await.  A      *)
(* resolver of the user's own may know nothing.                             *)
ResolveRoomAuth(r, knows) ==
  /\ req[r].pc = "refreshing" \/ (req[r].pc = "gating" /\ setup.gated)
  /\ req[r].seen = "none"
  /\ setup.knowing => knows
  /\ req' = [req EXCEPT ![r].seen = IF knows THEN membership ELSE "unknown"]
  /\ UNCHANGED <<setup, now, restarts, membership, launched, page, nonceStore, sessions, fed, passed, queries, answering,
                 target>>

(* A request that is believed as its launch data or session says. *)
BelieveSnapshot(r, snap) == snap

(* `if (live)`, `if (!live) return session`: the membership the gates see.  *)
Membership(r, snap) == IF req[r].seen = "unknown" THEN snap ELSE req[r].seen

(* enforceAuthGates, enforceSessionGates. *)
GatesPass(r, snap) == setup.gated => Membership(r, snap) = "join"

Pass(r, snap) ==
  passed' = IF setup.gated THEN passed \cup {[member |-> req[r].member, seen |-> req[r].seen, snap |-> snap]} ELSE passed

(* The rest of enforceAuthGates (without gates nothing is resolved) and     *)
(* mintSession; exp is in whole seconds.  A refusal leaves the nonce spent. *)
MintSession(r) ==
  /\ req[r].pc = "gating"
  /\ setup.gated => req[r].seen # "none"
  /\ LET l == req[r].launch
         snap == launched[l].snap
     IN /\ Finish(r)
        /\ IF GatesPass(r, snap)
           THEN /\ sessions' = Append(sessions, [launch |-> l, snap |-> snap,
                                                 exp |-> (now \div Second + SessionTtl) * Second])
                /\ Pass(r, snap)
           ELSE UNCHANGED <<sessions, passed>>
  /\ UNCHANGED <<setup, now, restarts, membership, launched, page, nonceStore, fed, queries, answering, target>>

-----------------------------------------------------------------------------
(* POST /data (and GET /me, /room-auth, which end after the refresh). *)

PostData(r, s) ==
  /\ NextRequest(r) /\ s \in DOMAIN sessions
  /\ IF sessions[s].exp <= now THEN Finish(r) ELSE Begin(r, "refreshing", s)
  /\ UNCHANGED <<setup, now, restarts, membership, launched, page, nonceStore, sessions, fed, passed, queries, answering,
                 target>>

(* refreshSessionAuth has returned; the gates; onData feeds the dispatcher. *)
FeedMiniAppData(r) ==
  /\ req[r].pc = "refreshing" /\ req[r].seen # "none"
  /\ LET s == req[r].launch
         snap == sessions[s].snap
     IN /\ Finish(r)
        /\ IF GatesPass(r, snap) THEN fed' = fed \cup {s} /\ Pass(r, snap) ELSE UNCHANGED <<fed, passed>>
  /\ UNCHANGED <<setup, now, restarts, membership, launched, page, nonceStore, sessions, queries, answering, target>>

-----------------------------------------------------------------------------
(* answerMiniAppQuery. *)

(* verifyQueryToken: the signature is right and the expiry has not passed. *)
QueryInTime(q) == launched[q].expQ > now

(* The memory registry only knows what it has not pruned. *)
QueryHeld(q) == setup.queries = "memory" => \E i \in DOMAIN queries : queries[i] = q

(* peek, and the checks of claim. *)
Claimable(q) == QueryInTime(q) /\ ~HasKey(claimed, q, now) /\ QueryHeld(q)

AnsGoto(a, s, q, ttl) == ans' = [ans EXCEPT ![a] = [pc |-> s, query |-> q, ttl |-> ttl]]

(* answerMiniAppQuery has returned or thrown. *)
AnsFinish(a) == ans' = [ans EXCEPT ![a] = [NoAns EXCEPT !.pc = "done"]]

(* The mark of a claim: in the bounded FileUsedTokenStore until the query   *)
(* expires, or (memory registry) in the record, which goes with the query.  *)
Mark(q) ==
  LET exp == launched[q].expQ
  IN IF setup.queries = "memory" THEN claimed' = SetKey(claimed, q, exp, now) /\ UNCHANGED forgotten
     ELSE /\ claimed' = AddKey(claimed, q, exp, now, UsedCapacity)
          /\ forgotten' = forgotten \cup Evicted(claimed, q, now, UsedCapacity)

(* claim() in one step; claimAsync awaits Redis, if it is configured. *)
AnswerQuery(a, s) ==
  /\ ans[a].pc = "idle"
  /\ Cardinality({b \in Answerers : ans[b].pc # "idle"}) < setup.bounds.answers
  /\ s \in fed
  /\ LET q == sessions[s].launch
     IN CASE ~Claimable(q) -> AnsFinish(a) /\ UNCHANGED <<claimed, forgotten>>
          [] Claimable(q) /\ setup.queries = "signedAsync" ->
               AnsGoto(a, "claiming", q, launched[q].expQ - now) /\ UNCHANGED <<claimed, forgotten>>
          [] OTHER -> AnsGoto(a, "sending", q, 0) /\ Mark(q)
  /\ UNCHANGED <<setup, now, restarts, membership, launched, page, http, queries, disk, claimedNX, outbox, posted,
                 doubtful, target>>

(* A tryAdd that is a has() and an add() with an await between them. *)
ClaimBlindly(a, q, exp) ==
  /\ AnsGoto(a, "sending", q, 0)
  /\ claimedNX' = SetKey(claimedNX, q, exp, now)
  /\ UNCHANGED forgotten

(* tryAdd of Redis: SET NX.  It may come when the query, and with it an     *)
(* earlier claim, has expired.                                              *)
TryAdd(a, q, exp) ==
  IF HasKey(claimedNX, q, now) THEN AnsFinish(a) /\ UNCHANGED <<claimedNX, forgotten>>
  ELSE /\ AnsGoto(a, "sending", q, 0)
       /\ claimedNX' = SetKey(claimedNX, q, exp, now)
       /\ forgotten' = IF QueryInTime(q) THEN forgotten ELSE forgotten \cup {q}

(* The store keeps the claim for what was left of the query when it was     *)
(* checked, in whole seconds.                                               *)
ClaimAsync(a) ==
  /\ ans[a].pc = "claiming"
  /\ TryAdd(a, ans[a].query, now + ((ans[a].ttl + Second - 1) \div Second) * Second)
  /\ UNCHANGED <<setup, now, restarts, membership, launched, page, http, queries, claimed, disk, outbox, posted, doubtful,
                 target>>

(* FileUsedTokenStore.persist, 50 ms after the first change or at stop().   *)
WriteClaims ==
  /\ setup.queries = "signed"
  /\ disk # Unexpired(claimed, now)
  /\ disk' = Unexpired(claimed, now)
  /\ UNCHANGED <<setup, now, restarts, membership, launched, page, http, queries, claimed, claimedNX, forgotten, ans,
                 outbox, posted, doubtful, target>>

AnswerSent(a) ==
  /\ ans[a].pc = "sending"
  /\ AnsFinish(a)
  /\ posted' = [posted EXCEPT ![ans[a].query] = @ + 1]
  /\ UNCHANGED <<setup, now, restarts, membership, launched, page, http, queries, claims, outbox, doubtful, target>>

(* release(): the mark in the process is deleted; Redis keeps the claim.    *)
ReleaseQuery(q) == claimed' = WithoutKey(claimed, q)

(* The send fails, perhaps after the homeserver took the message; a failure *)
(* that may pass leaves it in the outbox, if there is one.  The query is    *)
(* released.                                                                *)
AnswerFails(a, taken, queued) ==
  /\ ans[a].pc = "sending"
  /\ queued => setup.outbox
  /\ LET q == ans[a].query
     IN /\ AnsFinish(a)
        /\ ReleaseQuery(q)
        /\ posted' = [posted EXCEPT ![q] = @ + (IF taken THEN 1 ELSE 0)]
        /\ outbox' = IF queued THEN Append(outbox, q) ELSE outbox
        /\ doubtful' = IF taken \/ queued THEN doubtful \cup {q} ELSE doubtful
  /\ UNCHANGED <<setup, now, restarts, membership, launched, page, http, queries, disk, claimedNX, forgotten, target>>

(* flushOutbox of a restarted bot posts the oldest entry (Outbox has more). *)
FlushOutbox ==
  /\ restarts > 0 /\ outbox # << >>
  /\ posted' = [posted EXCEPT ![Head(outbox)] = @ + 1]
  /\ outbox' = Tail(outbox)
  /\ UNCHANGED <<setup, now, restarts, membership, launched, page, http, queries, claims, ans, doubtful, target>>

-----------------------------------------------------------------------------
(* The process of bot and server ends and starts again.  Requests and       *)
(* answers in progress are gone (`taken` are those whose message the        *)
(* homeserver has), with what is only in memory.  Launch data, sessions and *)
(* query ids are signed with a secret that is kept and stay valid; the      *)
(* claims are read from the file.                                           *)
Restart(taken) ==
  /\ restarts < setup.bounds.restarts
  /\ restarts' = restarts + 1
  /\ nonces' = IF setup.nonces = "memory" THEN << >> ELSE nonces
  /\ evicted' = IF setup.nonces = "memory" THEN evicted \cup {l \in Launches : NonceSeen(l)} ELSE evicted
  /\ req' = [r \in Requests |-> IF req[r].pc = "idle" THEN req[r] ELSE [NoReq EXCEPT !.pc = "done"]]
  /\ queries' = << >>
  /\ claimed' = Unexpired(disk, now)
  /\ disk' = Unexpired(disk, now)
  /\ forgotten' = IF setup.queries = "memory" THEN forgotten
                ELSE forgotten \cup {q \in Launches : HasKey(claimed, q, now) /\ ~HasKey(disk, q, now)}
  /\ taken \subseteq {a \in Answerers : ans[a].pc = "sending"}
  /\ posted' = [q \in Launches |-> posted[q] + Cardinality({a \in taken : ans[a].query = q})]
  /\ ans' = [a \in Answerers |-> IF ans[a].pc = "idle" THEN ans[a] ELSE [NoAns EXCEPT !.pc = "done"]]
  /\ UNCHANGED <<setup, now, membership, launched, page, untimely, sessions, fed, passed, claimedNX, outbox, doubtful,
                 target>>

-----------------------------------------------------------------------------
Next ==
  \/ Tick \/ Leaves \/ CreateMiniAppLaunch \/ SendData \/ WriteClaims \/ FlushOutbox
  \/ \E l \in Launches : BridgeLoads(l)
  \/ \E source \in {"hostWindow", "otherWindow"}, origin \in Origins, fresh \in BOOLEAN :
       BridgeMessage(source, origin, fresh)
  \/ \E r \in Requests : PostAuth(r) \/ ClaimNonce(r) \/ MintSession(r) \/ FeedMiniAppData(r)
  \/ \E r \in Requests, knows \in BOOLEAN : ResolveRoomAuth(r, knows)
  \/ \E r \in Requests, s \in 1..MaxRequests : PostData(r, s)
  \/ \E a \in Answerers, s \in 1..MaxRequests : AnswerQuery(a, s)
  \/ \E a \in Answerers : ClaimAsync(a) \/ AnswerSent(a)
  \/ \E a \in Answerers, taken, queued \in BOOLEAN : AnswerFails(a, taken, queued)
  \/ \E taken \in SUBSET Answerers : Restart(taken)

Spec == Init /\ [][Next]_vars

-----------------------------------------------------------------------------
(* A launch is traded for at most one session, as singleUseLaunch promises, *)
(* whichever requests run at once, if the store keeps nonces for as long as *)
(* launch data is accepted.  Exceptions: the bounded memory store pushed    *)
(* the nonce out or was lost in a restart, or the nonce was recorded at a   *)
(* bad time: before auth_date (the signer's clock is ahead); or after the   *)
(* data's expiry (validated in time, but Redis answered late); or, in a     *)
(* store that keeps it no longer than the data is accepted (the defaults),  *)
(* within the second of auth_date, because that age is counted in seconds   *)
(* and the nonce's is not.                                                  *)
LaunchOnce ==
  setup.nonceTtl >= InitTtl =>
    \A l \in Launches :
      Cardinality({i \in DOMAIN sessions : sessions[i].launch = l}) > 1 => l \in evicted \cup untimely

(* With requireMembership, a user who had left the room when a request came *)
(* gets no session by it, and data posted then never reaches a handler,     *)
(* although the launch or the session says the user is a member: the gates  *)
(* are passed by a user who was a member when the request came, or whom the *)
(* resolver did not know and the launch had as a member.                    *)
NoDataFromLeavers == \A p \in passed : p.member \/ (p.seen = "unknown" /\ p.snap = "join")

(* A query is answered by at most one message, however many handlers answer *)
(* it at once, across restarts and in all registries, unless an answer was  *)
(* reported as failed and is posted all the same (the homeserver had it, or *)
(* the outbox sends it later), or the claim was lost: pushed out of the     *)
(* bounded store, not yet on disk at a crash, or made in Redis when the     *)
(* query had expired.                                                       *)
AnsweredOnce == \A l \in Launches : posted[l] > 1 => l \in doubtful \cup forgotten

(* With a pinned host, sendData goes nowhere else; without one it goes to   *)
(* everyone before the host has spoken, then to one origin only, and that   *)
(* is one the host window has spoken from, never that of another window.    *)
DataGoesToHost ==
  /\ setup.pinned => target \subseteq {"host"}
  /\ ~setup.pinned => target \subseteq {"*"} \cup (page.heard \ {"null"})
  /\ Cardinality(target \ {"*"}) <= 1
=============================================================================
