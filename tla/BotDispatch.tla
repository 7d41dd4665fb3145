----------------------------- MODULE BotDispatch -----------------------------
(***************************************************************************)
(* What happens to an update once the client hands it to the bot           *)
(* (bot.ts feed*, dispatcher.ts, router.ts, middleware.ts): the context is *)
(* built, pending waitFor() calls are asked, and the dispatcher runs outer *)
(* middleware, routers and the handler, racing them with the handler       *)
(* timeout.  Updates run concurrently: the client does not await them.     *)
(* Every await is a step boundary.                                         *)
(***************************************************************************)
EXTENDS Updates, Subsequence, FiniteSets, SequencesExt

CONSTANTS
  MaxUpdates,   \* bound: updates fed during a run, numbered as they arrive
  RoomEvents,   \* the timeline events the homeserver may send
  OtherEvents,  \* ephemeral events, to-device events and invites
  OtherUpdates, \* bound: the updates that may be one of those
  DirectTypes,  \* which of "to_device", "invite" may come
  Waiters,      \* waitFor() calls
  WaiterOf,     \* waiter -> [room, sender]; {} stands for null (any)
  Roots,        \* the routers given to the dispatcher, in order
  Resolve(_, _, _),  \* Router.resolve: of a router, a context and its command
  HandleError(_),    \* Router.handleError: does it swallow the error?
  Outer,        \* outer middleware, outermost first
  Denied,       \* users that accessControl refuses
  MaxRetries,   \* rateLimitBackoff
  Swallows,     \* what the dispatcher's error handlers may answer
  MaxAnswers    \* bound: messages one handler sends

ASSUME BoundAssumption ==
  /\ {MaxUpdates, MaxRetries, MaxAnswers} \subseteq Nat
  /\ Outer \in Seq(Range(Outer))

Updates == 1..MaxUpdates

VARIABLES
  pc,        \* feedRoomEvent & co: "idle","build","ask","race","catch","count","done"
  ctx,       \* the context of each update
  snap,      \* tryResolveWaiter: the waiters of its snapshot still to ask
  chain,     \* the promise run by Dispatcher.feed, see ChainStates
  err,       \* the error the chain carries
  local,     \* locals of the chain: routeUpdate's position in the routers ("root"),
             \* the deepest position dispatch() reached ("index"), the retries of
             \* rateLimitBackoff ("attempt")
  found,     \* the route of the update, with the command its context shows
  aborted,   \* ctx.abortController
  outcome,   \* how the update ended
  waiters,   \* bot.waiters
  settled,   \* waiter -> "no", "resolved", "timedout"
  got,       \* waiter -> the update it was resolved with
  stopping,  \* bot.stopping
  runs,      \* history: how often the handler of each update was started
  answers    \* history: messages sent through each context

feedVars == <<pc, ctx, snap, outcome>>
chainVars == <<chain, err, local, found, aborted>>
waiterVars == <<waiters, settled, got>>
histVars == <<runs, answers>>
vars == <<feedVars, chainVars, waiterVars, stopping, histVars>>

(* "outer": in the middleware; "enter": about to look at a router; "match": *)
(* its filters are being awaited; "handler", "fallback": application code   *)
(* runs; "caught": the router's error handlers run; "unwind": an error goes *)
(* back through the middleware; "ok", "failed": the promise has settled.    *)
ChainStates == {"none", "outer", "enter", "match", "handler", "fallback", "caught", "unwind", "ok", "failed"}

Pcs == {"idle", "build", "ask", "race", "catch", "count", "done"}

Outcomes == {"none", "dropped", "consumed", "returned", "raised"}

Errors == {"none", "app", "ratelimited", "timeout", "stopped", "twice"}

NoCtx == [updateType |-> "none", senderId |-> Self]

NoLocals == [root |-> 1, index |-> 0, attempt |-> 0]

NotFound == [router |-> "", route |-> NoRoute, cmd |-> NoCommand]

DispatchTypeOK ==
  /\ pc \in [Updates -> Pcs]
  /\ snap \in [Updates -> Seq(Waiters)]
  /\ chain \in [Updates -> ChainStates]
  /\ err \in [Updates -> Errors]
  /\ outcome \in [Updates -> Outcomes]
  /\ settled \in [Waiters -> {"no", "resolved", "timedout"}]
  /\ local \in [Updates -> [root : Nat, index : Nat, attempt : Nat]]
  /\ DOMAIN found = Updates
  /\ aborted \in [Updates -> BOOLEAN] /\ stopping \in BOOLEAN
  /\ waiters \in Seq(Waiters)
  /\ got \in [Waiters -> SUBSET Updates]
  /\ runs \in [Updates -> Nat] /\ answers \in [Updates -> Nat]

DispatchInit ==
  /\ pc = [u \in Updates |-> "idle"]
  /\ ctx = [u \in Updates |-> NoCtx]
  /\ snap = [u \in Updates |-> << >>]
  /\ chain = [u \in Updates |-> "none"]
  /\ err = [u \in Updates |-> "none"]
  /\ local = [u \in Updates |-> NoLocals]
  /\ found = [u \in Updates |-> NotFound]
  /\ aborted = [u \in Updates |-> FALSE]
  /\ outcome = [u \in Updates |-> "none"]
  /\ waiters = << >>
  /\ settled = [w \in Waiters |-> "no"]
  /\ got = [w \in Waiters |-> {}]
  /\ stopping = FALSE
  /\ runs = [u \in Updates |-> 0]
  /\ answers = [u \in Updates |-> 0]

Set(f, u, v) == [f EXCEPT ![u] = v]

End(u, o) == pc' = Set(pc, u, "done") /\ outcome' = Set(outcome, u, o)

-----------------------------------------------------------------------------
(* Bound: a change of the waiters only matters to an update still to ask   *)
(* them, and stop() only while a feed is under way.                        *)
Asking == \E u \in Updates : pc[u] \in {"idle", "build", "ask"}

Busy == \E u \in Updates : pc[u] # "done"

(* Waiters. *)

(* waitFor. *)
WaitFor(w) ==
  /\ Asking
  /\ settled[w] = "no" /\ ~Contains(waiters, w)
  /\ waiters' = Append(waiters, w)
  /\ UNCHANGED <<feedVars, chainVars, settled, got, stopping, histVars>>

(* Its timer: the waiter is removed and its promise rejected. *)
WaitTimeout(w) ==
  /\ Asking
  /\ Contains(waiters, w)
  /\ waiters' = Kept(waiters, Waiters \ {w})
  /\ settled' = Set(settled, w, "timedout")
  /\ UNCHANGED <<feedVars, chainVars, got, stopping, histVars>>

Addressed(w, c) ==
  /\ WaiterOf[w].room = {} \/ c.roomId \in WaiterOf[w].room
  /\ WaiterOf[w].sender = {} \/ c.senderId \in WaiterOf[w].sender

(* The snapshot tryResolveWaiter iterates over, without the waiters whose  *)
(* room or sender differs.                                                 *)
Snapshot(c) == Kept(waiters, {w \in Waiters : Addressed(w, c)})

(* A waiter that forgets to leave bot.waiters when it is resolved. *)
ResolveKeeping(w, u) ==
  /\ waiters' = waiters
  /\ settled' = IF settled[w] = "no" THEN Set(settled, w, "resolved") ELSE settled
  /\ got' = IF settled[w] = "no" THEN Set(got, w, {u}) ELSE got

(* waiter.resolve(ctx): a promise that is settled already ignores it. *)
ResolveWaiter(w, u) ==
  /\ waiters' = Kept(waiters, Waiters \ {w})
  /\ settled' = IF settled[w] = "no" THEN Set(settled, w, "resolved") ELSE settled
  /\ got' = IF settled[w] = "no" THEN Set(got, w, {u}) ELSE got

-----------------------------------------------------------------------------
(* The feeds. *)

(* Dispatcher.feed up to its first await: the chain starts. *)
StartFeed(u, c) ==
  /\ ctx' = Set(ctx, u, c)
  /\ pc' = Set(pc, u, "race")
  /\ chain' = Set(chain, u, "outer")
  /\ UNCHANGED <<err, local, found, aborted>>

(* feedRoomEvent up to the await of the factory. *)
FeedRoomEvent(u, e, bootstrap) ==
  /\ pc[u] = "idle"
  /\ IF \/ stopping
        \/ e.type = "dev.aiomatrix.host"
        \/ ~ShouldDispatchOnColdStart(ColdStartKind(e), bootstrap)
        \/ e.sender = Self
     THEN End(u, "dropped") /\ UNCHANGED <<ctx, snap>>
     ELSE /\ pc' = Set(pc, u, "build")
          /\ ctx' = Set(ctx, u, ContextOf(e, UpdateTypeOf(e)))
          /\ UNCHANGED <<snap, outcome>>
  /\ UNCHANGED <<chainVars, waiterVars, stopping, histVars>>

(* ... the factory has answered: the waiters, or straight on. *)
ContextBuilt(u) ==
  /\ pc[u] = "build"
  /\ IF ctx[u].updateType = "none" \/ stopping
     THEN End(u, "dropped") /\ UNCHANGED <<ctx, snap, chainVars>>
     ELSE IF Snapshot(ctx[u]) # << >>
     THEN /\ pc' = Set(pc, u, "ask")
          /\ snap' = Set(snap, u, Snapshot(ctx[u]))
          /\ UNCHANGED <<ctx, outcome, chainVars>>
     ELSE StartFeed(u, ctx[u]) /\ UNCHANGED <<snap, outcome>>
  /\ UNCHANGED <<waiterVars, stopping, histVars>>

(* feedEphemeral: no await before the waiters, no second look at stopping. *)
FeedEphemeral(u, e) ==
  /\ pc[u] = "idle"
  /\ LET c == ContextOf(e, "ephemeral")
     IN IF stopping THEN End(u, "dropped") /\ UNCHANGED <<ctx, snap, chainVars>>
        ELSE IF Snapshot(c) # << >>
        THEN /\ pc' = Set(pc, u, "ask")
             /\ ctx' = Set(ctx, u, c)
             /\ snap' = Set(snap, u, Snapshot(c))
             /\ UNCHANGED <<outcome, chainVars>>
        ELSE StartFeed(u, c) /\ UNCHANGED <<snap, outcome>>
  /\ UNCHANGED <<waiterVars, stopping, histVars>>

(* feedToDevice (crypto traffic never gets here) and feedInvite: straight  *)
(* to the dispatcher, waiters are not asked.                               *)
FeedDirect(u, e, type) ==
  /\ pc[u] = "idle"
  /\ IF stopping THEN End(u, "dropped") /\ UNCHANGED <<ctx, chainVars>>
     ELSE StartFeed(u, ContextOf(e, type)) /\ UNCHANGED outcome
  /\ UNCHANGED <<snap, waiterVars, stopping, histVars>>

(* The filter of the next waiter has answered. *)
AskWaiter(u, yes) ==
  /\ pc[u] = "ask"
  /\ LET w == Head(snap[u])
         rest == Tail(snap[u])
     IN /\ snap' = Set(snap, u, IF yes THEN << >> ELSE rest)
        /\ IF yes
           THEN End(u, "consumed") /\ ResolveWaiter(w, u) /\ UNCHANGED <<ctx, chainVars>>
           ELSE /\ UNCHANGED <<waiterVars, outcome>>
                /\ IF rest # << >> THEN UNCHANGED <<pc, ctx, chainVars>>
                   ELSE StartFeed(u, ctx[u])
  /\ UNCHANGED <<stopping, histVars>>

-----------------------------------------------------------------------------
(* The chain: outer middleware, routers, handler. *)

InChain(u, s) == chain[u] = s

Goto(u, s) == chain' = Set(chain, u, s)

(* The chain's promise settles, and its local variables are gone. *)
Settle(u, s) ==
  /\ Goto(u, s)
  /\ local' = Set(local, u, NoLocals)
  /\ found' = Set(found, u, NotFound)

(* runChain without its guard. *)
NextAlways(pos, reached) == TRUE

(* runChain: next() may be called once per middleware. *)
NextAllowed(pos, reached) == pos > reached

(* skipSelf and accessControl refuse by the sender. *)
OwnEcho(u) == Contains(Outer, "skipSelf") /\ ctx[u].senderId = Self

Barred(u) == Contains(Outer, "accessControl") /\ ctx[u].senderId \in Denied

(* throttle, roomThrottle and commandThrottle count the updates of a key    *)
(* in a window of time, and once remembers the keys it was shown; key,      *)
(* limit and window are the application's, so either may refuse any update. *)
MayBeThrottled == IF Contains(Outer, "throttle") THEN BOOLEAN ELSE {FALSE}

MayBeSeen == IF Contains(Outer, "once") THEN BOOLEAN ELSE {FALSE}

(* The middleware on the way in, to the innermost dispatch().  One that    *)
(* refuses the update does not call next().                                *)
EnterOuter(u) ==
  /\ InChain(u, "outer")
  /\ \E over \in MayBeThrottled, seen \in MayBeSeen :
       IF OwnEcho(u) \/ Barred(u) \/ over \/ seen THEN Settle(u, "ok")
       ELSE Goto(u, "enter") /\ local' = [local EXCEPT ![u].index = Len(Outer)] /\ UNCHANGED found
  /\ UNCHANGED <<feedVars, err, aborted, waiterVars, stopping, histVars>>

(* routeUpdate: the signal is looked at before each router and only there. *)
EnterRouter(u) ==
  /\ InChain(u, "enter")
  /\ LET more == local[u].root <= Len(Roots)
     IN IF more /\ aborted[u] THEN Settle(u, "ok")
        ELSE Goto(u, IF more THEN "match" ELSE "fallback") /\ UNCHANGED <<local, found>>
  /\ UNCHANGED <<feedVars, err, aborted, waiterVars, stopping, histVars>>

(* The filters have answered. *)
MatchRouter(u) ==
  /\ InChain(u, "match")
  /\ found' = Set(found, u, Resolve(Roots[local[u].root], ctx[u], found[u].cmd))
  /\ IF found'[u].route # NoRoute
     THEN Goto(u, "handler") /\ runs' = [runs EXCEPT ![u] = @ + 1] /\ UNCHANGED local
     ELSE Goto(u, "enter") /\ local' = [local EXCEPT ![u].root = @ + 1] /\ UNCHANGED runs
  /\ UNCHANGED <<feedVars, err, aborted, waiterVars, stopping, answers>>

(* assertWritable. *)
Refused(u) == IF aborted[u] THEN "timeout" ELSE IF stopping THEN "stopped" ELSE "none"

RunsUserCode(u) == chain[u] \in {"handler", "fallback"}

(* Where an error thrown by application code goes first. *)
ThrowTo(u) == IF InChain(u, "handler") THEN "caught" ELSE "unwind"

(* The handler sends through its context. *)
HandlerAnswers(u) ==
  /\ RunsUserCode(u) /\ answers[u] < MaxAnswers
  /\ IF Refused(u) = "none"
     THEN answers' = [answers EXCEPT ![u] = @ + 1] /\ UNCHANGED <<chain, err>>
     ELSE Goto(u, ThrowTo(u)) /\ err' = Set(err, u, Refused(u)) /\ UNCHANGED answers
  /\ UNCHANGED <<feedVars, local, found, aborted, waiterVars, stopping, runs>>

HandlerReturns(u) ==
  /\ RunsUserCode(u)
  /\ Settle(u, "ok")
  /\ UNCHANGED <<feedVars, err, aborted, waiterVars, stopping, histVars>>

HandlerThrows(u, e) ==
  /\ RunsUserCode(u)
  /\ Goto(u, ThrowTo(u)) /\ err' = Set(err, u, e)
  /\ UNCHANGED <<feedVars, local, found, aborted, waiterVars, stopping, histVars>>

(* Router.feed: error handlers of the router that matched and its parents. *)
RouterErrors(u) ==
  /\ InChain(u, "caught")
  /\ IF HandleError(found[u].router)
     THEN Settle(u, "ok")
     ELSE Goto(u, "unwind") /\ UNCHANGED <<local, found>>
  /\ UNCHANGED <<feedVars, err, aborted, waiterVars, stopping, histVars>>

Retries(u) ==
  Contains(Outer, "rateLimitBackoff") /\ err[u] = "ratelimited" /\ local[u].attempt < MaxRetries

(* rateLimitBackoff waits and calls next() again. *)
RetryNext(u) ==
  /\ InChain(u, "unwind") /\ Retries(u)
  /\ IF NextAllowed(Len(Outer), local[u].index)
     THEN /\ Goto(u, "enter")
          /\ local' = [local EXCEPT ![u].root = 1, ![u].attempt = @ + 1]
          /\ UNCHANGED err
     ELSE err' = Set(err, u, "twice") /\ UNCHANGED <<chain, local>>
  /\ UNCHANGED <<feedVars, found, aborted, waiterVars, stopping, histVars>>

(* The error leaves the chain.  errorReply answers first; when the context *)
(* is not writable, answer() throws its own error instead.                 *)
Unwind(u) ==
  /\ InChain(u, "unwind") /\ ~Retries(u)
  /\ Settle(u, "failed")
  /\ IF Contains(Outer, "errorReply")
     THEN IF Refused(u) = "none"
          THEN answers' = [answers EXCEPT ![u] = @ + 1] /\ UNCHANGED err
          ELSE err' = Set(err, u, Refused(u)) /\ UNCHANGED answers
     ELSE UNCHANGED <<err, answers>>
  /\ UNCHANGED <<feedVars, aborted, waiterVars, stopping, runs>>

-----------------------------------------------------------------------------
(* The rest of Dispatcher.feed and of the feed that awaits it. *)

(* A timer that rejects the race and leaves the signal alone. *)
TimeoutWithoutAbort(u) ==
  /\ pc[u] = "race" /\ chain[u] \notin {"ok", "failed"}
  /\ pc' = Set(pc, u, "catch")
  /\ UNCHANGED <<ctx, snap, outcome, chainVars, waiterVars, stopping, histVars>>

(* A timer cleared as soon as it was set. *)
TimeoutNever(u) == FALSE /\ UNCHANGED vars

(* withTimeout: the timer fires before the chain settles; the chain goes on. *)
HandlerTimeout(u) ==
  /\ pc[u] = "race" /\ chain[u] \notin {"ok", "failed"}
  /\ aborted' = Set(aborted, u, TRUE)
  /\ pc' = Set(pc, u, "catch")
  /\ UNCHANGED <<ctx, snap, outcome, chain, err, local, found, waiterVars, stopping, histVars>>

ChainSettles(u) ==
  /\ pc[u] = "race" /\ chain[u] \in {"ok", "failed"}
  /\ IF InChain(u, "ok") THEN pc' = Set(pc, u, "count") /\ UNCHANGED aborted
     ELSE /\ pc' = Set(pc, u, "catch")
          /\ aborted' = Set(aborted, u, TRUE)
  /\ err' = Set(err, u, "none")
  /\ UNCHANGED <<ctx, snap, outcome, chain, local, found, waiterVars, stopping, histVars>>

(* runErrorHandlers has answered: swallowed, or thrown to the feed, which  *)
(* at most logs it.                                                        *)
ErrorHandlersAnswer(u, yes) ==
  /\ pc[u] = "catch"
  /\ IF yes THEN pc' = Set(pc, u, "count") /\ UNCHANGED outcome ELSE End(u, "raised")
  /\ UNCHANGED <<ctx, snap, chainVars, waiterVars, stopping, histVars>>

(* The counters of Dispatcher.stats and the result of feed, which is only  *)
(* logged, are left out.                                                   *)
Count(u) ==
  /\ pc[u] = "count"
  /\ End(u, "returned")
  /\ UNCHANGED <<ctx, snap, chainVars, waiterVars, stopping, histVars>>

(* bot.stop(): what it does to updates in flight is to set the flag. *)
Stop ==
  /\ Busy
  /\ ~stopping /\ stopping' = TRUE
  /\ UNCHANGED <<feedVars, chainVars, waiterVars, histVars>>

-----------------------------------------------------------------------------
Feed(u) ==
  /\ \A v \in 1..(u - 1) : pc[v] # "idle"
  /\ \/ \E e \in RoomEvents, b \in BOOLEAN : FeedRoomEvent(u, e, b)
     \/ u \in OtherUpdates /\ \E e \in OtherEvents :
          FeedEphemeral(u, e) \/ \E t \in DirectTypes : FeedDirect(u, e, t)

(* The coroutine of the feed, and the handler timer. *)
FeedStep(u) ==
  \/ ContextBuilt(u) \/ AskWaiter(u, FALSE) \/ AskWaiter(u, TRUE)
  \/ HandlerTimeout(u) \/ ChainSettles(u) \/ Count(u)
  \/ \E yes \in Swallows : ErrorHandlersAnswer(u, yes)

ChainStep(u) ==
  \/ EnterOuter(u) \/ EnterRouter(u) \/ MatchRouter(u)
  \/ RouterErrors(u) \/ RetryNext(u) \/ Unwind(u)

Handler(u) ==
  \/ HandlerAnswers(u) \/ HandlerReturns(u)
  \/ \E e \in {"app", "ratelimited"} : HandlerThrows(u, e)

DispatchNext ==
  \/ \E u \in Updates : Feed(u) \/ FeedStep(u) \/ ChainStep(u) \/ Handler(u)
  \/ \E w \in Waiters : WaitFor(w) \/ WaitTimeout(w)
  \/ Stop

(* The event loop runs the continuations of a feed and the handler timer;  *)
(* waitFor filters and dispatcher error handlers are taken to answer, and  *)
(* nothing is assumed of middleware, routing filters and handlers.         *)
DispatchSpec == DispatchInit /\ [][DispatchNext]_vars /\ \A u \in Updates : WF_vars(FeedStep(u))

-----------------------------------------------------------------------------
(* One update starts one handler, once: not again when rateLimitBackoff    *)
(* calls next() a second time, and never both a waiter and a handler.      *)
HandledAtMostOnce ==
  \A u \in Updates :
    /\ runs[u] <= 1
    /\ \A w \in Waiters : u \in got[w] => runs[u] = 0

(* Once the dispatch of an update is over, by timeout or otherwise, its    *)
(* handler, which may still be running, sends nothing through its context; *)
(* and no context sends once stop() has begun.                             *)
NoLateAnswer ==
  [][\A u \in Updates : answers'[u] # answers[u] => outcome[u] = "none" /\ pc[u] = "race" /\ ~stopping]_vars

(* An update taken from the routers for a waiter reaches that waiter,      *)
(* unless the waiter was settled, by its timer or by another update, while *)
(* its filter was being awaited: a waiter that is still registered never   *)
(* loses one.                                                              *)
ConsumedIsDelivered ==
  [][\A u \in Updates : outcome'[u] = "consumed" /\ outcome[u] = "none" =>
       LET w == Head(snap[u])
       IN IF Contains(waiters, w) THEN got'[w] = {u} /\ ~Contains(waiters', w) ELSE settled[w] # "no"]_vars

(* With a handler timeout the dispatch of every update ends, whatever its  *)
(* handler does.                                                           *)
EveryFeedEnds == \A u \in Updates : pc[u] # "idle" ~> pc[u] = "done"
=============================================================================
