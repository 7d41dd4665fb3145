---------------------------- MODULE SyncDelivery ----------------------------
(***************************************************************************)
(* How a room event gets from the homeserver to a handler, exactly how     *)
(* often, and what survives a crash: the /sync loop (sync.ts), the         *)
(* client's handleSync and emitTimelineEvent (client.ts), the event        *)
(* deduper (dispatch-queue.ts), the queue of undecryptable events          *)
(* (crypto.ts) and the state persisted in sync.json.                       *)
(*                                                                         *)
(* Events are numbered in the order the homeserver accepts them; a sync    *)
(* token is the number of the last event it covers.  The number is also    *)
(* the event's timestamp: clocks agree.  Every batch fits the timeline     *)
(* limit, so no batch is gapped.                                           *)
(***************************************************************************)
EXTENDS Integers, FiniteSets, Sequences, Functions

CONSTANTS
  NumEvents,          \* bound on the events ever sent
  RoomOrder,          \* the rooms, in the order a response lists them
  RoomOf,             \* the room of each event
  Encrypted,          \* the events sent encrypted
  DedupCapacity,      \* capacity of EventDeduper (2048 in the code); the runs keep it
                      \* above the events a process sees
  MaxPoisonRetries,   \* MAX_POISON_RETRIES (3 in the code)
  MaxDecryptAttempts  \* MAX_DECRYPT_ATTEMPTS (6 in the code)

Events == 1..NumEvents

ASSUME BoundsAssumption ==
  /\ NumEvents \in Nat
  /\ DedupCapacity \in Nat \ {0}
  /\ MaxPoisonRetries \in Nat
  /\ MaxDecryptAttempts \in Nat \ {0}
  /\ Encrypted \subseteq Events
  /\ RoomOf \in [Events -> Range(RoomOrder)]

NoToken == -1  \* next_batch is null: never synced
NoKey == -2    \* poisonBatch is null; the key of the initial batch is NoToken

VARIABLES
  log,      \* homeserver: how many events it has accepted
  sent,     \* homeserver: events whose room key was sent to the bot
  disk,     \* sync.json: next_batch, bootstrap_done, filter_id present
  known,    \* crypto store: events whose room key the bot has
  loop,     \* the locals of SyncLoop.loop() and of the handleSync() it awaits
  client,   \* in-memory state of the client: cold-start instant, deduper, pending decrypts,
            \* whether the crypto engine is ready
  hits,     \* history: how often each event was dispatched in this process life
  ever,     \* history: events dispatched in any life
  waived    \* history: events the code gave up on, see NothingLost

server == <<log, sent>>
history == <<hits, ever, waived>>
vars == <<log, sent, disk, known, loop, client, hits, ever, waived>>

Tokens == {NoToken} \cup 0..NumEvents
SyncStates == [next : Tokens, boot : BOOLEAN, filter : BOOLEAN]
Responses == [from : 1..(NumEvents + 1), to : Tokens, keys : SUBSET Encrypted]
NoResponse == [from |-> 1, to |-> NoToken, keys |-> {}]
Work == [crypto : BOOLEAN, rooms : SUBSET Range(RoomOrder), events : SUBSET Events]
NoWork == [crypto |-> FALSE, rooms |-> {}, events |-> {}]
LoopPcs == {"down", "top", "request", "answered", "handling", "backoff", "exited"}

Loops ==
  [pc : LoopPcs, state : SyncStates, poison : Tokens \cup {NoKey},
   poisonCount : 0..MaxPoisonRetries, resp : Responses, todo : Work,
   bootstrap : BOOLEAN, stopping : BOOLEAN]
Clients ==
  [cold : Tokens, recent : Seq(Events), attempts : [Encrypted -> 0..MaxDecryptAttempts],
   ready : BOOLEAN]

TypeOK ==
  /\ log \in 0..NumEvents
  /\ sent \subseteq Encrypted /\ known \subseteq Encrypted
  /\ disk \in SyncStates
  /\ loop \in Loops /\ client \in Clients
  /\ Len(client.recent) <= DedupCapacity
  /\ hits \in [Events -> 0..2]
  /\ ever \subseteq Events /\ waived \subseteq Events

NewLoop(pc, state) ==
  [pc |-> pc, state |-> state, poison |-> NoKey, poisonCount |-> 0,
   resp |-> NoResponse, todo |-> NoWork, bootstrap |-> FALSE, stopping |-> FALSE]

(* attempts[e] = 0: e is not waiting for its room key. *)
NewClient ==
  [cold |-> NoToken, recent |-> <<>>, attempts |-> [e \in Encrypted |-> 0], ready |-> FALSE]

ColdState == [next |-> NoToken, boot |-> FALSE, filter |-> FALSE]

Init ==
  /\ log = 0 /\ sent = {}
  /\ disk = ColdState
  /\ known = {}
  /\ loop = NewLoop("down", ColdState)
  /\ client = NewClient
  /\ hits = [e \in Events |-> 0]
  /\ ever = {} /\ waived = {}

-----------------------------------------------------------------------------
(* The homeserver and the other users. *)

SendEvent ==
  /\ log < NumEvents
  /\ log' = log + 1
  /\ UNCHANGED <<sent, disk, known, loop, client, history>>

(* The sender's device hands the bot the room key of an encrypted event,   *)
(* possibly long after the event.                                          *)
SendKey(e) ==
  /\ e <= log /\ e \notin sent
  /\ sent' = sent \cup {e}
  /\ UNCHANGED <<log, disk, known, loop, client, history>>

-----------------------------------------------------------------------------
(* The process. *)

(* Bot.start -> MatrixClient.start -> SyncLoop.start -> loadSyncState.     *)
(* With `crypto: false`, or in a program that drives MatrixClient itself   *)
(* and has not called prepareCrypto, the crypto engine is not ready.       *)
Start ==
  /\ loop.pc = "down"
  /\ loop' = NewLoop("top", disk)
  /\ \E ready \in BOOLEAN : client' = [NewClient EXCEPT !.ready = ready]
  /\ hits' = [e \in Events |-> 0]
  /\ UNCHANGED <<server, disk, known, ever, waived>>

(* prepareCrypto, late. *)
PrepareCrypto ==
  /\ loop.pc # "down" /\ ~client.ready
  /\ client' = [client EXCEPT !.ready = TRUE]
  /\ UNCHANGED <<server, disk, known, loop, history>>

Waiting == {e \in Encrypted : client.attempts[e] > 0}

(* The process ends, by a crash at any point or after stop() or a fatal    *)
(* error.  Events waiting for a key are only in memory.                    *)
ProcessEnds ==
  /\ loop.pc # "down"
  /\ loop' = NewLoop("down", ColdState)
  /\ client' = NewClient
  /\ waived' = waived \cup {e \in Waiting : e <= disk.next}
  /\ UNCHANGED <<server, disk, known, hits, ever>>

(* MatrixClient.stop sets `stopping`, closes the dispatch queue and stops  *)
(* the loop.                                                               *)
Stop ==
  /\ loop.pc \notin {"down", "exited"}
  /\ ~loop.stopping
  /\ loop' = [loop EXCEPT !.stopping = TRUE]
  /\ UNCHANGED <<server, disk, known, client, history>>

-----------------------------------------------------------------------------
(* SyncLoop.loop(). *)

Goto(pc) == loop' = [loop EXCEPT !.pc = pc]

(* stop() ends the loop at its top, in an aborted request, on the response *)
(* that was already there, and in an aborted sleep.                        *)
Leave ==
  /\ loop.stopping
  /\ loop.pc \in {"top", "request", "answered", "backoff"}
  /\ Goto("exited")
  /\ UNCHANGED <<server, disk, known, client, history>>

(* The filter is there already. *)
KeepFilter ==
  /\ loop.pc = "top" /\ ~loop.stopping
  /\ loop.state.filter
  /\ Goto("request")
  /\ UNCHANGED <<server, disk, known, client, history>>

(* The runtime filter is uploaded and its id saved, before the first sync  *)
(* too: bootstrap_done stays as it is.                                     *)
UploadFilter ==
  /\ loop.pc = "top" /\ ~loop.stopping
  /\ ~loop.state.filter
  /\ LET state == [loop.state EXCEPT !.filter = TRUE] IN
       /\ loop' = [loop EXCEPT !.pc = "request", !.state = state]
       /\ disk' = state
  /\ UNCHANGED <<server, known, client, history>>

(* The upload failed: this round goes without a filter. *)
UploadFilterFails ==
  /\ loop.pc = "top" /\ ~loop.stopping
  /\ ~loop.state.filter
  /\ Goto("request")
  /\ UNCHANGED <<server, disk, known, client, history>>

(* The first event the homeserver lists: the one after the token, or one   *)
(* it delivers again.                                                      *)
FirstEvents == IF loop.state.next = NoToken THEN {1} ELSE 1..(loop.state.next + 1)

(* The homeserver answers; the response is on its way. *)
ServerAnswers ==
  /\ loop.pc = "request"
  /\ \E f \in FirstEvents :
       loop' = [loop EXCEPT !.pc = "answered",
                            !.resp = [from |-> f, to |-> log, keys |-> sent]]
  /\ UNCHANGED <<server, disk, known, client, history>>

(* The request failed, or the response has no next_batch: back off. *)
RequestFails ==
  /\ loop.pc = "request" /\ ~loop.stopping
  /\ Goto("backoff")
  /\ UNCHANGED <<server, disk, known, client, history>>

(* The filter upload or the request is refused for good: onFatal, stop. *)
AuthFails ==
  /\ loop.pc \in {"top", "request"} /\ ~loop.stopping
  /\ Goto("exited")
  /\ UNCHANGED <<server, disk, known, client, history>>

WakeUp ==
  /\ loop.pc = "backoff" /\ ~loop.stopping
  /\ Goto("top")
  /\ UNCHANGED <<server, disk, known, client, history>>

NeedBootstrap == loop.state.next = NoToken \/ ~loop.state.boot

(* The work handleSync has with a response: crypto and to-device messages, *)
(* the rooms it names, their timelines.  A bootstrap never gets to those.  *)
WorkList(resp, bootstrap) ==
  LET batch == resp.from..resp.to IN
    [crypto |-> TRUE, rooms |-> {RoomOf[e] : e \in batch},
     events |-> IF bootstrap THEN {} ELSE batch]

(* The token saved before the batch is handled. *)
BeginHandleSaving ==
  /\ loop.pc = "answered" /\ ~loop.stopping
  /\ loop' = [loop EXCEPT !.pc = "handling", !.bootstrap = NeedBootstrap,
                          !.todo = WorkList(loop.resp, NeedBootstrap)]
  /\ disk' = [next |-> loop.resp.to, boot |-> TRUE, filter |-> loop.state.filter]
  /\ client' = IF NeedBootstrap /\ client.cold = NoToken
               THEN [client EXCEPT !.cold = log] ELSE client
  /\ UNCHANGED <<server, known, history>>

(* The loop calls onSync; handleSync notes the instant of the first        *)
(* bootstrap of this process.                                              *)
BeginHandle ==
  /\ loop.pc = "answered" /\ ~loop.stopping
  /\ loop' = [loop EXCEPT !.pc = "handling", !.bootstrap = NeedBootstrap,
                          !.todo = WorkList(loop.resp, NeedBootstrap)]
  /\ client' = IF NeedBootstrap /\ client.cold = NoToken
               THEN [client EXCEPT !.cold = log] ELSE client
  /\ UNCHANGED <<server, disk, known, history>>

-----------------------------------------------------------------------------
(* handleSync(), one step per await. *)

Listed(r, s) ==
  \E i, j \in 1..Len(RoomOrder) : i < j /\ RoomOrder[i] = r /\ RoomOrder[j] = s

(* Crypto goes first. *)
CryptoDue == loop.pc = "handling" /\ loop.todo.crypto

(* Then the rooms in the order of the response, each one's state and then, *)
(* before the next room, its timeline.                                     *)
RoomDue(r) ==
  /\ loop.pc = "handling" /\ ~loop.todo.crypto
  /\ r \in loop.todo.rooms
  /\ \A s \in loop.todo.rooms \ {r} : Listed(r, s)
  /\ \A e \in loop.todo.events : RoomOf[e] \in loop.todo.rooms

EventDue(e) ==
  /\ loop.pc = "handling" /\ ~loop.todo.crypto
  /\ e \in loop.todo.events /\ RoomOf[e] \notin loop.todo.rooms
  /\ \A d \in loop.todo.events : d < e => RoomOf[d] \in loop.todo.rooms

AllDone == loop.pc = "handling" /\ loop.todo = NoWork

EventDone(e) == loop' = [loop EXCEPT !.todo.events = @ \ {e}]

(* handlers.onRoomEvent is called for these events. *)
Dispatch(es) ==
  /\ hits' = [e \in Events |-> IF e \in es /\ hits[e] < 2 THEN hits[e] + 1 ELSE hits[e]]
  /\ ever' = ever \cup es

(* retryPendingDecrypts: every event still waiting is tried once per sync, *)
(* whether a key came or not, and dropped at the limit.                    *)
Exhausted == {e \in Waiting : client.attempts[e] >= MaxDecryptAttempts}
Recovered(keys) == {e \in Waiting \ Exhausted : e \in keys}

RetryPending(keys) ==
  [e \in Encrypted |->
     CASE e \in Exhausted \cup Recovered(keys) -> 0
       [] e \in Waiting \ (Exhausted \cup Recovered(keys)) -> client.attempts[e] + 1
       [] OTHER -> client.attempts[e]]

(* crypto.receiveSync: room keys are stored, waiting events are retried    *)
(* and recovered ones dispatched.  (The other to-device messages it hands  *)
(* to the bot: FeedDirect in BotDispatch.)  An engine that is not ready    *)
(* takes the keys all the same; without an engine nobody does.             *)
HandleCrypto ==
  /\ CryptoDue
  /\ known' = known \cup loop.resp.keys \/ (~client.ready /\ UNCHANGED known)
  /\ client' = [client EXCEPT !.attempts = RetryPending(known')]
  /\ Dispatch(Recovered(known'))
  /\ waived' = waived \cup Exhausted
  /\ loop' = [loop EXCEPT !.todo.crypto = FALSE]
  /\ UNCHANGED <<server, disk>>

(* handleJoinedRoom up to its timeline: state, member tracking. *)
HandleRoom(r) ==
  /\ RoomDue(r)
  /\ loop' = [loop EXCEPT !.todo.rooms = @ \ {r}]
  /\ UNCHANGED <<server, disk, known, client, history>>

(* EventDeduper.seen on an event it does not hold: the oldest entry of a   *)
(* full ring goes.                                                         *)
Remember(e) ==
  LET recent == Append(client.recent, e) IN
    IF Len(recent) > DedupCapacity THEN Tail(recent) ELSE recent

(* A deduper that never remembers. *)
SeenNever(e) == FALSE

Seen(e) == e \in Range(client.recent)

(* A client that does not compare timestamps. *)
TooOldNever(e) == FALSE

TooOld(e) == client.cold # NoToken /\ e <= client.cold

(* "skipping encrypted event: crypto is not ready" *)
Skipped(e) == e \in Encrypted /\ ~client.ready

Undecryptable(e) == e \in Encrypted \ known

(* emitTimelineEvent returns without calling a handler: the client is      *)
(* stopping, or the event was seen, is older than the cold start, is       *)
(* encrypted while crypto is not ready, or is queued until its room key    *)
(* arrives.                                                                *)
EmitNothing(e) ==
  /\ EventDue(e)
  /\ \/ /\ loop.stopping
        /\ waived' = waived \cup ({e} \ ever)
        /\ UNCHANGED client
     \/ /\ ~loop.stopping /\ Seen(e)
        /\ UNCHANGED <<waived, client>>
     \/ /\ ~loop.stopping /\ ~Seen(e) /\ (TooOld(e) \/ Skipped(e))
        /\ waived' = waived \cup {e}
        /\ client' = [client EXCEPT !.recent = Remember(e)]
     \/ /\ ~loop.stopping /\ ~Seen(e) /\ ~TooOld(e) /\ ~Skipped(e) /\ Undecryptable(e)
        /\ client' = [client EXCEPT !.recent = Remember(e),
                                    !.attempts[e] = IF @ = MaxDecryptAttempts THEN @ ELSE @ + 1]
        /\ UNCHANGED waived
  /\ EventDone(e)
  /\ UNCHANGED <<server, disk, known, hits, ever>>

(* emitTimelineEvent marks the event as seen and calls the handler. *)
Deliver(e) ==
  /\ ~loop.stopping /\ ~Seen(e) /\ ~TooOld(e) /\ ~Skipped(e) /\ ~Undecryptable(e)
  /\ client' = [client EXCEPT !.recent = Remember(e),
                              !.attempts = [x \in Encrypted |-> IF x = e THEN 0 ELSE @[x]]]
  /\ Dispatch({e})

EmitEvent(e) ==
  /\ EventDue(e)
  /\ Deliver(e)
  /\ EventDone(e)
  /\ UNCHANGED <<server, disk, known, waived>>

-----------------------------------------------------------------------------
(* The end of a batch. *)

(* State saved by the loop after a batch, whether onSync returned or the   *)
(* batch is skipped.                                                       *)
Advance ==
  LET state == [next |-> loop.resp.to, boot |-> TRUE, filter |-> loop.state.filter] IN
    /\ loop' = [loop EXCEPT !.pc = "top", !.state = state, !.poison = NoKey, !.poisonCount = 0,
                            !.resp = NoResponse, !.todo = NoWork, !.bootstrap = FALSE]
    /\ disk' = state

InBatch == {e \in Events : loop.resp.from <= e /\ e <= loop.resp.to}

(* onSync resolved.  A bootstrap has no use for the timeline it was given. *)
FinishBatch ==
  /\ AllDone
  /\ Advance
  /\ waived' = IF loop.bootstrap THEN waived \cup (InBatch \ ever) ELSE waived
  /\ UNCHANGED <<log, sent, known, client, hits, ever>>

PoisonCount == IF loop.poison = loop.state.next THEN loop.poisonCount + 1 ELSE 1

(* onSync threw, and the same batch may be tried again: the loop backs     *)
(* off, unless it was stopped or the error is an authentication failure.   *)
RetryBatch(auth) ==
  /\ PoisonCount <= MaxPoisonRetries
  /\ loop' = [loop EXCEPT !.pc = IF loop.stopping \/ auth THEN "exited" ELSE "backoff",
                          !.poison = loop.state.next, !.poisonCount = PoisonCount,
                          !.resp = NoResponse, !.todo = NoWork, !.bootstrap = FALSE]
  /\ UNCHANGED <<disk, waived>>

(* A loop that retries a batch as often as it fails. *)
SkipBatchNever ==
  /\ PoisonCount > MaxPoisonRetries
  /\ loop' = [loop EXCEPT !.pc = "backoff", !.resp = NoResponse, !.todo = NoWork, !.bootstrap = FALSE]
  /\ UNCHANGED <<disk, waived>>

(* It has failed too often: the loop goes on as if it had been handled. *)
SkipBatch ==
  /\ PoisonCount > MaxPoisonRetries
  /\ Advance
  /\ waived' = waived \cup (InBatch \ ever')

(* crypto.receiveSync throws before anything reaches a handler, but maybe  *)
(* after the keys were stored (an outgoing request failed); or member      *)
(* tracking of a room does; or, once all is done, an onEphemeral handler.  *)
HandleThrows(auth) ==
  /\ \/ CryptoDue /\ known' \in {known, known \cup loop.resp.keys}
     \/ (AllDone \/ \E r \in loop.todo.rooms : RoomDue(r)) /\ UNCHANGED known
  /\ UNCHANGED <<hits, ever>>
  /\ RetryBatch(auth) \/ SkipBatch
  /\ UNCHANGED <<log, sent, client>>

(* The handler itself throws, after the event was marked as seen. *)
EmitThrows(e) ==
  /\ EventDue(e)
  /\ Deliver(e)
  /\ RetryBatch(FALSE) \/ SkipBatch
  /\ UNCHANGED <<log, sent, known>>

-----------------------------------------------------------------------------
Environment == SendEvent \/ (\E e \in Encrypted : SendKey(e))

Filter == KeepFilter \/ UploadFilter \/ UploadFilterFails

Handle ==
  \/ HandleCrypto \/ (\E r \in Range(RoomOrder) : HandleRoom(r))
  \/ (\E e \in Events : EmitNothing(e) \/ EmitEvent(e) \/ EmitThrows(e))
  \/ FinishBatch \/ (\E auth \in BOOLEAN : HandleThrows(auth))

Next ==
  \/ Environment
  \/ Start \/ PrepareCrypto \/ ProcessEnds \/ Stop \/ Leave
  \/ Filter \/ ServerAnswers \/ RequestFails \/ AuthFails \/ WakeUp
  \/ BeginHandle \/ Handle

(* The event loop keeps running the process, sleeps end, and a homeserver  *)
(* that is asked again and again sometimes answers.  Handlers may throw    *)
(* every time.                                                             *)
Fairness ==
  /\ WF_vars(Leave) /\ WF_vars(Filter) /\ WF_vars(WakeUp)
  /\ SF_vars(ServerAnswers)
  /\ WF_vars(BeginHandle) /\ WF_vars(Handle)

Spec == Init /\ [][Next]_vars

FairSpec == Spec /\ Fairness

-----------------------------------------------------------------------------
(* EventDeduper, "without dedup the bot would answer the same message      *)
(* twice": within one process life no event reaches a handler twice,       *)
(* through failed and retried batches, redelivered batches and late        *)
(* decryption.                                                             *)
AtMostOncePerLife == \A e \in Events : hits[e] <= 1

(* A token persisted in sync.json is a promise: every event it covers has  *)
(* reached a handler in this life or an earlier one, or waits for its room *)
(* key, or was given up on for one of the reasons the code has: it is      *)
(* history of a bootstrap or older than it, stop() came during the batch,  *)
(* the batch was skipped as poison, crypto was not ready, the key did not  *)
(* come in time, or the process ended while the event waited for its key.  *)
(* Of a crash nothing else is lost.                                        *)
NothingLost ==
  \A e \in Events :
    e <= disk.next => e \in ever \cup waived \/ (e \in Encrypted /\ client.attempts[e] > 0)

(* SyncLoop, "a cold start ... never dispatches timeline events into       *)
(* handlers" and "drops timeline events older than the bootstrap instant": *)
(* a process that bootstrapped dispatches nothing from before.             *)
HistoryStaysQuiet ==
  client.cold # NoToken => \A e \in 1..client.cold : hits[e] = 0

Running == loop.pc \notin {"down", "exited"} /\ ~loop.stopping

(* SyncLoop, "a batch that repeatedly breaks `onSync` is skipped instead   *)
(* of stalling": the persisted token passes every event sent, even if the  *)
(* handler throws each time, as long as the process runs.                  *)
LoopAdvances ==
  \A e \in Events : (log >= e /\ Running) ~> (disk.next >= e \/ ~Running)

=============================================================================
