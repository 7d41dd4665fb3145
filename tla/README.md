# A TLA+ development of aiomatrix

aiomatrix is a TypeScript framework for Matrix bots: a client that syncs with a
homeserver, decrypts and deduplicates events, dispatches them to routers and
handlers, and sends encrypted messages through a retrying HTTP layer. This
directory holds TLA+ modules for the parts of it whose correctness depends on
order, failure and time; TLC configurations that check them on small instances;
and TLAPS proofs for arbitrary sizes. `PROJECT.json` maps every definition to the
lines it translates.

Paths below are relative to the repository root (`src/` holds the code).

## 1. Inventory

Everything runs in one Node.js process on one thread. Code between two `await`s
is atomic; interleaving happens at `await`s, timers and settled promises.
Several processes meet only in the storage directory.

| Component | State | Operations | Hard part | What makes it correct |
|---|---|---|---|---|
| Dispatch queue (`dispatch-queue.ts`) | slot counter, busy rooms, waiters, `closed` | `run`, `acquire`, `release`, `close`, `drain` | callers arrive, are resumed and rejected between each other's awaits | one task per room, global limit, FIFO per room, no starvation, nothing runs after an empty drain |
| Event deduper (`dispatch-queue.ts`) | array, head index, set | `seen`, `forget` | index arithmetic and cutting | remembers exactly the last `capacity` events, bounded |
| Sync loop and delivery (`sync.ts`, `client.ts`, `cold-start.ts`) | token, filter, poison counter; `sync.json` | loop, `onSync`, stop, persistence | failed, repeated and skipped batches, crashes between handling and saving | no double dispatch, no silent loss, quiet cold start, progress |
| Late decryption (`crypto.ts`) | events waiting for a key, their attempts | `decryptRoomEvent`, `retryPendingDecrypts` | keys come after their events, in other batches | delivered once, given up only by the documented limits |
| Room cache and plaintext decision (`room-cache.ts`, `client.ts`) | per room: absent, unknown, plain, encrypted; `knownRooms` | `handleSync`, `isRoomEncrypted`, `sendEvent`, `leaveRoom`, LRU eviction | a state read and a sync answer cross each other; deltas are not snapshots | no plaintext into a room known to be encrypted |
| HTTP and token refresh (`http.ts`, `session-recovery.ts`, `login.ts`) | bearer token, refresh in flight, `session.json` | `request`, `attempt`, `tryRefreshToken`, the refresh hook | ambiguous failures, concurrent 401s, rotated refresh tokens, crashes | safe replays, a recoverable session, every request settles |
| Outbox (`outbox.ts`, `send.ts`, `bot.ts`) | `outbox.json` | enqueue, list, remove, bump, flush | a flush and new sends share a file; crash between send and removal | nothing queued is forgotten; keyed messages posted once |
| Storage lock (`storage-lock.ts`) | `aiomatrix.lock` | `acquire`, `release` | two processes between read and rename; dead and reused pids | one holder, but for bots that raced |
| Session and login (`client.ts` `createMatrixClient`, `login.ts`, `session-recovery.ts`) | `session.json`, `device.json`, the crypto store's device | create, password login, whoami, re-login, `relocateSession`, device pruning | three files written one after the other, logins before the lock is taken, revoked tokens, crashes | token, device file and crypto store stay of one device |
| Updates, dispatcher, routers (`bot.ts` `feed*`, `waitFor`; `dispatcher.ts`, `router.ts`, `middleware.ts`, `filters.ts`, `context.ts`) | waiters, per update: context, chain, timeout | feed, `waitFor`, middleware, routing, handler, error handlers | concurrent updates, awaited filters, timeouts racing completion, retries by middleware | one handler per update and the right one, no late answers, every dispatch ends |
| Bot lifecycle (`bot.ts` `start`, `run`, `stop`, `getHealth`; `plugin.ts`) | started, stopping, crypto ready, timers | start, fatal errors, stop, restart | start and stop cross at their awaits; handlers and jobs go on meanwhile | health tells the truth, nothing acts after stop |
| Scheduler (`scheduler.ts`) | jobs, timer | add, cancel, tick, stop | jobs outlasting their period, cancelling each other | no overlap, nothing after stop |
| FSM storage and conversations (`fsm.ts`, `redis-stores.ts`, `conversation.ts`) | record per key, dirty flag, flush timer, file; step index | load, patch, persist, expire, flush; run, resume | read-modify-write across awaits, debounced writes, crashes | calls one after the other lose nothing; a conversation resumes where it was |
| Crypto engine (`crypto.ts`, `crypto-policy.ts`, `client.ts` `sendEvent`) | share state, dirty and tracked users, the engine's lock | prepare, receiveSync, share, rotate, encrypt, close | freshness tested outside the lock; sync overlaps sends | recipients' known devices can read, leavers cannot, no send hangs |
| Token stores, keyboards, callbacks (`token-store.ts`, `file-ttl-map.ts`, `redis-stores.ts`, `keyboards.ts`, `send.ts`) | issued, bound, used, answered and aliased tokens; files | issue, bind, resolve, claim, answer, revoke, persist | sends that fail or are late, several processes, full stores, crash before the write | single use, dead buttons stay dead, shown buttons work |
| Mini-app server and bridge (`miniapp/`, `bot.ts`) | nonces, sessions, queries, the page's host | launch, authenticate, post data, answer | claims across awaits, stale membership, clock skew, capacity | one session per launch, one answer per query, data to the host only |
| Contents, text, errors, metrics, CLI | none shared | construction and validation of data | – | out of scope, except the command grammar |

How they interact: `SyncLoop` awaits `MatrixClient.handleSync`, which feeds
`CryptoEngine.receiveSync`, updates the room cache, and for each timeline event
calls the deduper, the decryption and `DispatchQueue.run`, whose task calls the
bot's handler *without* awaiting it. Handlers call back into `sendEvent`, which
asks the room cache (and perhaps the homeserver) whether to encrypt and ends in
`MatrixHttp.request`; a transient failure goes to the outbox. The bot's handler
builds a context, asks pending `waitFor` calls and else runs the dispatcher:
outer middleware, routers, the user's handler. `Bot.create` logs in, opens the
stores and then takes the storage lock; `Bot.start` verifies crypto, starts the
client and flushes the outbox; `Bot.stop` stops the scheduler and the client
(which closes and drains the queue and ends the loop), closes the crypto engine
and releases the lock.

The hazards, each at its line, are in `PROJECT.json` under `hazards`.

## 2. Modules and how they correspond to the code

* **DispatchQueue**: `globalActive`, `roomActive` and `closed` are the
  fields of the class; `waiters` is its list, `pc` the position of each caller of
  `run()`. The synchronous `release()` is a loop that wakes waiters; it is
  modelled as steps (`Release`, then `WakeOther`/`WakeAny` per iteration, then
  `WakeDone`) during which no other caller may step (`releasing # NoRoom` blocks
  the event loop), so that "one wake per release" is a checkable statement.
  Between being resumed (slot already taken by `release`) and `EnterTask` the
  continuation of `run()` waits in the microtask queue, where `close()` may
  overtake it (`EnterRefused`). `DrainStart`/`DrainReturn` are `stop()`'s drain.
* **RoomLines** states what the queue promises: one FIFO line per room, at most
  one holder per room and at most `Limit` in all. DispatchQueue instantiates it
  with the waiters of each room as its line (`ImplementsRoomLines`).
* **EventDeduper**, in the run of DispatchQueue because both are of one source
  file (a behaviour of that run is of one class or the other): `order`, `head` and `set` are the class's array, index and
  set; `seen` is split by its branches (duplicate, room left, eviction with or
  without a cut of the array), `forget` removes from the set only. `age` and
  `forgotten` are history variables for stating the window.
* **SyncDelivery**: `loop` holds the locals of `SyncLoop.loop` and of the
  `handleSync` it awaits, with the work that is left (`todo`: crypto first, then
  room by room its state and its events); `disk` is `sync.json`; `client` the
  cold-start instant, the deduper, the events waiting for a key and whether the
  crypto engine is ready (from the start, late by `PrepareCrypto`, or never). Every `await` of the handler is
  a point where it may throw, `stop()` may be called or the process may die. A
  token is the number of the last event covered.
* **RoomEncryption**: `cache[r]` is what `RoomCache.isEncrypted` would answer,
  `known` is `knownRooms`, `batch`/`todo` the response being handled, `send` and
  `refresh` reads of `m.room.encryption` under way. The homeserver switches
  encryption on at any point, never off. Both sync responses and reads are
  answered at one moment and applied at a later one.
* **MatrixHttp**: `req[q]` holds the locals of one `request()` call (attempt,
  `refreshed`, the token sent), `refresh` the shared `refreshInFlight` with the
  hook's progress, `session` the stored session. Credentials are numbered by
  generation. Timeouts, network errors and 5xx answers are one kind of answer,
  "lost", before which the homeserver may or may not have applied the request.
* **Outbox**: `store` is `outbox.json`, read and written whole by synchronous
  file operations; `call[m]` a `sendEventWithOutbox` call, `flush` the
  `flushOutbox` call of `Bot.start` with its snapshot of the entries.
* **StorageLock**: `file` is the pid in the lock file, `state[b]` each bot's
  progress; `acquire` is a read and a later write, between which bots of other
  processes may do the same. Pids are reused after a crash. `raced` (history)
  holds the pairs of bots of which one read the file before the other wrote it,
  `bared` the holders whose pid such a race has taken out of the file.
* **SessionBootstrap** EXTENDS StorageLock and composes it with everything
  around it: `sessionFile`, `deviceFile` and `store` are the three things on
  disk, `valid` the homeserver's view, `stage[b]` and `mem[b]` a bot's progress
  through `createMatrixClient`, `Bot.create`, its running life, re-login,
  `relocateSession` and `stop()`. Its lock steps are StorageLock's own actions;
  `BootSpec => Spec` is proved.
* **Updates** holds the computation on an event: cold-start table, type and
  fields of the context. A body is what the grammar sees of it (prefix, name,
  mention, argument tokens). **Routers** holds command grammar, argument schemas,
  filters, and `Router.resolve` and `handleError` over a tree of routers.
* **BotDispatch** dispatches: per update `pc` (the feed function and
  `Dispatcher.feed`) and `chain` (the promise it races with the handler
  timeout), which go on independently after a timeout; `waiters` with their
  timers; `aborted`, the context's signal, and `stopping`, which make a context
  refuse to send. What the routers answer is a parameter (`Resolve`,
  `HandleError`), so that the proofs hold for any routers; **RoutedDispatch**
  puts it together with Routers and states which handler runs.
* **Scheduler** and **FsmStorage** share a **Clock**. `Tick` copies the job map
  and `Visit` walks over it, so that a job may be cancelled in between. An
  `FSMContext` call is a load and a later persist; `map`, `disk`, `dirty` and
  `flushDue` are the storage; `want` (history) is the record an atomic context
  would have left. A conversation keeps its step index in the same storage;
  `turn` (history) is the step after the last one it handled, set back by a crash
  only, and then to `kept`, what had reached the storage. `begun` and `over` count
  the runs of a job.
* **BotLife** EXTENDS both and adds the `Bot`: `start()` step by step with each
  way of failing, `stop()`, the fatal error of the sync loop, `run()` with its
  signal (whose `dispatcher.close()` may come in the middle of a `stop()` somebody
  else called), process exit and crash. `setup` chooses one of nine programs.
* **CryptoShare**: `queue` is the engine's `AsyncLock`; `share`, `dirty` and
  `tracked` the bookkeeping outside it; `machine` and `session` stand for the
  OlmMachine (external: it tracks users, knows devices, picks the session). A
  send is a freshness test, perhaps a share in three parts, an encryption, and
  the PUT; a share whose requests fail may have reached any part of its devices; a sync response is received under the lock, applied to the rooms and
  tracked. Users may share another encrypted room with the bot (`Elsewhere`),
  which keeps them tracked while they are away from this one. `shared` (the
  session and users of the last complete share, and its `strays`, whom a failed
  share has given that session since), `owed`, `msg`, `overlap` and `lost` are
  history variables. A device counts as having a key once the request that
  carries it has gone out, as the machine counts it.
* **TtlStore** is the bounded map with expiry that several classes implement,
  **Subsequence** the part of a sequence that a filter keeps.
* **Callbacks**: per process the registry (`side`), the aliases and the store of
  used tokens with their files, beside the shared redis stores. One message, one
  button: operation 1 sends it, the later ones edit it, and the token an
  operation mints has its number.
* **MiniApp**: bot, page, HTTP server and answers of one user: `launched` (the
  signed data), `page` (the bridge), `nonces` (in memory, bounded, or in Redis),
  `sessions`, `queries`. A request `req[r]` is validated and claims its nonce,
  waits for the live membership (`ResolveRoomAuth`), and passes the gates in a
  later step; an answer `ans[a]` claims its query, perhaps in Redis, and is sent
  or fails. `claimed` is the bounded store of claims in the process, `disk` its
  file, written later, `claimedNX` the claims in Redis, `outbox` the answers that
  a restarted bot posts again. The clock has `Second` ticks to a second: launch
  data and sessions are dated in whole seconds, nonces and queries are not.
  `passed` (history) says of each request that passed the gates whether the user
  was a member when it came and what the resolver answered.

Each `MC…` module extends one of these with the constants of its run;
`…Proofs` modules hold theorems. Operators named for a mistake (`SeenNever`,
`ClaimBlindly`, …) stand before the definition they would replace; they document
what each property is able to notice and are used nowhere else. The `TypeOK` of
a module documents its state and can be checked by adding `INVARIANT TypeOK`.

## 3. Runs

| Run | Instance | Checks |
|---|---|---|
| `DispatchQueue` | 6 callers, rooms of 3, 2 and 1, limit 2; 4 keys, window of 2 | `QueueContract` (`OnePerRoom`, `WithinLimit`, `NoIdleSlot`, `OneWakePerRelease`, `DrainedStaysEmpty`), `ImplementsRoomLines`, `WaitersServed`; `RemembersWindow`, `NoFalseDuplicate` |
| `SyncDelivery` | 2 events in 2 rooms, the second encrypted; 1 poison retry, 2 decryption attempts | `AtMostOncePerLife`, `NothingLost`, `HistoryStaysQuiet`, `LoopAdvances` |
| `RoomEncryption` | 1 room, 2 senders | `NoPlaintextOnceTold`, `PlainIsAuthoritative` |
| `MatrixHttp` | an idempotent and a non-idempotent request; 1 retry, 1 expiry, 1 crash | `NonIdempotentOnce`, `SessionRecoverable`, `RequestsSettle` |
| `Outbox` | 3 messages, 2 keyed; 2 attempts, 3 crashes | `NothingForgotten`, `KeyedOnce` |
| `SessionBootstrap` | 2 bots in 2 processes; 2 devices, 4 tokens, 1 revocation, 1 crash | `SoleHolder`, `TokenMatchesStore`, `StoreReopens` |
| `BotDispatch` | 2 updates out of 4 events and an invite, 1 waiter, 3 routers, 6 outer middlewares | `HandledAtMostOnce`, `FirstRouteWins`, `NoLateAnswer`, `ConsumedIsDelivered`, `EveryFeedEnds` |
| `CryptoShare` | 2 users of at most 2 devices, 2 sends at once or 3 in a row, 2 events, 1 failure; three share policies | `KnownDevicesCanRead`, `LeaverCannotRead`, `EverySendEnds` |
| `StaleShare` | 2 users of 1 device, both in another encrypted room too; 3 sends, 2 events, 1 failure | `FreshShareReaches`, which TLC finds violated (section 4) |
| `MiniApp` | seven setups, of at most 2 launches, 4 requests, 3 answers, 1 restart and 3 seconds in half-second ticks; stores of 1 | `LaunchOnce`, `NoDataFromLeavers`, `AnsweredOnce`, `DataGoesToHost` |
| `Callbacks` | 1 send and up to 2 edits, up to 2 presses, 1 restart; memory, file and redis, the last with 2 processes; stores of 2 | `SingleUseOnce`, `DeadButtonsStayDead`, `ShownButtonsWork` |
| `BotLife` | 9 programs, 2 starts, 1 crash, clock to 2 | `JobRunsApart`, `SerialIfAlone`, `ConversationResumes`, `NothingLeftUnwritten`, `HealthIsHonest`, `StopQuiets` |

Run one with `tlc -config DispatchQueue.cfg MCDispatchQueue` (`StaleShare.cfg`
belongs to `MCCryptoShare`); each takes at most three minutes.

What the less obvious properties say:

* `ConsumedIsDelivered`: `tryResolveWaiter` takes an update away from the
  routers after an awaited filter. It is lost only if the waiter was settled
  during that await; a waiter that is still registered always gets it.
* `FirstRouteWins` compares the recursive, stateful `Router.resolve` with its
  declarative meaning: the first route in preorder whose own and inherited
  filters pass, and that the handler sees the command of its own filter.
* `KnownDevicesCanRead`: what a send owes is fixed when it finds the share fresh
  or shares; `LeaverCannotRead` is its counterpart, with two exceptions: the
  recipients of overlapping sends, and whom a share that failed half way reached.
* `SoleHolder`: of two holders of the lock, one has lost its entry in the file to
  a bot it raced with. `raced` and `bared` say no more than what the code's read
  and rename did, so that two holders without such a race are a violation.
* `JobRunsApart`: when a run of a job begins, all its earlier runs are over.
* `StoreReopens`: whatever fails, the next `create()` asks for the device the
  crypto store belongs to. It fails in exactly the two cases it names.
* `LaunchOnce`, `AnsweredOnce`, `SingleUseOnce`, `DeadButtonsStayDead`: single
  use, with the complete list of ways in which a mark may get lost (capacity,
  crash before the 50 ms write, clock skew and rounding) or an answer be posted
  after it was reported as failed.
* `NoDataFromLeavers` relates what the gates let pass to where the user was when
  the request came, through the awaits of the live read and the fallback to the
  launch's membership.
* `SerialIfAlone`: FSM records equal those of an atomic context unless two calls
  overlapped; `ConversationResumes` that the step handled next is the one after
  the last, and after a crash the one after the last that had reached the storage.
* `HealthIsHonest`: a healthy report implies that loop, queue, crypto and lock
  are as they should be, in the first life of a bot (see the known limits).

**Why the bounds are enough.** *DispatchQueue*: with three rooms and two slots
both reasons for parking (room busy, slots gone) occur alone and together, the
released room can have waiters of its own while others wait, and callers return
after they finish, so load never ends. *EventDeduper*: twice as many keys as the
window holds takes the head through every position, including the cut at twice
the capacity. *SyncDelivery*: an event and an encrypted event in different rooms
give batches with one or both, keys in the same, an earlier or a later batch,
and failures before, between and after them; one retry distinguishes "retry"
from "skip", two attempts "try again" from "give up"; lives and crashes are
unbounded. *RoomEncryption*: no operation relates two rooms, two senders give
overlapping reads. *MatrixHttp*: one expiry and three generations give a second
refresh while a request still carries the first token. *Outbox*: two attempts
distinguish bump from drop; the third crash allows a crash in the flush that
repeats a crashed flush. *SessionBootstrap*: two bots give every overlap of a
create with another bot's create, life, re-login or crash; the second device
appears exactly when something went wrong with the first. *BotDispatch*: two
updates compete for one waiter and run through all stages at once; the tree has
a parent, a child behind an include filter and a second root, a route whose
schema refuses after its name matched, and events for each of them. *CryptoShare*:
two sends overlap each other and a sync; two devices per user give "knew one of
two"; one failure can hit each request and reach any part of the devices; two
policies give rotation with every message and reuse with re-share, and the third
has the three sends in a row (share, share that fails half way, send that finds
the first share fresh) that it takes for a stray to read a message. *MiniApp*:
each setup has the bounds of its own hazards, all at once would be too large. Two
requests can carry one launch while a third uses its session; stores of one entry
are full after the first launch or claim; half-second ticks with lifetimes of one
second and a skewed clock reach each side of every expiry and of every rounding;
three answers give a claim, a release and a claim again; the setups differ in
kind of nonce store and of query registry, in nonce lifetime, gates, resolver,
outbox and pinned host.
*Callbacks*: two edits give replaced, re-replaced and restored keyboards; with
stores of two entries the third mark pushes one out; each mode has a setup with
more edits and one with more presses, because all at once would be too large.
*BotLife*: the programs split the parts that do not touch each other's state
(jobs, FSM calls, conversation), each composed with the whole life of the bot.
The bounds on expiries, generations, revocations and crashes only limit how
often the environment acts.

Deadlock is checked where the system must go on (`SyncDelivery`,
`RoomEncryption`) or where a finished system stutters explicitly
(`AllSettled` in `MatrixHttp`, `Quiet` in `Outbox`), so that a stuck request is
reported. It is off where the system really may stop: a drained queue, all
updates dispatched, all sends done, processes ended, bounds used up.

**Fairness.** *DispatchQueue*: strong fairness for each caller's continuation and
task, weak for the wake loop. The continuation is disabled whenever another
caller's `release()` occupies the thread, so weak fairness would not say that the
event loop runs it; the FIFO microtask queue does. Tasks settle because the
client's task decrypts one event and calls the handler without awaiting it.
Nobody is assumed to call `run()` or `close()`. *SyncDelivery*: weak fairness for
the loop's own steps (the event loop runs them, sleeps end), strong for
`ServerAnswers`: a homeserver asked again and again sometimes answers. Nothing
is assumed of handlers, which may throw each time; that is what makes
`LoopAdvances` a statement about poison handling. *MatrixHttp*: weak fairness
for client steps, and for the homeserver's answer *or* the request timeout,
which the code always arms. *BotDispatch*: weak fairness for the feed's own
continuations and the handler timer; none for middleware, filters of routes and
handlers, which may hang. *CryptoShare*: weak fairness for the steps of a send,
of the sync and of `close()`, each of which is a local continuation or an HTTP
request with a timeout.

## 4. Known limits the models show

Where a property names an exception, the exception is behaviour of the code that
TLC reaches. Some of it disagrees with what the repository says.

*Storage and session.* `acquire()` reads the lock file and later renames its own
over whatever is there (`storage-lock.ts:37`, `:57`): two processes that read
before either writes both hold the lock, and the file names the later one only;
once that one has released it, a third can join the other. `SoleHolder` sets
apart the bots that such a race has bared of their entry.
A lock file of a dead process whose pid is now our own is refused for ever.
Login and opening of the stores come before the lock. Overlapping first creates
end with two devices; a crash between the creation of the crypto store and
`device.json`, followed by a failed re-login, leaves a store whose device nobody
remembers.

*Sync.* `NothingLost` counts an event as given up when `stop()` interrupts its
batch, when the batch is skipped as poison, when it belongs to bootstrap history,
when it is encrypted and crypto is not ready (`client.ts:1295`: it is marked as
seen, so that `prepareCrypto` comes too late for it), or when its key did not
come within the attempts (each sync uses one up) or was still awaited when the
process ended: the queue of those events is in memory, and the token already
covers them. The cold-start instant is not persisted:
history replayed after a restart is dispatched. To-device events of the first
sync reach handlers although `cold-start.ts:42` says `after_bootstrap`, and they
have no deduper. After `forget()` and a second `seen()` the deduper forgets the
key when its old slot expires. A batch larger than the deduper may be dispatched
twice when it is retried.

*Encryption.* After a restart the first delta of a room counts as its whole
state (`client.ts:1202`; `room-cache.ts:37` says "True once a full state
snapshot"), so that a room encrypted before may be taken for unencrypted; the
same follows `leaveRoom` with a delta in flight, a skipped batch, an eviction and
a read overtaken by a sync. `NoPlaintextOnceTold` and `PlainIsAuthoritative`
exclude exactly these. In `CryptoShare`, share and encryption are two sections
of the lock: an overlapping send may rotate in between, and two sends can use
one session that rotates with every message. The requests of a share go out one
after the other (`crypto.ts:692`): one that fails leaves the key with those it
had reached, and as `shareState` does not know of them, a later send that finds
the share before fresh encrypts with that session although they may have left
(`strays` in `LeaverCannotRead`). Users whose device change was in a
skipped response keep a share that counts as fresh. A re-share after
`invalidateMegolmShare` sends nothing to devices the machine believes to have
the session.

`StaleShare` shows a message nobody can read. `ensureSessionsAndShare` leaves
`shareState` alone when a request of a share fails (`crypto.ts:717`), although
`shareRoomKey` may have put a new session in place by then: a user leaves, the
share with the others fails, the user comes back, and the next send finds the
fingerprint of the share before unchanged, counts it as fresh and encrypts with
the session no device was given. The comment at `crypto.ts:632` says that a share
is skipped when it "is still valid for the current member set". It takes three
sends, and came up when `KnownDevicesCanRead` was to be proved for any number of
them: what that property says a send owes has to leave out sessions whose share
failed. A user also counts as tracked before the key query for it has succeeded.

*HTTP and outbox.* A 401 for an old token that arrives after the shared refresh
was cleared starts a second refresh, and a request that had used its one refresh
fails although every refresh succeeded (`http.ts:304`). A message without `txnId`
or `idempotencyKey` is flushed under a new transaction id and can be posted twice
(`send.ts:254`).

*Dispatch.* The error handling middlewares call `ctx.answer`, which throws
synchronously on a context that may not send, past their `.catch`.
`rateLimitBackoff` can never retry: `runChain` refuses its second `next()`.
A Command filter writes `ctx.command` before its schema refuses. An error handler
that returns true after a timeout makes the update count as handled. Handlers may
run after `stop()` has returned (`bot.ts:764` and `CHANGELOG.md:310` say
otherwise). Reactions, typing, redactions and read markers do not ask whether the
context may send. `throttle` is documented as a sliding window and is a fixed
one; `commandThrottle` as outer middleware never sees a command.

*Lifecycle.* `stop()` during `start()` lets the start go on: it syncs after the
lock was released. A bot that was stopped and is started again has no lock, a
stopped scheduler and a closed queue, so that every batch fails and is skipped
while its health is ok; with crypto its engine is closed. A plugin whose
`onStart` throws leaves the bot started. After a fatal sync error `start()` says
"already started". A second `stop()` returns at once. A job cancelled during a
tick still runs in it.

*FSM.* Overlapping calls lose updates and can bring back cleared or expired data;
the redis storage deletes an expired record after an await and may delete a newer
one. A failed write is retried only at the next change; writes of handlers that
outlive `close()` are lost. A conversation that is cancelled has saved the next
step and resumes behind it; a crash sets it back to what the file held, so that
steps handled since are handled again, and an eviction to its first step.

*Callbacks.* A text-only edit re-reads the keyboard of the original event and puts
revoked buttons back on display (`send.ts:294`, `CHANGELOG.md:37`). An edit
revokes before it is sent, so a failed edit leaves dead buttons. Tokens of sends
under way, failed or of an earlier process life are not revoked; other processes
do not learn of revocations and answers. A single-use token is consumed before
the room is compared.

*Mini apps.* The nonce is spent before the gates, so a refused launch cannot be
tried again. With a nonce lifetime below that of the launch data a launch can be
replayed; and with equal ones, the defaults of 3600 s, too: the age of launch
data is compared in whole seconds (`initdata.ts:218`), so that it is accepted
for up to a second longer than a nonce is kept (`initdata.ts:309`,
`redis-stores.ts:48`) that was recorded within the second of `auth_date`. The
memory store of nonces is lost in a restart while the launch data stays valid.
A send that failed is not always unsent: `sendEventWithOutbox` queues a transient
failure and rethrows (`send.ts:248`), the claim of the query is released, and a
second answer is posted beside the queued one. Claims are pushed out of a full
store, and lost in a crash within 50 ms; a claim in Redis that comes after the
query's expiry finds earlier ones gone. `release()` does not undo the claim in
the async store (`bot.ts:1459` says the query can be answered again). A resolver
of the user's own that knows nothing leaves the launch's membership in force, a
member's as a leaver's (`server.ts:334`). Without a pinned host the first posts
go to every origin.

## 5. Proofs

Checked by TLAPS (`tlapm QueueProofs.tla`, and so on), for every value of the
constants under the named assumptions. Thirty-four properties that a run checks
are stated by a theorem; the other theorems are parts of them, types or bounds.
Where one proof module treats several components, their `Init`, `Next`, `Spec`
and `TypeOK` carry a prefix (`Dedup…`, `Outbox…`, `Share…`, `Http…`,
`Dispatch…`).

**SequenceFacts** holds what the others share. The library states induction with
an operator as parameter, which the provers cannot instantiate; but for a property
given as a *set* induction follows from the well-foundedness of `<` on the
naturals (`LeastNatural`, `Induction`, `AppendInduction`), and so does the
existence of functions defined by recursion (`RecursionExists`). From these come
the facts about `Kept` (what a filter leaves of a sequence, and what appending,
concatenating and removing do to it) and about the stores of `TtlStore` (what
adding and pruning keep and lose).

* **QueueProofs**: dispatch queue, deduper and outbox.
  *Queue.* Assumptions: finitely many callers, each with a room;
  the limit is any integer (the constructor clamps it to at least 1).
  `ContractHolds` (the property the run checks) and its parts `TypeCorrect`,
  `PerRoomExclusion`, `GlobalLimitHolds`, `WorkConserving`,
  `SingleWake`, `DrainIsFinal`. The code tests a counter and a set of rooms,
  never the callers themselves, so the invariant has to say that these agree:
  `Slots` (the counter is the number of holders, the set their rooms), `Line`
  (the list holds exactly parked callers, without repetition, none when closed),
  `WakeBudget` and `Drained`. `WakeBudget` is the argument for "wake exactly
  one": a release frees one slot and one room; before the first wake a waiter can
  run only for one of these two reasons, and after it none can, so the loop's
  second iteration never finds anybody. It rests on `NoIdleSlot` holding before
  the release. `Refinement` is that the queue implements `RoomLines`: the line of
  a room is what a filter keeps of the one list of waiters, so that parking
  appends to one line, a wake takes the first of its line, because the code wakes
  the first waiter that can run, and closing empties all of them.
  *Deduper.* Assumption: the capacity is an integer (clamped to at
  least 1). `WindowRemembered`, `NewEventsPass`, `ArrayBounded`. The
  invariant ties the array to the history: `Shape` bounds the window,
  `SetHasSlots` gives every remembered key a slot in the window at its age, and
  `SlotsHaveAge` says that a key nobody forgot has no second slot, without which
  evicting an old slot could drop a newer recording.
  *Outbox.* Assumptions: keyed messages are messages, the limits are
  natural numbers. `OutboxKeeps`, `KeyedPostedOnce`, `AttemptsBounded`. The
  flush works on a snapshot while sends change the file, so the invariant
  relates the two: entries are genuine and distinct in both, and `SnapshotCurrent`
  says that nobody but the flush changes an entry it still has to do.
* **SessionProofs**: storage lock, files and token refresh.
  *Lock*, however acquires interleave: `Exclusive` and `HolderIsNamed`, from an
  invariant that adds `HolderRuns` (a holder's process is alive, and named by the
  file unless the holder is bared) and `ClaimersRaced` (whoever claims or holds
  the lock while a bot is between its read and its write has raced with that
  bot, or is bared). Then `BootStepIsLockStep`: every step of
  SessionBootstrap is a step of StorageLock or leaves its variables unchanged,
  hence `BootImplementsLock` (`BootSpec => Spec`) and `SoleBot`.
  *Files*, with acquires overlapping or not: `TokenStaysWithStore` and
  `StoreStaysUsable`.
  Three files are written one after the other, so the invariant has to say what
  each stage of `create()` has left behind: before there is a `device.json` one
  create at most is under way and the session file is its own (`AloneBefore`);
  from then on there is one device everywhere (`OneDevice`), the store's too
  (`StoreOfDevice`); `LockComesLater` keeps the lock out of it.
  *HTTP.* `EffectAtMostOnce` needs `EffectIsFinal` (a request that
  took effect is never again in a state from which it is sent); `AlwaysRecoverable`
  needs `HookAhead` (what the refresh hook holds is newer than the stored
  session, and accepted) and `StoredBeforeUse`, itself a theorem
  (`NothingUsedUnstored`): no token is used before it is on disk. `AttemptsBounded`
  counts the retries and the one after a refresh.
* **EncryptionProofs**: plaintext decision and key sharing.
  *RoomEncryption.* `NeverPlaintext`, `AbsenceIsAuthoritative`. The cache
  decides by absence, so the invariant is about what may be absent: a change is
  reported only of rooms whose whole state was applied before or is about to be
  (`ChangesOfKnownRooms`), the bootstrap is whole (`BootIsWhole`), a whole state
  that a read has overtaken meets a cache that says "encrypted"
  (`OvertakenIsCached`), and news and responses at hand fit the membership they
  speak of (`NewsFitsMembership`).
  *CryptoShare.* `KnownDevicesCanReadHolds`, `LeaverCannotReadHolds`,
  `ShareTypes`, for any users, devices, sends, failures and share policies. The
  code compares a fingerprint and a set of dirty users, the machine knows devices
  and sessions, and the invariant `ShareInv` ties the two. For the leavers:
  whoever has the session is in the fingerprint of the cached share or a stray of
  a failed one (`SharedWith`), so a send about to encrypt has no other readers than its own
  recipients, those of sends that overlap it, and strays (`SafeToEncrypt`,
  `Overlaps`). For
  the recipients: whoever the engine takes for tracked the machine tracks
  (`MachineTracks`); every known device of a covered user has the session, unless
  the engine has not yet heard of that user's change (`Covered`, `Hearing`); and
  so a send's debt is settled, or its session was replaced by an overlapping send
  (`Settled`, `Numbered`).
* **SyncDeliveryProofs**. `TokenLosesNothing`, `NoHistoryDispatched`, for any
  number of events, rooms and crashes and any limits. The token is saved after
  the batch, so the invariant follows an event through the batch: `NoGap` (a
  response starts at the token), `DoneIsAccounted` (an event of the batch that is
  off the work list was dispatched, waits for its key or was given up) and
  `SeenIsAccounted` (so was every event the deduper would suppress when the batch
  is repeated). `AtMostOnce` has the hypothesis `NumEvents <= DedupCapacity`: a
  larger backlog may push an event out of the ring before its batch is retried,
  and TLC finds it. Under it a counting argument (`FS_Injection`) shows that the
  ring has room for every new event, so what was dispatched stays in it.
* **BotProofs**: life and dispatch of the bot.
  *Life*, with scheduler and storage, for any programs,
  jobs, intervals, calls, keys, lifetimes and capacities. Assumptions besides
  types: the prune job has a period and no `maxRuns` (`bot.ts:1252`), and the key
  of the conversation is not one of a context.
  `HonestHealth` and `StopLeavesNothing` follow from `Fresh` (what a bot that did
  not stop has) and `Down` (what each stage of a stop has taken down).
  `RunsApart` rests on `Spaced`, which speaks of the jobs of the map *and* of the
  copy a tick walks over. `FileKeepsUp` rests on `CleanIsWritten` (file and map
  show a reader the same) and `DirtyIsDue`. `SerialCalls` rests on `SerialRecords`
  and `SerialCopies`: the copy a call has loaded is what the serial order says
  as long as its key has the version it was loaded at. `ResumesInOrder` rests on
  `Place` and `KeptHeld`: the saved index is the one after the last step handled,
  and what a new process would find is what the history says was kept, wherever
  a crash may come.
  *Dispatch*, for any routers, middleware, handlers, waiters and updates.
  Assumption: the outer middleware is a sequence. `HandledOnce` rests on
  `NoWayBack`: whoever is past the middleware has reached the innermost
  `dispatch()`, so a second `next()` is refused, and before the routers no
  handler has run. `NoLateAnswerHolds` rests on `OutlivesAborted`: a chain is
  under way after its feed only with an aborted signal. `ConsumedIsDeliveredHolds`
  rests on `SnapshotKnown`: a waiter of a snapshot taken before an await is still
  registered, and then not settled, or it has been settled.
* **MiniAppProofs**. `LaunchOnceHolds`, `NoDataFromLeaversHolds`,
  `AnsweredOnceHolds`, `DataGoesToHostHolds`, `MiniAppTypes`, for any number of
  launches, requests, answers and restarts, any lifetimes, capacities and skew,
  and any resolution of the clock. Assumptions: these are natural numbers,
  capacities and resolution positive, and the answers a finite set. `TradedOnce`:
  unless its nonce was lost or recorded at the wrong time, a launch with a
  session, or with a request behind the claim, has its nonce on record until its
  data is out of date (`Spent`), and there is one such session or request. That is
  where the rounding matters: a nonce recorded from `From` on outlasts `Until`. `GateInv`: a request
  under way while the user is a member, or told that it is, came when it was.
  `AnswerInv`: a query that was answered or is being answered is marked until it
  expires, or the registry has forgotten it (`Answered`, `Gone`); there is one
  message of it or one answer on its way; the registries keep their claims apart
  (`ClaimsApart`), and what is in the outbox was reported as failed. `HostInv`:
  nothing was posted to an origin other than the one the page posts to now, apart
  from the wildcard before it heard one.
* **CallbacksProofs**. `SingleUseOnceHolds`, `DeadButtonsStayDeadHolds`,
  `ShownButtonsWorkHolds`, `CallbackTypes`, for any number of edits, presses,
  processes and restarts. Assumption: a setup's mode is memory, file or redis.
  The invariant `CbInv` first says what an operation, a registry and a press
  have done so far (`OpShape`, `SideShape`, `PressShape`, `LateShape`). Then the
  three arguments. A mark lasts as long as the token it is about, and one that is
  missing is on record as lost (`MarksGood`); a single-use token that was
  delivered is marked in every place its mode asks (`SpentOnce`). A button that
  an edit replaced stays replaced: it is not registered, or marked, in the
  process that replaced it (`StaleDead`), as is an answered one
  (`AnsweredKnown`). A button on display was minted by an operation that
  registered it (`MintedKnown`).

Every inductive invariant was checked with TLC on the instance of its run before
it was proved.

Only model-checked: the liveness properties `WaitersServed`, `LoopAdvances`,
`RequestsSettle`, `EveryFeedEnds` and `EverySendEnds` (fairness is out of the
prover's reach), and `FirstRouteWins`, because Routers uses RECURSIVE operators on
nested filters and trees, which the SMT backend does not take.

## 6. What is not modelled

Encryption itself (the Rust Olm machine), the homeserver beyond what the client
can observe, signatures, formatting, HTML and content validation, media, logging
and metrics, the crypto budget (it only delays requests), and the command line:
no shared state, or external. In the modelled parts: gapped timelines in
SyncDelivery (every batch fits its limit; gaps are in RoomEncryption); delivery
of to-device and ephemeral events by the client; the age and size limits of the
pending-decryption queue; member lists, names and power levels of the room cache;
state events in the outbox; server discovery, an explicit `deviceId` option and
the crypto passphrase file; the dispatcher's counters, i18n and session
middleware; two runs of one conversation; overlapping calls of `start()`; the
bind store of callbacks; key backup and cross-signing. Clocks are assumed to
agree between homeserver and bot, except in MiniApp.

## 7. Plan

1. **Proofs**: `FirstRouteWins`, with `Router.resolve` as a function on finite
   trees and an induction over their depth (the one of SequenceFacts is the
   model); the control flow around it is proved.
2. To-device delivery and the limits of the pending-decryption queue in
   SyncDelivery; power levels and members of the room cache.
3. A share that records its failure in `shareState`, under which
   `FreshShareReaches` should hold.
