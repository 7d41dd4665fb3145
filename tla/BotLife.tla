------------------------------- MODULE BotLife -------------------------------
(***************************************************************************)
(* The life of a bot: start(), run(), stop() and getHealth() (bot.ts), the *)
(* parts of MatrixClient they start and stop (client.ts), the scheduler,   *)
(* the FSM storage that run() closes, and the handlers and jobs that go on *)
(* while it stops.  One start() at a time.                                 *)
(***************************************************************************)
EXTENDS Scheduler, FsmStorage

CONSTANTS
  Setups,    \* what the program does; see below
  PruneJob   \* the job of pruneOtherDevicesOnStart, an every() without maxRuns

(* A setup is [backend, crypto, calls, jobs, talk, starts, crashes]: the    *)
(* storage, whether crypto is on, the FSMContext calls of the handlers, the *)
(* jobs, whether there is a conversation, and bounds on the calls of        *)
(* start() and on the processes that die.                                   *)

ASSUME SetupAssumption ==
  /\ PruneJob \in Jobs /\ Every[PruneJob] # 0 /\ MaxRuns[PruneJob] = 0
  /\ Setups \subseteq [backend : {"memory", "file", "redis"}, crypto : BOOLEAN, calls : SUBSET Calls,
                      jobs : SUBSET Jobs, talk : BOOLEAN, starts : Nat, crashes : Nat]

VARIABLES
  setup,
  bot,      \* the Bot of the process, see NewBot
  starts,
  crashes

lifeVars == <<setup, bot, starts, crashes>>
allVars == <<now, schedVars, fsmVars, lifeVars>>

(* started, stopping and ready (_cryptoReady) are the bot's flags; starting *)
(* and leaving are where start() and stop() are, ending where run() is;     *)
(* crypto: the OlmMachine is open; lock: the storage lock is held; loop:    *)
(* the client's syncLoop; queue: the dispatch queue takes work; watch:      *)
(* syncWatchTimer is set; fed: there was a sync loop, so there may be       *)
(* handlers.  Histories: again, start() was called after a stop(); crossed, *)
(* stop() was called during a start().                                      *)
NewBot ==
  [started |-> FALSE, stopping |-> FALSE, ready |-> FALSE, starting |-> "no", leaving |-> "no", ending |-> "no",
   crypto |-> setup.crypto, lock |-> TRUE, loop |-> "none", queue |-> TRUE, watch |-> FALSE, fed |-> FALSE,
   again |-> FALSE, crossed |-> FALSE]

Bots ==
  [started : BOOLEAN, stopping : BOOLEAN, ready : BOOLEAN,
   starting : {"no", "plugins", "crypto", "client", "mark", "hooks", "rest"},
   leaving : {"no", "hooks", "draining", "crypto", "release"},
   ending : {"no", "signalled", "stopping", "stopped", "closed", "exited"},
   crypto : BOOLEAN, lock : BOOLEAN, loop : {"none", "up", "fatal"}, queue : BOOLEAN,
   watch : BOOLEAN, fed : BOOLEAN, again : BOOLEAN, crossed : BOOLEAN]

TypeOK ==
  /\ now \in 0..MaxTime /\ SchedTypeOK /\ FsmTypeOK
  /\ setup \in Setups /\ bot \in Bots /\ starts \in Nat /\ crashes \in Nat

Init ==
  /\ now = 0 /\ SchedInit /\ FsmInit
  /\ setup \in Setups /\ backend = setup.backend
  /\ bot = NewBot
  /\ starts = 0 /\ crashes = 0

Up == bot.ending # "exited"

(* A step of start(), stop() or run() between two awaits. *)
Step(b) == bot' = b /\ UNCHANGED <<now, schedVars, fsmVars, setup, starts, crashes>>

-----------------------------------------------------------------------------
(* start(); "Bot already started" is thrown before anything changes. *)
StartCall ==
  /\ Quiet /\ starts < setup.starts
  /\ bot.ending = "no" /\ bot.starting = "no" /\ ~bot.started
  /\ starts' = starts + 1
  /\ bot' = [bot EXCEPT !.starting = "plugins", !.stopping = FALSE, !.again = @ \/ bot.stopping]
  /\ UNCHANGED <<now, schedVars, fsmVars, setup, crashes>>

(* pluginInstallQueue, verifyCryptoContract, client.start() or a plugin's   *)
(* onStart throws: start() ends where it is.  client.start() does if there  *)
(* is a syncLoop.                                                           *)
StartThrows ==
  /\ Quiet
  /\ \/ bot.starting \in {"plugins", "hooks"}
     \/ bot.starting = "crypto" /\ setup.crypto
     \/ bot.starting = "client" /\ bot.loop # "none"
  /\ Step([bot EXCEPT !.starting = "no"])

PluginsInstalled == Quiet /\ bot.starting = "plugins" /\ Step([bot EXCEPT !.starting = "crypto"])

(* verifyCryptoContract; a closed OlmMachine throws. *)
VerifyCrypto ==
  /\ Quiet /\ bot.starting = "crypto"
  /\ setup.crypto => bot.crypto
  /\ Step([bot EXCEPT !.starting = "client", !.ready = setup.crypto])

(* client.start(): a new sync loop. *)
ClientStart ==
  /\ Quiet /\ bot.starting = "client" /\ bot.loop = "none"
  /\ Step([bot EXCEPT !.starting = "mark", !.loop = "up", !.fed = TRUE])

StartMarks == Quiet /\ bot.starting = "mark" /\ Step([bot EXCEPT !.starting = "hooks", !.started = TRUE])

(* The plugins' onStart hooks and the outbox flush; then the watch timer. *)
HooksDone == Quiet /\ bot.starting = "hooks" /\ Step([bot EXCEPT !.starting = "rest", !.watch = TRUE])

(* maybePruneOtherDevicesOnStart schedules its job; start() returns. *)
StartReturns ==
  /\ Quiet /\ bot.starting = "rest"
  /\ bot' = [bot EXCEPT !.starting = "no"]
  /\ IF PruneJob \in setup.jobs \ (jobs \cup dropped) THEN AddJob(PruneJob) ELSE UNCHANGED schedVars
  /\ UNCHANGED <<now, fsmVars, setup, starts, crashes>>

-----------------------------------------------------------------------------
(* onFatal that leaves `started` alone. *)
OnFatalStarted == Quiet /\ bot.loop = "up" /\ bot.starting # "mark" /\ Step([bot EXCEPT !.loop = "fatal"])

(* The sync loop ends with a fatal error; `syncLoop` stays set.  Its first  *)
(* request takes longer than start() needs to go on.                        *)
OnFatal ==
  /\ Quiet /\ bot.loop = "up" /\ bot.starting # "mark"
  /\ Step([bot EXCEPT !.loop = "fatal", !.started = FALSE])

-----------------------------------------------------------------------------
(* stop() as far as its first await. *)
Leaving ==
  [bot EXCEPT !.leaving = "hooks", !.stopping = TRUE, !.watch = FALSE, !.crossed = @ \/ bot.starting # "no"]

(* stop(); a second call returns at once.  A job may call it too. *)
StopCall == FromJob /\ Up /\ ~bot.stopping /\ Step(Leaving)

(* stop() that forgets the scheduler. *)
StopPartsButJobs ==
  /\ FromJob /\ bot.leaving = "hooks"
  /\ Step([bot EXCEPT !.leaving = "draining", !.queue = FALSE, !.loop = "none"])

(* The onStop hooks are done: scheduler.stop(), and client.stop() as far as *)
(* its first await.                                                         *)
StopParts ==
  /\ FromJob /\ bot.leaving = "hooks"
  /\ bot' = [bot EXCEPT !.leaving = "draining", !.queue = FALSE, !.loop = "none"]
  /\ SchedStop
  /\ UNCHANGED <<now, fsmVars, setup, starts, crashes>>

(* The loop has ended, and the queue is empty or the five seconds are over. *)
Drained == Quiet /\ bot.leaving = "draining" /\ Step([bot EXCEPT !.leaving = "crypto"])

CryptoClosed == Quiet /\ bot.leaving = "crypto" /\ Step([bot EXCEPT !.leaving = "release", !.crypto = FALSE])

(* durableStores.flush(), storageLock.release(); stop() returns. *)
StopReturns ==
  /\ Quiet /\ bot.leaving = "release"
  /\ Step([bot EXCEPT !.leaving = "no", !.lock = FALSE, !.started = FALSE])

-----------------------------------------------------------------------------
(* run(): start() has returned and a signal arrives. *)
Signal ==
  /\ Quiet /\ bot.ending = "no" /\ bot.starting = "no" /\ bot.fed
  /\ Step([bot EXCEPT !.ending = "signalled"])

(* run() calls stop(), which returns at once if one is under way or done. *)
RunStops ==
  /\ Quiet /\ bot.ending = "signalled"
  /\ Step(IF bot.stopping THEN [bot EXCEPT !.ending = "stopped"] ELSE [Leaving EXCEPT !.ending = "stopping"])

(* ... it has returned: dispatcher.close(), ... *)
CloseDispatcher(ok) ==
  /\ Quiet
  /\ bot.ending = "stopped" \/ (bot.ending = "stopping" /\ bot.leaving = "no")
  /\ CloseStorage(ok)
  /\ bot' = [bot EXCEPT !.ending = "closed"]
  /\ UNCHANGED <<now, schedVars, setup, starts, crashes>>

(* ... and the process ends, whatever handlers still do: the timers are     *)
(* unref'd.                                                                 *)
Exit == Quiet /\ bot.ending = "closed" /\ Step([bot EXCEPT !.ending = "exited"])

(* The process dies, and the program is started again. *)
CrashRestart ==
  /\ crashes < setup.crashes /\ Up
  /\ crashes' = crashes + 1
  /\ bot' = NewBot
  /\ starts' = 0
  /\ Reload
  /\ SchedReset
  /\ UNCHANGED <<now, setup>>

-----------------------------------------------------------------------------
(* The program adds a job. *)
ProgramAdds(j) ==
  /\ FromJob /\ Up /\ j \in setup.jobs \ {PruneJob} /\ begun[j] = 0 /\ j \notin jobs \cup dropped
  /\ AddJob(j)
  /\ UNCHANGED <<now, fsmVars, lifeVars>>

JobStep(j) ==
  /\ Up
  /\ Cancel(j) \/ Visit(j) \/ JobEnds(j)
  /\ UNCHANGED <<now, fsmVars, lifeVars>>

TimerTick == Up /\ Tick /\ UNCHANGED <<now, fsmVars, lifeVars>>

(* Handlers are not awaited by the sync loop, and go on while the bot stops. *)
FsmStep(c) ==
  /\ Quiet /\ Up /\ bot.fed /\ c \in setup.calls
  /\ Load(c) \/ LoadExpired(c) \/ DeleteExpired(c) \/ Persist(c) \/ Clear(c)
  /\ UNCHANGED <<now, schedVars, lifeVars>>

ConvStep ==
  /\ Quiet /\ Up /\ bot.fed /\ setup.talk
  /\ ConvRun \/ (\E cancel \in BOOLEAN : ConvHandle(cancel)) \/ ConvEnds \/ ConvSave \/ ConvFinish
  /\ UNCHANGED <<now, schedVars, lifeVars>>

FlushStep(ok) == Quiet /\ Up /\ Flush(ok) /\ UNCHANGED <<now, schedVars, lifeVars>>

TimePasses ==
  /\ Quiet /\ now < MaxTime
  /\ now' = now + 1
  /\ UNCHANGED <<schedVars, fsmVars, lifeVars>>

Next ==
  \/ StartCall \/ StartThrows \/ PluginsInstalled \/ VerifyCrypto \/ ClientStart \/ StartMarks \/ HooksDone
  \/ StartReturns \/ OnFatal
  \/ StopCall \/ StopParts \/ Drained \/ CryptoClosed \/ StopReturns
  \/ Signal \/ RunStops \/ Exit \/ CrashRestart
  \/ \E j \in Jobs : ProgramAdds(j) \/ JobStep(j)
  \/ \E c \in Calls : FsmStep(c)
  \/ \E ok \in BOOLEAN : CloseDispatcher(ok) \/ FlushStep(ok)
  \/ TimerTick \/ ConvStep \/ TimePasses

Spec == Init /\ [][Next]_allVars

-----------------------------------------------------------------------------
(* getHealth().ok, when the last sync is recent. *)
HealthOk == bot.started /\ ~bot.stopping /\ (setup.crypto => bot.ready)

(* A bot that reports itself healthy is: its sync loop runs, the queue takes *)
(* the events, the crypto engine is open and the storage lock its own,       *)
(* unless it was started again after a stop().                               *)
HealthIsHonest ==
  HealthOk /\ ~bot.again => bot.loop = "up" /\ bot.queue /\ bot.lock /\ (setup.crypto => bot.crypto)

(* Once stop() has returned nothing is left that acts by itself: no sync     *)
(* loop, no watch timer, no job timer, and the lock is free, unless stop()   *)
(* was called while start() was under way.                                   *)
StopQuiets ==
  bot.stopping /\ bot.leaving = "no" /\ ~bot.crossed =>
    bot.loop # "up" /\ ~bot.watch /\ ~timer /\ ~bot.lock

(* What handlers have changed is in the file, or a timer is set that will   *)
(* write it, and nothing is missing when run() has returned; unless a write *)
(* failed or a handler outlived the close().                                *)
NothingLeftUnwritten ==
  backend = "file" /\ ~unwritten /\ ~late =>
    \/ Up /\ flushDue
    \/ \A k \in StorageKeys : Found(k) = IF IsExpired(disk[k]) THEN NoRecord ELSE disk[k]
=============================================================================
