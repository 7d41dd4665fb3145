---------------------------- MODULE DispatchQueue ----------------------------
(***************************************************************************)
(* The dispatch queue of dispatch-queue.ts: at most one task in flight per *)
(* room, at most `globalLimit` over all rooms, waiters woken on release.   *)
(*                                                                         *)
(* A caller is a chain of run() calls: when its task settles it may call   *)
(* run() again.  JavaScript runs each synchronous section to completion.   *)
(* The wake loop of release() is modelled one iteration per step, and      *)
(* `releasing` holds the event loop meanwhile: no other step is enabled    *)
(* until the loop has ended, so the section stays atomic.                  *)
(***************************************************************************)
EXTENDS Subsequence, Integers, FiniteSets, SequencesExt

CONSTANTS
  Tasks,        \* callers of run()
  Rooms,        \* room ids
  RoomOf,       \* the room each caller passes to run()
  GlobalLimit,  \* the constructor's argument
  NoRoom        \* not a room

ASSUME TasksAssumption == IsFiniteSet(Tasks)
ASSUME RoomsAssumption == RoomOf \in [Tasks -> Rooms] /\ NoRoom \notin Rooms
ASSUME LimitAssumption == GlobalLimit \in Int

VARIABLES
  globalActive,  \* slots taken
  roomActive,    \* rooms with a task in flight
  waiters,       \* callers parked in acquire(), in arrival order
  closed,        \* close() was called
  pc,            \* where each caller is
  releasing,     \* the room whose release() the event loop is inside, or NoRoom
  woken,         \* waiters resumed by that release() so far
  drain          \* the drain() call of the owner, once the queue is closed

vars == <<globalActive, roomActive, waiters, closed, pc, releasing, woken, drain>>

(* The constructor clamps the limit: a non-positive one counts as 1. *)
Limit == IF GlobalLimit > 1 THEN GlobalLimit ELSE 1

CallerStates == {"idle", "waiting", "acquired", "running", "rejected"}
DrainStates == {"none", "polling", "empty", "timedOut"}

Holders == {t \in Tasks : pc[t] \in {"acquired", "running"}}

TypeOK ==
  /\ globalActive \in Nat
  /\ roomActive \subseteq Rooms
  /\ waiters \in Seq(Tasks)
  /\ closed \in BOOLEAN
  /\ pc \in [Tasks -> CallerStates]
  /\ releasing \in Rooms \cup {NoRoom}
  /\ woken \in Nat
  /\ drain \in DrainStates

Init ==
  /\ globalActive = 0
  /\ roomActive = {}
  /\ waiters = <<>>
  /\ closed = FALSE
  /\ pc = [t \in Tasks |-> "idle"]
  /\ releasing = NoRoom
  /\ woken = 0
  /\ drain = "none"

-----------------------------------------------------------------------------
CanRun(r) == globalActive < Limit /\ r \notin roomActive

Take(r) ==
  /\ globalActive' = globalActive + 1
  /\ roomActive' = roomActive \cup {r}

EventLoopFree == releasing = NoRoom

(* run() on a closed queue throws before it touches the queue. *)
RunRefused(t) ==
  /\ EventLoopFree
  /\ pc[t] = "idle"
  /\ closed
  /\ pc' = [pc EXCEPT ![t] = "rejected"]
  /\ UNCHANGED <<globalActive, roomActive, waiters, closed, releasing, woken, drain>>

(* acquire() without the closed check of run() and acquire(). *)
AcquireNowEvenClosed(t) ==
  /\ EventLoopFree
  /\ pc[t] = "idle"
  /\ CanRun(RoomOf[t])
  /\ Take(RoomOf[t])
  /\ pc' = [pc EXCEPT ![t] = "acquired"]
  /\ UNCHANGED <<waiters, closed, releasing, woken, drain>>

(* run() -> acquire() when a slot is free: taken at once. *)
AcquireNow(t) ==
  /\ EventLoopFree
  /\ pc[t] = "idle"
  /\ ~closed
  /\ CanRun(RoomOf[t])
  /\ Take(RoomOf[t])
  /\ pc' = [pc EXCEPT ![t] = "acquired"]
  /\ UNCHANGED <<waiters, closed, releasing, woken, drain>>

(* acquire() parking the caller at the front of the line. *)
AcquireLaterLifo(t) ==
  /\ EventLoopFree
  /\ pc[t] = "idle"
  /\ ~closed
  /\ ~CanRun(RoomOf[t])
  /\ waiters' = <<t>> \o waiters
  /\ pc' = [pc EXCEPT ![t] = "waiting"]
  /\ UNCHANGED <<globalActive, roomActive, closed, releasing, woken, drain>>

(* run() -> acquire() when none is: the caller parks on a promise. *)
AcquireLater(t) ==
  /\ EventLoopFree
  /\ pc[t] = "idle"
  /\ ~closed
  /\ ~CanRun(RoomOf[t])
  /\ waiters' = Append(waiters, t)
  /\ pc' = [pc EXCEPT ![t] = "waiting"]
  /\ UNCHANGED <<globalActive, roomActive, closed, releasing, woken, drain>>

(* The continuation of `await acquire`: a microtask later, close() may have *)
(* happened in between.                                                     *)
EnterTask(t) ==
  /\ EventLoopFree
  /\ pc[t] = "acquired"
  /\ ~closed
  /\ pc' = [pc EXCEPT ![t] = "running"]
  /\ UNCHANGED <<globalActive, roomActive, waiters, closed, releasing, woken, drain>>

(* release() up to its wake loop, which a closed queue skips. *)
Release(r) ==
  /\ globalActive' = IF globalActive > 0 THEN globalActive - 1 ELSE 0
  /\ roomActive' = roomActive \ {r}
  /\ releasing' = IF closed THEN NoRoom ELSE r
  /\ woken' = 0

(* ... the closed check inside run()'s try block throws; finally releases. *)
EnterRefused(t) ==
  /\ EventLoopFree
  /\ pc[t] = "acquired"
  /\ closed
  /\ pc' = [pc EXCEPT ![t] = "rejected"]
  /\ Release(RoomOf[t])
  /\ UNCHANGED <<waiters, closed, drain>>

(* run() returning without its finally block. *)
FinishTaskKeepingSlot(t) ==
  /\ EventLoopFree
  /\ pc[t] = "running"
  /\ pc' = [pc EXCEPT ![t] = "idle"]
  /\ UNCHANGED <<globalActive, roomActive, waiters, closed, releasing, woken, drain>>

(* fn() resolved or threw: either way the finally block releases the slot. *)
FinishTask(t) ==
  /\ EventLoopFree
  /\ pc[t] = "running"
  /\ pc' = [pc EXCEPT ![t] = "idle"]
  /\ Release(RoomOf[t])
  /\ UNCHANGED <<waiters, closed, drain>>

-----------------------------------------------------------------------------
(* The wake loop of release(). *)

RunnableElsewhere(i) == RoomOf[waiters[i]] # releasing /\ CanRun(RoomOf[waiters[i]])
Runnable(i) == CanRun(RoomOf[waiters[i]])

(* Waiter i leaves the line, takes its slot and its promise is resolved. *)
Wake(i) ==
  /\ waiters' = RemoveAt(waiters, i)
  /\ Take(RoomOf[waiters[i]])
  /\ pc' = [pc EXCEPT ![waiters[i]] = "acquired"]
  /\ woken' = woken + 1
  /\ UNCHANGED <<closed, releasing, drain>>

(* wakeOne(true): the first runnable waiter of another room. *)
WakeOther ==
  /\ releasing # NoRoom
  /\ \E i \in 1..Len(waiters) :
       /\ RunnableElsewhere(i)
       /\ \A j \in 1..(i - 1) : ~RunnableElsewhere(j)
       /\ Wake(i)

(* wakeOne(false): none there, so the first runnable waiter of any room. *)
WakeAny ==
  /\ releasing # NoRoom
  /\ \A i \in 1..Len(waiters) : ~RunnableElsewhere(i)
  /\ \E i \in 1..Len(waiters) :
       /\ Runnable(i)
       /\ \A j \in 1..(i - 1) : ~Runnable(j)
       /\ Wake(i)

(* Neither finds one, or every slot is taken: the loop and release() end. *)
WakeDone ==
  /\ releasing # NoRoom
  /\ \A i \in 1..Len(waiters) : ~Runnable(i)
  /\ releasing' = NoRoom
  /\ UNCHANGED <<globalActive, roomActive, waiters, closed, pc, woken, drain>>

-----------------------------------------------------------------------------
(* close() rejects every parked caller; tasks in flight still finish. *)
Close ==
  /\ EventLoopFree
  /\ ~closed
  /\ closed' = TRUE
  /\ waiters' = <<>>
  /\ pc' = [t \in Tasks |-> IF pc[t] = "waiting" THEN "rejected" ELSE pc[t]]
  /\ UNCHANGED <<globalActive, roomActive, releasing, woken, drain>>

(* drain(): its only caller, MatrixClient.stop, closes the queue first. *)
DrainStart ==
  /\ EventLoopFree
  /\ closed
  /\ drain = "none"
  /\ drain' = "polling"
  /\ UNCHANGED <<globalActive, roomActive, waiters, closed, pc, releasing, woken>>

(* A poll finds the queue empty, or the deadline passes: drain() resolves *)
(* to whether the queue is empty now.                                     *)
DrainReturn ==
  /\ EventLoopFree
  /\ drain = "polling"
  /\ drain' = IF globalActive = 0 /\ waiters = <<>> THEN "empty" ELSE "timedOut"
  /\ UNCHANGED <<globalActive, roomActive, waiters, closed, pc, releasing, woken>>

Step(t) ==
  RunRefused(t) \/ AcquireNow(t) \/ AcquireLater(t) \/ EnterTask(t) \/ EnterRefused(t) \/ FinishTask(t)

Next ==
  \/ \E t \in Tasks : Step(t)
  \/ WakeOther \/ WakeAny \/ WakeDone
  \/ Close \/ DrainStart \/ DrainReturn

Proceed(t) == EnterTask(t) \/ EnterRefused(t) \/ FinishTask(t)

(* The event loop runs what it has queued, and every task settles (the     *)
(* client's task decrypts one event and calls a synchronous handler).      *)
(* Strong fairness, because the release() of other callers takes the event *)
(* loop again and again.  Nobody has to call run() or close().             *)
Fairness ==
  /\ \A t \in Tasks : SF_vars(Proceed(t))
  /\ WF_vars(WakeOther \/ WakeAny \/ WakeDone)

Spec == Init /\ [][Next]_vars

FairSpec == Spec /\ Fairness

-----------------------------------------------------------------------------
(* Class comment, "at most one in-flight task per room": two callers that  *)
(* hold a slot at the same time belong to different rooms.                 *)
OnePerRoom == \A t, u \in Holders : RoomOf[t] = RoomOf[u] => t = u

(* Class comment, "at most `globalLimit` across all rooms": the callers    *)
(* that hold a slot, counted themselves and not by the counter, never      *)
(* exceed the clamped limit.                                               *)
WithinLimit == Cardinality(Holders) <= Limit

(* release() leaves nobody behind: whenever the event loop is free, a      *)
(* waiter is parked only because its room is busy or every slot is taken.  *)
(* Without it a later arrival would overtake a parked one.                 *)
NoIdleSlot ==
  EventLoopFree => \A i \in 1..Len(waiters) : ~CanRun(RoomOf[waiters[i]])

(* AUDIT.md, "Wake exactly one": although the loop runs until the slots    *)
(* are gone, one release() never resumes two waiters.                      *)
OneWakePerRelease == woken <= 1

(* MatrixClient.stop: once drain() has said "empty" on the closed queue,   *)
(* no task is or ever gets in flight again.                                *)
DrainedStaysEmpty == drain = "empty" => Holders = {} /\ globalActive = 0

(* What callers and stop() rely on, together: exclusion per room and over   *)
(* all rooms, no slot left idle by release() and none taken twice, and      *)
(* quiet after a drain.                                                     *)
QueueContract == OnePerRoom /\ WithinLimit /\ NoIdleSlot /\ OneWakePerRelease /\ DrainedStaysEmpty

(* "Fair dispatch queue ... a noisy room cannot starve others": every      *)
(* parked caller is resumed or rejected, whatever the callers of the other *)
(* rooms and of its own room keep submitting.                              *)
WaitersServed == \A t \in Tasks : pc[t] = "waiting" ~> pc[t] # "waiting"

(* The parked callers of one room, in arrival order. *)
InRoom(r) == {t \in Tasks : RoomOf[t] = r}
LineOf(r) == Kept(waiters, InRoom(r))

(* What the queue promises: a FIFO line per room and a bounded number of   *)
(* holders, whatever order the rooms are served in.                        *)
RoomLines == INSTANCE RoomLines WITH
  line <- [r \in Rooms |-> LineOf(r)],
  holders <- Holders,
  shut <- closed

(* The queue implements RoomLines: tasks of one room start in the order    *)
(* they were submitted and one at a time.                                  *)
ImplementsRoomLines == RoomLines!Spec
=============================================================================
