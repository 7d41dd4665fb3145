----------------------------- MODULE QueueProofs -----------------------------
(***************************************************************************)
(* Proofs about the queues of the client: the dispatch queue and the ring  *)
(* of seen events in front of it (dispatch-queue.ts), and the outbox of    *)
(* failed sends (outbox.ts).  They share no state; each part below speaks  *)
(* of one module.                                                          *)
(***************************************************************************)
EXTENDS DispatchQueue, EventDeduper, Outbox, SequenceFacts

-----------------------------------------------------------------------------
(* The dispatch queue.                                                     *)

(* The counter and the set of busy rooms describe exactly the holders. *)
Slots ==
  /\ globalActive = Cardinality(Holders)
  /\ roomActive = {RoomOf[t] : t \in Holders}
  /\ OnePerRoom
  /\ globalActive <= Limit

(* The line holds exactly the parked callers; a closed queue has none. *)
Line ==
  /\ \A i \in 1..Len(waiters) : pc[waiters[i]] = "waiting"
  /\ \A i, j \in 1..Len(waiters) : waiters[i] = waiters[j] => i = j
  /\ closed => waiters = <<>>

(* Before the first wake of a release(), a waiter can run only because of  *)
(* the one slot or the one room just given back; after it none can.        *)
WakeBudget ==
  /\ woken <= 1
  /\ releasing # NoRoom =>
       /\ ~closed
       /\ woken = 0 =>
            \/ globalActive = Limit - 1
            \/ \A i \in 1..Len(waiters) : RoomOf[waiters[i]] \in roomActive \cup {releasing}
       /\ woken = 1 =>
            \A i \in 1..Len(waiters) : ~CanRun(RoomOf[waiters[i]])

(* After close() and an empty drain() nobody holds a slot. *)
Drained ==
  /\ drain # "none" => closed
  /\ drain = "empty" => globalActive = 0

IInv == TypeOK /\ Slots /\ Line /\ NoIdleSlot /\ WakeBudget /\ Drained
-----------------------------------------------------------------------------
(* The constructor's clamp: there is always at least one slot. *)
LEMMA LimitPositive == Limit \in Nat /\ Limit >= 1
  BY LimitAssumption DEF Limit

(* Holders is a finite set of callers. *)
LEMMA HoldersFinite == IsFiniteSet(Holders) /\ Holders \subseteq Tasks
<1>1. Holders \subseteq Tasks
  BY DEF Holders
<1>2. QED
  BY <1>1, TasksAssumption, FS_Subset

(* take() on behalf of a caller whose room is free keeps the books. *)
LEMMA TakeKeepsSlots ==
  ASSUME TypeOK, Slots, NEW t \in Tasks, t \notin Holders,
         CanRun(RoomOf[t]), Take(RoomOf[t]), Holders' = Holders \cup {t}
  PROVE  /\ Slots'
         /\ globalActive' \in Nat /\ roomActive' \subseteq Rooms
<1>1. Cardinality(Holders') = Cardinality(Holders) + 1
  BY HoldersFinite, FS_AddElement
<1>2. globalActive' = Cardinality(Holders') /\ globalActive' <= Limit
  BY <1>1, LimitPositive DEF Slots, Take, CanRun, TypeOK
<1>3. roomActive' = {RoomOf[u] : u \in Holders'}
  BY DEF Slots, Take
<1>4. OnePerRoom'
  BY DEF OnePerRoom, Slots, CanRun
<1>5. globalActive' \in Nat /\ roomActive' \subseteq Rooms
  BY RoomsAssumption DEF TypeOK, Take
<1>6. Limit' = Limit
  BY DEF Limit
<1>7. QED
  BY <1>2, <1>3, <1>4, <1>5, <1>6 DEF Slots

(* release() of a holder keeps them, and frees exactly its slot and room. *)
LEMMA ReleaseKeepsSlots ==
  ASSUME TypeOK, Slots, NEW t \in Tasks, t \in Holders,
         Release(RoomOf[t]), Holders' = Holders \ {t}
  PROVE  /\ Slots'
         /\ globalActive' \in Nat /\ roomActive' \subseteq Rooms
         /\ globalActive' = globalActive - 1
         /\ roomActive' = roomActive \ {RoomOf[t]}
<1>1. Cardinality(Holders') = Cardinality(Holders) - 1
  BY HoldersFinite, FS_RemoveElement
<1>2. Cardinality(Holders) # 0 /\ Cardinality(Holders) \in Nat
  BY HoldersFinite, FS_EmptySet, FS_CardinalityType
<1>3. /\ globalActive' = globalActive - 1 /\ globalActive' = Cardinality(Holders')
      /\ globalActive' <= Limit /\ globalActive' \in Nat
  BY <1>1, <1>2, LimitPositive DEF Slots, Release, TypeOK
<1>4. roomActive' = {RoomOf[u] : u \in Holders'}
  BY DEF Slots, Release, OnePerRoom
<1>5. OnePerRoom'
  BY DEF OnePerRoom, Slots
<1>6. roomActive' \subseteq Rooms
  BY DEF TypeOK, Release
<1>7. QED
  BY <1>3, <1>4, <1>5, <1>6 DEF Slots, Release, Limit

-----------------------------------------------------------------------------
(* The invariant holds initially. *)
LEMMA InitIInv == Init => IInv
<1> SUFFICES ASSUME Init PROVE IInv
  OBVIOUS
<1>1. Holders = {}
  BY DEF Init, Holders
<1>2. TypeOK
  <2>1. waiters \in Seq(Tasks)
    BY DEF Init
  <2>2. closed \in BOOLEAN
    BY DEF Init
  <2>3. QED
    BY <2>1, <2>2 DEF Init, TypeOK, CallerStates, DrainStates
<1>3. Slots
  BY <1>1, FS_EmptySet, LimitPositive DEF Init, Slots, OnePerRoom
<1>4. Line /\ NoIdleSlot /\ WakeBudget /\ Drained
  BY DEF Init, Line, NoIdleSlot, WakeBudget, Drained
<1>5. QED
  BY <1>2, <1>3, <1>4 DEF IInv

(* acquire() taking a slot at once: nobody runnable was parked. *)
LEMMA AcquireNowIInv ==
  ASSUME IInv, NEW t \in Tasks, AcquireNow(t)
  PROVE  IInv'
<1> USE DEF IInv
<1>1. Holders' = Holders \cup {t} /\ t \notin Holders
  BY DEF AcquireNow, Holders, TypeOK
<1>2. Slots' /\ globalActive' \in Nat /\ roomActive' \subseteq Rooms
  BY <1>1, TakeKeepsSlots DEF AcquireNow
<1>3. TypeOK'
  BY <1>2 DEF AcquireNow, TypeOK, CallerStates
<1>4. Line'
  BY DEF AcquireNow, Line, TypeOK
<1>5. NoIdleSlot'
  BY DEF AcquireNow, NoIdleSlot, CanRun, Take, EventLoopFree, TypeOK, Limit
<1>6. WakeBudget' /\ Drained'
  BY DEF AcquireNow, WakeBudget, Drained, EventLoopFree, TypeOK
<1>7. QED
  BY <1>2, <1>3, <1>4, <1>5, <1>6

(* acquire() parking the caller. *)
LEMMA AcquireLaterIInv ==
  ASSUME IInv, NEW t \in Tasks, AcquireLater(t)
  PROVE  IInv'
<1> USE DEF IInv
<1>1. Holders' = Holders
  BY DEF AcquireLater, Holders, TypeOK
<1>2. TypeOK'
  BY DEF AcquireLater, TypeOK, CallerStates
<1>3. Slots'
  BY <1>1 DEF AcquireLater, Slots, OnePerRoom, Limit
<1>4. /\ Len(waiters') = Len(waiters) + 1
      /\ waiters'[Len(waiters) + 1] = t
      /\ \A i \in 1..Len(waiters) : waiters'[i] = waiters[i]
      /\ Len(waiters) \in Nat
  BY DEF AcquireLater, TypeOK
<1>5. \A i \in 1..Len(waiters) : waiters[i] # t
  BY DEF AcquireLater, Line
<1>6. Line'
  BY <1>4, <1>5 DEF AcquireLater, Line, TypeOK
<1>7. NoIdleSlot'
  BY <1>4 DEF AcquireLater, NoIdleSlot, CanRun, EventLoopFree, Limit
<1>8. WakeBudget' /\ Drained'
  BY DEF AcquireLater, WakeBudget, Drained, EventLoopFree, TypeOK
<1>9. QED
  BY <1>2, <1>3, <1>6, <1>7, <1>8

(* release(): only the slot and the room given back can make a waiter      *)
(* runnable.                                                               *)
LEMMA ReleaseIInv ==
  ASSUME IInv, NEW t \in Tasks, NEW s \in {"idle", "rejected"},
         EventLoopFree, t \in Holders, pc' = [pc EXCEPT ![t] = s],
         Release(RoomOf[t]), UNCHANGED <<waiters, closed, drain>>
  PROVE  IInv'
<1> USE DEF IInv
<1>1. Holders' = Holders \ {t}
  BY DEF Holders, TypeOK
<1>2. /\ Slots' /\ globalActive' \in Nat /\ roomActive' \subseteq Rooms
      /\ globalActive' = globalActive - 1 /\ roomActive' = roomActive \ {RoomOf[t]}
  BY <1>1, ReleaseKeepsSlots
<1>3. TypeOK'
  BY <1>2, RoomsAssumption DEF TypeOK, CallerStates, Release
<1>4. Line'
  BY DEF Line, TypeOK, Holders
<1>5. NoIdleSlot'
  <2>1. CASE closed
    <3>1. waiters' = <<>>
      BY <2>1 DEF Line
    <3>2. QED
      BY <3>1 DEF NoIdleSlot
  <2>2. CASE ~closed
    <3>1. releasing' # NoRoom
      BY <2>2, RoomsAssumption DEF Release
    <3>2. QED
      BY <3>1 DEF NoIdleSlot, EventLoopFree
  <2>3. QED
    BY <2>1, <2>2
<1>6. WakeBudget'
  <2>1. ASSUME ~closed
        PROVE  \/ globalActive' = Limit - 1
               \/ \A i \in 1..Len(waiters) : RoomOf[waiters[i]] \in roomActive' \cup {RoomOf[t]}
    <3>1. CASE globalActive = Limit
      BY <3>1, <1>2
    <3>2. CASE globalActive # Limit
      <4>1. globalActive < Limit
        BY <3>2, LimitPositive DEF Slots, TypeOK
      <4>2. \A i \in 1..Len(waiters) : RoomOf[waiters[i]] \in roomActive
        BY <4>1 DEF NoIdleSlot, CanRun
      <4>3. QED
        BY <4>2, <1>2
    <3>3. QED
      BY <3>1, <3>2
  <2>2. releasing' = IF closed THEN NoRoom ELSE RoomOf[t]
    BY DEF Release
  <2>3. woken' = 0 /\ Limit' = Limit
    BY DEF Release, Limit
  <2>4. QED
    BY <2>1, <2>2, <2>3 DEF WakeBudget
<1>7. Drained'
  BY <1>2 DEF Drained, Slots, TypeOK
<1>8. QED
  BY <1>2, <1>3, <1>4, <1>5, <1>6, <1>7

(* One iteration of the wake loop: it can happen only once per release(),  *)
(* and it makes every remaining waiter unrunnable.                         *)
LEMMA WakeIInv ==
  ASSUME IInv, releasing # NoRoom, NEW i \in 1..Len(waiters), Runnable(i), Wake(i)
  PROVE  IInv'
<1> USE DEF IInv
<1> DEFINE t == waiters[i]
<1>1. t \in Tasks /\ pc[t] = "waiting" /\ ~closed
  BY DEF Line, TypeOK, WakeBudget
<1>2. Holders' = Holders \cup {t} /\ t \notin Holders
  BY <1>1 DEF Wake, Holders, TypeOK
<1>3. Slots' /\ globalActive' \in Nat /\ roomActive' \subseteq Rooms
  BY <1>1, <1>2, TakeKeepsSlots DEF Wake, Runnable
<1>4. /\ waiters' \in Seq(Tasks)
      /\ Len(waiters') = Len(waiters) - 1
      /\ \A j \in 1..Len(waiters') : waiters'[j] = IF j < i THEN waiters[j] ELSE waiters[j + 1]
  BY RemoveAtFacts DEF Wake, TypeOK
<1>5. Len(waiters) \in Nat /\ i \in Nat
  BY DEF TypeOK
<1>6. TypeOK'
  BY <1>1, <1>3, <1>4 DEF Wake, TypeOK, CallerStates
<1>7. \A j \in 1..Len(waiters') : \E k \in 1..Len(waiters) : k # i /\ waiters'[j] = waiters[k]
  <2>1. SUFFICES ASSUME NEW j \in 1..Len(waiters')
                 PROVE  \E k \in 1..Len(waiters) : k # i /\ waiters'[j] = waiters[k]
    OBVIOUS
  <2>2. CASE j < i
    BY <2>2, <1>4, <1>5
  <2>3. CASE ~(j < i)
    <3>1. j + 1 \in 1..Len(waiters) /\ j + 1 # i /\ waiters'[j] = waiters[j + 1]
      BY <2>3, <1>4, <1>5
    <3>2. QED
      BY <3>1
  <2>4. QED
    BY <2>2, <2>3
<1>8. Line'
  <2>1. \A j \in 1..Len(waiters') : pc'[waiters'[j]] = "waiting"
    <3>1. \A k \in 1..Len(waiters) : k # i => waiters[k] # t /\ pc[waiters[k]] = "waiting"
      BY DEF Line
    <3>2. QED
      BY <3>1, <1>7 DEF Wake, TypeOK
  <2>2. \A j, k \in 1..Len(waiters') : waiters'[j] = waiters'[k] => j = k
    <3>1. SUFFICES ASSUME NEW j \in 1..Len(waiters'), NEW k \in 1..Len(waiters'),
                          waiters'[j] = waiters'[k]
                   PROVE  j = k
      OBVIOUS
    <3> DEFINE old(n) == IF n < i THEN n ELSE n + 1
    <3>2. /\ old(j) \in 1..Len(waiters) /\ waiters'[j] = waiters[old(j)]
          /\ old(k) \in 1..Len(waiters) /\ waiters'[k] = waiters[old(k)]
      BY <1>4, <1>5
    <3>3. old(j) = old(k)
      BY <3>1, <3>2 DEF Line
    <3>4. QED
      BY <3>3, <1>4, <1>5
  <2>3. QED
    BY <2>1, <2>2, <1>1 DEF Line, Wake
<1>9. NoIdleSlot'
  BY DEF NoIdleSlot, EventLoopFree, Wake
<1>10. woken = 0
  BY DEF WakeBudget, Runnable, TypeOK
<1>11. (\A k \in 1..Len(waiters) : ~CanRun(RoomOf[waiters[k]]))'
  <2>1. CASE globalActive = Limit - 1
    BY <2>1, LimitPositive DEF Wake, Take, CanRun, TypeOK, Limit
  <2>2. CASE \A k \in 1..Len(waiters) : RoomOf[waiters[k]] \in roomActive \cup {releasing}
    <3>1. RoomOf[t] = releasing
      BY <2>2 DEF Runnable, CanRun
    <3>2. roomActive' = roomActive \cup {releasing}
      BY <3>1 DEF Wake, Take
    <3>3. \A j \in 1..Len(waiters') : RoomOf[waiters'[j]] \in roomActive'
      BY <3>2, <2>2, <1>7
    <3>4. QED
      BY <3>3 DEF CanRun
  <2>3. QED
    BY <2>1, <2>2, <1>10 DEF WakeBudget
<1>12. WakeBudget'
  BY <1>1, <1>10, <1>11 DEF WakeBudget, Wake
<1>13. Drained'
  BY <1>1 DEF Drained, Wake
<1>14. QED
  BY <1>3, <1>6, <1>8, <1>9, <1>12, <1>13

(* Every step of the queue keeps the invariant. *)
LEMMA NextIInv == IInv /\ [Next]_vars => IInv'
<1> SUFFICES ASSUME IInv, [Next]_vars PROVE IInv'
  OBVIOUS
<1> USE DEF IInv
<1>1. ASSUME NEW t \in Tasks, RunRefused(t) PROVE IInv'
  <2>1. Holders' = Holders
    BY <1>1 DEF RunRefused, Holders, TypeOK
  <2>2. Line' /\ TypeOK'
    BY <1>1 DEF RunRefused, Line, TypeOK, CallerStates
  <2>3. Slots'
    BY <1>1, <2>1 DEF RunRefused, Slots, OnePerRoom, Limit
  <2>4. NoIdleSlot' /\ WakeBudget' /\ Drained'
    BY <1>1 DEF RunRefused, NoIdleSlot, WakeBudget, Drained, EventLoopFree, CanRun, Limit
  <2>5. QED
    BY <2>2, <2>3, <2>4
<1>2. ASSUME NEW t \in Tasks, EnterTask(t) PROVE IInv'
  <2>1. Holders' = Holders
    BY <1>2 DEF EnterTask, Holders, TypeOK
  <2>2. Line' /\ TypeOK'
    BY <1>2 DEF EnterTask, Line, TypeOK, CallerStates
  <2>3. Slots'
    BY <1>2, <2>1 DEF EnterTask, Slots, OnePerRoom, Limit
  <2>4. NoIdleSlot' /\ WakeBudget' /\ Drained'
    BY <1>2 DEF EnterTask, NoIdleSlot, WakeBudget, Drained, EventLoopFree, CanRun, Limit
  <2>5. QED
    BY <2>2, <2>3, <2>4
<1>3. ASSUME NEW t \in Tasks, EnterRefused(t) PROVE IInv'
  BY <1>3, ReleaseIInv DEF EnterRefused, Holders
<1>4. ASSUME NEW t \in Tasks, FinishTask(t) PROVE IInv'
  BY <1>4, ReleaseIInv DEF FinishTask, Holders
<1>5. CASE WakeOther
  BY <1>5, WakeIInv DEF WakeOther, RunnableElsewhere, Runnable
<1>6. CASE WakeAny
  BY <1>6, WakeIInv DEF WakeAny
<1>7. CASE WakeDone
  <2>1. Holders' = Holders
    BY <1>7 DEF WakeDone, Holders
  <2>2. TypeOK' /\ Slots' /\ Line' /\ Drained'
    BY <1>7, <2>1 DEF WakeDone, TypeOK, Slots, OnePerRoom, Line, Drained, Limit
  <2>3. NoIdleSlot' /\ WakeBudget'
    BY <1>7 DEF WakeDone, NoIdleSlot, WakeBudget, Runnable, CanRun, Limit
  <2>4. QED
    BY <2>2, <2>3
<1>8. CASE Close
  <2>1. Holders' = Holders
    BY <1>8 DEF Close, Holders, TypeOK
  <2>2. Len(waiters') = 0 /\ waiters' \in Seq(Tasks)
    BY <1>8 DEF Close
  <2>3. TypeOK'
    BY <1>8, <2>2 DEF Close, TypeOK, CallerStates
  <2>4. Slots'
    BY <1>8, <2>1 DEF Close, Slots, OnePerRoom, Limit
  <2>5. Line'
    BY <1>8, <2>2 DEF Close, Line
  <2>6. NoIdleSlot' /\ WakeBudget' /\ Drained'
    BY <1>8, <2>2 DEF Close, NoIdleSlot, WakeBudget, Drained, EventLoopFree
  <2>7. QED
    BY <2>3, <2>4, <2>5, <2>6
<1>9. CASE DrainStart \/ DrainReturn
  <2>1. Holders' = Holders
    BY <1>9 DEF DrainStart, DrainReturn, Holders
  <2>2. TypeOK' /\ Drained'
    BY <1>9 DEF DrainStart, DrainReturn, TypeOK, DrainStates, Drained
  <2>3. Slots' /\ Line'
    BY <1>9, <2>1 DEF DrainStart, DrainReturn, Slots, OnePerRoom, Line, Limit
  <2>4. NoIdleSlot' /\ WakeBudget'
    BY <1>9 DEF DrainStart, DrainReturn, NoIdleSlot, WakeBudget, EventLoopFree, CanRun, Limit
  <2>5. QED
    BY <2>2, <2>3, <2>4
<1>10. CASE UNCHANGED vars
  <2>1. Holders' = Holders
    BY <1>10 DEF vars, Holders
  <2>2. QED
    BY <1>10, <2>1 DEF vars, TypeOK, Slots, OnePerRoom, Line, NoIdleSlot, WakeBudget,
                       Drained, EventLoopFree, CanRun, Limit
<1>11. QED
  BY <1>1, <1>2, <1>3, <1>4, <1>5, <1>6, <1>7, <1>8, <1>9, <1>10,
     AcquireNowIInv, AcquireLaterIInv DEF Next, Step

(* The books of the queue are always consistent. *)
THEOREM Invariance == Spec => []IInv
  BY InitIInv, NextIInv, PTL DEF Spec

(* Every variable keeps its type in every reachable state. *)
THEOREM TypeCorrect == Spec => []TypeOK
<1>1. IInv => TypeOK
  BY DEF IInv
<1>2. QED
  BY <1>1, Invariance, PTL

(* dispatch-queue.ts, "at most one in-flight task per room", for any       *)
(* callers, rooms and limit.                                               *)
THEOREM PerRoomExclusion == Spec => []OnePerRoom
<1>1. IInv => OnePerRoom
  BY DEF IInv, Slots
<1>2. QED
  BY <1>1, Invariance, PTL

(* dispatch-queue.ts, "at most `globalLimit` across all rooms": the tasks  *)
(* in flight themselves, not the counter, stay within the clamped limit.   *)
THEOREM GlobalLimitHolds == Spec => []WithinLimit
<1>1. IInv => WithinLimit
  BY DEF IInv, Slots, WithinLimit
<1>2. QED
  BY <1>1, Invariance, PTL

(* release() never leaves a runnable waiter parked.                        *)
THEOREM WorkConserving == Spec => []NoIdleSlot
<1>1. IInv => NoIdleSlot
  BY DEF IInv
<1>2. QED
  BY <1>1, Invariance, PTL

(* release() resumes at most one waiter, although its loop is unbounded.   *)
THEOREM SingleWake == Spec => []OneWakePerRelease
<1>1. IInv => OneWakePerRelease
  BY DEF IInv, WakeBudget, OneWakePerRelease
<1>2. QED
  BY <1>1, Invariance, PTL

(* After close() and a drain() that reported an empty queue, no task is in *)
(* flight and none starts.                                                 *)
THEOREM DrainIsFinal == Spec => []DrainedStaysEmpty
<1>1. IInv => DrainedStaysEmpty
  <2>1. SUFFICES ASSUME IInv, drain = "empty" PROVE Holders = {} /\ globalActive = 0
    BY DEF DrainedStaysEmpty
  <2>2. globalActive = 0 /\ Cardinality(Holders) = 0
    BY <2>1 DEF IInv, Drained, Slots
  <2>3. QED
    BY <2>2, HoldersFinite, FS_EmptySet
<1>2. QED
  BY <1>1, Invariance, PTL

(* All of them at once: what handleSync and stop() rely on holds for any    *)
(* number of callers and rooms and any limit.                               *)
THEOREM ContractHolds == Spec => []QueueContract
  BY PerRoomExclusion, GlobalLimitHolds, WorkConserving, SingleWake, DrainIsFinal, PTL DEF QueueContract

-----------------------------------------------------------------------------
(* The dispatch queue implements RoomLines. *)

(* Every line is a sequence of waiters of its room. *)
LEMMA LineOfFacts ==
  ASSUME TypeOK, NEW r
  PROVE  /\ LineOf(r) \in Seq(Tasks)
         /\ \A i \in 1..Len(LineOf(r)) : \E j \in 1..Len(waiters) : waiters[j] = LineOf(r)[i]
<1>1. waiters \in Seq(Tasks)
  BY DEF TypeOK
<1> QED
  BY <1>1, KeptElements DEF LineOf

LEMMA RefineInit == Init => RoomLines!Init
<1> SUFFICES ASSUME Init PROVE RoomLines!Init
  OBVIOUS
<1>1. \A r \in Rooms : LineOf(r) = << >>
  BY KeptEmpty DEF Init, LineOf
<1>2. Holders = {}
  BY DEF Init, Holders
<1> QED
  BY <1>1, <1>2 DEF Init, RoomLines!Init

(* A room with a free slot and without a holder, seen from both sides. *)
LEMMA CanRunAdmits ==
  ASSUME Slots, ~closed, NEW r, CanRun(r)
  PROVE  RoomLines!Admissible(r)
<1>1. Cardinality(Holders) < Limit /\ r \notin {RoomOf[t] : t \in Holders}
  BY DEF Slots, CanRun
<1>2. RoomLines!Cardinality(Holders) = Cardinality(Holders)
  BY Zenon DEF RoomLines!Cardinality, Cardinality
<1> QED
  BY <1>1, <1>2 DEF RoomLines!Admissible, RoomLines!Busy

(* run() that finds a slot: nobody of its room is parked, or release()     *)
(* would have woken it.                                                    *)
LEMMA RefineAcquireNow ==
  ASSUME IInv, NEW t \in Tasks, AcquireNow(t)
  PROVE  RoomLines!AdmitNew(t)
<1> DEFINE r == RoomOf[t]
<1>0. TypeOK /\ Slots /\ NoIdleSlot /\ waiters \in Seq(Tasks)
  BY DEF IInv, TypeOK
<1>1. r \in Rooms /\ CanRun(r) /\ ~closed /\ EventLoopFree
  BY RoomsAssumption DEF AcquireNow
<1>2. RoomLines!Admissible(r)
  BY <1>0, <1>1, CanRunAdmits
<1>3. LineOf(r) = << >>
  <2>1. \A i \in 1..Len(waiters) : waiters[i] \notin InRoom(r)
    BY <1>0, <1>1 DEF NoIdleSlot, InRoom
  <2> QED
    BY <1>0, <2>1, KeptNone DEF LineOf
<1>4. Holders' = Holders \cup {t}
  BY <1>0 DEF AcquireNow, Holders, TypeOK
<1>5. waiters' = waiters /\ closed' = closed
  BY DEF AcquireNow
<1>6. [q \in Rooms |-> LineOf(q)]' = [q \in Rooms |-> LineOf(q)]
  BY <1>5 DEF LineOf
<1> QED
  BY <1>1, <1>2, <1>3, <1>4, <1>5, <1>6 DEF RoomLines!AdmitNew

(* run() that parks: the caller joins the end of its room's line. *)
LEMMA RefineAcquireLater ==
  ASSUME IInv, NEW t \in Tasks, AcquireLater(t)
  PROVE  RoomLines!Join(t)
<1>0. TypeOK /\ Line /\ waiters \in Seq(Tasks) /\ pc \in [Tasks -> CallerStates]
  BY DEF IInv, TypeOK
<1>1. RoomOf[t] \in Rooms /\ ~closed /\ waiters' = Append(waiters, t) /\ closed' = closed /\ pc[t] = "idle"
  BY RoomsAssumption DEF AcquireLater
<1>2. Holders' = Holders /\ t \notin Holders
  BY <1>0 DEF AcquireLater, Holders
<1>3. \A i \in 1..Len(waiters) : waiters[i] # t
  BY <1>0, <1>1 DEF Line
<1>4. ~\E i \in 1..Len(LineOf(RoomOf[t])) : LineOf(RoomOf[t])[i] = t
  BY <1>0, <1>3, LineOfFacts
<1>5. ASSUME NEW r \in Rooms
      PROVE  LineOf(r)' = IF r = RoomOf[t] THEN Append(LineOf(r), t) ELSE LineOf(r)
  <2>1. t \in InRoom(r) <=> r = RoomOf[t]
    BY DEF InRoom
  <2> DEFINE T == InRoom(r)
  <2> HIDE DEF T
  <2>2. Kept(Append(waiters, t), T) = IF t \in T THEN Append(Kept(waiters, T), t) ELSE Kept(waiters, T)
    BY <1>0, KeptAppend
  <2> USE DEF T
  <2>3. LineOf(r)' = Kept(Append(waiters, t), InRoom(r))
    BY <1>1 DEF LineOf, InRoom
  <2> QED
    BY <2>1, <2>2, <2>3 DEF LineOf
<1>6. [q \in Rooms |-> LineOf(q)]' = [[q \in Rooms |-> LineOf(q)] EXCEPT ![RoomOf[t]] = Append(@, t)]
  BY <1>1, <1>5
<1> QED
  BY <1>1, <1>2, <1>4, <1>6 DEF RoomLines!Join, RoomLines!Waiting

(* A wake: the waiter is the first of its room. *)
LEMMA RefineWake ==
  ASSUME IInv, releasing # NoRoom, NEW i \in 1..Len(waiters), Runnable(i), Wake(i),
         \A j \in 1..(i - 1) : RoomOf[waiters[j]] # RoomOf[waiters[i]]
  PROVE  RoomLines!AdmitFirst(RoomOf[waiters[i]])
<1> DEFINE t == waiters[i]
           r == RoomOf[t]
<1>0. /\ TypeOK /\ Slots /\ Line /\ waiters \in Seq(Tasks) /\ pc \in [Tasks -> CallerStates]
      /\ Len(waiters) \in Nat
  BY DEF IInv, TypeOK
<1>1. t \in Tasks /\ ~closed /\ closed' = closed /\ waiters' = RemoveAt(waiters, i) /\ CanRun(r)
  BY <1>0 DEF IInv, WakeBudget, Wake, Runnable
<1>2. r \in Rooms
  BY <1>1, RoomsAssumption
<1>3. RoomLines!Admissible(r)
  BY <1>0, <1>1, CanRunAdmits
<1>4. Holders' = Holders \cup {t}
  BY <1>0, <1>1 DEF Wake, Holders
<1>5. t \in InRoom(r) /\ \A j \in 1..(i - 1) : waiters[j] \notin InRoom(r)
  BY <1>1 DEF InRoom
<1>6. /\ LineOf(r) # << >> /\ Head(LineOf(r)) = t /\ Tail(LineOf(r)) = Kept(waiters', InRoom(r))
  <2> DEFINE T == InRoom(r)
  <2>1. waiters[i] \in T /\ \A j \in 1..(i - 1) : waiters[j] \notin T
    BY <1>5
  <2> HIDE DEF T
  <2>2. Kept(waiters, T) # << >> /\ Head(Kept(waiters, T)) = waiters[i] /\ Tail(Kept(waiters, T)) = Kept(waiters', T)
    BY <1>0, <1>1, <2>1, KeptRemove
  <2> QED
    BY <2>2 DEF T, LineOf
<1>7. ASSUME NEW q \in Rooms PROVE LineOf(q)' = IF q = r THEN Tail(LineOf(q)) ELSE LineOf(q)
  <2>1. LineOf(q)' = Kept(waiters', InRoom(q))
    BY DEF LineOf, InRoom
  <2>2. CASE q = r
    BY <1>6, <2>1, <2>2
  <2>3. CASE q # r
    <3>1. t \notin InRoom(q)
      BY <2>3 DEF InRoom
    <3>2. Kept(waiters', InRoom(q)) = Kept(waiters, InRoom(q))
      BY <1>0, <1>1, <3>1, KeptRemove
    <3> QED
      BY <2>1, <2>3, <3>2 DEF LineOf
  <2> QED
    BY <2>2, <2>3
<1>8. [q \in Rooms |-> LineOf(q)]' = [[q \in Rooms |-> LineOf(q)] EXCEPT ![r] = Tail(@)]
  BY <1>2, <1>7
<1> QED
  BY <1>1, <1>2, <1>3, <1>4, <1>6, <1>8 DEF RoomLines!AdmitFirst

LEMMA RefineClose ==
  ASSUME IInv, Close
  PROVE  RoomLines!Shut
<1>1. waiters' = << >> /\ ~closed /\ closed' = TRUE
  BY DEF Close
<1>2. Holders' = Holders
  BY DEF IInv, Close, Holders, TypeOK
<1>3. \A r \in Rooms : LineOf(r)' = << >>
  BY <1>1, KeptEmpty DEF LineOf
<1> QED
  BY <1>1, <1>2, <1>3 DEF RoomLines!Shut

(* A step that moves nobody. *)
LEMMA RefineQuiet ==
  ASSUME UNCHANGED <<waiters, closed>>, Holders' = Holders
  PROVE  UNCHANGED RoomLines!vars
<1>1. [q \in Rooms |-> LineOf(q)]' = [q \in Rooms |-> LineOf(q)]
  BY DEF LineOf
<1> QED
  BY <1>1 DEF RoomLines!vars

(* A caller that gives its slot back. *)
LEMMA RefineLeave ==
  ASSUME UNCHANGED <<waiters, closed>>, NEW t \in Holders, Holders' = Holders \ {t}
  PROVE  RoomLines!Leave(t)
<1>1. [q \in Rooms |-> LineOf(q)]' = [q \in Rooms |-> LineOf(q)]
  BY DEF LineOf
<1> QED
  BY <1>1 DEF RoomLines!Leave

LEMMA RefineStep ==
  ASSUME IInv, [Next]_vars
  PROVE  [RoomLines!Next]_(RoomLines!vars)
<1>0. TypeOK /\ pc \in [Tasks -> CallerStates] /\ waiters \in Seq(Tasks) /\ Len(waiters) \in Nat
  BY DEF IInv, TypeOK
<1>1. ASSUME NEW t \in Tasks, RunRefused(t) \/ EnterTask(t) PROVE UNCHANGED RoomLines!vars
  <2>1. UNCHANGED <<waiters, closed>> /\ Holders' = Holders
    BY <1>0, <1>1 DEF RunRefused, EnterTask, Holders
  <2> QED
    BY <2>1, RefineQuiet
<1>2. ASSUME NEW t \in Tasks, AcquireNow(t) PROVE RoomLines!Next
  BY <1>2, RefineAcquireNow DEF RoomLines!Next
<1>3. ASSUME NEW t \in Tasks, AcquireLater(t) PROVE RoomLines!Next
  BY <1>3, RefineAcquireLater DEF RoomLines!Next
<1>4. ASSUME NEW t \in Tasks, EnterRefused(t) \/ FinishTask(t) PROVE RoomLines!Next
  <2>1. UNCHANGED <<waiters, closed>> /\ t \in Holders /\ Holders' = Holders \ {t}
    BY <1>0, <1>4 DEF EnterRefused, FinishTask, Holders
  <2> QED
    BY <2>1, RefineLeave DEF RoomLines!Next
<1>5. ASSUME NEW i \in 1..Len(waiters), releasing # NoRoom, Runnable(i), Wake(i),
             \A j \in 1..(i - 1) : RoomOf[waiters[j]] # RoomOf[waiters[i]]
      PROVE  RoomLines!Next
  <2>1. RoomOf[waiters[i]] \in Rooms
    BY <1>0, RoomsAssumption
  <2> QED
    BY <1>5, <2>1, RefineWake DEF RoomLines!Next
<1>6. CASE WakeOther
  <2>1. PICK i \in 1..Len(waiters) : RunnableElsewhere(i) /\ (\A j \in 1..(i - 1) : ~RunnableElsewhere(j)) /\ Wake(i)
    BY <1>6 DEF WakeOther
  <2>2. \A j \in 1..(i - 1) : RoomOf[waiters[j]] # RoomOf[waiters[i]]
    BY <2>1 DEF RunnableElsewhere
  <2> QED
    BY <1>5, <1>6, <2>1, <2>2 DEF WakeOther, RunnableElsewhere, Runnable
<1>7. CASE WakeAny
  <2>1. PICK i \in 1..Len(waiters) : Runnable(i) /\ (\A j \in 1..(i - 1) : ~Runnable(j)) /\ Wake(i)
    BY <1>7 DEF WakeAny
  <2>2. \A j \in 1..(i - 1) : RoomOf[waiters[j]] # RoomOf[waiters[i]]
    BY <2>1 DEF Runnable
  <2> QED
    BY <1>5, <1>7, <2>1, <2>2 DEF WakeAny
<1>8. CASE Close
  BY <1>8, RefineClose DEF RoomLines!Next
<1>9. CASE WakeDone \/ DrainStart \/ DrainReturn \/ UNCHANGED vars
  <2>1. UNCHANGED <<waiters, closed>> /\ Holders' = Holders
    BY <1>9 DEF WakeDone, DrainStart, DrainReturn, Holders, vars
  <2> QED
    BY <2>1, RefineQuiet
<1> QED
  BY <1>1, <1>2, <1>3, <1>4, <1>6, <1>7, <1>8, <1>9 DEF Next, Step

(* The queue implements RoomLines for every number of callers, rooms and   *)
(* slots: tasks of one room start in the order they were submitted and one *)
(* at a time, whichever order the wake loop serves the rooms in.           *)
THEOREM Refinement == Spec => ImplementsRoomLines
<1>1. Spec => []IInv
  BY Invariance
<1>2. IInv /\ [Next]_vars => [RoomLines!Next]_(RoomLines!vars)
  BY RefineStep
<1> QED
  BY <1>1, <1>2, RefineInit, PTL DEF Spec, ImplementsRoomLines, RoomLines!Spec

-----------------------------------------------------------------------------
(* The event deduper.                                                      *)

(* The part of the array that is in the window. *)
Window == (head + 1)..Len(order)

(* The head is inside the array and the window within the capacity.        *)
Shape == head <= Len(order) /\ Len(order) - head <= Cap

(* A key of the set has a slot of its age.  It may have an older one.      *)
SetHasSlots == \A k \in set : \E i \in Window : order[i] = k /\ age[k] = Len(order) - i

(* A key never forgotten has no other slot than the one of its age.        *)
SlotsHaveAge == \A i \in Window : order[i] \notin forgotten => age[order[i]] = Len(order) - i

DedupInv == DedupTypeOK /\ Shape /\ SetHasSlots /\ SlotsHaveAge /\ RemembersWindow

(* The clamped capacity is a positive number. *)
LEMMA CapIsPositive == Cap \in Nat /\ Cap >= 1
BY CapacityAssumption DEF Cap

(* What splice(0, n) leaves of an array. *)
LEMMA TailOfSequence ==
  ASSUME NEW S, NEW q \in Seq(S), NEW n \in Nat, n <= Len(q), NEW t, t = SubSeq(q, n + 1, Len(q))
  PROVE  t \in Seq(S) /\ Len(t) = Len(q) - n /\ \A i \in 1..Len(t) : t[i] = q[i + n]
OBVIOUS

(* A new deduper is empty. *)
LEMMA DedupInitHolds == DedupInit => DedupInv
<1> SUFFICES ASSUME DedupInit PROVE DedupInv
  OBVIOUS
<1> USE CapIsPositive DEF DedupInit
<1>1. DedupTypeOK
  BY DEF DedupTypeOK
<1>2. Shape /\ SetHasSlots /\ SlotsHaveAge /\ RemembersWindow
  BY DEF Shape, SetHasSlots, SlotsHaveAge, RemembersWindow, Window
<1> QED
  BY <1>1, <1>2 DEF DedupInv

(* seen() of a new key into a window with room. *)
LEMMA SeenFirstHolds == ASSUME DedupInv, NEW k \in Keys, SeenFirst(k) PROVE DedupInv'
<1> USE CapIsPositive
<1>1. /\ order \in Seq(Keys) /\ head \in 0..Cap /\ head <= Len(order)
      /\ age \in [Keys -> 0..Cap] /\ set \subseteq Keys
  BY DEF DedupInv, DedupTypeOK, Shape
<1>2. /\ order' \in Seq(Keys) /\ Len(order') = Len(order) + 1
      /\ \A i \in 1..Len(order) : order'[i] = order[i]
      /\ order'[Len(order) + 1] = k
      /\ head' = head
  BY <1>1 DEF SeenFirst
<1>3. age' \in [Keys -> 0..Cap]
  BY <1>1 DEF SeenFirst, Aged, Older
<1>4. DedupTypeOK'
  BY <1>1, <1>2, <1>3 DEF SeenFirst, DedupInv, DedupTypeOK
<1>5. Shape'
  BY <1>1, <1>2 DEF SeenFirst, Shape
<1>6. ASSUME NEW j \in set' PROVE \E i \in Window' : order'[i] = j /\ age'[j] = Len(order') - i
  <2>1. CASE j = k
    <3>1. age'[j] = 0 /\ Len(order) + 1 \in Window'
      BY <1>1, <1>2, <2>1 DEF SeenFirst, Aged, Window
    <3> QED
      BY <1>1, <1>2, <2>1, <3>1
  <2>2. CASE j # k
    <3>1. j \in set /\ j \in Keys
      BY <1>1, <2>2 DEF SeenFirst
    <3>2. PICK i \in Window : order[i] = j /\ age[j] = Len(order) - i
      BY <3>1 DEF DedupInv, SetHasSlots
    <3>3. i \in Window' /\ order'[i] = j /\ i \in Int /\ i > head
      BY <1>1, <1>2, <3>2, SMTT(30) DEF Window
    <3>4. age[j] < Cap
      BY <1>1, <3>2, <3>3 DEF SeenFirst
    <3>5. age'[j] = age[j] + 1
      BY <1>1, <2>2, <3>1, <3>4 DEF SeenFirst, Aged, Older
    <3> QED
      BY <1>1, <1>2, <3>2, <3>3, <3>5
  <2> QED
    BY <2>1, <2>2
<1>7. ASSUME NEW i \in Window', order'[i] \notin forgotten' PROVE age'[order'[i]] = Len(order') - i
  <2>1. CASE i = Len(order) + 1
    BY <1>1, <1>2, <2>1 DEF SeenFirst, Aged
  <2>2. CASE i # Len(order) + 1
    <3>1. i \in Window /\ order'[i] = order[i] /\ order[i] \in Keys /\ i \in Int /\ i > head
      BY <1>1, <1>2, <2>2 DEF Window
    <3>2. age[order[i]] = Len(order) - i
      BY <1>7, <3>1 DEF DedupInv, SlotsHaveAge, SeenFirst
    <3>3. age[order[i]] < Cap
      BY <1>1, <3>1, <3>2 DEF SeenFirst
    <3>4. order[i] # k
      BY <1>7, <3>1, <3>3 DEF DedupInv, RemembersWindow, SeenFirst
    <3>5. age'[order[i]] = age[order[i]] + 1
      BY <1>1, <3>1, <3>3, <3>4 DEF SeenFirst, Aged, Older
    <3> QED
      BY <1>1, <1>2, <3>1, <3>2, <3>5
  <2> QED
    BY <2>1, <2>2
<1>8. RemembersWindow'
  BY <1>1 DEF DedupInv, RemembersWindow, SeenFirst, Aged, Older
<1> QED
  BY <1>4, <1>5, <1>6, <1>7, <1>8 DEF DedupInv, SetHasSlots, SlotsHaveAge

(* seen() of a new key into a full window.  splice() removes c entries, 0  *)
(* or all that are out of the window.                                      *)
LEMMA SeenEvictingHolds == ASSUME DedupInv, NEW k \in Keys, SeenEvicting(k) PROVE DedupInv'
<1> USE CapIsPositive
<1> DEFINE s == Append(order, k)
           old == order[head + 1]
<1>1. /\ order \in Seq(Keys) /\ Len(order) \in Nat /\ head \in 0..Cap
      /\ head <= Len(order) /\ Len(order) - head = Cap
      /\ age \in [Keys -> 0..Cap] /\ set \subseteq Keys
  BY DEF DedupInv, DedupTypeOK, Shape, SeenEvicting
<1>2. s \in Seq(Keys) /\ Len(s) = Len(order) + 1
  BY <1>1
<1>3. \A i \in 1..Len(order) : s[i] = order[i]
  BY <1>1
<1>4. s[Len(order) + 1] = k
  BY <1>1
<1>5. Stale(s) = old /\ old \in Keys
  BY <1>1 DEF Stale
<1>6. set' = (set \cup {k}) \ {old} /\ age' = Aged(k) /\ forgotten' = forgotten /\ k \notin set
  BY <1>5 DEF SeenEvicting
<1>7. \E c \in Nat : /\ c <= head + 1 /\ head' = head + 1 - c /\ head' \in 0..Cap
                     /\ order' = SubSeq(s, c + 1, Len(s))
  <2>1. CASE head + 1 > Cap
    <3>1. order' = SubSeq(s, (head + 1) + 1, Len(s)) /\ head' = 0
      BY <2>1 DEF SeenEvicting, CutBack
    <3> HIDE DEF s
    <3> QED
      BY <1>1, <3>1
  <2>2. CASE ~(head + 1 > Cap)
    <3>1. order' = s /\ head' = head + 1
      BY <2>2 DEF SeenEvicting, CutBack
    <3> HIDE DEF s
    <3>2. s = SubSeq(s, 0 + 1, Len(s))
      BY <1>2
    <3>3. head' = head + 1 - 0 /\ head' \in 0..Cap /\ 0 <= head + 1 /\ 0 \in Nat
      BY <1>1, <2>2, <3>1
    <3> QED
      BY <3>1, <3>2, <3>3
  <2> QED
    BY <2>1, <2>2
<1> HIDE DEF s, old
<1>8. PICK c \in Nat : /\ c <= head + 1 /\ head' = head + 1 - c /\ head' \in 0..Cap
                      /\ order' = SubSeq(s, c + 1, Len(s))
  BY <1>7
<1>9. c <= Len(s) /\ c <= Len(order) /\ head + 1 <= Len(order)
  BY <1>1, <1>2, <1>8, SMTT(30)
<1>10. /\ order' \in Seq(Keys) /\ Len(order') = Len(s) - c
       /\ \A i \in 1..Len(order') : order'[i] = s[i + c]
  BY <1>2, <1>8, <1>9, TailOfSequence
<1>11. Len(order') = Len(order) + 1 - c /\ Len(order') \in Nat
  BY <1>1, <1>2, <1>9, <1>10
<1>12. ASSUME NEW i \in Int, c < i, i <= Len(order) PROVE order'[i - c] = order[i]
  <2>1. i - c \in 1..Len(order') /\ (i - c) + c = i /\ i \in 1..Len(order)
    BY <1>1, <1>11, <1>12
  <2> QED
    BY <1>3, <1>10, <2>1
<1>13. order'[Len(order')] = k
  <2>1. Len(order') \in 1..Len(order') /\ Len(order') + c = Len(order) + 1
    BY <1>1, <1>9, <1>11
  <2> QED
    BY <1>4, <1>10, <2>1
<1>14. age' \in [Keys -> 0..Cap]
  BY <1>1, <1>6 DEF Aged, Older
<1>15. age'[k] = 0 /\ \A j \in Keys : j # k => age'[j] = Older(age[j])
  BY <1>6 DEF Aged
<1>16. ASSUME NEW n \in 0..Cap, n < Cap PROVE Older(n) = n + 1
  BY <1>16 DEF Older
<1>17. DedupTypeOK'
  BY <1>1, <1>6, <1>8, <1>10, <1>14 DEF DedupInv, DedupTypeOK
<1>18. Shape'
  BY <1>1, <1>8, <1>11 DEF Shape
<1>19. ASSUME NEW j \in set' PROVE \E i \in Window' : order'[i] = j /\ age'[j] = Len(order') - i
  <2>1. CASE j = k
    <3>1. Len(order') \in Window' /\ Len(order') - Len(order') = 0
      BY <1>1, <1>8, <1>11 DEF Window
    <3> QED
      BY <1>13, <1>15, <2>1, <3>1
  <2>2. CASE j # k
    <3>1. j \in set /\ j \in Keys /\ j # old
      BY <1>1, <1>6, <2>2
    <3>2. PICK i \in Window : order[i] = j /\ age[j] = Len(order) - i
      BY <3>1 DEF DedupInv, SetHasSlots
    <3>3. i \in Int /\ i > head + 1 /\ i <= Len(order)
      <4>1. i \in Int /\ i >= head + 1 /\ i <= Len(order)
        BY <1>1, <3>2 DEF Window
      <4>2. i # head + 1
        BY <3>1, <3>2 DEF old
      <4> QED
        BY <1>1, <4>1, <4>2
    <3>4. order'[i - c] = j
      <4>1. c < i
        BY <1>1, <1>8, <3>3
      <4> QED
        BY <1>12, <3>2, <3>3, <4>1
    <3>5. i - c \in Window'
      BY <1>1, <1>8, <1>11, <3>3 DEF Window
    <3>6. age[j] \in 0..Cap /\ age[j] < Cap
      BY <1>1, <3>1, <3>2, <3>3
    <3>7. age'[j] = age[j] + 1
      BY <1>15, <1>16, <2>2, <3>1, <3>6
    <3>8. age'[j] = Len(order') - (i - c)
      BY <1>1, <1>11, <3>2, <3>3, <3>7
    <3> QED
      BY <3>4, <3>5, <3>8
  <2> QED
    BY <2>1, <2>2
<1>20. ASSUME NEW i \in Window', order'[i] \notin forgotten' PROVE age'[order'[i]] = Len(order') - i
  <2>1. i \in Int /\ i >= head' + 1 /\ i <= Len(order')
    BY <1>8, <1>11 DEF Window
  <2>2. CASE i = Len(order')
    BY <1>11, <1>13, <1>15, <2>2
  <2>3. CASE i # Len(order')
    <3> DEFINE p == i + c
               j == order[p]
    <3>1. p \in Int /\ p > head + 1 /\ p <= Len(order) /\ p > c /\ p - c = i
      BY <1>1, <1>8, <1>11, <2>1, <2>3
    <3>2. p \in Window /\ p \in 1..Len(order)
      BY <1>1, <3>1 DEF Window
    <3>3. order'[i] = j
      BY <1>12, <3>1
    <3>4. j \in Keys
      BY <1>1, <3>2
    <3> HIDE DEF p
    <3>5. age[j] = Len(order) - p
      BY <1>6, <1>20, <3>2, <3>3 DEF DedupInv, SlotsHaveAge
    <3> HIDE DEF j
    <3>6. age[j] \in 0..Cap /\ age[j] < Cap
      BY <1>1, <3>1, <3>4, <3>5
    <3>7. j # k
      BY <1>6, <1>20, <3>3, <3>4, <3>6 DEF DedupInv, RemembersWindow
    <3>8. age'[j] = age[j] + 1
      BY <1>15, <1>16, <3>4, <3>6, <3>7
    <3>9. Len(order) - p + 1 = Len(order') - i
      BY <1>1, <1>8, <1>11, <3>1, SMTT(30)
    <3> QED
      BY <3>3, <3>5, <3>8, <3>9
  <2> QED
    BY <2>2, <2>3
<1>21. ASSUME NEW j \in Keys \ forgotten', age'[j] < Cap PROVE j \in set'
  <2>1. old \notin forgotten => age[old] = Cap - 1
    <3>1. head + 1 \in Window
      BY <1>1, <1>9 DEF Window
    <3>2. old \notin forgotten => age[old] = Len(order) - (head + 1)
      BY <3>1 DEF DedupInv, SlotsHaveAge, old
    <3> QED
      BY <1>1, <3>2
  <2>2. CASE j = k
    <3>1. k # old
      BY <1>1, <1>5, <1>6, <1>21, <2>1, <2>2 DEF DedupInv, RemembersWindow
    <3> QED
      BY <1>6, <2>2, <3>1
  <2>3. CASE j # k
    <3>1. age[j] \in 0..Cap /\ age[j] + 1 < Cap
      BY <1>1, <1>15, <1>21, <2>3 DEF Older
    <3>2. j \in set
      BY <1>1, <1>6, <1>21, <3>1 DEF DedupInv, RemembersWindow
    <3>3. j # old
      BY <1>6, <1>21, <2>1, <3>1
    <3> QED
      BY <1>6, <3>2, <3>3
  <2> QED
    BY <2>2, <2>3
<1> QED
  BY <1>17, <1>18, <1>19, <1>20, <1>21 DEF DedupInv, SetHasSlots, SlotsHaveAge, RemembersWindow

(* forget(): the key keeps its slots but is not in the set any more. *)
LEMMA ForgetHolds == ASSUME DedupInv, NEW k \in Keys, Forget(k) PROVE DedupInv'
<1> USE CapIsPositive
<1>1. DedupTypeOK' /\ Shape'
  BY DEF Forget, DedupInv, DedupTypeOK, Shape
<1>2. \A j \in Keys : j # k => age'[j] = age[j]
  BY DEF Forget, DedupInv, DedupTypeOK
<1>3. Window' = Window
  BY DEF Forget, Window
<1>4. SetHasSlots'
  BY <1>2, <1>3 DEF Forget, DedupInv, DedupTypeOK, SetHasSlots
<1>5. \A i \in Window : order[i] \in Keys
  BY DEF DedupInv, DedupTypeOK, Shape, Window
<1>6. SlotsHaveAge'
  BY <1>2, <1>3, <1>5 DEF Forget, DedupInv, SlotsHaveAge
<1>7. RemembersWindow'
  BY <1>2 DEF Forget, DedupInv, DedupTypeOK, RemembersWindow
<1> QED
  BY <1>1, <1>4, <1>6, <1>7 DEF DedupInv

(* The inductive invariant holds throughout. *)
THEOREM DedupInvariance == DedupSpec => []DedupInv
<1>1. DedupInit => DedupInv
  BY DedupInitHolds
<1>2. DedupInv /\ [DedupNext]_dedupVars => DedupInv'
  <2> SUFFICES ASSUME DedupInv, [DedupNext]_dedupVars PROVE DedupInv'
    OBVIOUS
  <2>1. ASSUME NEW k \in Keys, SeenAgain(k) PROVE DedupInv'
    BY <2>1 DEF SeenAgain, dedupVars, DedupInv, DedupTypeOK, Shape, SetHasSlots, SlotsHaveAge, RemembersWindow, Window
  <2>2. ASSUME NEW k \in Keys, SeenFirst(k) PROVE DedupInv'
    BY <2>2, SeenFirstHolds
  <2>3. ASSUME NEW k \in Keys, SeenEvicting(k) PROVE DedupInv'
    BY <2>3, SeenEvictingHolds
  <2>4. ASSUME NEW k \in Keys, Forget(k) PROVE DedupInv'
    BY <2>4, ForgetHolds
  <2>5. CASE UNCHANGED dedupVars
    BY <2>5 DEF dedupVars, DedupInv, DedupTypeOK, Shape, SetHasSlots, SlotsHaveAge, RemembersWindow, Window
  <2> QED
    BY <2>1, <2>2, <2>3, <2>4, <2>5 DEF DedupNext
<1> QED
  BY <1>1, <1>2, PTL DEF DedupSpec

(* seen() recognises every event of the window that was never forgotten,   *)
(* for every capacity and every set of keys.                               *)
THEOREM WindowRemembered == DedupSpec => []RemembersWindow
BY DedupInvariance, PTL DEF DedupInv

(* seen() never calls a new event a duplicate. *)
THEOREM NewEventsPass == DedupSpec => []NoFalseDuplicate
<1>1. DedupInv => NoFalseDuplicate
  <2> SUFFICES ASSUME DedupInv, NEW k \in set PROVE age[k] < Cap
    BY DEF NoFalseDuplicate
  <2>1. PICK i \in Window : order[i] = k /\ age[k] = Len(order) - i
    BY DEF DedupInv, SetHasSlots
  <2>2. i \in Int /\ i > head
    BY DEF DedupInv, DedupTypeOK, Window
  <2> QED
    BY <2>1, <2>2, CapIsPositive DEF DedupInv, DedupTypeOK, Shape
<1> QED
  BY <1>1, DedupInvariance, PTL

(* The array stays within twice the capacity. *)
THEOREM ArrayBounded == DedupSpec => []Bounded
<1>1. DedupInv => Bounded
  BY CapIsPositive DEF DedupInv, DedupTypeOK, Shape, Bounded
<1> QED
  BY <1>1, DedupInvariance, PTL

-----------------------------------------------------------------------------
(* The outbox.                                                             *)

(* An entry stands for an enqueued message and carries its transaction id, *)
(* if the message has one.                                                 *)
Genuine(s) == \A i \in 1..Len(s) : s[i].msg \in queued /\ s[i].txnId = (s[i].msg \in Keyed)

(* No message has two entries. *)
Distinct(s) == \A i, j \in 1..Len(s) : s[i].msg = s[j].msg => i = j

(* A call that has not settled has not enqueued its message. *)
UnsettledNotQueued == \A m \in Messages : call[m] \in {"new", "sending", "transient"} => m \notin queued

(* What the flush has still to do is what the store says: nothing but the  *)
(* flush itself changes an entry.                                          *)
SnapshotCurrent ==
  \A i \in 1..Len(flush.todo), j \in 1..Len(store) :
    flush.todo[i].msg = store[j].msg => flush.todo[i].attempts = store[j].attempts

(* The flush is at an entry that has attempts left. *)
AtEntry ==
  flush.pc \in {"sending", "sent", "failed"} => flush.todo # <<>> /\ Current.attempts < MaxAttempts

OutboxInv ==
  /\ OutboxTypeOK
  /\ Genuine(store) /\ Genuine(flush.todo)
  /\ Distinct(store) /\ Distinct(flush.todo)
  /\ UnsettledNotQueued /\ SnapshotCurrent /\ AtEntry
  /\ NothingForgotten /\ KeyedOnce

(* What RemoveAt leaves of a sequence: everything else, in order. *)
LEMMA RemoveAtIs ==
  ASSUME NEW S, NEW s \in Seq(S), NEW k \in 1..Len(s), NEW t, t = RemoveAt(s, k)
  PROVE  /\ t \in Seq(S) /\ Len(t) = Len(s) - 1
         /\ \A j \in 1..Len(t) : t[j] = s[IF j < k THEN j ELSE j + 1]
<1>1. /\ t \in Seq(S) /\ Len(t) = Len(s) - 1
      /\ \A j \in 1..(Len(s) - 1) : t[j] = IF j < k THEN s[j] ELSE s[j + 1]
  BY RemoveAtFacts
<1> QED
  BY <1>1

(* remove(): the entries of other messages stay, unchanged and in order,   *)
(* and no others come.                                                     *)
LEMMA WithoutFacts ==
  ASSUME NEW m, store \in Seq(Entries), Distinct(store), NEW t, t = Without(m)
  PROVE  /\ t \in Seq(Entries) /\ Distinct(t)
         /\ \A j \in 1..Len(t) : \E i \in 1..Len(store) : t[j] = store[i] /\ t[j].msg # m
         /\ \A i \in 1..Len(store) : store[i].msg # m => \E j \in 1..Len(t) : t[j] = store[i]
<1>1. CASE \E i \in 1..Len(store) : store[i].msg = m
  <2> DEFINE k == CHOOSE i \in 1..Len(store) : store[i].msg = m
  <2>1. k \in 1..Len(store) /\ store[k].msg = m
    BY <1>1
  <2>2. t = RemoveAt(store, k)
    BY <1>1 DEF Without
  <2> HIDE DEF k
  <2>3. /\ t \in Seq(Entries) /\ Len(t) = Len(store) - 1
        /\ \A j \in 1..Len(t) : t[j] = store[IF j < k THEN j ELSE j + 1]
    BY <2>1, <2>2, RemoveAtIs, SMTT(30)
  <2>4. Distinct(t)
    BY <2>1, <2>3, SMTT(30) DEF Distinct
  <2>5. ASSUME NEW j \in 1..Len(t)
        PROVE  \E i \in 1..Len(store) : t[j] = store[i] /\ t[j].msg # m
    BY <2>1, <2>3, SMTT(30) DEF Distinct
  <2>6. ASSUME NEW i \in 1..Len(store), store[i].msg # m
        PROVE  \E j \in 1..Len(t) : t[j] = store[i]
    <3>1. i # k
      BY <2>1, <2>6
    <3>2. CASE i < k
      <4>1. i \in 1..Len(t) /\ t[i] = store[i]
        BY <2>1, <2>3, <3>2
      <4> QED
        BY <4>1
    <3>3. CASE i > k
      <4>1. i - 1 \in 1..Len(t) /\ t[i - 1] = store[i]
        BY <2>1, <2>3, <3>3
      <4> QED
        BY <4>1
    <3> QED
      BY <2>1, <3>1, <3>2, <3>3
  <2> QED
    BY <2>3, <2>4, <2>5, <2>6
<1>2. CASE ~ \E i \in 1..Len(store) : store[i].msg = m
  BY <1>2 DEF Without
<1> QED
  BY <1>1, <1>2

-----------------------------------------------------------------------------
(* A new bot has an empty outbox. *)
LEMMA OutboxInitHolds == OutboxInit => OutboxInv
<1> SUFFICES ASSUME OutboxInit PROVE OutboxInv
  OBVIOUS
<1> USE OutboxAssumption DEF OutboxInit, NoFlush
<1>1. OutboxTypeOK
  <2>1. store \in Seq(Entries) /\ flush.todo \in Seq(Entries)
    OBVIOUS
  <2>2. flush \in [pc : {"none", "next", "sending", "sent", "failed", "done"}, todo : Seq(Entries)]
    BY <2>1
  <2>3. posted \in [Messages -> Nat] /\ call \in [Messages -> CallStates]
    BY DEF CallStates
  <2>4. crashes \in 0..MaxCrashes /\ queued \subseteq Messages /\ flushed \subseteq queued /\ dropped \subseteq queued
    OBVIOUS
  <2>5. up \in BOOLEAN
    OBVIOUS
  <2> HIDE DEF OutboxInit
  <2> QED
    BY <2>1, <2>2, <2>3, <2>4, <2>5 DEF OutboxTypeOK
<1>2. Genuine(store) /\ Genuine(flush.todo) /\ Distinct(store) /\ Distinct(flush.todo)
  BY DEF Genuine, Distinct
<1>3. UnsettledNotQueued /\ SnapshotCurrent /\ AtEntry /\ NothingForgotten
  BY DEF UnsettledNotQueued, SnapshotCurrent, AtEntry, NothingForgotten
<1>4. KeyedOnce
  BY DEF KeyedOnce
<1> QED
  BY <1>1, <1>2, <1>3, <1>4 DEF OutboxInv

(* A post with the transaction id of a message that has one never posts it *)
(* a second time.                                                          *)
LEMMA PostFacts ==
  ASSUME OutboxTypeOK, KeyedOnce, NEW m \in Messages, Post(m, m \in Keyed)
  PROVE  posted' \in [Messages -> Nat] /\ KeyedOnce'
<1>1. posted \in [Messages -> Nat]
  BY DEF OutboxTypeOK
<1>2. CASE m \in Keyed /\ posted[m] > 0
  <2>1. posted' = [posted EXCEPT ![m] = posted[m]]
    BY <1>2 DEF Post
  <2> QED
    BY <1>1, <2>1, OutboxAssumption DEF KeyedOnce
<1>3. CASE ~(m \in Keyed /\ posted[m] > 0)
  <2>1. posted' = [posted EXCEPT ![m] = posted[m] + 1]
    BY <1>3 DEF Post
  <2> QED
    BY <1>1, <1>3, <2>1, OutboxAssumption DEF KeyedOnce
<1> QED
  BY <1>2, <1>3

(* A step that leaves the store, the flush and the histories alone keeps   *)
(* everything, if no settled call starts again.                            *)
LEMMA CallStepHolds ==
  ASSUME OutboxInv, UNCHANGED <<store, flush, queued, flushed, dropped>>,
         call' \in [Messages -> CallStates], up' \in BOOLEAN, crashes' \in 0..MaxCrashes,
         posted' \in [Messages -> Nat], KeyedOnce',
         \A m \in Messages : call'[m] \in {"new", "sending", "transient"} =>
                               call[m] \in {"new", "sending", "transient"}
  PROVE  OutboxInv'
<1>1. OutboxTypeOK'
  BY DEF OutboxInv, OutboxTypeOK
<1>2. Genuine(store)' /\ Genuine(flush.todo)' /\ Distinct(store)' /\ Distinct(flush.todo)'
  BY DEF OutboxInv, Genuine, Distinct
<1>3. UnsettledNotQueued'
  BY DEF OutboxInv, UnsettledNotQueued
<1>4. SnapshotCurrent' /\ AtEntry' /\ NothingForgotten'
  BY DEF OutboxInv, SnapshotCurrent, AtEntry, Current, NothingForgotten, InStore
<1> QED
  BY <1>1, <1>2, <1>3, <1>4 DEF OutboxInv

(* sendEventWithOutbox() without its enqueue(). *)
LEMMA SendHolds ==
  ASSUME OutboxInv, NEW m \in Messages, Send(m) \/ SendReturns(m) \/ SendRefused(m) \/ SendFails(m)
  PROVE  OutboxInv'
<1>1. /\ UNCHANGED <<store, flush, queued, flushed, dropped, up, crashes>>
      /\ call' \in [Messages -> CallStates]
      /\ \A n \in Messages : call'[n] \in {"new", "sending", "transient"} =>
                              call[n] \in {"new", "sending", "transient"}
  BY DEF OutboxInv, OutboxTypeOK, CallStates, Send, SendReturns, SendRefused, SendFails, Settle
<1>2. posted' \in [Messages -> Nat] /\ KeyedOnce'
  <2>1. CASE UNCHANGED posted
    BY <2>1 DEF OutboxInv, OutboxTypeOK, KeyedOnce
  <2>2. CASE Post(m, m \in Keyed)
    BY <2>2, PostFacts DEF OutboxInv
  <2> QED
    BY <2>1, <2>2 DEF Send, SendReturns, SendRefused, SendFails
<1> QED
  BY <1>1, <1>2, CallStepHolds DEF OutboxInv, OutboxTypeOK

(* enqueue(): the call has not enqueued the message before, so the store   *)
(* and the snapshot of a flush have no entry of it.                        *)
LEMMA EnqueueHolds == ASSUME OutboxInv, NEW m \in Messages, Enqueue(m) PROVE OutboxInv'
<1> DEFINE e == Entry(m, m \in Keyed, 0)
<1>1. /\ store \in Seq(Entries) /\ flush.todo \in Seq(Entries)
      /\ flush \in [pc : {"none", "next", "sending", "sent", "failed", "done"}, todo : Seq(Entries)]
      /\ call \in [Messages -> CallStates] /\ queued \subseteq Messages
  BY DEF OutboxInv, OutboxTypeOK
<1>2. m \notin queued
  BY DEF OutboxInv, UnsettledNotQueued, Enqueue
<1>3. e \in Entries /\ e.msg = m /\ e.txnId = (m \in Keyed) /\ e.attempts = 0
  BY OutboxAssumption DEF Entry, Entries
<1>4. store' = Append(store, e) /\ queued' = queued \cup {m} /\ call' = [call EXCEPT ![m] = "threw"]
  BY DEF Enqueue, Settle
<1>5. UNCHANGED <<posted, flush, up, crashes, flushed, dropped>>
  BY DEF Enqueue
<1> HIDE DEF e
<1>6. /\ store' \in Seq(Entries) /\ Len(store') = Len(store) + 1
      /\ \A i \in 1..Len(store) : store'[i] = store[i]
      /\ store'[Len(store) + 1] = e
  BY <1>1, <1>3, <1>4
<1>7. OutboxTypeOK'
  BY <1>1, <1>4, <1>5, <1>6 DEF OutboxInv, OutboxTypeOK, CallStates
<1>8. Genuine(store)' /\ Distinct(store)'
  BY <1>1, <1>2, <1>3, <1>4, <1>6 DEF OutboxInv, Genuine, Distinct
<1>9. Genuine(flush.todo)' /\ Distinct(flush.todo)' /\ AtEntry' /\ KeyedOnce'
  BY <1>4, <1>5 DEF OutboxInv, Genuine, Distinct, AtEntry, Current, KeyedOnce
<1>10. UnsettledNotQueued'
  BY <1>1, <1>4 DEF OutboxInv, UnsettledNotQueued
<1>11. SnapshotCurrent'
  <2>1. \A i \in 1..Len(flush.todo) : flush.todo[i].msg # m
    BY <1>1, <1>2 DEF OutboxInv, Genuine
  <2> SUFFICES ASSUME NEW i \in 1..Len(flush.todo), NEW j \in 1..Len(store'), flush.todo[i].msg = store'[j].msg
                PROVE  flush.todo[i].attempts = store'[j].attempts
    BY <1>5 DEF SnapshotCurrent
  <2>2. CASE j = Len(store) + 1
    BY <1>3, <1>6, <2>1, <2>2
  <2>3. CASE j # Len(store) + 1
    <3>1. j \in 1..Len(store) /\ store'[j] = store[j]
      BY <1>1, <1>6, <2>3
    <3> QED
      BY <3>1 DEF OutboxInv, SnapshotCurrent
  <2> QED
    BY <2>2, <2>3
<1>12. NothingForgotten'
  <2>1. \A n \in Messages : InStore(n) => InStore(n)'
    BY <1>1, <1>6 DEF InStore
  <2>2. InStore(m)'
    BY <1>1, <1>3, <1>6 DEF InStore
  <2> QED
    BY <1>1, <1>4, <1>5, <2>1, <2>2 DEF OutboxInv, NothingForgotten
<1> QED
  BY <1>7, <1>8, <1>9, <1>10, <1>11, <1>12 DEF OutboxInv

(* remove() followed by the next entry, when the message goes into one of  *)
(* the histories.                                                          *)
LEMMA RemoveHolds ==
  ASSUME OutboxInv, flush.todo # <<>>, store' = Without(Current.msg), FlushNext,
         UNCHANGED <<posted, call, up, crashes, queued>>,
         \/ dropped' = dropped \cup {Current.msg} /\ flushed' = flushed
         \/ flushed' = flushed \cup {Current.msg} /\ dropped' = dropped
  PROVE  OutboxInv'
<1>1. /\ store \in Seq(Entries) /\ flush.todo \in Seq(Entries) /\ Distinct(store)
      /\ Current \in Entries /\ Current.msg \in queued
      /\ call \in [Messages -> CallStates] /\ queued \subseteq Messages
  BY DEF OutboxInv, OutboxTypeOK, Current, Genuine
<1>2. /\ store' \in Seq(Entries) /\ Distinct(store')
      /\ \A j \in 1..Len(store') : \E i \in 1..Len(store) : store'[j] = store[i]
      /\ \A i \in 1..Len(store) : store[i].msg # Current.msg => \E j \in 1..Len(store') : store'[j] = store[i]
  <2> DEFINE c == Current.msg
  <2>1. store' = Without(c)
    OBVIOUS
  <2> HIDE DEF c
  <2>2. /\ store' \in Seq(Entries) /\ Distinct(store')
        /\ \A j \in 1..Len(store') : \E i \in 1..Len(store) : store'[j] = store[i] /\ store'[j].msg # c
        /\ \A i \in 1..Len(store) : store[i].msg # c => \E j \in 1..Len(store') : store'[j] = store[i]
    BY <1>1, <2>1, WithoutFacts
  <2> QED
    BY <2>2 DEF c
<1>3. /\ flush' = [pc |-> "next", todo |-> Tail(flush.todo)]
      /\ flush'.todo \in Seq(Entries) /\ Len(flush'.todo) = Len(flush.todo) - 1
      /\ \A i \in 1..Len(flush'.todo) : flush'.todo[i] = flush.todo[i + 1]
  BY <1>1 DEF FlushNext
<1>4. flush' \in [pc : {"none", "next", "sending", "sent", "failed", "done"}, todo : Seq(Entries)]
  BY <1>3
<1>5. OutboxTypeOK'
  BY <1>1, <1>2, <1>4 DEF OutboxInv, OutboxTypeOK
<1>6. Genuine(store)' /\ Distinct(store)'
  BY <1>1, <1>2 DEF OutboxInv, Genuine, Distinct
<1>7. Genuine(flush.todo)' /\ Distinct(flush.todo)'
  BY <1>1, <1>3 DEF OutboxInv, Genuine, Distinct
<1>8. SnapshotCurrent'
  BY <1>1, <1>2, <1>3 DEF OutboxInv, SnapshotCurrent
<1>9. UnsettledNotQueued' /\ AtEntry' /\ KeyedOnce'
  BY <1>3 DEF OutboxInv, UnsettledNotQueued, AtEntry, KeyedOnce
<1>10. NothingForgotten'
  <2>1. ASSUME NEW n, InStore(n), n # Current.msg PROVE InStore(n)'
    <3>1. PICK i \in 1..Len(store) : store[i].msg = n
      BY <2>1 DEF InStore
    <3>2. PICK j \in 1..Len(store') : store'[j] = store[i]
      BY <1>2, <2>1, <3>1
    <3> QED
      BY <3>1, <3>2 DEF InStore
  <2> QED
    BY <2>1 DEF OutboxInv, NothingForgotten
<1> QED
  BY <1>5, <1>6, <1>7, <1>8, <1>9, <1>10 DEF OutboxInv

(* bumpAttempt(): every entry keeps its place, and one that is at its last *)
(* attempt is not bumped, because the flush would have dropped it.         *)
LEMMA BumpHolds == ASSUME OutboxInv, FlushBump PROVE OutboxInv'
<1>1. /\ store \in Seq(Entries) /\ flush.todo \in Seq(Entries) /\ flush.todo # <<>>
      /\ Current \in Entries /\ Current = flush.todo[1] /\ Current.attempts < MaxAttempts
      /\ Current.attempts \in Nat
  <2>1. store \in Seq(Entries) /\ flush.todo \in Seq(Entries)
    BY DEF OutboxInv, OutboxTypeOK
  <2>2. flush.todo # <<>> /\ Current.attempts < MaxAttempts
    BY DEF OutboxInv, AtEntry, FlushBump
  <2>3. Current \in Entries /\ Current = flush.todo[1]
    BY <2>1, <2>2 DEF Current
  <2>4. Current.attempts \in Nat
    BY <2>3, OutboxAssumption DEF Entries
  <2> QED
    BY <2>1, <2>2, <2>3, <2>4
<1>2. UNCHANGED <<posted, call, up, crashes, queued, flushed, dropped>>
  BY DEF FlushBump
<1>3. /\ flush' = [pc |-> "next", todo |-> Tail(flush.todo)]
      /\ flush'.todo \in Seq(Entries) /\ Len(flush'.todo) = Len(flush.todo) - 1
      /\ \A i \in 1..Len(flush'.todo) : flush'.todo[i] = flush.todo[i + 1]
  BY <1>1 DEF FlushBump, FlushNext
<1>4. flush' \in [pc : {"none", "next", "sending", "sent", "failed", "done"}, todo : Seq(Entries)]
  BY <1>3
<1>5. ASSUME NEW i \in 1..Len(store)
      PROVE  /\ store[i].msg = Current.msg => store[i].attempts < MaxAttempts
             /\ store[i] \in [msg : Messages, txnId : BOOLEAN, attempts : 0..MaxAttempts]
  <2>1. store[i] \in [msg : Messages, txnId : BOOLEAN, attempts : 0..MaxAttempts]
    <3>1. store[i] \in Entries
      BY <1>1
    <3> QED
      BY <3>1 DEF Entries
  <2>2. 1 \in 1..Len(flush.todo)
    BY <1>1
  <2>3. store[i].msg = Current.msg => store[i].attempts = Current.attempts
    BY <1>1, <2>2 DEF OutboxInv, SnapshotCurrent
  <2> QED
    BY <1>1, <2>1, <2>3
<1>6. /\ Len(store') = Len(store) /\ store' \in Seq(Entries)
      /\ \A i \in 1..Len(store) : /\ store'[i].msg = store[i].msg /\ store'[i].txnId = store[i].txnId
                                  /\ store[i].msg # Current.msg => store'[i] = store[i]
  <2>1. store' = [i \in 1..Len(store) |->
                   IF store[i].msg = Current.msg THEN [store[i] EXCEPT !.attempts = @ + 1] ELSE store[i]]
    BY DEF FlushBump
  <2>2. ASSUME NEW i \in 1..Len(store)
        PROVE  /\ store'[i] \in Entries
               /\ store'[i].msg = store[i].msg /\ store'[i].txnId = store[i].txnId
               /\ store[i].msg # Current.msg => store'[i] = store[i]
    <3>1. CASE store[i].msg = Current.msg
      <4>1. store'[i] = [store[i] EXCEPT !.attempts = @ + 1]
        BY <2>1, <3>1
      <4>2. store[i].attempts + 1 \in 0..MaxAttempts
        BY <1>5, <3>1, OutboxAssumption
      <4> QED
        BY <1>5, <3>1, <4>1, <4>2 DEF Entries
    <3>2. CASE store[i].msg # Current.msg
      BY <1>1, <2>1, <3>2
    <3> QED
      BY <3>1, <3>2
  <2> QED
    BY <1>1, <2>1, <2>2
<1>7. OutboxTypeOK'
  BY <1>2, <1>4, <1>6 DEF OutboxInv, OutboxTypeOK
<1>8. Genuine(store)' /\ Distinct(store)'
  BY <1>2, <1>6 DEF OutboxInv, Genuine, Distinct
<1>9. Genuine(flush.todo)' /\ Distinct(flush.todo)'
  BY <1>1, <1>2, <1>3 DEF OutboxInv, Genuine, Distinct
<1>10. SnapshotCurrent'
  <2>1. ASSUME NEW i \in 1..Len(flush'.todo) PROVE flush'.todo[i].msg # Current.msg
    <3>1. 1 \in 1..Len(flush.todo) /\ i + 1 \in 1..Len(flush.todo) /\ i + 1 # 1
      BY <1>1, <1>3
    <3>2. flush.todo[i + 1].msg # flush.todo[1].msg
      BY <3>1 DEF OutboxInv, Distinct
    <3> QED
      BY <1>1, <1>3, <3>2
  <2> QED
    BY <1>1, <1>3, <1>6, <2>1 DEF OutboxInv, SnapshotCurrent
<1>11. UnsettledNotQueued' /\ AtEntry' /\ KeyedOnce'
  BY <1>2, <1>3 DEF OutboxInv, UnsettledNotQueued, AtEntry, KeyedOnce
<1>12. NothingForgotten'
  BY <1>2, <1>6 DEF OutboxInv, NothingForgotten, InStore
<1> QED
  BY <1>7, <1>8, <1>9, <1>10, <1>11, <1>12 DEF OutboxInv

(* The steps of flushOutbox() that leave the store alone. *)
LEMMA FlushStepHolds ==
  ASSUME OutboxInv, FlushList \/ FlushSend \/ FlushSent \/ FlushFails \/ FlushDone
  PROVE  OutboxInv'
<1>1. /\ store \in Seq(Entries) /\ flush.todo \in Seq(Entries)
      /\ flush \in [pc : {"none", "next", "sending", "sent", "failed", "done"}, todo : Seq(Entries)]
  BY DEF OutboxInv, OutboxTypeOK
<1>2. UNCHANGED <<store, call, up, crashes, queued, flushed, dropped>>
  BY DEF FlushList, FlushSend, FlushSent, FlushFails, FlushDone
<1>3. /\ flush' \in [pc : {"none", "next", "sending", "sent", "failed", "done"}, todo : Seq(Entries)]
      /\ flush'.todo \in {flush.todo, store, <<>>}
      /\ flush'.pc \in {"sending", "sent", "failed"} =>
           /\ flush'.todo = flush.todo
           /\ \/ flush.pc = "next" /\ flush.todo # <<>> /\ Current.attempts < MaxAttempts
              \/ flush.pc = "sending"
  BY <1>1 DEF FlushList, FlushSend, FlushSent, FlushFails, FlushDone, FlushGoto
<1>4. posted' \in [Messages -> Nat] /\ KeyedOnce'
  <2>1. CASE UNCHANGED posted
    BY <2>1 DEF OutboxInv, OutboxTypeOK, KeyedOnce
  <2>2. CASE flush.pc = "sending" /\ Post(Current.msg, Current.txnId)
    <3>1. flush.todo # <<>>
      BY <2>2 DEF OutboxInv, AtEntry
    <3>2. 1 \in 1..Len(flush.todo) /\ Current = flush.todo[1] /\ Current \in Entries
      BY <1>1, <3>1 DEF Current
    <3>3. Current.txnId = (Current.msg \in Keyed) /\ Current.msg \in Messages
      BY <3>2 DEF OutboxInv, Genuine, Entries
    <3>4. Post(Current.msg, Current.msg \in Keyed)
      BY <2>2, <3>3
    <3> QED
      BY <3>3, <3>4, PostFacts DEF OutboxInv
  <2> QED
    BY <2>1, <2>2 DEF FlushList, FlushSend, FlushSent, FlushFails, FlushDone
<1>5. OutboxTypeOK'
  BY <1>2, <1>3, <1>4 DEF OutboxInv, OutboxTypeOK
<1>6. Genuine(store)' /\ Distinct(store)' /\ UnsettledNotQueued' /\ NothingForgotten'
  BY <1>2 DEF OutboxInv, Genuine, Distinct, UnsettledNotQueued, NothingForgotten, InStore
<1>7. Genuine(flush.todo)' /\ Distinct(flush.todo)'
  BY <1>2, <1>3 DEF OutboxInv, Genuine, Distinct
<1>8. SnapshotCurrent'
  BY <1>1, <1>2, <1>3 DEF OutboxInv, SnapshotCurrent, Distinct
<1>9. AtEntry'
  BY <1>3 DEF OutboxInv, AtEntry, Current
<1> QED
  BY <1>4, <1>5, <1>6, <1>7, <1>8, <1>9 DEF OutboxInv

(* The process dies: the store is on disk, the rest is gone. *)
LEMMA CrashHolds == ASSUME OutboxInv, Crash PROVE OutboxInv'
<1>1. /\ UNCHANGED <<posted, store, queued, flushed, dropped>> /\ flush' = NoFlush
      /\ call' = [m \in Messages |-> IF call[m] \in {"sending", "transient"} THEN "threw" ELSE call[m]]
  BY DEF Crash
<1>2. call' \in [Messages -> CallStates]
  BY <1>1 DEF OutboxInv, OutboxTypeOK, CallStates
<1>3. flush' \in [pc : {"none", "next", "sending", "sent", "failed", "done"}, todo : Seq(Entries)]
  BY <1>1 DEF NoFlush
<1>4. crashes' \in 0..MaxCrashes
  BY OutboxAssumption DEF Crash, OutboxInv, OutboxTypeOK
<1>5. up' \in BOOLEAN
  BY DEF Crash
<1>6. OutboxTypeOK'
  BY <1>1, <1>2, <1>3, <1>4, <1>5 DEF OutboxInv, OutboxTypeOK
<1>7. Genuine(store)' /\ Distinct(store)' /\ NothingForgotten' /\ KeyedOnce'
  BY <1>1 DEF OutboxInv, Genuine, Distinct, NothingForgotten, InStore, KeyedOnce
<1>8. Genuine(flush.todo)' /\ Distinct(flush.todo)' /\ SnapshotCurrent' /\ AtEntry'
  BY <1>1 DEF NoFlush, Genuine, Distinct, SnapshotCurrent, AtEntry
<1>9. UnsettledNotQueued'
  BY <1>1 DEF OutboxInv, UnsettledNotQueued
<1> QED
  BY <1>6, <1>7, <1>8, <1>9 DEF OutboxInv

(* Every step keeps the invariant. *)
LEMMA OutboxNextHolds == ASSUME OutboxInv, [OutboxNext]_outboxVars PROVE OutboxInv'
<1>1. ASSUME NEW m \in Messages, Send(m) \/ SendReturns(m) \/ SendRefused(m) \/ SendFails(m) PROVE OutboxInv'
  BY <1>1, SendHolds
<1>2. ASSUME NEW m \in Messages, Enqueue(m) PROVE OutboxInv'
  BY <1>2, EnqueueHolds
<1>3. CASE FlushDrop
  BY <1>3, RemoveHolds DEF FlushDrop
<1>4. CASE FlushRemove
  BY <1>4, RemoveHolds DEF FlushRemove, OutboxInv, AtEntry
<1>5. CASE FlushBump
  BY <1>5, BumpHolds
<1>6. CASE FlushList \/ FlushSend \/ FlushSent \/ FlushFails \/ FlushDone
  BY <1>6, FlushStepHolds
<1>7. CASE Crash
  BY <1>7, CrashHolds
<1>8. CASE Start \/ Quiet \/ UNCHANGED outboxVars
  <2>1. UNCHANGED <<posted, store, call, flush, crashes, queued, flushed, dropped>>
    BY <1>8 DEF Start, Quiet, outboxVars
  <2>2. up' \in BOOLEAN
    BY <1>8 DEF Start, Quiet, outboxVars, OutboxInv, OutboxTypeOK
  <2>3. KeyedOnce'
    BY <2>1 DEF OutboxInv, KeyedOnce
  <2> QED
    BY <2>1, <2>2, <2>3, CallStepHolds DEF OutboxInv, OutboxTypeOK
<1> QED
  BY <1>1, <1>2, <1>3, <1>4, <1>5, <1>6, <1>7, <1>8 DEF OutboxNext, Flush

-----------------------------------------------------------------------------
(* The invariant holds in every reachable state. *)
THEOREM OutboxInvariance == OutboxSpec => []OutboxInv
<1>1. OutboxInv /\ [OutboxNext]_outboxVars => OutboxInv'
  BY OutboxNextHolds
<1> QED
  BY <1>1, OutboxInitHolds, PTL DEF OutboxSpec

(* outbox.ts enqueue(), remove(), bumpAttempt(): nothing that was enqueued *)
(* is lost, whatever is enqueued while a flush runs and wherever the       *)
(* process dies, for any number of messages, attempts and crashes.         *)
THEOREM OutboxKeeps == OutboxSpec => []NothingForgotten
<1>1. OutboxInv => NothingForgotten
  BY DEF OutboxInv
<1> QED
  BY <1>1, OutboxInvariance, PTL

(* putRoomEvent with a txnId: a keyed message is posted at most once,      *)
(* through lost answers, repeated flushes and crashes.                     *)
THEOREM KeyedPostedOnce == OutboxSpec => []KeyedOnce
<1>1. OutboxInv => KeyedOnce
  BY DEF OutboxInv
<1> QED
  BY <1>1, OutboxInvariance, PTL

(* flushOutbox() with maxAttempts: no entry is bumped beyond the limit,    *)
(* although bumpAttempt() does not look at it.                             *)
THEOREM AttemptsBounded == OutboxSpec => [](\A i \in 1..Len(store) : store[i].attempts <= MaxAttempts)
<1>1. OutboxInv => \A i \in 1..Len(store) : store[i].attempts <= MaxAttempts
  <2> SUFFICES ASSUME OutboxInv, NEW i \in 1..Len(store) PROVE store[i].attempts <= MaxAttempts
    OBVIOUS
  <2>1. store[i] \in Entries
    BY DEF OutboxInv, OutboxTypeOK
  <2> QED
    BY <2>1, OutboxAssumption DEF Entries
<1> QED
  BY <1>1, OutboxInvariance, PTL
=============================================================================
