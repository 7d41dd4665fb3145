------------------------------ MODULE BotProofs ------------------------------
(***************************************************************************)
(* The bot.  First BotLife and the two parts it runs, the scheduler and    *)
(* the FSM storage: for any jobs and intervals, any calls, keys and        *)
(* lifetimes, any number of starts and crashes, and any bound on the       *)
(* clock.  Then BotDispatch: for any updates, routers, middleware, waiters *)
(* and any number of answers.                                              *)
(***************************************************************************)
EXTENDS BotLife, BotDispatch, SequenceFacts, TLAPS

-----------------------------------------------------------------------------
(* The bot. *)

(* A bot that never stopped, or was not started again since, has all it    *)
(* was created with; stop() is under way only after a call of it.          *)
Fresh ==
  (~bot.again /\ ~bot.stopping) =>
    /\ bot.leaving = "no" /\ bot.queue /\ bot.lock /\ (setup.crypto => bot.crypto)
    /\ bot.starting = "mark" \/ bot.started => bot.loop = "up"

(* A stop() that no start() crosses takes the parts down one by one.       *)
Down ==
  (bot.stopping /\ ~bot.crossed) =>
    /\ bot.starting = "no" /\ ~bot.watch
    /\ bot.leaving # "hooks" => bot.loop # "up" /\ stopped
    /\ bot.leaving = "no" => ~bot.lock

(* A scheduler that was stopped has no timer. *)
NoTimer == stopped => ~timer

(* The dispatcher's storage is closed when run() says so. *)
ClosedAtEnd == bot.ending \in {"closed", "exited"} => closed

-----------------------------------------------------------------------------
(* The scheduler. *)

(* A job record counts the runs that are over; at most one is under way. *)
Counted ==
  \A j \in Jobs : over[j] = rec[j].runs /\ begun[j] = over[j] + (IF rec[j].running THEN 1 ELSE 0)

(* A job that a tick may start again has runs left and its next one a whole *)
(* interval after the last.                                                *)
Spaced ==
  \A j \in jobs \cup todo :
    (begun[j] > 0 /\ ~rec[j].running) =>
      /\ rec[j].next >= ended[j] + Every[j]
      /\ MaxRuns[j] # 0 => begun[j] < MaxRuns[j]

(* A tick visits jobs of the map, or cut out of it since the tick began.   *)
Visited == todo \subseteq jobs \cup cut /\ cut \subseteq dropped /\ jobs \cap dropped = {}

(* The job of pruneOtherDevicesOnStart is added once. *)
PrunesOnce == begun[PruneJob] > 0 => PruneJob \in jobs \cup dropped

SchedInv == Counted /\ Spaced /\ Visited /\ PrunesOnce

-----------------------------------------------------------------------------
(* The file of the storage. *)

(* What a reader of this record gets. *)
Live(r) == IF IsExpired(r) THEN NoRecord ELSE r

(* Changes not in the file are marked, and a marked file is about to be    *)
(* written, or its last write failed.  Only a file is marked.              *)
CleanIsWritten == (backend = "file" /\ ~dirty) => \A k \in StorageKeys : Live(map[k]) = Live(disk[k])

DirtyIsDue == dirty => backend = "file" /\ (flushDue \/ unwritten)

(* After close() nothing is due but what came late. *)
ClosedIsFlushed == (closed /\ ~late) => ~flushDue

FileInv == CleanIsWritten /\ DirtyIsDue /\ ClosedIsFlushed

-----------------------------------------------------------------------------
(* The records. *)

(* MemoryStorage knows each key it holds once. *)
OrderHeld ==
  /\ \A i \in 1..Len(order) : Held(order[i])
  /\ \A i, j \in 1..Len(order) : order[i] = order[j] => i = j

(* A key that was lost has no record. *)
LostIsGone == \A k \in lost : map[k] = NoRecord

(* The record of a key is what its calls wrote, or has expired. *)
Agrees(k) ==
  \/ map[k].exp = want[k].due /\ map[k].data = want[k].data
  \/ map[k] = NoRecord /\ want[k].due <= now

SerialRecords == \A k \in FsmKeys \ (torn \cup lost) : Agrees(k)

(* So is the copy of a call that nobody has overtaken. *)
CopyAgrees(c) ==
  LET k == KeyOf[c] IN
    \/ call[c].got = NoRecord /\ (k \in lost \/ want[k].due <= now)
    \/ /\ k \notin lost /\ call[c].pc = "loaded"
       /\ call[c].got.exp = want[k].due /\ call[c].got.data = want[k].data

SerialCopies ==
  \A c \in Calls : call[c].pc \in {"deleting", "loaded"} =>
    /\ KindOf[c] # "clear"
    /\ call[c].ver <= version[KeyOf[c]]
    /\ (call[c].ver = version[KeyOf[c]] /\ KeyOf[c] \notin torn) => CopyAgrees(c)

(* Only RedisStorage deletes in a step of its own. *)
DeletesInRedis == \A c \in Calls : call[c].pc = "deleting" => backend = "redis"

RecordInv == OrderHeld /\ LostIsGone /\ SerialRecords /\ SerialCopies /\ DeletesInRedis

-----------------------------------------------------------------------------
(* The conversation. *)

(* Its record never expires, in memory or in the file. *)
TalkLasts == \A r \in {map[ConvKey], disk[ConvKey]} : r = NoRecord \/ r.exp > MaxTime

(* What a new process would find is the step that the history says the      *)
(* storage has kept.                                                        *)
KeptHeld ==
  CASE backend = "redis" -> Resume(map[ConvKey].step) = Resume(kept)
    [] backend = "file" -> Resume(disk[ConvKey].step) = Resume(kept)
    [] OTHER -> kept = 0

(* Only MemoryStorage evicts. *)
OnlyMemoryForgets == lost # {} => backend = "memory"

(* The conversation is at the step after the last one it handled, and the   *)
(* storage says so, unless it has evicted the record.                       *)
Place ==
  CASE conv.pc = "off" -> ConvKey \in lost \/ Resume(map[ConvKey].step) = Resume(turn)
    [] conv.pc = "waiting" ->
         IF ConvKey \in lost THEN conv.i \in {0, turn}
         ELSE conv.i = turn /\ Resume(map[ConvKey].step) = conv.i
    [] conv.pc = "saving" ->
         turn = conv.i + 1 /\ (ConvKey \in lost \/ Resume(map[ConvKey].step) = conv.i)
    [] conv.pc = "finishing" ->
         turn = Steps /\ (ConvKey \in lost \/ Resume(map[ConvKey].step) = 0)

TalkInv == TalkLasts /\ KeptHeld /\ OnlyMemoryForgets /\ Place

-----------------------------------------------------------------------------
FsmInv == FsmTypeOK /\ FileInv /\ RecordInv /\ TalkInv

LifeInv == Fresh /\ Down /\ NoTimer /\ ClosedAtEnd

IInv == TypeOK /\ LifeInv /\ SchedInv /\ FsmInv

-----------------------------------------------------------------------------
(* The scheduler's actions keep its invariant. *)

(* A job is added that has not run and was not dropped. *)
LEMMA SchedAdd ==
  ASSUME SchedTypeOK, SchedInv, now \in Nat,
         NEW j \in Jobs, AddJob(j), begun[j] = 0, j \notin jobs \cup dropped
  PROVE  SchedTypeOK' /\ SchedInv'
<1> DEFINE r == [next |-> now + Delay[j], runs |-> 0, running |-> FALSE]
<1>1. r \in [next : Nat, runs : Nat, running : BOOLEAN]
  <2>1. Delay[j] \in Nat
    BY JobsAssumption
  <2> QED
    BY <2>1
<1>2. /\ rec' = [rec EXCEPT ![j] = r] /\ jobs' = jobs \cup {j} /\ timer' = (timer \/ ~stopped)
      /\ UNCHANGED <<stopped, todo, ran, begun, over, ended, dropped, cut>>
  BY Zenon DEF AddJob
<1>3. r.runs = 0 /\ ~r.running
  OBVIOUS
<1> HIDE DEF r
<1>4. SchedTypeOK'
  BY <1>1, <1>2 DEF SchedTypeOK
<1>5. Counted'
  BY <1>2, <1>3 DEF SchedTypeOK, SchedInv, Counted
<1>6. Spaced'
  BY <1>2 DEF SchedTypeOK, SchedInv, Spaced
<1>7. Visited' /\ PrunesOnce'
  BY <1>2 DEF SchedInv, Visited, PrunesOnce
<1> QED
  BY <1>4, <1>5, <1>6, <1>7 DEF SchedInv

(* Jobs are cancelled, or forgotten by stop(). *)
LEMMA SchedDrop ==
  ASSUME SchedTypeOK, SchedInv, (\E j \in Jobs : Cancel(j)) \/ SchedStop
  PROVE  SchedTypeOK' /\ SchedInv'
<1>1. PICK gone \in SUBSET jobs : Drop(gone)
  BY DEF Cancel, SchedStop
<1>2. UNCHANGED <<rec, todo, ran, begun, over, ended>> /\ timer' \in BOOLEAN /\ stopped' \in BOOLEAN
  BY DEF Cancel, SchedStop, SchedTypeOK
<1>3. SchedTypeOK'
  BY <1>1, <1>2 DEF Drop, SchedTypeOK
<1>4. Counted' /\ Spaced'
  BY <1>1, <1>2 DEF SchedInv, Counted, Spaced, Drop
<1>5. Visited' /\ PrunesOnce'
  BY <1>1, <1>2 DEF SchedInv, Visited, PrunesOnce, Drop, Quiet
<1> QED
  BY <1>3, <1>4, <1>5 DEF SchedInv

(* A tick begins. *)
LEMMA SchedTick == ASSUME SchedTypeOK, SchedInv, Tick PROVE SchedTypeOK' /\ SchedInv'
BY DEF SchedTypeOK, SchedInv, Counted, Spaced, Visited, PrunesOnce, Tick

(* A tick visits a job. *)
LEMMA SchedVisit ==
  ASSUME SchedTypeOK, SchedInv, NEW j \in Jobs, Visit(j)
  PROVE  SchedTypeOK' /\ SchedInv'
<1>1. CASE ~Due(j)
  BY <1>1 DEF Visit, SchedTypeOK, SchedInv, Counted, Spaced, Visited, PrunesOnce
<1>2. CASE Due(j)
  <2>1. /\ rec' = [rec EXCEPT ![j].running = TRUE] /\ begun' = [begun EXCEPT ![j] = @ + 1]
        /\ todo' = todo \ {j} /\ ran' = ran \cup {j} /\ j \in todo /\ ~rec[j].running
        /\ UNCHANGED <<jobs, timer, stopped, over, ended, dropped, cut>>
    BY <1>2 DEF Visit, Due
  <2>2. /\ rec' \in [Jobs -> [next : Nat, runs : Nat, running : BOOLEAN]]
        /\ rec'[j].running /\ rec'[j].runs = rec[j].runs
        /\ \A i \in Jobs : i # j => rec'[i] = rec[i]
    BY <2>1 DEF SchedTypeOK
  <2>3. SchedTypeOK'
    BY <2>1, <2>2 DEF SchedTypeOK
  <2>4. Counted'
    BY <2>1, <2>2 DEF SchedInv, SchedTypeOK, Counted
  <2>5. Spaced'
    BY <2>1, <2>2 DEF SchedInv, SchedTypeOK, Spaced
  <2>6. Visited' /\ PrunesOnce'
    BY <2>1 DEF SchedInv, SchedTypeOK, Visited, PrunesOnce
  <2> QED
    BY <2>3, <2>4, <2>5, <2>6 DEF SchedInv
<1> QED
  BY <1>1, <1>2

(* A run ends. *)
LEMMA SchedEnds ==
  ASSUME SchedTypeOK, SchedInv, now \in Nat, NEW j \in Jobs, JobEnds(j)
  PROVE  SchedTypeOK' /\ SchedInv'
<1> DEFINE total == rec[j].runs + 1
           last == (MaxRuns[j] # 0 /\ total >= MaxRuns[j]) \/ Every[j] = 0
           next == IF last THEN rec[j].next ELSE now + Every[j]
<1>1. Every \in [Jobs -> Nat] /\ MaxRuns \in [Jobs -> Nat]
  BY JobsAssumption
<1>2. /\ rec' = [rec EXCEPT ![j] = [next |-> next, runs |-> total, running |-> FALSE]]
      /\ jobs' = IF last THEN jobs \ {j} ELSE jobs
      /\ over' = [over EXCEPT ![j] = @ + 1]
      /\ ended' = [ended EXCEPT ![j] = now] /\ todo = {} /\ rec[j].running
      /\ UNCHANGED <<timer, stopped, todo, ran, begun, dropped, cut>>
  BY DEF JobEnds, Quiet, SchedTypeOK
<1>3. rec[j].runs \in Nat /\ rec[j].next \in Nat /\ total \in Nat /\ next \in Nat
  BY <1>1 DEF SchedTypeOK
<1>4. begun[j] = total /\ over[j] + 1 = total
  BY <1>2 DEF SchedInv, Counted
<1>5. ~last => next = now + Every[j] /\ (MaxRuns[j] # 0 => total < MaxRuns[j])
  BY <1>1, <1>3
<1>6. j = PruneJob => ~last
  BY SetupAssumption
<1> HIDE DEF total, last, next
<1>7. SchedTypeOK'
  BY <1>2, <1>3 DEF SchedTypeOK
<1>8. Counted'
  BY <1>2, <1>3, <1>4 DEF SchedInv, SchedTypeOK, Counted
<1>9. Spaced'
  BY <1>1, <1>2, <1>3, <1>4, <1>5 DEF SchedInv, SchedTypeOK, Spaced
<1>10. Visited' /\ PrunesOnce'
  BY <1>2, <1>6 DEF SchedInv, Visited, PrunesOnce
<1> QED
  BY <1>7, <1>8, <1>9, <1>10 DEF SchedInv

(* A new scheduler is empty. *)
LEMMA SchedEmpty == SchedInit => SchedTypeOK /\ SchedInv
<1> SUFFICES ASSUME SchedInit PROVE SchedTypeOK /\ SchedInv
  OBVIOUS
<1>1. rec = [j \in Jobs |-> [next |-> 0, runs |-> 0, running |-> FALSE]]
  BY DEF SchedInit, NewRecord
<1>2. [next |-> 0, runs |-> 0, running |-> FALSE] \in [next : Nat, runs : Nat, running : BOOLEAN]
  OBVIOUS
<1>3. SchedTypeOK
  BY <1>1, <1>2 DEF SchedInit, SchedTypeOK, Never
<1>4. SchedInv
  BY <1>1, SetupAssumption DEF SchedInit, SchedInv, Never, Counted, Spaced, Visited, PrunesOnce
<1> QED
  BY <1>3, <1>4

LEMMA SchedRenewed == SchedReset => SchedTypeOK' /\ SchedInv'
<1> SUFFICES ASSUME SchedReset PROVE SchedTypeOK' /\ SchedInv'
  OBVIOUS
<1>1. rec' = [j \in Jobs |-> [next |-> 0, runs |-> 0, running |-> FALSE]]
  BY DEF SchedReset, NewRecord
<1>2. [next |-> 0, runs |-> 0, running |-> FALSE] \in [next : Nat, runs : Nat, running : BOOLEAN]
  OBVIOUS
<1>3. SchedTypeOK'
  BY <1>1, <1>2 DEF SchedReset, SchedTypeOK, Never
<1>4. SchedInv'
  BY <1>1, SetupAssumption DEF SchedReset, SchedInv, Never, Counted, Spaced, Visited, PrunesOnce
<1> QED
  BY <1>3, <1>4

-----------------------------------------------------------------------------
(* The storage's operations. *)

(* A sequence of distinct keys without one of them holds the others. *)
LEMMA KeyRemoved ==
  ASSUME NEW S, NEW s \in Seq(S), NEW k \in 1..Len(s), NEW t, t = RemoveAt(s, k),
         \A i, j \in 1..Len(s) : s[i] = s[j] => i = j
  PROVE  /\ t \in Seq(S)
         /\ \A i \in 1..Len(t) : t[i] # s[k] /\ \E j \in 1..Len(s) : t[i] = s[j]
         /\ \A i, j \in 1..Len(t) : t[i] = t[j] => i = j
<1> DEFINE at(i) == IF i < k THEN i ELSE i + 1
<1>1. /\ t \in Seq(S) /\ Len(t) = Len(s) - 1
      /\ \A j \in 1..(Len(s) - 1) : t[j] = IF j < k THEN s[j] ELSE s[j + 1]
  BY Zenon, RemoveAtFacts
<1>2. ASSUME NEW j \in 1..Len(t) PROVE t[j] = s[at(j)]
  BY <1>1
<1>3. \A i \in 1..Len(t) : at(i) \in 1..Len(s) /\ at(i) # k
  BY <1>1
<1>4. \A i, j \in 1..Len(t) : at(i) = at(j) => i = j
  BY <1>1
<1> HIDE DEF at
<1>5. ASSUME NEW i \in 1..Len(t) PROVE t[i] # s[k] /\ \E j \in 1..Len(s) : t[i] = s[j]
  <2>1. t[i] = s[at(i)]
    BY <1>2
  <2>2. at(i) \in 1..Len(s) /\ at(i) # k
    BY <1>3
  <2>3. s[at(i)] # s[k]
    BY <2>2
  <2> QED
    BY <2>1, <2>2, <2>3
<1>6. ASSUME NEW i \in 1..Len(t), NEW j \in 1..Len(t), t[i] = t[j] PROVE i = j
  <2>1. s[at(i)] = s[at(j)]
    BY <1>2, <1>6
  <2>2. at(i) = at(j)
    BY <1>3, <2>1
  <2> QED
    BY <1>4, <2>2
<1> QED
  BY <1>1, <1>5, <1>6

(* No record is a record. *)
LEMMA NoRecordFacts ==
  NoRecord \in Records /\ NoRecord.exp = 0 /\ NoRecord.data = {} /\ NoRecord.step = 0
BY DEF NoRecord, Records

(* Removing a key. *)
LEMMA RemovedFacts ==
  ASSUME FsmTypeOK, OrderHeld, NEW k \in StorageKeys, Removed(k)
  PROVE  /\ map' \in [StorageKeys -> Records] /\ map'[k] = NoRecord
         /\ \A j \in StorageKeys : j # k => map'[j] = map[j]
         /\ disk' = disk /\ order' \in Seq(StorageKeys) /\ OrderHeld'
<1>1. map' = [map EXCEPT ![k] = NoRecord] /\ disk' = disk
  BY DEF Removed
<1>2. map \in [StorageKeys -> Records] /\ order \in Seq(StorageKeys)
  BY DEF FsmTypeOK
<1>3. /\ map' \in [StorageKeys -> Records] /\ map'[k] = NoRecord
      /\ \A j \in StorageKeys : j # k => map'[j] = map[j]
  BY <1>1, <1>2, NoRecordFacts
<1>4. CASE Contains(order, k)
  <2> DEFINE n == CHOOSE i \in DOMAIN order : order[i] = k
  <2>1. n \in 1..Len(order) /\ order[n] = k
    BY <1>2, <1>4 DEF Contains
  <2>2. order' = RemoveAt(order, n)
    BY <1>4 DEF Removed
  <2> HIDE DEF n
  <2>3. /\ order' \in Seq(StorageKeys)
        /\ \A i \in 1..Len(order') : order'[i] # k /\ \E j \in 1..Len(order) : order'[i] = order[j]
        /\ \A i, j \in 1..Len(order') : order'[i] = order'[j] => i = j
    BY <1>2, <2>1, <2>2, KeyRemoved DEF OrderHeld
  <2> QED
    BY <1>1, <1>2, <1>3, <2>3 DEF OrderHeld, Held
<1>5. CASE ~Contains(order, k)
  <2>1. order' = order /\ \A i \in 1..Len(order) : order[i] # k
    BY <1>2, <1>5 DEF Removed, Contains
  <2> QED
    BY <1>1, <1>2, <1>3, <2>1 DEF OrderHeld, Held
<1> QED
  BY <1>4, <1>5

(* Storing a record: MemoryStorage may forget another key for it. *)
LEMMA StoreSetFacts ==
  ASSUME FsmTypeOK, OrderHeld, NEW k \in StorageKeys, NEW r \in Records, r # NoRecord, StoreSet(k, r)
  PROVE  \E gone \in SUBSET StorageKeys :
           /\ k \notin gone
           /\ map' = [j \in StorageKeys |-> IF j = k THEN r ELSE IF j \in gone THEN NoRecord ELSE map[j]]
           /\ lost' = (lost \ {k}) \cup gone
           /\ gone # {} => backend = "memory"
           /\ Written({k} \cup gone)
           /\ order' \in Seq(StorageKeys) /\ OrderHeld'
<1> DEFINE bounded == backend = "memory" /\ ~Held(k)
           gone == IF bounded /\ Len(order) >= MaxEntries THEN {Head(order)} ELSE {}
<1>1. /\ map' = [j \in StorageKeys |-> IF j = k THEN r ELSE IF j \in gone THEN NoRecord ELSE map[j]]
      /\ order' = IF bounded THEN Append(IF gone = {} THEN order ELSE Tail(order), k) ELSE order
      /\ lost' = (lost \ {k}) \cup gone
      /\ Written({k} \cup gone)
  BY Zenon DEF StoreSet
<1>2. order \in Seq(StorageKeys) /\ MaxEntries \in Nat \ {0}
  BY FsmAssumption DEF FsmTypeOK
<1>3. \A i \in 1..Len(order) : order[i] \in StorageKeys /\ Held(order[i])
  BY <1>2 DEF OrderHeld
<1>4. \A j \in StorageKeys : ~(j \in gone) /\ Held(j) => Held(j)'
  BY <1>1 DEF Held
<1>5. Held(k)'
  BY <1>1 DEF Held
<1>6. CASE ~bounded
  <2>1. gone = {} /\ order' = order
    BY <1>1, <1>6
  <2>2. OrderHeld'
    BY <1>2, <1>3, <1>4, <2>1 DEF OrderHeld
  <2> QED
    BY <1>1, <1>2, <2>1, <2>2
<1>7. CASE bounded /\ ~(Len(order) >= MaxEntries)
  <2>1. gone = {} /\ order' = Append(order, k) /\ ~Held(k)
    BY <1>1, <1>7
  <2>2. /\ order' \in Seq(StorageKeys) /\ Len(order') = Len(order) + 1 /\ order'[Len(order) + 1] = k
        /\ \A i \in 1..Len(order) : order'[i] = order[i]
    BY <1>2, <2>1
  <2>3. OrderHeld'
    <3>1. Len(order) \in Nat /\ \A i \in 1..Len(order) : order[i] # k /\ map'[order[i]] # NoRecord
      BY <1>2, <1>3, <1>4, <2>1 DEF Held
    <3>2. \A i \in 1..Len(order') : map'[order'[i]] # NoRecord
      BY <1>5, <2>2, <3>1 DEF Held
    <3>3. \A i, j \in 1..Len(order') : order'[i] = order'[j] => i = j
      BY <2>2, <3>1 DEF OrderHeld
    <3> QED
      BY <3>2, <3>3 DEF OrderHeld, Held
  <2> QED
    BY <1>1, <2>1, <2>2, <2>3
<1>8. CASE bounded /\ Len(order) >= MaxEntries
  <2>1. gone = {Head(order)} /\ order' = Append(Tail(order), k) /\ ~Held(k)
    BY <1>1, <1>8
  <2>2. Len(order) \in Nat /\ Len(order) > 0 /\ Head(order) = order[1]
    BY <1>2, <1>8
  <2>3. /\ Tail(order) \in Seq(StorageKeys) /\ Len(Tail(order)) = Len(order) - 1
        /\ \A i \in 1..(Len(order) - 1) : Tail(order)[i] = order[i + 1]
    BY <1>2, <2>2
  <2>4. /\ order' \in Seq(StorageKeys) /\ Len(order') = Len(order) /\ order'[Len(order)] = k
        /\ \A i \in 1..(Len(order) - 1) : order'[i] = order[i + 1]
    BY <2>1, <2>2, <2>3
  <2>5. gone \in SUBSET StorageKeys /\ k \notin gone
    BY <1>3, <2>1, <2>2
  <2>6. \A i \in 1..(Len(order) - 1) : order[i + 1] \notin gone /\ Held(order[i + 1]) /\ order[i + 1] # k
    BY <1>3, <2>1, <2>2 DEF OrderHeld
  <2> HIDE DEF gone
  <2>7. \A i \in 1..Len(order') : map'[order'[i]] # NoRecord
    BY <1>3, <1>4, <1>5, <2>2, <2>4, <2>6 DEF Held
  <2>8. \A i, j \in 1..Len(order') : order'[i] = order'[j] => i = j
    BY <2>2, <2>4, <2>6 DEF OrderHeld
  <2>9. OrderHeld'
    BY <2>7, <2>8 DEF OrderHeld, Held
  <2> QED
    BY <1>1, <1>8, <2>4, <2>5, <2>9
<1> QED
  BY <1>6, <1>7, <1>8

(* A change that marks the file. *)
LEMMA FlushScheduled ==
  ASSUME FsmTypeOK, FileInv, ScheduleFlush, UNCHANGED <<backend, closed>>
  PROVE  /\ FileInv' /\ {dirty', flushDue', closed', unwritten', late'} \subseteq BOOLEAN
<1>1. dirty \in BOOLEAN /\ flushDue \in BOOLEAN /\ closed \in BOOLEAN /\ unwritten \in BOOLEAN /\ late \in BOOLEAN
  BY DEF FsmTypeOK
<1>2. /\ dirty' = (backend = "file") /\ flushDue' = (backend = "file")
      /\ unwritten' = FALSE /\ late' = (late \/ closed) /\ closed' = closed /\ backend' = backend
  BY DEF ScheduleFlush
<1>3. CleanIsWritten' /\ DirtyIsDue'
  BY <1>2, Zenon DEF CleanIsWritten, DirtyIsDue
<1>4. ClosedIsFlushed'
  <2>1. CASE closed = TRUE
    <3>1. (late \/ closed) = TRUE
      BY <2>1
    <3>2. late' = TRUE
      BY <1>2, <3>1, Zenon
    <3> QED
      BY <3>2, Zenon DEF ClosedIsFlushed
  <2>2. CASE closed = FALSE
    <3>1. closed' = FALSE
      BY <1>2, <2>2, Zenon
    <3> QED
      BY <3>1, Zenon DEF ClosedIsFlushed
  <2> QED
    BY <1>1, <2>1, <2>2
<1>5. {dirty', flushDue', closed', unwritten', late'} \subseteq BOOLEAN
  BY <1>1, <1>2
<1> QED
  BY <1>3, <1>4, <1>5 DEF FileInv

(* Keys. *)
LEMMA KeyFacts ==
  /\ \A c \in Calls : KeyOf[c] \in FsmKeys /\ KeyOf[c] \in StorageKeys /\ KeyOf[c] # ConvKey
  /\ ConvKey \in StorageKeys /\ ConvKey \notin FsmKeys /\ FsmKeys \subseteq StorageKeys
BY FsmAssumption DEF FsmKeys, StorageKeys

(* A get that finds a live record changes nothing. *)
LEMMA StoreGetFacts ==
  ASSUME FsmTypeOK, FileInv, OrderHeld, NEW k \in StorageKeys, StoreGet(k), UNCHANGED <<now, backend, closed>>
  PROVE  /\ map' \in [StorageKeys -> Records]
         /\ map'[k] = IF Held(k) /\ IsExpired(map[k]) THEN NoRecord ELSE map[k]
         /\ \A j \in StorageKeys : j # k => map'[j] = map[j]
         /\ disk' = disk /\ order' \in Seq(StorageKeys) /\ OrderHeld'
         /\ FileInv' /\ {dirty', flushDue', closed', unwritten', late'} \subseteq BOOLEAN
<1>1. CASE Held(k) /\ IsExpired(map[k])
  <2>1. Removed(k) /\ ScheduleFlush
    BY <1>1 DEF StoreGet
  <2>2. /\ map' \in [StorageKeys -> Records] /\ map'[k] = NoRecord
        /\ \A j \in StorageKeys : j # k => map'[j] = map[j]
        /\ disk' = disk /\ order' \in Seq(StorageKeys) /\ OrderHeld'
    BY <2>1, RemovedFacts
  <2>3. FileInv' /\ {dirty', flushDue', closed', unwritten', late'} \subseteq BOOLEAN
    BY <2>1, FlushScheduled
  <2> QED
    BY <1>1, <2>2, <2>3
<1>2. CASE ~(Held(k) /\ IsExpired(map[k]))
  <2>1. UNCHANGED <<map, order, disk, dirty, flushDue, unwritten, late>>
    BY <1>2 DEF StoreGet
  <2>2. OrderHeld'
    BY <2>1 DEF OrderHeld, Held
  <2>3. FileInv'
    BY <2>1 DEF FileInv, CleanIsWritten, DirtyIsDue, ClosedIsFlushed, Live, IsExpired
  <2> QED
    BY <1>2, <2>1, <2>2, <2>3 DEF FsmTypeOK
<1> QED
  BY <1>1, <1>2

(* The conversation's record has not expired. *)
LEMMA TalkFound ==
  ASSUME FsmTypeOK, TalkLasts, now \in 0..MaxTime
  PROVE  ~(Held(ConvKey) /\ IsExpired(map[ConvKey])) /\ Found(ConvKey) = map[ConvKey]
<1>1. map[ConvKey] = NoRecord \/ map[ConvKey].exp > MaxTime
  BY DEF TalkLasts
<1>2. map[ConvKey].exp \in Nat /\ MaxTime \in Nat
  BY KeyFacts, ClockBound DEF FsmTypeOK, Records
<1> QED
  BY <1>1, <1>2 DEF Held, IsExpired, Found

-----------------------------------------------------------------------------
(* The steps of a call keep the storage's invariant. *)

LEMMA FsmLoad ==
  ASSUME FsmInv, now \in 0..MaxTime, now' = now, NEW c \in Calls, Load(c)
  PROVE  FsmInv'
<1> DEFINE k == KeyOf[c]
           copy == [pc |-> "loaded", got |-> Found(k), ver |-> version[k]]
<1>1. /\ call[c].pc = "idle" /\ KindOf[c] # "clear" /\ StoreGet(k)
      /\ call' = [call EXCEPT ![c] = copy]
      /\ UNCHANGED <<now, backend, closed>> /\ UNCHANGED <<conv, want, version, torn, lost, turn, kept>>
  BY Zenon DEF Load
<1>2. k \in FsmKeys /\ k \in StorageKeys /\ k # ConvKey
  BY KeyFacts
<1>3. FsmTypeOK /\ FileInv /\ OrderHeld
  BY DEF FsmInv, RecordInv
<1>4. /\ map' \in [StorageKeys -> Records]
      /\ map'[k] = IF Held(k) /\ IsExpired(map[k]) THEN NoRecord ELSE map[k]
      /\ \A j \in StorageKeys : j # k => map'[j] = map[j]
      /\ disk' = disk /\ order' \in Seq(StorageKeys) /\ OrderHeld'
      /\ FileInv' /\ {dirty', flushDue', closed', unwritten', late'} \subseteq BOOLEAN
  BY <1>1, <1>2, <1>3, StoreGetFacts
<1>5. Found(k) \in Records /\ version[k] \in Nat
  BY <1>2, <1>3, NoRecordFacts DEF FsmTypeOK, Found
<1>6. copy \in [pc : {"idle", "deleting", "loaded", "done"}, got : Records, ver : Nat]
  BY <1>5
<1>7. copy.pc = "loaded" /\ copy.got = Found(k) /\ copy.ver = version[k]
  OBVIOUS
<1> HIDE DEF k, copy
<1>8. FsmTypeOK'
  BY <1>1, <1>3, <1>4, <1>6 DEF FsmTypeOK
<1>9. call'[c] = copy /\ \A d \in Calls : d # c => call'[d] = call[d]
  BY <1>1, <1>3 DEF FsmTypeOK
<1>10. LostIsGone'
  BY <1>1, <1>2, <1>3, <1>4, KeyFacts DEF FsmInv, RecordInv, LostIsGone, FsmTypeOK
<1>11. SerialRecords'
  BY <1>1, <1>2, <1>4, KeyFacts DEF FsmInv, RecordInv, SerialRecords, Agrees, IsExpired
<1>12. \/ k \in torn
       \/ copy.got = NoRecord /\ (k \in lost \/ want[k].due <= now)
       \/ k \notin lost /\ copy.got.exp = want[k].due /\ copy.got.data = want[k].data
  <2>1. CASE k \in lost
    <3>1. map[k] = NoRecord
      BY <1>2, <2>1 DEF FsmInv, RecordInv, LostIsGone
    <3> QED
      BY <1>7, <2>1, <3>1 DEF Found
  <2>2. CASE k \notin torn \cup lost
    <3>1. Agrees(k)
      BY <1>2, <2>2 DEF FsmInv, RecordInv, SerialRecords
    <3>2. CASE IsExpired(map[k])
      BY <1>7, <2>2, <3>1, <3>2 DEF Agrees, Found, IsExpired
    <3>3. CASE ~IsExpired(map[k])
      BY <1>7, <2>2, <3>1, <3>3 DEF Agrees, Found
    <3> QED
      BY <3>2, <3>3
  <2> QED
    BY <2>1, <2>2
<1>13. SerialCopies'
  BY <1>1, <1>2, <1>5, <1>7, <1>9, <1>12 DEF FsmInv, RecordInv, SerialCopies, CopyAgrees, k
<1>14. DeletesInRedis'
  BY <1>1, <1>7, <1>9 DEF FsmInv, RecordInv, DeletesInRedis
<1>15. TalkInv'
  BY <1>1, <1>2, <1>4, KeyFacts DEF FsmInv, TalkInv, TalkLasts, KeptHeld, OnlyMemoryForgets, Place, Resume
<1> QED
  BY <1>4, <1>8, <1>10, <1>11, <1>13, <1>14, <1>15 DEF FsmInv, RecordInv

LEMMA FsmLoadExpired ==
  ASSUME FsmInv, now \in 0..MaxTime, now' = now, NEW c \in Calls, LoadExpired(c)
  PROVE  FsmInv'
<1> DEFINE k == KeyOf[c]
           copy == [pc |-> "deleting", got |-> NoRecord, ver |-> version[k]]
<1>1. /\ KindOf[c] # "clear" /\ backend = "redis" /\ Held(k) /\ IsExpired(map[k])
      /\ call' = [call EXCEPT ![c] = copy]
      /\ UNCHANGED <<now, backend, map, order, disk, dirty, flushDue, closed, conv, want, version, torn, lost,
                     unwritten, late, turn, kept>>
  BY Zenon DEF LoadExpired
<1>2. k \in FsmKeys /\ k \in StorageKeys /\ k # ConvKey
  BY KeyFacts
<1>3. FsmTypeOK
  BY DEF FsmInv
<1>4. version[k] \in Nat
  BY <1>2, <1>3 DEF FsmTypeOK
<1>5. copy \in [pc : {"idle", "deleting", "loaded", "done"}, got : Records, ver : Nat]
  BY <1>4, NoRecordFacts
<1>6. copy.pc = "deleting" /\ copy.got = NoRecord /\ copy.ver = version[k]
  OBVIOUS
<1> HIDE DEF k, copy
<1>7. FsmTypeOK'
  BY <1>1, <1>3, <1>5 DEF FsmTypeOK
<1>8. call'[c] = copy /\ \A d \in Calls : d # c => call'[d] = call[d]
  BY <1>1, <1>3 DEF FsmTypeOK
<1>9. OrderHeld' /\ LostIsGone' /\ SerialRecords'
  BY <1>1 DEF FsmInv, RecordInv, OrderHeld, LostIsGone, SerialRecords, Agrees, Held
<1>10. k \notin torn => want[k].due <= now
  <2>1. k \notin lost
    BY <1>1, <1>2 DEF FsmInv, RecordInv, LostIsGone, Held
  <2> QED
    BY <1>1, <1>2, <2>1 DEF FsmInv, RecordInv, SerialRecords, Agrees, IsExpired
<1>11. SerialCopies'
  BY <1>1, <1>2, <1>4, <1>6, <1>8, <1>10 DEF FsmInv, RecordInv, SerialCopies, CopyAgrees, k
<1>12. DeletesInRedis'
  BY <1>1, <1>6, <1>8 DEF FsmInv, RecordInv, DeletesInRedis
<1>13. FileInv'
  BY <1>1 DEF FsmInv, FileInv, CleanIsWritten, DirtyIsDue, ClosedIsFlushed, Live, IsExpired
<1>14. TalkInv'
  BY <1>1 DEF FsmInv, TalkInv, TalkLasts, KeptHeld, OnlyMemoryForgets, Place, Resume
<1> QED
  BY <1>7, <1>9, <1>11, <1>12, <1>13, <1>14 DEF FsmInv, RecordInv

LEMMA FsmDeleteExpired ==
  ASSUME FsmInv, now \in 0..MaxTime, now' = now, NEW c \in Calls, DeleteExpired(c)
  PROVE  FsmInv'
<1> DEFINE k == KeyOf[c]
<1>1. /\ call[c].pc = "deleting" /\ Removed(k)
      /\ torn' = IF call[c].ver = version[k] THEN torn ELSE torn \cup {k}
      /\ call' = [call EXCEPT ![c].pc = "loaded"]
      /\ UNCHANGED <<now, backend, dirty, flushDue, closed, conv, want, version, lost, unwritten, late, turn, kept>>
  BY Zenon DEF DeleteExpired
<1>2. k \in FsmKeys /\ k \in StorageKeys /\ k # ConvKey
  BY KeyFacts
<1>3. FsmTypeOK /\ OrderHeld /\ backend = "redis"
  BY <1>1 DEF FsmInv, RecordInv, DeletesInRedis
<1>4. /\ map' \in [StorageKeys -> Records] /\ map'[k] = NoRecord
      /\ \A j \in StorageKeys : j # k => map'[j] = map[j]
      /\ disk' = disk /\ order' \in Seq(StorageKeys) /\ OrderHeld'
  BY <1>1, <1>2, <1>3, RemovedFacts
<1> HIDE DEF k
<1>5. /\ call' \in [Calls -> [pc : {"idle", "deleting", "loaded", "done"}, got : Records, ver : Nat]]
      /\ call'[c].pc = "loaded" /\ call'[c].got = call[c].got /\ call'[c].ver = call[c].ver
      /\ \A d \in Calls : d # c => call'[d] = call[d]
  BY <1>1, <1>3 DEF FsmTypeOK
<1>6. torn \subseteq torn' /\ torn' \subseteq torn \cup {k} /\ (call[c].ver # version[k] => k \in torn')
  BY <1>1
<1>7. FsmTypeOK'
  BY <1>1, <1>2, <1>3, <1>4, <1>5, <1>6 DEF FsmTypeOK
<1>8. LostIsGone'
  BY <1>1, <1>2, <1>3, <1>4, KeyFacts DEF FsmInv, RecordInv, LostIsGone, FsmTypeOK
<1>9. k \notin torn' => call[c].got = NoRecord /\ (k \in lost \/ want[k].due <= now)
  BY <1>1, <1>6 DEF FsmInv, RecordInv, SerialCopies, CopyAgrees, k
<1>10. SerialRecords'
  BY <1>1, <1>2, <1>4, <1>6, <1>9, KeyFacts DEF FsmInv, RecordInv, SerialRecords, Agrees
<1>11. SerialCopies'
  BY <1>1, <1>2, <1>5, <1>6, <1>9 DEF FsmInv, RecordInv, SerialCopies, CopyAgrees, k
<1>12. DeletesInRedis'
  BY <1>1, <1>3 DEF DeletesInRedis
<1>13. FileInv'
  BY <1>1, <1>3 DEF FsmInv, FileInv, CleanIsWritten, DirtyIsDue, ClosedIsFlushed
<1>14. TalkInv'
  BY <1>1, <1>2, <1>4, KeyFacts DEF FsmInv, TalkInv, TalkLasts, KeptHeld, OnlyMemoryForgets, Place, Resume
<1> QED
  BY <1>4, <1>7, <1>8, <1>10, <1>11, <1>12, <1>13, <1>14 DEF FsmInv, RecordInv

(* What a call persists. *)
LEMMA PatchFacts ==
  ASSUME NEW c \in Calls, KindOf[c] # "clear", NEW r \in Records, NEW p, p = Patch(c, r)
  PROVE  /\ p \in Records
         /\ p.data = CASE KindOf[c] = "setState" -> r.data
                       [] KindOf[c] = "setData" -> {c}
                       [] OTHER -> r.data \cup {c}
<1>1. KindOf[c] \in {"setState", "setData", "updateData", "set"}
  BY FsmAssumption
<1>2. CASE KindOf[c] = "setState"
  BY <1>2 DEF Patch, Records
<1>3. CASE KindOf[c] = "setData"
  BY <1>3 DEF Patch, Records
<1>4. CASE KindOf[c] = "updateData"
  BY <1>4 DEF Patch, Records
<1>5. CASE KindOf[c] = "set"
  BY <1>5 DEF Patch, Records
<1> QED
  BY <1>1, <1>2, <1>3, <1>4, <1>5

(* What a store changes besides its key: the keys it forgets are lost, and *)
(* every key it touches has a new version.                                 *)
LEMMA StoreFacts ==
  ASSUME FsmInv, UNCHANGED <<now, backend, closed>>,
         NEW k \in StorageKeys, NEW r \in Records, r.exp > 0, StoreSet(k, r)
  PROVE  \E gone \in SUBSET StorageKeys :
           /\ k \notin gone
           /\ map' \in [StorageKeys -> Records] /\ map'[k] = r
           /\ \A j \in StorageKeys \ {k} : map'[j] = IF j \in gone THEN NoRecord ELSE map[j]
           /\ lost' = (lost \ {k}) \cup gone /\ lost' \subseteq StorageKeys
           /\ gone # {} => backend = "memory"
           /\ version' \in [FsmKeys -> Nat]
           /\ \A j \in FsmKeys : version'[j] = IF j \in {k} \cup gone THEN version[j] + 1 ELSE version[j]
           /\ disk' = disk /\ order' \in Seq(StorageKeys) /\ OrderHeld' /\ LostIsGone'
           /\ FileInv' /\ {dirty', flushDue', closed', unwritten', late'} \subseteq BOOLEAN
<1>1. FsmTypeOK /\ OrderHeld /\ FileInv
  BY DEF FsmInv, RecordInv
<1>2. r # NoRecord
  BY NoRecordFacts
<1>3. PICK gone \in SUBSET StorageKeys :
        /\ k \notin gone
        /\ map' = [j \in StorageKeys |-> IF j = k THEN r ELSE IF j \in gone THEN NoRecord ELSE map[j]]
        /\ lost' = (lost \ {k}) \cup gone
        /\ gone # {} => backend = "memory"
        /\ Written({k} \cup gone)
        /\ order' \in Seq(StorageKeys) /\ OrderHeld'
  BY <1>1, <1>2, StoreSetFacts
<1>4. ScheduleFlush /\ disk' = disk
  BY DEF StoreSet
<1>5. FileInv' /\ {dirty', flushDue', closed', unwritten', late'} \subseteq BOOLEAN
  BY <1>1, <1>4, FlushScheduled
<1>6. /\ map' \in [StorageKeys -> Records] /\ map'[k] = r
      /\ \A j \in StorageKeys \ {k} : map'[j] = IF j \in gone THEN NoRecord ELSE map[j]
  BY <1>1, <1>3, NoRecordFacts DEF FsmTypeOK
<1>7. /\ version' \in [FsmKeys -> Nat]
      /\ \A j \in FsmKeys : version'[j] = IF j \in {k} \cup gone THEN version[j] + 1 ELSE version[j]
  BY <1>1, <1>3 DEF FsmTypeOK, Written
<1>8. lost' \subseteq StorageKeys
  BY <1>1, <1>3 DEF FsmTypeOK
<1>9. LostIsGone'
  BY <1>1, <1>3, <1>6, KeyFacts DEF FsmInv, RecordInv, LostIsGone, FsmTypeOK
<1> QED
  BY <1>3, <1>4, <1>5, <1>6, <1>7, <1>8, <1>9

LEMMA FsmPersist ==
  ASSUME FsmInv, now \in 0..MaxTime, now' = now, NEW c \in Calls, Persist(c)
  PROVE  FsmInv'
<1> DEFINE k == KeyOf[c]
           held == call[c].got
           r == [Patch(c, held) EXCEPT !.exp = now + Ttl]
           had == IF want[k].due > now /\ k \notin lost THEN want[k].data ELSE {}
           has == CASE KindOf[c] = "setState" -> had
                    [] KindOf[c] = "setData" -> {c}
                    [] OTHER -> had \cup {c}
           wish == [data |-> has, due |-> now + Ttl]
           idle == [NotCalled EXCEPT !.pc = "done"]
<1>1. /\ call[c].pc = "loaded" /\ StoreSet(k, r)
      /\ call' = [call EXCEPT ![c] = idle]
      /\ want' = [want EXCEPT ![k] = wish]
      /\ torn' = IF call[c].ver = version[k] /\ (held = NoRecord \/ ~IsExpired(held)) THEN torn
                 ELSE torn \cup {k}
      /\ UNCHANGED <<now, backend, closed>> /\ UNCHANGED <<conv, turn, kept>>
  BY Zenon DEF Persist
<1>2. k \in FsmKeys /\ k \in StorageKeys /\ k # ConvKey
  BY KeyFacts
<1>3. FsmTypeOK
  BY DEF FsmInv
<1>4. now + Ttl \in Nat /\ now + Ttl > 0 /\ now \in Nat
  BY FsmAssumption, ClockBound
<1>5. held \in Records /\ KindOf[c] # "clear" /\ c \in Calls
  BY <1>1, <1>3 DEF FsmTypeOK, FsmInv, RecordInv, SerialCopies
<1>6. /\ r \in Records /\ r.exp = now + Ttl
      /\ r.data = CASE KindOf[c] = "setState" -> held.data
                    [] KindOf[c] = "setData" -> {c}
                    [] OTHER -> held.data \cup {c}
  <2> DEFINE p == Patch(c, held)
  <2>1. p = Patch(c, held)
    OBVIOUS
  <2> HIDE DEF held, p
  <2>2. /\ p \in Records
        /\ p.data = CASE KindOf[c] = "setState" -> held.data
                      [] KindOf[c] = "setData" -> {c}
                      [] OTHER -> held.data \cup {c}
    BY <1>5, <2>1, PatchFacts
  <2>3. r = [p EXCEPT !.exp = now + Ttl]
    BY DEF p
  <2>4. r \in Records /\ r.exp = now + Ttl /\ r.data = p.data
    BY <1>4, <2>2, <2>3 DEF Records
  <2> QED
    BY <2>2, <2>4
<1>7. had \in SUBSET Calls
  BY <1>2, <1>3 DEF FsmTypeOK
<1> HIDE DEF had
<1>8. has \in SUBSET Calls
  BY <1>5, <1>7
<1>9. (held.data = had) => r.data = has
  BY <1>6
<1> HIDE DEF has, r
<1>10. wish \in [data : SUBSET Calls, due : Nat] /\ wish.data = has /\ wish.due = now + Ttl
  BY <1>4, <1>8
<1>11. idle \in [pc : {"idle", "deleting", "loaded", "done"}, got : Records, ver : Nat] /\ idle.pc = "done"
  BY NoRecordFacts DEF NotCalled
<1> HIDE DEF wish, idle, k
<1>12. PICK gone \in SUBSET StorageKeys :
         /\ k \notin gone
         /\ map' \in [StorageKeys -> Records] /\ map'[k] = r
         /\ \A j \in StorageKeys \ {k} : map'[j] = IF j \in gone THEN NoRecord ELSE map[j]
         /\ lost' = (lost \ {k}) \cup gone /\ lost' \subseteq StorageKeys
         /\ gone # {} => backend = "memory"
         /\ version' \in [FsmKeys -> Nat]
         /\ \A j \in FsmKeys : version'[j] = IF j \in {k} \cup gone THEN version[j] + 1 ELSE version[j]
         /\ disk' = disk /\ order' \in Seq(StorageKeys) /\ OrderHeld' /\ LostIsGone'
         /\ FileInv' /\ {dirty', flushDue', closed', unwritten', late'} \subseteq BOOLEAN
  <2>1. r.exp > 0
    BY <1>4, <1>6
  <2> QED
    BY <1>1, <1>2, <1>6, <2>1, StoreFacts
<1>13. call'[c] = idle /\ \A d \in Calls : d # c => call'[d] = call[d]
  BY <1>1, <1>3 DEF FsmTypeOK
<1>14. want'[k] = wish /\ \A j \in FsmKeys : j # k => want'[j] = want[j]
  BY <1>1, <1>2, <1>3 DEF FsmTypeOK
<1>15. torn \subseteq torn' /\ torn' \subseteq torn \cup {k}
  BY <1>1
<1>16. FsmTypeOK'
  BY <1>1, <1>2, <1>3, <1>10, <1>11, <1>12, <1>15 DEF FsmTypeOK
<1>17. k \notin torn' => held.data = had
  <2> SUFFICES ASSUME k \notin torn' PROVE held.data = had
    OBVIOUS
  <2>1. call[c].ver = version[k] /\ (held = NoRecord \/ ~IsExpired(held)) /\ k \notin torn
    BY <1>1
  <2>2. CopyAgrees(c)
    BY <1>1, <2>1 DEF FsmInv, RecordInv, SerialCopies, k
  <2>3. CASE held = NoRecord /\ (k \in lost \/ want[k].due <= now)
    BY <1>2, <1>3, <1>4, <2>3, NoRecordFacts DEF had, FsmTypeOK
  <2>4. CASE k \notin lost /\ held.exp = want[k].due /\ held.data = want[k].data
    <3>1. CASE held = NoRecord
      BY <1>2, <1>3, <1>4, <2>4, <3>1, NoRecordFacts DEF had, FsmTypeOK
    <3>2. CASE ~IsExpired(held)
      BY <1>2, <1>3, <1>4, <2>4, <3>2 DEF had, FsmTypeOK, IsExpired
    <3> QED
      BY <2>1, <3>1, <3>2
  <2> QED
    BY <2>2, <2>3, <2>4 DEF CopyAgrees, k
<1>18. SerialRecords'
  <2> SUFFICES ASSUME NEW j \in FsmKeys, j \notin torn', j \notin lost' PROVE Agrees(j)'
    BY DEF SerialRecords
  <2>1. CASE j = k
    BY <1>6, <1>9, <1>10, <1>12, <1>14, <1>17, <2>1 DEF Agrees
  <2>2. CASE j # k
    <3>1. Agrees(j)
      BY <1>12, <1>15, <2>2 DEF FsmInv, RecordInv, SerialRecords
    <3> QED
      BY <1>1, <1>12, <1>14, <2>2, <3>1, KeyFacts DEF Agrees
  <2> QED
    BY <2>1, <2>2
<1>19. SerialCopies'
  <2> SUFFICES ASSUME NEW d \in Calls, call'[d].pc \in {"deleting", "loaded"}
               PROVE  /\ KindOf[d] # "clear"
                      /\ call'[d].ver <= version'[KeyOf[d]]
                      /\ (call'[d].ver = version'[KeyOf[d]] /\ KeyOf[d] \notin torn') => CopyAgrees(d)'
    BY DEF SerialCopies
  <2>1. d # c /\ call'[d] = call[d] /\ KeyOf[d] \in FsmKeys
    BY <1>11, <1>13, KeyFacts
  <2>2. /\ KindOf[d] # "clear"
        /\ call[d].ver <= version[KeyOf[d]]
        /\ (call[d].ver = version[KeyOf[d]] /\ KeyOf[d] \notin torn) => CopyAgrees(d)
    BY <2>1 DEF FsmInv, RecordInv, SerialCopies
  <2>3. call[d].ver \in Nat /\ version[KeyOf[d]] \in Nat
    BY <1>3, <2>1 DEF FsmTypeOK
  <2>4. CASE KeyOf[d] \in {k} \cup gone
    <3>1. call'[d].ver < version'[KeyOf[d]]
      BY <1>12, <2>1, <2>2, <2>3, <2>4
    <3> QED
      BY <1>12, <2>1, <2>2, <2>3, <2>4, <3>1
  <2>5. CASE KeyOf[d] \notin {k} \cup gone
    <3>1. version'[KeyOf[d]] = version[KeyOf[d]] /\ want'[KeyOf[d]] = want[KeyOf[d]]
      BY <1>12, <1>14, <2>1, <2>5
    <3>2. KeyOf[d] \in lost' <=> KeyOf[d] \in lost
      BY <1>12, <2>5
    <3> QED
      BY <1>1, <1>15, <2>1, <2>2, <3>1, <3>2 DEF CopyAgrees
  <2> QED
    BY <2>4, <2>5
<1>20. DeletesInRedis'
  BY <1>1, <1>11, <1>13 DEF FsmInv, RecordInv, DeletesInRedis
<1>21. TalkInv'
  <2>1. map'[ConvKey] = IF ConvKey \in gone THEN NoRecord ELSE map[ConvKey]
    BY <1>2, <1>12, KeyFacts
  <2>2. TalkLasts'
    BY <1>12, <2>1 DEF FsmInv, TalkInv, TalkLasts
  <2>3. KeptHeld /\ OnlyMemoryForgets /\ Place /\ conv.pc \in {"off", "waiting", "saving", "finishing"}
    BY <1>3 DEF FsmInv, TalkInv, FsmTypeOK
  <2>4. OnlyMemoryForgets'
    BY <1>1, <1>12, <2>3 DEF OnlyMemoryForgets
  <2>5. CASE ConvKey \in gone
    <3>1. ConvKey \in lost' /\ backend = "memory"
      BY <1>12, <2>5
    <3>2. KeptHeld'
      BY <1>1, <2>3, <3>1 DEF KeptHeld
    <3>3. Place'
      BY <1>1, <2>3, <3>1 DEF Place
    <3> QED
      BY <2>2, <2>4, <3>2, <3>3 DEF TalkInv
  <2>6. CASE ConvKey \notin gone
    <3>1. map'[ConvKey] = map[ConvKey] /\ disk' = disk /\ (ConvKey \in lost' <=> ConvKey \in lost)
      BY <1>2, <1>12, <2>1, <2>6
    <3>2. KeptHeld'
      BY <1>1, <2>3, <3>1 DEF KeptHeld, Resume
    <3>3. Place'
      BY <1>1, <2>3, <3>1 DEF Place, Resume
    <3> QED
      BY <2>2, <2>4, <3>2, <3>3 DEF TalkInv
  <2> QED
    BY <2>5, <2>6
<1> QED
  BY <1>12, <1>16, <1>18, <1>19, <1>20, <1>21 DEF FsmInv, RecordInv

(* What a delete changes. *)
LEMMA DeleteFacts ==
  ASSUME FsmInv, UNCHANGED <<now, backend, closed>>, NEW k \in StorageKeys, StoreDelete(k)
  PROVE  /\ map' \in [StorageKeys -> Records] /\ map'[k] = NoRecord
         /\ \A j \in StorageKeys : j # k => map'[j] = map[j]
         /\ lost' = lost \ {k}
         /\ version' \in [FsmKeys -> Nat]
         /\ \A j \in FsmKeys : version'[j] = IF j = k THEN version[j] + 1 ELSE version[j]
         /\ disk' = disk /\ order' \in Seq(StorageKeys) /\ OrderHeld' /\ LostIsGone'
         /\ FileInv' /\ {dirty', flushDue', closed', unwritten', late'} \subseteq BOOLEAN
<1>1. FsmTypeOK /\ OrderHeld /\ FileInv
  BY DEF FsmInv, RecordInv
<1>2. Removed(k) /\ Written({k}) /\ lost' = lost \ {k}
  BY DEF StoreDelete
<1>3. /\ map' \in [StorageKeys -> Records] /\ map'[k] = NoRecord
      /\ \A j \in StorageKeys : j # k => map'[j] = map[j]
      /\ disk' = disk /\ order' \in Seq(StorageKeys) /\ OrderHeld'
  BY <1>1, <1>2, RemovedFacts
<1>4. /\ version' \in [FsmKeys -> Nat]
      /\ \A j \in FsmKeys : version'[j] = IF j = k THEN version[j] + 1 ELSE version[j]
  BY <1>1, <1>2 DEF FsmTypeOK, Written
<1>5. LostIsGone'
  BY <1>1, <1>2, <1>3, KeyFacts DEF FsmInv, RecordInv, LostIsGone, FsmTypeOK
<1>6. FileInv' /\ {dirty', flushDue', closed', unwritten', late'} \subseteq BOOLEAN
  <2>1. CASE Held(k)
    <3>1. ScheduleFlush
      BY <2>1 DEF StoreDelete
    <3> QED
      BY <1>1, <3>1, FlushScheduled
  <2>2. CASE ~Held(k)
    <3>1. UNCHANGED <<dirty, flushDue, unwritten, late>>
      BY <2>2 DEF StoreDelete
    <3>2. \A j \in StorageKeys : map'[j] = map[j]
      BY <1>3, <2>2 DEF Held
    <3>3. FileInv'
      BY <1>1, <1>3, <3>1, <3>2 DEF FileInv, CleanIsWritten, DirtyIsDue, ClosedIsFlushed, Live, IsExpired
    <3> QED
      BY <1>1, <3>1, <3>3 DEF FsmTypeOK
  <2> QED
    BY <2>1, <2>2
<1> QED
  BY <1>2, <1>3, <1>4, <1>5, <1>6

LEMMA FsmClear ==
  ASSUME FsmInv, now \in 0..MaxTime, now' = now, NEW c \in Calls, Clear(c)
  PROVE  FsmInv'
<1> DEFINE k == KeyOf[c]
           wish == [data |-> {}, due |-> 0]
<1>1. /\ call[c].pc = "idle" /\ StoreDelete(k)
      /\ call' = [call EXCEPT ![c].pc = "done"]
      /\ want' = [want EXCEPT ![k] = wish]
      /\ UNCHANGED <<now, backend, closed>> /\ UNCHANGED <<conv, torn, turn, kept>>
  BY Zenon DEF Clear
<1>2. k \in FsmKeys /\ k \in StorageKeys /\ k # ConvKey
  BY KeyFacts
<1>3. FsmTypeOK /\ now \in Nat
  BY ClockBound DEF FsmInv
<1>4. wish \in [data : SUBSET Calls, due : Nat] /\ wish.due = 0
  OBVIOUS
<1> HIDE DEF k, wish
<1>5. /\ map' \in [StorageKeys -> Records] /\ map'[k] = NoRecord
      /\ \A j \in StorageKeys : j # k => map'[j] = map[j]
      /\ lost' = lost \ {k}
      /\ version' \in [FsmKeys -> Nat]
      /\ \A j \in FsmKeys : version'[j] = IF j = k THEN version[j] + 1 ELSE version[j]
      /\ disk' = disk /\ order' \in Seq(StorageKeys) /\ OrderHeld' /\ LostIsGone'
      /\ FileInv' /\ {dirty', flushDue', closed', unwritten', late'} \subseteq BOOLEAN
  BY <1>1, <1>2, DeleteFacts
<1>6. /\ call' \in [Calls -> [pc : {"idle", "deleting", "loaded", "done"}, got : Records, ver : Nat]]
      /\ call'[c].pc = "done"
      /\ \A d \in Calls : d # c => call'[d] = call[d]
  BY <1>1, <1>3 DEF FsmTypeOK
<1>7. want'[k] = wish /\ \A j \in FsmKeys : j # k => want'[j] = want[j]
  BY <1>1, <1>2, <1>3 DEF FsmTypeOK
<1>8. FsmTypeOK'
  BY <1>1, <1>3, <1>4, <1>5, <1>6 DEF FsmTypeOK
<1>9. SerialRecords'
  BY <1>1, <1>3, <1>4, <1>5, <1>7, KeyFacts DEF FsmInv, RecordInv, SerialRecords, Agrees
<1>10. SerialCopies'
  <2> SUFFICES ASSUME NEW d \in Calls, call'[d].pc \in {"deleting", "loaded"}
               PROVE  /\ KindOf[d] # "clear"
                      /\ call'[d].ver <= version'[KeyOf[d]]
                      /\ (call'[d].ver = version'[KeyOf[d]] /\ KeyOf[d] \notin torn') => CopyAgrees(d)'
    BY DEF SerialCopies
  <2>1. d # c /\ call'[d] = call[d] /\ KeyOf[d] \in FsmKeys
    BY <1>6, KeyFacts
  <2>2. /\ KindOf[d] # "clear"
        /\ call[d].ver <= version[KeyOf[d]]
        /\ (call[d].ver = version[KeyOf[d]] /\ KeyOf[d] \notin torn) => CopyAgrees(d)
    BY <2>1 DEF FsmInv, RecordInv, SerialCopies
  <2>3. call[d].ver \in Nat /\ version[KeyOf[d]] \in Nat
    BY <1>3, <2>1 DEF FsmTypeOK
  <2>4. CASE KeyOf[d] = k
    BY <1>5, <2>1, <2>2, <2>3, <2>4
  <2>5. CASE KeyOf[d] # k
    BY <1>1, <1>5, <1>7, <2>1, <2>2, <2>5 DEF CopyAgrees
  <2> QED
    BY <2>4, <2>5
<1>11. DeletesInRedis'
  BY <1>1, <1>6 DEF FsmInv, RecordInv, DeletesInRedis
<1>12. TalkInv'
  <2>1. map'[ConvKey] = map[ConvKey] /\ (ConvKey \in lost' <=> ConvKey \in lost)
    BY <1>2, <1>5, KeyFacts
  <2> QED
    BY <1>1, <1>5, <2>1 DEF FsmInv, TalkInv, TalkLasts, KeptHeld, OnlyMemoryForgets, Place, Resume
<1> QED
  BY <1>5, <1>8, <1>9, <1>10, <1>11, <1>12 DEF FsmInv, RecordInv

-----------------------------------------------------------------------------
(* So do the steps of the conversation. *)

(* The calls and their keys are not touched. *)
LEMMA OtherKeys ==
  ASSUME FsmInv, UNCHANGED <<now, backend, call, want, torn>>,
         version' \in [FsmKeys -> Nat], OrderHeld', LostIsGone',
         \A k \in FsmKeys : \/ version'[k] = version[k] /\ map'[k] = map[k] /\ (k \in lost' <=> k \in lost)
                            \/ version'[k] = version[k] + 1 /\ k \in lost'
  PROVE  RecordInv'
<1>1. FsmTypeOK /\ RecordInv
  BY DEF FsmInv
<1>2. SerialRecords'
  BY <1>1 DEF RecordInv, SerialRecords, Agrees
<1>3. DeletesInRedis'
  BY <1>1 DEF RecordInv, DeletesInRedis
<1>4. SerialCopies'
  <2> SUFFICES ASSUME NEW d \in Calls, call[d].pc \in {"deleting", "loaded"}
               PROVE  /\ KindOf[d] # "clear"
                      /\ call[d].ver <= version'[KeyOf[d]]
                      /\ (call[d].ver = version'[KeyOf[d]] /\ KeyOf[d] \notin torn) => CopyAgrees(d)'
    BY DEF SerialCopies
  <2>1. KeyOf[d] \in FsmKeys
    BY KeyFacts
  <2>2. /\ KindOf[d] # "clear"
        /\ call[d].ver <= version[KeyOf[d]]
        /\ (call[d].ver = version[KeyOf[d]] /\ KeyOf[d] \notin torn) => CopyAgrees(d)
    BY <1>1 DEF RecordInv, SerialCopies
  <2>3. call[d].ver \in Nat /\ version[KeyOf[d]] \in Nat
    BY <1>1, <2>1 DEF FsmTypeOK
  <2>4. CASE version'[KeyOf[d]] = version[KeyOf[d]] + 1
    BY <2>2, <2>3, <2>4
  <2>5. CASE version'[KeyOf[d]] = version[KeyOf[d]] /\ (KeyOf[d] \in lost' <=> KeyOf[d] \in lost)
    BY <2>2, <2>5 DEF CopyAgrees
  <2> QED
    BY <2>1, <2>4, <2>5
<1> QED
  BY <1>2, <1>3, <1>4 DEF RecordInv

(* Nothing but the conversation changes. *)
LEMMA TalkOnly ==
  ASSUME FsmInv,
         UNCHANGED <<now, backend, map, order, disk, dirty, flushDue, closed, call, want, version, torn, lost,
                     unwritten, late, kept>>,
         conv' \in [pc : {"off", "waiting", "saving", "finishing"}, i : 0..(Steps - 1), stop : BOOLEAN],
         turn' \in 0..Steps,
         Place'
  PROVE  FsmInv'
<1>1. FsmTypeOK /\ TalkLasts /\ KeptHeld /\ OnlyMemoryForgets /\ RecordInv /\ FileInv
  BY DEF FsmInv, TalkInv
<1>2. FsmTypeOK'
  BY <1>1 DEF FsmTypeOK
<1>3. RecordInv'
  BY <1>1 DEF RecordInv, OrderHeld, Held, LostIsGone, SerialRecords, Agrees, SerialCopies, CopyAgrees,
             DeletesInRedis
<1>4. FileInv'
  BY <1>1 DEF FileInv, CleanIsWritten, DirtyIsDue, ClosedIsFlushed, Live, IsExpired
<1>5. TalkLasts' /\ KeptHeld' /\ OnlyMemoryForgets'
  BY <1>1 DEF TalkLasts, KeptHeld, OnlyMemoryForgets, Resume
<1> QED
  BY <1>2, <1>3, <1>4, <1>5 DEF FsmInv, TalkInv

(* A conversation whose record was evicted begins anew. *)
LEMMA LostTalk ==
  ASSUME FsmInv, ConvKey \in lost
  PROVE  Resume(map[ConvKey].step) = 0
<1>1. map[ConvKey] = NoRecord
  BY KeyFacts DEF FsmInv, RecordInv, LostIsGone
<1> QED
  BY <1>1, NoRecordFacts, FsmAssumption DEF Resume

LEMMA TalkRun ==
  ASSUME FsmInv, now \in 0..MaxTime, now' = now, ConvRun
  PROVE  FsmInv'
<1> DEFINE i == Resume(map[ConvKey].step)
           talk == [NoTalk EXCEPT !.pc = "waiting", !.i = i]
<1>1. FsmTypeOK /\ TalkLasts /\ Place /\ RecordInv /\ FileInv
  BY DEF FsmInv, TalkInv
<1>2. ~(Held(ConvKey) /\ IsExpired(map[ConvKey])) /\ Found(ConvKey) = map[ConvKey]
  BY <1>1, TalkFound
<1>3. /\ conv.pc = "off" /\ conv' = talk
      /\ turn' = IF turn = Steps THEN 0 ELSE turn
      /\ UNCHANGED <<now, backend, closed, call, want, version, torn, lost, kept>>
      /\ UNCHANGED <<map, order, disk, dirty, flushDue, unwritten, late>>
  BY <1>2 DEF ConvRun, StoreGet
<1>4. map[ConvKey].step \in Nat /\ Steps \in Nat \ {0} /\ turn \in 0..Steps
  BY <1>1, KeyFacts, FsmAssumption DEF FsmTypeOK, Records
<1>5. i \in 0..(Steps - 1) /\ i = Resume(map[ConvKey].step)
  BY <1>4 DEF Resume
<1>6. /\ talk \in [pc : {"off", "waiting", "saving", "finishing"}, i : 0..(Steps - 1), stop : BOOLEAN]
      /\ talk.pc = "waiting" /\ talk.i = i
  BY <1>5 DEF NoTalk
<1>7. ConvKey \in lost => i = 0
  BY <1>1, <1>5, LostTalk
<1> HIDE DEF talk, i
<1>8. turn' \in 0..Steps /\ turn' = Resume(turn)
  BY <1>3, <1>4 DEF Resume
<1>9. Place'
  <2>1. ConvKey \in lost \/ i = turn'
    BY <1>1, <1>3, <1>5, <1>8 DEF Place
  <2>2. map' = map /\ lost' = lost /\ conv'.pc = "waiting" /\ conv'.i = i
    BY <1>3, <1>6
  <2> QED
    BY <1>5, <1>7, <2>1, <2>2 DEF Place, Resume
<1> QED
  BY <1>3, <1>6, <1>8, <1>9, TalkOnly

LEMMA TalkHandle ==
  ASSUME FsmInv, now' = now, NEW cancel \in BOOLEAN, ConvHandle(cancel)
  PROVE  FsmInv'
<1>1. FsmTypeOK /\ Place /\ Steps \in Nat \ {0}
  BY FsmAssumption DEF FsmInv, TalkInv
<1>2. /\ conv.pc = "waiting" /\ conv' = [conv EXCEPT !.pc = "saving", !.stop = cancel]
      /\ turn' = conv.i + 1
      /\ UNCHANGED <<now, backend, map, order, disk, dirty, flushDue, closed, call, want, version, torn, lost,
                     unwritten, late, kept>>
  BY Zenon DEF ConvHandle
<1>3. /\ conv' \in [pc : {"off", "waiting", "saving", "finishing"}, i : 0..(Steps - 1), stop : BOOLEAN]
      /\ conv'.pc = "saving" /\ conv'.i = conv.i /\ conv.i \in 0..(Steps - 1)
  BY <1>1, <1>2 DEF FsmTypeOK
<1>4. turn' \in 0..Steps
  BY <1>1, <1>2, <1>3
<1>5. Place'
  BY <1>1, <1>2, <1>3 DEF Place, Resume
<1> QED
  BY <1>2, <1>3, <1>4, <1>5, TalkOnly

LEMMA NoTalkFacts ==
  /\ NoTalk \in [pc : {"off", "waiting", "saving", "finishing"}, i : 0..(Steps - 1), stop : BOOLEAN]
  /\ NoTalk.pc = "off"
<1>1. 0 \in 0..(Steps - 1)
  BY FsmAssumption
<1> QED
  BY <1>1 DEF NoTalk

LEMMA TalkEnds ==
  ASSUME FsmInv, now' = now, ConvEnds
  PROVE  FsmInv'
<1>1. FsmTypeOK /\ Place /\ Steps \in Nat \ {0}
  BY FsmAssumption DEF FsmInv, TalkInv
<1>2. /\ conv.pc = "waiting" /\ conv' = NoTalk
      /\ UNCHANGED <<now, backend, map, order, disk, dirty, flushDue, closed, call, want, version, torn, lost,
                     unwritten, late, kept>>
      /\ turn' = turn
  BY DEF ConvEnds
<1>3. conv.i \in 0..(Steps - 1) /\ turn \in 0..Steps
  BY <1>1 DEF FsmTypeOK
<1>4. ConvKey \in lost \/ Resume(map[ConvKey].step) = Resume(turn)
  <2>1. CASE ConvKey \notin lost
    <3>1. conv.i = turn /\ Resume(map[ConvKey].step) = conv.i
      BY <1>1, <1>2, <2>1 DEF Place
    <3>2. Resume(turn) = turn
      BY <1>1, <1>3, <3>1 DEF Resume
    <3> QED
      BY <3>1, <3>2
  <2> QED
    BY <2>1
<1>5. Place'
  BY <1>2, <1>4, NoTalkFacts DEF Place, Resume
<1> QED
  BY <1>2, <1>3, <1>5, NoTalkFacts, TalkOnly

LEMMA TalkSave ==
  ASSUME FsmInv, now \in 0..MaxTime, now' = now, ConvSave
  PROVE  FsmInv'
<1> DEFINE r == [NoRecord EXCEPT !.step = conv.i + 1, !.exp = Forever]
<1>1. FsmTypeOK /\ Place /\ Steps \in Nat \ {0}
  BY FsmAssumption DEF FsmInv, TalkInv
<1>2. /\ conv.pc = "saving" /\ StoreSet(ConvKey, r)
      /\ conv' = IF conv.stop THEN NoTalk
                 ELSE IF conv.i + 1 < Steps THEN [conv EXCEPT !.pc = "waiting", !.i = @ + 1]
                 ELSE [conv EXCEPT !.pc = "finishing"]
      /\ Keeps(conv.i + 1)
      /\ UNCHANGED <<now, backend, closed>> /\ UNCHANGED <<call, want, torn, turn>>
  BY Zenon DEF ConvSave
<1>3. conv.i \in 0..(Steps - 1) /\ Forever \in Nat /\ Forever > MaxTime /\ MaxTime \in Nat
  BY <1>1, FsmAssumption, ClockBound DEF FsmTypeOK, Forever
<1>4. r \in Records /\ r.step = conv.i + 1 /\ r.exp = Forever
  <2>1. conv.i + 1 \in Nat
    BY <1>1, <1>3
  <2> QED
    BY <1>3, <2>1 DEF NoRecord, Records
<1> HIDE DEF r
<1>5. PICK gone \in SUBSET StorageKeys :
        /\ ConvKey \notin gone
        /\ map' \in [StorageKeys -> Records] /\ map'[ConvKey] = r
        /\ \A j \in StorageKeys \ {ConvKey} : map'[j] = IF j \in gone THEN NoRecord ELSE map[j]
        /\ lost' = (lost \ {ConvKey}) \cup gone /\ lost' \subseteq StorageKeys
        /\ gone # {} => backend = "memory"
        /\ version' \in [FsmKeys -> Nat]
        /\ \A j \in FsmKeys : version'[j] = IF j \in {ConvKey} \cup gone THEN version[j] + 1 ELSE version[j]
        /\ disk' = disk /\ order' \in Seq(StorageKeys) /\ OrderHeld' /\ LostIsGone'
        /\ FileInv' /\ {dirty', flushDue', closed', unwritten', late'} \subseteq BOOLEAN
  <2>1. r.exp > 0
    BY <1>3, <1>4
  <2>2. ConvKey \in StorageKeys
    BY KeyFacts
  <2> QED
    BY <1>2, <1>4, <2>1, <2>2, StoreFacts
<1>6. /\ conv' \in [pc : {"off", "waiting", "saving", "finishing"}, i : 0..(Steps - 1), stop : BOOLEAN]
      /\ \/ conv'.pc = "off"
         \/ conv'.pc = "waiting" /\ conv'.i = conv.i + 1 /\ conv.i + 1 < Steps
         \/ conv'.pc = "finishing" /\ ~(conv.i + 1 < Steps)
  <2>1. CASE conv.stop
    BY <1>2, <2>1, NoTalkFacts
  <2>2. CASE ~conv.stop /\ conv.i + 1 < Steps
    <3>1. conv.i + 1 \in 0..(Steps - 1)
      BY <1>1, <1>3, <2>2
    <3> QED
      BY <1>1, <1>2, <2>2, <3>1 DEF FsmTypeOK
  <2>3. CASE ~conv.stop /\ ~(conv.i + 1 < Steps)
    BY <1>1, <1>2, <2>3 DEF FsmTypeOK
  <2> QED
    BY <2>1, <2>2, <2>3
<1>7. FsmTypeOK'
  <2>1. kept' \in 0..Steps
    BY <1>1, <1>2, <1>3 DEF Keeps, FsmTypeOK
  <2> QED
    BY <1>1, <1>2, <1>5, <1>6, <2>1 DEF FsmTypeOK
<1>8. RecordInv'
  <2>1. \A k \in FsmKeys : \/ version'[k] = version[k] /\ map'[k] = map[k] /\ (k \in lost' <=> k \in lost)
                           \/ version'[k] = version[k] + 1 /\ k \in lost'
    BY <1>5, KeyFacts
  <2> QED
    BY <1>2, <1>5, <2>1, OtherKeys
<1>9. TalkLasts'
  BY <1>3, <1>4, <1>5 DEF FsmInv, TalkInv, TalkLasts
<1>10. turn' = conv.i + 1 /\ map'[ConvKey].step = conv.i + 1 /\ ConvKey \notin lost'
  BY <1>1, <1>2, <1>4, <1>5 DEF Place
<1>11. Place'
  <2>1. CASE conv'.pc = "off"
    BY <1>10, <2>1 DEF Place, Resume
  <2>2. CASE conv'.pc = "waiting" /\ conv'.i = conv.i + 1 /\ conv.i + 1 < Steps
    BY <1>1, <1>3, <1>10, <2>2 DEF Place, Resume
  <2>3. CASE conv'.pc = "finishing" /\ ~(conv.i + 1 < Steps)
    <3>1. conv.i + 1 = Steps
      BY <1>1, <1>3, <2>3
    <3> QED
      BY <1>1, <1>10, <2>3, <3>1 DEF Place, Resume
  <2> QED
    BY <1>6, <2>1, <2>2, <2>3
<1>12. KeptHeld' /\ OnlyMemoryForgets'
  <2>1. KeptHeld /\ OnlyMemoryForgets /\ backend' = backend /\ disk' = disk
    BY <1>2, <1>5 DEF FsmInv, TalkInv
  <2>2. OnlyMemoryForgets'
    BY <1>5, <2>1 DEF OnlyMemoryForgets
  <2>3. KeptHeld'
    BY <1>2, <1>10, <2>1 DEF KeptHeld, Keeps, Resume
  <2> QED
    BY <2>2, <2>3
<1> QED
  BY <1>5, <1>7, <1>8, <1>9, <1>11, <1>12 DEF FsmInv, TalkInv

LEMMA TalkFinish ==
  ASSUME FsmInv, now \in 0..MaxTime, now' = now, ConvFinish
  PROVE  FsmInv'
<1>1. FsmTypeOK /\ Steps \in Nat \ {0} /\ TalkInv
  BY FsmAssumption DEF FsmInv
<1>2. /\ StoreDelete(ConvKey) /\ conv' = NoTalk /\ Keeps(0) /\ turn' = 0
      /\ UNCHANGED <<now, backend, closed>> /\ UNCHANGED <<call, want, torn>>
  BY DEF ConvFinish
<1>3. /\ map' \in [StorageKeys -> Records] /\ map'[ConvKey] = NoRecord
      /\ \A j \in StorageKeys : j # ConvKey => map'[j] = map[j]
      /\ lost' = lost \ {ConvKey}
      /\ version' \in [FsmKeys -> Nat]
      /\ \A j \in FsmKeys : version'[j] = IF j = ConvKey THEN version[j] + 1 ELSE version[j]
      /\ disk' = disk /\ order' \in Seq(StorageKeys) /\ OrderHeld' /\ LostIsGone'
      /\ FileInv' /\ {dirty', flushDue', closed', unwritten', late'} \subseteq BOOLEAN
  BY <1>2, KeyFacts, DeleteFacts
<1>4. FsmTypeOK'
  <2>1. kept' \in 0..Steps /\ turn' \in 0..Steps
    BY <1>1, <1>2 DEF Keeps, FsmTypeOK
  <2> QED
    BY <1>1, <1>2, <1>3, <2>1, NoTalkFacts DEF FsmTypeOK
<1>5. RecordInv'
  <2>1. \A k \in FsmKeys : version'[k] = version[k] /\ map'[k] = map[k] /\ (k \in lost' <=> k \in lost)
    BY <1>3, KeyFacts
  <2> QED
    BY <1>2, <1>3, <2>1, OtherKeys
<1>6. map'[ConvKey].step = 0 /\ ConvKey \notin lost'
  BY <1>3, NoRecordFacts
<1>7. TalkLasts'
  BY <1>1, <1>3 DEF TalkInv, TalkLasts
<1>8. KeptHeld'
  BY <1>1, <1>2, <1>3, <1>6 DEF TalkInv, KeptHeld, Keeps, Resume
<1>9. OnlyMemoryForgets'
  BY <1>1, <1>2, <1>3 DEF TalkInv, OnlyMemoryForgets
<1>10. Place'
  BY <1>2, <1>6, NoTalkFacts DEF Place, Resume
<1> QED
  BY <1>3, <1>4, <1>5, <1>7, <1>8, <1>9, <1>10 DEF FsmInv, TalkInv

-----------------------------------------------------------------------------
(* So do the file, a restart and the clock. *)

(* A live record is live. *)
LEMMA LiveFacts ==
  ASSUME NEW r \in Records, now \in Nat
  PROVE  Live(r) \in Records /\ Live(Live(r)) = Live(r)
BY NoRecordFacts DEF Live, IsExpired

LEMMA FileWritten ==
  ASSUME FsmInv, now \in 0..MaxTime, now' = now, NEW ok \in BOOLEAN, WriteFile(ok), closed' \in BOOLEAN
  PROVE  FsmInv'
<1>1. FsmTypeOK /\ RecordInv /\ FileInv /\ TalkInv /\ now \in Nat
  BY ClockBound DEF FsmInv
<1>2. /\ flushDue' = FALSE /\ unwritten' = (dirty /\ ~ok)
      /\ UNCHANGED <<now, backend, map, order, call, conv, want, version, torn, lost, late, turn>>
  BY DEF WriteFile
<1>3. dirty \in BOOLEAN /\ map \in [StorageKeys -> Records]
  BY <1>1 DEF FsmTypeOK
<1>4. \/ disk' = disk /\ dirty' = dirty /\ (dirty => unwritten' = TRUE) /\ kept' = kept
      \/ /\ dirty /\ disk' = [k \in StorageKeys |-> Live(map[k])] /\ dirty' = FALSE
         /\ kept' = IF conv.pc = "saving" THEN conv.i ELSE turn
  <2>1. CASE dirty /\ ok
    BY <2>1 DEF WriteFile, Found, Live
  <2>2. CASE ~(dirty /\ ok)
    <3>1. disk' = disk /\ dirty' = dirty /\ kept' = kept
      BY <2>2 DEF WriteFile
    <3>2. dirty => (dirty /\ ~ok) = TRUE
      BY <2>2, <1>3
    <3> QED
      BY <1>2, <3>1, <3>2
  <2> QED
    BY <2>1, <2>2
<1>5. /\ disk' \in [StorageKeys -> Records] /\ dirty' \in BOOLEAN /\ unwritten' \in BOOLEAN
      /\ kept' \in 0..Steps
  <2>1. [k \in StorageKeys |-> Live(map[k])] \in [StorageKeys -> Records]
    BY <1>1, <1>3, LiveFacts
  <2>2. disk \in [StorageKeys -> Records] /\ kept \in 0..Steps /\ turn \in 0..Steps
    BY <1>1 DEF FsmTypeOK
  <2>3. conv.i \in 0..Steps
    BY <1>1, FsmAssumption DEF FsmTypeOK
  <2> QED
    BY <1>2, <1>3, <1>4, <2>1, <2>2, <2>3
<1>6. FsmTypeOK'
  BY <1>1, <1>2, <1>5 DEF FsmTypeOK
<1>7. RecordInv'
  BY <1>1, <1>2 DEF RecordInv, OrderHeld, Held, LostIsGone, SerialRecords, Agrees, SerialCopies, CopyAgrees,
                   DeletesInRedis
<1>8. CleanIsWritten'
  <2>1. CASE disk' = disk /\ dirty' = dirty
    BY <1>1, <1>2, <2>1 DEF FileInv, CleanIsWritten, Live, IsExpired
  <2>2. CASE disk' = [k \in StorageKeys |-> Live(map[k])]
    <3>1. \A k \in StorageKeys : Live(map[k]) = Live(disk'[k])
      BY <1>1, <1>3, <2>2, LiveFacts
    <3> QED
      BY <1>2, <3>1 DEF CleanIsWritten, Live, IsExpired
  <2> QED
    BY <1>4, <2>1, <2>2
<1>9. DirtyIsDue' /\ ClosedIsFlushed'
  BY <1>1, <1>2, <1>4 DEF FileInv, DirtyIsDue, ClosedIsFlushed
<1>10. TalkLasts'
  <2>1. disk'[ConvKey] \in {disk[ConvKey], NoRecord, map[ConvKey]}
    BY <1>4, KeyFacts DEF Live
  <2> QED
    BY <1>1, <1>2, <2>1 DEF TalkInv, TalkLasts
<1>11. OnlyMemoryForgets' /\ Place'
  BY <1>1, <1>2 DEF TalkInv, OnlyMemoryForgets, Place, Resume
<1>12. KeptHeld'
  <2>1. CASE disk' = disk /\ kept' = kept
    BY <1>1, <1>2, <2>1 DEF TalkInv, KeptHeld, Resume
  <2>2. CASE /\ dirty /\ disk' = [k \in StorageKeys |-> Live(map[k])]
             /\ kept' = IF conv.pc = "saving" THEN conv.i ELSE turn
    <3>1. backend = "file" /\ backend' = "file"
      BY <1>1, <1>2, <2>2 DEF FileInv, DirtyIsDue
    <3>2. ConvKey \notin lost
      BY <1>1, <3>1 DEF TalkInv, OnlyMemoryForgets
    <3>3. disk'[ConvKey] = map[ConvKey]
      <4>1. map[ConvKey] = NoRecord \/ Live(map[ConvKey]) = map[ConvKey]
        BY <1>1, TalkFound DEF TalkInv, Live, Held
      <4>2. Live(NoRecord) = NoRecord
        BY DEF Live
      <4> QED
        BY <2>2, <4>1, <4>2, KeyFacts
    <3>4. Resume(map[ConvKey].step) = Resume(kept')
      <4>1. conv.i \in 0..(Steps - 1) /\ turn \in 0..Steps /\ Steps \in Nat \ {0}
            /\ conv.pc \in {"off", "waiting", "saving", "finishing"}
        BY <1>1, FsmAssumption DEF FsmTypeOK
      <4>2. Resume(conv.i) = conv.i /\ Resume(Steps) = 0
        BY <4>1 DEF Resume
      <4> QED
        BY <1>1, <2>2, <3>2, <4>1, <4>2 DEF TalkInv, Place
    <3> QED
      BY <3>1, <3>3, <3>4 DEF KeptHeld, Resume
  <2> QED
    BY <1>4, <2>1, <2>2
<1> QED
  BY <1>6, <1>7, <1>8, <1>9, <1>10, <1>11, <1>12 DEF FsmInv, FileInv, TalkInv

LEMMA FsmReload ==
  ASSUME FsmInv, now \in 0..MaxTime, now' = now, Reload
  PROVE  FsmInv'
<1> DEFINE back == CASE backend = "redis" -> map
                     [] backend = "memory" -> [k \in StorageKeys |-> NoRecord]
                     [] backend = "file" ->
                          [k \in StorageKeys |-> IF IsExpired(disk[k]) THEN NoRecord ELSE disk[k]]
<1>1. FsmTypeOK /\ TalkLasts /\ KeptHeld /\ now \in Nat
  BY ClockBound DEF FsmInv, TalkInv
<1>2. /\ map' = back /\ order' = <<>>
      /\ lost' = {}
      /\ dirty' = FALSE /\ flushDue' = FALSE /\ closed' = FALSE /\ unwritten' = FALSE /\ late' = FALSE
      /\ call' = [c \in Calls |-> NotCalled] /\ conv' = NoTalk /\ turn' = kept
      /\ want' = [k \in FsmKeys |-> [data |-> back[k].data, due |-> back[k].exp]]
      /\ UNCHANGED <<now, backend, disk, version, torn, kept>>
  BY Zenon DEF Reload
<1>3. /\ back \in [StorageKeys -> Records]
      /\ \A k \in StorageKeys : back[k] \in {map[k], NoRecord, disk[k]}
      /\ backend = "file" => \A k \in StorageKeys : back[k] = Live(disk[k])
      /\ backend = "memory" => \A k \in StorageKeys : back[k] = NoRecord
      /\ backend = "redis" => back = map
  <2>1. CASE backend = "redis"
    BY <1>1, <2>1 DEF FsmTypeOK
  <2>2. CASE backend = "memory"
    BY <1>1, <2>2, NoRecordFacts
  <2>3. CASE backend = "file"
    BY <1>1, <2>3, NoRecordFacts DEF FsmTypeOK, Live
  <2> QED
    BY <1>1, <2>1, <2>2, <2>3 DEF FsmTypeOK
<1> HIDE DEF back
<1>4. \A k \in FsmKeys : back[k].data \in SUBSET Calls /\ back[k].exp \in Nat
  BY <1>3, KeyFacts DEF Records
<1>5. /\ want' \in [FsmKeys -> [data : SUBSET Calls, due : Nat]]
      /\ \A k \in FsmKeys : want'[k].data = back[k].data /\ want'[k].due = back[k].exp
  BY <1>2, <1>4
<1>6. /\ NotCalled \in [pc : {"idle", "deleting", "loaded", "done"}, got : Records, ver : Nat]
      /\ NotCalled.pc = "idle"
  BY NoRecordFacts DEF NotCalled
<1>7. KeptHeld' /\ Resume(map'[ConvKey].step) = Resume(kept)
  <2>1. backend' = backend /\ kept' = kept /\ disk' = disk /\ map'[ConvKey] = back[ConvKey]
    BY <1>2
  <2>2. CASE backend = "redis"
    BY <1>1, <1>3, <2>1, <2>2 DEF KeptHeld, Resume
  <2>3. CASE backend = "memory"
    BY <1>1, <1>3, <2>1, <2>3, KeyFacts, NoRecordFacts DEF KeptHeld, Resume
  <2>4. CASE backend = "file"
    <3>1. disk[ConvKey] = NoRecord \/ disk[ConvKey].exp > MaxTime
      BY <1>1 DEF TalkLasts
    <3>2. MaxTime \in Nat /\ disk[ConvKey].exp \in Nat
      BY <1>1, KeyFacts, ClockBound DEF FsmTypeOK, Records
    <3>3. back[ConvKey] = disk[ConvKey]
      BY <1>1, <1>3, <2>4, <3>1, <3>2, KeyFacts DEF Live, IsExpired
    <3> QED
      BY <1>1, <2>1, <2>4, <3>3 DEF KeptHeld, Resume
  <2> QED
    BY <1>1, <2>2, <2>3, <2>4 DEF FsmTypeOK
<1>8. FsmTypeOK'
  <2>1. /\ order' \in Seq(StorageKeys) /\ lost' \subseteq StorageKeys
        /\ turn' \in 0..Steps /\ kept' \in 0..Steps
        /\ call' \in [Calls -> [pc : {"idle", "deleting", "loaded", "done"}, got : Records, ver : Nat]]
    BY <1>1, <1>2, <1>6 DEF FsmTypeOK
  <2> QED
    BY <1>1, <1>2, <1>3, <1>5, <2>1, NoTalkFacts DEF FsmTypeOK
<1>9. FileInv'
  <2>1. backend = "file" => \A k \in StorageKeys : Live(map'[k]) = Live(disk[k])
    <3>1. disk \in [StorageKeys -> Records]
      BY <1>1 DEF FsmTypeOK
    <3> QED
      BY <1>1, <1>2, <1>3, <3>1, LiveFacts
  <2>2. CleanIsWritten'
    BY <1>2, <2>1 DEF CleanIsWritten, Live, IsExpired
  <2> QED
    BY <1>2, <2>2 DEF FileInv, DirtyIsDue, ClosedIsFlushed
<1>10. OrderHeld'
  BY <1>2 DEF OrderHeld
<1>11. LostIsGone' /\ OnlyMemoryForgets'
  BY <1>2 DEF LostIsGone, OnlyMemoryForgets
<1>12. SerialRecords'
  BY <1>2, <1>5, KeyFacts DEF SerialRecords, Agrees
<1>13. \A c \in Calls : call'[c].pc = "idle"
  BY <1>2, <1>6
<1>14. SerialCopies' /\ DeletesInRedis'
  BY <1>13 DEF SerialCopies, DeletesInRedis
<1>15. TalkLasts'
  BY <1>1, <1>2, <1>3, KeyFacts DEF TalkLasts
<1>16. Place'
  BY <1>2, <1>7, NoTalkFacts DEF Place, Resume
<1> QED
  BY <1>7, <1>8, <1>9, <1>10, <1>11, <1>12, <1>14, <1>15, <1>16 DEF FsmInv, RecordInv, TalkInv

LEMMA FsmTime ==
  ASSUME FsmInv, now \in 0..MaxTime, now < MaxTime, now' = now + 1, UNCHANGED fsmVars
  PROVE  FsmInv'
<1>1. FsmTypeOK /\ FileInv /\ RecordInv /\ TalkInv /\ now \in Nat
  BY ClockBound DEF FsmInv
<1>2. FsmTypeOK'
  BY <1>1 DEF FsmTypeOK, fsmVars
<1>3. OrderHeld' /\ LostIsGone' /\ DeletesInRedis'
  BY <1>1 DEF RecordInv, OrderHeld, Held, LostIsGone, DeletesInRedis, fsmVars
<1>4. \A k \in FsmKeys : want[k].due \in Nat
  BY <1>1 DEF FsmTypeOK
<1>5. SerialRecords'
  BY <1>1, <1>4 DEF RecordInv, SerialRecords, Agrees, fsmVars
<1>6. SerialCopies'
  BY <1>1, <1>4, KeyFacts DEF RecordInv, SerialCopies, CopyAgrees, fsmVars
<1>7. FileInv'
  <2>1. ASSUME NEW k \in StorageKeys, Live(map[k]) = Live(disk[k])
        PROVE  Live(map[k])' = Live(disk[k])'
    <3>1. map[k].exp \in Nat /\ disk[k].exp \in Nat
      BY <1>1 DEF FsmTypeOK, Records
    <3> QED
      BY <1>1, <2>1, <3>1, NoRecordFacts DEF Live, IsExpired, fsmVars
  <2> QED
    BY <1>1, <2>1 DEF FileInv, CleanIsWritten, DirtyIsDue, ClosedIsFlushed, fsmVars
<1>8. TalkInv'
  BY <1>1 DEF TalkInv, TalkLasts, KeptHeld, OnlyMemoryForgets, Place, Resume, fsmVars
<1> QED
  BY <1>1, <1>2, <1>3, <1>5, <1>6, <1>7, <1>8 DEF FsmInv, RecordInv

LEMMA FsmSame ==
  ASSUME FsmInv, UNCHANGED <<now, fsmVars>>
  PROVE  FsmInv'
<1>1. FsmTypeOK /\ FileInv /\ RecordInv /\ TalkInv
  BY DEF FsmInv
<1>2. FsmTypeOK'
  BY <1>1 DEF FsmTypeOK, fsmVars
<1>3. RecordInv'
  BY <1>1 DEF RecordInv, OrderHeld, Held, LostIsGone, SerialRecords, Agrees, SerialCopies, CopyAgrees,
             DeletesInRedis, fsmVars
<1>4. FileInv'
  BY <1>1 DEF FileInv, CleanIsWritten, DirtyIsDue, ClosedIsFlushed, Live, IsExpired, fsmVars
<1>5. TalkInv'
  BY <1>1 DEF TalkInv, TalkLasts, KeptHeld, OnlyMemoryForgets, Place, Resume, fsmVars
<1> QED
  BY <1>2, <1>3, <1>4, <1>5 DEF FsmInv

LEMMA FsmEmpty ==
  ASSUME FsmInit, now = 0, backend \in {"memory", "file", "redis"}
  PROVE  FsmInv
<1>1. /\ NotCalled \in [pc : {"idle", "deleting", "loaded", "done"}, got : Records, ver : Nat]
      /\ NotCalled.pc = "idle"
  BY NoRecordFacts DEF NotCalled
<1>2. call \in [Calls -> [pc : {"idle", "deleting", "loaded", "done"}, got : Records, ver : Nat]]
      /\ \A c \in Calls : call[c].pc = "idle"
  BY <1>1 DEF FsmInit
<1>3. /\ map \in [StorageKeys -> Records] /\ disk \in [StorageKeys -> Records]
      /\ \A k \in StorageKeys : map[k] = NoRecord /\ disk[k] = NoRecord
  BY NoRecordFacts DEF FsmInit
<1>4. want \in [FsmKeys -> [data : SUBSET Calls, due : Nat]] /\ \A k \in FsmKeys : want[k].due = 0
  BY DEF FsmInit
<1>5. FsmTypeOK
  <2>1. order \in Seq(StorageKeys) /\ version \in [FsmKeys -> Nat]
    BY DEF FsmInit
  <2>2. turn \in 0..Steps /\ kept \in 0..Steps
    BY FsmAssumption DEF FsmInit
  <2> QED
    BY <1>2, <1>3, <1>4, <2>1, <2>2, NoTalkFacts DEF FsmInit, FsmTypeOK
<1>6. FileInv
  BY <1>3 DEF FsmInit, FileInv, CleanIsWritten, DirtyIsDue, ClosedIsFlushed
<1>7. RecordInv
  BY <1>2, <1>3, <1>4, KeyFacts DEF FsmInit, RecordInv, OrderHeld, LostIsGone, SerialRecords, Agrees,
     SerialCopies, DeletesInRedis
<1>8. TalkInv
  <2>1. Resume(map[ConvKey].step) = 0
    BY <1>3, KeyFacts, NoRecordFacts DEF Resume
  <2>2. Resume(0) = 0
    BY FsmAssumption DEF Resume
  <2> QED
    BY <1>3, <2>1, <2>2, KeyFacts, NoTalkFacts DEF FsmInit, TalkInv, TalkLasts, KeptHeld, OnlyMemoryForgets, Place, Resume
<1> QED
  BY <1>5, <1>6, <1>7, <1>8 DEF FsmInv

-----------------------------------------------------------------------------
(* The steps of start(), stop() and run() keep the bot's invariant. *)

LEMMA SchedSame ==
  ASSUME SchedTypeOK, SchedInv, UNCHANGED schedVars
  PROVE  SchedTypeOK' /\ SchedInv'
BY DEF SchedTypeOK, SchedInv, Counted, Spaced, Visited, PrunesOnce, schedVars

(* A step that changes the bot alone. *)
LEMMA LifeStep ==
  ASSUME IInv, UNCHANGED <<now, schedVars, fsmVars, setup>>,
         bot' \in Bots, starts' \in Nat, crashes' \in Nat, Fresh', Down', ClosedAtEnd'
  PROVE  IInv'
<1>1. SchedTypeOK' /\ SchedInv'
  BY SchedSame DEF IInv, TypeOK
<1>2. FsmInv'
  BY FsmSame DEF IInv
<1>3. NoTimer'
  BY DEF IInv, LifeInv, NoTimer, schedVars
<1> QED
  BY <1>1, <1>2, <1>3 DEF IInv, LifeInv, TypeOK, FsmInv

LEMMA StartSteps ==
  ASSUME IInv,
         StartCall \/ StartThrows \/ PluginsInstalled \/ VerifyCrypto \/ ClientStart \/ StartMarks \/ HooksDone
  PROVE  IInv'
<1>1. UNCHANGED <<now, schedVars, fsmVars, setup>>
  BY DEF StartCall, StartThrows, PluginsInstalled, VerifyCrypto, ClientStart, StartMarks, HooksDone, Step
<1>2. bot \in Bots /\ starts \in Nat /\ crashes \in Nat /\ setup.crypto \in BOOLEAN
  BY SetupAssumption DEF IInv, TypeOK
<1>3. Fresh /\ Down /\ ClosedAtEnd
  BY DEF IInv, LifeInv
<1>4. UNCHANGED <<stopped, closed>>
  BY <1>1 DEF schedVars, fsmVars
<1>5. starts' \in Nat /\ crashes' \in Nat
  BY <1>2 DEF StartCall, StartThrows, PluginsInstalled, VerifyCrypto, ClientStart, StartMarks, HooksDone, Step
<1>6. CASE StartCall
  <2>1. bot' = [bot EXCEPT !.starting = "plugins", !.stopping = FALSE, !.again = @ \/ bot.stopping]
        /\ bot.starting = "no"
    BY <1>6 DEF StartCall
  <2>2. bot' \in Bots
    <3>1. (bot.again \/ bot.stopping) \in BOOLEAN
      OBVIOUS
    <3> DEFINE a == bot.again \/ bot.stopping
    <3>2. a \in BOOLEAN /\ bot' = [bot EXCEPT !.starting = "plugins", !.stopping = FALSE, !.again = a]
      BY <2>1, <3>1
    <3> HIDE DEF a
    <3> QED
      BY <1>2, <3>2 DEF Bots
  <2>3. Fresh' /\ Down' /\ ClosedAtEnd'
    BY <1>1, <1>2, <1>3, <1>4, <2>1 DEF Fresh, Down, ClosedAtEnd, Bots
  <2> QED
    BY <1>1, <1>5, <2>2, <2>3, LifeStep
<1>7. CASE StartThrows \/ PluginsInstalled \/ VerifyCrypto
  <2>1. PICK s \in {"no", "crypto", "client"} :
             /\ bot' = [bot EXCEPT !.starting = s] \/ bot' = [bot EXCEPT !.starting = s, !.ready = setup.crypto]
             /\ bot.starting # "no"
    BY <1>7 DEF StartThrows, PluginsInstalled, VerifyCrypto, Step
  <2>2. bot' \in Bots /\ Fresh' /\ Down' /\ ClosedAtEnd'
    <3>1. CASE bot' = [bot EXCEPT !.starting = s]
      <4>1. bot' \in Bots
        BY <1>2, <3>1 DEF Bots
      <4>2. Fresh' /\ Down' /\ ClosedAtEnd'
        BY <1>1, <1>2, <1>3, <1>4, <2>1, <3>1 DEF Fresh, Down, ClosedAtEnd, Bots
      <4> QED
        BY <4>1, <4>2
    <3>2. CASE bot' = [bot EXCEPT !.starting = s, !.ready = setup.crypto]
      <4>1. bot' \in Bots
        BY <1>2, <3>2 DEF Bots
      <4>2. Fresh' /\ Down' /\ ClosedAtEnd'
        BY <1>1, <1>2, <1>3, <1>4, <2>1, <3>2 DEF Fresh, Down, ClosedAtEnd, Bots
      <4> QED
        BY <4>1, <4>2
    <3> QED
      BY <2>1, <3>1, <3>2
  <2> QED
    BY <1>1, <1>5, <2>2, LifeStep
<1>8. CASE ClientStart
  <2>1. bot' = [bot EXCEPT !.starting = "mark", !.loop = "up", !.fed = TRUE] /\ bot.starting = "client"
    BY <1>8 DEF ClientStart, Step
  <2>2. bot' \in Bots
    BY <1>2, <2>1 DEF Bots
  <2>3. Fresh' /\ Down' /\ ClosedAtEnd'
    BY <1>1, <1>2, <1>3, <1>4, <2>1 DEF Fresh, Down, ClosedAtEnd, Bots
  <2> QED
    BY <1>1, <1>5, <2>2, <2>3, LifeStep
<1>9. CASE StartMarks
  <2>1. bot' = [bot EXCEPT !.starting = "hooks", !.started = TRUE] /\ bot.starting = "mark"
    BY <1>9 DEF StartMarks, Step
  <2>2. bot' \in Bots
    BY <1>2, <2>1 DEF Bots
  <2>3. Fresh' /\ Down' /\ ClosedAtEnd'
    BY <1>1, <1>2, <1>3, <1>4, <2>1 DEF Fresh, Down, ClosedAtEnd, Bots
  <2> QED
    BY <1>1, <1>5, <2>2, <2>3, LifeStep
<1>10. CASE HooksDone
  <2>1. bot' = [bot EXCEPT !.starting = "rest", !.watch = TRUE] /\ bot.starting = "hooks"
    BY <1>10 DEF HooksDone, Step
  <2>2. bot' \in Bots
    BY <1>2, <2>1 DEF Bots
  <2>3. Fresh' /\ Down' /\ ClosedAtEnd'
    BY <1>1, <1>2, <1>3, <1>4, <2>1 DEF Fresh, Down, ClosedAtEnd, Bots
  <2> QED
    BY <1>1, <1>5, <2>2, <2>3, LifeStep
<1> QED
  BY <1>6, <1>7, <1>8, <1>9, <1>10

LEMMA StopSteps ==
  ASSUME IInv, OnFatal \/ StopCall \/ RunStops \/ Drained \/ CryptoClosed \/ StopReturns \/ Signal \/ Exit
  PROVE  IInv'
<1>1. UNCHANGED <<now, schedVars, fsmVars, setup, starts, crashes>>
  BY DEF OnFatal, StopCall, RunStops, Drained, CryptoClosed, StopReturns, Signal, Exit, Step
<1>2. bot \in Bots /\ starts' \in Nat /\ crashes' \in Nat
  BY <1>1 DEF IInv, TypeOK
<1>3. Fresh /\ Down /\ ClosedAtEnd
  BY DEF IInv, LifeInv
<1>4. UNCHANGED <<stopped, closed>>
  BY <1>1 DEF schedVars, fsmVars
<1>5. bot' \in Bots /\ Fresh' /\ Down' /\ ClosedAtEnd'
  <2>1. CASE OnFatal
    <3>1. bot' = [bot EXCEPT !.loop = "fatal", !.started = FALSE] /\ bot.starting # "mark"
      BY <2>1 DEF OnFatal, Step
    <3>2. bot' \in Bots
      BY <1>2, <3>1 DEF Bots
    <3>3. Fresh' /\ Down' /\ ClosedAtEnd'
      BY <1>1, <1>2, <1>3, <1>4, <3>1 DEF Fresh, Down, ClosedAtEnd, Bots
    <3> QED
      BY <3>2, <3>3
  <2>2. ASSUME NEW e \in {"no", "signalled", "stopping", "stopped", "closed", "exited"},
               e = bot.ending \/ e = "stopping", bot' = [Leaving EXCEPT !.ending = e]
        PROVE  bot' \in Bots /\ Fresh' /\ Down' /\ ClosedAtEnd'
    <3> DEFINE c == bot.crossed \/ bot.starting # "no"
    <3>1. c \in BOOLEAN
      OBVIOUS
    <3>2. bot' = [bot EXCEPT !.leaving = "hooks", !.stopping = TRUE, !.watch = FALSE, !.crossed = c, !.ending = e]
      BY <1>2, <2>2 DEF Leaving, Bots
    <3>3. c <=> (bot.crossed \/ bot.starting # "no")
      OBVIOUS
    <3> HIDE DEF c
    <3>4. /\ bot' \in Bots
          /\ bot'.leaving = "hooks" /\ bot'.stopping = TRUE /\ bot'.watch = FALSE
          /\ bot'.ending = e /\ bot'.starting = bot.starting /\ bot'.crossed = c
      BY <1>2, <3>1, <3>2 DEF Bots
    <3>5. Fresh' /\ ClosedAtEnd'
      BY <1>3, <1>4, <2>2, <3>4 DEF Fresh, ClosedAtEnd
    <3>6. Down'
      BY <3>3, <3>4 DEF Down
    <3> QED
      BY <3>4, <3>5, <3>6
  <2>3. CASE Drained
    <3>1. bot' = [bot EXCEPT !.leaving = "crypto"] /\ bot.leaving = "draining"
      BY <2>3 DEF Drained, Step
    <3> QED
      BY <1>1, <1>2, <1>3, <1>4, <3>1 DEF Fresh, Down, ClosedAtEnd, Bots
  <2>4. CASE CryptoClosed
    <3>1. bot' = [bot EXCEPT !.leaving = "release", !.crypto = FALSE] /\ bot.leaving = "crypto"
      BY <2>4 DEF CryptoClosed, Step
    <3> QED
      BY <1>1, <1>2, <1>3, <1>4, <3>1 DEF Fresh, Down, ClosedAtEnd, Bots
  <2>5. CASE StopReturns
    <3>1. bot' = [bot EXCEPT !.leaving = "no", !.lock = FALSE, !.started = FALSE] /\ bot.leaving = "release"
      BY <2>5 DEF StopReturns, Step
    <3> QED
      BY <1>1, <1>2, <1>3, <1>4, <3>1 DEF Fresh, Down, ClosedAtEnd, Bots
  <2>6. CASE Signal
    <3>1. bot' = [bot EXCEPT !.ending = "signalled"]
      BY <2>6 DEF Signal, Step
    <3> QED
      BY <1>1, <1>2, <1>3, <1>4, <3>1 DEF Fresh, Down, ClosedAtEnd, Bots
  <2>7. CASE Exit
    <3>1. bot' = [bot EXCEPT !.ending = "exited"] /\ bot.ending = "closed"
      BY <2>7 DEF Exit, Step
    <3> QED
      BY <1>1, <1>2, <1>3, <1>4, <3>1 DEF Fresh, Down, ClosedAtEnd, Bots
  <2>8. CASE StopCall
    <3>1. bot' = [Leaving EXCEPT !.ending = bot.ending]
      BY <1>2, <2>8 DEF StopCall, Step, Leaving, Bots
    <3> QED
      BY <1>2, <2>2, <3>1 DEF Bots
  <2>9. CASE RunStops
    <3>1. CASE bot.stopping
      <4>1. bot' = [bot EXCEPT !.ending = "stopped"]
        BY <2>9, <3>1 DEF RunStops, Step
      <4> QED
        BY <1>1, <1>2, <1>3, <1>4, <4>1 DEF Fresh, Down, ClosedAtEnd, Bots
    <3>2. CASE ~bot.stopping
      <4>1. bot' = [Leaving EXCEPT !.ending = "stopping"]
        BY <2>9, <3>2 DEF RunStops, Step
      <4> QED
        BY <2>2, <4>1
    <3> QED
      BY <3>1, <3>2
  <2> QED
    BY <2>1, <2>3, <2>4, <2>5, <2>6, <2>7, <2>8, <2>9
<1> QED
  BY <1>1, <1>2, <1>5, LifeStep

(* A step of the scheduler, and of the bot with it. *)
LEMMA WithScheduler ==
  ASSUME IInv, UNCHANGED <<now, fsmVars, setup, starts, crashes>>,
         SchedTypeOK', SchedInv', bot' \in Bots, Fresh', Down', NoTimer', ClosedAtEnd'
  PROVE  IInv'
<1>1. FsmInv'
  BY FsmSame DEF IInv
<1> QED
  BY <1>1 DEF IInv, LifeInv, TypeOK, FsmInv

LEMMA StopPartsStep == ASSUME IInv, StopParts PROVE IInv'
<1>1. /\ bot.leaving = "hooks" /\ SchedStop
      /\ bot' = [bot EXCEPT !.leaving = "draining", !.queue = FALSE, !.loop = "none"]
      /\ UNCHANGED <<now, fsmVars, setup, starts, crashes>>
  BY DEF StopParts
<1>2. bot \in Bots /\ SchedTypeOK /\ SchedInv /\ Fresh /\ Down /\ ClosedAtEnd
  BY DEF IInv, TypeOK, LifeInv
<1>3. SchedTypeOK' /\ SchedInv'
  BY <1>1, <1>2, SchedDrop
<1>4. stopped' = TRUE /\ timer' = FALSE /\ closed' = closed
  BY <1>1 DEF SchedStop, fsmVars
<1>5. bot' \in Bots /\ Fresh' /\ Down' /\ ClosedAtEnd'
  BY <1>1, <1>2, <1>4 DEF Bots, Fresh, Down, ClosedAtEnd
<1>6. NoTimer'
  BY <1>4 DEF NoTimer
<1> QED
  BY <1>1, <1>3, <1>5, <1>6, WithScheduler

(* A job is added; a stopped scheduler sets no timer for it. *)
LEMMA AddJobStep ==
  ASSUME IInv, NEW j \in Jobs, AddJob(j), begun[j] = 0, j \notin jobs \cup dropped
  PROVE  SchedTypeOK' /\ SchedInv' /\ NoTimer' /\ stopped' = stopped
<1>1. SchedTypeOK /\ SchedInv /\ NoTimer /\ now \in Nat
  BY ClockBound DEF IInv, TypeOK, LifeInv
<1>2. SchedTypeOK' /\ SchedInv'
  BY <1>1, SchedAdd
<1>3. timer' = (timer \/ ~stopped) /\ stopped' = stopped /\ stopped \in BOOLEAN /\ timer \in BOOLEAN
  BY <1>1 DEF AddJob, SchedTypeOK
<1>4. NoTimer'
  <2>1. CASE stopped = TRUE
    <3>1. (timer \/ ~stopped) = FALSE
      BY <1>1, <1>3, <2>1 DEF NoTimer
    <3> QED
      BY <1>3, <3>1 DEF NoTimer
  <2>2. CASE stopped = FALSE
    BY <1>3, <2>2 DEF NoTimer
  <2> QED
    BY <1>3, <2>1, <2>2
<1> QED
  BY <1>2, <1>3, <1>4

LEMMA StartReturnsStep == ASSUME IInv, StartReturns PROVE IInv'
<1>1. /\ bot.starting = "rest" /\ bot' = [bot EXCEPT !.starting = "no"]
      /\ UNCHANGED <<now, fsmVars, setup, starts, crashes>>
  BY DEF StartReturns
<1>2. bot \in Bots /\ SchedTypeOK /\ SchedInv /\ Fresh /\ Down /\ ClosedAtEnd /\ NoTimer
  BY DEF IInv, TypeOK, LifeInv
<1>3. SchedTypeOK' /\ SchedInv' /\ NoTimer' /\ stopped' = stopped
  <2>1. CASE PruneJob \in setup.jobs \ (jobs \cup dropped)
    <3>1. PruneJob \in Jobs /\ AddJob(PruneJob)
      BY <2>1, SetupAssumption DEF StartReturns
    <3>2. begun[PruneJob] = 0
      BY <1>2, <2>1, <3>1 DEF SchedInv, PrunesOnce, SchedTypeOK
    <3> QED
      BY <2>1, <3>1, <3>2, AddJobStep
  <2>2. CASE PruneJob \notin setup.jobs \ (jobs \cup dropped)
    <3>1. UNCHANGED schedVars
      BY <2>2 DEF StartReturns
    <3> QED
      BY <1>2, <3>1, SchedSame DEF NoTimer, schedVars
  <2> QED
    BY <2>1, <2>2
<1>4. bot' \in Bots /\ Fresh' /\ Down' /\ ClosedAtEnd'
  BY <1>1, <1>2, <1>3 DEF Bots, Fresh, Down, ClosedAtEnd, fsmVars
<1> QED
  BY <1>1, <1>3, <1>4, WithScheduler

LEMMA JobSteps ==
  ASSUME IInv, TimerTick \/ \E j \in Jobs : ProgramAdds(j) \/ JobStep(j)
  PROVE  IInv'
<1>1. UNCHANGED <<now, fsmVars, setup, starts, crashes>> /\ bot' = bot
  BY DEF TimerTick, ProgramAdds, JobStep, lifeVars
<1>2. bot \in Bots /\ SchedTypeOK /\ SchedInv /\ Fresh /\ Down /\ ClosedAtEnd /\ NoTimer /\ now \in Nat
  BY ClockBound DEF IInv, TypeOK, LifeInv
<1>3. SchedTypeOK' /\ SchedInv' /\ NoTimer' /\ stopped' = stopped
  <2>1. CASE TimerTick
    <3>1. Tick
      BY <2>1 DEF TimerTick
    <3> QED
      BY <1>2, <3>1, SchedTick DEF Tick, NoTimer
  <2>2. ASSUME NEW j \in Jobs, ProgramAdds(j) PROVE SchedTypeOK' /\ SchedInv' /\ NoTimer' /\ stopped' = stopped
    BY <2>2, AddJobStep DEF ProgramAdds
  <2>3. ASSUME NEW j \in Jobs, JobStep(j) PROVE SchedTypeOK' /\ SchedInv' /\ NoTimer' /\ stopped' = stopped
    <3>1. CASE Cancel(j)
      BY <1>2, <3>1, SchedDrop DEF Cancel, NoTimer
    <3>2. CASE Visit(j)
      BY <1>2, <3>2, SchedVisit DEF Visit, NoTimer
    <3>3. CASE JobEnds(j)
      BY <1>2, <3>3, SchedEnds DEF JobEnds, NoTimer
    <3> QED
      BY <2>3, <3>1, <3>2, <3>3 DEF JobStep
  <2> QED
    BY <2>1, <2>2, <2>3
<1>4. bot' \in Bots /\ Fresh' /\ Down' /\ ClosedAtEnd'
  BY <1>1, <1>2, <1>3 DEF Bots, Fresh, Down, ClosedAtEnd, fsmVars
<1> QED
  BY <1>1, <1>3, <1>4, WithScheduler

(* A step of the storage, and of the clock. *)
LEMMA WithStorage ==
  ASSUME IInv, UNCHANGED <<schedVars, setup, starts, crashes>>, now' \in 0..MaxTime,
         FsmInv', bot' \in Bots, Fresh', Down', ClosedAtEnd'
  PROVE  IInv'
<1>1. SchedTypeOK' /\ SchedInv' /\ NoTimer'
  BY SchedSame DEF IInv, TypeOK, LifeInv, NoTimer, schedVars
<1> QED
  BY <1>1 DEF IInv, LifeInv, TypeOK, FsmInv

LEMMA FsmSteps ==
  ASSUME IInv, TimePasses \/ ConvStep \/ (\E c \in Calls : FsmStep(c)) \/ \E ok \in BOOLEAN : FlushStep(ok)
  PROVE  IInv'
<1>1. UNCHANGED <<schedVars, setup, starts, crashes>> /\ bot' = bot
  BY DEF TimePasses, ConvStep, FsmStep, FlushStep, lifeVars
<1>2. bot \in Bots /\ Fresh /\ Down /\ ClosedAtEnd /\ FsmInv /\ now \in 0..MaxTime
  BY DEF IInv, TypeOK, LifeInv
<1>3. FsmInv' /\ closed' = closed /\ now' \in 0..MaxTime
  <2>1. CASE TimePasses
    <3>1. now < MaxTime /\ now' = now + 1 /\ UNCHANGED fsmVars
      BY <2>1 DEF TimePasses
    <3>2. now' \in 0..MaxTime
      BY <1>2, <3>1, ClockBound
    <3> QED
      BY <1>2, <3>1, <3>2, FsmTime DEF fsmVars
  <2>2. CASE ConvStep
    <3>1. now' = now
      BY <2>2 DEF ConvStep
    <3>2. CASE ConvRun
      BY <1>2, <3>1, <3>2, TalkRun DEF ConvRun
    <3>3. ASSUME NEW cancel \in BOOLEAN, ConvHandle(cancel) PROVE FsmInv' /\ closed' = closed
      BY <1>2, <3>1, <3>3, TalkHandle DEF ConvHandle
    <3>4. CASE ConvEnds
      BY <1>2, <3>1, <3>4, TalkEnds DEF ConvEnds
    <3>5. CASE ConvSave
      BY <1>2, <3>1, <3>5, TalkSave DEF ConvSave
    <3>6. CASE ConvFinish
      BY <1>2, <3>1, <3>6, TalkFinish DEF ConvFinish
    <3> QED
      BY <1>2, <2>2, <3>1, <3>2, <3>3, <3>4, <3>5, <3>6 DEF ConvStep
  <2>3. ASSUME NEW c \in Calls, FsmStep(c) PROVE FsmInv' /\ closed' = closed /\ now' \in 0..MaxTime
    <3>1. now' = now
      BY <2>3 DEF FsmStep
    <3>2. CASE Load(c)
      BY <1>2, <3>1, <3>2, FsmLoad DEF Load
    <3>3. CASE LoadExpired(c)
      BY <1>2, <3>1, <3>3, FsmLoadExpired DEF LoadExpired
    <3>4. CASE DeleteExpired(c)
      BY <1>2, <3>1, <3>4, FsmDeleteExpired DEF DeleteExpired
    <3>5. CASE Persist(c)
      BY <1>2, <3>1, <3>5, FsmPersist DEF Persist
    <3>6. CASE Clear(c)
      BY <1>2, <3>1, <3>6, FsmClear DEF Clear
    <3> QED
      BY <2>3, <3>2, <3>3, <3>4, <3>5, <3>6 DEF FsmStep
  <2>4. ASSUME NEW ok \in BOOLEAN, FlushStep(ok) PROVE FsmInv' /\ closed' = closed /\ now' \in 0..MaxTime
    <3>1. now' = now /\ WriteFile(ok) /\ closed' = closed
      BY <2>4 DEF FlushStep, Flush
    <3>2. closed' \in BOOLEAN
      BY <1>2, <3>1 DEF FsmInv, FsmTypeOK
    <3> QED
      BY <1>2, <3>1, <3>2, FileWritten
  <2> QED
    BY <2>1, <2>2, <2>3, <2>4
<1>4. stopped' = stopped
  BY <1>1 DEF schedVars
<1>5. bot' \in Bots /\ Fresh' /\ Down' /\ ClosedAtEnd'
  BY <1>1, <1>2, <1>3, <1>4 DEF Fresh, Down, ClosedAtEnd
<1> QED
  BY <1>1, <1>3, <1>5, WithStorage

LEMMA CloseStep == ASSUME IInv, NEW ok \in BOOLEAN, CloseDispatcher(ok) PROVE IInv'
<1>1. /\ closed' = TRUE /\ WriteFile(ok) /\ bot' = [bot EXCEPT !.ending = "closed"]
      /\ UNCHANGED <<now, schedVars, setup, starts, crashes>>
  BY DEF CloseDispatcher, CloseStorage
<1>2. bot \in Bots /\ Fresh /\ Down /\ ClosedAtEnd /\ FsmInv /\ now \in 0..MaxTime
  BY DEF IInv, TypeOK, LifeInv
<1>3. FsmInv'
  BY <1>1, <1>2, FileWritten
<1>4. bot' \in Bots /\ Fresh' /\ Down' /\ ClosedAtEnd'
  BY <1>1, <1>2 DEF Bots, Fresh, Down, ClosedAtEnd, schedVars
<1> QED
  BY <1>1, <1>2, <1>3, <1>4, WithStorage

LEMMA NewBotFacts ==
  ASSUME setup \in Setups
  PROVE  /\ NewBot \in Bots
         /\ NewBot.leaving = "no" /\ NewBot.starting = "no" /\ NewBot.ending = "no"
         /\ NewBot.queue /\ NewBot.lock /\ NewBot.crypto = setup.crypto
         /\ ~NewBot.started /\ ~NewBot.stopping
<1>1. setup.crypto \in BOOLEAN
  BY SetupAssumption
<1> QED
  BY <1>1 DEF NewBot, Bots

LEMMA CrashStep == ASSUME IInv, CrashRestart PROVE IInv'
<1>1. /\ bot' = NewBot /\ starts' = 0 /\ crashes' = crashes + 1 /\ Reload /\ SchedReset
      /\ UNCHANGED <<now, setup>>
  BY DEF CrashRestart
<1>2. setup \in Setups /\ crashes \in Nat /\ FsmInv /\ now \in 0..MaxTime
  BY DEF IInv, TypeOK
<1>3. FsmInv'
  BY <1>1, <1>2, FsmReload
<1>4. SchedTypeOK' /\ SchedInv'
  BY <1>1, SchedRenewed
<1>5. NoTimer'
  BY <1>1 DEF SchedReset, NoTimer
<1>6. bot' \in Bots /\ Fresh' /\ Down' /\ ClosedAtEnd'
  BY <1>1, <1>2, NewBotFacts DEF Fresh, Down, ClosedAtEnd
<1> QED
  BY <1>1, <1>2, <1>3, <1>4, <1>5, <1>6 DEF IInv, LifeInv, TypeOK, FsmInv

LEMMA InitHolds == Init => IInv
<1> SUFFICES ASSUME Init PROVE IInv
  OBVIOUS
<1>1. now = 0 /\ SchedInit /\ FsmInit /\ setup \in Setups /\ bot = NewBot /\ starts = 0 /\ crashes = 0
  BY DEF Init
<1>2. backend \in {"memory", "file", "redis"}
  BY SetupAssumption DEF Init
<1>3. FsmInv
  BY <1>1, <1>2, FsmEmpty
<1>4. SchedTypeOK /\ SchedInv
  BY <1>1, SchedEmpty
<1>5. NoTimer
  BY <1>1 DEF SchedInit, NoTimer
<1>6. bot \in Bots /\ Fresh /\ Down /\ ClosedAtEnd
  BY <1>1, NewBotFacts DEF Fresh, Down, ClosedAtEnd
<1>7. now \in 0..MaxTime
  BY <1>1, ClockBound
<1> QED
  BY <1>1, <1>3, <1>4, <1>5, <1>6, <1>7 DEF IInv, LifeInv, TypeOK, FsmInv

LEMMA StepHolds == IInv /\ [Next]_allVars => IInv'
<1> SUFFICES ASSUME IInv, [Next]_allVars PROVE IInv'
  OBVIOUS
<1>1. CASE UNCHANGED allVars
  <2>1. /\ UNCHANGED <<now, schedVars, fsmVars, setup>> /\ bot' = bot /\ starts' = starts /\ crashes' = crashes
        /\ closed' = closed /\ stopped' = stopped
    BY <1>1 DEF allVars, lifeVars, schedVars, fsmVars
  <2>2. bot' \in Bots /\ starts' \in Nat /\ crashes' \in Nat /\ Fresh' /\ Down' /\ ClosedAtEnd'
    BY <2>1 DEF IInv, TypeOK, LifeInv, Fresh, Down, ClosedAtEnd
  <2> QED
    BY <2>1, <2>2, LifeStep
<1>2. CASE \/ StartCall \/ StartThrows \/ PluginsInstalled \/ VerifyCrypto \/ ClientStart \/ StartMarks
           \/ HooksDone
  BY <1>2, StartSteps
<1>3. CASE OnFatal \/ StopCall \/ RunStops \/ Drained \/ CryptoClosed \/ StopReturns \/ Signal \/ Exit
  BY <1>3, StopSteps
<1>4. CASE StartReturns
  BY <1>4, StartReturnsStep
<1>5. CASE StopParts
  BY <1>5, StopPartsStep
<1>6. CASE CrashRestart
  BY <1>6, CrashStep
<1>7. CASE TimerTick \/ \E j \in Jobs : ProgramAdds(j) \/ JobStep(j)
  BY <1>7, JobSteps
<1>8. ASSUME NEW ok \in BOOLEAN, CloseDispatcher(ok) PROVE IInv'
  BY <1>8, CloseStep
<1>9. CASE TimePasses \/ ConvStep \/ (\E c \in Calls : FsmStep(c)) \/ \E ok \in BOOLEAN : FlushStep(ok)
  BY <1>9, FsmSteps
<1> QED
  BY <1>1, <1>2, <1>3, <1>4, <1>5, <1>6, <1>7, <1>8, <1>9 DEF Next

(* The inductive invariant of the bot, its scheduler and its storage. *)
THEOREM InvariantHolds == Spec => []IInv
BY InitHolds, StepHolds, PTL DEF Spec

-----------------------------------------------------------------------------
(* getHealth() reports a bot as healthy only if its sync loop runs, its    *)
(* queue takes events, its crypto engine is open and the lock is held.     *)
THEOREM HonestHealth == Spec => []HealthIsHonest
<1>1. IInv => HealthIsHonest
  BY DEF IInv, LifeInv, Fresh, HealthIsHonest, HealthOk
<1> QED
  BY <1>1, InvariantHolds, PTL

(* After stop() no loop, watch timer or job timer is left, and the lock is *)
(* free, wherever in the bot's life it was called.                         *)
THEOREM StopLeavesNothing == Spec => []StopQuiets
<1>1. IInv => StopQuiets
  <2> SUFFICES ASSUME IInv, bot.stopping, bot.leaving = "no", ~bot.crossed
               PROVE  bot.loop # "up" /\ ~bot.watch /\ ~timer /\ ~bot.lock
    BY DEF StopQuiets
  <2> QED
    BY DEF IInv, LifeInv, Down, NoTimer
<1> QED
  BY <1>1, InvariantHolds, PTL

(* JsonFileStorage holds on to no change: it is in the file, or a timer    *)
(* will write it, and after run() it is in the file.                       *)
THEOREM FileKeepsUp == Spec => []NothingLeftUnwritten
<1>1. IInv => NothingLeftUnwritten
  <2> SUFFICES ASSUME IInv, backend = "file", ~unwritten, ~late, ~(Up /\ flushDue)
               PROVE  \A k \in StorageKeys : Found(k) = IF IsExpired(disk[k]) THEN NoRecord ELSE disk[k]
    BY DEF NothingLeftUnwritten
  <2>1. bot.ending = "exited" => closed
    BY DEF IInv, LifeInv, ClosedAtEnd
  <2>2. ~flushDue
    BY <2>1 DEF IInv, FsmInv, FileInv, ClosedIsFlushed, Up
  <2>3. ~dirty
    BY <2>2 DEF IInv, FsmInv, FileInv, DirtyIsDue
  <2> QED
    BY <2>3 DEF IInv, FsmInv, FileInv, CleanIsWritten, Live, Found
<1> QED
  BY <1>1, InvariantHolds, PTL

(* A dialog's record is what its calls wrote one after the other, if they  *)
(* did not overlap and it was not lost.                                    *)
THEOREM SerialCalls == Spec => []SerialIfAlone
<1>1. IInv => SerialIfAlone
  <2> SUFFICES ASSUME IInv, NEW k \in FsmKeys, k \notin torn \cup lost
               PROVE  Found(k).data = IF want[k].due > now THEN want[k].data ELSE {}
    BY DEF SerialIfAlone
  <2>1. Agrees(k)
    BY DEF IInv, FsmInv, RecordInv, SerialRecords
  <2>2. want[k].due \in Nat /\ now \in Nat
    BY ClockBound DEF IInv, TypeOK, FsmTypeOK
  <2> QED
    BY <2>1, <2>2, NoRecordFacts DEF Agrees, Found, IsExpired
<1> QED
  BY <1>1, InvariantHolds, PTL

(* A job's run begins when all its runs before are over and the last one   *)
(* ended a whole interval ago; there are no more than maxRuns, and none     *)
(* begins after a cancel or a stop but in the tick that was under way.     *)
THEOREM RunsApart == Spec => JobRunsApart
<1> DEFINE Apart == \A j \in Jobs : begun'[j] > begun[j] =>
                      /\ begun[j] = over[j]
                      /\ begun[j] > 0 => now >= ended[j] + Every[j]
                      /\ MaxRuns[j] # 0 => begun'[j] <= MaxRuns[j]
                      /\ j \in dropped => j \in cut
<1>1. ASSUME IInv, NEW j \in Jobs, Visit(j) PROVE Apart
  <2>1. SchedTypeOK /\ Spaced /\ Visited /\ j \in todo /\ now \in Nat
    BY <1>1, ClockBound DEF IInv, TypeOK, SchedInv, Visit
  <2>2. Every \in [Jobs -> Nat] /\ MaxRuns \in [Jobs -> Nat]
    BY JobsAssumption
  <2>3. CASE ~Due(j)
    BY <1>1, <2>1, <2>3 DEF Visit, SchedTypeOK
  <2>4. CASE Due(j)
    <3>1. begun' = [begun EXCEPT ![j] = @ + 1] /\ ~rec[j].running /\ rec[j].next <= now
      BY <1>1, <2>4 DEF Visit, Due
    <3>2. begun[j] \in Nat /\ rec[j].next \in Nat /\ ended[j] \in Nat
      BY <2>1 DEF SchedTypeOK
    <3>3. \A i \in Jobs : begun'[i] > begun[i] => i = j
      BY <2>1, <3>1 DEF SchedTypeOK
    <3>4. begun[j] > 0 => now >= ended[j] + Every[j]
      BY <2>1, <2>2, <3>1, <3>2 DEF Spaced
    <3>5. MaxRuns[j] # 0 => begun'[j] <= MaxRuns[j]
      BY <2>1, <2>2, <3>1, <3>2 DEF Spaced, SchedTypeOK
    <3>6. j \in dropped => j \in cut
      BY <2>1 DEF Visited
    <3>7. begun[j] = over[j]
      BY <1>1, <2>1, <3>1 DEF IInv, SchedInv, Counted, SchedTypeOK
    <3> QED
      BY <3>3, <3>4, <3>5, <3>6, <3>7
  <2> QED
    BY <2>3, <2>4
<1>2. ASSUME IInv, CrashRestart PROVE Apart
  BY <1>2 DEF CrashRestart, SchedReset, Never, IInv, TypeOK, SchedTypeOK
<1>3. ASSUME IInv, begun' = begun PROVE Apart
  BY <1>3 DEF IInv, TypeOK, SchedTypeOK
<1>4. IInv /\ [Next]_allVars => [Apart]_schedVars
  <2> SUFFICES ASSUME IInv, [Next]_allVars PROVE Apart
    OBVIOUS
  <2>1. \/ begun' = begun \/ CrashRestart \/ \E j \in Jobs : Visit(j)
    BY DEF Next, allVars, lifeVars, schedVars, Step, StartCall, StartThrows, PluginsInstalled, VerifyCrypto,
       ClientStart, StartMarks, HooksDone, StartReturns, OnFatal, StopCall, StopParts, Drained, CryptoClosed,
       StopReturns, Signal, RunStops, Exit, ProgramAdds, JobStep, FsmStep, CloseDispatcher, FlushStep, TimerTick,
       ConvStep, TimePasses, AddJob, SchedStop, Cancel, JobEnds, Tick
  <2> QED
    BY <1>1, <1>2, <1>3, <2>1
<1> QED
  BY <1>4, InvariantHolds, PTL DEF Spec, JobRunsApart

(* A conversation handles the step after the last one it has handled, and  *)
(* only the death of a process takes it back, to what the storage kept; an *)
(* evicted conversation begins anew.                                       *)
THEOREM ResumesInOrder == Spec => ConversationResumes
<1> DEFINE InOrder == conv.pc = "waiting" /\ conv'.pc = "saving" =>
                        conv.i = turn \/ (ConvKey \in lost /\ conv.i = 0)
<1>1. IInv => InOrder
  BY DEF IInv, FsmInv, TalkInv, Place
<1> QED
  BY <1>1, InvariantHolds, PTL DEF ConversationResumes

-----------------------------------------------------------------------------
(* The dispatch of updates. *)

(* What the position of a feed and of its chain say about each other.      *)
(* Before the dispatcher starts there is no chain; an update that has not  *)
(* ended has no outcome.                                                   *)
BeforeChain ==
  \A u \in Updates :
    /\ pc[u] \in {"idle", "build", "ask"} => chain[u] = "none"
    /\ pc[u] # "done" => outcome[u] = "none"
    /\ pc[u] = "ask" => snap[u] # << >>

(* A chain goes on after its feed only with an aborted signal. *)
OutlivesAborted ==
  \A u \in Updates : chain[u] \notin {"none", "ok", "failed"} => pc[u] = "race" \/ aborted[u]

(* A handler was started once the chain has got beyond the routers, and    *)
(* from there no second next() leads back: the innermost dispatch() was    *)
(* reached.                                                                *)
NoWayBack ==
  \A u \in Updates :
    /\ runs[u] <= 1
    /\ chain[u] \in {"none", "outer", "enter", "match", "fallback"} => runs[u] = 0
    /\ chain[u] \in {"enter", "match", "handler", "fallback", "caught", "unwind"} => local[u].index = Len(Outer)

(* An update that a waiter got has ended without a chain. *)
ConsumedHasNoChain ==
  \A u \in Updates, w \in Waiters : u \in got[w] => pc[u] = "done" /\ chain[u] = "none"

(* A registered waiter is not settled, and one of a snapshot is registered *)
(* or settled.                                                             *)
SnapshotKnown ==
  /\ \A w \in Waiters : Contains(waiters, w) => settled[w] = "no"
  /\ \A u \in Updates, w \in Waiters : Contains(snap[u], w) => Contains(waiters, w) \/ settled[w] # "no"

DispatchInv ==
  /\ DispatchTypeOK
  /\ BeforeChain
  /\ OutlivesAborted
  /\ NoWayBack
  /\ ConsumedHasNoChain
  /\ SnapshotKnown

LEMMA OuterLength == Len(Outer) \in Nat /\ MaxAnswers \in Nat /\ MaxRetries \in Nat
  BY BoundAssumption

LEMMA DispatchInitHolds == DispatchInit => DispatchInv
<1> SUFFICES ASSUME DispatchInit PROVE DispatchInv
  OBVIOUS
<1>1. DispatchTypeOK
  <2>1. /\ pc \in [Updates -> Pcs] /\ snap \in [Updates -> Seq(Waiters)] /\ chain \in [Updates -> ChainStates]
        /\ err \in [Updates -> Errors] /\ outcome \in [Updates -> Outcomes]
        /\ settled \in [Waiters -> {"no", "resolved", "timedout"}] /\ got \in [Waiters -> SUBSET Updates]
        /\ DOMAIN found = Updates /\ waiters \in Seq(Waiters)
    BY DEF DispatchInit, Pcs, ChainStates, Errors, Outcomes
  <2>2. aborted \in [Updates -> BOOLEAN] /\ stopping \in BOOLEAN
    BY Zenon DEF DispatchInit
  <2>3. local \in [Updates -> [root : Nat, index : Nat, attempt : Nat]]
    BY DEF DispatchInit, NoLocals
  <2>4. runs \in [Updates -> Nat] /\ answers \in [Updates -> Nat]
    BY DEF DispatchInit
  <2> QED
    BY Zenon, <2>1, <2>2, <2>3, <2>4 DEF DispatchTypeOK
<1>2. BeforeChain /\ OutlivesAborted /\ NoWayBack /\ ConsumedHasNoChain
  BY DEF DispatchInit, BeforeChain, OutlivesAborted, NoWayBack, ConsumedHasNoChain
<1>3. SnapshotKnown
  BY DEF DispatchInit, SnapshotKnown, Contains
<1> QED
  BY <1>1, <1>2, <1>3 DEF DispatchInv

-----------------------------------------------------------------------------
(* The chain of one update. *)

(* What every step of a chain keeps to: it is under way, it does not start *)
(* again, and where the routers are still ahead no handler has run.        *)
ChainMove(u, s) ==
  /\ UNCHANGED <<feedVars, aborted, waiterVars, stopping>>
  /\ chain[u] \notin {"none", "ok", "failed"}
  /\ chain' = [chain EXCEPT ![u] = s]
  /\ s \in ChainStates \ {"none", "outer"}
  /\ err' \in [Updates -> Errors]
  /\ DOMAIN found' = Updates
  /\ answers' \in [Updates -> Nat]
  /\ \E n \in {0, 1} : runs' = [runs EXCEPT ![u] = n] /\ (s \in {"enter", "match", "fallback"} => n = 0)
  /\ \E l \in [root : Nat, index : Nat, attempt : Nat] :
       local' = [local EXCEPT ![u] = l] /\ (s \notin {"ok", "failed"} => l.index = Len(Outer))

LEMMA ChainMoveHolds ==
  ASSUME DispatchInv, NEW u \in Updates, NEW s, ChainMove(u, s)
  PROVE  DispatchInv'
<1>1. /\ UNCHANGED <<pc, ctx, snap, outcome, aborted, waiters, settled, got, stopping>>
      /\ chain[u] \notin {"none", "ok", "failed"}
      /\ chain' = [chain EXCEPT ![u] = s]
      /\ s \in ChainStates \ {"none", "outer"}
  BY Zenon DEF ChainMove, feedVars, waiterVars
<1>2. PICK n \in {0, 1} : runs' = [runs EXCEPT ![u] = n] /\ (s \in {"enter", "match", "fallback"} => n = 0)
  BY Zenon DEF ChainMove
<1>3. PICK l \in [root : Nat, index : Nat, attempt : Nat] :
        local' = [local EXCEPT ![u] = l] /\ (s \notin {"ok", "failed"} => l.index = Len(Outer))
  BY Zenon DEF ChainMove
<1>4. DispatchTypeOK'
  <2>1. chain' \in [Updates -> ChainStates] /\ runs' \in [Updates -> Nat]
        /\ local' \in [Updates -> [root : Nat, index : Nat, attempt : Nat]]
    BY <1>1, <1>2, <1>3 DEF DispatchInv, DispatchTypeOK
  <2>2. err' \in [Updates -> Errors] /\ DOMAIN found' = Updates /\ answers' \in [Updates -> Nat]
    BY Zenon DEF ChainMove
  <2> QED
    BY Zenon, <1>1, <2>1, <2>2 DEF DispatchInv, DispatchTypeOK
<1>5. chain \in [Updates -> ChainStates] /\ runs \in [Updates -> Nat]
      /\ local \in [Updates -> [root : Nat, index : Nat, attempt : Nat]]
  BY Zenon DEF DispatchInv, DispatchTypeOK
<1>6. BeforeChain'
  BY <1>1, <1>5 DEF DispatchInv, BeforeChain
<1>7. OutlivesAborted'
  BY <1>1, <1>5 DEF DispatchInv, OutlivesAborted
<1>8. NoWayBack'
  BY <1>1, <1>2, <1>3, <1>5, OuterLength DEF DispatchInv, NoWayBack
<1>9. ConsumedHasNoChain'
  BY <1>1, <1>5 DEF DispatchInv, ConsumedHasNoChain
<1>10. SnapshotKnown'
  BY <1>1 DEF DispatchInv, SnapshotKnown, Contains
<1> QED
  BY Zenon, <1>4, <1>6, <1>7, <1>8, <1>9, <1>10 DEF DispatchInv

(* A step of the chain or of the handler is such a step. *)
LEMMA ChainHolds ==
  ASSUME DispatchInv, NEW u \in Updates, ChainStep(u) \/ Handler(u)
  PROVE  \E s : ChainMove(u, s)
<1>1. /\ err \in [Updates -> Errors] /\ DOMAIN found = Updates /\ answers \in [Updates -> Nat]
      /\ runs \in [Updates -> Nat] /\ local \in [Updates -> [root : Nat, index : Nat, attempt : Nat]]
  BY Zenon DEF DispatchInv, DispatchTypeOK
<1>2. /\ runs[u] \in {0, 1}
      /\ chain[u] \in {"none", "outer", "enter", "match", "fallback"} => runs[u] = 0
      /\ chain[u] \in {"enter", "match", "handler", "fallback", "caught", "unwind"} => local[u].index = Len(Outer)
  BY <1>1 DEF DispatchInv, NoWayBack
<1>3. NoLocals \in [root : Nat, index : Nat, attempt : Nat]
  BY DEF NoLocals
<1>4. runs = [runs EXCEPT ![u] = runs[u]] /\ local = [local EXCEPT ![u] = local[u]]
  BY <1>1
<1> DEFINE Still == UNCHANGED <<feedVars, aborted, waiterVars, stopping>>
           Typed == err' \in [Updates -> Errors] /\ answers' \in [Updates -> Nat]
           Under == {"enter", "match", "handler", "fallback", "caught", "unwind"}
<1>a. ASSUME NEW s \in {"ok", "failed"}, Settle(u, s), Still, Typed, chain[u] \in Under \cup {"outer"}, runs' = runs
      PROVE  \E t : ChainMove(u, t)
  <2>1. chain' = [chain EXCEPT ![u] = s] /\ local' = [local EXCEPT ![u] = NoLocals] /\ found' = [found EXCEPT ![u] = NotFound]
    BY Zenon, <1>a DEF Settle, Goto, Set
  <2>2. DOMAIN found' = Updates
    BY <1>1, <2>1
  <2>3. chain[u] \notin {"none", "ok", "failed"} /\ s \in ChainStates \ {"none", "outer"}
    BY <1>a DEF ChainStates
  <2>4. runs' = [runs EXCEPT ![u] = runs[u]] /\ ~(s \in {"enter", "match", "fallback"})
    BY <1>4, <1>a
  <2> QED
    BY Zenon, <1>2, <1>3, <1>a, <2>1, <2>2, <2>3, <2>4 DEF ChainMove
<1>b. ASSUME NEW s \in Under, Goto(u, s), Still, Typed, chain[u] \in Under, UNCHANGED <<local, found, runs>>,
             s \in {"enter", "match", "fallback"} => runs[u] = 0
      PROVE  \E t : ChainMove(u, t)
  <2>1. chain' = [chain EXCEPT ![u] = s] /\ local' = local /\ found' = found /\ runs' = runs
    BY Zenon, <1>b DEF Goto, Set
  <2>2. DOMAIN found' = Updates
    BY <1>1, <2>1
  <2>3. chain[u] \notin {"none", "ok", "failed"} /\ s \in ChainStates \ {"none", "outer"}
    BY <1>b DEF ChainStates
  <2>4. runs' = [runs EXCEPT ![u] = runs[u]] /\ local' = [local EXCEPT ![u] = local[u]]
    BY <1>4, <2>1
  <2>5. local[u] \in [root : Nat, index : Nat, attempt : Nat] /\ local[u].index = Len(Outer)
    BY <1>1, <1>2, <1>b
  <2> QED
    BY Zenon, <1>2, <1>b, <2>1, <2>2, <2>3, <2>4, <2>5 DEF ChainMove
<1> HIDE DEF Still
<1>5. CASE EnterOuter(u)
  <2>1. /\ chain[u] = "outer" /\ Still /\ UNCHANGED <<err, runs, answers>>
        /\ \/ Settle(u, "ok")
           \/ chain' = [chain EXCEPT ![u] = "enter"] /\ local' = [local EXCEPT ![u].index = Len(Outer)] /\ found' = found
    BY Zenon, <1>5 DEF EnterOuter, InChain, Goto, Set, histVars, Still
  <2>2. Typed
    BY <1>1, <2>1
  <2>3. CASE Settle(u, "ok")
    BY Zenon, <1>a, <2>1, <2>2, <2>3
  <2>4. CASE chain' = [chain EXCEPT ![u] = "enter"] /\ local' = [local EXCEPT ![u].index = Len(Outer)] /\ found' = found
    <3> DEFINE l == [local[u] EXCEPT !.index = Len(Outer)]
    <3>1. l \in [root : Nat, index : Nat, attempt : Nat] /\ l.index = Len(Outer) /\ local' = [local EXCEPT ![u] = l]
      BY <1>1, <2>4, OuterLength
    <3>2. runs' = [runs EXCEPT ![u] = runs[u]] /\ runs[u] = 0
      BY <1>2, <1>4, <2>1
    <3>3. chain[u] \notin {"none", "ok", "failed"} /\ "enter" \in ChainStates \ {"none", "outer"}
      BY <2>1 DEF ChainStates
    <3> HIDE DEF l
    <3> QED
      BY Zenon, <1>1, <2>1, <2>2, <2>4, <3>1, <3>2, <3>3 DEF ChainMove, Still
  <2> QED
    BY Zenon, <2>1, <2>3, <2>4
<1>6. CASE EnterRouter(u)
  <2>1. /\ chain[u] = "enter" /\ Still /\ UNCHANGED <<err, runs, answers>>
        /\ \/ Settle(u, "ok")
           \/ Goto(u, "match") /\ UNCHANGED <<local, found>>
           \/ Goto(u, "fallback") /\ UNCHANGED <<local, found>>
    BY Zenon, <1>6 DEF EnterRouter, InChain, histVars, Still
  <2>2. Typed
    BY <1>1, <2>1
  <2> QED
    BY Zenon, <1>2, <1>a, <1>b, <2>1, <2>2
<1>7. CASE MatchRouter(u)
  <2>1. /\ chain[u] = "match" /\ Still /\ UNCHANGED <<err, answers>>
        /\ \E r : found' = [found EXCEPT ![u] = r]
        /\ \/ chain' = [chain EXCEPT ![u] = "handler"] /\ runs' = [runs EXCEPT ![u] = @ + 1] /\ local' = local
           \/ chain' = [chain EXCEPT ![u] = "enter"] /\ local' = [local EXCEPT ![u].root = @ + 1] /\ runs' = runs
    BY Zenon, <1>7 DEF MatchRouter, InChain, Goto, Set, Still
  <2>2. Typed /\ DOMAIN found' = Updates
    BY <1>1, <2>1
  <2>3. runs[u] = 0 /\ local[u].index = Len(Outer) /\ local[u] \in [root : Nat, index : Nat, attempt : Nat]
    BY <1>1, <1>2, <2>1
  <2>4. chain[u] \notin {"none", "ok", "failed"} /\ {"enter", "handler"} \subseteq ChainStates \ {"none", "outer"}
    BY <2>1 DEF ChainStates
  <2>5. CASE chain' = [chain EXCEPT ![u] = "handler"] /\ runs' = [runs EXCEPT ![u] = @ + 1] /\ local' = local
    <3>1. runs' = [runs EXCEPT ![u] = 1] /\ local' = [local EXCEPT ![u] = local[u]]
      BY <1>1, <1>4, <2>3, <2>5
    <3> QED
      BY Zenon, <2>1, <2>2, <2>3, <2>4, <2>5, <3>1 DEF ChainMove, Still
  <2>6. CASE chain' = [chain EXCEPT ![u] = "enter"] /\ local' = [local EXCEPT ![u].root = @ + 1] /\ runs' = runs
    <3> DEFINE l == [local[u] EXCEPT !.root = local[u].root + 1]
    <3>0. local' = [local EXCEPT ![u] = l]
      BY Zenon, <2>6
    <3>1. l \in [root : Nat, index : Nat, attempt : Nat] /\ l.index = Len(Outer)
      BY <2>3
    <3>2. runs' = [runs EXCEPT ![u] = 0]
      BY <1>4, <2>3, <2>6
    <3> HIDE DEF l
    <3> QED
      BY Zenon, <2>1, <2>2, <2>3, <2>4, <2>6, <3>0, <3>1, <3>2 DEF ChainMove, Still
  <2> QED
    BY Zenon, <2>1, <2>5, <2>6
<1>8. CASE RouterErrors(u)
  <2>1. /\ chain[u] = "caught" /\ Still /\ UNCHANGED <<err, runs, answers>>
        /\ Settle(u, "ok") \/ (Goto(u, "unwind") /\ UNCHANGED <<local, found>>)
    BY Zenon, <1>8 DEF RouterErrors, InChain, histVars, Still
  <2>2. Typed
    BY <1>1, <2>1
  <2> QED
    BY Zenon, <1>a, <1>b, <2>1, <2>2
<1>9. CASE RetryNext(u)
  <2>1. chain[u] = "unwind" /\ Still /\ UNCHANGED <<found, runs, answers>>
    BY Zenon, <1>9 DEF RetryNext, InChain, histVars, Still
  <2>2. ~NextAllowed(Len(Outer), local[u].index)
    BY <1>2, <2>1, OuterLength DEF NextAllowed
  <2>3. err' = [err EXCEPT ![u] = "twice"] /\ chain' = chain /\ local' = local
    BY Zenon, <1>9, <2>2 DEF RetryNext, Set
  <2>4. Typed /\ Goto(u, "unwind")
    <3>1. chain \in [Updates -> ChainStates]
      BY Zenon DEF DispatchInv, DispatchTypeOK
    <3> QED
      BY <1>1, <2>1, <2>3, <3>1 DEF Errors, Goto, Set
  <2> QED
    BY Zenon, <1>b, <2>1, <2>3, <2>4
<1>10. CASE Unwind(u)
  <2>1. /\ chain[u] = "unwind" /\ Still /\ runs' = runs /\ Settle(u, "failed")
        /\ \/ UNCHANGED <<err, answers>>
           \/ answers' = [answers EXCEPT ![u] = @ + 1] /\ err' = err
           \/ err' = [err EXCEPT ![u] = Refused(u)] /\ answers' = answers
    BY Zenon, <1>10 DEF Unwind, InChain, Set, Still
  <2>2. Typed
    BY <1>1, <2>1 DEF Refused, Errors
  <2> QED
    BY Zenon, <1>a, <2>1, <2>2
<1>c. RunsUserCode(u) => chain[u] \in {"handler", "fallback"} /\ ThrowTo(u) \in {"caught", "unwind"}
  BY DEF RunsUserCode, ThrowTo
<1>11. CASE HandlerAnswers(u)
  <2>1. /\ RunsUserCode(u) /\ Still /\ UNCHANGED <<local, found, runs>>
        /\ \/ answers' = [answers EXCEPT ![u] = @ + 1] /\ UNCHANGED <<chain, err>>
           \/ Goto(u, ThrowTo(u)) /\ err' = [err EXCEPT ![u] = Refused(u)] /\ answers' = answers
    BY Zenon, <1>11 DEF HandlerAnswers, Set, Still
  <2>2. Typed
    <3>1. Refused(u) \in Errors
      BY DEF Refused, Errors
    <3>2. CASE answers' = [answers EXCEPT ![u] = @ + 1] /\ UNCHANGED <<chain, err>>
      BY <1>1, <3>2
    <3>3. CASE err' = [err EXCEPT ![u] = Refused(u)] /\ answers' = answers
      BY <1>1, <3>1, <3>3
    <3> QED
      BY Zenon, <2>1, <3>2, <3>3
  <2>3. Goto(u, chain[u]) \/ Goto(u, ThrowTo(u))
    <3>1. chain \in [Updates -> ChainStates]
      BY Zenon DEF DispatchInv, DispatchTypeOK
    <3> QED
      BY <2>1, <3>1 DEF Goto, Set
  <2> QED
    BY Zenon, <1>2, <1>b, <1>c, <2>1, <2>2, <2>3
<1>12. CASE HandlerReturns(u)
  <2>1. RunsUserCode(u) /\ Still /\ Settle(u, "ok") /\ UNCHANGED <<err, runs, answers>>
    BY Zenon, <1>12 DEF HandlerReturns, histVars, Still
  <2>2. Typed
    BY <1>1, <2>1
  <2> QED
    BY Zenon, <1>a, <1>c, <2>1, <2>2
<1>13. ASSUME NEW e \in {"app", "ratelimited"}, HandlerThrows(u, e) PROVE \E s : ChainMove(u, s)
  <2>1. RunsUserCode(u) /\ Still /\ Goto(u, ThrowTo(u)) /\ err' = [err EXCEPT ![u] = e] /\ UNCHANGED <<local, found, runs, answers>>
    BY Zenon, <1>13 DEF HandlerThrows, Set, histVars, Still
  <2>2. Typed
    BY <1>1, <2>1 DEF Errors
  <2> QED
    BY Zenon, <1>b, <1>c, <2>1, <2>2
<1> QED
  BY Zenon, <1>5, <1>6, <1>7, <1>8, <1>9, <1>10, <1>11, <1>12, <1>13 DEF ChainStep, Handler

-----------------------------------------------------------------------------
(* The feed of one update, and the waiters. *)

(* What a step of a feed keeps to: it moves forward, a chain it starts is  *)
(* fresh, a feed that leaves its chain behind has aborted it.              *)
FeedMove(u) ==
  /\ UNCHANGED <<local, found, stopping, runs, answers>>
  /\ \E p \in Pcs : pc' = [pc EXCEPT ![u] = p] /\ p # "idle"
  /\ \E o \in Outcomes : outcome' = [outcome EXCEPT ![u] = o] /\ (pc'[u] # "done" => o = "none")
  /\ \E q \in Seq(Waiters) : snap' = [snap EXCEPT ![u] = q] /\ (pc'[u] = "ask" => q # << >>)
                             /\ \A w \in Waiters : Contains(q, w) => Contains(waiters, w) \/ Contains(snap[u], w)
  /\ \E a \in BOOLEAN : aborted' = [aborted EXCEPT ![u] = a] /\ (aborted[u] => a)
  /\ err' \in [Updates -> Errors]
  /\ \/ chain' = chain /\ (pc'[u] \in {"build", "ask"} => chain[u] = "none")
     \/ chain' = [chain EXCEPT ![u] = "outer"] /\ chain[u] = "none" /\ pc'[u] = "race"
  /\ pc[u] # "done"
  /\ pc'[u] \in {"race", "build", "ask"} \/ chain[u] \in {"none", "ok", "failed"} \/ aborted'[u]

(* The feed's own part of the invariant. *)
LEMMA FeedPart ==
  ASSUME DispatchInv, NEW u \in Updates, FeedMove(u)
  PROVE  /\ pc' \in [Updates -> Pcs] /\ snap' \in [Updates -> Seq(Waiters)] /\ chain' \in [Updates -> ChainStates]
         /\ outcome' \in [Updates -> Outcomes] /\ aborted' \in [Updates -> BOOLEAN]
         /\ BeforeChain' /\ OutlivesAborted' /\ NoWayBack'
         /\ \A v \in Updates : pc[v] = "done" => pc'[v] = "done" /\ chain'[v] = chain[v]
         /\ \A v \in Updates, w \in Waiters : Contains(snap'[v], w) => Contains(waiters, w) \/ Contains(snap[v], w)
<1>1. /\ pc \in [Updates -> Pcs] /\ snap \in [Updates -> Seq(Waiters)] /\ chain \in [Updates -> ChainStates]
      /\ outcome \in [Updates -> Outcomes] /\ aborted \in [Updates -> BOOLEAN]
  BY Zenon DEF DispatchInv, DispatchTypeOK
<1>2. PICK p \in Pcs : pc' = [pc EXCEPT ![u] = p] /\ p # "idle"
  BY Zenon DEF FeedMove
<1>3. PICK o \in Outcomes : outcome' = [outcome EXCEPT ![u] = o] /\ (pc'[u] # "done" => o = "none")
  BY Zenon DEF FeedMove
<1>4. PICK q \in Seq(Waiters) :
        /\ snap' = [snap EXCEPT ![u] = q] /\ (pc'[u] = "ask" => q # << >>)
        /\ \A w \in Waiters : Contains(q, w) => Contains(waiters, w) \/ Contains(snap[u], w)
  BY Zenon DEF FeedMove
<1>5. PICK a \in BOOLEAN : aborted' = [aborted EXCEPT ![u] = a] /\ (aborted[u] => a)
  BY Zenon DEF FeedMove
<1>6. /\ UNCHANGED <<local, runs>> /\ pc[u] # "done"
      /\ \/ chain' = chain /\ (pc'[u] \in {"build", "ask"} => chain[u] = "none")
         \/ chain' = [chain EXCEPT ![u] = "outer"] /\ chain[u] = "none" /\ pc'[u] = "race"
      /\ pc'[u] \in {"race", "build", "ask"} \/ chain[u] \in {"none", "ok", "failed"} \/ aborted'[u]
  BY Zenon DEF FeedMove
<1>7. pc' \in [Updates -> Pcs] /\ snap' \in [Updates -> Seq(Waiters)] /\ outcome' \in [Updates -> Outcomes]
  BY <1>1, <1>2, <1>3, <1>4
<1>8. chain' \in [Updates -> ChainStates]
  BY <1>1, <1>6 DEF ChainStates
<1>9. aborted' \in [Updates -> BOOLEAN]
  BY Zenon, <1>1, <1>5
<1>10. BeforeChain'
  BY <1>1, <1>2, <1>3, <1>4, <1>6 DEF DispatchInv, BeforeChain
<1>11. OutlivesAborted'
  <2> SUFFICES ASSUME NEW v \in Updates, chain'[v] \notin {"none", "ok", "failed"} PROVE pc'[v] = "race" \/ aborted'[v]
    BY Zenon DEF OutlivesAborted
  <2>1. CASE v # u
    <3>1. chain'[v] = chain[v] /\ pc'[v] = pc[v]
      BY <1>1, <1>2, <1>6, <2>1
    <3>2. aborted'[v] = aborted[v]
      BY Zenon, <1>1, <1>5, <2>1
    <3> QED
      BY Zenon, <3>1, <3>2 DEF DispatchInv, OutlivesAborted
  <2>2. CASE v = u
    BY <1>1, <1>2, <1>6, <2>2
  <2> QED
    BY <2>1, <2>2
<1>12. NoWayBack'
  BY <1>1, <1>6 DEF DispatchInv, NoWayBack
<1>13. \A v \in Updates : pc[v] = "done" => pc'[v] = "done" /\ chain'[v] = chain[v]
  BY <1>1, <1>2, <1>6
<1>14. ASSUME NEW v \in Updates, NEW w \in Waiters, Contains(snap'[v], w)
       PROVE  Contains(waiters, w) \/ Contains(snap[v], w)
  <2>1. snap'[v] = IF v = u THEN q ELSE snap[v]
    BY <1>1, <1>4
  <2> QED
    BY Zenon, <1>4, <1>14, <2>1
<1> QED
  BY Zenon, <1>7, <1>8, <1>9, <1>10, <1>11, <1>12, <1>13, <1>14

(* A feed that leaves the waiters alone. *)
LEMMA FeedMoveHolds ==
  ASSUME DispatchInv, NEW u \in Updates, FeedMove(u), UNCHANGED waiterVars
  PROVE  DispatchInv'
<1>1. UNCHANGED <<waiters, settled, got, local, found, stopping, runs, answers>> /\ err' \in [Updates -> Errors]
  BY Zenon DEF FeedMove, waiterVars
<1>2. DispatchTypeOK'
  BY Zenon, <1>1, FeedPart DEF DispatchInv, DispatchTypeOK
<1>3. ConsumedHasNoChain'
  BY Zenon, <1>1, FeedPart DEF DispatchInv, ConsumedHasNoChain
<1>4. SnapshotKnown'
  <2>1. \A v \in Updates, w \in Waiters : Contains(snap'[v], w) => Contains(waiters, w) \/ Contains(snap[v], w)
    BY Zenon, FeedPart
  <2>2. waiters' = waiters /\ settled' = settled
    BY <1>1
  <2> QED
    BY <2>1, <2>2 DEF DispatchInv, SnapshotKnown
<1> QED
  BY Zenon, <1>2, <1>3, <1>4, FeedPart DEF DispatchInv

(* removeWaiter: the one is gone, the others stay. *)
LEMMA WaiterRemoved ==
  ASSUME waiters \in Seq(Waiters), NEW w \in Waiters
  PROVE  /\ Kept(waiters, Waiters \ {w}) \in Seq(Waiters)
         /\ ~Contains(Kept(waiters, Waiters \ {w}), w)
         /\ \A x \in Waiters : x # w => (Contains(Kept(waiters, Waiters \ {w}), x) <=> Contains(waiters, x))
<1> DEFINE T == Waiters \ {w}
           k == Kept(waiters, T)
<1> HIDE DEF T
<1>1. /\ k \in Seq(Waiters)
      /\ \A i \in 1..Len(k) : k[i] \in T /\ \E j \in 1..Len(waiters) : waiters[j] = k[i]
      /\ \A j \in 1..Len(waiters) : waiters[j] \in T => \E i \in 1..Len(k) : k[i] = waiters[j]
  BY KeptElements
<1> HIDE DEF k
<1>2. ~Contains(k, w)
  BY <1>1 DEF Contains, T
<1>3. ASSUME NEW x \in Waiters, x # w PROVE Contains(k, x) <=> Contains(waiters, x)
  BY <1>1, <1>3 DEF Contains, T
<1> QED
  BY Zenon, <1>1, <1>2, <1>3 DEF k, T

(* A waiter that is removed and settled. *)
LEMMA SettledPart ==
  ASSUME DispatchInv, NEW w \in Waiters,
         waiters' = Kept(waiters, Waiters \ {w}),
         settled' \in [Waiters -> {"no", "resolved", "timedout"}], settled'[w] # "no",
         \A x \in Waiters : x # w => settled'[x] = settled[x],
         \A v \in Updates, x \in Waiters : Contains(snap'[v], x) => Contains(waiters, x) \/ Contains(snap[v], x)
  PROVE  waiters' \in Seq(Waiters) /\ SnapshotKnown'
<1>1. waiters \in Seq(Waiters)
  BY Zenon DEF DispatchInv, DispatchTypeOK
<1>2. waiters' \in Seq(Waiters) /\ ~Contains(waiters', w) /\ \A x \in Waiters : x # w => (Contains(waiters', x) <=> Contains(waiters, x))
  BY Zenon, <1>1, WaiterRemoved
<1>3. /\ \A x \in Waiters : Contains(waiters, x) => settled[x] = "no"
      /\ \A v \in Updates, x \in Waiters : Contains(snap[v], x) => Contains(waiters, x) \/ settled[x] # "no"
  BY Zenon DEF DispatchInv, SnapshotKnown
<1>4. \A x \in Waiters : Contains(waiters', x) => settled'[x] = "no"
  BY Zenon, <1>2, <1>3
<1>5. ASSUME NEW v \in Updates, NEW x \in Waiters, Contains(snap'[v], x) PROVE Contains(waiters', x) \/ settled'[x] # "no"
  BY Zenon, <1>2, <1>3, <1>5
<1>6. SnapshotKnown'
  BY Zenon, <1>4, <1>5 DEF SnapshotKnown, Contains
<1> QED
  BY <1>2, <1>6

(* The waiters an update asks are registered. *)
LEMMA SnapshotFacts ==
  ASSUME waiters \in Seq(Waiters), NEW c
  PROVE  Snapshot(c) \in Seq(Waiters) /\ \A w \in Waiters : Contains(Snapshot(c), w) => Contains(waiters, w)
<1> DEFINE T == {w \in Waiters : Addressed(w, c)}
           k == Kept(waiters, T)
<1> HIDE DEF T
<1>1. k \in Seq(Waiters) /\ \A i \in 1..Len(k) : k[i] \in T /\ \E j \in 1..Len(waiters) : waiters[j] = k[i]
  BY KeptElements
<1>2. k = Snapshot(c)
  BY Zenon DEF Snapshot, k, T
<1> HIDE DEF k
<1> QED
  BY <1>1, <1>2 DEF Contains

(* The steps of a feed that do not hand the update to a waiter. *)
Feeds(u) ==
  \/ \E e, b : FeedRoomEvent(u, e, b)
  \/ \E e : FeedEphemeral(u, e)
  \/ \E e, t : FeedDirect(u, e, t)
  \/ ContextBuilt(u) \/ AskWaiter(u, FALSE) \/ HandlerTimeout(u) \/ ChainSettles(u) \/ Count(u)
  \/ \E yes \in Swallows : ErrorHandlersAnswer(u, yes)

(* Steps of a feed that leave the waiters alone. *)
LEMMA FeedStepHolds ==
  ASSUME DispatchInv, NEW u \in Updates, Feeds(u)
  PROVE  FeedMove(u) /\ UNCHANGED waiterVars
<1>1. /\ pc \in [Updates -> Pcs] /\ snap \in [Updates -> Seq(Waiters)] /\ chain \in [Updates -> ChainStates]
      /\ outcome \in [Updates -> Outcomes] /\ aborted \in [Updates -> BOOLEAN] /\ err \in [Updates -> Errors]
      /\ waiters \in Seq(Waiters)
  BY Zenon DEF DispatchInv, DispatchTypeOK
<1>2. /\ pc[u] \in {"idle", "build", "ask"} => chain[u] = "none"
      /\ pc[u] # "done" => outcome[u] = "none"
  BY DEF DispatchInv, BeforeChain
<1>3. aborted[u] \in BOOLEAN /\ aborted = [aborted EXCEPT ![u] = aborted[u]]
  BY Zenon, <1>1
<1>4. /\ outcome = [outcome EXCEPT ![u] = outcome[u]] /\ snap = [snap EXCEPT ![u] = snap[u]]
      /\ pc = [pc EXCEPT ![u] = pc[u]]
      /\ outcome[u] \in Outcomes /\ snap[u] \in Seq(Waiters)
  BY <1>1
<1> DEFINE Rest == UNCHANGED <<local, found, stopping, runs, answers, waiterVars>>
(* The feed ends with no chain under way or an aborted one. *)
<1>a. ASSUME NEW o \in Outcomes, End(u, o), Rest, UNCHANGED <<snap, chain, err, aborted>>, pc[u] # "done",
             chain[u] \in {"none", "ok", "failed"} \/ aborted[u]
      PROVE  FeedMove(u) /\ UNCHANGED waiterVars
  <2>1. pc' = [pc EXCEPT ![u] = "done"] /\ outcome' = [outcome EXCEPT ![u] = o]
    BY Zenon, <1>a DEF End, Set
  <2>2. pc'[u] = "done" /\ "done" \in Pcs
    BY <1>1, <2>1 DEF Pcs
  <2>3. snap' = [snap EXCEPT ![u] = snap[u]] /\ aborted' = [aborted EXCEPT ![u] = aborted[u]] /\ aborted'[u] = aborted[u]
    BY Zenon, <1>3, <1>4, <1>a
  <2>4. err' \in [Updates -> Errors] /\ pc'[u] # "ask" /\ pc'[u] \notin {"build", "ask"} /\ "done" # "idle"
    BY <1>1, <1>a, <2>2
  <2> QED
    BY Zenon, <1>3, <1>4, <1>a, <2>1, <2>2, <2>3, <2>4 DEF FeedMove
(* It goes on to build its context or to ask waiters. *)
<1>b. ASSUME NEW p \in {"build", "ask"}, pc' = [pc EXCEPT ![u] = p], Rest, UNCHANGED <<outcome, chain, err, aborted>>,
             pc[u] \in {"idle", "build", "ask"},
             NEW q \in Seq(Waiters), snap' = [snap EXCEPT ![u] = q], p = "ask" => q # << >>,
             \A w \in Waiters : Contains(q, w) => Contains(waiters, w) \/ Contains(snap[u], w)
      PROVE  FeedMove(u) /\ UNCHANGED waiterVars
  <2>1. pc'[u] = p /\ p \in Pcs /\ p # "idle" /\ pc[u] # "done"
    BY <1>1, <1>b DEF Pcs
  <2>2. outcome' = [outcome EXCEPT ![u] = outcome[u]] /\ outcome[u] = "none"
    BY <1>2, <1>4, <1>b, <2>1
  <2>3. aborted' = [aborted EXCEPT ![u] = aborted[u]] /\ err' \in [Updates -> Errors]
    BY Zenon, <1>1, <1>3, <1>b
  <2>4. chain[u] = "none" /\ pc'[u] \in {"race", "build", "ask"}
    BY <1>2, <1>b, <2>1
  <2> QED
    BY Zenon, <1>3, <1>4, <1>b, <2>1, <2>2, <2>3, <2>4 DEF FeedMove
(* The dispatcher starts. *)
<1>c. ASSUME NEW c, StartFeed(u, c), UNCHANGED <<stopping, runs, answers, waiterVars, outcome>>,
             pc[u] \in {"idle", "build", "ask"},
             NEW q \in Seq(Waiters), snap' = [snap EXCEPT ![u] = q],
             \A w \in Waiters : Contains(q, w) => Contains(snap[u], w)
      PROVE  FeedMove(u) /\ UNCHANGED waiterVars
  <2>1. /\ pc' = [pc EXCEPT ![u] = "race"] /\ chain' = [chain EXCEPT ![u] = "outer"]
        /\ UNCHANGED <<err, local, found, aborted>>
    BY Zenon, <1>c DEF StartFeed, Set
  <2>2. pc'[u] = "race" /\ "race" \in Pcs /\ "race" # "idle" /\ pc[u] # "done" /\ pc'[u] # "ask"
    BY <1>1, <1>c, <2>1 DEF Pcs
  <2>3. outcome' = [outcome EXCEPT ![u] = outcome[u]] /\ outcome[u] = "none"
    BY <1>2, <1>4, <1>c, <2>2
  <2>4. aborted' = [aborted EXCEPT ![u] = aborted[u]] /\ err' \in [Updates -> Errors]
    BY Zenon, <1>1, <1>3, <2>1
  <2>5. chain[u] = "none" /\ pc'[u] \in {"race", "build", "ask"}
    BY <1>2, <1>c, <2>2
  <2> QED
    BY Zenon, <1>3, <1>4, <1>c, <2>1, <2>2, <2>3, <2>4, <2>5 DEF FeedMove
(* The race is over. *)
<1>d. ASSUME NEW p \in {"catch", "count"}, pc' = [pc EXCEPT ![u] = p], Rest, UNCHANGED <<outcome, snap, chain>>,
             NEW a \in BOOLEAN, aborted' = [aborted EXCEPT ![u] = a], aborted[u] => a, err' \in [Updates -> Errors],
             pc[u] # "done", chain[u] \in {"none", "ok", "failed"} \/ a
      PROVE  FeedMove(u) /\ UNCHANGED waiterVars
  <2>1. pc'[u] = p /\ p \in Pcs /\ p # "idle" /\ pc'[u] # "ask" /\ pc'[u] \notin {"build", "ask"}
    BY <1>1, <1>d DEF Pcs
  <2>2. outcome' = [outcome EXCEPT ![u] = outcome[u]] /\ outcome[u] = "none" /\ snap' = [snap EXCEPT ![u] = snap[u]]
    BY <1>2, <1>4, <1>d
  <2>3. aborted'[u] = a
    BY Zenon, <1>1, <1>d
  <2> QED
    BY Zenon, <1>3, <1>4, <1>d, <2>1, <2>2, <2>3 DEF FeedMove
<1>e. \A w \in Waiters : Contains(snap[u], w) => Contains(snap[u], w)
  OBVIOUS
<1>5. ASSUME NEW e, NEW b, FeedRoomEvent(u, e, b) PROVE FeedMove(u) /\ UNCHANGED waiterVars
  <2>1. /\ pc[u] = "idle" /\ Rest /\ UNCHANGED <<snap, chain, err, aborted>>
        /\ End(u, "dropped") \/ (pc' = [pc EXCEPT ![u] = "build"] /\ outcome' = outcome)
    BY Zenon, <1>5 DEF FeedRoomEvent, Set, chainVars, histVars
  <2>2. "dropped" \in Outcomes /\ pc[u] # "done" /\ pc[u] \in {"idle", "build", "ask"} /\ "build" # "ask"
    BY <2>1 DEF Outcomes
  <2> QED
    BY Zenon, <1>2, <1>4, <1>a, <1>b, <2>1, <2>2
<1>6. ASSUME NEW e, FeedEphemeral(u, e) PROVE FeedMove(u) /\ UNCHANGED waiterVars
  <2> DEFINE c == ContextOf(e, "ephemeral")
  <2>1. /\ pc[u] = "idle" /\ UNCHANGED <<stopping, runs, answers, waiterVars>>
        /\ \/ End(u, "dropped") /\ UNCHANGED <<snap, chain, err, local, found, aborted>>
           \/ /\ Snapshot(c) # << >> /\ pc' = [pc EXCEPT ![u] = "ask"] /\ snap' = [snap EXCEPT ![u] = Snapshot(c)]
              /\ UNCHANGED <<outcome, chain, err, local, found, aborted>>
           \/ StartFeed(u, c) /\ UNCHANGED <<snap, outcome>>
    BY Zenon, <1>6 DEF FeedEphemeral, Set, chainVars, histVars
  <2>2. Snapshot(c) \in Seq(Waiters) /\ \A w \in Waiters : Contains(Snapshot(c), w) => Contains(waiters, w)
    BY Zenon, <1>1, SnapshotFacts
  <2>3. "dropped" \in Outcomes /\ pc[u] # "done" /\ pc[u] \in {"idle", "build", "ask"}
    BY <2>1 DEF Outcomes
  <2> HIDE DEF c
  <2>4. CASE End(u, "dropped") /\ UNCHANGED <<snap, chain, err, local, found, aborted>>
    BY Zenon, <1>2, <1>a, <2>1, <2>3, <2>4
  <2>5. CASE /\ Snapshot(c) # << >> /\ pc' = [pc EXCEPT ![u] = "ask"] /\ snap' = [snap EXCEPT ![u] = Snapshot(c)]
             /\ UNCHANGED <<outcome, chain, err, local, found, aborted>>
    BY Zenon, <1>b, <2>1, <2>2, <2>3, <2>5
  <2>6. CASE StartFeed(u, c) /\ UNCHANGED <<snap, outcome>>
    BY Zenon, <1>4, <1>c, <1>e, <2>1, <2>3, <2>6
  <2> QED
    BY Zenon, <2>1, <2>4, <2>5, <2>6
<1>7. ASSUME NEW e, NEW t, FeedDirect(u, e, t) PROVE FeedMove(u) /\ UNCHANGED waiterVars
  <2>1. /\ pc[u] = "idle" /\ UNCHANGED <<snap, stopping, runs, answers, waiterVars>>
        /\ \/ End(u, "dropped") /\ UNCHANGED <<chain, err, local, found, aborted>>
           \/ StartFeed(u, ContextOf(e, t)) /\ outcome' = outcome
    BY Zenon, <1>7 DEF FeedDirect, chainVars, histVars
  <2>2. "dropped" \in Outcomes /\ pc[u] # "done" /\ pc[u] \in {"idle", "build", "ask"}
    BY <2>1 DEF Outcomes
  <2>3. CASE End(u, "dropped") /\ UNCHANGED <<chain, err, local, found, aborted>>
    BY Zenon, <1>2, <1>a, <2>1, <2>2, <2>3
  <2>4. CASE StartFeed(u, ContextOf(e, t)) /\ outcome' = outcome
    BY Zenon, <1>4, <1>c, <1>e, <2>1, <2>2, <2>4
  <2> QED
    BY Zenon, <2>1, <2>3, <2>4
<1>8. CASE ContextBuilt(u)
  <2> DEFINE c == ctx[u]
  <2>1. /\ pc[u] = "build" /\ UNCHANGED <<stopping, runs, answers, waiterVars>>
        /\ \/ End(u, "dropped") /\ UNCHANGED <<snap, chain, err, local, found, aborted>>
           \/ /\ Snapshot(c) # << >> /\ pc' = [pc EXCEPT ![u] = "ask"] /\ snap' = [snap EXCEPT ![u] = Snapshot(c)]
              /\ UNCHANGED <<outcome, chain, err, local, found, aborted>>
           \/ StartFeed(u, c) /\ UNCHANGED <<snap, outcome>>
    BY Zenon, <1>8 DEF ContextBuilt, Set, chainVars, histVars
  <2>2. Snapshot(c) \in Seq(Waiters) /\ \A w \in Waiters : Contains(Snapshot(c), w) => Contains(waiters, w)
    BY Zenon, <1>1, SnapshotFacts
  <2>3. "dropped" \in Outcomes /\ pc[u] # "done" /\ pc[u] \in {"idle", "build", "ask"}
    BY <2>1 DEF Outcomes
  <2> HIDE DEF c
  <2>4. CASE End(u, "dropped") /\ UNCHANGED <<snap, chain, err, local, found, aborted>>
    BY Zenon, <1>2, <1>a, <2>1, <2>3, <2>4
  <2>5. CASE /\ Snapshot(c) # << >> /\ pc' = [pc EXCEPT ![u] = "ask"] /\ snap' = [snap EXCEPT ![u] = Snapshot(c)]
             /\ UNCHANGED <<outcome, chain, err, local, found, aborted>>
    BY Zenon, <1>b, <2>1, <2>2, <2>3, <2>5
  <2>6. CASE StartFeed(u, c) /\ UNCHANGED <<snap, outcome>>
    BY Zenon, <1>4, <1>c, <1>e, <2>1, <2>3, <2>6
  <2> QED
    BY Zenon, <2>1, <2>4, <2>5, <2>6
<1>9. CASE AskWaiter(u, FALSE)
  <2> DEFINE q == Tail(snap[u])
  <2>1. /\ pc[u] = "ask" /\ UNCHANGED <<stopping, runs, answers, waiterVars, outcome>>
        /\ snap' = [snap EXCEPT ![u] = q]
        /\ \/ q # << >> /\ UNCHANGED <<pc, chain, err, local, found, aborted>>
           \/ StartFeed(u, ctx[u])
    BY Zenon, <1>9 DEF AskWaiter, Set, chainVars, waiterVars, histVars
  <2>2. snap[u] # << >>
    BY Zenon, <2>1 DEF DispatchInv, BeforeChain
  <2>3. q \in Seq(Waiters) /\ \A w \in Waiters : Contains(q, w) => Contains(snap[u], w)
    <3>1. /\ q \in Seq(Waiters) /\ Len(q) = Len(snap[u]) - 1
          /\ \A i \in 1..Len(q) : q[i] = snap[u][i + 1] /\ i + 1 \in 1..Len(snap[u])
      BY <1>4, <2>2
    <3> HIDE DEF q
    <3> QED
      BY <3>1 DEF Contains
  <2>4. pc[u] \in {"idle", "build", "ask"} /\ pc = [pc EXCEPT ![u] = "ask"]
    BY <1>4, <2>1
  <2> HIDE DEF q
  <2>5. CASE q # << >> /\ UNCHANGED <<pc, chain, err, local, found, aborted>>
    BY Zenon, <1>b, <2>1, <2>3, <2>4, <2>5
  <2>6. CASE StartFeed(u, ctx[u])
    BY Zenon, <1>c, <2>1, <2>3, <2>4, <2>6
  <2> QED
    BY Zenon, <2>1, <2>5, <2>6
<1>10. CASE HandlerTimeout(u)
  <2>1. /\ pc[u] = "race" /\ aborted' = [aborted EXCEPT ![u] = TRUE] /\ pc' = [pc EXCEPT ![u] = "catch"] /\ Rest
        /\ UNCHANGED <<snap, outcome, chain, err>>
    BY Zenon, <1>10 DEF HandlerTimeout, Set, histVars
  <2>2. pc[u] # "done" /\ err' \in [Updates -> Errors]
    BY <1>1, <2>1
  <2> QED
    BY Zenon, <1>d, <2>1, <2>2
<1>11. CASE ChainSettles(u)
  <2>1. /\ pc[u] = "race" /\ chain[u] \in {"ok", "failed"} /\ err' = [err EXCEPT ![u] = "none"] /\ Rest
        /\ UNCHANGED <<snap, outcome, chain>>
        /\ \/ pc' = [pc EXCEPT ![u] = "count"] /\ aborted' = aborted
           \/ pc' = [pc EXCEPT ![u] = "catch"] /\ aborted' = [aborted EXCEPT ![u] = TRUE]
    BY Zenon, <1>11 DEF ChainSettles, Set, histVars
  <2>2. pc[u] # "done" /\ err' \in [Updates -> Errors] /\ chain[u] \in {"none", "ok", "failed"}
    BY <1>1, <2>1 DEF Errors
  <2> QED
    BY Zenon, <1>3, <1>d, <2>1, <2>2
<1>12. ASSUME Count(u) \/ \E yes \in Swallows : ErrorHandlersAnswer(u, yes) PROVE FeedMove(u) /\ UNCHANGED waiterVars
  <2>1. /\ pc[u] \in {"catch", "count"} /\ Rest /\ UNCHANGED <<snap, chain, err, aborted>>
        /\ \/ End(u, "returned") \/ End(u, "raised")
           \/ pc' = [pc EXCEPT ![u] = "count"] /\ outcome' = outcome
    BY Zenon, <1>12 DEF Count, ErrorHandlersAnswer, Set, chainVars, histVars
  <2>2. pc[u] # "done" /\ {"returned", "raised"} \subseteq Outcomes
    BY <2>1 DEF Outcomes
  <2>3. chain[u] \in {"none", "ok", "failed"} \/ aborted[u]
    BY <2>1 DEF DispatchInv, OutlivesAborted
  <2> QED
    BY Zenon, <1>1, <1>3, <1>a, <1>d, <2>1, <2>2, <2>3
<1> QED
  BY Zenon, <1>5, <1>6, <1>7, <1>8, <1>9, <1>10, <1>11, <1>12 DEF Feeds

(* An update that a waiter takes. *)
LEMMA ConsumeHolds ==
  ASSUME DispatchInv, NEW u \in Updates, AskWaiter(u, TRUE)
  PROVE  DispatchInv' /\ outcome' = [outcome EXCEPT ![u] = "consumed"] /\ Head(snap[u]) \in Waiters
<1> DEFINE w == Head(snap[u])
<1>1. /\ pc \in [Updates -> Pcs] /\ snap \in [Updates -> Seq(Waiters)] /\ chain \in [Updates -> ChainStates]
      /\ outcome \in [Updates -> Outcomes] /\ aborted \in [Updates -> BOOLEAN] /\ err \in [Updates -> Errors]
      /\ settled \in [Waiters -> {"no", "resolved", "timedout"}] /\ got \in [Waiters -> SUBSET Updates]
  BY Zenon DEF DispatchInv, DispatchTypeOK
<1>2. /\ pc[u] = "ask" /\ snap' = [snap EXCEPT ![u] = << >>]
      /\ pc' = [pc EXCEPT ![u] = "done"] /\ outcome' = [outcome EXCEPT ![u] = "consumed"]
      /\ ResolveWaiter(w, u) /\ UNCHANGED <<stopping, runs, answers, chain, err, local, found, aborted>>
  BY Zenon DEF AskWaiter, End, Set, chainVars, histVars
<1>3. snap[u] # << >> /\ chain[u] = "none"
  BY <1>2 DEF DispatchInv, BeforeChain
<1>4. w \in Waiters
  <2>1. snap[u] \in Seq(Waiters)
    BY <1>1
  <2> QED
    BY <1>3, <2>1
<1> HIDE DEF w
<1>5. /\ waiters' = Kept(waiters, Waiters \ {w})
      /\ settled' = IF settled[w] = "no" THEN [settled EXCEPT ![w] = "resolved"] ELSE settled
      /\ got' = IF settled[w] = "no" THEN [got EXCEPT ![w] = {u}] ELSE got
  BY Zenon, <1>2 DEF ResolveWaiter, Set
<1>6. FeedMove(u)
  <2>1. pc'[u] = "done" /\ "done" \in Pcs /\ "done" # "idle" /\ pc'[u] # "ask" /\ pc'[u] \notin {"build", "ask"}
        /\ "consumed" \in Outcomes /\ pc[u] # "done" /\ chain[u] \in {"none", "ok", "failed"}
    BY <1>1, <1>2, <1>3 DEF Pcs, Outcomes
  <2>2. << >> \in Seq(Waiters) /\ \A x \in Waiters : Contains(<< >>, x) => Contains(waiters, x) \/ Contains(snap[u], x)
    BY DEF Contains
  <2>3. aborted[u] \in BOOLEAN /\ aborted' = [aborted EXCEPT ![u] = aborted[u]]
    BY Zenon, <1>1, <1>2
  <2> QED
    BY Zenon, <1>1, <1>2, <2>1, <2>2, <2>3 DEF FeedMove
<1>7. settled' \in [Waiters -> {"no", "resolved", "timedout"}] /\ settled'[w] # "no"
      /\ \A x \in Waiters : x # w => settled'[x] = settled[x]
  BY <1>1, <1>4, <1>5
<1>8. waiters' \in Seq(Waiters) /\ SnapshotKnown'
  BY Zenon, <1>4, <1>5, <1>6, <1>7, FeedPart, SettledPart
<1>9. got' \in [Waiters -> SUBSET Updates]
  BY <1>1, <1>4, <1>5
<1>10. DispatchTypeOK'
  BY Zenon, <1>1, <1>2, <1>6, <1>7, <1>8, <1>9, FeedPart DEF DispatchInv, DispatchTypeOK
<1>11. ConsumedHasNoChain'
  <2> SUFFICES ASSUME NEW v \in Updates, NEW x \in Waiters, v \in got'[x] PROVE pc'[v] = "done" /\ chain'[v] = "none"
    BY Zenon DEF ConsumedHasNoChain
  <2>1. v \in got[x] \/ v = u
    BY <1>1, <1>4, <1>5
  <2>2. CASE v = u
    BY <1>1, <1>2, <1>3, <2>2
  <2>3. CASE v \in got[x]
    BY Zenon, <1>6, <2>3, FeedPart DEF DispatchInv, ConsumedHasNoChain
  <2> QED
    BY <2>1, <2>2, <2>3
<1> QED
  BY Zenon, <1>2, <1>4, <1>6, <1>8, <1>10, <1>11, FeedPart DEF DispatchInv, w

(* waitFor, the timer of a waiter and stop(). *)
LEMMA WaiterHolds ==
  ASSUME DispatchInv, NEW w \in Waiters, WaitFor(w) \/ WaitTimeout(w)
  PROVE  DispatchInv'
<1>1. UNCHANGED <<pc, ctx, snap, outcome, chain, err, local, found, aborted, got, stopping, runs, answers>>
  BY Zenon DEF WaitFor, WaitTimeout, feedVars, chainVars, histVars
<1>2. waiters \in Seq(Waiters) /\ settled \in [Waiters -> {"no", "resolved", "timedout"}]
  BY Zenon DEF DispatchInv, DispatchTypeOK
<1>3. BeforeChain' /\ OutlivesAborted' /\ NoWayBack' /\ ConsumedHasNoChain'
  BY <1>1 DEF DispatchInv, BeforeChain, OutlivesAborted, NoWayBack, ConsumedHasNoChain
<1>4. waiters' \in Seq(Waiters) /\ settled' \in [Waiters -> {"no", "resolved", "timedout"}] /\ SnapshotKnown'
  <2>1. CASE WaitFor(w)
    <3>1. settled[w] = "no" /\ waiters' = Append(waiters, w) /\ settled' = settled
      BY Zenon, <2>1 DEF WaitFor
    <3>2. waiters' \in Seq(Waiters) /\ Len(waiters') = Len(waiters) + 1 /\ waiters'[Len(waiters) + 1] = w
          /\ \A i \in 1..Len(waiters) : waiters'[i] = waiters[i]
      BY <1>2, <3>1
    <3>3. \A x \in Waiters : Contains(waiters', x) <=> Contains(waiters, x) \/ x = w
      BY <1>2, <3>2 DEF Contains
    <3>4. SnapshotKnown'
      <4>1. /\ \A x \in Waiters : Contains(waiters, x) => settled[x] = "no"
            /\ \A v \in Updates, x \in Waiters : Contains(snap[v], x) => Contains(waiters, x) \/ settled[x] # "no"
        BY Zenon DEF DispatchInv, SnapshotKnown
      <4>2. \A x \in Waiters : Contains(waiters', x) => settled'[x] = "no"
        BY Zenon, <3>1, <3>3, <4>1
      <4>3. \A v \in Updates, x \in Waiters : Contains(snap'[v], x) => Contains(waiters', x) \/ settled'[x] # "no"
        BY Zenon, <1>1, <3>1, <3>3, <4>1
      <4> QED
        BY <4>2, <4>3 DEF SnapshotKnown
    <3> QED
      BY <1>2, <3>1, <3>2, <3>4
  <2>2. CASE WaitTimeout(w)
    <3>1. waiters' = Kept(waiters, Waiters \ {w}) /\ settled' = [settled EXCEPT ![w] = "timedout"]
      BY Zenon, <2>2 DEF WaitTimeout, Set
    <3>2. settled' \in [Waiters -> {"no", "resolved", "timedout"}] /\ settled'[w] # "no"
          /\ \A x \in Waiters : x # w => settled'[x] = settled[x]
      BY <1>2, <3>1
    <3>3. \A v \in Updates, x \in Waiters : Contains(snap'[v], x) => Contains(waiters, x) \/ Contains(snap[v], x)
      BY Zenon, <1>1
    <3> QED
      BY Zenon, <3>1, <3>2, <3>3, SettledPart
  <2> QED
    BY Zenon, <2>1, <2>2
<1>5. DispatchTypeOK'
  BY Zenon, <1>1, <1>4 DEF DispatchInv, DispatchTypeOK
<1> QED
  BY Zenon, <1>3, <1>4, <1>5 DEF DispatchInv

LEMMA QuietHolds ==
  ASSUME DispatchInv, Stop \/ UNCHANGED vars
  PROVE  DispatchInv'
<1>1. /\ UNCHANGED <<pc, ctx, snap, outcome, chain, err, local, found, aborted, waiters, settled, got, runs, answers>>
      /\ stopping' \in BOOLEAN
  <2>1. /\ UNCHANGED <<pc, ctx, snap, outcome, chain, err, local, found, aborted, waiters, settled, got, runs, answers>>
        /\ (stopping' = TRUE \/ stopping' = stopping)
    BY Zenon DEF Stop, vars, feedVars, chainVars, waiterVars, histVars
  <2>2. stopping \in BOOLEAN
    BY Zenon DEF DispatchInv, DispatchTypeOK
  <2> QED
    BY Zenon, <2>1, <2>2
<1>2. BeforeChain' /\ OutlivesAborted' /\ NoWayBack' /\ ConsumedHasNoChain' /\ SnapshotKnown'
  BY <1>1 DEF DispatchInv, BeforeChain, OutlivesAborted, NoWayBack, ConsumedHasNoChain, SnapshotKnown, Contains
<1>3. DispatchTypeOK'
  BY Zenon, <1>1 DEF DispatchInv, DispatchTypeOK
<1> QED
  BY Zenon, <1>2, <1>3 DEF DispatchInv

-----------------------------------------------------------------------------
(* Which kind of step the system takes. *)
LEMMA StepKinds ==
  ASSUME [DispatchNext]_vars
  PROVE  \/ \E u \in Updates : ChainStep(u) \/ Handler(u)
         \/ \E u \in Updates : Feeds(u)
         \/ \E u \in Updates : AskWaiter(u, TRUE)
         \/ \E w \in Waiters : WaitFor(w) \/ WaitTimeout(w)
         \/ Stop \/ UNCHANGED vars
  BY Zenon DEF DispatchNext, Feed, FeedStep, Feeds

LEMMA DispatchNextHolds == DispatchInv /\ [DispatchNext]_vars => DispatchInv'
<1> SUFFICES ASSUME DispatchInv, [DispatchNext]_vars PROVE DispatchInv'
  OBVIOUS
<1>1. ASSUME NEW u \in Updates, ChainStep(u) \/ Handler(u) PROVE DispatchInv'
  BY Zenon, <1>1, ChainHolds, ChainMoveHolds
<1>2. ASSUME NEW u \in Updates, Feeds(u) PROVE DispatchInv'
  BY Zenon, <1>2, FeedStepHolds, FeedMoveHolds
<1>3. ASSUME NEW u \in Updates, AskWaiter(u, TRUE) PROVE DispatchInv'
  BY Zenon, <1>3, ConsumeHolds
<1>4. ASSUME NEW w \in Waiters, WaitFor(w) \/ WaitTimeout(w) PROVE DispatchInv'
  BY Zenon, <1>4, WaiterHolds
<1>5. ASSUME Stop \/ UNCHANGED vars PROVE DispatchInv'
  BY Zenon, <1>5, QuietHolds
<1> QED
  BY Zenon, <1>1, <1>2, <1>3, <1>4, <1>5, StepKinds

(* The invariant holds in every state of the dispatcher, whatever the      *)
(* routers, middleware, handlers and waiters are.                          *)
THEOREM DispatchInvariant == DispatchSpec => []DispatchInv
<1>1. DispatchInit => DispatchInv
  BY DispatchInitHolds
<1>2. DispatchInv /\ [DispatchNext]_vars => DispatchInv'
  BY DispatchNextHolds
<1> QED
  BY <1>1, <1>2, PTL DEF DispatchSpec

(* One update starts one handler at most, once, and none if a waiter took  *)
(* it (dispatcher.ts, router.ts, runChain; bot.ts tryResolveWaiter).       *)
THEOREM HandledOnce == DispatchSpec => []HandledAtMostOnce
<1>1. DispatchInv => HandledAtMostOnce
  BY DEF DispatchInv, NoWayBack, ConsumedHasNoChain, HandledAtMostOnce
<1> QED
  BY <1>1, DispatchInvariant, PTL

(* An answer is sent by a chain whose context may write. *)
LEMMA AnswersFromChain ==
  ASSUME NEW u \in Updates, ChainStep(u) \/ Handler(u)
  PROVE  \/ answers' = answers
         \/ /\ answers' = [answers EXCEPT ![u] = @ + 1]
            /\ chain[u] \in {"handler", "fallback", "unwind"} /\ Refused(u) = "none"
<1>1. CASE HandlerAnswers(u)
  BY Zenon, <1>1 DEF HandlerAnswers, RunsUserCode
<1>2. CASE Unwind(u)
  BY Zenon, <1>2 DEF Unwind, InChain
<1>3. ASSUME ~HandlerAnswers(u), ~Unwind(u) PROVE answers' = answers
  BY Zenon, <1>3 DEF ChainStep, Handler, EnterOuter, EnterRouter, MatchRouter, RouterErrors, RetryNext,
                     HandlerReturns, HandlerThrows, histVars
<1> QED
  BY Zenon, <1>1, <1>2, <1>3

(* A handler that outlives the dispatch of its update, and any handler     *)
(* once stop() has begun, sends nothing through its context (dispatcher.ts *)
(* withTimeout, context.ts assertWritable).                                *)
THEOREM NoLateAnswerHolds == DispatchSpec => NoLateAnswer
<1> DEFINE A == \A u \in Updates : answers'[u] # answers[u] => outcome[u] = "none" /\ pc[u] = "race" /\ ~stopping
<1>1. ASSUME DispatchInv, [DispatchNext]_vars PROVE A
  <2>1. ASSUME NEW u \in Updates, ChainStep(u) \/ Handler(u) PROVE A
    <3>1. answers \in [Updates -> Nat]
      BY Zenon, <1>1 DEF DispatchInv, DispatchTypeOK
    <3>2. CASE answers' = answers
      BY <3>2
    <3>3. CASE /\ answers' = [answers EXCEPT ![u] = @ + 1]
               /\ chain[u] \in {"handler", "fallback", "unwind"} /\ Refused(u) = "none"
      <4>1. ~aborted[u] /\ ~stopping
        BY <3>3 DEF Refused
      <4>2. pc[u] = "race"
        BY <1>1, <3>3, <4>1 DEF DispatchInv, OutlivesAborted
      <4>3. outcome[u] = "none"
        BY <1>1, <4>2 DEF DispatchInv, BeforeChain
      <4>4. \A v \in Updates : v # u => answers'[v] = answers[v]
        BY <3>1, <3>3
      <4> QED
        BY Zenon, <4>1, <4>2, <4>3, <4>4
    <3> QED
      BY Zenon, <2>1, <3>2, <3>3, AnswersFromChain
  <2>2. ASSUME NEW u \in Updates, Feeds(u) PROVE A
    <3>1. answers' = answers
      BY Zenon, <1>1, <2>2, FeedStepHolds DEF Feeds, FeedMove
    <3> QED
      BY <3>1
  <2>3. ASSUME NEW u \in Updates, AskWaiter(u, TRUE) PROVE A
    <3>1. answers' = answers
      BY Zenon, <2>3 DEF AskWaiter, histVars
    <3> QED
      BY <3>1
  <2>4. ASSUME NEW w \in Waiters, WaitFor(w) \/ WaitTimeout(w) PROVE A
    <3>1. answers' = answers
      BY Zenon, <2>4 DEF WaitFor, WaitTimeout, histVars
    <3> QED
      BY <3>1
  <2>5. ASSUME Stop \/ UNCHANGED vars PROVE A
    <3>1. answers' = answers
      BY Zenon, <2>5 DEF Stop, vars, histVars
    <3> QED
      BY <3>1
  <2> QED
    BY Zenon, <1>1, <2>1, <2>2, <2>3, <2>4, <2>5, StepKinds
<1>2. DispatchInv /\ [DispatchNext]_vars => [A]_vars
  BY Zenon, <1>1
<1> QED
  BY <1>2, DispatchInvariant, PTL DEF DispatchSpec, NoLateAnswer

(* Only an update that a waiter takes ends as consumed. *)
LEMMA OtherOutcomes ==
  ASSUME NEW u \in Updates, Feeds(u)
  PROVE  outcome' = outcome \/ \E o \in {"dropped", "returned", "raised"} : outcome' = [outcome EXCEPT ![u] = o]
  BY Zenon DEF Feeds, FeedRoomEvent, FeedEphemeral, FeedDirect, ContextBuilt, AskWaiter, HandlerTimeout, ChainSettles,
               Count, ErrorHandlersAnswer, End, Set, StartFeed

(* An update taken from the routers for a waiter that is still registered  *)
(* reaches it; otherwise that waiter was settled while its filter was      *)
(* awaited (bot.ts tryResolveWaiter).                                      *)
THEOREM ConsumedIsDeliveredHolds == DispatchSpec => ConsumedIsDelivered
<1> DEFINE Delivered(u, w) ==
             IF Contains(waiters, w) THEN got'[w] = {u} /\ ~Contains(waiters', w) ELSE settled[w] # "no"
           A == \A u \in Updates : outcome'[u] = "consumed" /\ outcome[u] = "none" => Delivered(u, Head(snap[u]))
<1>1. ASSUME DispatchInv, [DispatchNext]_vars PROVE A
  <2>0. outcome \in [Updates -> Outcomes] /\ waiters \in Seq(Waiters) /\ got \in [Waiters -> SUBSET Updates]
        /\ snap \in [Updates -> Seq(Waiters)]
    BY Zenon, <1>1 DEF DispatchInv, DispatchTypeOK
  <2>1. ASSUME outcome' = outcome PROVE A
    BY <2>1
  <2>2. ASSUME NEW u \in Updates, ChainStep(u) \/ Handler(u) PROVE A
    <3>1. outcome' = outcome
      BY Zenon, <1>1, <2>2, ChainHolds DEF ChainMove, feedVars
    <3> QED
      BY Zenon, <2>1, <3>1
  <2>3. ASSUME NEW u \in Updates, Feeds(u) PROVE A
    <3>1. ASSUME NEW o \in {"dropped", "returned", "raised"}, outcome' = [outcome EXCEPT ![u] = o] PROVE A
      BY <2>0, <3>1
    <3> QED
      BY Zenon, <2>1, <2>3, <3>1, OtherOutcomes
  <2>4. ASSUME NEW u \in Updates, AskWaiter(u, TRUE) PROVE A
    <3> DEFINE w == Head(snap[u])
    <3>1. outcome' = [outcome EXCEPT ![u] = "consumed"] /\ w \in Waiters
      BY Zenon, <1>1, <2>4, ConsumeHolds
    <3>2. pc[u] = "ask" /\ ResolveWaiter(w, u)
      BY Zenon, <2>4 DEF AskWaiter
    <3>3. Contains(snap[u], w)
      <4>1. snap[u] # << >> /\ snap[u] \in Seq(Waiters)
        BY <1>1, <2>0, <3>2 DEF DispatchInv, BeforeChain
      <4> QED
        BY <4>1 DEF Contains
    <3> HIDE DEF w
    <3>4. (Contains(waiters, w) => settled[w] = "no") /\ (Contains(waiters, w) \/ settled[w] # "no")
      BY Zenon, <1>1, <3>1, <3>3 DEF DispatchInv, SnapshotKnown
    <3>5. /\ waiters' = Kept(waiters, Waiters \ {w})
          /\ got' = IF settled[w] = "no" THEN [got EXCEPT ![w] = {u}] ELSE got
      BY Zenon, <3>2 DEF ResolveWaiter, Set
    <3>6. ~Contains(waiters', w)
      BY Zenon, <2>0, <3>1, <3>5, WaiterRemoved
    <3>7. Contains(waiters, w) => got'[w] = {u}
      BY <2>0, <3>1, <3>4, <3>5
    <3>8. Delivered(u, w)
      BY Zenon, <3>4, <3>6, <3>7
    <3>9. \A v \in Updates : v # u => outcome'[v] = outcome[v]
      BY <2>0, <3>1
    <3> SUFFICES ASSUME NEW v \in Updates, outcome'[v] = "consumed" /\ outcome[v] = "none" PROVE Delivered(v, Head(snap[v]))
      BY Zenon
    <3>10. v = u
      BY <3>9
    <3> QED
      BY Zenon, <3>8, <3>10 DEF w
  <2>5. ASSUME NEW w \in Waiters, WaitFor(w) \/ WaitTimeout(w) PROVE A
    <3>1. outcome' = outcome
      BY Zenon, <2>5 DEF WaitFor, WaitTimeout, feedVars
    <3> QED
      BY Zenon, <2>1, <3>1
  <2>6. ASSUME Stop \/ UNCHANGED vars PROVE A
    <3>1. outcome' = outcome
      BY Zenon, <2>6 DEF Stop, vars, feedVars
    <3> QED
      BY Zenon, <2>1, <3>1
  <2> QED
    BY Zenon, <1>1, <2>2, <2>3, <2>4, <2>5, <2>6, StepKinds
<1>2. DispatchInv /\ [DispatchNext]_vars => [A]_vars
  BY Zenon, <1>1
<1> QED
  BY <1>2, DispatchInvariant, PTL DEF DispatchSpec, ConsumedIsDelivered
=============================================================================
