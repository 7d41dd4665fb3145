----------------------------- MODULE FsmStorage -----------------------------
(***************************************************************************)
(* The state of dialogs: FSMContext and its storages (fsm.ts, RedisStorage *)
(* of redis-stores.ts), and the conversations of conversation.ts, which    *)
(* keep their place in such a storage.  A record's data is the set of the  *)
(* fields it holds; every FSMContext call writes a field of its own.       *)
(***************************************************************************)
EXTENDS Clock, SequencesExt

CONSTANTS
  Calls,       \* FSMContext calls
  KindOf,      \* call -> "setState", "setData", "updateData", "set" or "clear"
  KeyOf,       \* call -> its storage key
  ConvKey,     \* the storage key of the conversation
  Ttl,         \* ttlMs of the contexts
  MaxEntries,  \* maxEntries of MemoryStorage
  Steps,       \* number of steps of the conversation
  Null

FsmKeys == {KeyOf[c] : c \in Calls}
StorageKeys == FsmKeys \cup {ConvKey}
Forever == MaxTime + Ttl + 1

ASSUME FsmAssumption ==
  /\ {Ttl, MaxEntries, Steps} \subseteq Nat \ {0}
  /\ KindOf \in [Calls -> {"setState", "setData", "updateData", "set", "clear"}]
  /\ ConvKey \notin FsmKeys

VARIABLES
  backend,   \* "memory", "file" or "redis"
  map,       \* key -> its record [state, data, step, exp], or NoRecord
  order,     \* the keys of a MemoryStorage, oldest first
  disk,      \* key -> its record in the file
  dirty,
  flushDue,  \* flushTimer is set
  closed,    \* close() was called
  call,      \* call -> [pc, got, ver]: where it is, what it has loaded and when
  conv,      \* the conversation: [pc, i, stop]
  want,      \* history: key -> [data, due], as if every call were one step
  version,   \* history: key -> number of writes
  torn,      \* history: keys written by a call that another one, or the expiry
             \* of what it had loaded, overlapped
  lost,      \* history: keys evicted
  unwritten, \* history: the last write to the file failed
  late,      \* history: a change came after close()
  turn,      \* history: the step after the last one the conversation handled
  kept       \* history: the step after the last one whose save a process that
             \* died now would leave behind

fsmVars == <<backend, map, order, disk, dirty, flushDue, closed, call, conv,
             want, version, torn, lost, unwritten, late, turn, kept>>

NoRecord == [state |-> Null, data |-> {}, step |-> 0, exp |-> 0]
NotCalled == [pc |-> "idle", got |-> NoRecord, ver |-> 0]
NoTalk == [pc |-> "off", i |-> 0, stop |-> FALSE]

Records == [state : Calls \cup {Null}, data : SUBSET Calls, step : Nat, exp : Nat]

FsmTypeOK ==
  /\ backend \in {"memory", "file", "redis"}
  /\ map \in [StorageKeys -> Records] /\ disk \in [StorageKeys -> Records]
  /\ order \in Seq(StorageKeys)
  /\ call \in [Calls -> [pc : {"idle", "deleting", "loaded", "done"}, got : Records, ver : Nat]]
  /\ conv \in [pc : {"off", "waiting", "saving", "finishing"}, i : 0..(Steps - 1), stop : BOOLEAN]
  /\ want \in [FsmKeys -> [data : SUBSET Calls, due : Nat]]
  /\ version \in [FsmKeys -> Nat]
  /\ torn \subseteq FsmKeys /\ lost \subseteq StorageKeys
  /\ {dirty, flushDue, closed, unwritten, late} \subseteq BOOLEAN
  /\ turn \in 0..Steps /\ kept \in 0..Steps

FsmInit ==
  /\ map = [k \in StorageKeys |-> NoRecord] /\ order = <<>>
  /\ disk = [k \in StorageKeys |-> NoRecord]
  /\ dirty = FALSE /\ flushDue = FALSE /\ closed = FALSE
  /\ call = [c \in Calls |-> NotCalled]
  /\ conv = NoTalk
  /\ want = [k \in FsmKeys |-> [data |-> {}, due |-> 0]]
  /\ version = [k \in FsmKeys |-> 0]
  /\ torn = {} /\ lost = {} /\ unwritten = FALSE /\ late = FALSE
  /\ turn = 0 /\ kept = 0

-----------------------------------------------------------------------------
Held(k) == map[k] # NoRecord
IsExpired(r) == r.exp <= now
Found(k) == IF IsExpired(map[k]) THEN NoRecord ELSE map[k]

(* scheduleFlush of JsonFileStorage; the other storages keep no file. *)
ScheduleFlush ==
  /\ dirty' = (backend = "file")
  /\ flushDue' = (backend = "file")
  /\ unwritten' = FALSE
  /\ late' = (late \/ closed)

Written(ks) == version' = [k \in FsmKeys |-> IF k \in ks THEN version[k] + 1 ELSE version[k]]

(* set: MemoryStorage at its limit drops the key it has held longest. *)
StoreSet(k, r) ==
  LET bounded == backend = "memory" /\ ~Held(k)
      gone == IF bounded /\ Len(order) >= MaxEntries THEN {Head(order)} ELSE {}
  IN /\ map' = [j \in StorageKeys |-> IF j = k THEN r ELSE IF j \in gone THEN NoRecord ELSE map[j]]
     /\ order' = IF bounded THEN Append(IF gone = {} THEN order ELSE Tail(order), k) ELSE order
     /\ lost' = (lost \ {k}) \cup gone
     /\ Written({k} \cup gone)
     /\ ScheduleFlush
     /\ UNCHANGED disk

Removed(k) ==
  /\ map' = [map EXCEPT ![k] = NoRecord]
  /\ IF Contains(order, k)
     THEN order' = RemoveAt(order, CHOOSE i \in DOMAIN order : order[i] = k)
     ELSE UNCHANGED order
  /\ UNCHANGED disk

StoreDelete(k) ==
  /\ Removed(k) /\ Written({k})
  /\ lost' = lost \ {k}
  /\ IF Held(k) THEN ScheduleFlush ELSE UNCHANGED <<dirty, flushDue, unwritten, late>>

(* get: an expired record is deleted. *)
StoreGet(k) ==
  IF Held(k) /\ IsExpired(map[k]) THEN Removed(k) /\ ScheduleFlush
  ELSE UNCHANGED <<map, order, disk, dirty, flushDue, unwritten, late>>

-----------------------------------------------------------------------------
(* An FSMContext call awaits the get of the storage, and goes on with the   *)
(* copy it returned.                                                       *)
Load(c) ==
  LET k == KeyOf[c] IN
  /\ call[c].pc = "idle" /\ KindOf[c] # "clear"
  /\ backend # "redis" \/ ~(Held(k) /\ IsExpired(map[k]))
  /\ StoreGet(k)
  /\ call' = [call EXCEPT ![c] = [pc |-> "loaded", got |-> Found(k), ver |-> version[k]]]
  /\ UNCHANGED <<backend, closed, conv, want, version, torn, lost, turn, kept>>

(* RedisStorage.get has read a record the server has not dropped yet, and   *)
(* deletes it ...                                                          *)
LoadExpired(c) ==
  LET k == KeyOf[c] IN
  /\ call[c].pc = "idle" /\ KindOf[c] # "clear"
  /\ backend = "redis" /\ Held(k) /\ IsExpired(map[k])
  /\ call' = [call EXCEPT ![c] = [pc |-> "deleting", got |-> NoRecord, ver |-> version[k]]]
  /\ UNCHANGED <<backend, map, order, disk, dirty, flushDue, closed, conv, want, version, torn, lost,
                 unwritten, late, turn, kept>>

(* ... when another call may have written the key anew. *)
DeleteExpired(c) ==
  LET k == KeyOf[c] IN
  /\ call[c].pc = "deleting"
  /\ Removed(k)
  /\ torn' = IF call[c].ver = version[k] THEN torn ELSE torn \cup {k}
  /\ call' = [call EXCEPT ![c].pc = "loaded"]
  /\ UNCHANGED <<backend, dirty, flushDue, closed, conv, want, version, lost, unwritten, late, turn, kept>>

(* updateData and set that forget to merge. *)
PatchReplacing(c, r) ==
  [state |-> IF KindOf[c] \in {"setState", "set"} THEN c ELSE r.state,
   data |-> IF KindOf[c] = "setState" THEN r.data ELSE {c}, step |-> r.step, exp |-> r.exp]

Patch(c, r) ==
  CASE KindOf[c] = "setState"   -> [r EXCEPT !.state = c]
    [] KindOf[c] = "setData"    -> [r EXCEPT !.data = {c}]
    [] KindOf[c] = "updateData" -> [r EXCEPT !.data = @ \cup {c}]
    [] KindOf[c] = "set"        -> [r EXCEPT !.state = c, !.data = @ \cup {c}]

(* ... changes it, and persists it with a new expiry. *)
Persist(c) ==
  LET k == KeyOf[c]
      had == IF want[k].due > now /\ k \notin lost THEN want[k].data ELSE {}
      has == CASE KindOf[c] = "setState" -> had
               [] KindOf[c] = "setData" -> {c}
               [] OTHER -> had \cup {c}
  IN /\ call[c].pc = "loaded"
     /\ StoreSet(k, [Patch(c, call[c].got) EXCEPT !.exp = now + Ttl])
     /\ call' = [call EXCEPT ![c] = [NotCalled EXCEPT !.pc = "done"]]
     /\ want' = [want EXCEPT ![k] = [data |-> has, due |-> now + Ttl]]
     /\ torn' = IF call[c].ver = version[k] /\ (call[c].got = NoRecord \/ ~IsExpired(call[c].got)) THEN torn
                ELSE torn \cup {k}
     /\ UNCHANGED <<backend, closed, conv, turn, kept>>

Clear(c) ==
  /\ call[c].pc = "idle" /\ KindOf[c] = "clear"
  /\ StoreDelete(KeyOf[c])
  /\ call' = [call EXCEPT ![c].pc = "done"]
  /\ want' = [want EXCEPT ![KeyOf[c]] = [data |-> {}, due |-> 0]]
  /\ UNCHANGED <<backend, closed, conv, torn, turn, kept>>

-----------------------------------------------------------------------------
(* One step too far. *)
ResumeBehind(saved) == IF saved > 0 /\ saved < Steps - 1 THEN saved + 1 ELSE 0

(* The step a conversation goes on with. *)
Resume(saved) == IF saved < Steps THEN saved ELSE 0

(* Conversation.run: where the saved record says, or from the start; a     *)
(* conversation that was complete begins anew.                             *)
ConvRun ==
  /\ conv.pc = "off"
  /\ StoreGet(ConvKey)
  /\ conv' = [NoTalk EXCEPT !.pc = "waiting", !.i = Resume(Found(ConvKey).step)]
  /\ turn' = IF turn = Steps THEN 0 ELSE turn
  /\ UNCHANGED <<backend, closed, call, want, version, torn, lost, kept>>

(* waitFor has the update, and handle returns, perhaps "cancel". *)
ConvHandle(cancel) ==
  /\ conv.pc = "waiting"
  /\ conv' = [conv EXCEPT !.pc = "saving", !.stop = cancel]
  /\ turn' = conv.i + 1
  /\ UNCHANGED <<backend, map, order, disk, dirty, flushDue, closed, call, want, version, torn, lost,
                 unwritten, late, kept>>

(* The wait times out, or handle throws: nothing is saved. *)
ConvEnds ==
  /\ conv.pc = "waiting"
  /\ conv' = NoTalk
  /\ UNCHANGED <<backend, map, order, disk, dirty, flushDue, closed, call, want, version, torn, lost,
                 unwritten, late, turn, kept>>

(* The server keeps what a RedisStorage writes; a file is written later. *)
Keeps(i) == kept' = IF backend = "redis" THEN i ELSE kept

(* The next index is saved, after a "cancel" too. *)
ConvSave ==
  /\ conv.pc = "saving"
  /\ StoreSet(ConvKey, [NoRecord EXCEPT !.step = conv.i + 1, !.exp = Forever])
  /\ Keeps(conv.i + 1)
  /\ conv' = IF conv.stop THEN NoTalk
             ELSE IF conv.i + 1 < Steps THEN [conv EXCEPT !.pc = "waiting", !.i = @ + 1]
             ELSE [conv EXCEPT !.pc = "finishing"]
  /\ UNCHANGED <<backend, closed, call, want, torn, turn>>

ConvFinish ==
  /\ conv.pc = "finishing"
  /\ StoreDelete(ConvKey)
  /\ Keeps(0) /\ turn' = 0
  /\ conv' = NoTalk
  /\ UNCHANGED <<backend, closed, call, want, torn>>

-----------------------------------------------------------------------------
WriteFile(ok) ==
  /\ flushDue' = FALSE
  /\ IF dirty /\ ok THEN disk' = [k \in StorageKeys |-> Found(k)] /\ dirty' = FALSE
     ELSE UNCHANGED <<disk, dirty>>
  /\ kept' = IF ~(dirty /\ ok) THEN kept ELSE IF conv.pc = "saving" THEN conv.i ELSE turn
  /\ unwritten' = (dirty /\ ~ok)
  /\ UNCHANGED <<backend, map, order, call, conv, want, version, torn, lost, late, turn>>

(* The flush timer fires; the file is written, or cannot be. *)
Flush(ok) == flushDue /\ WriteFile(ok) /\ UNCHANGED closed

(* close that only clears the timer. *)
CloseUnflushed(ok) ==
  /\ closed' = TRUE /\ flushDue' = FALSE
  /\ UNCHANGED <<backend, map, order, disk, dirty, call, conv, want, version, torn, lost, unwritten, late,
                 turn, kept>>

(* close *)
CloseStorage(ok) == closed' = TRUE /\ WriteFile(ok)

(* A new process; the constructor of JsonFileStorage reads the file. *)
Reload ==
  LET back == CASE backend = "redis" -> map
                [] backend = "memory" -> [k \in StorageKeys |-> NoRecord]
                [] backend = "file" -> [k \in StorageKeys |-> IF IsExpired(disk[k]) THEN NoRecord ELSE disk[k]]
  IN /\ map' = back /\ order' = <<>>
     /\ lost' = {}
     /\ dirty' = FALSE /\ flushDue' = FALSE /\ closed' = FALSE
     /\ unwritten' = FALSE /\ late' = FALSE
     /\ call' = [c \in Calls |-> NotCalled]
     /\ conv' = NoTalk /\ turn' = kept
     /\ want' = [k \in FsmKeys |-> [data |-> back[k].data, due |-> back[k].exp]]
     /\ UNCHANGED <<backend, disk, version, torn, kept>>

-----------------------------------------------------------------------------
(* A key holds what the calls wrote to it one after the other, until it     *)
(* expires, unless two of them overlapped (or the record expired under one) *)
(* or the key was lost: updateData merges, set and setState keep the data,  *)
(* a call renews the expiry.                                                *)
SerialIfAlone ==
  \A k \in FsmKeys \ (torn \cup lost) :
    Found(k).data = IF want[k].due > now THEN want[k].data ELSE {}

(* "mid-flight data and step index resume after process restart": the steps *)
(* are handled in order, none skipped and none repeated, however often the  *)
(* wait times out, handle throws or the bot is stopped in between.  Only a  *)
(* process that dies takes the conversation back, to the step after the     *)
(* last one whose save had reached the storage; and a conversation that the *)
(* memory storage evicted begins anew.                                      *)
ConversationResumes ==
  [][conv.pc = "waiting" /\ conv'.pc = "saving" =>
       conv.i = turn \/ (ConvKey \in lost /\ conv.i = 0)]_fsmVars
=============================================================================
