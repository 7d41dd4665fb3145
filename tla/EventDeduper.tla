---------------------------- MODULE EventDeduper ----------------------------
(***************************************************************************)
(* The ring of recently seen events (EventDeduper, dispatch-queue.ts): an  *)
(* array that grows at its end, a head index that is advanced in place of  *)
(* shifting, and a set for the lookup.  The array is cut back when the     *)
(* head has moved past the capacity.                                       *)
(***************************************************************************)
EXTENDS Integers, Sequences

CONSTANTS
  Keys,     \* (roomId, eventId) pairs
  Capacity  \* the constructor's argument (2048 in the client)

ASSUME CapacityAssumption == Capacity \in Int

VARIABLES
  order,     \* the keys in the order they were recorded
  head,      \* how many of them are out of the window
  set,       \* the keys seen() answers true for
  age,       \* history: how many keys were recorded since this one, up to Cap
  forgotten  \* history: keys forget() was ever called with

dedupVars == <<order, head, set, age, forgotten>>

(* The constructor clamps the capacity. *)
Cap == IF Capacity > 1 THEN Capacity ELSE 1

DedupTypeOK ==
  /\ order \in Seq(Keys)
  /\ head \in 0..Cap
  /\ set \subseteq Keys
  /\ age \in [Keys -> 0..Cap]
  /\ forgotten \subseteq Keys

DedupInit ==
  /\ order = <<>>
  /\ head = 0
  /\ set = {}
  /\ age = [k \in Keys |-> Cap]
  /\ forgotten = {}

-----------------------------------------------------------------------------
(* seen() on a key it holds: true, nothing changes. *)
SeenAgain(k) ==
  /\ k \in set
  /\ UNCHANGED dedupVars

Older(n) == IF n < Cap THEN n + 1 ELSE Cap
Aged(k) == [j \in Keys |-> IF j = k THEN 0 ELSE Older(age[j])]

(* seen() on a new key while the window has room: false, recorded. *)
SeenFirst(k) ==
  /\ k \notin set
  /\ Len(order) + 1 - head <= Cap
  /\ order' = Append(order, k)
  /\ set' = set \cup {k}
  /\ age' = Aged(k)
  /\ UNCHANGED <<head, forgotten>>

(* The array cut back one round early, with an entry of the window. *)
CutBackTooMuch(s, h) ==
  IF h >= Cap
  THEN order' = SubSeq(s, h + 2, Len(s)) /\ head' = 0
  ELSE order' = s /\ head' = h

(* splice(0, head) once the head has moved past the capacity. *)
CutBack(s, h) ==
  IF h > Cap
  THEN order' = SubSeq(s, h + 1, Len(s)) /\ head' = 0
  ELSE order' = s /\ head' = h

(* The newest entry dropped in place of the oldest one. *)
StaleNewest(s) == s[Len(s)]

Stale(s) == s[head + 1]

(* seen() on a new key while the window is full: the oldest entry goes. *)
SeenEvicting(k) ==
  /\ k \notin set
  /\ Len(order) + 1 - head > Cap
  /\ LET s == Append(order, k) IN
       /\ set' = (set \cup {k}) \ {Stale(s)}
       /\ CutBack(s, head + 1)
  /\ age' = Aged(k)
  /\ UNCHANGED forgotten

(* forget(): the key leaves the set but not the array. *)
Forget(k) ==
  /\ set' = set \ {k}
  /\ age' = [age EXCEPT ![k] = Cap]
  /\ forgotten' = forgotten \cup {k}
  /\ UNCHANGED <<order, head>>

DedupNext == \E k \in Keys : SeenAgain(k) \/ SeenFirst(k) \/ SeenEvicting(k) \/ Forget(k)

DedupSpec == DedupInit /\ [][DedupNext]_dedupVars

-----------------------------------------------------------------------------
(* "Ring buffer of recently seen (roomId, eventId) pairs": an event is     *)
(* recognised until `capacity` newer ones were recorded, wherever the head *)
(* is and whenever the array is cut back, as long as nobody forgot it.     *)
RemembersWindow == \A k \in Keys \ forgotten : age[k] < Cap => k \in set

(* seen() answers true only for an event that was recorded among the last  *)
(* `capacity` ones and not forgotten since: no new event is ever dropped.  *)
NoFalseDuplicate == \A k \in set : age[k] < Cap

(* "Amortised O(1) eviction": the array never grows past twice the         *)
(* capacity, forgotten entries included.                                   *)
Bounded == Len(order) <= 2 * Cap
=============================================================================
