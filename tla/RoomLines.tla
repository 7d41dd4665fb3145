------------------------------ MODULE RoomLines ------------------------------
(***************************************************************************)
(* What DispatchQueue promises its callers, without its counter, its set   *)
(* of busy rooms and its single list of waiters: every room has a FIFO     *)
(* line and at most one holder, and at most Limit callers hold a slot.     *)
(***************************************************************************)
EXTENDS Integers, FiniteSets, Sequences

CONSTANTS Tasks, Rooms, RoomOf, Limit

VARIABLES
  line,     \* the callers waiting in each room, in order of submission
  holders,  \* the callers that hold a slot
  shut      \* no further caller is admitted

vars == <<line, holders, shut>>

Init ==
  /\ line = [r \in Rooms |-> <<>>]
  /\ holders = {}
  /\ shut = FALSE

Busy(r) == \E t \in holders : RoomOf[t] = r

Admissible(r) == ~shut /\ ~Busy(r) /\ Cardinality(holders) < Limit

Waiting(t) == \E i \in 1..Len(line[RoomOf[t]]) : line[RoomOf[t]][i] = t

(* A caller joins the end of its room's line. *)
Join(t) ==
  /\ ~shut
  /\ t \notin holders /\ ~Waiting(t)
  /\ line' = [line EXCEPT ![RoomOf[t]] = Append(@, t)]
  /\ UNCHANGED <<holders, shut>>

(* A caller that finds nobody before it in its room is admitted at once. *)
AdmitNew(t) ==
  /\ Admissible(RoomOf[t])
  /\ line[RoomOf[t]] = <<>>
  /\ holders' = holders \cup {t}
  /\ UNCHANGED <<line, shut>>

(* The first of a room's line is admitted. *)
AdmitFirst(r) ==
  /\ Admissible(r)
  /\ line[r] # <<>>
  /\ holders' = holders \cup {Head(line[r])}
  /\ line' = [line EXCEPT ![r] = Tail(@)]
  /\ UNCHANGED shut

Leave(t) ==
  /\ t \in holders
  /\ holders' = holders \ {t}
  /\ UNCHANGED <<line, shut>>

(* Everybody in line is turned away. *)
Shut ==
  /\ ~shut
  /\ shut' = TRUE
  /\ line' = [r \in Rooms |-> <<>>]
  /\ UNCHANGED holders

Next ==
  \/ \E t \in Tasks : Join(t) \/ AdmitNew(t) \/ Leave(t)
  \/ \E r \in Rooms : AdmitFirst(r)
  \/ Shut

Spec == Init /\ [][Next]_vars
=============================================================================
