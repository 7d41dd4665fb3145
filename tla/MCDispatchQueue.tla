--------------------------- MODULE MCDispatchQueue ---------------------------
(* Instances of the two classes of dispatch-queue.ts for TLC: a noisy room  *)
(* with three callers and two quieter rooms; more keys than the window of   *)
(* the deduper holds.  The classes share no state, so a behaviour is one of *)
(* either of them.                                                          *)
EXTENDS DispatchQueue, EventDeduper

CONSTANTS a1, a2, a3, b1, b2, c1, ra, rb, rc

VARIABLE class  \* the class this behaviour is of

Callers == {a1, a2, a3, b1, b2, c1}

RoomOfCaller ==
  [t \in Callers |-> CASE t \in {a1, a2, a3} -> ra [] t \in {b1, b2} -> rb [] OTHER -> rc]

ClassesInit == Init /\ DedupInit /\ class \in {"DispatchQueue", "EventDeduper"}

ClassesNext ==
  \/ class = "DispatchQueue" /\ Next /\ UNCHANGED <<dedupVars, class>>
  \/ class = "EventDeduper" /\ DedupNext /\ UNCHANGED <<vars, class>>

ClassesSpec == ClassesInit /\ [][ClassesNext]_<<vars, dedupVars, class>> /\ Fairness
=============================================================================
