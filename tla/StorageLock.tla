----------------------------- MODULE StorageLock -----------------------------
(***************************************************************************)
(* The lock on a storage directory (storage-lock.ts) as Bot.create and     *)
(* Bot.stop use it, seen from several processes that share the directory.  *)
(* The file `aiomatrix.lock` holds a pid.  Each system call is a step of   *)
(* its own: between reading the file and writing (or unlinking) it another *)
(* process may run, but not another bot of the same process.  Nothing keeps*)
(* two processes from reading the file before either has written it.       *)
(***************************************************************************)
EXTENDS FiniteSets

CONSTANTS
  Bots,           \* one StorageLock object each
  Pids,           \* process ids; a new process may get the pid of a dead one
  PidOf,          \* the process each bot runs in
  NoPid           \* an absent or unreadable lock file

ASSUME PidAssumption == PidOf \in [Bots -> Pids] /\ NoPid \notin Pids

VARIABLES
  file,    \* the pid in aiomatrix.lock, or NoPid
  alive,   \* the running processes
  state,   \* where each bot is
  raced,   \* history: {b, c} if the last acquire() of one had read the file
           \* and not yet written it when that of the other read it
  bared    \* history: holders whose pid is gone from the file: written over
           \* by a bot they raced with, or removed by one so bared itself

history == <<raced, bared>>
vars == <<file, alive, state, history>>

(* "opened": createMatrixClient has logged in and opened the stores;       *)
(* "claiming": acquire() has read the file and will write it;              *)
(* "unlinking": release() has read the file and will remove it;            *)
(* "busy", "self": acquire() threw because the pid in the file runs, or is *)
(* its own.                                                                *)
BotStates == {"off", "opened", "claiming", "held", "unlinking", "busy", "self"}

TypeOK ==
  /\ file \in Pids \cup {NoPid}
  /\ alive \subseteq Pids
  /\ state \in [Bots -> BotStates]
  /\ raced \subseteq SUBSET Bots /\ bared \subseteq Bots

Init ==
  /\ file = NoPid
  /\ alive = {}
  /\ state = [b \in Bots |-> "off"]
  /\ raced = {} /\ bared = {}

Holding(b) == state[b] \in {"held", "unlinking"}

Goto(b, s) == state' = [state EXCEPT ![b] = s]

(* A synchronous section of the process of b is not interrupted by its     *)
(* other bots.                                                             *)
CanStep(b) ==
  /\ PidOf[b] \in alive
  /\ \A c \in Bots \ {b} : PidOf[c] = PidOf[b] => state[c] \notin {"claiming", "unlinking"}

(* Bot.create: createMatrixClient runs before the lock is taken. *)
OpenStores(b) ==
  /\ CanStep(b)
  /\ state[b] = "off"
  /\ Goto(b, "opened")
  /\ UNCHANGED <<file, alive, history>>

(* isPidAlive answering "dead" for a process that runs. *)
IsPidAliveNever(p) == FALSE

IsPidAlive(p) == p \in alive

MayStartAcquire(b) == CanStep(b) /\ state[b] = "opened"

(* acquire() throws "already locked in this process". *)
AcquireOwnPid(b) ==
  /\ MayStartAcquire(b)
  /\ file = PidOf[b]
  /\ Goto(b, "self")
  /\ UNCHANGED <<file, alive, history>>

(* acquire() throws "is locked by pid". *)
AcquireBusy(b) ==
  /\ MayStartAcquire(b)
  /\ file \notin {NoPid, PidOf[b]}
  /\ IsPidAlive(file)
  /\ Goto(b, "busy")
  /\ UNCHANGED <<file, alive, history>>

(* acquire() finds no lock, or the lock of a dead process. *)
AcquireRead(b) ==
  /\ MayStartAcquire(b)
  /\ file # PidOf[b]
  /\ file # NoPid => ~IsPidAlive(file)
  /\ Goto(b, "claiming")
  /\ raced' = {pair \in raced : b \notin pair} \cup {{b, c} : c \in {d \in Bots : state[d] = "claiming"}}
  /\ UNCHANGED <<file, alive, bared>>

(* ... and writes its pid over whatever is there by now (writeJsonAtomic). *)
AcquireWrite(b) ==
  /\ PidOf[b] \in alive
  /\ state[b] = "claiming"
  /\ file' = PidOf[b]
  /\ Goto(b, "held")
  /\ bared' = (bared \cup {c \in Bots : Holding(c) /\ {b, c} \in raced}) \ {b}
  /\ UNCHANGED <<alive, raced>>

(* release(): the file is removed only if it still names this process. *)
ReleaseRead(b) ==
  /\ CanStep(b)
  /\ state[b] = "held"
  /\ IF file = PidOf[b] THEN Goto(b, "unlinking") /\ UNCHANGED bared
     ELSE Goto(b, "off") /\ bared' = bared \ {b}
  /\ UNCHANGED <<file, alive, raced>>

ReleaseUnlink(b) ==
  /\ PidOf[b] \in alive
  /\ state[b] = "unlinking"
  /\ file' = NoPid
  /\ Goto(b, "off")
  /\ bared' = (IF b \in bared THEN bared \cup {c \in Bots : Holding(c)} ELSE bared) \ {b}
  /\ UNCHANGED <<alive, raced>>

(* The caller of Bot.create handles the error and may create a bot again. *)
GiveUp(b) ==
  /\ CanStep(b)
  /\ state[b] \in {"busy", "self"}
  /\ Goto(b, "off")
  /\ UNCHANGED <<file, alive, history>>

(* A process starts, possibly with the pid an earlier one had. *)
Spawn(p) ==
  /\ p \notin alive
  /\ alive' = alive \cup {p}
  /\ UNCHANGED <<file, state, history>>

(* A process dies at any point; the file stays. *)
Crash(p) ==
  /\ p \in alive
  /\ alive' = alive \ {p}
  /\ state' = [b \in Bots |-> IF PidOf[b] = p THEN "off" ELSE state[b]]
  /\ bared' = {b \in bared : PidOf[b] # p}
  /\ UNCHANGED <<file, raced>>

BotStep(b) ==
  \/ OpenStores(b)
  \/ AcquireOwnPid(b) \/ AcquireBusy(b) \/ AcquireRead(b) \/ AcquireWrite(b)
  \/ ReleaseRead(b) \/ ReleaseUnlink(b) \/ GiveUp(b)

Next ==
  \/ \E b \in Bots : BotStep(b)
  \/ \E p \in Pids : Spawn(p) \/ Crash(p)

Spec == Init /\ [][Next]_vars

-----------------------------------------------------------------------------
(* "Exclusive lock for a storagePath": no two bots, of one process or of   *)
(* two, hold the lock at the same time, through crashes, stolen locks and  *)
(* reused pids, but for what comes of acquires that race: of two holders   *)
(* one has lost its entry in the file to a bot that had read the file      *)
(* before that entry was written.                                          *)
SoleHolder == \A b, c \in Bots \ bared : Holding(b) /\ Holding(c) => b = c

(* A bot that holds the lock is the one the file names, so that release()  *)
(* removes its own lock and every later acquire() is refused; but for the  *)
(* bots bared in a race.                                                   *)
FileNamesHolder == \A b \in Bots \ bared : Holding(b) => file = PidOf[b]
=============================================================================
