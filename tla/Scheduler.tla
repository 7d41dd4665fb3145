------------------------------ MODULE Scheduler ------------------------------
(***************************************************************************)
(* The job scheduler of a bot (scheduler.ts): one interval timer whose     *)
(* tick walks over a copy of the job map and starts every job that is due, *)
(* jobs that take their time, may cancel jobs and may be cancelled.        *)
(***************************************************************************)
EXTENDS Clock

CONSTANTS
  Jobs,      \* the jobs a program may add
  Every,     \* job -> everyMs, 0 for after() and at()
  Delay,     \* job -> time until the first run
  MaxRuns    \* job -> maxRuns, 0 for null

ASSUME JobsAssumption == {Every, Delay, MaxRuns} \subseteq [Jobs -> Nat]

VARIABLES
  jobs,     \* the job map
  rec,      \* job -> its record [next, runs, running]
  timer,    \* the interval timer is set
  stopped,
  todo,     \* jobs the tick under way has still to visit
  ran,      \* jobs the last tick has started
  begun,    \* history: job -> runs started
  over,     \* history: job -> runs that have returned or thrown
  ended,    \* history: job -> when its last run ended
  dropped,  \* history: jobs cancelled, or forgotten by stop()
  cut       \* history: jobs dropped while the tick under way lasts

schedVars == <<jobs, rec, timer, stopped, todo, ran, begun, over, ended, dropped, cut>>

NewRecord == [next |-> 0, runs |-> 0, running |-> FALSE]
Never == [j \in Jobs |-> 0]

SchedTypeOK ==
  /\ jobs \subseteq Jobs /\ todo \subseteq Jobs /\ ran \subseteq Jobs
  /\ dropped \subseteq Jobs /\ cut \subseteq Jobs
  /\ rec \in [Jobs -> [next : Nat, runs : Nat, running : BOOLEAN]]
  /\ timer \in BOOLEAN /\ stopped \in BOOLEAN
  /\ begun \in [Jobs -> Nat] /\ over \in [Jobs -> Nat] /\ ended \in [Jobs -> Nat]

SchedInit ==
  /\ jobs = {} /\ timer = FALSE /\ stopped = FALSE /\ todo = {} /\ ran = {}
  /\ rec = [j \in Jobs |-> NewRecord]
  /\ begun = Never /\ over = Never /\ ended = Never /\ dropped = {} /\ cut = {}

(* The scheduler of a new process. *)
SchedReset ==
  /\ jobs' = {} /\ timer' = FALSE /\ stopped' = FALSE /\ todo' = {} /\ ran' = {}
  /\ rec' = [j \in Jobs |-> NewRecord]
  /\ begun' = Never /\ over' = Never /\ ended' = Never /\ dropped' = {} /\ cut' = {}

(* JavaScript is single-threaded: while tick() lasts, only the synchronous *)
(* parts of the jobs it has started run.                                   *)
Quiet == todo = {}
FromJob == Quiet \/ ran # {}

(* every, after, at and dailyAt, and add: once stopped there is no timer. *)
AddJob(j) ==
  /\ jobs' = jobs \cup {j}
  /\ rec' = [rec EXCEPT ![j] = [next |-> now + Delay[j], runs |-> 0, running |-> FALSE]]
  /\ timer' = (timer \/ ~stopped)
  /\ UNCHANGED <<stopped, todo, ran, begun, over, ended, dropped, cut>>

Drop(gone) ==
  /\ jobs' = jobs \ gone
  /\ dropped' = dropped \cup gone
  /\ cut' = IF Quiet THEN cut ELSE cut \cup gone

(* cancel of the handle that add returned *)
Cancel(j) ==
  /\ FromJob /\ j \in jobs
  /\ Drop({j})
  /\ UNCHANGED <<rec, timer, stopped, todo, ran, begun, over, ended>>

SchedStop ==
  /\ stopped' = TRUE /\ timer' = FALSE
  /\ Drop(jobs)
  /\ UNCHANGED <<rec, todo, ran, begun, over, ended>>

(* tick: the copy of the map. *)
Tick ==
  /\ timer /\ Quiet /\ jobs # {}
  /\ todo' = jobs /\ ran' = {} /\ cut' = {}
  /\ UNCHANGED <<jobs, rec, timer, stopped, begun, over, ended, dropped>>

(* A job that runs is started again. *)
DueThoughRunning(j) == rec[j].next <= now

Due(j) == ~rec[j].running /\ rec[j].next <= now

(* ... and one job of it; the job is looked at only through its record. *)
Visit(j) ==
  /\ j \in todo
  /\ todo' = todo \ {j}
  /\ IF Due(j)
     THEN /\ rec' = [rec EXCEPT ![j].running = TRUE]
          /\ ran' = ran \cup {j}
          /\ begun' = [begun EXCEPT ![j] = @ + 1]
     ELSE UNCHANGED <<rec, ran, begun>>
  /\ UNCHANGED <<jobs, timer, stopped, over, ended, dropped, cut>>

(* The job returns or throws: the finally block. *)
JobEnds(j) ==
  /\ Quiet /\ rec[j].running
  /\ LET runs == rec[j].runs + 1
         last == (MaxRuns[j] # 0 /\ runs >= MaxRuns[j]) \/ Every[j] = 0
     IN /\ rec' = [rec EXCEPT ![j] = [next |-> IF last THEN @.next ELSE now + Every[j],
                                      runs |-> runs, running |-> FALSE]]
        /\ jobs' = IF last THEN jobs \ {j} ELSE jobs
  /\ over' = [over EXCEPT ![j] = @ + 1]
  /\ ended' = [ended EXCEPT ![j] = now]
  /\ UNCHANGED <<timer, stopped, todo, ran, begun, dropped, cut>>

-----------------------------------------------------------------------------
(* "jobs never overlap with themselves" and "a slow job cannot build up a  *)
(* backlog": when a run starts, every run of that job begun before it is   *)
(* over and the last of them ended a whole interval ago; there are never   *)
(* more than maxRuns runs, and none starts after a cancel or a stop,       *)
(* unless the tick that starts it had begun before.                        *)
JobRunsApart ==
  [][\A j \in Jobs : begun'[j] > begun[j] =>
       /\ begun[j] = over[j]
       /\ begun[j] > 0 => now >= ended[j] + Every[j]
       /\ MaxRuns[j] # 0 => begun'[j] <= MaxRuns[j]
       /\ j \in dropped => j \in cut]_schedVars
=============================================================================
