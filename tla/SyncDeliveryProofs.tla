------------------------- MODULE SyncDeliveryProofs -------------------------
(***************************************************************************)
(* Proofs about SyncDelivery, for any number of events and rooms, any      *)
(* encrypted ones among them and any limits: a saved token loses no event, *)
(* a process that bootstrapped dispatches no history, and, as long as the  *)
(* deduper holds the events there are, no event is dispatched twice.       *)
(***************************************************************************)
EXTENDS SyncDelivery, FiniteSetTheorems, TLAPS

(* Nobody has to come back for this event. *)
Accounted(e) == e \in ever \cup waived \/ (e \in Encrypted /\ client.attempts[e] > 0)

(* No handler has seen it, and it is not waiting for a key. *)
Quiet(e) == hits[e] = 0 /\ (e \in Encrypted => client.attempts[e] = 0)

(* A process that is not there has nothing in memory. *)
DownIsBlank == loop.pc = "down" => client = NewClient

(* The state in memory is the one on disk. *)
DiskInStep == loop.pc # "down" => disk = loop.state

(* A response leaves no gap after the token it answers. *)
NoGap ==
  loop.pc \in {"answered", "handling"} =>
    loop.resp.to # NoToken /\ (loop.resp.from = 1 \/ loop.resp.from <= loop.state.next + 1)

(* A batch is handled as a bootstrap when the state says so, and then has  *)
(* no timeline, and the instant is noted.                                  *)
BootstrapHasNoTimeline ==
  loop.pc = "handling" =>
    /\ loop.bootstrap <=> NeedBootstrap
    /\ loop.bootstrap => loop.todo.events = {} /\ client.cold # NoToken

(* Nothing happens before the first bootstrap notes its instant. *)
QuietBeforeBootstrap ==
  (loop.pc # "down" /\ NeedBootstrap /\ client.cold = NoToken) => \A e \in Events : Quiet(e)

(* Nor, later, to an event from before that instant. *)
HistoryIsQuiet == client.cold # NoToken => \A e \in Events : e <= client.cold => Quiet(e)

(* The deduper marks what is accounted for. *)
SeenIsAccounted == \A e \in Range(client.recent) : Accounted(e)

(* So is an event of the batch once it is off the list of work. *)
DoneIsAccounted ==
  (loop.pc = "handling" /\ ~loop.bootstrap) =>
    \A e \in Events : (loop.resp.from <= e /\ e <= loop.resp.to)
                         => e \in loop.todo.events \/ Accounted(e)

IInv ==
  /\ TypeOK /\ DownIsBlank /\ DiskInStep /\ NoGap
  /\ BootstrapHasNoTimeline /\ QuietBeforeBootstrap /\ HistoryIsQuiet
  /\ SeenIsAccounted /\ DoneIsAccounted /\ NothingLost

(* What the deduper adds to it in a process that runs: it holds an event   *)
(* once, and every event that was dispatched or waits for its key.         *)
HeldOnce ==
  \A i, j \in 1..Len(client.recent) : client.recent[i] = client.recent[j] => i = j

DispatchedIsHeld ==
  loop.pc # "down" =>
    \A e \in Events : hits[e] > 0 => e \in Range(client.recent)
                                     /\ (e \in Encrypted => client.attempts[e] = 0)

WaitingIsHeld == \A e \in Waiting : e \in Range(client.recent)

OnceInv == HeldOnce /\ DispatchedIsHeld /\ WaitingIsHeld /\ AtMostOncePerLife

-----------------------------------------------------------------------------
USE DEF Loops, Clients

(* The values a field can be reset to have its type. *)
LEMMA ResetTypes ==
  /\ NoWork \in Work /\ NoResponse \in Responses /\ ColdState \in SyncStates
  /\ NoKey \in Tokens \cup {NoKey} /\ NoToken \in Tokens
<1>1. 1 \in 1..(NumEvents + 1) /\ NoToken \in Tokens
  BY BoundsAssumption DEF Tokens
<1>2. NoWork \in Work
  BY DEF NoWork, Work
<1>3. NoResponse \in Responses
  BY <1>1 DEF NoResponse, Responses
<1>4. ColdState \in SyncStates
  BY <1>1 DEF ColdState, SyncStates
<1> QED
  BY <1>1, <1>2, <1>3, <1>4

(* A new process starts from a well-typed state. *)
LEMMA NewTypes ==
  ASSUME NEW pc \in LoopPcs, NEW state \in SyncStates
  PROVE  /\ NewLoop(pc, state) \in Loops
         /\ NewClient \in Clients
         /\ Len(NewClient.recent) <= DedupCapacity
<1>1. 0 \in 0..MaxPoisonRetries /\ 0 \in 0..MaxDecryptAttempts
  BY BoundsAssumption
<1>2. NewClient \in Clients
  BY <1>1, ResetTypes DEF NewClient
<1>3. Len(NewClient.recent) <= DedupCapacity
  BY BoundsAssumption DEF NewClient
<1> QED
  BY <1>1, <1>2, <1>3, ResetTypes DEF NewLoop

(* What the deduper holds after it remembered an event: that event, and    *)
(* nothing it did not hold; all it held, when there was room.              *)
LEMMA RememberFacts ==
  ASSUME TypeOK, NEW e \in Events, NEW q, q = Remember(e)
  PROVE  /\ q \in Seq(Events) /\ Len(q) <= DedupCapacity
         /\ e \in Range(q) /\ Range(q) \subseteq Range(client.recent) \cup {e}
         /\ Len(client.recent) < DedupCapacity =>
              /\ Len(q) = Len(client.recent) + 1 /\ q[Len(q)] = e
              /\ \A i \in 1..Len(client.recent) : q[i] = client.recent[i]
              /\ Range(client.recent) \subseteq Range(q)
<1> DEFINE old == client.recent
           a == Append(old, e)
<1>1. old \in Seq(Events) /\ Len(old) <= DedupCapacity
  BY DEF TypeOK
<1> HIDE DEF old
<1>2. /\ a \in Seq(Events) /\ Len(a) = Len(old) + 1 /\ a[Len(a)] = e
      /\ \A i \in 1..Len(old) : a[i] = old[i]
  BY <1>1
<1> HIDE DEF a
<1>3. q = IF Len(a) > DedupCapacity THEN Tail(a) ELSE a
  BY DEF Remember, a, old
<1>4. CASE Len(a) > DedupCapacity
  <2>1. /\ q \in Seq(Events) /\ Len(q) = Len(old)
        /\ \A i \in 1..Len(q) : q[i] = a[i + 1]
    BY <1>2, <1>3, <1>4
  <2>2. Len(q) \in 1..DedupCapacity /\ q[Len(q)] = e
    BY <1>1, <1>2, <1>4, <2>1, BoundsAssumption
  <2>3. \A i \in 1..Len(q) : q[i] = e \/ \E j \in 1..Len(old) : q[i] = old[j]
    BY <1>2, <2>1
  <2>4. e \in Range(q) /\ Range(q) \subseteq Range(old) \cup {e}
    <3>1. DOMAIN q = 1..Len(q) /\ DOMAIN old = 1..Len(old) /\ Len(q) \in DOMAIN q
      BY <1>1, <2>1, <2>2
    <3> QED
      BY <2>2, <2>3, <3>1 DEF Range
  <2>5. ~(Len(old) < DedupCapacity)
    BY <1>1, <1>2, <1>4, BoundsAssumption
  <2> QED
    BY <2>1, <2>2, <2>4, <2>5 DEF old
<1>5. CASE Len(a) <= DedupCapacity
  <2>1. q = a
    BY <1>1, <1>2, <1>3, <1>5, BoundsAssumption
  <2>2. \A i \in 1..Len(q) : q[i] = e \/ \E j \in 1..Len(old) : q[i] = old[j]
    BY <1>2, <2>1
  <2> QED
    BY <1>1, <1>2, <1>5, <2>1, <2>2, SMTT(30) DEF Range, old
<1> QED
  BY <1>1, <1>2, <1>4, <1>5, BoundsAssumption

(* The work list of a response is well-typed. *)
LEMMA WorkListType ==
  ASSUME NEW resp \in Responses, NEW bootstrap \in BOOLEAN
  PROVE  WorkList(resp, bootstrap) \in Work
<1>1. resp.from..resp.to \subseteq Events
  BY BoundsAssumption DEF Responses, Tokens, NoToken, Events
<1>2. {RoomOf[e] : e \in resp.from..resp.to} \subseteq Range(RoomOrder)
  BY <1>1, BoundsAssumption
<1> QED
  BY <1>1, <1>2 DEF WorkList, Work

(* retryPendingDecrypts ends the wait of an event or counts an attempt.    *)
LEMMA RetryFacts ==
  ASSUME TypeOK, NEW keys, NEW a, a = RetryPending(keys)
  PROVE  /\ a \in [Encrypted -> 0..MaxDecryptAttempts]
         /\ \A e \in Encrypted :
              /\ a[e] > 0 => client.attempts[e] > 0
              /\ e \in Exhausted \cup Recovered(keys) => a[e] = 0
              /\ client.attempts[e] > 0 => a[e] > 0 \/ e \in Exhausted \cup Recovered(keys)
<1>1. client.attempts \in [Encrypted -> 0..MaxDecryptAttempts]
  BY DEF TypeOK
<1>2. \A e \in Encrypted : client.attempts[e] \in Int
  BY <1>1
<1>3. ASSUME NEW e \in Encrypted
      PROVE  /\ a[e] \in 0..MaxDecryptAttempts
             /\ a[e] > 0 => client.attempts[e] > 0
             /\ e \in Exhausted \cup Recovered(keys) => a[e] = 0
             /\ client.attempts[e] > 0 => a[e] > 0 \/ e \in Exhausted \cup Recovered(keys)
  <2>1. CASE e \in Exhausted \cup Recovered(keys)
    BY <1>1, <1>3, <2>1, BoundsAssumption DEF RetryPending, Exhausted, Recovered, Waiting
  <2>2. CASE e \in Waiting \ (Exhausted \cup Recovered(keys))
    BY <1>1, <1>3, <2>2, BoundsAssumption DEF RetryPending, Exhausted, Waiting
  <2>3. CASE e \notin Waiting
    BY <1>1, <1>3, <2>3, BoundsAssumption DEF RetryPending, Exhausted, Recovered, Waiting
  <2> QED
    BY <2>1, <2>2, <2>3
<1>4. a \in [Encrypted -> 0..MaxDecryptAttempts]
  BY <1>3 DEF RetryPending
<1> QED
  BY <1>3, <1>4

(* What calling the handlers for some events does to the counts. *)
LEMMA DispatchFacts ==
  ASSUME TypeOK, NEW es \in SUBSET Events, Dispatch(es)
  PROVE  /\ hits' \in [Events -> 0..2] /\ ever' = ever \cup es /\ ever' \subseteq Events
         /\ \A e \in Events : e \notin es => hits'[e] = hits[e]
         /\ \A e \in Events : hits[e] = 0 => hits'[e] <= 1
BY DEF TypeOK, Dispatch

-----------------------------------------------------------------------------
(* TypeOK, action by action. *)

(* The homeserver's steps and the loop's steps that move no data. *)
LEMMA TypeMoves ==
  ASSUME TypeOK,
         \/ SendEvent \/ (\E e \in Encrypted : SendKey(e)) \/ Stop \/ Leave
         \/ KeepFilter \/ UploadFilter \/ UploadFilterFails
         \/ RequestFails \/ AuthFails \/ WakeUp
  PROVE  TypeOK'
<1> USE BoundsAssumption
<1>1. CASE SendEvent
  BY <1>1 DEF TypeOK, SendEvent, history
<1>2. CASE \E e \in Encrypted : SendKey(e)
  BY <1>2 DEF TypeOK, SendKey, history
<1>3. CASE Stop
  BY <1>3 DEF TypeOK, Stop, server, history
<1>4. CASE Leave \/ KeepFilter \/ UploadFilterFails \/ RequestFails \/ AuthFails \/ WakeUp
  <2>1. PICK pc \in LoopPcs : Goto(pc) /\ UNCHANGED <<server, disk, known, client, history>>
    BY <1>4 DEF Leave, KeepFilter, UploadFilterFails, RequestFails, AuthFails, WakeUp, LoopPcs
  <2> QED
    BY <2>1 DEF TypeOK, Goto, server, history
<1>5. CASE UploadFilter
  <2>1. disk' \in SyncStates /\ loop' = [loop EXCEPT !.pc = "request", !.state = disk']
    BY <1>5 DEF TypeOK, UploadFilter, SyncStates
  <2> QED
    BY <1>5, <2>1 DEF TypeOK, UploadFilter, LoopPcs, server, history
<1> QED
  BY <1>1, <1>2, <1>3, <1>4, <1>5

(* The process starts and ends. *)
LEMMA TypeProcess == ASSUME TypeOK, Start \/ ProcessEnds PROVE TypeOK'
<1>1. CASE Start
  <2>1. "top" \in LoopPcs /\ disk \in SyncStates
    BY DEF TypeOK, LoopPcs
  <2>2. client' \in Clients /\ client'.recent = NewClient.recent
    BY <1>1, <2>1, NewTypes DEF Start
  <2>3. Len(client'.recent) <= DedupCapacity
    BY <2>1, <2>2, NewTypes
  <2>4. loop' \in Loops
    BY <1>1, <2>1, NewTypes DEF Start
  <2>5. /\ hits' = [e \in Events |-> 0] /\ UNCHANGED <<log, sent, disk, known, ever, waived>>
    BY <1>1 DEF Start, server
  <2>6. hits' \in [Events -> 0..2]
    BY <2>5
  <2> HIDE DEF Loops, Clients
  <2> QED
    BY <2>2, <2>3, <2>4, <2>5, <2>6 DEF TypeOK
<1>2. CASE ProcessEnds
  <2>1. "down" \in LoopPcs /\ ColdState \in SyncStates
    BY ResetTypes DEF LoopPcs
  <2>2. waived' \subseteq Events
    BY <1>2, BoundsAssumption DEF TypeOK, ProcessEnds, Waiting
  <2> QED
    BY <1>2, <2>1, <2>2, NewTypes DEF TypeOK, ProcessEnds, server
<1> QED
  BY <1>1, <1>2

(* A response arrives and its work is listed. *)
LEMMA TypeAnswer == ASSUME TypeOK, ServerAnswers \/ BeginHandle PROVE TypeOK'
<1>1. CASE ServerAnswers
  <2>1. PICK f \in FirstEvents :
          loop' = [loop EXCEPT !.pc = "answered",
                               !.resp = [from |-> f, to |-> log, keys |-> sent]]
    BY <1>1 DEF ServerAnswers
  <2>2. loop.state.next \in Tokens /\ log \in 0..NumEvents /\ sent \subseteq Encrypted
    BY DEF TypeOK, SyncStates
  <2>3. f \in 1..(NumEvents + 1) /\ log \in Tokens
    BY <2>2, BoundsAssumption DEF FirstEvents, Tokens, NoToken
  <2>4. [from |-> f, to |-> log, keys |-> sent] \in Responses
    BY <2>2, <2>3 DEF Responses
  <2> QED
    BY <1>1, <2>1, <2>4 DEF TypeOK, ServerAnswers, LoopPcs, server, history
<1>2. CASE BeginHandle
  <2>1. log \in Tokens /\ NeedBootstrap \in BOOLEAN /\ loop.resp \in Responses
    BY DEF TypeOK, NeedBootstrap, Tokens
  <2>2. WorkList(loop.resp, NeedBootstrap) \in Work
    BY <2>1, WorkListType
  <2> QED
    BY <1>2, <2>1, <2>2 DEF TypeOK, BeginHandle, LoopPcs, server, history
<1> QED
  BY <1>1, <1>2

(* The client after a handler was called: the event is held and waits for  *)
(* nothing.                                                                *)
LEMMA DeliverFacts ==
  ASSUME TypeOK, NEW e \in Events, Deliver(e)
  PROVE  /\ client' \in Clients
         /\ client'.cold = client.cold /\ client'.recent = Remember(e)
         /\ Len(client'.recent) <= DedupCapacity
         /\ \A x \in Encrypted : client'.attempts[x] = IF x = e THEN 0 ELSE client.attempts[x]
         /\ hits' \in [Events -> 0..2] /\ ever' = ever \cup {e} /\ ever' \subseteq Events
         /\ \A x \in Events : x # e => hits'[x] = hits[x]
         /\ hits[e] = 0 => hits'[e] <= 1
<1> DEFINE q == Remember(e)
           a == [x \in Encrypted |-> IF x = e THEN 0 ELSE client.attempts[x]]
<1>1. client.attempts \in [Encrypted -> 0..MaxDecryptAttempts]
      /\ client \in Clients
  BY DEF TypeOK
<1>2. q \in Seq(Events) /\ Len(q) <= DedupCapacity
  BY RememberFacts
<1>3. a \in [Encrypted -> 0..MaxDecryptAttempts]
  BY <1>1, BoundsAssumption
<1>4. client' = [client EXCEPT !.recent = q, !.attempts = a]
  BY DEF Deliver
<1>5. /\ client' \in Clients
      /\ client'.cold = client.cold /\ client'.recent = q /\ client'.attempts = a
  <2> HIDE DEF q, a
  <2> QED
    BY <1>1, <1>2, <1>3, <1>4
<1>6. Dispatch({e})
  BY DEF Deliver
<1> QED
  BY <1>2, <1>5, <1>6, DispatchFacts

(* The loop after a batch was given up: it keeps the token and will ask    *)
(* again, or takes the batch's token and waives what was not dispatched.   *)
Again == loop'.state = loop.state /\ disk' = disk /\ waived' = waived

Onward ==
  /\ loop'.state = [next |-> loop.resp.to, boot |-> TRUE, filter |-> loop.state.filter]
  /\ disk' = loop'.state

LEMMA AdvanceFacts ==
  ASSUME TypeOK, Advance
  PROVE  /\ loop' \in Loops
         /\ loop'.pc = "top" /\ Onward /\ disk' \in SyncStates
<1> DEFINE state == [next |-> loop.resp.to, boot |-> TRUE, filter |-> loop.state.filter]
<1>1. loop.resp.to \in Tokens /\ loop.state.filter \in BOOLEAN
  BY DEF TypeOK, Responses, SyncStates
<1>2. state \in SyncStates
  BY <1>1 DEF SyncStates
<1>3. /\ loop' = [loop EXCEPT !.pc = "top", !.state = state, !.poison = NoKey, !.poisonCount = 0,
                            !.resp = NoResponse, !.todo = NoWork, !.bootstrap = FALSE]
      /\ disk' = state
  BY DEF Advance
<1>4. 0 \in 0..MaxPoisonRetries
  BY BoundsAssumption
<1>5. /\ loop' \in Loops
      /\ loop'.pc = "top" /\ loop'.state = state /\ disk' = state
  <2> HIDE DEF state
  <2> QED
    BY <1>2, <1>3, <1>4, ResetTypes DEF TypeOK, LoopPcs
<1> QED
  BY <1>2, <1>5 DEF Onward

LEMMA GiveUpFacts ==
  ASSUME TypeOK, ever' \subseteq Events, NEW auth \in BOOLEAN, RetryBatch(auth) \/ SkipBatch
  PROVE  /\ loop' \in Loops
         /\ loop'.pc \in {"exited", "backoff", "top"} /\ disk' \in SyncStates
         /\ waived' \subseteq Events
         /\ Again \/ (Onward /\ waived' = waived \cup (InBatch \ ever'))
<1>1. CASE RetryBatch(auth)
  <2>1. loop.state.next \in Tokens /\ PoisonCount \in 0..MaxPoisonRetries
    BY <1>1, BoundsAssumption DEF TypeOK, SyncStates, RetryBatch, PoisonCount
  <2> HIDE DEF PoisonCount
  <2>2. PICK pc \in {"exited", "backoff"} :
          loop' = [loop EXCEPT !.pc = pc, !.poison = loop.state.next, !.poisonCount = PoisonCount,
                               !.resp = NoResponse, !.todo = NoWork, !.bootstrap = FALSE]
    BY <1>1 DEF RetryBatch
  <2> QED
    BY <1>1, <2>1, <2>2, ResetTypes DEF TypeOK, RetryBatch, LoopPcs, Again
<1>2. CASE SkipBatch
  BY <1>2, AdvanceFacts DEF SkipBatch, TypeOK, InBatch
<1> QED
  BY <1>1, <1>2

(* emitTimelineEvent without a handler: the event is already held, is      *)
(* waived, or is held from now on and waits for its key.                   *)
LEMMA EmitNothingFacts ==
  ASSUME TypeOK, NEW e \in Events, EmitNothing(e)
  PROVE  /\ client' \in Clients
         /\ client'.cold = client.cold /\ Len(client'.recent) <= DedupCapacity
         /\ waived' \subseteq Events /\ waived \subseteq waived'
         /\ \A x \in Encrypted : x # e => client'.attempts[x] = client.attempts[x]
         /\ \/ client' = client /\ (e \in ever \cup waived' \/ Seen(e))
            \/ /\ client'.recent = Remember(e) /\ client'.attempts = client.attempts
               /\ e \in waived' /\ ~Seen(e)
            \/ /\ client'.recent = Remember(e) /\ client'.attempts[e] > 0
               /\ e \in Encrypted /\ ~Seen(e) /\ ~TooOld(e)
<1> DEFINE q == Remember(e)
           a == [client.attempts EXCEPT ![e] = IF @ = MaxDecryptAttempts THEN @ ELSE @ + 1]
<1>1. client \in Clients
      /\ Len(client.recent) <= DedupCapacity
  BY DEF TypeOK
<1>2. q \in Seq(Events) /\ Len(q) <= DedupCapacity
  BY RememberFacts
<1>3. CASE /\ client' = client
           /\ \/ waived' = waived \cup ({e} \ ever)
              \/ Seen(e) /\ waived' = waived
  BY <1>1, <1>3 DEF TypeOK
<1>4. CASE ~Seen(e) /\ waived' = waived \cup {e} /\ client' = [client EXCEPT !.recent = q]
  <2> HIDE DEF q
  <2>1. /\ client' \in Clients
        /\ client'.cold = client.cold /\ client'.recent = q /\ client'.attempts = client.attempts
    BY <1>1, <1>2, <1>4
  <2> QED
    BY <1>2, <1>4, <2>1 DEF q, TypeOK
<1>5. CASE /\ ~Seen(e) /\ ~TooOld(e) /\ Undecryptable(e) /\ waived' = waived
           /\ client' = [client EXCEPT !.recent = q, !.attempts = a]
  <2>1. e \in Encrypted
    BY <1>5 DEF Undecryptable
  <2>2. /\ a \in [Encrypted -> 0..MaxDecryptAttempts] /\ a[e] > 0
        /\ \A x \in Encrypted : x # e => a[x] = client.attempts[x]
    <3>1. client.attempts[e] \in 0..MaxDecryptAttempts
      BY <1>1, <2>1
    <3> QED
      BY <1>1, <2>1, <3>1, BoundsAssumption
  <2> HIDE DEF q, a
  <2>3. /\ client' \in Clients
        /\ client'.cold = client.cold /\ client'.recent = q /\ client'.attempts = a
    BY <1>1, <1>2, <1>5, <2>2
  <2> QED
    BY <1>2, <1>5, <2>1, <2>2, <2>3 DEF q, TypeOK
<1> QED
  BY <1>3, <1>4, <1>5 DEF EmitNothing

(* The work list shrinks. *)
LEMMA TypeTodo ==
  ASSUME TypeOK,
         \/ loop' = [loop EXCEPT !.todo.crypto = FALSE]
         \/ \E r : loop' = [loop EXCEPT !.todo.rooms = @ \ {r}]
         \/ \E e : EventDone(e)
  PROVE  /\ loop' \in Loops
         /\ loop'.pc = loop.pc /\ loop'.state = loop.state
         /\ loop'.resp = loop.resp /\ loop'.bootstrap = loop.bootstrap
         /\ loop'.todo.events \subseteq loop.todo.events
         /\ \A e : (e \in loop.todo.events /\ ~EventDone(e)) => e \in loop'.todo.events
<1>1. loop.todo \in Work
  BY DEF TypeOK
<1>2. PICK w \in Work :
        /\ loop' = [loop EXCEPT !.todo = w]
        /\ w.events \subseteq loop.todo.events
        /\ \A e : (e \in loop.todo.events /\ ~EventDone(e)) => e \in w.events
  BY <1>1 DEF Work, EventDone
<1> QED
  BY <1>2 DEF TypeOK

(* The steps of handleSync. *)
LEMMA TypeHandle ==
  ASSUME TypeOK, Handle
  PROVE  TypeOK'
<1>1. CASE HandleCrypto
  <2>1. loop.resp.keys \subseteq Encrypted
    BY DEF TypeOK, Responses
  <2>2. known' \subseteq Encrypted /\ waived' \subseteq Events
    BY <1>1, <2>1, BoundsAssumption DEF HandleCrypto, TypeOK, Exhausted, Waiting
  <2>3. Recovered(known') \subseteq Events
    BY BoundsAssumption DEF Recovered, Waiting
  <2>4. hits' \in [Events -> 0..2] /\ ever' \subseteq Events
    BY <1>1, <2>3, DispatchFacts DEF HandleCrypto
  <2>5. RetryPending(known') \in [Encrypted -> 0..MaxDecryptAttempts]
    BY RetryFacts
  <2> HIDE DEF RetryPending
  <2> QED
    BY <1>1, <2>2, <2>4, <2>5, TypeTodo DEF HandleCrypto, TypeOK, server
<1>2. CASE \E r \in Range(RoomOrder) : HandleRoom(r)
  BY <1>2, TypeTodo DEF HandleRoom, TypeOK, server, history
<1>3. ASSUME NEW e \in Events, EmitNothing(e) PROVE TypeOK'
  <2>1. EventDone(e) /\ UNCHANGED <<server, disk, known, hits, ever>>
    BY <1>3 DEF EmitNothing
  <2> QED
    BY <1>3, <2>1, EmitNothingFacts, TypeTodo DEF TypeOK, server
<1>4. ASSUME NEW e \in Events, EmitEvent(e) PROVE TypeOK'
  BY <1>4, DeliverFacts, TypeTodo DEF EmitEvent, TypeOK, server
<1>5. ASSUME NEW e \in Events, EmitThrows(e) PROVE TypeOK'
  BY <1>5, DeliverFacts, GiveUpFacts DEF EmitThrows, TypeOK
<1>6. CASE FinishBatch
  BY <1>6, AdvanceFacts DEF FinishBatch, TypeOK, InBatch
<1>7. ASSUME NEW auth \in BOOLEAN, HandleThrows(auth) PROVE TypeOK'
  <2>1. known' \subseteq Encrypted /\ ever' \subseteq Events
    BY <1>7 DEF HandleThrows, TypeOK, Responses
  <2> QED
    BY <1>7, <2>1, GiveUpFacts DEF HandleThrows, TypeOK
<1> QED
  BY <1>1, <1>2, <1>3, <1>4, <1>5, <1>6, <1>7 DEF Handle

-----------------------------------------------------------------------------
(* The rest of the invariant, action by action. *)

(* The homeserver's steps and the loop's steps that move no data.          *)
LEMMA MovesHold ==
  ASSUME IInv,
         \/ SendEvent \/ (\E e \in Encrypted : SendKey(e)) \/ Stop \/ Leave
         \/ KeepFilter \/ UploadFilter \/ UploadFilterFails
         \/ RequestFails \/ AuthFails \/ WakeUp
  PROVE  IInv'
<1>1. TypeOK /\ TypeOK'
  BY TypeMoves DEF IInv
<1>2. /\ UNCHANGED <<client, hits, ever, waived>>
      /\ \/ loop'.pc = loop.pc
         \/ loop.pc # "down" /\ loop'.pc \notin {"down", "answered", "handling"}
      /\ loop'.resp = loop.resp /\ loop'.todo = loop.todo /\ loop'.bootstrap = loop.bootstrap
      /\ loop'.state.next = loop.state.next /\ loop'.state.boot = loop.state.boot
      /\ disk'.next = disk.next
      /\ disk = loop.state => disk' = loop'.state
  <2>1. CASE UploadFilter
    <3>1. loop.state \in SyncStates /\ disk = loop.state
      BY <1>1, <2>1 DEF TypeOK, IInv, DiskInStep, UploadFilter
    <3>2. PICK state : /\ state = [loop.state EXCEPT !.filter = TRUE]
                       /\ loop' = [loop EXCEPT !.pc = "request", !.state = state] /\ disk' = state
      BY <2>1 DEF UploadFilter
    <3>3. state.next = loop.state.next /\ state.boot = loop.state.boot
      BY <3>1, <3>2 DEF SyncStates
    <3> QED
      BY <1>1, <2>1, <3>1, <3>2, <3>3 DEF UploadFilter, TypeOK, server, history
  <2>2. CASE SendEvent \/ (\E e \in Encrypted : SendKey(e)) \/ Stop
    BY <1>1, <2>2 DEF TypeOK, SendEvent, SendKey, Stop, server, history
  <2>3. CASE Leave \/ KeepFilter \/ UploadFilterFails \/ RequestFails \/ AuthFails \/ WakeUp
    <3>1. PICK pc \in {"exited", "request", "backoff", "top"} :
            Goto(pc) /\ UNCHANGED <<server, disk, known, client, history>> /\ loop.pc # "down"
      BY <2>3 DEF Leave, KeepFilter, UploadFilterFails, RequestFails, AuthFails, WakeUp
    <3> QED
      BY <1>1, <3>1 DEF TypeOK, Goto, server, history
  <2> QED
    BY <2>1, <2>2, <2>3
<1>3. DownIsBlank' /\ DiskInStep' /\ NoGap' /\ BootstrapHasNoTimeline'
  BY <1>2 DEF IInv, DownIsBlank, DiskInStep, NoGap, BootstrapHasNoTimeline, NeedBootstrap, NewClient
<1>4. QuietBeforeBootstrap' /\ HistoryIsQuiet'
  BY <1>2 DEF IInv, QuietBeforeBootstrap, HistoryIsQuiet, NeedBootstrap, Quiet
<1>5. SeenIsAccounted' /\ DoneIsAccounted' /\ NothingLost'
  BY <1>2 DEF IInv, SeenIsAccounted, DoneIsAccounted, NothingLost, Accounted
<1> QED
  BY <1>1, <1>3, <1>4, <1>5 DEF IInv

(* prepareCrypto moves nothing else. *)
LEMMA PrepareCryptoHolds == ASSUME IInv, PrepareCrypto PROVE IInv'
<1>1. TypeOK /\ client' = [client EXCEPT !.ready = TRUE] /\ UNCHANGED <<server, disk, known, loop, history>>
  BY DEF IInv, PrepareCrypto
<1>2. /\ client' \in Clients /\ client'.cold = client.cold /\ client'.recent = client.recent
      /\ client'.attempts = client.attempts /\ loop.pc # "down"
  BY <1>1 DEF TypeOK, PrepareCrypto
<1>3. TypeOK'
  BY <1>1, <1>2 DEF TypeOK, server, history
<1>4. DownIsBlank' /\ DiskInStep' /\ NoGap' /\ BootstrapHasNoTimeline'
  BY <1>1, <1>2 DEF IInv, DownIsBlank, DiskInStep, NoGap, BootstrapHasNoTimeline, NeedBootstrap
<1>5. QuietBeforeBootstrap' /\ HistoryIsQuiet'
  BY <1>1, <1>2 DEF IInv, QuietBeforeBootstrap, HistoryIsQuiet, NeedBootstrap, Quiet, history
<1>6. SeenIsAccounted' /\ DoneIsAccounted' /\ NothingLost'
  BY <1>1, <1>2 DEF IInv, SeenIsAccounted, DoneIsAccounted, NothingLost, Accounted, history
<1> QED
  BY <1>3, <1>4, <1>5, <1>6 DEF IInv

(* The process starts and ends. *)
LEMMA ProcessHolds == ASSUME IInv, Start \/ ProcessEnds PROVE IInv'
<1>1. TypeOK /\ TypeOK'
  BY TypeProcess DEF IInv
<1>2. /\ loop'.pc = "down" => client' = NewClient
      /\ client'.cold = NoToken
      /\ \A e \in Encrypted : client'.attempts[e] = 0
      /\ Range(client'.recent) = {}
  BY DEF Start, ProcessEnds, NewClient, NewLoop, Range
<1>3. /\ disk' = disk /\ ever' = ever /\ loop'.pc \in {"top", "down"}
      /\ loop'.pc = "top" => loop'.state = disk /\ hits' = [e \in Events |-> 0]
  BY DEF Start, ProcessEnds, NewLoop
<1>4. DownIsBlank' /\ DiskInStep' /\ NoGap' /\ BootstrapHasNoTimeline'
  BY <1>2, <1>3 DEF DownIsBlank, DiskInStep, NoGap, BootstrapHasNoTimeline, NewClient
<1>5. QuietBeforeBootstrap' /\ HistoryIsQuiet' /\ SeenIsAccounted' /\ DoneIsAccounted'
  BY <1>2, <1>3
     DEF QuietBeforeBootstrap, HistoryIsQuiet, SeenIsAccounted, DoneIsAccounted, Quiet
<1>6. NothingLost'
  <2>1. CASE Start
    <3>1. client = NewClient
      BY <2>1 DEF IInv, DownIsBlank, Start
    <3> QED
      BY <1>2, <1>3, <2>1, <3>1 DEF IInv, NothingLost, Start, NewClient
  <2>2. CASE ProcessEnds
    BY <1>2, <1>3, <2>2 DEF IInv, NothingLost, ProcessEnds, Waiting
  <2> QED
    BY <2>1, <2>2
<1> QED
  BY <1>1, <1>4, <1>5, <1>6 DEF IInv

(* A response arrives and its work is listed. *)
LEMMA AnswerHolds == ASSUME IInv, ServerAnswers \/ BeginHandle PROVE IInv'
<1>1. TypeOK /\ TypeOK'
  BY TypeAnswer DEF IInv
<1>2. /\ UNCHANGED <<disk, hits, ever, waived>>
      /\ client'.attempts = client.attempts /\ client'.recent = client.recent
      /\ loop.pc # "down" /\ loop'.state = loop.state
  BY <1>1 DEF TypeOK, ServerAnswers, BeginHandle, history, server
<1>3. SeenIsAccounted' /\ NothingLost' /\ DiskInStep'
  BY <1>2 DEF IInv, SeenIsAccounted, NothingLost, Accounted, DiskInStep
<1>4. CASE ServerAnswers
  <2>1. PICK f \in FirstEvents :
          loop' = [loop EXCEPT !.pc = "answered",
                               !.resp = [from |-> f, to |-> log, keys |-> sent]]
    BY <1>4 DEF ServerAnswers
  <2>2. loop'.pc = "answered" /\ loop'.resp.from = f /\ loop'.resp.to = log /\ client' = client
    BY <1>1, <1>4, <2>1 DEF TypeOK, ServerAnswers
  <2>3. log # NoToken /\ (f = 1 \/ f <= loop.state.next + 1)
    BY <1>1 DEF TypeOK, NoToken, FirstEvents, SyncStates, Tokens
  <2>4. DownIsBlank' /\ NoGap' /\ BootstrapHasNoTimeline' /\ DoneIsAccounted'
    BY <1>2, <2>2, <2>3 DEF DownIsBlank, NoGap, BootstrapHasNoTimeline, DoneIsAccounted
  <2>5. QuietBeforeBootstrap' /\ HistoryIsQuiet'
    BY <1>2, <2>2 DEF IInv, QuietBeforeBootstrap, HistoryIsQuiet, NeedBootstrap, Quiet
  <2> QED
    BY <1>1, <1>3, <2>4, <2>5 DEF IInv
<1>5. CASE BeginHandle
  <2>1. /\ loop'.pc = "handling" /\ loop'.resp = loop.resp
        /\ loop'.bootstrap = NeedBootstrap /\ loop'.todo = WorkList(loop.resp, NeedBootstrap)
    BY <1>1, <1>5 DEF TypeOK, BeginHandle
  <2>2. /\ loop'.bootstrap => loop'.todo.events = {}
        /\ ~loop'.bootstrap => loop'.todo.events = loop.resp.from..loop.resp.to
    BY <2>1 DEF WorkList
  <2>3. /\ client'.cold # NoToken \/ (~NeedBootstrap /\ client'.cold = client.cold)
        /\ \/ client'.cold = client.cold
           \/ NeedBootstrap /\ client.cold = NoToken
    BY <1>1, <1>5 DEF TypeOK, BeginHandle, NoToken
  <2>4. NeedBootstrap' = NeedBootstrap
    BY <1>2 DEF NeedBootstrap
  <2>5. DownIsBlank' /\ BootstrapHasNoTimeline'
    BY <2>1, <2>2, <2>3, <2>4 DEF DownIsBlank, BootstrapHasNoTimeline
  <2>6. NoGap'
    BY <1>2, <1>5, <2>1 DEF IInv, NoGap, BeginHandle
  <2>7. DoneIsAccounted'
    BY <1>1, <2>1, <2>2, BoundsAssumption DEF DoneIsAccounted, TypeOK, Responses, Tokens, NoToken, Events
  <2>8. HistoryIsQuiet' /\ QuietBeforeBootstrap'
    BY <1>2, <2>3, <2>4 DEF IInv, HistoryIsQuiet, QuietBeforeBootstrap, Quiet
  <2> QED
    BY <1>1, <1>3, <2>5, <2>6, <2>7, <2>8 DEF IInv
<1> QED
  BY <1>4, <1>5

(* What every step of handleSync does to the events: the ones accounted    *)
(* for stay so, the ones the deduper holds are, and history stays quiet.   *)
Keeps ==
  /\ \A e \in Events : Accounted(e) => Accounted(e)'
  /\ \A e \in Range(client'.recent) : Accounted(e)'
  /\ client'.cold = client.cold
  /\ client.cold # NoToken => \A e \in Events : e <= client.cold => Quiet(e)'

(* A step within a batch keeps the invariant if an event it takes off the  *)
(* list is accounted for.                                                  *)
LEMMA WithinBatch ==
  ASSUME IInv, TypeOK', Keeps,
         loop.pc = "handling", loop'.pc = loop.pc, loop'.state = loop.state, disk' = disk,
         loop'.resp = loop.resp, loop'.bootstrap = loop.bootstrap,
         loop'.todo.events \subseteq loop.todo.events,
         \A e \in loop.todo.events \ loop'.todo.events : Accounted(e)'
  PROVE  IInv'
<1>1. NeedBootstrap' = NeedBootstrap
  BY DEF NeedBootstrap
<1>2. DownIsBlank' /\ DiskInStep' /\ NoGap' /\ BootstrapHasNoTimeline' /\ QuietBeforeBootstrap'
  BY <1>1 DEF IInv, Keeps, DownIsBlank, DiskInStep, NoGap, BootstrapHasNoTimeline, QuietBeforeBootstrap
<1>3. HistoryIsQuiet' /\ SeenIsAccounted'
  BY DEF Keeps, HistoryIsQuiet, SeenIsAccounted
<1>4. DoneIsAccounted' /\ NothingLost'
  BY DEF IInv, Keeps, DoneIsAccounted, NothingLost, Accounted
<1> QED
  BY <1>2, <1>3, <1>4 DEF IInv

(* So does a step that ends it, if the token it takes is earned. *)
LEMMA EndOfBatch ==
  ASSUME IInv, TypeOK', Keeps,
         loop.pc = "handling", loop'.pc \in {"exited", "backoff", "top"},
         \/ Again
         \/ Onward /\ \A e \in InBatch : Accounted(e)'
  PROVE  IInv'
<1>1. disk = loop.state /\ disk' = loop'.state /\ NoGap
  BY DEF IInv, DiskInStep, Again, Onward
<1>2. NeedBootstrap' => NeedBootstrap
  BY <1>1 DEF NeedBootstrap, NoGap, Again, Onward
<1>3. DownIsBlank' /\ DiskInStep' /\ NoGap' /\ BootstrapHasNoTimeline' /\ DoneIsAccounted'
  BY <1>1 DEF DownIsBlank, DiskInStep, NoGap, BootstrapHasNoTimeline, DoneIsAccounted
<1>4. QuietBeforeBootstrap'
  BY <1>2 DEF IInv, Keeps, BootstrapHasNoTimeline, QuietBeforeBootstrap
<1>5. HistoryIsQuiet' /\ SeenIsAccounted'
  BY DEF Keeps, HistoryIsQuiet, SeenIsAccounted
<1>6. NothingLost'
  <2> SUFFICES ASSUME NEW e \in Events, e <= disk'.next PROVE Accounted(e)'
    BY DEF NothingLost, Accounted
  <2>1. CASE e <= disk.next
    BY <2>1 DEF IInv, NothingLost, Keeps, Accounted
  <2>2. CASE ~(e <= disk.next)
    <3>1. Onward /\ disk'.next = loop.resp.to
      BY <1>1, <2>2 DEF Again, Onward
    <3>2. loop.resp.from <= e
      <4>1. loop.resp \in Responses /\ loop.state \in SyncStates
        BY DEF IInv, TypeOK
      <4>2. loop.resp.from \in Nat /\ loop.state.next \in Int /\ e \in Nat /\ e >= 1
        BY <4>1, BoundsAssumption DEF Responses, SyncStates, Tokens, NoToken, Events
      <4>3. loop.resp.from = 1 \/ loop.resp.from <= loop.state.next + 1
        BY <1>1 DEF NoGap
      <4> QED
        BY <1>1, <2>2, <4>2, <4>3
    <3>3. e \in InBatch
      BY <3>1, <3>2 DEF InBatch
    <3> QED
      BY <2>2, <3>1, <3>3, <1>1 DEF Again
  <2> QED
    BY <2>1, <2>2
<1> QED
  BY <1>3, <1>4, <1>5, <1>6 DEF IInv

(* Calling the handler for an event that is not history. *)
LEMMA DeliverKeeps ==
  ASSUME IInv, waived \subseteq waived', NEW e \in Events, Deliver(e)
  PROVE  Keeps /\ Accounted(e)'
<1>1. /\ TypeOK /\ ~TooOld(e)
      /\ Range(client'.recent) \subseteq Range(client.recent) \cup {e}
  BY DeliverFacts, RememberFacts DEF IInv, Deliver
<1>2. Accounted(e)' /\ \A x \in Events : Accounted(x) => Accounted(x)'
  BY <1>1, DeliverFacts DEF Accounted
<1>3. \A x \in Range(client'.recent) : Accounted(x)'
  <2>1. client.recent \in Seq(Events)
    BY <1>1 DEF TypeOK
  <2>2. Range(client.recent) \subseteq Events
    BY <2>1 DEF Range
  <2> QED
    BY <1>1, <1>2, <2>2 DEF IInv, SeenIsAccounted
<1>4. client'.cold = client.cold
  BY <1>1, DeliverFacts
<1>5. client.cold # NoToken => \A x \in Events : x <= client.cold => Quiet(x)'
  BY <1>1, DeliverFacts DEF IInv, HistoryIsQuiet, Quiet, TooOld
<1> QED
  BY <1>2, <1>3, <1>4, <1>5 DEF Keeps

(* A step that changes neither the client nor what was dispatched. *)
LEMMA IdleKeeps ==
  ASSUME IInv, waived \subseteq waived', UNCHANGED <<client, hits, ever>>
  PROVE  Keeps
BY DEF IInv, Keeps, Accounted, SeenIsAccounted, HistoryIsQuiet, Quiet

(* retryPendingDecrypts loses no waiting event and wakes no history. *)
LEMMA CryptoKeeps == ASSUME IInv, HandleCrypto PROVE Keeps
<1> DEFINE a == RetryPending(known')
           rec == Recovered(known')
<1>1. TypeOK /\ client'.attempts = a /\ client'.recent = client.recent /\ client'.cold = client.cold
  BY DEF IInv, TypeOK, HandleCrypto
<1>2. \A e \in Encrypted :
        /\ a[e] > 0 => client.attempts[e] > 0
        /\ client.attempts[e] > 0 => a[e] > 0 \/ e \in Exhausted \cup rec
  BY <1>1, RetryFacts
<1>3. a \in [Encrypted -> 0..MaxDecryptAttempts]
  BY <1>1, RetryFacts
<1>4. rec \subseteq Waiting /\ Waiting \subseteq Encrypted /\ Encrypted \subseteq Events
  BY BoundsAssumption DEF Recovered, Waiting
<1> HIDE DEF a, rec
<1>5. /\ ever' = ever \cup rec /\ waived' = waived \cup Exhausted
      /\ \A e \in Events : e \notin rec => hits'[e] = hits[e]
  <2>1. Dispatch(rec) /\ waived' = waived \cup Exhausted
    BY DEF HandleCrypto, rec
  <2> QED
    BY <1>1, <1>4, <2>1, DispatchFacts
<1>6. \A e \in Events : Accounted(e) => Accounted(e)'
  BY <1>1, <1>2, <1>5 DEF Accounted
<1>7. \A e \in Range(client'.recent) : Accounted(e)'
  <2>1. client.recent \in Seq(Events)
    BY <1>1 DEF TypeOK
  <2>2. Range(client.recent) \subseteq Events
    BY <2>1 DEF Range
  <2> QED
    BY <1>1, <1>6, <2>2 DEF IInv, SeenIsAccounted
<1>8. \A e \in Events : Quiet(e) => Quiet(e)'
  <2> SUFFICES ASSUME NEW e \in Events, Quiet(e) PROVE Quiet(e)'
    OBVIOUS
  <2>1. e \notin rec
    BY <1>4 DEF Quiet, Waiting
  <2>2. hits'[e] = 0
    BY <1>5, <2>1 DEF Quiet
  <2>3. e \in Encrypted => a[e] = 0
    BY <1>2, <1>3, BoundsAssumption DEF Quiet
  <2> QED
    BY <1>1, <2>2, <2>3 DEF Quiet
<1> QED
  BY <1>1, <1>6, <1>7, <1>8 DEF Keeps, IInv, HistoryIsQuiet

(* emitTimelineEvent without a handler. *)
LEMMA NothingKeeps ==
  ASSUME IInv, NEW e \in Events, EmitNothing(e)
  PROVE  Keeps /\ Accounted(e)'
<1>1. TypeOK /\ ever' = ever /\ hits' = hits
  BY DEF IInv, EmitNothing
<1>2. client.recent \in Seq(Events) /\ Range(client.recent) \subseteq Events
  BY <1>1 DEF TypeOK, Range
<1>3. \A x \in Range(client.recent) : Accounted(x)
  BY DEF IInv, SeenIsAccounted
<1>4. Accounted(e)'
  BY <1>1, <1>3, EmitNothingFacts DEF Accounted, Seen
<1>5. \A x \in Events : Accounted(x) => Accounted(x)'
  BY <1>1, <1>4, EmitNothingFacts DEF Accounted
<1>6. Range(client'.recent) \subseteq Range(client.recent) \cup {e}
  BY <1>1, EmitNothingFacts, RememberFacts
<1>7. \A x \in Range(client'.recent) : Accounted(x)'
  BY <1>2, <1>3, <1>4, <1>5, <1>6
<1>8. client.cold # NoToken => \A x \in Events : x <= client.cold => Quiet(x)'
  BY <1>1, EmitNothingFacts DEF IInv, HistoryIsQuiet, Quiet, TooOld
<1> QED
  BY <1>1, <1>4, <1>5, <1>7, <1>8, EmitNothingFacts DEF Keeps

(* handleSync and the end of a batch. *)
LEMMA HandleHolds == ASSUME IInv, Handle PROVE IInv'
<1>1. TypeOK /\ TypeOK'
  BY TypeHandle DEF IInv
<1>2. CASE HandleCrypto
  <2>1. /\ loop.pc = "handling" /\ disk' = disk
        /\ loop' = [loop EXCEPT !.todo.crypto = FALSE]
    BY <1>2 DEF HandleCrypto, CryptoDue
  <2>2. loop'.todo.events = loop.todo.events
    BY <1>1, <2>1 DEF TypeOK, Work
  <2> QED
    BY <1>1, <1>2, <2>1, <2>2, CryptoKeeps, TypeTodo, WithinBatch
<1>3. ASSUME NEW r \in Range(RoomOrder), HandleRoom(r) PROVE IInv'
  <2>1. /\ loop.pc = "handling" /\ disk' = disk
        /\ loop' = [loop EXCEPT !.todo.rooms = @ \ {r}]
        /\ UNCHANGED <<client, hits, ever, waived>>
    BY <1>3 DEF HandleRoom, RoomDue, history
  <2>2. loop'.todo.events = loop.todo.events
    BY <1>1, <2>1 DEF TypeOK, Work
  <2>3. Keeps
    BY <2>1, IdleKeeps
  <2> QED
    BY <1>1, <2>1, <2>2, <2>3, TypeTodo, WithinBatch
<1>4. ASSUME NEW e \in Events, EmitNothing(e) \/ EmitEvent(e) PROVE IInv'
  <2>1. loop.pc = "handling" /\ disk' = disk /\ EventDone(e)
    BY <1>4 DEF EmitNothing, EmitEvent, EventDue
  <2>2. loop.todo.events \ loop'.todo.events \subseteq {e}
    BY <1>1, <2>1 DEF TypeOK, Work, EventDone
  <2>3. Keeps /\ Accounted(e)'
    BY <1>4, NothingKeeps, DeliverKeeps DEF EmitEvent
  <2> QED
    BY <1>1, <2>1, <2>2, <2>3, TypeTodo, WithinBatch
<1>5. ASSUME NEW e \in Events, EmitThrows(e) PROVE IInv'
  <2>1. /\ loop.pc = "handling" /\ Deliver(e)
        /\ RetryBatch(FALSE) \/ SkipBatch
    BY <1>5 DEF EmitThrows, EventDue
  <2>2. /\ loop'.pc \in {"exited", "backoff", "top"}
        /\ Again \/ (Onward /\ waived' = waived \cup (InBatch \ ever'))
    BY <1>1, <2>1, GiveUpFacts, DeliverFacts
  <2>3. Keeps
    BY <2>1, <2>2, DeliverKeeps DEF Again
  <2>4. Again \/ (Onward /\ \A x \in InBatch : Accounted(x)')
    BY <2>2 DEF Accounted
  <2> QED
    BY <1>1, <2>1, <2>2, <2>3, <2>4, EndOfBatch
<1>6. CASE FinishBatch
  <2>1. /\ loop.pc = "handling" /\ loop.todo.events = {} /\ Advance
        /\ UNCHANGED <<client, hits, ever>> /\ waived \subseteq waived'
        /\ loop.bootstrap => waived' = waived \cup (InBatch \ ever)
    BY <1>6 DEF FinishBatch, AllDone, NoWork
  <2>2. loop'.pc = "top" /\ Onward /\ Keeps
    BY <1>1, <2>1, AdvanceFacts, IdleKeeps
  <2>3. \A e \in InBatch : Accounted(e)'
    <3>1. CASE loop.bootstrap
      BY <2>1, <3>1 DEF Accounted
    <3>2. CASE ~loop.bootstrap
      BY <2>1, <2>2, <3>2 DEF IInv, DoneIsAccounted, InBatch, Keeps
    <3> QED
      BY <3>1, <3>2
  <2> QED
    BY <1>1, <2>1, <2>2, <2>3, EndOfBatch
<1>7. ASSUME NEW auth \in BOOLEAN, HandleThrows(auth) PROVE IInv'
  <2>1. /\ loop.pc = "handling" /\ (RetryBatch(auth) \/ SkipBatch)
        /\ UNCHANGED <<client, hits, ever>>
    BY <1>7 DEF HandleThrows, CryptoDue, RoomDue, AllDone
  <2>2. /\ loop'.pc \in {"exited", "backoff", "top"}
        /\ Again \/ (Onward /\ waived' = waived \cup (InBatch \ ever'))
    <3>1. ever' \subseteq Events
      BY <1>1, <2>1 DEF TypeOK
    <3> QED
      BY <1>1, <2>1, <3>1, GiveUpFacts
  <2>3. Keeps
    BY <2>1, <2>2, IdleKeeps DEF Again
  <2>4. Again \/ (Onward /\ \A x \in InBatch : Accounted(x)')
    BY <2>2 DEF Accounted
  <2> QED
    BY <1>1, <2>1, <2>2, <2>3, <2>4, EndOfBatch
<1> QED
  BY <1>2, <1>3, <1>4, <1>5, <1>6, <1>7 DEF Handle

(* Nothing has happened yet. *)
LEMMA InitHolds == Init => IInv
<1> SUFFICES ASSUME Init PROVE IInv
  OBVIOUS
<1>1. TypeOK
  <2>1. "down" \in LoopPcs /\ 0 \in 0..NumEvents
    BY BoundsAssumption DEF LoopPcs
  <2> QED
    BY <2>1, ResetTypes, NewTypes DEF Init, TypeOK
<1>2. /\ loop.pc = "down" /\ client = NewClient /\ client.cold = NoToken
      /\ disk.next = NoToken /\ Range(client.recent) = {}
  BY DEF Init, NewLoop, NewClient, ColdState, Range
<1>3. NothingLost
  BY <1>2 DEF NothingLost, NoToken, Events
<1> QED
  BY <1>1, <1>2, <1>3
     DEF IInv, DownIsBlank, DiskInStep, NoGap, BootstrapHasNoTimeline, QuietBeforeBootstrap,
         HistoryIsQuiet, SeenIsAccounted, DoneIsAccounted

(* Every step keeps the invariant. *)
LEMMA NextHolds == IInv /\ [Next]_vars => IInv'
<1> SUFFICES ASSUME IInv, [Next]_vars PROVE IInv'
  OBVIOUS
<1>1. CASE UNCHANGED vars
  BY <1>1 DEF vars, IInv, TypeOK, DownIsBlank, DiskInStep, NoGap, BootstrapHasNoTimeline,
              QuietBeforeBootstrap, HistoryIsQuiet, SeenIsAccounted, DoneIsAccounted, NothingLost,
              NeedBootstrap, Quiet, Accounted
<1> QED
  BY <1>1, MovesHold, PrepareCryptoHolds, ProcessHolds, AnswerHolds, HandleHolds DEF Next, Environment, Filter

(* The inductive invariant holds, and with it the types. *)
THEOREM InvariantHolds == Spec => []IInv
BY InitHolds, NextHolds, PTL DEF Spec

(* An event covered by the token in sync.json was dispatched, waits for    *)
(* its key or was given up on for a reason the code has: whatever the      *)
(* crashes, failed batches and redeliveries.                               *)
THEOREM TokenLosesNothing == Spec => []NothingLost
<1>1. IInv => NothingLost
  BY DEF IInv
<1> QED
  BY <1>1, InvariantHolds, PTL

(* A process that bootstrapped dispatches nothing from before: neither     *)
(* from a redelivered batch nor from late decryption.                      *)
THEOREM NoHistoryDispatched == Spec => []HistoryStaysQuiet
<1>1. IInv => HistoryStaysQuiet
  <2> SUFFICES ASSUME IInv, client.cold # NoToken, NEW e \in 1..client.cold PROVE hits[e] = 0
    BY DEF HistoryStaysQuiet
  <2>1. e \in Events /\ e <= client.cold
    BY BoundsAssumption DEF IInv, TypeOK, Tokens, NoToken, Events
  <2> QED
    BY <2>1 DEF IInv, HistoryIsQuiet, Quiet
<1> QED
  BY <1>1, InvariantHolds, PTL

-----------------------------------------------------------------------------
(* At most once, as long as the deduper can hold the events there are. *)

(* A deduper that holds each event once has room for one it does not hold. *)
LEMMA RoomForOne ==
  ASSUME NumEvents <= DedupCapacity, TypeOK, HeldOnce, NEW e \in Events, ~Seen(e)
  PROVE  Len(client.recent) < DedupCapacity
<1> DEFINE q == client.recent
           others == Events \ {e}
<1>1. q \in Seq(Events) /\ DOMAIN q = 1..Len(q) /\ Len(q) \in Nat
  BY DEF TypeOK
<1>2. q \in [1..Len(q) -> others]
  BY <1>1 DEF Seen, Range
<1>3. q \in Injection(1..Len(q), others)
  BY <1>1, <1>2 DEF HeldOnce, Injection, IsInjective
<1>4. IsFiniteSet(Events) /\ Cardinality(Events) = NumEvents
  BY FS_Interval, BoundsAssumption DEF Events
<1>5. IsFiniteSet(others) /\ Cardinality(others) = NumEvents - 1
  BY <1>4, FS_RemoveElement
<1>6. Cardinality(1..Len(q)) = Len(q)
  BY <1>1, FS_Interval
<1> HIDE DEF q, others
<1>7. Len(q) <= NumEvents - 1
  BY <1>3, <1>5, <1>6, FS_Injection
<1> QED
  BY <1>1, <1>7, BoundsAssumption DEF q

(* Remembering an event adds it and forgets none. *)
LEMMA RememberHolds ==
  ASSUME NumEvents <= DedupCapacity, TypeOK, HeldOnce, NEW e \in Events, ~Seen(e),
         client'.recent = Remember(e)
  PROVE  HeldOnce' /\ Range(client'.recent) = Range(client.recent) \cup {e}
<1> DEFINE q == client.recent
           n == client'.recent
<1>1. q \in Seq(Events) /\ DOMAIN q = 1..Len(q) /\ Len(q) \in Nat
  BY DEF TypeOK
<1>2. /\ Len(n) = Len(q) + 1 /\ n[Len(n)] = e
      /\ \A i \in 1..Len(q) : n[i] = q[i]
      /\ Range(n) = Range(q) \cup {e}
  BY RoomForOne, RememberFacts
<1>3. \A i \in 1..Len(q) : q[i] # e
  BY <1>1 DEF Seen, Range
<1>4. \A i, j \in 1..Len(q) : q[i] = q[j] => i = j
  BY DEF HeldOnce
<1> HIDE DEF q, n
<1>5. \A i, j \in 1..Len(n) : n[i] = n[j] => i = j
  BY <1>1, <1>2, <1>3, <1>4
<1> QED
  BY <1>2, <1>5 DEF HeldOnce, q, n

(* A step that touches neither the deduper nor the counts. *)
LEMMA OnceIdle ==
  ASSUME OnceInv, client'.recent = client.recent, client'.attempts = client.attempts,
         hits' = hits, loop'.pc # "down" => loop.pc # "down"
  PROVE  OnceInv'
BY DEF OnceInv, HeldOnce, DispatchedIsHeld, WaitingIsHeld, AtMostOncePerLife, Waiting

(* emitTimelineEvent calls the handler for an event the deduper does not   *)
(* hold: it was not dispatched before.                                     *)
LEMMA OnceDeliver ==
  ASSUME NumEvents <= DedupCapacity, TypeOK, OnceInv, loop.pc # "down",
         NEW e \in Events, Deliver(e)
  PROVE  OnceInv'
<1>1. ~Seen(e) /\ client'.recent = Remember(e) /\ HeldOnce
  BY DeliverFacts DEF Deliver, OnceInv
<1>2. HeldOnce' /\ Range(client'.recent) = Range(client.recent) \cup {e}
  BY <1>1, RememberHolds
<1>3. hits[e] = 0
  BY <1>1 DEF OnceInv, DispatchedIsHeld, Seen, TypeOK
<1>4. /\ \A x \in Encrypted : client'.attempts[x] = IF x = e THEN 0 ELSE client.attempts[x]
      /\ \A x \in Events : x # e => hits'[x] = hits[x]
      /\ hits'[e] <= 1
  BY <1>3, DeliverFacts
<1>5. DispatchedIsHeld'
  BY <1>2, <1>4 DEF OnceInv, DispatchedIsHeld
<1>6. WaitingIsHeld'
  BY <1>2, <1>4 DEF OnceInv, WaitingIsHeld, Waiting
<1>7. AtMostOncePerLife'
  BY <1>4 DEF OnceInv, AtMostOncePerLife
<1> QED
  BY <1>2, <1>5, <1>6, <1>7 DEF OnceInv

(* retryPendingDecrypts dispatches only events that were waiting, and      *)
(* those were not dispatched yet.                                          *)
LEMMA OnceCrypto == ASSUME TypeOK, OnceInv, HandleCrypto PROVE OnceInv'
<1> DEFINE a == RetryPending(known')
           rec == Recovered(known')
<1>1. /\ client'.attempts = a /\ client'.recent = client.recent
      /\ loop.pc # "down" /\ Dispatch(rec)
  BY DEF TypeOK, HandleCrypto, CryptoDue
<1>2. \A e \in Encrypted : (a[e] > 0 => client.attempts[e] > 0) /\ (e \in rec => a[e] = 0)
  BY RetryFacts
<1>3. rec \subseteq Waiting /\ Waiting \subseteq Encrypted /\ Encrypted \subseteq Events
  BY BoundsAssumption DEF Recovered, Waiting
<1>4. a \in [Encrypted -> 0..MaxDecryptAttempts] /\ client.attempts \in [Encrypted -> 0..MaxDecryptAttempts]
  BY RetryFacts DEF TypeOK
<1> HIDE DEF a, rec
<1>5. /\ hits' \in [Events -> 0..2]
      /\ \A e \in Events : e \notin rec => hits'[e] = hits[e]
      /\ \A e \in Events : hits[e] = 0 => hits'[e] <= 1
  BY <1>1, <1>3, DispatchFacts
<1>6. \A e \in rec : hits[e] = 0 /\ e \in Range(client.recent)
  BY <1>1, <1>3 DEF OnceInv, DispatchedIsHeld, WaitingIsHeld, Waiting, TypeOK
<1>7. HeldOnce'
  BY <1>1 DEF OnceInv, HeldOnce
<1>8. DispatchedIsHeld'
  <2> SUFFICES ASSUME NEW e \in Events, hits'[e] > 0
               PROVE  e \in Range(client'.recent) /\ (e \in Encrypted => client'.attempts[e] = 0)
    BY DEF DispatchedIsHeld
  <2>1. CASE e \in rec
    BY <1>1, <1>2, <1>6, <2>1
  <2>2. CASE e \notin rec
    <3>1. hits[e] > 0 /\ (e \in Encrypted => client.attempts[e] = 0) /\ e \in Range(client.recent)
      BY <1>1, <1>5, <2>2 DEF OnceInv, DispatchedIsHeld
    <3>2. e \in Encrypted => a[e] = 0
      BY <1>2, <1>4, <3>1, BoundsAssumption
    <3> QED
      BY <1>1, <3>1, <3>2
  <2> QED
    BY <2>1, <2>2
<1>9. WaitingIsHeld'
  BY <1>1, <1>2 DEF OnceInv, WaitingIsHeld, Waiting
<1>10. AtMostOncePerLife'
  BY <1>5, <1>6 DEF OnceInv, AtMostOncePerLife
<1> QED
  BY <1>7, <1>8, <1>9, <1>10 DEF OnceInv

(* emitTimelineEvent without a handler. *)
LEMMA OnceNothing ==
  ASSUME NumEvents <= DedupCapacity, TypeOK, OnceInv, NEW e \in Events, EmitNothing(e)
  PROVE  OnceInv'
<1>1. loop.pc # "down" /\ hits' = hits
  BY DEF EmitNothing, EventDue
<1>2. CASE client' = client
  BY <1>1, <1>2, OnceIdle
<1>3. CASE client'.recent = Remember(e) /\ ~Seen(e) /\ client'.attempts = client.attempts
  <2>1. HeldOnce' /\ Range(client'.recent) = Range(client.recent) \cup {e}
    BY <1>3, RememberHolds DEF OnceInv
  <2> QED
    BY <1>1, <1>3, <2>1
       DEF OnceInv, DispatchedIsHeld, WaitingIsHeld, Waiting, AtMostOncePerLife
<1>4. CASE client'.recent = Remember(e) /\ ~Seen(e) /\ e \in Encrypted
  <2>1. HeldOnce' /\ Range(client'.recent) = Range(client.recent) \cup {e}
    BY <1>4, RememberHolds DEF OnceInv
  <2>2. ~(hits[e] > 0) /\ \A x \in Encrypted : x # e => client'.attempts[x] = client.attempts[x]
    BY <1>1, <1>4, EmitNothingFacts DEF OnceInv, DispatchedIsHeld, Seen
  <2> QED
    BY <1>1, <2>1, <2>2
       DEF OnceInv, DispatchedIsHeld, WaitingIsHeld, Waiting, AtMostOncePerLife
<1> QED
  BY <1>2, <1>3, <1>4, EmitNothingFacts

(* Every step keeps it. *)
LEMMA OnceNext ==
  (NumEvents <= DedupCapacity /\ IInv /\ OnceInv /\ [Next]_vars) => OnceInv'
<1> SUFFICES ASSUME NumEvents <= DedupCapacity, TypeOK, OnceInv, [Next]_vars PROVE OnceInv'
  BY DEF IInv
<1>1. CASE UNCHANGED vars
  BY <1>1, OnceIdle DEF vars
<1>2. CASE \/ Environment \/ Stop \/ Leave \/ Filter \/ ServerAnswers
           \/ RequestFails \/ AuthFails \/ WakeUp \/ BeginHandle \/ PrepareCrypto
  <2>1. UNCHANGED <<hits, client.recent, client.attempts>>
    BY <1>2 DEF TypeOK, Environment, SendEvent, SendKey, Stop, Leave, Filter, KeepFilter, UploadFilter,
                UploadFilterFails, ServerAnswers, RequestFails, AuthFails, WakeUp, BeginHandle, PrepareCrypto, history
  <2>2. loop'.pc # "down" => loop.pc # "down"
    BY <1>2 DEF TypeOK, Environment, SendEvent, SendKey, Stop, Leave, Filter, KeepFilter, UploadFilter,
                UploadFilterFails, ServerAnswers, RequestFails, AuthFails, WakeUp, BeginHandle, PrepareCrypto, Goto
  <2> QED
    BY <2>1, <2>2, OnceIdle
<1>3. CASE Start \/ ProcessEnds
  <2>1. /\ client'.recent = <<>> /\ \A e \in Encrypted : client'.attempts[e] = 0
        /\ \/ loop'.pc = "down" /\ hits' = hits
           \/ hits' = [e \in Events |-> 0]
    BY <1>3 DEF Start, ProcessEnds, NewClient, NewLoop
  <2> QED
    BY <2>1 DEF OnceInv, HeldOnce, DispatchedIsHeld, WaitingIsHeld, Waiting, AtMostOncePerLife
<1>4. CASE HandleCrypto
  BY <1>4, OnceCrypto
<1>5. ASSUME NEW e \in Events, EmitNothing(e) PROVE OnceInv'
  BY <1>5, OnceNothing
<1>6. ASSUME NEW e \in Events, EmitEvent(e) \/ EmitThrows(e) PROVE OnceInv'
  BY <1>6, OnceDeliver DEF EmitEvent, EmitThrows, EventDue
<1>7. CASE \/ \E r \in Range(RoomOrder) : HandleRoom(r)
           \/ FinishBatch
           \/ \E auth \in BOOLEAN : HandleThrows(auth)
  <2>1. loop.pc # "down" /\ UNCHANGED <<client, hits>>
    BY <1>7 DEF HandleRoom, FinishBatch, HandleThrows, RoomDue, CryptoDue, AllDone, history
  <2> QED
    BY <2>1, OnceIdle
<1> QED
  BY <1>1, <1>2, <1>3, <1>4, <1>5, <1>6, <1>7 DEF Next, Handle

(* EventDeduper's promise for the whole path of an event: as long as the   *)
(* ring can hold the events there are, none reaches a handler twice in one *)
(* process life, however batches fail, are redelivered or decrypted late.  *)
THEOREM AtMostOnce ==
  ASSUME NumEvents <= DedupCapacity
  PROVE  Spec => []AtMostOncePerLife
<1>1. Init => OnceInv
  BY DEF Init, OnceInv, HeldOnce, DispatchedIsHeld, WaitingIsHeld, Waiting, AtMostOncePerLife,
         NewLoop, NewClient
<1>2. IInv /\ OnceInv /\ [Next]_vars => OnceInv'
  BY OnceNext
<1>3. OnceInv => AtMostOncePerLife
  BY DEF OnceInv
<1> QED
  BY <1>1, <1>2, <1>3, InvariantHolds, PTL DEF Spec
=============================================================================
