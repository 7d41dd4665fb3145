------------------------------- MODULE Outbox -------------------------------
(***************************************************************************)
(* Sends that survive transient failures: sendEventWithOutbox (send.ts),   *)
(* the file store and flushOutbox (outbox.ts) as Bot.start calls it, with  *)
(* handlers that go on sending while the flush runs and a process that may *)
(* die between any two of its steps.                                       *)
(*                                                                         *)
(* One call of client.sendEvent is one transaction: its HTTP retries reuse *)
(* one transaction id, which the homeserver deduplicates.  A message in    *)
(* Keyed carries a transaction id of its own (txnId or idempotencyKey).    *)
(***************************************************************************)
EXTENDS Integers, SequencesExt

CONSTANTS
  Messages,     \* what the bot sends, once each
  Keyed,        \* the messages with a transaction id of their own
  MaxAttempts,  \* maxAttempts of flushOutbox (8 in the code)
  MaxCrashes    \* bound on the crashes

ASSUME OutboxAssumption ==
  /\ Keyed \subseteq Messages
  /\ MaxAttempts \in Nat \ {0} /\ MaxCrashes \in Nat

VARIABLES
  posted,   \* homeserver: how often each message is in the room
  store,    \* outbox.json
  call,     \* the sendEventWithOutbox call of each message
  flush,    \* the flushOutbox call of Bot.start
  up,       \* Bot.start has started the client
  crashes,  \* counter for the bound
  queued,   \* history: messages enqueue() has written
  flushed,  \* history: messages a flush has sent
  dropped   \* history: messages given up on after maxAttempts

outboxVars == <<posted, store, call, flush, up, crashes, queued, flushed, dropped>>

Entry(m, keyed, n) == [msg |-> m, txnId |-> keyed, attempts |-> n]
Entries == [msg : Messages, txnId : BOOLEAN, attempts : 0..MaxAttempts]
CallStates == {"new", "sending", "transient", "returned", "threw"}
NoFlush == [pc |-> "none", todo |-> <<>>]

OutboxTypeOK ==
  /\ posted \in [Messages -> Nat]
  /\ store \in Seq(Entries)
  /\ call \in [Messages -> CallStates]
  /\ flush \in [pc : {"none", "next", "sending", "sent", "failed", "done"}, todo : Seq(Entries)]
  /\ up \in BOOLEAN /\ crashes \in 0..MaxCrashes
  /\ queued \subseteq Messages /\ flushed \subseteq queued /\ dropped \subseteq queued

OutboxInit ==
  /\ posted = [m \in Messages |-> 0]
  /\ store = <<>>
  /\ call = [m \in Messages |-> "new"]
  /\ flush = NoFlush
  /\ up = FALSE /\ crashes = 0
  /\ queued = {} /\ flushed = {} /\ dropped = {}

-----------------------------------------------------------------------------
(* The homeserver takes a message, unless it has seen the transaction. *)
Post(m, txnId) ==
  posted' = [posted EXCEPT ![m] = IF txnId /\ @ > 0 THEN @ ELSE @ + 1]

-----------------------------------------------------------------------------
(* sendEventWithOutbox(). *)

Send(m) ==
  /\ up
  /\ call[m] = "new"
  /\ call' = [call EXCEPT ![m] = "sending"]
  /\ UNCHANGED <<posted, store, flush, up, crashes, queued, flushed, dropped>>

Settle(m, s) == call' = [call EXCEPT ![m] = s]

SendReturns(m) ==
  /\ call[m] = "sending"
  /\ Post(m, m \in Keyed)
  /\ Settle(m, "returned")
  /\ UNCHANGED <<store, flush, up, crashes, queued, flushed, dropped>>

(* The homeserver refused it: nothing is enqueued, the caller is told. *)
SendRefused(m) ==
  /\ call[m] = "sending"
  /\ Settle(m, "threw")
  /\ UNCHANGED <<posted, store, flush, up, crashes, queued, flushed, dropped>>

(* isTransientSendError: it may have been posted nevertheless. *)
SendFails(m) ==
  /\ call[m] = "sending"
  /\ Post(m, m \in Keyed) \/ UNCHANGED posted
  /\ Settle(m, "transient")
  /\ UNCHANGED <<store, flush, up, crashes, queued, flushed, dropped>>

(* An entry without the transaction id of the call. *)
EnqueueWithoutTxnId(m) ==
  /\ call[m] = "transient"
  /\ store' = Append(store, Entry(m, FALSE, 0))
  /\ queued' = queued \cup {m}
  /\ Settle(m, "threw")
  /\ UNCHANGED <<posted, flush, up, crashes, flushed, dropped>>

(* enqueue() reads, appends and writes in one synchronous section; the     *)
(* error is thrown on.                                                     *)
Enqueue(m) ==
  /\ call[m] = "transient"
  /\ store' = Append(store, Entry(m, m \in Keyed, 0))
  /\ queued' = queued \cup {m}
  /\ Settle(m, "threw")
  /\ UNCHANGED <<posted, flush, up, crashes, flushed, dropped>>

-----------------------------------------------------------------------------
(* flushOutbox(). *)

(* remove(): the store without the entry of m.  A message is enqueued once. *)
Without(m) ==
  IF \E i \in 1..Len(store) : store[i].msg = m
  THEN RemoveAt(store, CHOOSE i \in 1..Len(store) : store[i].msg = m)
  ELSE store

Current == Head(flush.todo)
FlushGoto(pc) == flush' = [flush EXCEPT !.pc = pc]
FlushNext == flush' = [pc |-> "next", todo |-> Tail(flush.todo)]

(* Bot.start: once client.start returned, handlers run and may send ...    *)
Start ==
  /\ ~up
  /\ up' = TRUE
  /\ UNCHANGED <<posted, store, call, flush, crashes, queued, flushed, dropped>>

(* ... when the store is listed. *)
FlushList ==
  /\ up /\ flush.pc = "none"
  /\ flush' = [pc |-> "next", todo |-> store]
  /\ UNCHANGED <<posted, store, call, up, crashes, queued, flushed, dropped>>

(* remove() of an entry that failed too often, onDrop. *)
FlushDrop ==
  /\ flush.pc = "next" /\ flush.todo # <<>>
  /\ Current.attempts >= MaxAttempts
  /\ store' = Without(Current.msg)
  /\ dropped' = dropped \cup {Current.msg}
  /\ FlushNext
  /\ UNCHANGED <<posted, call, up, crashes, queued, flushed>>

(* The entry removed before it is sent. *)
FlushSendRemoving ==
  /\ flush.pc = "next" /\ flush.todo # <<>>
  /\ Current.attempts < MaxAttempts
  /\ store' = Without(Current.msg)
  /\ FlushGoto("sending")
  /\ UNCHANGED <<posted, call, up, crashes, queued, flushed, dropped>>

FlushSend ==
  /\ flush.pc = "next" /\ flush.todo # <<>>
  /\ Current.attempts < MaxAttempts
  /\ FlushGoto("sending")
  /\ UNCHANGED <<posted, store, call, up, crashes, queued, flushed, dropped>>

FlushSent ==
  /\ flush.pc = "sending"
  /\ Post(Current.msg, Current.txnId)
  /\ FlushGoto("sent")
  /\ UNCHANGED <<store, call, up, crashes, queued, flushed, dropped>>

(* Any error counts, a refusal as well as a lost answer. *)
FlushFails ==
  /\ flush.pc = "sending"
  /\ Post(Current.msg, Current.txnId) \/ UNCHANGED posted
  /\ FlushGoto("failed")
  /\ UNCHANGED <<store, call, up, crashes, queued, flushed, dropped>>

FlushRemove ==
  /\ flush.pc = "sent"
  /\ store' = Without(Current.msg)
  /\ flushed' = flushed \cup {Current.msg}
  /\ FlushNext
  /\ UNCHANGED <<posted, call, up, crashes, queued, dropped>>

(* bumpAttempt() rereads the store. *)
FlushBump ==
  /\ flush.pc = "failed"
  /\ store' = [i \in 1..Len(store) |->
                 IF store[i].msg = Current.msg THEN [store[i] EXCEPT !.attempts = @ + 1] ELSE store[i]]
  /\ FlushNext
  /\ UNCHANGED <<posted, call, up, crashes, queued, flushed, dropped>>

FlushDone ==
  /\ flush.pc = "next" /\ flush.todo = <<>>
  /\ flush' = [pc |-> "done", todo |-> <<>>]
  /\ UNCHANGED <<posted, store, call, up, crashes, queued, flushed, dropped>>

-----------------------------------------------------------------------------
(* The process dies: calls that had not settled are gone. *)
Crash ==
  /\ up /\ crashes < MaxCrashes
  /\ crashes' = crashes + 1
  /\ up' = FALSE
  /\ flush' = NoFlush
  /\ call' = [m \in Messages |-> IF call[m] \in {"sending", "transient"} THEN "threw" ELSE call[m]]
  /\ UNCHANGED <<posted, store, queued, flushed, dropped>>

(* The bot runs on with nothing to send. *)
Quiet ==
  /\ flush.pc = "done" /\ \A m \in Messages : call[m] \in {"returned", "threw"}
  /\ UNCHANGED outboxVars

Flush == Start \/ FlushList \/ FlushDrop \/ FlushSend \/ FlushSent \/ FlushFails \/ FlushRemove \/ FlushBump \/ FlushDone

OutboxNext ==
  \/ \E m \in Messages : Send(m) \/ SendReturns(m) \/ SendRefused(m) \/ SendFails(m) \/ Enqueue(m)
  \/ Flush \/ Crash \/ Quiet

OutboxSpec == OutboxInit /\ [][OutboxNext]_outboxVars

-----------------------------------------------------------------------------
InStore(m) == \E i \in 1..Len(store) : store[i].msg = m

(* What enqueue() has written is kept until a flush has sent it or has     *)
(* failed maxAttempts times: not a crash, nor an enqueue during the flush, *)
(* nor a failed attempt at another entry loses it.                         *)
NothingForgotten == \A m \in queued : InStore(m) \/ m \in flushed \/ m \in dropped

(* putRoomEvent, "the homeserver deduplicates instead of double-posting":  *)
(* a message with a transaction id of its own is posted at most once,      *)
(* through lost answers, flushes and crashes between a send and the        *)
(* removal of its entry.                                                   *)
KeyedOnce == \A m \in Keyed : posted[m] <= 1

=============================================================================
