----------------------------- MODULE CryptoShare -----------------------------
(***************************************************************************)
(* How a message gets encrypted (crypto.ts encryptMessage and what it      *)
(* calls): the decision whether the Megolm session of the room still has   *)
(* to be shared, the share, the encryption, against sync responses that    *)
(* announce new devices, joins and leaves.  Every section of the engine    *)
(* that touches the OlmMachine runs under one FIFO lock; the bookkeeping   *)
(* around it (shareState, dirtyUsers, trackedUsers) does not.              *)
(* One room.  The OlmMachine and the homeserver are external.              *)
(***************************************************************************)
EXTENDS Naturals, Sequences, FiniteSets

CONSTANTS
  Users,        \* the other users; the bot itself is filtered out of every share
  FirstMembers, \* those in the room when the bot starts
  Elsewhere,    \* those who share another encrypted room with the bot all along
  MaxSends,     \* bound: calls of client.sendEvent, numbered as they come
  Policies,     \* resolved share policies the bot may be configured with, and with each of
                \* them the bounds it is run under: sends, and sends in flight at once
  MaxDevices,   \* bound: devices of a user
  MaxFails,     \* bound: requests that fail
  MaxEvents,    \* bound: logins, joins, leaves, shares that age or are invalidated, close()
  MaxPoison     \* attempts at a sync response before it is skipped

ASSUME ShareBounds ==
  /\ FirstMembers \subseteq Users /\ Elsewhere \subseteq Users
  /\ MaxSends \in Nat /\ MaxDevices \in Nat \ {0} /\ MaxFails \in Nat /\ MaxEvents \in Nat
  /\ MaxPoison \in Nat \ {0}
  /\ \A p \in Policies : p.period \in Nat

Sends == 1..MaxSends

(* The calls that take the lock: the sends and these three. *)
PrepareCall == 0
SyncCall == MaxSends + 1
CloseCall == MaxSends + 2

VARIABLES
  policy,    \* sharePolicy: [rotateEvery, maxPeers, period, reshare], and the bounds [sends, atOnce]
  hs,        \* homeserver: user -> number of devices
  nextSync,      \* homeserver: what the next sync response says
  machine,   \* OlmMachine: tracked users, outdated users, known devices
  session,   \* OlmMachine: the outbound Megolm session of the room
  queue,     \* AsyncLock: the calls in line, the first one holds the lock
  ready,     \* _isReady
  closed,    \* "no", "closing" (_closed is set), "closed"
  members,   \* RoomCache: the joined members
  share,     \* shareState of the room
  dirty,     \* dirtyUsers
  tracked,   \* trackedUsers
  pc,        \* the sends
  to,        \* the recipients of each send
  response,      \* the sync response being handled
  fails,     \* requests that failed so far
  events,    \* events of the bound MaxEvents so far
  shared,    \* history: the session of the last complete share, the users whose devices it covers,
             \* and the strays: users that a share which failed has given the session since
  owed,      \* history: the session a send relies on, the devices that must have it, and the
             \* strays at the time it found the cached share fresh
  msg,       \* history: the session each message was encrypted with
  overlap,   \* history: sends that ran while this one did
  lost       \* history: users whose change was in a skipped response

homeserver == <<hs, nextSync>>
engine == <<members, share, dirty, tracked>>
sends == <<pc, to>>
shareHistory == <<shared, owed, msg, overlap, lost>>
shareVars == <<policy, homeserver, machine, session, queue, ready, closed, engine, sends, response, fails, events, shareHistory>>

NoShare == [fp |-> {}, messages |-> 0, aged |-> FALSE]
NoSession == [id |-> 0, to |-> {}, withheld |-> {}, used |-> 0, limit |-> 0]
NoNews == [changed |-> {}, left |-> {}, joined |-> {}]
NoSync == [pc |-> "idle", changed |-> {}, left |-> {}, joined |-> {}, heard |-> FALSE, attempts |-> 0]
Devices == Users \X (1..MaxDevices)

SendStates == {"idle", "ready", "share", "refresh", "fanout", "encrypt", "flush", "put", "sent", "failed"}

Machine == [tracked : SUBSET Users, stale : SUBSET Users, devices : SUBSET Devices]
Session == [id : Nat, to : SUBSET Devices, withheld : SUBSET Devices, used : Nat, limit : Nat]
News == [changed : SUBSET Users, left : SUBSET Users, joined : SUBSET Users]
Response == [pc : {"idle", "receive", "rooms", "track", "throws"}, changed : SUBSET Users,
             left : SUBSET Users, joined : SUBSET Users, heard : BOOLEAN, attempts : Nat]
Share == [fp : SUBSET Users, messages : Nat, aged : BOOLEAN]
Shared == [id : Nat, users : SUBSET Users, strays : SUBSET Users]
Owed == [id : Nat, devices : SUBSET Devices, strays : SUBSET Users]

ShareTypeOK ==
  /\ policy \in Policies
  /\ hs \in [Users -> 1..MaxDevices] /\ nextSync \in News
  /\ machine \in Machine /\ session \in Session
  /\ queue \in Seq(0..CloseCall)
  /\ ready \in BOOLEAN /\ closed \in {"no", "closing", "closed"}
  /\ members \subseteq Users /\ share \in Share
  /\ dirty \subseteq Users /\ tracked \subseteq Users
  /\ pc \in [Sends -> SendStates] /\ to \in [Sends -> SUBSET Users]
  /\ response \in Response
  /\ fails \in Nat /\ events \in Nat
  /\ shared \in Shared
  /\ owed \in [Sends -> Owed]
  /\ msg \in [Sends -> Session] /\ overlap \in [Sends -> SUBSET Sends] /\ lost \subseteq Users

ShareInit ==
  /\ policy \in Policies
  /\ hs = [u \in Users |-> 1]
  /\ nextSync = NoNews
  /\ machine = [tracked |-> {}, stale |-> {}, devices |-> {}]
  /\ session = NoSession
  /\ queue = <<PrepareCall>>
  /\ ready = FALSE
  /\ closed = "no"
  /\ members = FirstMembers
  /\ share = NoShare
  /\ dirty = {}
  /\ tracked = {}
  /\ pc = [x \in Sends |-> "idle"]
  /\ to = [x \in Sends |-> {}]
  /\ response = NoSync
  /\ fails = 0
  /\ events = 0
  /\ shared = [id |-> 0, users |-> {}, strays |-> {}]
  /\ owed = [x \in Sends |-> [id |-> 0, devices |-> {}, strays |-> {}]]
  /\ msg = [x \in Sends |-> NoSession]
  /\ overlap = [x \in Sends |-> {}]
  /\ lost = {}

-----------------------------------------------------------------------------
Happens == events < MaxEvents /\ events' = events + 1

(* The homeserver: a user logs in on another device, joins, leaves.  In     *)
(* nextSync a user is in at most one of joined and left.  The device lists  *)
(* of a response do not mention that somebody came or went who shares       *)
(* another encrypted room with the bot.                                     *)
AddDevice(u) ==
  /\ hs[u] < MaxDevices
  /\ hs' = [hs EXCEPT ![u] = @ + 1]
  /\ nextSync' = [nextSync EXCEPT !.changed = @ \cup {u}]
  /\ Happens
  /\ UNCHANGED <<policy, machine, session, queue, ready, closed, engine, sends, response, fails, shareHistory>>

InRoom(u) == u \in ((members \cup response.joined \cup nextSync.joined) \ (response.left \cup nextSync.left))

JoinRoom(u) ==
  /\ ~InRoom(u) /\ u \notin nextSync.left
  /\ nextSync' = [nextSync EXCEPT !.joined = @ \cup {u}, !.changed = @ \cup ({u} \ Elsewhere)]
  /\ Happens
  /\ UNCHANGED <<policy, hs, machine, session, queue, ready, closed, engine, sends, response, fails, shareHistory>>

LeaveRoom(u) ==
  /\ InRoom(u) /\ u \notin nextSync.joined
  /\ nextSync' = [nextSync EXCEPT !.left = @ \cup {u}, !.changed = @ \ ({u} \ Elsewhere)]
  /\ Happens
  /\ UNCHANGED <<policy, hs, machine, session, queue, ready, closed, engine, sends, response, fails, shareHistory>>

-----------------------------------------------------------------------------
(* The OlmMachine: users it is told of become outdated, and the outgoing    *)
(* keys/query brings their devices.                                         *)
Known(m, users) == {d \in m.devices : d[1] \in users}

Track(m, users) ==
  [m EXCEPT !.tracked = @ \cup users, !.stale = @ \cup (users \ m.tracked)]

Outdate(m, users) == [m EXCEPT !.stale = @ \cup (users \cap m.tracked)]

Queried(m) ==
  [m EXCEPT !.stale = {},
            !.devices = {d \in @ : d[1] \notin m.stale} \cup {d \in Devices : d[1] \in m.stale /\ d[2] <= hs[d[1]]}]

(* shareRoomKey uses a new session when there is none, when the old one is  *)
(* used up, and when somebody who has it is no longer among the recipients. *)
SessionFor(users, limit) ==
  IF \/ session.id = 0
     \/ session.used >= session.limit
     \/ \E d \in session.to : d[1] \notin users
  THEN [NoSession EXCEPT !.id = session.id + 1, !.limit = limit]
  ELSE session

(* runOutgoingRequestsUnlocked on machine m: everything is sent, or a       *)
(* request fails, the keys/query or one after it, and the caller sees the   *)
(* error.  On a closed engine nothing is sent.                              *)
RunOutgoing(m, ok) ==
  \/ ok /\ machine' = (IF closed = "no" THEN Queried(m) ELSE m) /\ UNCHANGED fails
  \/ /\ ~ok /\ closed = "no" /\ fails < MaxFails
     /\ fails' = fails + 1
     /\ machine' \in {m, Queried(m)}

(* AsyncLock.run. *)
Enqueue(op) == queue' = Append(queue, op)
Holds(op) == queue # << >> /\ Head(queue) = op
Release == queue' = Tail(queue)

Goto(x, s) == pc' = [pc EXCEPT ![x] = s]

(* An AsyncLock that a rejected section never leaves. *)
ThrowHolding(x) == Goto(x, "failed") /\ UNCHANGED queue

(* A section that ends with an error, be it a failing request or a machine  *)
(* that was closed while the call stood in line.                            *)
Throw(x) == Release /\ Goto(x, "failed")

-----------------------------------------------------------------------------
(* prepare(): until it has succeeded once, nothing is sent. *)
Prepare(ok) ==
  /\ Holds(PrepareCall)
  /\ RunOutgoing(Track(machine, members), ok)
  /\ tracked' = tracked \cup members
  /\ ready' = ok
  /\ IF ok THEN Release ELSE UNCHANGED queue
  /\ UNCHANGED <<policy, events, homeserver, session, closed, members, share, dirty, sends, response, shareHistory>>

RotateEveryMessage(n) == policy.rotateEvery /\ (policy.maxPeers = 0 \/ n <= policy.maxPeers)

(* The rotation period given to the machine. *)
RotationPeriod(n) == IF RotateEveryMessage(n) \/ policy.period = 0 THEN 1 ELSE policy.period

Active == {x \in Sends : pc[x] \notin {"idle", "sent", "failed"}}

(* sendEvent up to encryptMessage: the recipients are read. *)
SendEvent(x) ==
  /\ pc[x] = "idle" /\ ready /\ \A y \in 1..(x - 1) : pc[y] # "idle"
  /\ x <= policy.sends /\ Cardinality(Active) < policy.atOnce
  /\ IF closed = "no" THEN Goto(x, "ready") ELSE Goto(x, "failed")
  /\ to' = [to EXCEPT ![x] = members]
  /\ overlap' = [y \in Sends |-> IF y = x THEN Active ELSE IF y \in Active THEN overlap[y] \cup {x} ELSE overlap[y]]
  /\ UNCHANGED <<policy, events, homeserver, machine, session, queue, ready, closed, engine, response, fails, shared, owed, msg, lost>>

(* shareIsFresh that trusts the cached share whoever the members are. *)
ShareIsFreshForAnyone(peers) ==
  /\ ~RotateEveryMessage(Cardinality(peers))
  /\ share # NoShare
  /\ policy.reshare => peers \cap dirty = {}
  /\ share.messages < policy.period
  /\ ~share.aged

ShareIsFresh(peers) ==
  /\ ~RotateEveryMessage(Cardinality(peers))
  /\ share # NoShare
  /\ share.fp = peers
  /\ policy.reshare => peers \cap dirty = {}
  /\ share.messages < policy.period
  /\ ~share.aged

(* Users whose change a sync response is telling the engine right now, or   *)
(* told it in vain.                                                         *)
Unheard == (IF response.heard THEN {} ELSE response.changed) \cup lost

(* The devices that a send owes the key when it finds the cached share      *)
(* fresh: those known of the users that the last complete share covers.     *)
OwedByShare ==
  IF session.id = shared.id THEN {d \in Known(machine, shared.users) : d[1] \notin Unheard} ELSE {}

(* encryptMessage up to its first await.  One promise job lies between      *)
(* reading the recipients and this, so sends come here in the order in      *)
(* which they read them.                                                    *)
EncryptMessage(x) ==
  /\ pc[x] = "ready" /\ \A y \in 1..(x - 1) : pc[y] # "ready"
  /\ IF ShareIsFresh(to[x])
     THEN /\ share' = [share EXCEPT !.messages = @ + 1]
          /\ owed' = [owed EXCEPT ![x] = [id |-> session.id, devices |-> OwedByShare, strays |-> shared.strays]]
          /\ Goto(x, "encrypt")
     ELSE Goto(x, "share") /\ UNCHANGED <<share, owed>>
  /\ Enqueue(x)
  /\ UNCHANGED <<policy, events, homeserver, machine, session, ready, closed, members, dirty, tracked, to, response, fails, shared, msg, overlap, lost>>

(* ensureSessionsAndShare, under the lock: users not tracked yet. *)
ShareTrack(x, ok) ==
  /\ Holds(x) /\ pc[x] = "share"
  /\ IF closed = "closed" THEN ~ok /\ Throw(x) /\ UNCHANGED <<machine, fails, tracked>>
     ELSE /\ tracked' = tracked \cup to[x]
          /\ IF to[x] \subseteq tracked THEN ok /\ UNCHANGED <<machine, fails>>
             ELSE RunOutgoing(Track(machine, to[x] \ tracked), ok)
          /\ IF ok THEN Goto(x, "refresh") /\ UNCHANGED queue ELSE Throw(x)
  /\ UNCHANGED <<policy, events, homeserver, session, ready, closed, members, share, dirty, to, response, shareHistory>>

(* ... the device lists of those known to have changed, or of everyone. *)
ShareRefresh(x, ok) ==
  /\ Holds(x) /\ pc[x] = "refresh"
  /\ LET stale == IF RotateEveryMessage(Cardinality(to[x])) THEN to[x] ELSE to[x] \cap dirty
     IN /\ IF stale = {} THEN ok /\ UNCHANGED <<machine, fails>>
           ELSE RunOutgoing(Outdate(machine, stale), ok)
        /\ dirty' = IF ok THEN dirty \ stale ELSE dirty
        /\ shared' = [shared EXCEPT !.users = @ \ stale]
  /\ IF ok THEN Goto(x, "fanout") /\ UNCHANGED queue ELSE Throw(x)
  /\ UNCHANGED <<policy, events, homeserver, session, ready, closed, members, share, tracked, to, response, owed, msg, overlap, lost>>

(* ... the room key goes to every known device that does not have it;       *)
(* without an Olm session a device gets a withheld notice instead.  One     *)
(* request goes out after the other, so a share that fails has reached some *)
(* of them, and shareState stays as it was.  The encryption gets in line    *)
(* behind whoever waits for the lock.                                       *)
ShareFanout(x, withheld, ok) ==
  /\ Holds(x) /\ pc[x] = "fanout"
  /\ LET s == SessionFor(to[x], RotationPeriod(Cardinality(to[x])))
         new == Known(machine, to[x]) \ (s.to \cup s.withheld)
         left == IF withheld THEN new ELSE {}
     IN /\ withheld => new # {}
        /\ IF ~ok
           THEN /\ fails < MaxFails /\ fails' = fails + 1 /\ new # {} /\ ~withheld
                /\ \E reached \in SUBSET new :
                     /\ session' = [s EXCEPT !.to = @ \cup reached]
                     /\ shared' = [shared EXCEPT !.strays =
                                     {d[1] : d \in reached} \cup (IF s.id = session.id THEN @ ELSE {})]
                /\ Throw(x) /\ UNCHANGED <<share, owed>>
           ELSE /\ session' = [s EXCEPT !.to = @ \cup (new \ left), !.withheld = @ \cup left]
                /\ UNCHANGED fails
                /\ IF withheld
                   THEN Throw(x) /\ share' = NoShare /\ UNCHANGED <<shared, owed>>
                   ELSE /\ share' = [fp |-> to[x], messages |-> 1, aged |-> FALSE]
                        /\ shared' = [id |-> s.id, users |-> to[x] \ machine.stale, strays |-> {}]
                        /\ owed' = [owed EXCEPT ![x] = [id |-> s.id, devices |-> Known(machine, to[x]), strays |-> {}]]
                        /\ Goto(x, "encrypt") /\ queue' = Append(Tail(queue), x)
  /\ UNCHANGED <<policy, events, homeserver, machine, ready, closed, members, dirty, tracked, to, response, msg, overlap, lost>>

(* The second section of encryptMessage: encryptRoomEvent ... *)
EncryptRoomEvent(x) ==
  /\ Holds(x) /\ pc[x] = "encrypt"
  /\ IF closed = "closed" THEN Throw(x) /\ UNCHANGED <<session, msg>>
     ELSE /\ session' = [session EXCEPT !.used = @ + 1]
          /\ msg' = [msg EXCEPT ![x] = session']
          /\ Goto(x, "flush") /\ UNCHANGED queue
  /\ UNCHANGED <<policy, events, homeserver, machine, ready, closed, engine, to, response, fails, shared, owed, overlap, lost>>

(* ... and the outgoing requests after it: an error there loses the        *)
(* ciphertext.                                                             *)
EncryptFlush(x, ok) ==
  /\ Holds(x) /\ pc[x] = "flush"
  /\ RunOutgoing(machine, ok)
  /\ IF ok THEN Release /\ Goto(x, "put") ELSE Throw(x)
  /\ UNCHANGED <<policy, events, homeserver, session, ready, closed, engine, to, response, shareHistory>>

(* putRoomEvent. *)
Put(x, ok) ==
  /\ pc[x] = "put"
  /\ IF ok THEN Goto(x, "sent") /\ UNCHANGED fails
     ELSE fails < MaxFails /\ fails' = fails + 1 /\ Goto(x, "failed")
  /\ UNCHANGED <<policy, events, homeserver, machine, session, queue, ready, closed, engine, to, response, shareHistory>>

-----------------------------------------------------------------------------
(* The sync loop. *)

SyncAnswers ==
  /\ response.pc = "idle" /\ ready /\ closed = "no" /\ nextSync # NoNews
  /\ response' = [pc |-> "receive", changed |-> nextSync.changed, left |-> nextSync.left, joined |-> nextSync.joined, heard |-> FALSE, attempts |-> 0]
  /\ nextSync' = NoNews
  /\ Enqueue(SyncCall)
  /\ UNCHANGED <<policy, events, hs, machine, session, ready, closed, engine, sends, fails, shareHistory>>

(* receiveSync whose changes leave the cached shares alone. *)
MarkOnly(changed, left) ==
  /\ dirty' = dirty \cup changed \cup left
  /\ tracked' = tracked \ left
  /\ UNCHANGED share

(* What receiveSync does once the lock is released: that code runs before   *)
(* the next call in line gets the lock.                                     *)
MarkChanged(changed, left) ==
  /\ dirty' = dirty \cup changed \cup left
  /\ tracked' = tracked \ left
  /\ share' = IF changed \cup left = {} THEN share ELSE NoShare

SyncReceive(ok) ==
  /\ Holds(SyncCall) /\ response.pc = "receive"
  /\ RunOutgoing(Outdate(machine, response.changed), ok)
  /\ Release
  /\ IF ok
     THEN /\ MarkChanged(response.changed, response.left \ Elsewhere)
          /\ lost' = lost \ response.changed
          /\ response' = [response EXCEPT !.pc = "rooms", !.heard = TRUE]
     ELSE response' = [response EXCEPT !.pc = "throws"] /\ UNCHANGED <<dirty, tracked, share, lost>>
  /\ UNCHANGED <<policy, events, homeserver, session, ready, closed, members, sends, shared, owed, msg, overlap>>

(* handleJoinedRoom: the member list, then updateTrackedUsers. *)
SyncRooms ==
  /\ response.pc = "rooms"
  /\ members' = (members \cup response.joined) \ response.left
  /\ IF response.joined \subseteq tracked \/ closed # "no"
     THEN response' = NoSync /\ UNCHANGED queue
     ELSE response' = [response EXCEPT !.pc = "track"] /\ Enqueue(SyncCall)
  /\ UNCHANGED <<policy, events, homeserver, machine, session, ready, closed, share, dirty, tracked, sends, fails, shareHistory>>

SyncTrack(ok) ==
  /\ Holds(SyncCall) /\ response.pc = "track"
  /\ RunOutgoing(Track(machine, response.joined), ok)
  /\ Release
  /\ IF ok THEN tracked' = tracked \cup response.joined /\ response' = NoSync
     ELSE response' = [response EXCEPT !.pc = "throws"] /\ UNCHANGED tracked
  /\ UNCHANGED <<policy, events, homeserver, session, ready, closed, members, share, dirty, sends, shareHistory>>

(* The response is handled again from the start, or skipped. *)
SyncThrows ==
  /\ response.pc = "throws"
  /\ IF response.attempts + 1 >= MaxPoison
     THEN response' = NoSync /\ lost' = Unheard /\ UNCHANGED queue
     ELSE /\ response' = [response EXCEPT !.pc = "receive", !.heard = FALSE, !.attempts = @ + 1]
          /\ Enqueue(SyncCall) /\ UNCHANGED lost
  /\ UNCHANGED <<policy, events, homeserver, machine, session, ready, closed, engine, sends, fails, shared, owed, msg, overlap>>

-----------------------------------------------------------------------------
(* rotationPeriodMs has passed since the share. *)
ShareAges ==
  /\ share # NoShare /\ ~share.aged
  /\ share' = [share EXCEPT !.aged = TRUE]
  /\ Happens
  /\ UNCHANGED <<policy, homeserver, machine, session, queue, ready, closed, members, dirty, tracked, sends, response, fails, shareHistory>>

(* Bot.invalidateMegolmShare. *)
InvalidateRoomShare ==
  /\ share # NoShare
  /\ share' = NoShare
  /\ Happens
  /\ UNCHANGED <<policy, homeserver, machine, session, queue, ready, closed, members, dirty, tracked, sends, response, fails, shareHistory>>

(* close(): the machine is closed when the lock is free; the maps are       *)
(* cleared after that.                                                      *)
Close ==
  /\ ready /\ closed = "no"
  /\ closed' = "closing"
  /\ Enqueue(CloseCall)
  /\ Happens
  /\ UNCHANGED <<policy, homeserver, machine, session, ready, engine, sends, response, fails, shareHistory>>

CloseMachine ==
  /\ Holds(CloseCall)
  /\ closed' = "closed"
  /\ Release
  /\ share' = NoShare /\ tracked' = {} /\ dirty' = {}
  /\ UNCHANGED <<policy, events, homeserver, machine, session, ready, members, sends, response, fails, shareHistory>>

-----------------------------------------------------------------------------
ServerStep == \E u \in Users : AddDevice(u) \/ JoinRoom(u) \/ LeaveRoom(u)

SendStep(x) ==
  \/ EncryptMessage(x) \/ EncryptRoomEvent(x)
  \/ \E ok \in BOOLEAN :
       ShareTrack(x, ok) \/ ShareRefresh(x, ok) \/ EncryptFlush(x, ok) \/ Put(x, ok)
  \/ \E withheld, ok \in BOOLEAN : ShareFanout(x, withheld, ok)

SyncStep == \/ SyncRooms \/ SyncThrows
            \/ \E ok \in BOOLEAN : SyncReceive(ok) \/ SyncTrack(ok)

ShareNext ==
  \/ ServerStep
  \/ \E ok \in BOOLEAN : Prepare(ok)
  \/ \E x \in Sends : SendEvent(x) \/ SendStep(x)
  \/ SyncAnswers \/ SyncStep
  \/ ShareAges \/ InvalidateRoomShare \/ Close \/ CloseMachine

(* Requests are answered or fail in the end (http.ts bounds every attempt), *)
(* so whoever holds the lock moves on.                                      *)
Fairness ==
  /\ \A x \in Sends : WF_shareVars(SendStep(x))
  /\ WF_shareVars(SyncStep) /\ WF_shareVars(CloseMachine)

ShareSpec == ShareInit /\ [][ShareNext]_shareVars /\ Fairness

-----------------------------------------------------------------------------
Encrypted == {x \in Sends : msg[x] # NoSession}

(* A message can be read by every device that its send owes the key: it    *)
(* was given the session before the message was encrypted, or was told     *)
(* that it does not get it.  A send that shares the session owes it to     *)
(* every known device of its recipients.  One that finds the cached share  *)
(* fresh owes it to every device that is then known of the users this      *)
(* share covers, with two exceptions: users whose device change stands in  *)
(* a sync response that is still being handled, or was skipped after too   *)
(* many failures (receiveSync marks users only after its requests have     *)
(* succeeded), and users left behind by another share that did not         *)
(* complete, see FreshShareReaches.  The share of a send that overlapped   *)
(* may put another session in place between the share and the encryption,  *)
(* even when it then fails.                                                *)
KnownDevicesCanRead ==
  \A x \in Encrypted :
    \/ owed[x].devices \subseteq msg[x].to \cup msg[x].withheld
    \/ msg[x].id # owed[x].id /\ overlap[x] # {}

(* The comment of ensureSessionsAndShare: it skips the share when the      *)
(* cached one "is still valid for the current member set".  Then the       *)
(* session in use is one that the known devices of these members have, or  *)
(* know to be withheld, apart from changes the engine has not heard of, at *)
(* least as long as sends come one after the other.  It fails after a      *)
(* share for other recipients that did not complete: the machine has moved *)
(* on to another session, and shareState still says that the former        *)
(* recipients have it.                                                     *)
FreshShareReaches ==
  \A x \in Sends : pc[x] = "ready" /\ ShareIsFresh(to[x]) =>
    \/ \A d \in Known(machine, to[x]) : d[1] \in Unheard \/ d \in session.to \cup session.withheld
    \/ \E y \in Sends : overlap[y] # {}

(* Nobody outside the recipient list of a send can read its message, with  *)
(* two exceptions.  Users on the list of a send that overlapped with it:   *)
(* the share and the encryption are two sections of the lock, and another  *)
(* send's share may come between them.  And users that a failing share had *)
(* already given the session: shareState does not know of them, so the     *)
(* next send to the former recipients finds its share fresh and encrypts   *)
(* with that session, be they gone by then.                                *)
LeaverCannotRead ==
  \A x \in Encrypted : \A d \in msg[x].to :
    \/ d[1] \in to[x] \cup owed[x].strays
    \/ \E y \in overlap[x] : d[1] \in to[y]

(* Every send ends, whatever fails before it in the line for the lock and  *)
(* even when the engine is closed meanwhile.                               *)
EverySendEnds == \A x \in Sends : pc[x] = "ready" ~> pc[x] \in {"sent", "failed"}
=============================================================================
