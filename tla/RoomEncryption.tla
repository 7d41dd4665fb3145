--------------------------- MODULE RoomEncryption ---------------------------
(***************************************************************************)
(* How the client decides whether a room is encrypted before it sends:     *)
(* the room cache (room-cache.ts), what handleSync and handleJoinedRoom    *)
(* write to it, isRoomEncrypted and sendEvent (client.ts), against a       *)
(* homeserver where encryption is switched on at some point and stays on,  *)
(* where the bot is invited, joins, leaves and is removed, and whose sync  *)
(* responses and state reads arrive later than they were answered.         *)
(***************************************************************************)
EXTENDS FiniteSets

CONSTANTS
  Rooms,
  Senders  \* concurrent calls of sendEvent

VARIABLES
  enc,       \* homeserver: rooms with m.room.encryption
  member,    \* homeserver: rooms the bot is in
  news,      \* homeserver: what the next response says of each room, see below
  token,     \* sync.json: there is a since token
  up,        \* the process runs
  batch,     \* the response being handled: what it says of each room
  boot,      \* ... and whether it is a bootstrap
  todo,      \* the rooms of it not handled yet
  refresh,   \* refreshRoomCryptoState of the room being handled
  known,     \* client.knownRooms
  cache,     \* RoomCache: what it says of m.room.encryption in each room
  send,      \* the sendEvent calls
  leaving,   \* leaveRoom calls the homeserver has carried out
  told,      \* history: rooms whose m.room.encryption the bot was told of
  leaked,    \* history: a plaintext send was decided for a room in told
  unusual    \* history: what happened besides syncing and sending

server == <<enc, member, news>>
sync == <<token, batch, boot, todo, refresh>>
history == <<told, leaked, unusual>>
vars == <<enc, member, news, token, up, batch, boot, todo, refresh, known, cache, send, leaving,
          told, leaked, unusual>>

(* What a response says of a room: nothing, the changes since the token,   *)
(* its whole state (the bot joined since), an invitation, or that the bot  *)
(* is out of it; `enc`: m.room.encryption is in it; `gap`: its timeline is *)
(* limited.                                                                *)
Entry(kind, e, gap) == [kind |-> kind, enc |-> e, gap |-> gap]
Nothing == Entry("nothing", FALSE, FALSE)
Entries == [kind : {"nothing", "delta", "full", "invite", "leave"}, enc : BOOLEAN, gap : BOOLEAN]

(* The cache entry of a room: absent; present but undetermined; state      *)
(* known and without encryption; with an encryption algorithm.             *)
CacheStates == {"absent", "unknown", "plain", "encrypted"}

(* A read of m.room.encryption, by a sendEvent call or by the handling of  *)
(* a gap: none under way, asked, or answered with the answer on its way.   *)
Idle == [pc |-> "idle", room |-> "none"]
Reads == {Idle} \cup [pc : {"asked", "found", "notFound"}, room : Rooms]

TypeOK ==
  /\ enc \subseteq Rooms /\ member \subseteq Rooms /\ known \subseteq Rooms
  /\ news \in [Rooms -> Entries] /\ batch \in [Rooms -> Entries]
  /\ token \in BOOLEAN /\ up \in BOOLEAN /\ boot \in BOOLEAN
  /\ todo \subseteq Rooms
  /\ refresh \in Reads
  /\ cache \in [Rooms -> CacheStates]
  /\ send \in [Senders -> Reads]
  /\ leaving \subseteq Rooms
  /\ told \subseteq enc /\ leaked \in BOOLEAN
  /\ unusual \subseteq {"restart", "staleRead", "leaveCall", "skipped", "evicted"}

Silence == [r \in Rooms |-> Nothing]

Init ==
  /\ enc = {} /\ member \in SUBSET Rooms /\ news = Silence
  /\ token = FALSE /\ up = FALSE
  /\ batch = Silence /\ boot = FALSE /\ todo = {} /\ refresh = Idle
  /\ known = {} /\ cache = [r \in Rooms |-> "absent"]
  /\ send = [s \in Senders |-> Idle] /\ leaving = {}
  /\ told = {} /\ leaked = FALSE /\ unusual = {}

-----------------------------------------------------------------------------
(* The homeserver. *)

(* A room state event: encryption is switched on, or something else        *)
(* changes.  It is part of the state the next response carries.            *)
EnableEncryption(r) ==
  /\ r \notin enc
  /\ enc' = enc \cup {r}
  /\ news' = IF r \in member /\ news[r].kind # "full"
             THEN [news EXCEPT ![r] = Entry("delta", TRUE, @.gap)] ELSE news
  /\ UNCHANGED <<member, up, sync, known, cache, send, leaving, history>>

(* Traffic in a room, possibly more than the timeline limit. *)
Chatter(r, gap) ==
  /\ r \in member /\ news[r].kind \in {"nothing", "delta"}
  /\ news' = [news EXCEPT ![r] = Entry("delta", @.enc, @.gap \/ gap)]
  /\ UNCHANGED <<enc, member, up, sync, known, cache, send, leaving, history>>

(* Somebody invites the bot; the stripped state may omit the encryption.   *)
Invite(r) ==
  /\ r \notin member /\ news[r].kind # "invite"
  /\ \E e \in {FALSE, (r \in enc)} : news' = [news EXCEPT ![r] = Entry("invite", e, FALSE)]
  /\ UNCHANGED <<enc, member, up, sync, known, cache, send, leaving, history>>

(* A call of joinRoom. *)
Join(r) ==
  /\ up /\ r \notin member
  /\ member' = member \cup {r}
  /\ news' = [news EXCEPT ![r] = Entry("full", FALSE, FALSE)]
  /\ UNCHANGED <<enc, up, sync, known, cache, send, leaving, history>>

(* Somebody removes it. *)
Kick(r) ==
  /\ r \in member
  /\ member' = member \ {r}
  /\ news' = [news EXCEPT ![r] = Entry("leave", FALSE, FALSE)]
  /\ UNCHANGED <<enc, up, sync, known, cache, send, leaving, history>>

-----------------------------------------------------------------------------
(* The process. *)

Start ==
  /\ ~up
  /\ up' = TRUE
  /\ unusual' = IF token THEN unusual \cup {"restart"} ELSE unusual
  /\ UNCHANGED <<server, sync, known, cache, send, leaving, told, leaked>>

(* What a batch that was never finished said is said again. *)
Unsaid(r) ==
  CASE news[r].kind \in {"full", "invite", "leave"} -> news[r]
    [] batch[r].kind = "nothing" -> news[r]
    [] news[r].kind = "nothing" -> batch[r]
    [] OTHER -> Entry(batch[r].kind, batch[r].enc \/ news[r].enc, batch[r].gap \/ news[r].gap)

ProcessEnds ==
  /\ up
  /\ up' = FALSE
  /\ news' = [r \in Rooms |-> Unsaid(r)]
  /\ batch' = Silence /\ boot' = FALSE /\ todo' = {} /\ refresh' = Idle
  /\ known' = {} /\ cache' = [r \in Rooms |-> "absent"]
  /\ send' = [s \in Senders |-> Idle] /\ leaving' = {}
  /\ UNCHANGED <<enc, member, token, history>>

-----------------------------------------------------------------------------
(* RoomCache. *)

Ensured(c) == IF c = "absent" THEN "unknown" ELSE c
MarkStateSynced(c) == IF c \in {"absent", "unknown"} THEN "plain" ELSE c

SetEncrypted(found) == IF found THEN "encrypted" ELSE "plain"

(* The LRU evicts the entry of a room it needs space for. *)
Evict(r) ==
  /\ cache[r] # "absent"
  /\ cache' = [cache EXCEPT ![r] = "absent"]
  /\ unusual' = IF r \in todo THEN unusual \cup {"evicted"} ELSE unusual
  /\ UNCHANGED <<server, up, sync, known, send, leaving, told, leaked>>

-----------------------------------------------------------------------------
(* handleSync(). *)

(* The homeserver answers a sync request: with a token, the news; without  *)
(* one, the rooms the bot is in or invited to.                             *)
Says(r) ==
  CASE token -> news[r]
    [] ~token /\ r \in member -> Entry("full", FALSE, FALSE)
    [] ~token /\ r \notin member -> IF news[r].kind = "invite" THEN news[r] ELSE Nothing

SyncAnswered ==
  /\ up /\ todo = {} /\ batch = Silence
  /\ \E r \in Rooms : Says(r) # Nothing
  /\ batch' = [r \in Rooms |-> IF Says(r).kind = "full" THEN Entry("full", r \in enc, FALSE) ELSE Says(r)]
  /\ boot' = ~token
  /\ todo' = {r \in Rooms : Says(r) # Nothing}
  /\ news' = Silence
  /\ UNCHANGED <<enc, member, up, token, refresh, known, cache, send, leaving, history>>

(* The rooms the bot is out of are dropped first. *)
HandleLeave(r) ==
  /\ r \in todo /\ batch[r].kind = "leave"
  /\ todo' = todo \ {r}
  /\ known' = known \ {r}
  /\ cache' = [cache EXCEPT ![r] = "absent"]
  /\ UNCHANGED <<server, up, token, batch, boot, refresh, send, leaving, history>>

(* An invitation: its stripped state is applied, then autojoin may join,   *)
(* which the next response confirms.                                       *)
HandleInvite(r) ==
  /\ r \in todo /\ batch[r].kind = "invite"
  /\ \A q \in todo : batch[q].kind # "leave"
  /\ cache' = [cache EXCEPT ![r] = IF batch[r].enc THEN "encrypted" ELSE Ensured(@)]
  /\ told' = IF batch[r].enc THEN told \cup {r} ELSE told
  /\ todo' = todo \ {r}
  /\ \/ UNCHANGED <<member, news>>
     \/ /\ r \notin member
        /\ member' = member \cup {r}
        /\ news' = [news EXCEPT ![r] = Entry("full", FALSE, FALSE)]
  /\ UNCHANGED <<enc, up, token, batch, boot, refresh, known, send, leaving, leaked, unusual>>

CanHandle(r) ==
  /\ r \in todo /\ batch[r].kind \in {"delta", "full"}
  /\ \A q \in todo : batch[q].kind \notin {"leave", "invite"}

IsNewRoom(r) == r \notin known

(* Every joined room of a response taken to carry its whole state. *)
ApplyAlwaysSynced(r, base, whole) ==
  IF batch[r].enc THEN "encrypted" ELSE MarkStateSynced(base)

(* The synchronous part of handleJoinedRoom: the state block, the mark     *)
(* that makes absence authoritative, the timeline.                         *)
Apply(r, base, whole) ==
  IF batch[r].enc THEN "encrypted"
  ELSE IF whole THEN MarkStateSynced(base) ELSE Ensured(base)

(* handleJoinedRoom of a room without a gap, or of a new one. *)
HandleJoined(r) ==
  /\ CanHandle(r) /\ refresh = Idle
  /\ ~(batch[r].gap /\ ~IsNewRoom(r))
  /\ cache' = [cache EXCEPT ![r] = Apply(r, @, IsNewRoom(r) \/ boot)]
  /\ known' = known \cup {r}
  /\ told' = IF batch[r].enc THEN told \cup {r} ELSE told
  /\ todo' = todo \ {r}
  /\ UNCHANGED <<server, up, token, batch, boot, refresh, send, leaving, leaked, unusual>>

(* A gap in a known room: m.room.encryption is read from the homeserver    *)
(* before the changes are applied.  Staying "asked" is an error.           *)
RefreshAsk(r) ==
  /\ CanHandle(r) /\ refresh = Idle
  /\ batch[r].gap /\ ~IsNewRoom(r)
  /\ \/ refresh' = [pc |-> "asked", room |-> r]
     \/ /\ r \in member
        /\ refresh' = [pc |-> IF r \in enc THEN "found" ELSE "notFound", room |-> r]
  /\ UNCHANGED <<server, up, token, batch, boot, todo, known, cache, send, leaving, history>>

RefreshApply(r) ==
  /\ refresh # Idle /\ refresh.room = r
  /\ cache' = [cache EXCEPT ![r] =
                 Apply(r, IF refresh.pc = "asked" THEN @ ELSE SetEncrypted(refresh.pc = "found"), boot)]
  /\ told' = IF batch[r].enc \/ refresh.pc = "found" THEN told \cup {r} ELSE told
  /\ unusual' = IF refresh.pc = "notFound" /\ r \in told THEN unusual \cup {"staleRead"} ELSE unusual
  /\ refresh' = Idle
  /\ todo' = todo \ {r}
  /\ UNCHANGED <<server, up, token, batch, boot, known, send, leaving, leaked>>

(* handleSync throws: before any room (crypto), or because device tracking *)
(* failed after a room was applied.  The loop asks for the same changes    *)
(* again, or, when that went on too long, skips them.                      *)
HandleThrows ==
  /\ up /\ batch # Silence /\ refresh = Idle
  /\ batch' = Silence /\ boot' = FALSE /\ todo' = {}
  /\ \/ /\ news' = [r \in Rooms |-> Unsaid(r)]
        /\ UNCHANGED <<token, unusual>>
     \/ /\ token' = TRUE
        /\ unusual' = unusual \cup {"skipped"}
        /\ UNCHANGED news
  /\ UNCHANGED <<enc, member, up, refresh, known, cache, send, leaving, told, leaked>>

(* The loop saves the token. *)
FinishBatch ==
  /\ up /\ batch # Silence /\ todo = {}
  /\ token' = TRUE
  /\ batch' = Silence /\ boot' = FALSE
  /\ UNCHANGED <<server, up, todo, refresh, known, cache, send, leaving, history>>

-----------------------------------------------------------------------------
(* sendEvent() -> isRoomEncrypted(). *)

Plaintext(r) == leaked' = (leaked \/ r \in told)

(* The cache knows the room is not encrypted: plaintext goes out.  Where   *)
(* it knows that the room is, the event is encrypted or the call throws.   *)
SendPlain(s, r) ==
  /\ up /\ send[s].pc = "idle"
  /\ cache[r] = "plain"
  /\ Plaintext(r)
  /\ UNCHANGED <<server, up, sync, known, cache, send, leaving, told, unusual>>

(* The cache does not know: m.room.encryption is read from the homeserver. *)
SendAsk(s, r) ==
  /\ up /\ send[s].pc = "idle"
  /\ cache[r] \in {"absent", "unknown"}
  /\ send' = [send EXCEPT ![s] = [pc |-> "asked", room |-> r]]
  /\ UNCHANGED <<server, up, sync, known, cache, leaving, history>>

(* A 404 taken for an error is no leak; an error taken for a 404 is one. *)
SendErrorAsPlain(s) ==
  /\ send[s].pc = "asked"
  /\ cache' = [cache EXCEPT ![send[s].room] = "plain"]
  /\ Plaintext(send[s].room)
  /\ send' = [send EXCEPT ![s] = Idle]
  /\ UNCHANGED <<server, up, sync, known, leaving, told, unusual>>

(* The read fails for any reason but 404, the bot being out of the room    *)
(* included: EncryptionStateUnknownError.                                  *)
SendError(s) ==
  /\ send[s].pc = "asked"
  /\ send' = [send EXCEPT ![s] = Idle]
  /\ UNCHANGED <<server, up, sync, known, cache, leaving, history>>

ReadAnswered(s) ==
  /\ send[s].pc = "asked" /\ send[s].room \in member
  /\ send' = [send EXCEPT ![s].pc = IF send[s].room \in enc THEN "found" ELSE "notFound"]
  /\ UNCHANGED <<server, up, sync, known, cache, leaving, history>>

(* The answer arrives, whatever was synced meanwhile; 404 means plaintext. *)
ReadApplied(s) ==
  /\ send[s].pc \in {"found", "notFound"}
  /\ LET r == send[s].room IN
       /\ cache' = [cache EXCEPT ![r] = SetEncrypted(send[s].pc = "found")]
       /\ told' = IF send[s].pc = "found" THEN told \cup {r} ELSE told
       /\ IF send[s].pc = "notFound" THEN Plaintext(r) ELSE UNCHANGED leaked
       /\ unusual' = IF send[s].pc = "notFound" /\ r \in told THEN unusual \cup {"staleRead"} ELSE unusual
  /\ send' = [send EXCEPT ![s] = Idle]
  /\ UNCHANGED <<server, up, sync, known, leaving>>

-----------------------------------------------------------------------------
(* leaveRoom(): the homeserver carries it out, then the client forgets.    *)

LeaveCarriedOut(r) ==
  /\ up /\ r \in member
  /\ member' = member \ {r}
  /\ news' = [news EXCEPT ![r] = Entry("leave", FALSE, FALSE)]
  /\ leaving' = leaving \cup {r}
  /\ UNCHANGED <<enc, up, sync, known, cache, send, history>>

LeaveForgets(r) ==
  /\ r \in leaving
  /\ leaving' = leaving \ {r}
  /\ known' = known \ {r}
  /\ cache' = [cache EXCEPT ![r] = "absent"]
  /\ unusual' = unusual \cup {"leaveCall"}
  /\ UNCHANGED <<server, up, sync, send, told, leaked>>

-----------------------------------------------------------------------------
Homeserver(r) ==
  EnableEncryption(r) \/ (\E gap \in BOOLEAN : Chatter(r, gap)) \/ Invite(r) \/ Join(r) \/ Kick(r)

Handle(r) == HandleLeave(r) \/ HandleInvite(r) \/ HandleJoined(r) \/ RefreshAsk(r) \/ RefreshApply(r)

Send(s) ==
  \/ \E r \in Rooms : SendPlain(s, r) \/ SendAsk(s, r)
  \/ SendError(s) \/ ReadAnswered(s) \/ ReadApplied(s)

Next ==
  \/ \E r \in Rooms : Homeserver(r) \/ Handle(r) \/ Evict(r) \/ LeaveCarriedOut(r) \/ LeaveForgets(r)
  \/ \E s \in Senders : Send(s)
  \/ SyncAnswered \/ FinishBatch \/ HandleThrows
  \/ Start \/ ProcessEnds

Spec == Init /\ [][Next]_vars

-----------------------------------------------------------------------------
(* sendEvent, "In encrypted rooms the payload is Megolm-encrypted and      *)
(* never falls back to plaintext": once a sync or a read has told the bot  *)
(* that a room is encrypted, no send into it is decided as plaintext, in a *)
(* process that bootstrapped itself, calls no leaveRoom, skips no batch,   *)
(* evicts no room a batch is about to update and whose reads are not       *)
(* overtaken by newer news; through invitations, joins, removals, gaps,    *)
(* failed reads, failed and repeated batches and other evictions.          *)
NoPlaintextOnceTold == leaked => unusual # {}

(* In such a process the cache calls a room unencrypted only if it was     *)
(* never told otherwise: absence of m.room.encryption is authoritative.    *)
PlainIsAuthoritative ==
  unusual = {} => \A r \in Rooms : cache[r] = "plain" => r \notin told

=============================================================================
