-------------------------- MODULE EncryptionProofs --------------------------
(***************************************************************************)
(* No plaintext into an encrypted room, and room keys for the right        *)
(* devices.                                                                *)
(*                                                                         *)
(* The room cache never calls a room unencrypted that the bot was told is  *)
(* encrypted, and no plaintext goes into one, for any rooms and any number *)
(* of concurrent sends.  A message into an encrypted room can be read by   *)
(* every device that its send owes the key and by nobody outside the       *)
(* recipients of the sends that overlap, for any users, devices, policies, *)
(* sends, failures and sync responses.                                     *)
(***************************************************************************)
EXTENDS RoomEncryption, CryptoShare, TLAPS

-----------------------------------------------------------------------------
(* The room cache (RoomEncryption). *)


(* Nothing claims an encryption that the homeserver does not have. *)
Sound ==
  /\ \A r \in Rooms : news[r].enc \/ batch[r].enc => r \in enc
  /\ refresh.pc = "found" => refresh.room \in enc
  /\ \A s \in Senders : send[s].pc = "found" => send[s].room \in enc

(* A whole state has no gap, a read for a gap belongs to the room at hand, *)
(* and a process that is down remembers nothing.                           *)
Shape ==
  /\ \A r \in Rooms : batch[r].kind = "full" => ~batch[r].gap
  /\ refresh # Idle => /\ refresh.room \in todo
                       /\ batch[refresh.room].kind = "delta"
                       /\ \A q \in todo : batch[q].kind \notin {"leave", "invite"}
  /\ ~up => /\ batch = Silence /\ todo = {}
            /\ \A r \in Rooms : cache[r] = "absent"
            /\ \A s \in Senders : send[s].pc = "idle"

(* The response to come speaks of the membership the bot has; what the     *)
(* response at hand says fits it as long as nothing newer is to come.      *)
NewsFitsMembership ==
  \A r \in Rooms :
    /\ news[r].kind \in {"delta", "full"} => r \in member
    /\ news[r].kind \in {"leave", "invite"} => r \notin member
    /\ r \in member /\ news[r].kind # "full" => batch[r].kind \in {"nothing", "full", "delta"}
    /\ r \notin member /\ news[r].kind = "nothing" => batch[r].kind \in {"nothing", "leave", "invite"}

(* A bootstrap gives joined rooms whole. *)
BootIsWhole ==
  /\ boot => \A r \in Rooms : batch[r].kind # "delta"
  /\ ~token => boot \/ batch = Silence

(* In a process that bootstrapped itself: changes are only ever reported   *)
(* of rooms whose whole state was applied before, or is about to be.       *)
ChangesOfKnownRooms ==
  unusual = {} /\ (token => up) =>
    \A r \in Rooms :
      /\ batch[r].kind = "delta" => r \in known
      /\ r \in member /\ news[r].kind \in {"nothing", "delta"} =>
           \/ r \in known
           \/ r \in todo /\ batch[r].kind \in {"full", "delta"}
           \/ ~token /\ batch = Silence

(* A whole state without encryption that a read has overtaken meets a      *)
(* cache that says so.                                                     *)
OvertakenIsCached ==
  unusual = {} =>
    \A r \in todo : batch[r].kind = "full" /\ ~batch[r].enc /\ r \in told => cache[r] = "encrypted"

IInv ==
  /\ TypeOK /\ Sound /\ Shape /\ NewsFitsMembership /\ BootIsWhole
  /\ ChangesOfKnownRooms /\ OvertakenIsCached
  /\ PlainIsAuthoritative /\ NoPlaintextOnceTold

-----------------------------------------------------------------------------
(* The invariant holds initially. *)
LEMMA InitHolds == Init => IInv
<1> SUFFICES ASSUME Init PROVE IInv
  OBVIOUS
<1>1. Nothing \in Entries /\ Nothing.kind = "nothing" /\ ~Nothing.enc /\ ~Nothing.gap
  BY DEF Nothing, Entry, Entries
<1>2. TypeOK
  BY <1>1 DEF Init, TypeOK, Silence, Reads, CacheStates
<1>3. Sound /\ Shape
  BY <1>1 DEF Init, Sound, Shape, Silence, Idle
<1>4. NewsFitsMembership /\ BootIsWhole /\ ChangesOfKnownRooms
  BY <1>1 DEF Init, NewsFitsMembership, BootIsWhole, ChangesOfKnownRooms, Silence
<1>5. OvertakenIsCached /\ PlainIsAuthoritative /\ NoPlaintextOnceTold
  BY DEF Init, OvertakenIsCached, PlainIsAuthoritative, NoPlaintextOnceTold
<1>6. QED
  BY <1>2, <1>3, <1>4, <1>5 DEF IInv

(* The homeserver may replace what the next response says of a room: by a  *)
(* change in a room the bot is in and was not about to be given whole, or  *)
(* by what goes with a new membership.                                     *)
LEMMA NewsStep ==
  ASSUME IInv, NEW r \in Rooms, NEW x \in Entries,
         news' = [news EXCEPT ![r] = x],
         enc \subseteq enc', enc' \subseteq Rooms, x.enc => r \in enc',
         \/ x.kind = "delta" /\ news[r].kind # "full" /\ r \in member /\ member' = member
         \/ x.kind = "full" /\ member' = member \cup {r}
         \/ x.kind \in {"leave", "invite"} /\ member' = member \ {r},
         leaving' \subseteq Rooms,
         UNCHANGED <<up, sync, known, cache, send, history>>
  PROVE  IInv'
<1> USE DEF IInv, sync, history
<1>1. TypeOK'
  BY DEF TypeOK
<1>2. Sound' /\ Shape'
  BY DEF TypeOK, Sound, Shape, Silence
<1>3. NewsFitsMembership' /\ BootIsWhole'
  BY DEF TypeOK, Entries, NewsFitsMembership, BootIsWhole, Silence
<1>4. ChangesOfKnownRooms'
  BY DEF TypeOK, Entries, NewsFitsMembership, ChangesOfKnownRooms, Silence
<1>5. OvertakenIsCached' /\ PlainIsAuthoritative' /\ NoPlaintextOnceTold'
  BY DEF OvertakenIsCached, PlainIsAuthoritative, NoPlaintextOnceTold
<1>6. QED
  BY <1>1, <1>2, <1>3, <1>4, <1>5

(* What happens to a room at the homeserver, leaveRoom included. *)
LEMMA HomeserverHolds ==
  ASSUME IInv, NEW r \in Rooms, Homeserver(r) \/ LeaveCarriedOut(r)
  PROVE  IInv'
<1>0. /\ news[r] \in Entries /\ enc \subseteq Rooms /\ leaving \subseteq Rooms
      /\ news[r].enc \in BOOLEAN /\ news[r].gap \in BOOLEAN /\ (news[r].enc => r \in enc)
  BY DEF IInv, TypeOK, Entries, Sound
<1>1. CASE EnableEncryption(r)
  <2>1. CASE r \in member /\ news[r].kind # "full"
    <3>1. Entry("delta", TRUE, news[r].gap) \in Entries
      BY <1>0 DEF Entry, Entries
    <3>2. QED
      BY <1>0, <1>1, <2>1, <3>1, NewsStep DEF EnableEncryption, Entry
  <2>2. CASE ~(r \in member /\ news[r].kind # "full")
    BY <1>0, <1>1, <2>2 DEF EnableEncryption, sync, history, IInv, TypeOK, Sound, Shape, NewsFitsMembership,
       BootIsWhole, ChangesOfKnownRooms, OvertakenIsCached, PlainIsAuthoritative, NoPlaintextOnceTold, Silence
  <2>3. QED
    BY <2>1, <2>2
<1>2. ASSUME NEW gap \in BOOLEAN, Chatter(r, gap) PROVE IInv'
  <2>1. Entry("delta", news[r].enc, news[r].gap \/ gap) \in Entries
    BY <1>0 DEF Entry, Entries
  <2>2. QED
    BY <1>0, <1>2, <2>1, NewsStep DEF Chatter, Entry
<1>3. CASE Invite(r)
  <2>1. PICK e \in {FALSE, (r \in enc)} : news' = [news EXCEPT ![r] = Entry("invite", e, FALSE)]
    BY <1>3 DEF Invite
  <2>2. e \in BOOLEAN /\ (e => r \in enc)
    <3>1. e = FALSE \/ e = (r \in enc)
      OBVIOUS
    <3>2. (r \in enc) \in BOOLEAN
      OBVIOUS
    <3>3. QED
      BY <3>1, <3>2
  <2>3. Entry("invite", e, FALSE) \in Entries
    BY <2>2 DEF Entry, Entries
  <2>4. QED
    BY <1>0, <1>3, <2>1, <2>2, <2>3, NewsStep, ZenonT(60) DEF Invite, Entry
<1>4. CASE Join(r)
  <2>1. Entry("full", FALSE, FALSE) \in Entries
    BY DEF Entry, Entries
  <2>2. QED
    BY <1>0, <1>4, <2>1, NewsStep DEF Join, Entry
<1>5. CASE Kick(r) \/ LeaveCarriedOut(r)
  <2>1. Entry("leave", FALSE, FALSE) \in Entries
    BY DEF Entry, Entries
  <2>2. QED
    BY <1>0, <1>5, <2>1, NewsStep DEF Kick, LeaveCarriedOut, Entry
<1>6. QED
  BY <1>1, <1>2, <1>3, <1>4, <1>5 DEF Homeserver

-----------------------------------------------------------------------------
(* The process. *)

(* What a batch that was never finished said is said again, and fits.      *)
LEMMA UnsaidFacts ==
  ASSUME IInv, NEW r \in Rooms, NEW x, x = Unsaid(r)
  PROVE  /\ x \in Entries
         /\ x.enc => r \in enc
         /\ x.kind \in {"delta", "full"} => r \in member
         /\ x.kind \in {"leave", "invite"} => r \notin member
         /\ x.kind = "nothing" => news[r].kind = "nothing" /\ batch[r].kind = "nothing"
         /\ x.kind = "delta" => batch[r].kind \in {"nothing", "delta"} /\ news[r].kind \in {"nothing", "delta"}
<1>1. /\ news[r] \in Entries /\ batch[r] \in Entries
      /\ news[r].enc \in BOOLEAN /\ news[r].gap \in BOOLEAN
      /\ batch[r].enc \in BOOLEAN /\ batch[r].gap \in BOOLEAN
      /\ news[r].enc \/ batch[r].enc => r \in enc
  BY DEF IInv, TypeOK, Entries, Sound
<1>2. /\ news[r].kind \in {"delta", "full"} => r \in member
      /\ news[r].kind \in {"leave", "invite"} => r \notin member
      /\ r \in member /\ news[r].kind # "full" => batch[r].kind \in {"nothing", "full", "delta"}
      /\ r \notin member /\ news[r].kind = "nothing" => batch[r].kind \in {"nothing", "leave", "invite"}
  BY DEF IInv, NewsFitsMembership
<1>3. CASE news[r].kind \in {"full", "invite", "leave"}
  BY <1>1, <1>2, <1>3 DEF Unsaid
<1>4. CASE news[r].kind \notin {"full", "invite", "leave"} /\ batch[r].kind = "nothing"
  BY <1>1, <1>2, <1>4 DEF Unsaid, Entries
<1>5. CASE news[r].kind = "nothing" /\ batch[r].kind # "nothing"
  BY <1>1, <1>2, <1>5 DEF Unsaid, Entries
<1>6. CASE news[r].kind = "delta" /\ batch[r].kind # "nothing"
  <2>1. x = Entry(batch[r].kind, batch[r].enc \/ news[r].enc, batch[r].gap \/ news[r].gap)
    BY <1>6 DEF Unsaid
  <2>2. batch[r].kind \in {"full", "delta"}
    BY <1>2, <1>6
  <2>3. QED
    BY <1>1, <1>2, <1>6, <2>1, <2>2 DEF Entry, Entries
<1>7. QED
  BY <1>1, <1>3, <1>4, <1>5, <1>6 DEF Entries

(* start() and the end of the process. *)
LEMMA ProcessHolds ==
  ASSUME IInv, Start \/ ProcessEnds
  PROVE  IInv'
<1>1. CASE Start
  <2> USE <1>1 DEF Start, server, sync, IInv
  <2>1. TypeOK' /\ Sound' /\ NewsFitsMembership' /\ BootIsWhole'
    BY DEF TypeOK, Sound, NewsFitsMembership, BootIsWhole, Silence
  <2>2. Shape'
    BY DEF Shape, Silence
  <2>3. ChangesOfKnownRooms'
    BY DEF ChangesOfKnownRooms, Silence
  <2>4. OvertakenIsCached' /\ PlainIsAuthoritative' /\ NoPlaintextOnceTold'
    BY DEF OvertakenIsCached, PlainIsAuthoritative, NoPlaintextOnceTold
  <2>5. QED
    BY <2>1, <2>2, <2>3, <2>4
<1>2. CASE ProcessEnds
  <2> USE <1>2 DEF ProcessEnds, history
  <2>1. /\ Nothing \in Entries /\ Nothing.kind = "nothing" /\ ~Nothing.enc /\ ~Nothing.gap
        /\ batch' = [r \in Rooms |-> Nothing]
    BY DEF Nothing, Entry, Entries, Silence
  <2>2. news' \in [Rooms -> Entries] /\ \A r \in Rooms :
          /\ news'[r] \in Entries /\ (news'[r].enc => r \in enc)
          /\ news'[r].kind \in {"delta", "full"} => r \in member
          /\ news'[r].kind \in {"leave", "invite"} => r \notin member
    BY UnsaidFacts
  <2>3. TypeOK'
    <3>1. Idle \in Reads /\ "absent" \in CacheStates
      BY DEF Reads, CacheStates
    <3>2. batch' \in [Rooms -> Entries] /\ cache' \in [Rooms -> CacheStates] /\ send' \in [Senders -> Reads]
      BY <2>1, <3>1
    <3>3. QED
      BY <2>2, <3>1, <3>2 DEF IInv, TypeOK
  <2>4. Sound' /\ Shape'
    BY <2>1, <2>2 DEF Sound, Shape, Idle, Silence
  <2>5. NewsFitsMembership' /\ BootIsWhole' /\ ChangesOfKnownRooms'
    BY <2>1, <2>2 DEF NewsFitsMembership, BootIsWhole, ChangesOfKnownRooms, Silence
  <2>6. OvertakenIsCached' /\ PlainIsAuthoritative' /\ NoPlaintextOnceTold'
    BY DEF IInv, OvertakenIsCached, PlainIsAuthoritative, NoPlaintextOnceTold
  <2>7. QED
    BY <2>3, <2>4, <2>5, <2>6 DEF IInv
<1>3. QED
  BY <1>1, <1>2

(* A step that only forgets a room or reads for a send keeps what it does  *)
(* not touch.                                                              *)
LEMMA EvictHolds ==
  ASSUME IInv, NEW r \in Rooms, Evict(r) \/ LeaveForgets(r)
  PROVE  IInv'
<1> USE DEF IInv, Evict, LeaveForgets, server, sync
<1>1. TypeOK'
  BY DEF TypeOK, CacheStates
<1>2. Sound' /\ NewsFitsMembership' /\ BootIsWhole'
  BY DEF Sound, NewsFitsMembership, BootIsWhole, Silence
<1>3. Shape'
  BY DEF TypeOK, Shape, Silence
<1>4. ChangesOfKnownRooms'
  BY DEF ChangesOfKnownRooms, Silence
<1>5. unusual' = {} => unusual = {} /\ r \notin todo
  BY DEF TypeOK
<1>6. OvertakenIsCached' /\ PlainIsAuthoritative' /\ NoPlaintextOnceTold'
  BY <1>5 DEF TypeOK, OvertakenIsCached, PlainIsAuthoritative, NoPlaintextOnceTold
<1>7. QED
  BY <1>1, <1>2, <1>3, <1>4, <1>6

-----------------------------------------------------------------------------
(* handleSync(). *)

(* The answer to a sync request. *)
LEMMA SyncAnsweredHolds ==
  ASSUME IInv, SyncAnswered
  PROVE  IInv'
<1> USE DEF SyncAnswered
<1>1. /\ Nothing \in Entries /\ Nothing.kind = "nothing" /\ ~Nothing.enc /\ ~Nothing.gap
      /\ news' = [r \in Rooms |-> Nothing] /\ batch = [r \in Rooms |-> Nothing]
  BY DEF Nothing, Entry, Entries, Silence
<1>2. ASSUME NEW r \in Rooms
      PROVE  /\ batch'[r] \in Entries
             /\ batch'[r].enc => r \in enc
             /\ batch'[r].kind = "full" => ~batch'[r].gap /\ (r \in enc => batch'[r].enc)
             /\ r \in member => batch'[r].kind \in {"nothing", "full", "delta"}
             /\ r \notin member => batch'[r].kind \in {"nothing", "leave", "invite"}
             /\ ~token => batch'[r].kind # "delta"
             /\ ~token /\ r \in member => batch'[r].kind = "full"
             /\ token /\ batch'[r].kind = "delta" => news[r].kind = "delta"
             /\ token /\ batch'[r].kind = "nothing" => news[r].kind = "nothing"
             /\ batch'[r].kind = "full" => r \in todo'
  <2>1. /\ news[r] \in Entries
        /\ news[r].kind \in {"delta", "full"} => r \in member
        /\ news[r].kind \in {"leave", "invite"} => r \notin member
        /\ news[r].enc => r \in enc
    BY DEF IInv, TypeOK, NewsFitsMembership, Sound
  <2>2. /\ token => Says(r) = news[r]
        /\ ~token /\ r \in member => Says(r) = Entry("full", FALSE, FALSE)
        /\ ~token /\ r \notin member => Says(r) \in {news[r], Nothing} /\ Says(r).kind \in {"invite", "nothing"}
    BY <1>1 DEF Says, IInv, TypeOK
  <2>3. Says(r) \in Entries /\ (Says(r).enc => r \in enc)
    <3>1. Entry("full", FALSE, FALSE) \in Entries /\ ~Entry("full", FALSE, FALSE).enc
      BY DEF Entry, Entries
    <3>2. Says(r) \in {news[r], Nothing, Entry("full", FALSE, FALSE)}
      BY <2>2 DEF IInv, TypeOK
    <3>3. QED
      BY <1>1, <2>1, <3>1, <3>2
  <2>4. CASE Says(r).kind = "full"
    <3>1. /\ batch'[r] \in Entries
          /\ batch'[r].kind = "full" /\ ~batch'[r].gap /\ (batch'[r].enc <=> r \in enc)
      <4>1. batch'[r] = Entry("full", r \in enc, FALSE)
        BY <2>4
      <4>2. PICK e \in BOOLEAN : e <=> r \in enc
        OBVIOUS
      <4>3. batch'[r] = Entry("full", e, FALSE)
        BY <4>1, <4>2, Zenon
      <4>4. QED
        BY <4>2, <4>3 DEF Entry, Entries
    <3>2. r \in todo' /\ r \in member
      BY <1>1, <2>1, <2>2, <2>4 DEF IInv, TypeOK
    <3>3. QED
      BY <2>2, <2>4, <3>1, <3>2
  <2>5. CASE Says(r).kind # "full"
    <3>1. batch'[r] = Says(r)
      BY <2>5
    <3>2. QED
      BY <1>1, <2>1, <2>2, <2>3, <2>5, <3>1 DEF Entry, Entries, IInv, TypeOK
  <2>6. QED
    BY <2>4, <2>5
<1>3. TypeOK'
  BY <1>1, <1>2 DEF IInv, TypeOK, history
<1>4. Sound' /\ Shape'
  BY <1>1, <1>2 DEF IInv, Sound, Shape
<1>5. NewsFitsMembership' /\ BootIsWhole'
  BY <1>1, <1>2, ZenonT(60) DEF NewsFitsMembership, BootIsWhole
<1>6. ChangesOfKnownRooms'
  BY <1>1, <1>2 DEF IInv, TypeOK, NewsFitsMembership, ChangesOfKnownRooms, history
<1>7. OvertakenIsCached' /\ PlainIsAuthoritative' /\ NoPlaintextOnceTold'
  BY <1>2 DEF IInv, TypeOK, OvertakenIsCached, PlainIsAuthoritative, NoPlaintextOnceTold, history
<1>8. QED
  BY <1>3, <1>4, <1>5, <1>6, <1>7 DEF IInv

(* The rooms the bot is out of. *)
LEMMA HandleLeaveHolds ==
  ASSUME IInv, NEW r \in Rooms, HandleLeave(r)
  PROVE  IInv'
<1> USE DEF IInv, HandleLeave, server, history
<1>1. TypeOK'
  BY DEF TypeOK, CacheStates
<1>2. Sound' /\ NewsFitsMembership' /\ BootIsWhole'
  BY DEF Sound, NewsFitsMembership, BootIsWhole, Silence
<1>3. Shape'
  BY DEF TypeOK, Shape, Silence
<1>4. ChangesOfKnownRooms'
  BY DEF TypeOK, NewsFitsMembership, ChangesOfKnownRooms, Silence
<1>5. OvertakenIsCached' /\ PlainIsAuthoritative' /\ NoPlaintextOnceTold'
  BY DEF TypeOK, OvertakenIsCached, PlainIsAuthoritative, NoPlaintextOnceTold
<1>6. QED
  BY <1>1, <1>2, <1>3, <1>4, <1>5

(* An invitation, with or without a join. *)
LEMMA HandleInviteHolds ==
  ASSUME IInv, NEW r \in Rooms, HandleInvite(r)
  PROVE  IInv'
<1> USE DEF IInv, HandleInvite
<1>1. /\ Entry("full", FALSE, FALSE) \in Entries /\ Entry("full", FALSE, FALSE).kind = "full"
      /\ ~Entry("full", FALSE, FALSE).enc
  BY DEF Entry, Entries
<1>2. /\ cache' \in [Rooms -> CacheStates] /\ \A q \in Rooms \ {r} : cache'[q] = cache[q]
      /\ batch[r].enc => cache'[r] = "encrypted"
      /\ ~batch[r].enc => cache'[r] = Ensured(cache[r])
  BY DEF TypeOK, CacheStates, Ensured
<1>3. up /\ refresh = Idle
  BY DEF Shape, Silence, Nothing, Entry
<1>4. TypeOK' /\ Sound'
  <2>1. batch[r].enc => r \in enc
    BY DEF Sound
  <2>2. news' \in [Rooms -> Entries] /\ member' \subseteq Rooms /\ told' \subseteq enc'
    BY <1>1, <2>1 DEF TypeOK
  <2>3. TypeOK'
    BY <1>2, <2>2 DEF TypeOK
  <2>4. Sound'
    BY <1>1 DEF TypeOK, Sound
  <2>5. QED
    BY <2>3, <2>4
<1>5. Shape' /\ BootIsWhole'
  BY <1>3 DEF Shape, BootIsWhole, Silence
<1>6. NewsFitsMembership'
  BY <1>1 DEF TypeOK, NewsFitsMembership
<1>7. ChangesOfKnownRooms'
  BY <1>1, ZenonT(60) DEF TypeOK, NewsFitsMembership, ChangesOfKnownRooms, Silence
<1>8. OvertakenIsCached' /\ PlainIsAuthoritative' /\ NoPlaintextOnceTold'
  BY <1>2 DEF TypeOK, OvertakenIsCached, PlainIsAuthoritative, NoPlaintextOnceTold, Ensured
<1>9. QED
  BY <1>4, <1>5, <1>6, <1>7, <1>8

(* A joined room: absence of m.room.encryption is taken at its word only   *)
(* where the response carries the whole state.                             *)
LEMMA HandleJoinedHolds ==
  ASSUME IInv, NEW r \in Rooms, HandleJoined(r)
  PROVE  IInv'
<1> USE DEF IInv, HandleJoined, CanHandle, IsNewRoom, server
<1>1. batch[r].kind = "delta" => ~boot
  BY DEF BootIsWhole
<1>2. unusual = {} /\ batch[r].kind = "delta" => r \in known
  BY DEF ChangesOfKnownRooms, Shape, Silence, Nothing, Entry
<1>3. /\ cache' \in [Rooms -> CacheStates] /\ \A q \in Rooms \ {r} : cache'[q] = cache[q]
      /\ batch[r].enc => cache'[r] = "encrypted"
      /\ cache[r] = "encrypted" => cache'[r] = "encrypted"
      /\ cache'[r] = "plain" =>
           ~batch[r].enc /\ (cache[r] = "plain" \/ IsNewRoom(r) \/ boot)
  BY DEF TypeOK, CacheStates, Apply, Ensured, MarkStateSynced
<1>4. up
  BY DEF Shape, Silence, Nothing, Entry
<1>5. TypeOK' /\ Sound'
  BY <1>3 DEF TypeOK, Sound
<1>6. Shape' /\ BootIsWhole'
  BY <1>4 DEF Shape, BootIsWhole, Silence
<1>7. NewsFitsMembership' /\ ChangesOfKnownRooms'
  BY DEF NewsFitsMembership, ChangesOfKnownRooms, Silence
<1>8. OvertakenIsCached' /\ NoPlaintextOnceTold'
  BY <1>3 DEF TypeOK, OvertakenIsCached, NoPlaintextOnceTold
<1>9. PlainIsAuthoritative'
  BY <1>1, <1>2, <1>3 DEF TypeOK, OvertakenIsCached, PlainIsAuthoritative
<1>10. QED
  BY <1>5, <1>6, <1>7, <1>8, <1>9

(* A gap in a known room. *)
LEMMA RefreshHolds ==
  ASSUME IInv, NEW r \in Rooms, RefreshAsk(r) \/ RefreshApply(r)
  PROVE  IInv'
<1> USE DEF IInv, server, history
<1>1. CASE RefreshAsk(r)
  <2> USE <1>1 DEF RefreshAsk, CanHandle
  <2>1. batch[r].kind = "delta"
    BY DEF Shape
  <2>2. /\ refresh' \in Reads /\ refresh' # Idle /\ refresh'.room = r
        /\ refresh'.pc = "found" => r \in enc
    BY DEF Reads, Idle
  <2>3. TypeOK' /\ Sound' /\ BootIsWhole'
    BY <2>2 DEF TypeOK, Sound, BootIsWhole, Silence
  <2>4. Shape'
    BY <2>1, <2>2 DEF Shape, Silence
  <2>5. NewsFitsMembership' /\ ChangesOfKnownRooms'
    BY DEF NewsFitsMembership, ChangesOfKnownRooms, Silence
  <2>6. OvertakenIsCached' /\ NoPlaintextOnceTold' /\ PlainIsAuthoritative'
    BY DEF OvertakenIsCached, NoPlaintextOnceTold, PlainIsAuthoritative
  <2>7. QED
    BY <2>3, <2>4, <2>5, <2>6
<1>2. CASE RefreshApply(r)
  <2> USE <1>2 DEF RefreshApply
  <2>1. r \in todo /\ batch[r].kind = "delta" /\ ~boot /\ up
    BY DEF Shape, BootIsWhole, Silence, Nothing, Entry
  <2>2. refresh.pc \in {"asked", "found", "notFound"} /\ (refresh.pc = "found" => r \in enc)
    BY DEF TypeOK, Reads, Sound
  <2>3. /\ cache' \in [Rooms -> CacheStates] /\ \A q \in Rooms \ {r} : cache'[q] = cache[q]
        /\ batch[r].enc \/ refresh.pc = "found" => cache'[r] = "encrypted"
        /\ cache'[r] = "plain" => refresh.pc = "notFound" \/ cache[r] = "plain"
    BY <2>1, <2>2 DEF TypeOK, CacheStates, Apply, Ensured, MarkStateSynced, SetEncrypted
  <2>4. unusual' = {} => unusual = {} /\ (refresh.pc = "notFound" => r \notin told)
    BY DEF TypeOK
  <2>5. TypeOK' /\ Sound'
    BY <2>2, <2>3 DEF TypeOK, Sound, Reads, Idle
  <2>6. Shape' /\ BootIsWhole'
    BY <2>1 DEF Shape, BootIsWhole, Silence
  <2>7. NewsFitsMembership' /\ ChangesOfKnownRooms'
    BY <2>1, <2>4 DEF NewsFitsMembership, ChangesOfKnownRooms, Silence
  <2>8. OvertakenIsCached' /\ NoPlaintextOnceTold'
    BY <2>3, <2>4 DEF TypeOK, OvertakenIsCached, NoPlaintextOnceTold
  <2>9. PlainIsAuthoritative'
    BY <2>2, <2>3, <2>4 DEF TypeOK, PlainIsAuthoritative
  <2>10. QED
    BY <2>5, <2>6, <2>7, <2>8, <2>9
<1>3. QED
  BY <1>1, <1>2

(* A batch that fails, is skipped or is done with. *)
LEMMA BatchEndsHolds ==
  ASSUME IInv, HandleThrows \/ FinishBatch
  PROVE  IInv'
<1>1. /\ Nothing \in Entries /\ Nothing.kind = "nothing" /\ ~Nothing.enc /\ ~Nothing.gap
      /\ Silence = [r \in Rooms |-> Nothing]
  BY DEF Nothing, Entry, Entries, Silence
<1>2. CASE HandleThrows /\ UNCHANGED <<token, unusual>>
  <2> USE <1>2 DEF HandleThrows
  <2>1. CASE news' = [r \in Rooms |-> Unsaid(r)]
    <3>1. news' \in [Rooms -> Entries] /\ \A r \in Rooms :
            /\ news'[r] \in Entries /\ (news'[r].enc => r \in enc)
            /\ news'[r].kind \in {"delta", "full"} => r \in member
            /\ news'[r].kind \in {"leave", "invite"} => r \notin member
            /\ news'[r].kind = "nothing" => news[r].kind = "nothing" /\ batch[r].kind = "nothing"
            /\ news'[r].kind = "delta" =>
                 batch[r].kind \in {"nothing", "delta"} /\ news[r].kind \in {"nothing", "delta"}
      BY <2>1, UnsaidFacts
    <3>2. TypeOK' /\ Sound'
      BY <1>1, <3>1 DEF IInv, TypeOK, Sound
    <3>3. Shape' /\ BootIsWhole' /\ NewsFitsMembership'
      BY <1>1, <3>1 DEF IInv, Shape, BootIsWhole, NewsFitsMembership
    <3>4. ChangesOfKnownRooms'
      BY <1>1, <3>1 DEF IInv, ChangesOfKnownRooms
    <3>5. OvertakenIsCached' /\ NoPlaintextOnceTold' /\ PlainIsAuthoritative'
      BY DEF IInv, OvertakenIsCached, NoPlaintextOnceTold, PlainIsAuthoritative
    <3>6. QED
      BY <3>2, <3>3, <3>4, <3>5 DEF IInv
  <2>2. CASE UNCHANGED news /\ unusual # {}
    <3>1. TypeOK' /\ Sound' /\ Shape' /\ BootIsWhole' /\ NewsFitsMembership'
      BY <1>1, <2>2 DEF IInv, TypeOK, Sound, Shape, BootIsWhole, NewsFitsMembership
    <3>2. QED
      BY <2>2, <3>1 DEF IInv, ChangesOfKnownRooms, OvertakenIsCached, NoPlaintextOnceTold, PlainIsAuthoritative
  <2>3. QED
    BY <2>1, <2>2
<1>3. CASE HandleThrows /\ token' = TRUE /\ unusual' = unusual \cup {"skipped"} /\ UNCHANGED news
  <2> USE <1>3 DEF HandleThrows
  <2>1. unusual' # {}
    OBVIOUS
  <2>2. TypeOK' /\ Sound'
    BY <1>1 DEF IInv, TypeOK, Sound
  <2>3. Shape' /\ BootIsWhole' /\ NewsFitsMembership'
    BY <1>1 DEF IInv, TypeOK, Shape, BootIsWhole, NewsFitsMembership
  <2>4. ChangesOfKnownRooms' /\ OvertakenIsCached' /\ NoPlaintextOnceTold' /\ PlainIsAuthoritative'
    BY <2>1 DEF ChangesOfKnownRooms, OvertakenIsCached, NoPlaintextOnceTold, PlainIsAuthoritative
  <2>5. QED
    BY <2>2, <2>3, <2>4 DEF IInv
<1>4. CASE FinishBatch
  <2> USE <1>4 DEF FinishBatch, server, history
  <2>1. TypeOK' /\ Sound'
    BY <1>1 DEF IInv, TypeOK, Sound
  <2>2. Shape' /\ BootIsWhole' /\ NewsFitsMembership'
    BY <1>1 DEF IInv, Shape, BootIsWhole, NewsFitsMembership
  <2>3. ChangesOfKnownRooms'
    BY <1>1 DEF IInv, ChangesOfKnownRooms
  <2>4. OvertakenIsCached' /\ NoPlaintextOnceTold' /\ PlainIsAuthoritative'
    BY DEF IInv, OvertakenIsCached, NoPlaintextOnceTold, PlainIsAuthoritative
  <2>5. QED
    BY <2>1, <2>2, <2>3, <2>4 DEF IInv
<1>5. QED
  BY <1>2, <1>3, <1>4 DEF HandleThrows

-----------------------------------------------------------------------------
(* sendEvent(). *)
LEMMA SendHolds ==
  ASSUME IInv, NEW s \in Senders, Send(s)
  PROVE  IInv'
<1> USE DEF IInv, server, sync, history
<1>0. send[s] \in Reads /\ Idle \in Reads /\ Idle.pc = "idle"
  BY DEF TypeOK, Reads, Idle
<1>1. ASSUME NEW r \in Rooms, SendPlain(s, r) PROVE IInv'
  <2> USE <1>1 DEF SendPlain, Plaintext
  <2>1. TypeOK' /\ Sound' /\ Shape'
    BY DEF TypeOK, Sound, Shape, Silence
  <2>2. NewsFitsMembership' /\ BootIsWhole' /\ ChangesOfKnownRooms'
    BY DEF NewsFitsMembership, BootIsWhole, ChangesOfKnownRooms, Silence
  <2>3. OvertakenIsCached' /\ NoPlaintextOnceTold' /\ PlainIsAuthoritative'
    BY DEF OvertakenIsCached, NoPlaintextOnceTold, PlainIsAuthoritative
  <2>4. QED
    BY <2>1, <2>2, <2>3
<1>2. ASSUME NEW x \in Reads, send' = [send EXCEPT ![s] = x], x.pc = "found" => x.room \in enc,
             up \/ x.pc = "idle", UNCHANGED <<server, up, sync, known, cache, leaving, history>>
      PROVE  IInv'
  <2>1. TypeOK' /\ Sound'
    BY <1>2 DEF TypeOK, Sound
  <2>2. Shape' /\ NewsFitsMembership' /\ BootIsWhole' /\ ChangesOfKnownRooms'
    BY <1>2 DEF TypeOK, Shape, NewsFitsMembership, BootIsWhole, ChangesOfKnownRooms, Silence
  <2>3. OvertakenIsCached' /\ NoPlaintextOnceTold' /\ PlainIsAuthoritative'
    BY <1>2 DEF OvertakenIsCached, NoPlaintextOnceTold, PlainIsAuthoritative
  <2>4. QED
    BY <2>1, <2>2, <2>3
<1>3. ASSUME NEW r \in Rooms, SendAsk(s, r) PROVE IInv'
  <2>1. [pc |-> "asked", room |-> r] \in Reads
    BY DEF Reads
  <2>2. QED
    BY <1>2, <1>3, <2>1 DEF SendAsk
<1>4. CASE SendError(s)
  BY <1>0, <1>2, <1>4 DEF SendError
<1>5. CASE ReadAnswered(s)
  <2>1. /\ [send[s] EXCEPT !.pc = "found"] \in Reads /\ [send[s] EXCEPT !.pc = "notFound"] \in Reads
        /\ [send[s] EXCEPT !.pc = "found"].room = send[s].room
        /\ [send[s] EXCEPT !.pc = "notFound"].pc = "notFound"
        /\ up
    BY <1>0, <1>5 DEF ReadAnswered, Reads, Idle, Shape
  <2>2. CASE send[s].room \in enc
    BY <1>2, <1>5, <2>1, <2>2 DEF ReadAnswered
  <2>3. CASE send[s].room \notin enc
    BY <1>2, <1>5, <2>1, <2>3 DEF ReadAnswered
  <2>4. QED
    BY <2>2, <2>3
<1>6. CASE ReadApplied(s)
  <2> DEFINE r == send[s].room
  <2> USE <1>6 DEF ReadApplied, Plaintext
  <2>1. r \in Rooms /\ send[s].pc \in {"found", "notFound"} /\ (send[s].pc = "found" => r \in enc)
    BY <1>0 DEF Reads, Idle, Sound
  <2>2. /\ cache' \in [Rooms -> CacheStates] /\ \A q \in Rooms \ {r} : cache'[q] = cache[q]
        /\ send[s].pc = "found" => cache'[r] = "encrypted"
    BY <2>1 DEF TypeOK, CacheStates, SetEncrypted
  <2>3. unusual' = {} => unusual = {} /\ (send[s].pc = "notFound" => r \notin told)
    BY DEF TypeOK
  <2>4. TypeOK'
    BY <1>0, <2>1, <2>2 DEF TypeOK
  <2>5. Sound'
    BY <1>0 DEF TypeOK, Sound
  <2>6. up
    <3>1. send[s].pc # "idle"
      BY <2>1
    <3>2. QED
      BY <3>1 DEF Shape
  <2>7. Shape' /\ BootIsWhole'
    BY <2>6 DEF Shape, BootIsWhole, Silence
  <2>8. NewsFitsMembership' /\ ChangesOfKnownRooms'
    BY <2>3 DEF NewsFitsMembership, ChangesOfKnownRooms, Silence
  <2>9. OvertakenIsCached' /\ NoPlaintextOnceTold' /\ PlainIsAuthoritative'
    BY <2>1, <2>2, <2>3 DEF TypeOK, OvertakenIsCached, NoPlaintextOnceTold, PlainIsAuthoritative
  <2>10. QED
    BY <2>4, <2>5, <2>7, <2>8, <2>9
<1>7. QED
  BY <1>1, <1>3, <1>4, <1>5, <1>6 DEF Send

(* Every step keeps the invariant. *)
LEMMA NextHolds ==
  ASSUME IInv, [Next]_vars
  PROVE  IInv'
<1>1. CASE UNCHANGED vars
  BY <1>1 DEF vars, IInv, TypeOK, Sound, Shape, NewsFitsMembership, BootIsWhole, ChangesOfKnownRooms,
              OvertakenIsCached, PlainIsAuthoritative, NoPlaintextOnceTold, Silence
<1>2. CASE Next
  BY <1>2, HomeserverHolds, ProcessHolds, EvictHolds, SyncAnsweredHolds, HandleLeaveHolds, HandleInviteHolds,
     HandleJoinedHolds, RefreshHolds, BatchEndsHolds, SendHolds DEF Next, Handle
<1>3. QED
  BY <1>1, <1>2

(* The inductive invariant of the room cache and what feeds it. *)
THEOREM InvariantHolds == Spec => []IInv
  BY InitHolds, NextHolds, PTL DEF Spec

(* sendEvent, "In encrypted rooms the payload is Megolm-encrypted and      *)
(* never falls back to plaintext": in a process that bootstrapped itself,  *)
(* calls no leaveRoom, skips no batch, evicts no room at hand and whose    *)
(* reads are not overtaken, no send is decided as plaintext in a room the  *)
(* bot was told is encrypted.                                              *)
THEOREM NeverPlaintext == Spec => []NoPlaintextOnceTold
<1>1. IInv => NoPlaintextOnceTold
  BY DEF IInv
<1>2. QED
  BY <1>1, InvariantHolds, PTL

(* RoomCache, stateSynced: there the cache calls a room unencrypted only   *)
(* if it was never told otherwise.                                         *)
THEOREM AbsenceIsAuthoritative == Spec => []PlainIsAuthoritative
<1>1. IInv => PlainIsAuthoritative
  BY DEF IInv
<1>2. QED
  BY <1>1, InvariantHolds, PTL

-----------------------------------------------------------------------------
(* The room keys (CryptoShare). *)


(* Who may have the session that a send is about to encrypt with. *)
Allowed(x, d) == d[1] \in to[x] \cup owed[x].strays \/ \E y \in overlap[x] : d[1] \in to[y]

(* Somebody has the session only if the cached share was for them, too, or *)
(* one that failed has reached them since.                                 *)
SharedWith == share # NoShare => \A d \in session.to : d[1] \in share.fp \cup shared.strays

SafeToEncrypt == \A x \in Sends : pc[x] = "encrypt" => \A d \in session.to : Allowed(x, d)

(* Sends that run at the same time know of each other; one that has not    *)
(* begun has no history.                                                   *)
Overlaps == \A x, y \in Active : x # y => y \in overlap[x]
Begun == \A x \in Sends :
  /\ pc[x] \in {"idle", "ready", "share", "refresh", "fanout", "encrypt"} => msg[x] = NoSession
  /\ \A y \in overlap[x] : pc[y] # "idle"

(* Whoever the engine takes for tracked, the machine tracks, and so it     *)
(* does the users of a share that has got past that.                       *)
MachineTracks ==
  /\ tracked \subseteq machine.tracked
  /\ \A x \in Sends : pc[x] \in {"refresh", "fanout"} => to[x] \subseteq machine.tracked
  /\ share # NoShare => shared.users \subseteq machine.tracked

(* What the cached share covers: a user whose devices may still change is  *)
(* one the engine has not heard of, and every other device has the session.*)
Covered ==
  share # NoShare =>
    /\ machine.stale \cap shared.users \subseteq Unheard
    /\ session.id = shared.id =>
         \A d \in Known(machine, shared.users) : d[1] \in Unheard \/ d \in session.to \cup session.withheld

(* A response that has got past receiveSync was heard, and one it is about *)
(* to be given was not.                                                    *)
Hearing ==
  /\ response.pc \in {"rooms", "track"} => response.heard
  /\ response.pc = "receive" => ~response.heard
  /\ response.pc = "idle" => response.changed = {}

(* Sessions are numbered; what a send owes is settled by the session or    *)
(* the session has been replaced by a send that overlapped.                *)
Numbered == shared.id <= session.id /\ \A x \in Sends : owed[x].id <= session.id
Settled ==
  \A x \in Sends : pc[x] = "encrypt" =>
    \/ owed[x].devices \subseteq session.to \cup session.withheld
    \/ session.id # owed[x].id /\ overlap[x] # {}


-----------------------------------------------------------------------------
(* Constants of the module: calls, the empty records. *)
LEMMA ShareConstants ==
  /\ Sends \subseteq Nat
  /\ SyncCall \in 0..CloseCall /\ CloseCall \in 0..CloseCall /\ PrepareCall \in 0..CloseCall
  /\ Sends \subseteq 0..CloseCall
  /\ NoSession \in Session /\ NoShare \in Share /\ NoSync \in Response /\ NoNews \in News
BY ShareBounds DEF Sends, SyncCall, CloseCall, PrepareCall, NoSession, Session, NoShare, Share,
   NoSync, Response, NoNews, News

(* The lock: getting in line and leaving it. *)
LEMMA LockTypes ==
  ASSUME ShareTypeOK
  PROVE  /\ \A op \in 0..CloseCall : Enqueue(op) => queue' \in Seq(0..CloseCall)
         /\ \A op \in 0..CloseCall : Holds(op) => Tail(queue) \in Seq(0..CloseCall)
<1>1. queue \in Seq(0..CloseCall)
  BY DEF ShareTypeOK
<1>2. \A op \in 0..CloseCall : Append(queue, op) \in Seq(0..CloseCall)
  BY <1>1
<1>3. queue # << >> => Tail(queue) \in Seq(0..CloseCall)
  BY <1>1
<1>4. QED
  BY <1>2, <1>3 DEF Enqueue, Holds

(* Users the machine is told of. *)
LEMMA TrackFacts ==
  ASSUME NEW m \in Machine, NEW U \in SUBSET Users, NEW n, n = Track(m, U)
  PROVE  /\ n \in Machine /\ n.tracked = m.tracked \cup U
         /\ n.stale = m.stale \cup (U \ m.tracked) /\ n.devices = m.devices
BY DEF Machine, Track

LEMMA OutdateFacts ==
  ASSUME NEW m \in Machine, NEW U \in SUBSET Users, NEW n, n = Outdate(m, U)
  PROVE  /\ n \in Machine /\ n.tracked = m.tracked
         /\ n.stale = m.stale \cup (U \cap m.tracked) /\ n.devices = m.devices
BY DEF Machine, Outdate

(* Nothing but the devices of outdated users changes when the outgoing     *)
(* requests are sent, whether or not they all succeed.                     *)
LEMMA RunFacts ==
  ASSUME NEW m \in Machine, NEW ok \in BOOLEAN, RunOutgoing(m, ok), fails \in Nat
  PROVE  /\ machine' \in Machine /\ machine'.tracked = m.tracked /\ machine'.stale \subseteq m.stale
         /\ \A d \in machine'.devices : d \in m.devices \/ d[1] \in m.stale
         /\ fails' \in Nat
<1>1. PICK q : q = Queried(m)
  OBVIOUS
<1>2. /\ q \in Machine /\ q.tracked = m.tracked /\ q.stale = {}
      /\ \A d \in q.devices : d \in m.devices \/ d[1] \in m.stale
  <2>1. q = [m EXCEPT !.stale = {}, !.devices = q.devices]
    BY <1>1 DEF Queried, Machine
  <2>2. q.devices = {d \in m.devices : d[1] \notin m.stale} \cup {d \in Devices : d[1] \in m.stale /\ d[2] <= hs[d[1]]}
    BY <1>1 DEF Queried, Machine
  <2>3. q.devices \subseteq Devices
    BY <2>2 DEF Machine
  <2>4. QED
    BY <2>1, <2>2, <2>3 DEF Machine
<1>3. machine' = m \/ machine' = q
  BY <1>1 DEF RunOutgoing
<1>4. fails' \in Nat
  BY DEF RunOutgoing
<1>5. QED
  BY <1>2, <1>3, <1>4

-----------------------------------------------------------------------------
(* Types. *)
LEMMA ShareInitTypes == ShareInit => ShareTypeOK
<1> SUFFICES ASSUME ShareInit PROVE ShareTypeOK
  OBVIOUS
<1>1. hs \in [Users -> 1..MaxDevices]
  BY ShareBounds DEF ShareInit
<1>2. machine \in Machine
  BY DEF ShareInit, Machine
<1>3. queue \in Seq(0..CloseCall)
  BY ShareConstants DEF ShareInit
<1>4. pc \in [Sends -> SendStates] /\ to \in [Sends -> SUBSET Users]
  BY DEF ShareInit, SendStates
<1>5. /\ shared \in Shared
      /\ owed \in [Sends -> Owed]
      /\ msg \in [Sends -> Session] /\ overlap \in [Sends -> SUBSET Sends]
  BY ShareConstants DEF ShareInit, Shared, Owed
<1>6. QED
  BY <1>1, <1>2, <1>3, <1>4, <1>5, ShareConstants, ShareBounds DEF ShareInit, ShareTypeOK

(* A session nobody has yet. *)
IsNew(s) == s.id = session.id + 1 /\ s.to = {} /\ s.withheld = {}

LEMMA SessionForTypes ==
  ASSUME ShareTypeOK, NEW U \in SUBSET Users, NEW n \in Nat, NEW s, s = SessionFor(U, n)
  PROVE  /\ s \in Session
         /\ s = session \/ IsNew(s)
         /\ \A d \in s.to : d[1] \in U
<1>1. session \in Session /\ session.id \in Nat
  BY DEF ShareTypeOK, Session
<1>2. PICK r : r = [NoSession EXCEPT !.id = session.id + 1, !.limit = n]
  OBVIOUS
<1>3. r \in Session /\ r.id = session.id + 1 /\ r.to = {} /\ r.withheld = {}
  <2>1. r = [id |-> session.id + 1, to |-> {}, withheld |-> {}, used |-> 0, limit |-> n]
    BY <1>2 DEF NoSession
  <2>2. QED
    BY <1>1, <2>1 DEF Session
<1>4. s = r \/ (s = session /\ \A d \in session.to : d[1] \in U)
  <2> DEFINE Stays == \A d \in session.to : d[1] \in U
  <2>1. s = r \/ s = session
    BY <1>2, Zenon DEF SessionFor
  <2>2. CASE Stays
    BY <2>1, <2>2
  <2>3. CASE ~Stays
    <3>1. \E d \in session.to : d[1] \notin U
      BY <2>3
    <3>2. s = r
      BY <3>1, <1>2, Zenon DEF SessionFor
    <3>3. QED
      BY <3>2
  <2>4. QED
    BY <2>2, <2>3
<1>5. QED
  BY <1>1, <1>3, <1>4 DEF IsNew

LEMMA RotationPeriodTypes == ShareTypeOK => \A n : RotationPeriod(n) \in Nat
BY ShareBounds DEF ShareTypeOK, RotationPeriod

LEMMA ServerTypes ==
  ASSUME ShareTypeOK, ServerStep
  PROVE  ShareTypeOK'
<1>1. nextSync \in News /\ hs \in [Users -> 1..MaxDevices] /\ events \in Nat
  BY DEF ShareTypeOK
<1>2. PICK u \in Users : AddDevice(u) \/ JoinRoom(u) \/ LeaveRoom(u)
  BY DEF ServerStep
<1>3. nextSync' \in News
  <2>1. CASE AddDevice(u)
    BY <1>1, <2>1 DEF AddDevice, News
  <2>2. CASE JoinRoom(u)
    BY <1>1, <2>2 DEF JoinRoom, News
  <2>3. CASE LeaveRoom(u)
    BY <1>1, <2>3 DEF LeaveRoom, News
  <2>4. QED
    BY <1>2, <2>1, <2>2, <2>3
<1>7. events' \in Nat
  BY <1>1, <1>2 DEF AddDevice, JoinRoom, LeaveRoom, Happens
<1>4. hs' \in [Users -> 1..MaxDevices]
  BY <1>1, <1>2, ShareBounds DEF AddDevice, JoinRoom, LeaveRoom
<1>5. UNCHANGED <<policy, machine, session, queue, ready, closed, engine, sends, response, fails, shareHistory>>
  BY <1>2 DEF AddDevice, JoinRoom, LeaveRoom
<1>6. QED
  BY <1>3, <1>4, <1>5, <1>7 DEF ShareTypeOK, engine, sends, shareHistory

(* The steps of a send move its own program counter and, apart from it,    *)
(* what they are about.                                                    *)
LEMMA GotoTypes ==
  ASSUME ShareTypeOK, NEW x \in Sends, NEW s \in SendStates, Goto(x, s)
  PROVE  pc' \in [Sends -> SendStates]
BY DEF ShareTypeOK, Goto

LEMMA SendEventTypes ==
  ASSUME ShareTypeOK, NEW x \in Sends, SendEvent(x)
  PROVE  ShareTypeOK'
<1>1. pc' \in [Sends -> SendStates]
  BY GotoTypes DEF SendEvent, SendStates
<1>2. to' \in [Sends -> SUBSET Users]
  BY DEF SendEvent, ShareTypeOK
<1>3. overlap' \in [Sends -> SUBSET Sends]
  BY DEF SendEvent, ShareTypeOK, Active
<1>4. QED
  BY <1>1, <1>2, <1>3 DEF SendEvent, ShareTypeOK, homeserver, engine

LEMMA EncryptMessageTypes ==
  ASSUME ShareTypeOK, NEW x \in Sends, EncryptMessage(x)
  PROVE  ShareTypeOK'
<1>1. pc' \in [Sends -> SendStates]
  BY GotoTypes DEF EncryptMessage, SendStates
<1>2. queue' \in Seq(0..CloseCall)
  BY LockTypes, ShareConstants DEF EncryptMessage
<1>3. share \in Share /\ session.id \in Nat /\ machine.devices \in SUBSET Devices
  BY DEF ShareTypeOK, Session, Machine
<1>4. share' \in Share
  BY <1>3 DEF EncryptMessage, Share
<1>5. [id |-> session.id, devices |-> OwedByShare, strays |-> shared.strays] \in Owed
  <2>1. OwedByShare \in SUBSET Devices
    BY <1>3 DEF OwedByShare, Known
  <2>2. shared.strays \in SUBSET Users
    BY DEF ShareTypeOK, Shared
  <2>3. QED
    BY <1>3, <2>1, <2>2 DEF Owed
<1>6. owed' \in [Sends -> Owed]
  BY <1>5 DEF EncryptMessage, ShareTypeOK
<1>7. QED
  BY <1>1, <1>2, <1>4, <1>6 DEF EncryptMessage, ShareTypeOK, homeserver

LEMMA ThrowTypes ==
  ASSUME ShareTypeOK, NEW x \in Sends, Holds(x), Throw(x)
  PROVE  pc' \in [Sends -> SendStates] /\ queue' \in Seq(0..CloseCall)
<1>1. pc' \in [Sends -> SendStates]
  BY GotoTypes DEF Throw, SendStates
<1>2. QED
  BY <1>1, LockTypes, ShareConstants DEF Throw, Release

LEMMA ShareTrackTypes ==
  ASSUME ShareTypeOK, NEW x \in Sends, NEW ok \in BOOLEAN, ShareTrack(x, ok)
  PROVE  ShareTypeOK'
<1>1. machine \in Machine /\ fails \in Nat /\ to[x] \in SUBSET Users /\ tracked \in SUBSET Users /\ queue \in Seq(0..CloseCall)
  BY DEF ShareTypeOK
<1>2. PICK m : m = Track(machine, to[x] \ tracked)
  OBVIOUS
<1>3. m \in Machine
  BY <1>1, <1>2, TrackFacts
<1>4. machine' \in Machine /\ fails' \in Nat
  <2>1. CASE UNCHANGED <<machine, fails>>
    BY <2>1, <1>1
  <2>2. CASE RunOutgoing(m, ok)
    BY <2>2, <1>1, <1>3, RunFacts
  <2>3. QED
    BY <2>1, <2>2, <1>2 DEF ShareTrack
<1>5. tracked' \in SUBSET Users
  BY <1>1 DEF ShareTrack
<1>6. Holds(x) /\ (Throw(x) \/ (Goto(x, "refresh") /\ UNCHANGED queue))
  BY DEF ShareTrack
<1>7. pc' \in [Sends -> SendStates] /\ queue' \in Seq(0..CloseCall)
  BY <1>1, <1>6, ThrowTypes, GotoTypes DEF SendStates
<1>8. QED
  BY <1>4, <1>5, <1>7 DEF ShareTrack, ShareTypeOK, homeserver, shareHistory

LEMMA ShareRefreshTypes ==
  ASSUME ShareTypeOK, NEW x \in Sends, NEW ok \in BOOLEAN, ShareRefresh(x, ok)
  PROVE  ShareTypeOK'
<1>1. /\ machine \in Machine /\ fails \in Nat /\ to[x] \in SUBSET Users /\ dirty \in SUBSET Users
      /\ queue \in Seq(0..CloseCall) /\ shared \in Shared
  BY DEF ShareTypeOK
<1>2. PICK stale : stale = IF RotateEveryMessage(Cardinality(to[x])) THEN to[x] ELSE to[x] \cap dirty
  OBVIOUS
<1>3. stale \in SUBSET Users
  BY <1>1, <1>2
<1>4. PICK m : m = Outdate(machine, stale)
  OBVIOUS
<1>5. m \in Machine
  BY <1>1, <1>3, <1>4, OutdateFacts
<1>6. /\ UNCHANGED <<machine, fails>> \/ RunOutgoing(m, ok)
      /\ dirty' = IF ok THEN dirty \ stale ELSE dirty
      /\ shared' = [shared EXCEPT !.users = @ \ stale]
  BY <1>2, <1>4 DEF ShareRefresh
<1>7. machine' \in Machine /\ fails' \in Nat
  BY <1>1, <1>5, <1>6, RunFacts
<1>8. dirty' \in SUBSET Users /\ shared' \in Shared
  BY <1>1, <1>6 DEF Shared
<1>9. pc' \in [Sends -> SendStates] /\ queue' \in Seq(0..CloseCall)
  BY <1>1, ThrowTypes, GotoTypes DEF SendStates, ShareRefresh
<1>10. QED
  BY <1>7, <1>8, <1>9 DEF ShareRefresh, ShareTypeOK, homeserver

(* What a fan-out does to the session, the cached share and the history. *)
FanoutFails(x, s, new) ==
  /\ \E reached \in SUBSET new :
       /\ session' = [s EXCEPT !.to = @ \cup reached]
       /\ shared' = [shared EXCEPT !.strays =
                       {d[1] : d \in reached} \cup (IF s.id = session.id THEN @ ELSE {})]
  /\ Throw(x) /\ fails' = fails + 1 /\ UNCHANGED <<share, owed>>
FanoutWithheld(x, s, new) ==
  /\ session' = [s EXCEPT !.withheld = @ \cup new] /\ share' = NoShare
  /\ Throw(x) /\ UNCHANGED <<fails, shared, owed>>
FanoutShares(x, s, new) ==
  /\ session' = [s EXCEPT !.to = @ \cup new]
  /\ share' = [fp |-> to[x], messages |-> 1, aged |-> FALSE]
  /\ shared' = [id |-> s.id, users |-> to[x] \ machine.stale, strays |-> {}]
  /\ owed' = [owed EXCEPT ![x] = [id |-> s.id, devices |-> Known(machine, to[x]), strays |-> {}]]
  /\ Goto(x, "encrypt") /\ queue' = Append(Tail(queue), x) /\ UNCHANGED fails

LEMMA FanoutCases ==
  ASSUME ShareTypeOK, NEW x \in Sends, NEW withheld \in BOOLEAN, NEW ok \in BOOLEAN, ShareFanout(x, withheld, ok)
  PROVE  \E s \in Session :
           /\ s = session \/ IsNew(s)
           /\ \A d \in s.to : d[1] \in to[x]
           /\ LET new == Known(machine, to[x]) \ (s.to \cup s.withheld)
              IN FanoutFails(x, s, new) \/ FanoutWithheld(x, s, new) \/ FanoutShares(x, s, new)
<1>0. PICK n : n = RotationPeriod(Cardinality(to[x]))
  OBVIOUS
<1>1. PICK s : s = SessionFor(to[x], n)
  OBVIOUS
<1>2. /\ s \in Session
      /\ s = session \/ IsNew(s)
      /\ \A d \in s.to : d[1] \in to[x]
  <2>1. to[x] \in SUBSET Users
    BY DEF ShareTypeOK
  <2>2. n \in Nat
    BY <1>0, RotationPeriodTypes
  <2>3. QED
    BY <1>1, <2>1, <2>2, SessionForTypes
<1> DEFINE new == Known(machine, to[x]) \ (s.to \cup s.withheld)
<1>3. FanoutFails(x, s, new) \/ FanoutWithheld(x, s, new) \/ FanoutShares(x, s, new)
  <2>1. CASE ~ok
    BY <1>0, <1>1, <2>1 DEF ShareFanout, FanoutFails
  <2>2. CASE ok /\ withheld
    <3>1. session' = [s EXCEPT !.to = @ \cup {}, !.withheld = @ \cup new]
      BY <1>0, <1>1, <2>2 DEF ShareFanout
    <3>2. session' = [s EXCEPT !.withheld = @ \cup new]
      BY <3>1, <1>2 DEF Session
    <3>3. QED
      BY <1>0, <1>1, <2>2, <3>2 DEF ShareFanout, FanoutWithheld
  <2>3. CASE ok /\ ~withheld
    <3>1. session' = [s EXCEPT !.to = @ \cup (new \ {}), !.withheld = @ \cup {}]
      BY <1>0, <1>1, <2>3 DEF ShareFanout
    <3>2. session' = [s EXCEPT !.to = @ \cup new]
      BY <3>1, <1>2 DEF Session
    <3>3. QED
      BY <1>0, <1>1, <2>3, <3>2 DEF ShareFanout, FanoutShares
  <2>4. QED
    BY <2>1, <2>2, <2>3
<1>4. QED
  BY <1>2, <1>3

(* A share that fails has given the session to somebody, and they are      *)
(* strays from then on.                                                    *)
LEMMA FanoutFailsFacts ==
  ASSUME ShareTypeOK, NEW x, NEW s \in Session, NEW new \in SUBSET Devices, FanoutFails(x, s, new)
  PROVE  /\ session' \in Session /\ session'.id = s.id /\ session'.withheld = s.withheld
         /\ s.to \subseteq session'.to /\ \A d \in session'.to : d \in s.to \/ d \in new
         /\ shared' \in Shared /\ shared'.id = shared.id /\ shared'.users = shared.users
         /\ \A d \in session'.to : d \in s.to \/ d[1] \in shared'.strays
         /\ s.id = session.id => shared.strays \subseteq shared'.strays
<1>1. PICK reached \in SUBSET new :
         /\ session' = [s EXCEPT !.to = @ \cup reached]
         /\ shared' = [shared EXCEPT !.strays =
                         {d[1] : d \in reached} \cup (IF s.id = session.id THEN @ ELSE {})]
  BY DEF FanoutFails
<1>2. shared \in Shared
  BY DEF ShareTypeOK
<1>3. /\ session' \in Session /\ session'.id = s.id /\ session'.withheld = s.withheld
      /\ session'.to = s.to \cup reached
  BY <1>1 DEF Session
<1>4. PICK old : old = IF s.id = session.id THEN shared.strays ELSE {}
  OBVIOUS
<1>5. old \in SUBSET Users /\ {d[1] : d \in reached} \in SUBSET Users
  BY <1>2, <1>4 DEF Shared, Devices
<1>6. shared' = [shared EXCEPT !.strays = {d[1] : d \in reached} \cup old]
  BY <1>1, <1>4
<1>7. /\ shared' \in Shared /\ shared'.id = shared.id /\ shared'.users = shared.users
      /\ shared'.strays = {d[1] : d \in reached} \cup old
  BY <1>2, <1>5, <1>6 DEF Shared
<1>8. QED
  BY <1>3, <1>4, <1>7

LEMMA ShareFanoutTypes ==
  ASSUME ShareTypeOK, NEW x \in Sends, NEW withheld \in BOOLEAN, NEW ok \in BOOLEAN, ShareFanout(x, withheld, ok)
  PROVE  ShareTypeOK'
<1>1. /\ session \in Session /\ share \in Share /\ shared \in Shared
      /\ owed \in [Sends -> Owed] /\ fails \in Nat
      /\ to[x] \in SUBSET Users /\ machine.devices \in SUBSET Devices /\ queue \in Seq(0..CloseCall)
  BY DEF ShareTypeOK, Machine
<1>2. PICK s \in Session :
         LET new == Known(machine, to[x]) \ (s.to \cup s.withheld)
         IN FanoutFails(x, s, new) \/ FanoutWithheld(x, s, new) \/ FanoutShares(x, s, new)
  BY FanoutCases
<1>3. PICK new : new = Known(machine, to[x]) \ (s.to \cup s.withheld)
  OBVIOUS
<1>4. new \in SUBSET Devices /\ Known(machine, to[x]) \in SUBSET Devices
  BY <1>1, <1>3 DEF Known
<1>5. Holds(x)
  BY DEF ShareFanout
<1>6. /\ session' \in Session /\ share' \in Share /\ shared' \in Shared
      /\ owed' \in [Sends -> Owed] /\ fails' \in Nat
      /\ pc' \in [Sends -> SendStates] /\ queue' \in Seq(0..CloseCall)
  <2>1. CASE FanoutFails(x, s, new)
    <3>1. session' \in Session /\ shared' \in Shared
      BY <1>4, <2>1, FanoutFailsFacts
    <3>2. QED
      BY <1>1, <1>5, <2>1, <3>1, ThrowTypes DEF FanoutFails
  <2>2. CASE FanoutWithheld(x, s, new)
    <3>1. session' \in Session
      BY <1>4, <2>2 DEF FanoutWithheld, Session
    <3>2. QED
      BY <1>1, <1>5, <2>2, <3>1, ThrowTypes, ShareConstants DEF FanoutWithheld
  <2>3. CASE FanoutShares(x, s, new)
    <3>1. session' \in Session
      BY <1>4, <2>3 DEF FanoutShares, Session
    <3>2. s.id \in Nat /\ share' \in Share /\ fails' \in Nat
      BY <1>1, <2>3 DEF FanoutShares, Share, Session
    <3>3. shared' \in Shared
      BY <1>1, <2>3, <3>2 DEF FanoutShares, Shared
    <3>4. owed' \in [Sends -> Owed]
      BY <1>1, <1>4, <2>3, <3>2 DEF FanoutShares, Owed
    <3>5. pc' \in [Sends -> SendStates]
      BY <2>3, GotoTypes DEF FanoutShares, SendStates
    <3>6. Tail(queue) \in Seq(0..CloseCall)
      BY <1>5, LockTypes, ShareConstants
    <3>7. queue' \in Seq(0..CloseCall)
      BY <2>3, <3>6, ShareConstants DEF FanoutShares
    <3>8. QED
      BY <3>1, <3>2, <3>3, <3>4, <3>5, <3>7
  <2>4. QED
    BY <1>2, <1>3, <2>1, <2>2, <2>3
<1>7. QED
  BY <1>6 DEF ShareFanout, ShareTypeOK, homeserver

LEMMA EncryptTypes ==
  ASSUME ShareTypeOK, NEW x \in Sends, EncryptRoomEvent(x)
  PROVE  ShareTypeOK'
<1>1. session \in Session /\ msg \in [Sends -> Session] /\ queue \in Seq(0..CloseCall)
  BY DEF ShareTypeOK
<1>2. [session EXCEPT !.used = @ + 1] \in Session
  <2>1. PICK k : k = session.used + 1
    OBVIOUS
  <2>2. k \in Nat
    BY <1>1, <2>1 DEF Session
  <2>3. [session EXCEPT !.used = k] \in Session
    BY <1>1, <2>2 DEF Session
  <2>4. QED
    BY <2>1, <2>3
<1>3. session' \in Session /\ msg' \in [Sends -> Session]
  BY <1>1, <1>2 DEF EncryptRoomEvent
<1>4. pc' \in [Sends -> SendStates] /\ queue' \in Seq(0..CloseCall)
  BY <1>1, ThrowTypes, GotoTypes DEF EncryptRoomEvent, SendStates
<1>5. QED
  BY <1>3, <1>4 DEF EncryptRoomEvent, ShareTypeOK, homeserver, engine

LEMMA FlushTypes ==
  ASSUME ShareTypeOK, NEW x \in Sends, NEW ok \in BOOLEAN, EncryptFlush(x, ok)
  PROVE  ShareTypeOK'
<1>1. machine \in Machine /\ fails \in Nat
  BY DEF ShareTypeOK
<1>2. machine' \in Machine /\ fails' \in Nat
  BY <1>1, RunFacts DEF EncryptFlush
<1>3. pc' \in [Sends -> SendStates] /\ queue' \in Seq(0..CloseCall)
  BY ThrowTypes, GotoTypes, LockTypes, ShareConstants DEF EncryptFlush, SendStates, Release
<1>4. QED
  BY <1>2, <1>3 DEF EncryptFlush, ShareTypeOK, homeserver, engine, shareHistory

LEMMA PutTypes ==
  ASSUME ShareTypeOK, NEW x \in Sends, NEW ok \in BOOLEAN, Put(x, ok)
  PROVE  ShareTypeOK'
<1>1. pc' \in [Sends -> SendStates]
  BY GotoTypes DEF Put, SendStates
<1>2. fails' \in Nat
  BY DEF Put, ShareTypeOK
<1>3. QED
  BY <1>1, <1>2 DEF Put, ShareTypeOK, homeserver, engine, shareHistory

LEMMA PrepareTypes ==
  ASSUME ShareTypeOK, NEW ok \in BOOLEAN, Prepare(ok)
  PROVE  ShareTypeOK'
<1>1. /\ machine \in Machine /\ fails \in Nat /\ members \in SUBSET Users /\ tracked \in SUBSET Users
      /\ queue \in Seq(0..CloseCall)
  BY DEF ShareTypeOK
<1>2. PICK m : m = Track(machine, members)
  OBVIOUS
<1>3. m \in Machine
  BY <1>1, <1>2, TrackFacts
<1>4. machine' \in Machine /\ fails' \in Nat
  BY <1>1, <1>2, <1>3, RunFacts DEF Prepare
<1>5. queue' \in Seq(0..CloseCall)
  BY <1>1, LockTypes, ShareConstants DEF Prepare, Release
<1>6. tracked' \in SUBSET Users
  BY <1>1 DEF Prepare
<1>7. QED
  BY <1>4, <1>5, <1>6 DEF Prepare, ShareTypeOK, homeserver, sends, shareHistory

LEMMA SyncAnswersTypes ==
  ASSUME ShareTypeOK, SyncAnswers
  PROVE  ShareTypeOK'
<1>1. nextSync \in News
  BY DEF ShareTypeOK
<1>2. response' \in Response
  BY <1>1 DEF SyncAnswers, News, Response
<1>3. queue' \in Seq(0..CloseCall)
  BY LockTypes, ShareConstants DEF SyncAnswers
<1>4. QED
  BY <1>2, <1>3, ShareConstants DEF SyncAnswers, ShareTypeOK, engine, sends, shareHistory

LEMMA SyncReceiveTypes ==
  ASSUME ShareTypeOK, NEW ok \in BOOLEAN, SyncReceive(ok)
  PROVE  ShareTypeOK'
<1>1. machine \in Machine /\ fails \in Nat /\ response \in Response /\ response.changed \in SUBSET Users /\ response.left \in SUBSET Users
  BY DEF ShareTypeOK, Response
<1>2. PICK m : m = Outdate(machine, response.changed)
  OBVIOUS
<1>3. m \in Machine
  BY <1>1, <1>2, OutdateFacts
<1>4. machine' \in Machine /\ fails' \in Nat
  BY <1>1, <1>2, <1>3, RunFacts DEF SyncReceive
<1>5. queue' \in Seq(0..CloseCall)
  BY LockTypes, ShareConstants DEF SyncReceive, Release
<1>6. response' \in Response
  BY <1>1 DEF SyncReceive, Response
<1>7. share' \in Share /\ dirty' \in SUBSET Users /\ tracked' \in SUBSET Users /\ lost' \in SUBSET Users
  BY <1>1, ShareConstants DEF SyncReceive, MarkChanged, ShareTypeOK
<1>8. QED
  BY <1>4, <1>5, <1>6, <1>7 DEF SyncReceive, ShareTypeOK, homeserver, sends

LEMMA SyncRoomsTypes ==
  ASSUME ShareTypeOK, SyncRooms
  PROVE  ShareTypeOK'
<1>1. response \in Response /\ response.joined \in SUBSET Users /\ queue \in Seq(0..CloseCall)
  BY DEF ShareTypeOK, Response
<1>2. response' \in Response
  BY <1>1, ShareConstants DEF SyncRooms, Response
<1>3. queue' \in Seq(0..CloseCall)
  BY <1>1, LockTypes, ShareConstants DEF SyncRooms
<1>4. members' \in SUBSET Users
  BY <1>1 DEF SyncRooms, ShareTypeOK
<1>5. QED
  BY <1>2, <1>3, <1>4 DEF SyncRooms, ShareTypeOK, homeserver, sends, shareHistory

LEMMA SyncTrackTypes ==
  ASSUME ShareTypeOK, NEW ok \in BOOLEAN, SyncTrack(ok)
  PROVE  ShareTypeOK'
<1>1. machine \in Machine /\ fails \in Nat /\ response \in Response /\ response.joined \in SUBSET Users /\ tracked \in SUBSET Users
  BY DEF ShareTypeOK, Response
<1>2. PICK m : m = Track(machine, response.joined)
  OBVIOUS
<1>3. m \in Machine
  BY <1>1, <1>2, TrackFacts
<1>4. machine' \in Machine /\ fails' \in Nat
  BY <1>1, <1>2, <1>3, RunFacts DEF SyncTrack
<1>5. queue' \in Seq(0..CloseCall)
  BY LockTypes, ShareConstants DEF SyncTrack, Release
<1>6. response' \in Response
  BY <1>1, ShareConstants DEF SyncTrack, Response
<1>7. tracked' \in SUBSET Users
  BY <1>1 DEF SyncTrack
<1>8. QED
  BY <1>4, <1>5, <1>6, <1>7 DEF SyncTrack, ShareTypeOK, homeserver, sends, shareHistory

LEMMA SyncThrowsTypes ==
  ASSUME ShareTypeOK, SyncThrows
  PROVE  ShareTypeOK'
<1>1. response \in Response /\ response.attempts \in Nat /\ response.changed \in SUBSET Users /\ queue \in Seq(0..CloseCall) /\ lost \in SUBSET Users
  BY DEF ShareTypeOK, Response
<1>2. PICK k : k = response.attempts + 1
  OBVIOUS
<1>8. k \in Nat
  BY <1>1, <1>2
<1>3. [response EXCEPT !.pc = "receive", !.heard = FALSE, !.attempts = k] \in Response
  BY <1>1, <1>8 DEF Response
<1>4. response' \in Response
  BY <1>2, <1>3, ShareConstants DEF SyncThrows
<1>5. queue' \in Seq(0..CloseCall)
  BY <1>1, LockTypes, ShareConstants DEF SyncThrows
<1>6. lost' \in SUBSET Users
  BY <1>1 DEF SyncThrows, Unheard
<1>7. QED
  BY <1>4, <1>5, <1>6 DEF SyncThrows, ShareTypeOK, homeserver, engine, sends

LEMMA ShareAgesTypes ==
  ASSUME ShareTypeOK, ShareAges \/ InvalidateRoomShare
  PROVE  ShareTypeOK'
<1>1. share \in Share /\ events \in Nat
  BY DEF ShareTypeOK
<1>2. [share EXCEPT !.aged = TRUE] \in Share
  BY <1>1 DEF Share
<1>3. share' \in Share
  BY <1>2, ShareConstants DEF ShareAges, InvalidateRoomShare
<1>4. events' \in Nat
  BY <1>1 DEF ShareAges, InvalidateRoomShare, Happens
<1>5. QED
  BY <1>3, <1>4 DEF ShareAges, InvalidateRoomShare, ShareTypeOK, homeserver, sends, shareHistory

LEMMA CloseTypes ==
  ASSUME ShareTypeOK, Close \/ CloseMachine
  PROVE  ShareTypeOK'
<1>1. queue' \in Seq(0..CloseCall)
  BY LockTypes, ShareConstants DEF Close, CloseMachine, Release
<1>2. CASE Close
  BY <1>1, <1>2 DEF Close, ShareTypeOK, homeserver, engine, sends, shareHistory, Happens
<1>3. CASE CloseMachine
  BY <1>1, <1>3, ShareConstants DEF CloseMachine, ShareTypeOK, homeserver, sends, shareHistory
<1>4. QED
  BY <1>2, <1>3

(* Every step keeps the types. *)
LEMMA ShareNextTypes ==
  ASSUME ShareTypeOK, [ShareNext]_shareVars
  PROVE  ShareTypeOK'
<1>1. CASE UNCHANGED shareVars
  BY <1>1 DEF ShareTypeOK, shareVars, homeserver, engine, sends, shareHistory
<1>2. CASE \E x \in Sends : SendEvent(x) \/ SendStep(x)
  BY <1>2, SendEventTypes, EncryptMessageTypes, EncryptTypes, ShareTrackTypes, ShareRefreshTypes,
     FlushTypes, PutTypes, ShareFanoutTypes DEF SendStep
<1>3. CASE SyncAnswers \/ SyncStep
  BY <1>3, SyncAnswersTypes, SyncRoomsTypes, SyncThrowsTypes, SyncReceiveTypes, SyncTrackTypes DEF SyncStep
<1>4. CASE ServerStep \/ \E ok \in BOOLEAN : Prepare(ok)
  BY <1>4, ServerTypes, PrepareTypes
<1>5. CASE ShareAges \/ InvalidateRoomShare \/ Close \/ CloseMachine
  BY <1>5, ShareAgesTypes, CloseTypes
<1>6. QED
  BY <1>1, <1>2, <1>3, <1>4, <1>5 DEF ShareNext

(* Every state of the engine is of the declared types. *)
THEOREM ShareTypes == ShareSpec => []ShareTypeOK
<1>1. QED
  BY ShareInitTypes, ShareNextTypes, PTL DEF ShareSpec

-----------------------------------------------------------------------------
(* The sends. *)
SendsInv ==
  /\ SharedWith /\ SafeToEncrypt /\ Overlaps /\ Begun /\ Settled
  /\ KnownDevicesCanRead /\ LeaverCannotRead

(* A step that moves no send keeps this, as long as it leaves the cached   *)
(* share alone or drops it.                                                *)
LEMMA SendsKept ==
  ASSUME SendsInv, UNCHANGED <<session, sends, owed, msg, overlap>>, shared'.strays = shared.strays,
         share' = NoShare \/ (share # NoShare /\ share'.fp = share.fp) \/ UNCHANGED share
  PROVE  SendsInv'
<1>1. SharedWith'
  BY DEF SendsInv, SharedWith
<1>2. SafeToEncrypt' /\ Overlaps' /\ Begun'
  BY DEF SendsInv, SafeToEncrypt, Overlaps, Begun, Allowed, Active, sends
<1>3. Settled' /\ KnownDevicesCanRead' /\ LeaverCannotRead'
  BY DEF SendsInv, Settled, KnownDevicesCanRead, LeaverCannotRead, Encrypted, sends
<1>4. QED
  BY <1>1, <1>2, <1>3 DEF SendsInv

(* Nor does a send that goes on without encrypting. *)
LEMMA SendsMoveOn ==
  ASSUME ShareTypeOK, SendsInv, UNCHANGED <<session, to, owed, msg, overlap, share>>,
         shared'.strays = shared.strays, NEW x \in Sends, NEW s \in {"share", "refresh", "fanout", "put", "sent", "failed"}, Goto(x, s),
         pc[x] \notin {"idle", "sent", "failed"},
         s \in {"share", "refresh", "fanout"} => pc[x] \in {"ready", "share", "refresh"}
  PROVE  SendsInv'
<1>1. pc' = [pc EXCEPT ![x] = s] /\ pc \in [Sends -> SendStates]
  BY DEF Goto, ShareTypeOK
<1>2. SharedWith' /\ SafeToEncrypt' /\ Settled'
  BY <1>1 DEF SendsInv, SharedWith, SafeToEncrypt, Settled, Allowed
<1>3. Overlaps'
  BY <1>1 DEF SendsInv, Overlaps, Active
<1>4. Begun'
  BY <1>1 DEF SendsInv, Begun
<1>5. KnownDevicesCanRead' /\ LeaverCannotRead'
  BY DEF SendsInv, KnownDevicesCanRead, LeaverCannotRead, Encrypted
<1>6. QED
  BY <1>2, <1>3, <1>4, <1>5 DEF SendsInv

LEMMA SendEventSends ==
  ASSUME ShareTypeOK, SendsInv, NEW x \in Sends, SendEvent(x)
  PROVE  SendsInv'
<1>1. /\ pc \in [Sends -> SendStates] /\ to \in [Sends -> SUBSET Users] /\ overlap \in [Sends -> SUBSET Sends]
      /\ pc[x] = "idle" /\ \E s \in {"ready", "failed"} : pc' = [pc EXCEPT ![x] = s]
      /\ to' = [to EXCEPT ![x] = members]
      /\ overlap' = [y \in Sends |-> IF y = x THEN Active ELSE IF y \in Active THEN overlap[y] \cup {x} ELSE overlap[y]]
      /\ UNCHANGED <<session, share, shared, owed, msg>>
  BY DEF SendEvent, Goto, ShareTypeOK, engine
<1>2. \A y \in Sends : y # x => overlap[y] \subseteq overlap'[y] /\ to'[y] = to[y] /\ pc'[y] = pc[y]
  BY <1>1
<1>3. pc'[x] \in {"ready", "failed"} /\ overlap'[x] = Active /\ msg[x] = NoSession
  BY <1>1 DEF SendsInv, Begun
<1>4. \A y \in Sends : \A z \in overlap[y] : z # x /\ z \in Sends
  BY <1>1 DEF SendsInv, Begun
<1>5. \A y \in Sends : \A d : y # x /\ Allowed(y, d) => Allowed(y, d)'
  BY <1>1, <1>2, <1>4 DEF Allowed
<1>6. SharedWith'
  BY <1>1 DEF SendsInv, SharedWith
<1>7. SafeToEncrypt'
  BY <1>1, <1>2, <1>3, <1>5 DEF SendsInv, SafeToEncrypt
<1>8. Settled'
  BY <1>1, <1>2, <1>3 DEF SendsInv, Settled
<1>9. Overlaps'
  BY <1>1, <1>2, <1>3 DEF SendsInv, Overlaps, Active
<1>10. Begun'
  BY <1>1, <1>2, <1>3 DEF SendsInv, Begun, Active
<1>11. KnownDevicesCanRead'
  BY <1>1, <1>2, <1>3 DEF SendsInv, KnownDevicesCanRead, Encrypted
<1>12. LeaverCannotRead'
  <2>1. \A y \in Encrypted : \A d \in msg[y].to : Allowed(y, d)
    BY DEF SendsInv, LeaverCannotRead, Allowed
  <2>2. Encrypted' = Encrypted /\ x \notin Encrypted /\ Encrypted \subseteq Sends
    BY <1>1, <1>3 DEF Encrypted
  <2>3. \A y \in Encrypted : \A d \in msg[y].to : Allowed(y, d)'
    BY <1>5, <2>1, <2>2
  <2>4. QED
    BY <1>1, <2>2, <2>3 DEF LeaverCannotRead, Allowed
<1>13. QED
  BY <1>6, <1>7, <1>8, <1>9, <1>10, <1>11, <1>12 DEF SendsInv

LEMMA EncryptMessageSends ==
  ASSUME ShareTypeOK, SendsInv, Covered, NEW x \in Sends, EncryptMessage(x)
  PROVE  SendsInv'
<1>1. /\ pc \in [Sends -> SendStates] /\ pc[x] = "ready" /\ share \in Share
      /\ owed \in [Sends -> Owed]
      /\ UNCHANGED <<session, shared, to, msg, overlap>>
  BY DEF EncryptMessage, ShareTypeOK
<1>2. CASE ~ShareIsFresh(to[x])
  <2>1. Goto(x, "share") /\ UNCHANGED <<share, owed>>
    BY <1>2 DEF EncryptMessage
  <2>2. QED
    BY <1>1, <2>1, SendsMoveOn
<1>3. CASE ShareIsFresh(to[x])
  <2>1. /\ share # NoShare /\ share.fp = to[x]
        /\ share' = [share EXCEPT !.messages = @ + 1]
        /\ owed' = [owed EXCEPT ![x] = [id |-> session.id, devices |-> OwedByShare, strays |-> shared.strays]]
        /\ pc' = [pc EXCEPT ![x] = "encrypt"]
    BY <1>3 DEF EncryptMessage, ShareIsFresh, Goto
  <2>2. share'.fp = share.fp
    BY <1>1, <2>1 DEF Share
  <2>3. SharedWith'
    BY <1>1, <2>1, <2>2 DEF SendsInv, SharedWith
  <2>4. SafeToEncrypt'
    <3>1. \A d \in session.to : d[1] \in to[x] \cup shared.strays
      BY <2>1 DEF SendsInv, SharedWith
    <3>2. owed'[x].strays = shared.strays /\ pc'[x] = "encrypt"
      BY <1>1, <2>1
    <3>3. \A y \in Sends : y # x => owed'[y] = owed[y] /\ pc'[y] = pc[y]
      BY <1>1, <2>1
    <3>4. QED
      BY <1>1, <3>1, <3>2, <3>3 DEF SendsInv, SafeToEncrypt, Allowed
  <2>5. Overlaps' /\ Begun'
    BY <1>1, <2>1 DEF SendsInv, Overlaps, Begun, Active
  <2>6. Settled'
    <3>1. OwedByShare \subseteq session.to \cup session.withheld
      BY <2>1 DEF OwedByShare, Covered
    <3>2. owed'[x].devices = OwedByShare
      BY <1>1, <2>1
    <3>3. \A y \in Sends : y # x => owed'[y] = owed[y] /\ pc'[y] = pc[y]
      BY <1>1, <2>1
    <3>4. QED
      BY <1>1, <3>1, <3>2, <3>3 DEF SendsInv, Settled
  <2>7. KnownDevicesCanRead' /\ LeaverCannotRead'
    <3>1. x \notin Encrypted /\ Encrypted' = Encrypted
      BY <1>1 DEF SendsInv, Begun, Encrypted
    <3>2. \A y \in Encrypted : owed'[y] = owed[y]
      BY <1>1, <2>1, <3>1 DEF Encrypted
    <3>3. QED
      BY <1>1, <3>1, <3>2 DEF SendsInv, KnownDevicesCanRead, LeaverCannotRead
  <2>8. QED
    BY <2>3, <2>4, <2>5, <2>6, <2>7 DEF SendsInv
<1>4. QED
  BY <1>2, <1>3

(* A share that completes or fails while another send waits to encrypt:    *)
(* that one knows of it.                                                   *)
LEMMA FanoutOthers ==
  ASSUME ShareTypeOK, SendsInv, Numbered, NEW x \in Sends, pc[x] = "fanout", UNCHANGED <<to, overlap>>,
         NEW s \in Session, s = session \/ IsNew(s), \A d \in s.to : d[1] \in to[x],
         session'.id = s.id, s.to \subseteq session'.to, s.withheld \subseteq session'.withheld,
         \A d \in session'.to : d \in s.to \/ d[1] \in to[x],
         NEW y \in Sends, y # x, pc[y] = "encrypt", owed'[y] = owed[y]
  PROVE  /\ \A d \in session'.to : Allowed(y, d)'
         /\ \/ owed'[y].devices \subseteq session'.to \cup session'.withheld
            \/ session'.id # owed'[y].id /\ overlap'[y] # {}
<1>1. x \in overlap[y]
  BY DEF SendsInv, Overlaps, Active
<1>2. \A d \in session'.to : d[1] \in to[x]
  OBVIOUS
<1>3. \A d \in session'.to : Allowed(y, d)'
  BY <1>1, <1>2 DEF Allowed
<1>4. owed[y].id \in Nat /\ session.id \in Nat /\ owed[y].id <= session.id
  BY DEF ShareTypeOK, Session, Owed, Numbered
<1>5. CASE IsNew(s)
  <2>1. s.id # owed[y].id
    BY <1>4, <1>5 DEF IsNew
  <2>2. QED
    BY <1>1, <1>3, <2>1
<1>6. CASE s = session
  <2>1. \/ owed[y].devices \subseteq s.to \cup s.withheld
        \/ s.id # owed[y].id
    BY <1>6 DEF SendsInv, Settled
  <2>2. QED
    BY <1>1, <1>3, <2>1
<1>7. QED
  BY <1>5, <1>6

LEMMA FanoutSends ==
  ASSUME ShareTypeOK, SendsInv, Numbered, NEW x \in Sends, NEW withheld \in BOOLEAN, NEW ok \in BOOLEAN,
         ShareFanout(x, withheld, ok)
  PROVE  SendsInv'
<1>1. /\ pc \in [Sends -> SendStates] /\ pc[x] = "fanout" /\ UNCHANGED <<to, msg, overlap>>
      /\ owed \in [Sends -> Owed]
  BY DEF ShareFanout, ShareTypeOK
<1>2. PICK s \in Session :
         /\ s = session \/ IsNew(s)
         /\ \A d \in s.to : d[1] \in to[x]
         /\ LET new == Known(machine, to[x]) \ (s.to \cup s.withheld)
            IN FanoutFails(x, s, new) \/ FanoutWithheld(x, s, new) \/ FanoutShares(x, s, new)
  BY FanoutCases
<1>3. PICK new : new = Known(machine, to[x]) \ (s.to \cup s.withheld)
  OBVIOUS
<1>4. FanoutFails(x, s, new) \/ FanoutWithheld(x, s, new) \/ FanoutShares(x, s, new)
  BY <1>2, <1>3
<1>5. \A d \in new : d[1] \in to[x]
  BY <1>3 DEF Known
<1>19. new \in SUBSET Devices
  BY <1>3 DEF Known, ShareTypeOK, Machine
<1>6. /\ session'.id = s.id /\ s.to \subseteq session'.to /\ s.withheld \subseteq session'.withheld
      /\ \A d \in session'.to : d \in s.to \/ d[1] \in to[x]
  <2>1. CASE FanoutFails(x, s, new)
    BY <1>5, <1>19, <2>1, FanoutFailsFacts
  <2>2. CASE FanoutWithheld(x, s, new) \/ FanoutShares(x, s, new)
    BY <1>2, <1>5, <2>2 DEF FanoutWithheld, FanoutShares, Session
  <2>3. QED
    BY <1>4, <2>1, <2>2
<1>7. \A y \in Sends : y # x => owed'[y] = owed[y] /\ pc'[y] = pc[y]
  BY <1>1, <1>4 DEF FanoutFails, FanoutWithheld, FanoutShares, Throw, Goto
<1>8. \A y \in Sends : y # x /\ pc[y] = "encrypt" =>
         /\ \A d \in session'.to : Allowed(y, d)'
         /\ \/ owed'[y].devices \subseteq session'.to \cup session'.withheld
            \/ session'.id # owed'[y].id /\ overlap'[y] # {}
  BY <1>1, <1>2, <1>6, <1>7, FanoutOthers
<1>9. \A d \in session'.to : d[1] \in to[x]
  BY <1>2, <1>6
<1>10. pc'[x] \in {"failed", "encrypt"}
  BY <1>1, <1>4 DEF FanoutFails, FanoutWithheld, FanoutShares, Throw, Goto
<1>11. pc'[x] = "encrypt" => owed'[x].devices \subseteq session'.to \cup session'.withheld
  <2>1. pc'[x] = "encrypt" => FanoutShares(x, s, new)
    BY <1>1, <1>4 DEF FanoutFails, FanoutWithheld, Throw, Goto
  <2>2. CASE FanoutShares(x, s, new)
    <3>1. owed'[x].devices = Known(machine, to[x])
      BY <1>1, <2>2 DEF FanoutShares
    <3>2. session'.to = s.to \cup new /\ session'.withheld = s.withheld
      BY <1>2, <2>2 DEF FanoutShares, Session
    <3>3. QED
      BY <1>3, <3>1, <3>2
  <2>3. QED
    BY <2>1, <2>2
<1>12. SharedWith'
  <2>1. CASE FanoutFails(x, s, new)
    <3>1. /\ UNCHANGED share /\ \A d \in session'.to : d \in s.to \/ d[1] \in shared'.strays
          /\ s.id = session.id => shared.strays \subseteq shared'.strays
      BY <1>19, <2>1, FanoutFailsFacts DEF FanoutFails
    <3>2. QED
      BY <1>2, <3>1 DEF SendsInv, SharedWith, IsNew
  <2>2. CASE FanoutWithheld(x, s, new)
    BY <2>2 DEF FanoutWithheld, SharedWith
  <2>3. CASE FanoutShares(x, s, new)
    BY <1>9, <2>3 DEF FanoutShares, SharedWith
  <2>4. QED
    BY <1>4, <2>1, <2>2, <2>3
<1>13. SafeToEncrypt'
  BY <1>1, <1>7, <1>8, <1>9 DEF SafeToEncrypt, Allowed
<1>14. Settled'
  BY <1>7, <1>8, <1>11 DEF Settled
<1>15. Overlaps'
  <2>1. Active' \subseteq Active
    BY <1>1, <1>7, <1>10 DEF Active
  <2>2. QED
    BY <1>1, <2>1 DEF SendsInv, Overlaps
<1>16. Begun'
  <2>1. overlap \in [Sends -> SUBSET Sends] /\ pc'[x] # "idle" /\ msg[x] = NoSession
    BY <1>1, <1>10 DEF ShareTypeOK, SendsInv, Begun
  <2>2. QED
    BY <1>1, <1>7, <2>1 DEF SendsInv, Begun
<1>17. KnownDevicesCanRead' /\ LeaverCannotRead'
  <2>1. x \notin Encrypted /\ Encrypted' = Encrypted /\ Encrypted \subseteq Sends
    BY <1>1 DEF SendsInv, Begun, Encrypted
  <2>2. \A y \in Encrypted : owed'[y] = owed[y]
    BY <1>7, <2>1
  <2>3. QED
    BY <1>1, <2>1, <2>2 DEF SendsInv, KnownDevicesCanRead, LeaverCannotRead
<1>18. QED
  BY <1>12, <1>13, <1>14, <1>15, <1>16, <1>17 DEF SendsInv

LEMMA EncryptSends ==
  ASSUME ShareTypeOK, SendsInv, NEW x \in Sends, EncryptRoomEvent(x)
  PROVE  SendsInv'
<1>1. /\ pc \in [Sends -> SendStates] /\ pc[x] = "encrypt" /\ session \in Session /\ msg \in [Sends -> Session]
      /\ UNCHANGED <<to, owed, overlap, share, shared>>
  BY DEF EncryptRoomEvent, ShareTypeOK, engine
<1>2. CASE closed = "closed"
  BY <1>1, <1>2, SendsMoveOn DEF EncryptRoomEvent, Throw
<1>3. CASE closed # "closed"
  <2>1. /\ session' = [session EXCEPT !.used = @ + 1]
        /\ msg' = [msg EXCEPT ![x] = session'] /\ pc' = [pc EXCEPT ![x] = "flush"]
    BY <1>3 DEF EncryptRoomEvent, Goto
  <2>2. session'.id = session.id /\ session'.to = session.to /\ session'.withheld = session.withheld
    BY <1>1, <2>1 DEF Session
  <2>3. \A y \in Sends : y # x => pc'[y] = pc[y] /\ msg'[y] = msg[y]
    BY <1>1, <2>1
  <2>4. msg'[x].id = session.id /\ msg'[x].to = session.to /\ msg'[x].withheld = session.withheld /\ pc'[x] = "flush"
    BY <1>1, <2>1, <2>2
  <2>5. SharedWith' /\ SafeToEncrypt' /\ Settled'
    BY <1>1, <2>2, <2>3, <2>4 DEF SendsInv, SharedWith, SafeToEncrypt, Settled, Allowed
  <2>6. Overlaps'
    BY <1>1, <2>3, <2>4 DEF SendsInv, Overlaps, Active
  <2>10. Begun'
    <3>1. overlap \in [Sends -> SUBSET Sends]
      BY DEF ShareTypeOK
    <3>2. QED
      BY <1>1, <2>3, <2>4, <3>1 DEF SendsInv, Begun
  <2>7. KnownDevicesCanRead'
    BY <1>1, <2>3, <2>4 DEF SendsInv, KnownDevicesCanRead, Settled, Encrypted
  <2>8. LeaverCannotRead'
    BY <1>1, <2>3, <2>4 DEF SendsInv, LeaverCannotRead, SafeToEncrypt, Allowed, Encrypted
  <2>9. QED
    BY <2>5, <2>6, <2>7, <2>8, <2>10 DEF SendsInv
<1>4. QED
  BY <1>2, <1>3

-----------------------------------------------------------------------------
(* The machine and the bookkeeping beside it. *)
EngineInv == MachineTracks /\ Covered /\ Numbered

(* Tracking: the machine never stops tracking, and whoever the engine or a *)
(* share counts on is tracked.                                             *)
LEMMA TracksKept ==
  ASSUME MachineTracks, machine.tracked \subseteq machine'.tracked, tracked' \subseteq machine'.tracked,
         \A x \in Sends : pc'[x] \in {"refresh", "fanout"} =>
            \/ pc[x] \in {"refresh", "fanout"} /\ to'[x] = to[x]
            \/ to'[x] \subseteq machine'.tracked,
         share' # NoShare => share # NoShare /\ shared'.users \subseteq shared.users
  PROVE  MachineTracks'
BY DEF MachineTracks

(* What the machine learns keeps a share covered unless it is about users  *)
(* that the share covers and the engine has not heard of.                  *)
LEMMA CoveredKept ==
  ASSUME Covered, share' # NoShare => share # NoShare,
         session'.id = session.id, session'.to = session.to, session'.withheld = session.withheld,
         shared'.id = shared.id, shared'.users \subseteq shared.users,
         NEW S, S \cap shared'.users \subseteq Unheard', Unheard \subseteq Unheard',
         machine'.stale \subseteq machine.stale \cup S,
         \A d \in machine'.devices : d \in machine.devices \/ d[1] \in machine.stale \cup S
  PROVE  Covered'
<1> SUFFICES ASSUME share' # NoShare PROVE Covered'
  BY DEF Covered
<1>1. /\ machine.stale \cap shared.users \subseteq Unheard
      /\ session.id = shared.id =>
           \A d \in Known(machine, shared.users) : d[1] \in Unheard \/ d \in session.to \cup session.withheld
  BY DEF Covered
<1>2. machine'.stale \cap shared'.users \subseteq Unheard'
  BY <1>1
<1>3. ASSUME session'.id = shared'.id, NEW d \in Known(machine', shared'.users)
      PROVE  d[1] \in Unheard' \/ d \in session'.to \cup session'.withheld
  <2>1. d \in machine'.devices /\ d[1] \in shared'.users /\ d[1] \in shared.users
    BY <1>3 DEF Known
  <2>2. CASE d \in machine.devices
    <3>1. d \in Known(machine, shared.users)
      BY <2>1, <2>2 DEF Known
    <3>2. QED
      BY <1>1, <1>3, <3>1
  <2>3. CASE d[1] \in machine.stale \cup S
    BY <1>1, <2>1, <2>3
  <2>4. QED
    BY <2>1, <2>2, <2>3
<1>4. QED
  BY <1>2, <1>3 DEF Covered

LEMMA NumberedKept ==
  ASSUME Numbered, session'.id = session.id, shared'.id = shared.id, UNCHANGED owed
  PROVE  Numbered'
BY DEF Numbered

(* Steps that do not touch the machine. *)
LEMMA EngineUntouched ==
  ASSUME EngineInv, UNCHANGED <<machine, session, shared, owed>>, tracked' \subseteq tracked,
         \A x \in Sends : pc'[x] \in {"refresh", "fanout"} => pc'[x] = pc[x] /\ to'[x] = to[x],
         share' # NoShare => share # NoShare, Unheard \subseteq Unheard'
  PROVE  EngineInv'
<1>1. MachineTracks'
  BY TracksKept DEF EngineInv, MachineTracks
<1>2. Covered'
  <2>1. PICK S : S = {}
    OBVIOUS
  <2>2. QED
    BY <2>1, CoveredKept DEF EngineInv
<1>3. Numbered'
  BY NumberedKept DEF EngineInv
<1>4. QED
  BY <1>1, <1>2, <1>3 DEF EngineInv

(* Steps in which the machine is told of users and queries them: they are  *)
(* new to it, or the engine has not heard of their change.                 *)
LEMMA EngineLearns ==
  ASSUME ShareTypeOK, EngineInv, UNCHANGED <<session, owed>>,
         shared'.id = shared.id, shared'.users \subseteq shared.users,
         NEW m \in Machine, NEW ok \in BOOLEAN, RunOutgoing(m, ok),
         NEW S, m.stale = machine.stale \cup S, m.devices = machine.devices,
         share # NoShare /\ share' # NoShare => S \cap shared'.users \subseteq Unheard',
         \A x \in Sends : pc'[x] \in {"refresh", "fanout"} =>
            \/ pc[x] \in {"refresh", "fanout"} /\ to'[x] = to[x]
            \/ to'[x] \subseteq m.tracked,
         machine.tracked \subseteq m.tracked, tracked' \subseteq m.tracked,
         share' # NoShare => share # NoShare,
         share' # NoShare => Unheard \subseteq Unheard'
  PROVE  EngineInv'
<1>1. /\ machine'.tracked = m.tracked /\ machine'.stale \subseteq m.stale
      /\ \A d \in machine'.devices : d \in m.devices \/ d[1] \in m.stale
  BY RunFacts DEF ShareTypeOK
<1>2. MachineTracks'
  BY <1>1, TracksKept DEF EngineInv
<1>3. Covered'
  <2>1. CASE share' = NoShare
    BY <2>1 DEF Covered
  <2>2. CASE share' # NoShare
    BY <1>1, <2>2, CoveredKept DEF EngineInv
  <2>3. QED
    BY <2>1, <2>2
<1>4. Numbered'
  BY NumberedKept DEF EngineInv
<1>5. QED
  BY <1>2, <1>3, <1>4 DEF EngineInv

(* Users not yet tracked are in no share that is still in the cache. *)
LEMMA NewUsers ==
  ASSUME ShareTypeOK, EngineInv, UNCHANGED <<session, owed, share, shared>>,
         Unheard \subseteq Unheard', NEW U \in SUBSET Users, NEW ok \in BOOLEAN, RunOutgoing(Track(machine, U), ok),
         tracked' \subseteq tracked \cup U,
         \A x \in Sends : pc'[x] \in {"refresh", "fanout"} =>
            \/ pc[x] \in {"refresh", "fanout"} /\ to'[x] = to[x]
            \/ to'[x] \subseteq tracked \cup U
  PROVE  EngineInv'
<1>1. machine \in Machine /\ tracked \subseteq machine.tracked
  BY DEF ShareTypeOK, EngineInv, MachineTracks
<1>2. PICK m : m = Track(machine, U)
  OBVIOUS
<1>3. PICK S : S = U \ machine.tracked
  OBVIOUS
<1>4. /\ m \in Machine /\ m.tracked = machine.tracked \cup U
      /\ m.stale = machine.stale \cup S /\ m.devices = machine.devices
  BY <1>1, <1>2, <1>3, TrackFacts
<1>5. share # NoShare => S \cap shared.users = {}
  BY <1>3 DEF EngineInv, MachineTracks
<1>6. RunOutgoing(m, ok)
  BY <1>2
<1>8. /\ machine.tracked \subseteq m.tracked /\ tracked' \subseteq m.tracked
      /\ tracked \cup U \subseteq m.tracked
  BY <1>1, <1>4
<1>9. QED
  BY <1>4, <1>5, <1>6, <1>8, EngineLearns

LEMMA PrepareEngine ==
  ASSUME ShareTypeOK, EngineInv, NEW ok \in BOOLEAN, Prepare(ok)
  PROVE  EngineInv'
<1>1. Unheard' = Unheard
  BY DEF Prepare, Unheard, shareHistory
<1>2. QED
  BY <1>1, NewUsers DEF Prepare, ShareTypeOK, sends, shareHistory

LEMMA SyncTrackEngine ==
  ASSUME ShareTypeOK, EngineInv, Hearing, NEW ok \in BOOLEAN, SyncTrack(ok)
  PROVE  EngineInv'
<1>1. response.joined \in SUBSET Users /\ response \in Response
  BY DEF ShareTypeOK, Response
<1>2. Unheard \subseteq Unheard'
  BY <1>1 DEF SyncTrack, Hearing, Unheard, shareHistory, Response
<1>3. tracked' \subseteq tracked \cup response.joined
  BY DEF SyncTrack
<1>4. QED
  BY <1>1, <1>2, <1>3, NewUsers DEF SyncTrack, sends, shareHistory

LEMMA ShareTrackEngine ==
  ASSUME ShareTypeOK, EngineInv, NEW x \in Sends, NEW ok \in BOOLEAN, ShareTrack(x, ok)
  PROVE  EngineInv'
<1>1. /\ pc \in [Sends -> SendStates] /\ to[x] \in SUBSET Users
      /\ UNCHANGED <<session, owed, share, shared, to>> /\ Unheard' = Unheard
  BY DEF ShareTypeOK, ShareTrack, Unheard, shareHistory
<1>2. PICK s \in {"refresh", "failed"} : pc' = [pc EXCEPT ![x] = s]
  BY DEF ShareTrack, Throw, Goto
<1>3. CASE closed = "closed"
  <2>1. pc' = [pc EXCEPT ![x] = "failed"] /\ UNCHANGED <<machine, tracked>>
    BY <1>3 DEF ShareTrack, Throw, Goto
  <2>2. QED
    BY <1>1, <2>1, EngineUntouched
<1>4. CASE closed # "closed" /\ to[x] \subseteq tracked
  <2>1. UNCHANGED machine /\ tracked' = tracked
    BY <1>4 DEF ShareTrack
  <2>2. MachineTracks'
    BY <1>1, <1>2, <1>4, <2>1 DEF EngineInv, MachineTracks
  <2>3. Covered' /\ Numbered'
    BY <1>1, <2>1 DEF EngineInv, Covered, Numbered
  <2>4. QED
    BY <2>2, <2>3 DEF EngineInv
<1>5. CASE closed # "closed" /\ ~(to[x] \subseteq tracked)
  <2>1. RunOutgoing(Track(machine, to[x] \ tracked), ok) /\ tracked' = tracked \cup to[x]
    BY <1>5 DEF ShareTrack
  <2>2. PICK U : U = to[x] \ tracked
    OBVIOUS
  <2>3. U \in SUBSET Users /\ tracked' \subseteq tracked \cup U /\ to[x] \subseteq tracked \cup U
    BY <1>1, <2>1, <2>2
  <2>4. \A y \in Sends : pc'[y] \in {"refresh", "fanout"} =>
            \/ pc[y] \in {"refresh", "fanout"} /\ to'[y] = to[y]
            \/ to'[y] \subseteq tracked \cup U
    BY <1>1, <1>2, <2>3
  <2>5. QED
    BY <1>1, <2>1, <2>2, <2>3, <2>4, NewUsers
<1>6. QED
  BY <1>3, <1>4, <1>5

LEMMA ShareRefreshEngine ==
  ASSUME ShareTypeOK, EngineInv, NEW x \in Sends, NEW ok \in BOOLEAN, ShareRefresh(x, ok)
  PROVE  EngineInv'
<1>1. /\ machine \in Machine /\ to[x] \in SUBSET Users /\ pc \in [Sends -> SendStates] /\ pc[x] = "refresh"
      /\ shared \in Shared
      /\ UNCHANGED <<session, owed, share, to, tracked>> /\ Unheard' = Unheard
  BY DEF ShareTypeOK, ShareRefresh, Unheard
<1>2. PICK s \in {"fanout", "failed"} : pc' = [pc EXCEPT ![x] = s]
  BY DEF ShareRefresh, Throw, Goto
<1>3. PICK stale : stale = IF RotateEveryMessage(Cardinality(to[x])) THEN to[x] ELSE to[x] \cap dirty
  OBVIOUS
<1>4. /\ (stale = {} /\ UNCHANGED machine) \/ RunOutgoing(Outdate(machine, stale), ok)
      /\ shared' = [shared EXCEPT !.users = @ \ stale]
  BY <1>3 DEF ShareRefresh
<1>5. stale \in SUBSET Users /\ shared'.id = shared.id /\ shared'.users = shared.users \ stale
  BY <1>1, <1>3, <1>4
<1>6. \A y \in Sends : pc'[y] \in {"refresh", "fanout"} => pc[y] \in {"refresh", "fanout"} /\ to'[y] = to[y]
  BY <1>1, <1>2
<1>7. tracked \subseteq machine.tracked
  BY DEF EngineInv, MachineTracks
<1>8. CASE UNCHANGED machine
  <2>1. MachineTracks'
    BY <1>1, <1>5, <1>6, <1>7, <1>8, TracksKept DEF EngineInv
  <2>2. Covered'
    <3>1. PICK S : S = {}
      OBVIOUS
    <3>2. QED
      BY <1>1, <1>5, <1>8, <3>1, CoveredKept DEF EngineInv
  <2>3. Numbered'
    BY <1>1, <1>5, NumberedKept DEF EngineInv
  <2>4. QED
    BY <2>1, <2>2, <2>3 DEF EngineInv
<1>9. CASE RunOutgoing(Outdate(machine, stale), ok)
  <2>1. PICK m : m = Outdate(machine, stale)
    OBVIOUS
  <2>2. PICK S : S = stale \cap machine.tracked
    OBVIOUS
  <2>3. m \in Machine /\ m.tracked = machine.tracked /\ m.stale = machine.stale \cup S /\ m.devices = machine.devices
    BY <1>1, <1>5, <2>1, <2>2, OutdateFacts
  <2>4. RunOutgoing(m, ok) /\ S \cap shared'.users = {} /\ shared'.users \subseteq shared.users
    BY <1>5, <1>9, <2>1, <2>2
  <2>5. QED
    BY <1>1, <1>5, <1>6, <1>7, <2>3, <2>4, EngineLearns
<1>10. QED
  BY <1>4, <1>8, <1>9

LEMMA FlushEngine ==
  ASSUME ShareTypeOK, EngineInv, NEW x \in Sends, NEW ok \in BOOLEAN, EncryptFlush(x, ok)
  PROVE  EngineInv'
<1>1. /\ machine \in Machine /\ pc \in [Sends -> SendStates]
      /\ UNCHANGED <<session, owed, share, shared, to, tracked>> /\ Unheard' = Unheard
  BY DEF ShareTypeOK, EncryptFlush, Unheard, shareHistory, engine
<1>2. PICK s \in {"put", "failed"} : pc' = [pc EXCEPT ![x] = s]
  BY DEF EncryptFlush, Throw, Goto
<1>3. \A y \in Sends : pc'[y] \in {"refresh", "fanout"} => pc[y] \in {"refresh", "fanout"} /\ to'[y] = to[y]
  BY <1>1, <1>2
<1>4. PICK S : S = {}
  OBVIOUS
<1>5. RunOutgoing(machine, ok) /\ machine.stale = machine.stale \cup S /\ tracked \subseteq machine.tracked
  BY <1>4 DEF EncryptFlush, EngineInv, MachineTracks
<1>6. QED
  BY <1>1, <1>3, <1>4, <1>5, EngineLearns

LEMMA SyncReceiveEngine ==
  ASSUME ShareTypeOK, EngineInv, Hearing, NEW ok \in BOOLEAN, SyncReceive(ok)
  PROVE  EngineInv'
<1>1. /\ machine \in Machine /\ response \in Response /\ response.changed \in SUBSET Users
      /\ ~response.heard /\ tracked \subseteq machine.tracked
      /\ UNCHANGED <<session, owed, shared, sends>>
  BY DEF ShareTypeOK, Response, SyncReceive, Hearing, EngineInv, MachineTracks
<1>2. PICK m : m = Outdate(machine, response.changed)
  OBVIOUS
<1>3. PICK S : S = response.changed \cap machine.tracked
  OBVIOUS
<1>4. m \in Machine /\ m.tracked = machine.tracked /\ m.stale = machine.stale \cup S /\ m.devices = machine.devices
  BY <1>1, <1>2, <1>3, OutdateFacts
<1>5. RunOutgoing(m, ok)
  BY <1>2 DEF SyncReceive
<1>6. Unheard = response.changed \cup lost
  BY <1>1 DEF Unheard
<1>7. /\ share' # NoShare => share # NoShare /\ S \subseteq Unheard' /\ Unheard \subseteq Unheard'
      /\ tracked' \subseteq tracked
  <2>1. CASE ok
    <3>1. /\ response.changed # {} => share' = NoShare
          /\ share' # NoShare => share' = share
          /\ tracked' \subseteq tracked /\ lost' = lost \ response.changed
      BY <2>1 DEF SyncReceive, MarkChanged
    <3>2. response.changed = {} => S = {} /\ Unheard = lost /\ lost' = lost
      BY <1>3, <1>6, <3>1
    <3>3. lost' \subseteq Unheard'
      BY DEF Unheard
    <3>4. QED
      BY <3>1, <3>2, <3>3
  <2>2. CASE ~ok
    <3>1. UNCHANGED <<share, tracked, lost>> /\ response' = [response EXCEPT !.pc = "throws"]
      BY <2>2 DEF SyncReceive
    <3>2. response'.changed = response.changed /\ ~response'.heard
      BY <1>1, <3>1 DEF Response
    <3>3. Unheard' = Unheard
      BY <1>6, <3>1, <3>2 DEF Unheard
    <3>4. QED
      BY <1>3, <1>6, <3>1, <3>3
  <2>3. QED
    BY <2>1, <2>2
<1>8. QED
  BY <1>1, <1>4, <1>5, <1>7, EngineLearns DEF sends

LEMMA EncryptMessageEngine ==
  ASSUME ShareTypeOK, EngineInv, NEW x \in Sends, EncryptMessage(x)
  PROVE  EngineInv'
<1>1. /\ pc \in [Sends -> SendStates] /\ session.id \in Nat
      /\ owed \in [Sends -> Owed]
      /\ UNCHANGED <<machine, session, shared, to, tracked>> /\ Unheard' = Unheard
  BY DEF ShareTypeOK, Session, EncryptMessage, Unheard
<1>2. PICK s \in {"encrypt", "share"} : pc' = [pc EXCEPT ![x] = s]
  BY DEF EncryptMessage, Goto
<1>3. share' # NoShare => share # NoShare
  BY DEF EncryptMessage, ShareIsFresh
<1>4. MachineTracks'
  BY <1>1, <1>2, <1>3 DEF EngineInv, MachineTracks
<1>5. Covered'
  BY <1>1, <1>3 DEF EngineInv, Covered
<1>6. Numbered'
  <2>1. owed' = owed \/ owed' = [owed EXCEPT ![x] = [id |-> session.id, devices |-> OwedByShare, strays |-> shared.strays]]
    BY DEF EncryptMessage
  <2>2. \A y \in Sends : owed'[y].id = owed[y].id \/ owed'[y].id = session.id
    BY <1>1, <2>1
  <2>3. QED
    BY <1>1, <2>2 DEF EngineInv, Numbered
<1>7. QED
  BY <1>4, <1>5, <1>6 DEF EngineInv

LEMMA FanoutEngine ==
  ASSUME ShareTypeOK, EngineInv, NEW x \in Sends, NEW withheld \in BOOLEAN, NEW ok \in BOOLEAN,
         ShareFanout(x, withheld, ok)
  PROVE  EngineInv'
<1>1. /\ pc \in [Sends -> SendStates] /\ pc[x] = "fanout" /\ session.id \in Nat /\ shared.id \in Nat
      /\ owed \in [Sends -> Owed]
      /\ UNCHANGED <<machine, to, tracked>> /\ Unheard' = Unheard
  BY DEF ShareTypeOK, Session, Shared, ShareFanout, Unheard
<1>2. PICK s \in Session :
         /\ s = session \/ IsNew(s)
         /\ LET new == Known(machine, to[x]) \ (s.to \cup s.withheld)
            IN FanoutFails(x, s, new) \/ FanoutWithheld(x, s, new) \/ FanoutShares(x, s, new)
  BY FanoutCases
<1>3. PICK new : new = Known(machine, to[x]) \ (s.to \cup s.withheld)
  OBVIOUS
<1>4. FanoutFails(x, s, new) \/ FanoutWithheld(x, s, new) \/ FanoutShares(x, s, new)
  BY <1>2, <1>3
<1>11. new \in SUBSET Devices
  BY <1>3 DEF Known, ShareTypeOK, Machine
<1>12. FanoutFails(x, s, new) => shared'.id = shared.id /\ shared'.users = shared.users /\ session'.id = s.id
  BY <1>11, FanoutFailsFacts
<1>5. session'.id = s.id /\ s.id \in Nat /\ session.id <= s.id
  <2>1. session'.id = s.id /\ s.id \in Nat
    BY <1>2, <1>4, <1>12 DEF FanoutWithheld, FanoutShares, Session
  <2>2. QED
    BY <1>1, <1>2, <2>1 DEF IsNew
<1>6. PICK t \in {"failed", "encrypt"} : pc' = [pc EXCEPT ![x] = t]
  BY <1>4 DEF FanoutFails, FanoutWithheld, FanoutShares, Throw, Goto
<1>7. MachineTracks'
  <2>1. share' # NoShare => shared'.users \subseteq machine.tracked
    <3>1. CASE FanoutFails(x, s, new)
      BY <1>12, <3>1 DEF FanoutFails, EngineInv, MachineTracks
    <3>2. CASE FanoutWithheld(x, s, new)
      BY <3>2 DEF FanoutWithheld
    <3>3. CASE FanoutShares(x, s, new)
      BY <1>1, <3>3 DEF FanoutShares, EngineInv, MachineTracks
    <3>4. QED
      BY <1>4, <3>1, <3>2, <3>3
  <2>2. QED
    BY <1>1, <1>6, <2>1 DEF EngineInv, MachineTracks
<1>8. Covered'
  <2>1. CASE FanoutFails(x, s, new)
    <3>1. /\ session'.id = s.id /\ s.to \subseteq session'.to /\ s.withheld \subseteq session'.withheld
          /\ UNCHANGED share /\ shared'.id = shared.id /\ shared'.users = shared.users
      BY <1>11, <2>1, FanoutFailsFacts DEF FanoutFails
    <3>2. CASE s = session
      BY <1>1, <3>1, <3>2 DEF EngineInv, Covered
    <3>3. CASE IsNew(s)
      <4>1. session'.id # shared'.id
        BY <1>1, <3>1, <3>3 DEF IsNew, EngineInv, Numbered
      <4>2. QED
        BY <1>1, <3>1, <4>1 DEF EngineInv, Covered
    <3>4. QED
      BY <1>2, <3>2, <3>3
  <2>2. CASE FanoutWithheld(x, s, new)
    BY <2>2 DEF FanoutWithheld, Covered
  <2>3. CASE FanoutShares(x, s, new)
    <3>1. shared'.users = to[x] \ machine.stale
      BY <2>3 DEF FanoutShares
    <3>2. session'.to = s.to \cup new /\ session'.withheld = s.withheld
      BY <1>2, <2>3 DEF FanoutShares, Session
    <3>3. Known(machine, shared'.users) \subseteq s.to \cup s.withheld \cup new
      BY <1>3, <3>1 DEF Known
    <3>4. QED
      BY <1>1, <3>1, <3>2, <3>3 DEF Covered
  <2>4. QED
    BY <1>4, <2>1, <2>2, <2>3
<1>9. Numbered'
  <2>1. shared'.id = shared.id \/ shared'.id = s.id
    BY <1>4, <1>12 DEF FanoutWithheld, FanoutShares
  <2>2. \A y \in Sends : owed'[y].id = owed[y].id \/ owed'[y].id = s.id
    BY <1>1, <1>4 DEF FanoutFails, FanoutWithheld, FanoutShares
  <2>3. shared.id <= session.id /\ \A y \in Sends : owed[y].id <= session.id /\ owed[y].id \in Nat
    BY <1>1 DEF EngineInv, Numbered, Owed
  <2>4. shared'.id <= s.id
    BY <1>1, <1>5, <2>1, <2>3
  <2>5. \A y \in Sends : owed'[y].id <= s.id
    BY <1>1, <1>5, <2>2, <2>3
  <2>6. QED
    BY <1>5, <2>4, <2>5 DEF Numbered
<1>10. QED
  BY <1>7, <1>8, <1>9 DEF EngineInv

LEMMA EncryptEngine ==
  ASSUME ShareTypeOK, EngineInv, NEW x \in Sends, EncryptRoomEvent(x)
  PROVE  EngineInv'
<1>1. /\ pc \in [Sends -> SendStates] /\ session \in Session
      /\ UNCHANGED <<machine, share, shared, owed, to, tracked>> /\ Unheard' = Unheard
  BY DEF ShareTypeOK, EncryptRoomEvent, Unheard, engine
<1>2. PICK s \in {"flush", "failed"} : pc' = [pc EXCEPT ![x] = s]
  BY DEF EncryptRoomEvent, Throw, Goto
<1>3. session'.id = session.id /\ session'.to = session.to /\ session'.withheld = session.withheld
  BY <1>1 DEF EncryptRoomEvent, Session
<1>4. MachineTracks'
  BY <1>1, <1>2 DEF EngineInv, MachineTracks
<1>5. Covered' /\ Numbered'
  BY <1>1, <1>3 DEF EngineInv, Covered, Numbered
<1>6. QED
  BY <1>4, <1>5 DEF EngineInv

LEMMA OtherEngine ==
  ASSUME ShareTypeOK, EngineInv, Hearing,
         \/ ServerStep \/ (\E x \in Sends : SendEvent(x) \/ (\E ok \in BOOLEAN : Put(x, ok)))
         \/ SyncAnswers \/ SyncRooms \/ SyncThrows
         \/ ShareAges \/ InvalidateRoomShare \/ Close \/ CloseMachine
  PROVE  EngineInv'
<1>1. response \in Response /\ pc \in [Sends -> SendStates] /\ to \in [Sends -> SUBSET Users]
  BY DEF ShareTypeOK
<1>2. CASE ServerStep
  BY <1>2, EngineUntouched DEF ServerStep, AddDevice, JoinRoom, LeaveRoom, shareHistory, engine, sends, Unheard
<1>3. ASSUME NEW x \in Sends, SendEvent(x) \/ \E ok \in BOOLEAN : Put(x, ok)
      PROVE  EngineInv'
  <2>1. /\ UNCHANGED <<machine, session, shared, owed, tracked, share>> /\ Unheard' = Unheard
        /\ \E s \in {"ready", "failed", "sent"} : pc' = [pc EXCEPT ![x] = s]
        /\ \A y \in Sends : y # x => to'[y] = to[y]
    BY <1>1, <1>3 DEF SendEvent, Put, Goto, shareHistory, engine, Unheard
  <2>2. \A y \in Sends : pc'[y] \in {"refresh", "fanout"} => pc'[y] = pc[y] /\ to'[y] = to[y]
    BY <1>1, <2>1
  <2>3. QED
    BY <2>1, <2>2, EngineUntouched
<1>4. CASE SyncAnswers
  <2>1. Unheard \subseteq Unheard'
    BY <1>4 DEF SyncAnswers, Hearing, Unheard, shareHistory
  <2>2. QED
    BY <1>4, <2>1, EngineUntouched DEF SyncAnswers, shareHistory, engine, sends
<1>5. CASE SyncRooms
  <2>1. Unheard \subseteq Unheard'
    BY <1>1, <1>5 DEF SyncRooms, Hearing, Unheard, shareHistory, Response
  <2>2. QED
    BY <1>5, <2>1, EngineUntouched DEF SyncRooms, shareHistory, sends
<1>6. CASE SyncThrows
  <2>1. Unheard \subseteq Unheard'
    <3>1. CASE response' = NoSync /\ lost' = Unheard
      BY <3>1 DEF Unheard
    <3>2. CASE response' = [response EXCEPT !.pc = "receive", !.heard = FALSE, !.attempts = @ + 1] /\ UNCHANGED lost
      <4>1. response'.changed = response.changed /\ ~response'.heard
        BY <1>1, <3>2 DEF Response
      <4>2. QED
        BY <3>2, <4>1 DEF Unheard
    <3>3. QED
      BY <1>6, <3>1, <3>2 DEF SyncThrows
  <2>2. QED
    BY <1>6, <2>1, EngineUntouched DEF SyncThrows, engine, sends
<1>7. CASE ShareAges \/ InvalidateRoomShare \/ Close \/ CloseMachine
  <2>1. UNCHANGED <<machine, session, shared, owed, sends>> /\ Unheard' = Unheard
    BY <1>7 DEF ShareAges, InvalidateRoomShare, Close, CloseMachine, shareHistory, Unheard
  <2>2. tracked' \subseteq tracked /\ (share' # NoShare => share # NoShare)
    BY <1>7 DEF ShareAges, InvalidateRoomShare, Close, CloseMachine, engine
  <2>3. QED
    BY <2>1, <2>2, EngineUntouched DEF sends
<1>8. QED
  BY <1>2, <1>3, <1>4, <1>5, <1>6, <1>7

-----------------------------------------------------------------------------
LEMMA HearingKept ==
  ASSUME ShareTypeOK, Hearing, [ShareNext]_shareVars
  PROVE  Hearing'
<1>1. response \in Response
  BY DEF ShareTypeOK
<1>2. CASE UNCHANGED response
  BY <1>2 DEF Hearing
<1>3. CASE SyncAnswers
  BY <1>3 DEF SyncAnswers, Hearing
<1>4. CASE \E ok \in BOOLEAN : SyncReceive(ok)
  BY <1>1, <1>4 DEF SyncReceive, Hearing, Response
<1>5. CASE SyncRooms
  BY <1>1, <1>5 DEF SyncRooms, Hearing, Response, NoSync
<1>6. CASE \E ok \in BOOLEAN : SyncTrack(ok)
  BY <1>1, <1>6 DEF SyncTrack, Hearing, Response, NoSync
<1>7. CASE SyncThrows
  <2>1. CASE response' = NoSync
    BY <2>1 DEF Hearing, NoSync
  <2>2. CASE response' = [response EXCEPT !.pc = "receive", !.heard = FALSE, !.attempts = @ + 1]
    <3>1. response'.pc = "receive" /\ ~response'.heard
      BY <1>1, <2>2 DEF Response
    <3>2. QED
      BY <3>1 DEF Hearing
  <2>3. QED
    BY <1>7, <2>1, <2>2 DEF SyncThrows
<1>8. \/ UNCHANGED response \/ SyncAnswers \/ SyncRooms \/ SyncThrows
      \/ \E ok \in BOOLEAN : SyncReceive(ok) \/ SyncTrack(ok)
  <2>1. CASE UNCHANGED shareVars
    BY <2>1 DEF shareVars
  <2>2. CASE \E x \in Sends : SendEvent(x) \/ SendStep(x)
    <3>1. PICK x \in Sends : SendEvent(x) \/ SendStep(x)
      BY <2>2
    <3>2. CASE SendEvent(x) \/ EncryptMessage(x) \/ EncryptRoomEvent(x)
      BY <3>2 DEF SendEvent, EncryptMessage, EncryptRoomEvent
    <3>3. CASE \E ok \in BOOLEAN : ShareTrack(x, ok) \/ ShareRefresh(x, ok) \/ EncryptFlush(x, ok) \/ Put(x, ok)
      BY <3>3 DEF ShareTrack, ShareRefresh, EncryptFlush, Put
    <3>4. CASE \E withheld, ok \in BOOLEAN : ShareFanout(x, withheld, ok)
      BY <3>4 DEF ShareFanout
    <3>5. QED
      BY <3>1, <3>2, <3>3, <3>4 DEF SendStep
  <2>3. CASE ServerStep \/ \E ok \in BOOLEAN : Prepare(ok)
    BY <2>3 DEF ServerStep, AddDevice, JoinRoom, LeaveRoom, Prepare
  <2>4. CASE ShareAges \/ InvalidateRoomShare \/ Close \/ CloseMachine
    BY <2>4 DEF ShareAges, InvalidateRoomShare, Close, CloseMachine
  <2>5. QED
    BY <2>1, <2>2, <2>3, <2>4 DEF ShareNext, SyncStep
<1>9. QED
  BY <1>2, <1>3, <1>4, <1>5, <1>6, <1>7, <1>8

LEMMA EngineKept ==
  ASSUME ShareTypeOK, EngineInv, Hearing, [ShareNext]_shareVars
  PROVE  EngineInv'
<1>1. CASE UNCHANGED shareVars
  BY <1>1, EngineUntouched DEF shareVars, engine, sends, shareHistory, Unheard
<1>2. CASE \E x \in Sends : SendEvent(x) \/ SendStep(x)
  BY <1>2, OtherEngine, EncryptMessageEngine, EncryptEngine, ShareTrackEngine, ShareRefreshEngine,
     FlushEngine, FanoutEngine DEF SendStep
<1>3. CASE SyncAnswers \/ SyncStep
  BY <1>3, OtherEngine, SyncReceiveEngine, SyncTrackEngine DEF SyncStep
<1>4. CASE ServerStep \/ \E ok \in BOOLEAN : Prepare(ok)
  BY <1>4, OtherEngine, PrepareEngine
<1>5. CASE ShareAges \/ InvalidateRoomShare \/ Close \/ CloseMachine
  BY <1>5, OtherEngine
<1>6. QED
  BY <1>1, <1>2, <1>3, <1>4, <1>5 DEF ShareNext

LEMMA SendStepSends ==
  ASSUME ShareTypeOK, SendsInv, EngineInv, NEW x \in Sends, SendStep(x)
  PROVE  SendsInv'
<1>1. CASE EncryptMessage(x)
  BY <1>1, EncryptMessageSends DEF EngineInv
<1>2. CASE EncryptRoomEvent(x)
  BY <1>2, EncryptSends
<1>3. ASSUME NEW ok \in BOOLEAN, ShareTrack(x, ok)
      PROVE  SendsInv'
  <2>1. /\ UNCHANGED <<session, to, shared, owed, msg, overlap, share>> /\ pc[x] = "share"
        /\ Goto(x, "refresh") \/ Goto(x, "failed")
    BY <1>3 DEF ShareTrack, Throw, shareHistory
  <2>2. QED
    BY <2>1, SendsMoveOn
<1>4. ASSUME NEW ok \in BOOLEAN, ShareRefresh(x, ok)
      PROVE  SendsInv'
  <2>1. /\ UNCHANGED <<session, to, owed, msg, overlap, share>> /\ pc[x] = "refresh"
        /\ Goto(x, "fanout") \/ Goto(x, "failed")
    BY <1>4 DEF ShareRefresh, Throw
  <2>3. shared'.strays = shared.strays
    BY <1>4 DEF ShareRefresh, ShareTypeOK, Shared
  <2>2. QED
    BY <2>1, <2>3, SendsMoveOn
<1>5. ASSUME NEW ok \in BOOLEAN, EncryptFlush(x, ok) \/ Put(x, ok)
      PROVE  SendsInv'
  <2>1. /\ UNCHANGED <<session, to, shared, owed, msg, overlap, share>> /\ pc[x] \in {"flush", "put"}
        /\ Goto(x, "put") \/ Goto(x, "sent") \/ Goto(x, "failed")
    BY <1>5 DEF EncryptFlush, Put, Throw, shareHistory, engine
  <2>2. QED
    BY <2>1, SendsMoveOn
<1>6. ASSUME NEW withheld \in BOOLEAN, NEW ok \in BOOLEAN, ShareFanout(x, withheld, ok)
      PROVE  SendsInv'
  BY <1>6, FanoutSends DEF EngineInv
<1>7. QED
  BY <1>1, <1>2, <1>3, <1>4, <1>5, <1>6 DEF SendStep

LEMMA SendsInvKept ==
  ASSUME ShareTypeOK, SendsInv, EngineInv, [ShareNext]_shareVars
  PROVE  SendsInv'
<1>1. CASE UNCHANGED shareVars
  BY <1>1, SendsKept DEF shareVars, engine, shareHistory
<1>2. CASE \E x \in Sends : SendEvent(x) \/ SendStep(x)
  BY <1>2, SendEventSends, SendStepSends
<1>3. CASE SyncAnswers \/ SyncStep
  <2>1. UNCHANGED <<session, sends, shared, owed, msg, overlap>>
    BY <1>3 DEF SyncStep, SyncAnswers, SyncRooms, SyncThrows, SyncReceive, SyncTrack, shareHistory
  <2>2. share' = NoShare \/ UNCHANGED share
    BY <1>3 DEF SyncStep, SyncAnswers, SyncRooms, SyncThrows, SyncReceive, SyncTrack, MarkChanged, engine
  <2>3. QED
    BY <2>1, <2>2, SendsKept
<1>4. CASE ServerStep \/ \E ok \in BOOLEAN : Prepare(ok)
  <2>1. UNCHANGED <<session, sends, shared, owed, msg, overlap, share>>
    BY <1>4 DEF ServerStep, AddDevice, JoinRoom, LeaveRoom, Prepare, shareHistory, engine
  <2>2. QED
    BY <2>1, SendsKept
<1>5. CASE ShareAges \/ InvalidateRoomShare \/ Close \/ CloseMachine
  <2>1. UNCHANGED <<session, sends, shared, owed, msg, overlap>>
    BY <1>5 DEF ShareAges, InvalidateRoomShare, Close, CloseMachine, shareHistory
  <2>2. share' = NoShare \/ (share # NoShare /\ share'.fp = share.fp) \/ UNCHANGED share
    BY <1>5 DEF ShareAges, InvalidateRoomShare, Close, CloseMachine, engine, ShareTypeOK, Share
  <2>3. QED
    BY <2>1, <2>2, SendsKept
<1>6. QED
  BY <1>1, <1>2, <1>3, <1>4, <1>5 DEF ShareNext

ShareInv == ShareTypeOK /\ Hearing /\ EngineInv /\ SendsInv

LEMMA ShareInitHolds == ShareInit => ShareInv
<1> SUFFICES ASSUME ShareInit PROVE ShareInv
  OBVIOUS
<1>1. ShareTypeOK
  BY ShareInitTypes
<1>2. Hearing
  BY DEF ShareInit, Hearing, NoSync
<1>3. EngineInv
  BY DEF ShareInit, EngineInv, MachineTracks, Covered, Numbered, NoSession
<1>4. SharedWith /\ SafeToEncrypt /\ Overlaps /\ Begun /\ Settled
  BY DEF ShareInit, SharedWith, SafeToEncrypt, Overlaps, Begun, Settled, Active
<1>5. KnownDevicesCanRead /\ LeaverCannotRead
  BY DEF ShareInit, KnownDevicesCanRead, LeaverCannotRead, Encrypted
<1>6. QED
  BY <1>1, <1>2, <1>3, <1>4, <1>5 DEF ShareInv, SendsInv

LEMMA ShareInvKept == ShareInv /\ [ShareNext]_shareVars => ShareInv'
BY ShareNextTypes, HearingKept, EngineKept, SendsInvKept DEF ShareInv

(* The inductive invariant of the engine: what the cached share, the       *)
(* session and the sends in flight have to do with each other.             *)
THEOREM ShareInvariant == ShareSpec => []ShareInv
<1>1. QED
  BY ShareInitHolds, ShareInvKept, PTL DEF ShareSpec

(* A message can be read by every device its send owes the key, for any    *)
(* users, any number of sends and failures and any share policy.           *)
THEOREM KnownDevicesCanReadHolds == ShareSpec => []KnownDevicesCanRead
<1>1. ShareInv => KnownDevicesCanRead
  BY DEF ShareInv, SendsInv
<1>2. QED
  BY <1>1, ShareInvariant, PTL

(* A message cannot be read by anybody who is neither among its recipients *)
(* nor among those of a send that overlapped with it, nor was given the    *)
(* session by a share that failed, however the requests of a share are cut *)
(* off.                                                                    *)
THEOREM LeaverCannotReadHolds == ShareSpec => []LeaverCannotRead
<1>1. ShareInv => LeaverCannotRead
  BY DEF ShareInv, SendsInv
<1>2. QED
  BY <1>1, ShareInvariant, PTL
=============================================================================
