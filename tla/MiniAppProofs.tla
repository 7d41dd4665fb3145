---------------------------- MODULE MiniAppProofs ----------------------------
(***************************************************************************)
(* The invariants of MiniApp hold for every number of launches, requests,  *)
(* answers and restarts, all lifetimes, capacities and clock offsets.      *)
(***************************************************************************)
EXTENDS MiniApp, SequenceFacts

-----------------------------------------------------------------------------
(* The inductive invariant. *)

(* What requests and answers refer to is there. *)
Links ==
  /\ \A r \in Requests : req[r].pc \in {"claiming", "gating"} => req[r].launch \in 1..Len(launched)
  /\ \A r \in Requests : req[r].pc = "refreshing" => req[r].launch \in 1..Len(sessions)
  /\ fed \subseteq 1..Len(sessions)
  /\ \A a \in Answerers : ans[a].pc \in {"claiming", "sending"} => ans[a].query \in 1..Len(launched)

Gating(r, l) == req[r].pc = "gating" /\ req[r].launch = l
OfLaunch(i, l) == sessions[i].launch = l

(* A session was minted for the launch, or a request is about to. *)
Holding(l) == (\E i \in 1..Len(sessions) : OfLaunch(i, l)) \/ \E r \in Requests : Gating(r, l)

(* The nonce is on record for as long as the launch data is in date. *)
Spent(l) == \E i \in 1..Len(nonces) : nonces[i].key = l /\ nonces[i].exp >= Until(l)

OutOfDate(l) == now >= Until(l)

(* Unless its nonce was lost or recorded at the wrong time, a launch has    *)
(* one holder at most, and is spent or over once it has one.               *)
Traded(l) ==
  l \notin evicted \cup untimely =>
    /\ Holding(l) => Spent(l) \/ OutOfDate(l)
    /\ \A i, j \in 1..Len(sessions) : OfLaunch(i, l) /\ OfLaunch(j, l) => i = j
    /\ \A r, q \in Requests : Gating(r, l) /\ Gating(q, l) => r = q
    /\ \A i \in 1..Len(sessions), r \in Requests : ~(OfLaunch(i, l) /\ Gating(r, l))

TradedOnce == setup.nonceTtl >= InitTtl => \A l \in 1..Len(launched) : Traded(l)

(* A request that is under way, or was told that the user is a member, came *)
(* when the user was one: a user who has left does not come back.          *)
GateInv ==
  /\ \A r \in Requests : req[r].pc \in {"claiming", "gating", "refreshing"} /\ membership = "join" => req[r].member
  /\ \A r \in Requests : req[r].seen = "join" => req[r].member

(* The claims are kept until the query expires. *)
Timed == {e \in Entry : e.key \in 1..Len(launched) /\ e.exp >= launched[e.key].expQ}

(* The kinds of registry keep their claims in different stores. *)
ClaimsApart ==
  /\ claimed \in Seq(Timed) /\ disk \in Seq(Timed) /\ claimedNX \in Seq(Timed)
  /\ setup.queries = "signedAsync" => claimed = << >> /\ disk = << >>
  /\ setup.queries = "memory" => disk = << >>
  /\ setup.queries # "signedAsync" => claimedNX = << >> /\ \A a \in Answerers : ans[a].pc # "claiming"
  /\ \A a \in Answerers : ans[a].pc = "claiming" => now + ans[a].ttl >= launched[ans[a].query].expQ

Sending(a, q) == ans[a].pc = "sending" /\ ans[a].query = q

Marked(q) == (\E i \in 1..Len(claimed) : claimed[i].key = q) \/ \E i \in 1..Len(claimedNX) : claimedNX[i].key = q

(* No claim can succeed any more: the query has expired, or the memory      *)
(* registry has forgotten it.                                              *)
Gone(q) == launched[q].expQ <= now \/ (setup.queries = "memory" /\ \A i \in 1..Len(queries) : queries[i] # q)

(* A query that was answered, or is about to be, is claimed or gone; there *)
(* is one message of it, or one answer on its way.                         *)
Answered(q) ==
  q \notin doubtful \cup forgotten =>
    /\ posted[q] <= 1
    /\ posted[q] = 1 => (Marked(q) \/ Gone(q)) /\ \A a \in Answerers : ~Sending(a, q)
    /\ \A a \in Answerers : Sending(a, q) => Marked(q) \/ Gone(q)
    /\ \A a, b \in Answerers : Sending(a, q) /\ Sending(b, q) => a = b

AnswerInv ==
  /\ ClaimsApart
  /\ \A i \in 1..Len(outbox) : outbox[i] \in doubtful \cap (1..Len(launched))
  /\ \A q \in 1..Len(launched) : Answered(q)
  /\ \A q \in Launches : q \notin 1..Len(launched) => posted[q] = 0

(* The origin the page posts to: the pinned one, or one that was heard; it *)
(* is the only one that anything was posted to.                            *)
HostInv ==
  /\ setup.pinned => (page.open => page.hostOrigin = "host") /\ target \subseteq {"host"}
  /\ ~setup.pinned => page.hostOrigin \in {"*"} \cup (page.heard \ {"null"}) /\ target \subseteq {"*", page.hostOrigin}
  /\ target # {} => page.open

IInv == TypeOK /\ Links /\ TradedOnce /\ GateInv /\ NoDataFromLeavers /\ AnswerInv /\ HostInv

-----------------------------------------------------------------------------
(* The initial states. *)

LEMMA InitHolds == Init => IInv
<1> SUFFICES ASSUME Init PROVE IInv
  OBVIOUS
<1>0. NoReq \in Request /\ NoAns \in Answer(0) /\ MaxLaunches \in Nat /\ Len(<< >>) = 0
  BY MiniAppBounds DEF NoReq, NoAns, Request, Answer
<1>1. TypeOK
  <2>1. page \in Page(0)
    BY DEF Init, Page
  <2> QED
    BY <1>0, <2>1 DEF Init, TypeOK
<1>2. Links
  BY DEF Init, Links, NoReq, NoAns
<1>3. TradedOnce
  BY DEF Init, TradedOnce
<1>4. AnswerInv
  <2>1. ClaimsApart
    BY DEF Init, ClaimsApart, NoAns
  <2> QED
    BY <1>0, <2>1 DEF Init, AnswerInv
<1>5. HostInv /\ NoDataFromLeavers /\ GateInv
  BY DEF Init, HostInv, NoDataFromLeavers, GateInv, NoReq
<1> QED
  BY <1>1, <1>2, <1>3, <1>4, <1>5 DEF IInv

-----------------------------------------------------------------------------
(* Types and links. *)

(* The constants and the clock are numbers. *)
LEMMA Numbers ==
  ASSUME TypeOK
  PROVE  /\ now \in Nat /\ Second \in Nat \ {0} /\ InitTtl \in Nat /\ SessionTtl \in Nat /\ MaxLaunches \in Nat
         /\ setup \in Setup /\ setup.nonceTtl \in Nat
         /\ Len(launched) \in Nat /\ 1..Len(launched) \subseteq Launches
         /\ \A l \in 1..Len(launched) :
              /\ launched[l].auth \in Nat /\ launched[l].expQ \in Nat /\ launched[l].snap \in {"join", "leave"}
              /\ Until(l) \in Nat
<1>1. now \in Nat /\ setup \in Setup /\ launched \in Seq(LaunchData) /\ Len(launched) <= MaxLaunches
  BY MiniAppBounds DEF TypeOK
<1>2. Second \in Nat \ {0} /\ InitTtl \in Nat /\ SessionTtl \in Nat /\ MaxLaunches \in Nat
  BY MiniAppBounds
<1>3. setup.nonceTtl \in Nat
  BY <1>1 DEF Setup
<1>4. ASSUME NEW l \in 1..Len(launched)
      PROVE  /\ launched[l].auth \in Nat /\ launched[l].expQ \in Nat /\ launched[l].snap \in {"join", "leave"}
             /\ Until(l) \in Nat
  <2>1. launched[l].auth \in Nat /\ launched[l].expQ \in Nat /\ launched[l].snap \in {"join", "leave"}
    <3>1. launched[l] \in LaunchData
      BY <1>1
    <3> QED
      BY <3>1 DEF LaunchData
  <2>2. launched[l].auth + InitTtl + 1 \in Nat
    BY <1>2, <2>1
  <2> QED
    BY <1>2, <2>1, <2>2 DEF Until
<1>5. Len(launched) \in Nat /\ 1..Len(launched) \subseteq Launches
  BY <1>1, <1>2 DEF Launches
<1> QED
  BY <1>1, <1>2, <1>3, <1>4, <1>5

(* The time since midnight of the first day, in whole seconds. *)
LEMMA Seconds ==
  ASSUME NEW t \in Nat, NEW n \in Nat \ {0}
  PROVE  t \div n \in Nat
OBVIOUS

LEMMA Distribute ==
  ASSUME NEW a \in Nat, NEW b \in Nat, NEW n \in Nat
  PROVE  (a + b) * n = a * n + b * n
OBVIOUS

(* A request moves. *)
LEMMA ReqType ==
  ASSUME TypeOK, Links, NEW r \in Requests, NEW x \in Request, req' = [req EXCEPT ![r] = x],
         UNCHANGED <<setup, now, restarts, membership, launched, page, queries, answering>>,
         nonces' \in Seq(Entry),
         sessions' \in Seq(Session(Len(launched))),
         Len(sessions') >= Len(sessions),
         x.pc \in {"claiming", "gating"} => x.launch \in 1..Len(launched),
         x.pc = "refreshing" => x.launch \in 1..Len(sessions),
         fed' \subseteq fed \cup 1..Len(sessions)
  PROVE  TypeOK' /\ Links'
<1>1. req' \in [Requests -> Request]
  BY DEF TypeOK
<1>2. TypeOK'
  BY <1>1 DEF TypeOK, answering, claims
<1>3. ASSUME NEW q \in Requests PROVE (q # r => req'[q] = req[q]) /\ (q = r => req'[q] = x)
  BY DEF TypeOK
<1>4. Len(sessions) \in Nat /\ Len(sessions') \in Nat
  BY DEF TypeOK
<1>5. fed' \subseteq 1..Len(sessions')
  BY <1>4 DEF Links
<1>6. launched' = launched /\ ans' = ans
  BY DEF answering
<1>7. ASSUME NEW q \in Requests
      PROVE  /\ req'[q].pc \in {"claiming", "gating"} => req'[q].launch \in 1..Len(launched)
             /\ req'[q].pc = "refreshing" => req'[q].launch \in 1..Len(sessions')
  BY <1>3, <1>4 DEF Links
<1> QED
  BY <1>2, <1>5, <1>6, <1>7 DEF Links

(* ... to the given place, with nothing else changed but the nonce store. *)
LEMMA ReqMoves ==
  ASSUME TypeOK, NEW r \in Requests, NEW s \in {"claiming", "gating", "refreshing"}, NEW l \in Nat
  PROVE  /\ [NoReq EXCEPT !.pc = "done"] \in Request
         /\ [NoReq EXCEPT !.pc = "done"].pc = "done" /\ [NoReq EXCEPT !.pc = "done"].seen = "none"
         /\ [pc |-> s, launch |-> l, seen |-> "none", member |-> membership = "join"] \in Request
         /\ req[r] \in Request
         /\ [req[r] EXCEPT !.pc = s] \in Request
         /\ [req[r] EXCEPT !.pc = s].launch = req[r].launch /\ [req[r] EXCEPT !.pc = s].pc = s
         /\ [req[r] EXCEPT !.pc = s].seen = req[r].seen /\ [req[r] EXCEPT !.pc = s].member = req[r].member
<1>1. req[r] \in Request
  BY DEF TypeOK
<1> QED
  BY <1>1 DEF Request, NoReq

(* An answer moves. *)
LEMMA AnsType ==
  ASSUME TypeOK, Links, NEW a \in Answerers, NEW x \in Answer(Len(launched)), ans' = [ans EXCEPT ![a] = x],
         x.pc \in {"claiming", "sending"} => x.query \in 1..Len(launched),
         UNCHANGED <<setup, now, restarts, membership, launched, page, http, queries>>,
         claimed' \in Seq(Entry), disk' \in Seq(Entry), claimedNX' \in Seq(Entry),
         outbox' \in Seq(Launches), posted' \in [Launches -> Nat]
  PROVE  TypeOK' /\ Links'
<1>1. ans' \in [Answerers -> Answer(Len(launched))]
  BY DEF TypeOK
<1>2. TypeOK'
  BY <1>1 DEF TypeOK, http, nonceStore
<1>3. ASSUME NEW b \in Answerers PROVE (b # a => ans'[b] = ans[b]) /\ (b = a => ans'[b] = x)
  BY DEF TypeOK
<1>4. Links'
  BY <1>3 DEF Links, http
<1> QED
  BY <1>2, <1>4

(* The records an answer moves to. *)
LEMMA AnsRecords ==
  ASSUME TypeOK
  PROVE  /\ [NoAns EXCEPT !.pc = "done"] \in Answer(Len(launched)) /\ [NoAns EXCEPT !.pc = "done"].pc = "done"
         /\ \A s \in {"claiming", "sending"}, q \in 1..Len(launched), t \in Nat :
              [pc |-> s, query |-> q, ttl |-> t] \in Answer(Len(launched))
<1>1. Len(launched) \in Nat
  BY Numbers
<1> QED
  BY <1>1 DEF Answer, NoAns

(* Recording a nonce: it is on record until after the launch's lifetime,   *)
(* and the others stay unless they are pushed out or have expired.         *)
LEMMA RecordFacts ==
  ASSUME TypeOK, NEW l \in 1..Len(launched), RecordNonce(l)
  PROVE  /\ nonces' \in Seq(Entry)
         /\ \A e : HasEntry(nonces, e) /\ e.exp > now /\ e.key # l /\ e.key \notin evicted' => HasEntry(nonces', e)
         /\ evicted \subseteq evicted' /\ untimely \subseteq untimely'
         /\ l \notin untimely' /\ setup.nonceTtl >= InitTtl =>
              /\ now < Until(l)
              /\ \E i \in 1..Len(nonces') : nonces'[i].key = l /\ nonces'[i].exp >= Until(l)
<1> DEFINE memory == setup.nonces = "memory"
           keep == setup.nonceTtl * Second
           x == now + keep + (IF memory THEN 1 ELSE 0)
<1>0. now \in Nat /\ Second \in Nat \ {0} /\ InitTtl \in Nat /\ setup.nonceTtl \in Nat /\ launched[l].auth \in Nat
  BY Numbers
<1>1. NonceCapacity \in Nat \ {0} /\ l \in Launches /\ x \in Nat /\ keep \in Nat /\ x >= now + keep /\ nonces \in Seq(Entry)
  <2>1. nonces \in Seq(Entry) /\ l \in Launches /\ MaxLaunches \in Nat
    BY Numbers DEF TypeOK
  <2>2. NonceCapacity \in Nat \ {0}
    BY MiniAppBounds
  <2>3. keep \in Nat
    BY <1>0
  <2> HIDE DEF keep, memory
  <2> QED
    BY <1>0, <2>1, <2>2, <2>3
<1>2. [key |-> l, exp |-> x] \in Entry
  BY <1>1 DEF Entry
<1>3. /\ nonces' = IF memory THEN AddKey(nonces, l, x, now, NonceCapacity) ELSE SetKey(nonces, l, x, now)
      /\ evicted' = IF memory THEN evicted \cup Evicted(nonces, l, now, NonceCapacity) ELSE evicted
      /\ untimely \subseteq untimely'
      /\ l \notin untimely' => ~(now < From(l) \/ now >= Until(l))
  BY DEF RecordNonce
<1>4. l \notin untimely' /\ setup.nonceTtl >= InitTtl => now < Until(l) /\ x >= Until(l)
  <2> SUFFICES ASSUME l \notin untimely', setup.nonceTtl >= InitTtl PROVE now < Until(l) /\ x >= Until(l)
    OBVIOUS
  <2> DEFINE d == IF setup.nonceTtl = InitTtl THEN 1 ELSE 0
             au == launched[l].auth
             n == setup.nonceTtl
  <2>1. From(l) = (au + d) * Second /\ From(l) \in Nat /\ Until(l) \in Nat /\ d \in Nat
    <3>1. au + d \in Nat /\ d \in Nat
      BY <1>0
    <3> QED
      BY <1>0, <3>1, Numbers DEF From
  <2>2. now >= From(l) /\ now < Until(l)
    BY <1>0, <1>3, <2>1
  <2>3. n + d >= InitTtl + 1
    BY <1>0
  <2>9. au \in Nat /\ n \in Nat /\ InitTtl \in Nat
    BY <1>0
  <2>10. keep = n * Second /\ Until(l) = (au + InitTtl + 1) * Second
    BY DEF Until
  <2> HIDE DEF d, au, n, keep, x
  <2>4. (au + d) * Second + n * Second = (au + d + n) * Second
    BY <1>0, <2>1, <2>9, Distribute
  <2>5. PICK m \in Nat : n + d = InitTtl + 1 + m
    <3> DEFINE k == n + d - (InitTtl + 1)
    <3>1. k \in Nat /\ n + d = InitTtl + 1 + k
      BY <2>1, <2>3, <2>9
    <3> QED
      BY <3>1
  <2>6. (au + d + n) * Second = (au + InitTtl + 1) * Second + m * Second
    <3>1. au + d + n = (au + InitTtl + 1) + m /\ au + InitTtl + 1 \in Nat
      BY <2>1, <2>5, <2>9
    <3>2. ((au + InitTtl + 1) + m) * Second = (au + InitTtl + 1) * Second + m * Second
      BY <1>0, <2>5, <3>1, Distribute
    <3> QED
      BY <3>1, <3>2
  <2>7. m * Second \in Nat
    BY <1>0, <2>5
  <2>8. From(l) + keep >= Until(l)
    <3>1. From(l) + keep = Until(l) + m * Second
      BY <2>1, <2>4, <2>6, <2>10
    <3> QED
      BY <2>1, <2>7, <3>1
  <2> QED
    BY <1>0, <1>1, <2>1, <2>2, <2>8
<1> HIDE DEF memory, x
<1>5. /\ nonces' \in Seq(Entry)
      /\ HasEntry(nonces', [key |-> l, exp |-> x])
      /\ \A e : HasEntry(nonces, e) /\ e.exp > now /\ e.key # l /\ e.key \notin evicted' => HasEntry(nonces', e)
  <2>1. CASE memory
    <3>1. nonces' = AddKey(nonces, l, x, now, NonceCapacity) /\ Evicted(nonces, l, now, NonceCapacity) \subseteq evicted'
      BY <1>3, <2>1
    <3> QED
      BY <1>1, <1>2, <3>1, AddKeyFacts
  <2>2. CASE ~memory
    <3>1. nonces' = SetKey(nonces, l, x, now)
      BY <1>3, <2>2
    <3> QED
      BY <1>1, <1>2, <3>1, SetKeyFacts
  <2> QED
    BY <2>1, <2>2
<1>6. \E i \in 1..Len(nonces') : nonces'[i].key = l /\ nonces'[i].exp = x
  BY <1>5 DEF HasEntry
<1> QED
  BY <1>3, <1>4, <1>5, <1>6

(* The steps of the clock, the room, the page and the outbox. *)
LEMMA TypeQuiet ==
  ASSUME TypeOK, Links,
         \/ Tick \/ Leaves \/ SendData \/ WriteClaims \/ FlushOutbox
         \/ \E l \in Launches : BridgeLoads(l)
         \/ \E source \in {"hostWindow", "otherWindow"}, origin \in Origins, fresh \in BOOLEAN :
              BridgeMessage(source, origin, fresh)
  PROVE  TypeOK' /\ Links'
<1>1. CASE Tick \/ Leaves \/ SendData
  <2>1. now' \in Nat /\ membership' \in {"join", "leave"}
    BY <1>1 DEF Tick, Leaves, SendData, TypeOK
  <2>2. UNCHANGED <<setup, restarts, launched, page, http, queries, answering>>
    BY <1>1 DEF Tick, Leaves, SendData
  <2> QED
    BY <2>1, <2>2 DEF TypeOK, Links, http, nonceStore, answering, claims
<1>2. CASE WriteClaims
  <2>1. claimed \in Seq(Entry)
    BY DEF TypeOK
  <2>2. Unexpired(claimed, now) \in Seq(Entry)
    BY <2>1, UnexpiredFacts
  <2> QED
    BY <1>2, <2>2 DEF WriteClaims, TypeOK, Links, http, nonceStore
<1>3. CASE FlushOutbox
  <2>1. outbox \in Seq(Launches) /\ outbox # << >> /\ posted \in [Launches -> Nat]
    BY <1>3 DEF FlushOutbox, TypeOK
  <2>2. Head(outbox) \in Launches /\ Tail(outbox) \in Seq(Launches)
    BY <2>1
  <2>3. [posted EXCEPT ![Head(outbox)] = @ + 1] \in [Launches -> Nat]
    BY <2>1, <2>2
  <2>4. posted' \in [Launches -> Nat] /\ outbox' \in Seq(Launches)
    BY <1>3, <2>2, <2>3 DEF FlushOutbox
  <2>5. UNCHANGED <<setup, now, restarts, membership, launched, page, http, queries, claims, ans>>
    BY <1>3 DEF FlushOutbox
  <2> QED
    BY <2>4, <2>5 DEF TypeOK, Links, http, nonceStore, claims
<1>4. ASSUME NEW l \in Launches, BridgeLoads(l) PROVE TypeOK' /\ Links'
  <2>1. page' \in Page(Len(launched))
    <3>1. page \in Page(Len(launched)) /\ l \in 0..Len(launched)
      <4>1. Len(launched) \in Nat /\ page \in Page(Len(launched))
        BY Numbers DEF TypeOK
      <4>2. l \in 1..Len(launched)
        BY <1>4 DEF BridgeLoads
      <4> QED
        BY <4>1, <4>2
    <3> QED
      BY <1>4, <3>1 DEF BridgeLoads, Page
  <2> QED
    BY <1>4, <2>1 DEF BridgeLoads, TypeOK, Links, http, nonceStore, answering, claims
<1>5. ASSUME NEW source \in {"hostWindow", "otherWindow"}, NEW origin \in Origins, NEW fresh \in BOOLEAN,
             BridgeMessage(source, origin, fresh)
      PROVE  TypeOK' /\ Links'
  <2>1. page' \in Page(Len(launched))
    <3>1. page \in Page(Len(launched)) /\ Len(launched) \in 0..Len(launched)
      BY DEF TypeOK
    <3> QED
      BY <1>5, <3>1 DEF BridgeMessage, Page
  <2> QED
    BY <1>5, <2>1 DEF BridgeMessage, TypeOK, Links, http, nonceStore, answering, claims
<1> QED
  BY <1>1, <1>2, <1>3, <1>4, <1>5

(* What is left of the queries after pruning. *)
LEMMA PruneFacts ==
  ASSUME TypeOK
  PROVE  /\ PruneQueries \in Seq(Launches)
         /\ \A i \in 1..Len(PruneQueries) : \E j \in 1..Len(queries) : queries[j] = PruneQueries[i]
<1> DEFINE T == {q \in 1..Len(launched) : launched[q].expQ > now}
           kept == Kept(queries, T)
           n == Len(kept)
           m == n - QueryCapacity + 2
<1>1. queries \in Seq(Launches) /\ QueryCapacity \in Nat \ {0}
  BY MiniAppBounds DEF TypeOK
<1>2. PruneQueries = IF n < QueryCapacity THEN kept ELSE SubSeq(kept, m, n)
  BY Zenon DEF PruneQueries
<1> HIDE DEF T
<1>3. /\ kept \in Seq(Launches)
      /\ \A i \in 1..Len(kept) : \E j \in 1..Len(queries) : queries[j] = kept[i]
  BY <1>1, KeptElements
<1> HIDE DEF kept
<1>4. CASE n < QueryCapacity
  BY <1>2, <1>3, <1>4
<1>5. CASE ~(n < QueryCapacity)
  <2>1. m \in Nat \ {0} /\ n \in Nat /\ m <= n + 1
    BY <1>1, <1>3, <1>5
  <2> HIDE DEF m
  <2>2. /\ SubSeq(kept, m, n) \in Seq(Launches)
        /\ \A i \in 1..Len(SubSeq(kept, m, n)) : \E j \in 1..n : kept[j] = SubSeq(kept, m, n)[i]
    BY <1>3, <2>1
  <2> QED
    BY <1>2, <1>3, <1>5, <2>2
<1> QED
  BY <1>4, <1>5

LEMMA TypeLaunch ==
  ASSUME TypeOK, Links, CreateMiniAppLaunch
  PROVE  /\ TypeOK' /\ Links'
         /\ Len(launched') = Len(launched) + 1
         /\ \A l \in 1..Len(launched) : launched'[l] = launched[l]
<1>0. launched \in Seq(LaunchData) /\ Len(launched) \in Nat /\ now \in Nat /\ Second \in Nat \ {0} /\ MaxLaunches \in Nat
  BY Numbers DEF TypeOK
<1>1. InitData(membership) \in LaunchData
  <2>1. BotAhead \in Nat /\ QueryTtl \in Nat /\ membership \in {"join", "leave"}
    BY MiniAppBounds DEF TypeOK
  <2>2. now + BotAhead \in Nat /\ now + QueryTtl \in Nat
    BY <1>0, <2>1
  <2>3. (now + BotAhead) \div Second \in Nat
    BY <1>0, <2>2, Seconds
  <2> QED
    BY <2>1, <2>2, <2>3 DEF InitData, LaunchData
<1>2. launched' = Append(launched, InitData(membership)) /\ Len(launched) < MaxLaunches
  BY DEF CreateMiniAppLaunch
<1>3. /\ launched' \in Seq(LaunchData) /\ Len(launched') = Len(launched) + 1 /\ Len(launched') <= MaxLaunches
      /\ \A l \in 1..Len(launched) : launched'[l] = launched[l]
  BY <1>0, <1>1, <1>2
<1>4. 1..Len(launched) \subseteq 1..Len(launched') /\ 0..Len(launched) \subseteq 0..Len(launched')
  BY <1>0, <1>3
<1>5. /\ Session(Len(launched)) \subseteq Session(Len(launched'))
      /\ Answer(Len(launched)) \subseteq Answer(Len(launched'))
  BY <1>4 DEF Session, Answer
<1>6. page \in Page(Len(launched'))
  BY <1>4 DEF TypeOK, Page
<1>7. UNCHANGED <<setup, now, restarts, membership, page, http, answering, target>>
  BY DEF CreateMiniAppLaunch
<1>8. sessions \in Seq(Session(Len(launched')))
  <2>1. sessions \in Seq(Session(Len(launched)))
    BY DEF TypeOK
  <2> QED
    BY <1>5, <2>1
<1>9. ans \in [Answerers -> Answer(Len(launched'))]
  <2>1. ans \in [Answerers -> Answer(Len(launched))]
    BY DEF TypeOK
  <2> QED
    BY <1>5, <2>1
<1>10. queries' \in Seq(Launches)
  <2>1. queries' = queries \/ queries' = Append(PruneQueries, Len(launched) + 1)
    BY DEF CreateMiniAppLaunch, IssueQuery
  <2>2. Len(launched) + 1 \in Launches /\ queries \in Seq(Launches)
    BY <1>0, <1>2 DEF Launches, TypeOK
  <2>3. PruneQueries \in Seq(Launches)
    BY PruneFacts
  <2> QED
    BY <2>1, <2>2, <2>3
<1>11. TypeOK'
  BY <1>3, <1>6, <1>7, <1>8, <1>9, <1>10 DEF TypeOK, http, nonceStore, answering, claims
<1>12. Links'
  BY <1>4, <1>7 DEF Links, http, nonceStore, answering, claims
<1> QED
  BY <1>3, <1>11, <1>12

(* The requests. *)
LEMMA TypeRequests ==
  ASSUME TypeOK, Links, NEW r \in Requests,
         \/ PostAuth(r) \/ ClaimNonce(r) \/ MintSession(r) \/ FeedMiniAppData(r)
         \/ \E knows \in BOOLEAN : ResolveRoomAuth(r, knows)
         \/ \E i \in 1..MaxRequests : PostData(r, i)
  PROVE  TypeOK' /\ Links'
<1> DEFINE done == [NoReq EXCEPT !.pc = "done"]
<1>0. /\ sessions \in Seq(Session(Len(launched))) /\ nonces \in Seq(Entry) /\ Len(sessions) \in Nat
      /\ req[r] \in Request /\ membership \in {"join", "leave"} /\ req \in [Requests -> Request]
  BY DEF TypeOK
<1>1. CASE PostAuth(r)
  <2> DEFINE l == page.launch
             new(s) == [pc |-> s, launch |-> l, seen |-> "none", member |-> membership = "join"]
  <2>1. l \in 1..Len(launched) /\ l \in Nat
    <3>1. page \in Page(Len(launched)) /\ Len(launched) \in Nat
      BY Numbers DEF TypeOK
    <3> QED
      BY <1>1, <3>1 DEF PostAuth, Page
  <2>2. UNCHANGED <<setup, now, restarts, membership, launched, page, sessions, fed, queries, answering>>
    BY <1>1 DEF PostAuth
  <2>3. PICK x \in {done, new("claiming"), new("gating")} :
          req' = [req EXCEPT ![r] = x] /\ (UNCHANGED nonces \/ RecordNonce(l))
    BY <1>1 DEF PostAuth, Begin, Finish, nonceStore
  <2>4. nonces' \in Seq(Entry)
    BY <1>0, <2>1, <2>3, RecordFacts
  <2>5. /\ x \in Request /\ x.pc # "refreshing"
        /\ x.pc \in {"claiming", "gating"} => x.launch = l
    <3>1. done \in Request /\ done.pc = "done"
      BY ReqMoves
    <3>2. new("claiming") \in Request /\ new("gating") \in Request
      BY <2>1, ReqMoves
    <3>3. new("claiming").pc = "claiming" /\ new("gating").pc = "gating" /\ new("claiming").launch = l /\ new("gating").launch = l
      OBVIOUS
    <3> HIDE DEF done, new
    <3> QED
      BY <3>1, <3>2, <3>3
  <2> HIDE DEF l, new, done
  <2>6. Len(sessions') >= Len(sessions) /\ sessions' \in Seq(Session(Len(launched))) /\ fed' \subseteq fed \cup 1..Len(sessions)
    BY <1>0, <2>2
  <2> QED
    BY <2>1, <2>2, <2>3, <2>4, <2>5, <2>6, ReqType
<1>2. CASE ClaimNonce(r)
  <2> DEFINE l == req[r].launch
             new == [req[r] EXCEPT !.pc = "gating"]
  <2>1. l \in 1..Len(launched) /\ l \in Nat
    BY <1>0, <1>2, Numbers DEF ClaimNonce, Links
  <2>2. UNCHANGED <<setup, now, restarts, membership, launched, page, sessions, fed, queries, answering>>
    BY <1>2 DEF ClaimNonce
  <2>3. PICK x \in {done, new} : req' = [req EXCEPT ![r] = x] /\ (UNCHANGED nonces \/ RecordNonce(l))
    BY <1>0, <1>2 DEF ClaimNonce, Goto, Finish, nonceStore
  <2>4. nonces' \in Seq(Entry)
    BY <1>0, <2>1, <2>3, RecordFacts
  <2>5. x \in Request /\ x.pc # "refreshing" /\ (x.pc \in {"claiming", "gating"} => x.launch = l)
    <3>1. done \in Request /\ done.pc = "done"
      BY ReqMoves
    <3>2. new \in Request /\ new.pc = "gating" /\ new.launch = l
      BY ReqMoves
    <3> HIDE DEF done, new
    <3> QED
      BY <3>1, <3>2
  <2> HIDE DEF l, new, done
  <2>6. Len(sessions') >= Len(sessions) /\ sessions' \in Seq(Session(Len(launched))) /\ fed' \subseteq fed \cup 1..Len(sessions)
    BY <1>0, <2>2
  <2> QED
    BY <2>1, <2>2, <2>3, <2>4, <2>5, <2>6, ReqType
<1>3. CASE MintSession(r)
  <2> DEFINE l == req[r].launch
             new == [launch |-> l, snap |-> launched[l].snap, exp |-> (now \div Second + SessionTtl) * Second]
  <2>1. l \in 1..Len(launched) /\ l \in Nat
    BY <1>0, <1>3, Numbers DEF MintSession, Links
  <2>2. UNCHANGED <<setup, now, restarts, membership, launched, page, nonces, fed, queries, answering>>
    BY <1>3 DEF MintSession, nonceStore
  <2>3. req' = [req EXCEPT ![r] = done] /\ (sessions' = sessions \/ sessions' = Append(sessions, new))
    BY <1>3 DEF MintSession, Finish
  <2>4. new \in Session(Len(launched))
    <3>0. now \in Nat /\ Second \in Nat \ {0} /\ SessionTtl \in Nat /\ launched[l].snap \in {"join", "leave"}
      BY <2>1, Numbers
    <3>1. now \div Second \in Nat
      BY <3>0, Seconds
    <3>2. now \div Second + SessionTtl \in Nat
      BY <3>0, <3>1
    <3>3. (now \div Second + SessionTtl) * Second \in Nat
      <4>1. \A t, n \in Nat : t * n \in Nat
        OBVIOUS
      <4> QED
        BY <3>0, <3>2, <4>1
    <3> QED
      BY <2>1, <3>0, <3>3 DEF Session
  <2>5. done \in Request /\ done.pc = "done"
    BY ReqMoves
  <2> HIDE DEF new, l, done
  <2>6. Len(sessions') >= Len(sessions) /\ sessions' \in Seq(Session(Len(launched))) /\ fed' \subseteq fed \cup 1..Len(sessions)
    <3>1. CASE sessions' = Append(sessions, new)
      <4>1. sessions' \in Seq(Session(Len(launched))) /\ Len(sessions') = Len(sessions) + 1
        BY <1>0, <2>4, <3>1, AppendProperties
      <4> QED
        BY <1>0, <2>2, <4>1
    <3> QED
      BY <1>0, <2>2, <2>3, <3>1
  <2>7. nonces' \in Seq(Entry)
    BY <1>0, <2>2
  <2> QED
    BY <2>2, <2>3, <2>5, <2>6, <2>7, ReqType
<1>4. ASSUME NEW knows \in BOOLEAN, ResolveRoomAuth(r, knows) PROVE TypeOK' /\ Links'
  <2> DEFINE s == IF knows THEN membership ELSE "unknown"
             x == [req[r] EXCEPT !.seen = s]
  <2>1. UNCHANGED <<setup, now, restarts, membership, launched, page, nonceStore, sessions, fed, queries, answering>>
    BY <1>4 DEF ResolveRoomAuth
  <2>2. req' = [req EXCEPT ![r] = x]
    BY <1>0, <1>4 DEF ResolveRoomAuth
  <2>3. s \in {"none", "unknown", "join", "leave"}
    BY <1>0
  <2> HIDE DEF s
  <2>4. x \in Request /\ x.pc = req[r].pc /\ x.launch = req[r].launch
    BY <1>0, <2>3 DEF Request
  <2> HIDE DEF x
  <2>5. /\ Len(sessions') >= Len(sessions) /\ sessions' \in Seq(Session(Len(launched)))
        /\ fed' \subseteq fed \cup 1..Len(sessions) /\ nonces' \in Seq(Entry)
    BY <1>0, <2>1 DEF nonceStore
  <2>6. /\ x.pc \in {"claiming", "gating"} => x.launch \in 1..Len(launched)
        /\ x.pc = "refreshing" => x.launch \in 1..Len(sessions)
    BY <2>4 DEF Links
  <2> QED
    BY <2>1, <2>2, <2>4, <2>5, <2>6, ReqType
<1>5. ASSUME NEW i \in 1..MaxRequests, PostData(r, i) PROVE TypeOK' /\ Links'
  <2> DEFINE new == [pc |-> "refreshing", launch |-> i, seen |-> "none", member |-> membership = "join"]
  <2>1. UNCHANGED <<setup, now, restarts, membership, launched, page, nonceStore, sessions, fed, queries, answering>>
    BY <1>5 DEF PostData
  <2>2. PICK x \in {done, new} : req' = [req EXCEPT ![r] = x]
    BY <1>5 DEF PostData, Begin, Finish
  <2>3. i \in 1..Len(sessions) /\ i \in Nat
    BY <1>0, <1>5 DEF PostData
  <2>4. x \in Request /\ x.pc \notin {"claiming", "gating"} /\ (x.pc = "refreshing" => x.launch = i)
    <3>1. done \in Request /\ done.pc = "done"
      BY ReqMoves
    <3>2. new \in Request
      BY <2>3, ReqMoves
    <3>3. new.pc = "refreshing" /\ new.launch = i
      OBVIOUS
    <3> HIDE DEF done, new
    <3> QED
      BY <3>1, <3>2, <3>3
  <2> HIDE DEF done, new
  <2>5. /\ Len(sessions') >= Len(sessions) /\ sessions' \in Seq(Session(Len(launched)))
        /\ fed' \subseteq fed \cup 1..Len(sessions) /\ nonces' \in Seq(Entry)
    BY <1>0, <2>1 DEF nonceStore
  <2> QED
    BY <2>1, <2>2, <2>3, <2>4, <2>5, ReqType
<1>6. CASE FeedMiniAppData(r)
  <2>1. UNCHANGED <<setup, now, restarts, membership, launched, page, nonceStore, sessions, queries, answering>>
    BY <1>6 DEF FeedMiniAppData
  <2>2. req' = [req EXCEPT ![r] = done] /\ (fed' = fed \/ fed' = fed \cup {req[r].launch})
    BY <1>6 DEF FeedMiniAppData, Finish
  <2>3. req[r].launch \in 1..Len(sessions)
    BY <1>6 DEF FeedMiniAppData, Links
  <2>4. done \in Request /\ done.pc = "done"
    BY ReqMoves
  <2> HIDE DEF done
  <2>5. /\ Len(sessions') >= Len(sessions) /\ sessions' \in Seq(Session(Len(launched)))
        /\ fed' \subseteq fed \cup 1..Len(sessions) /\ nonces' \in Seq(Entry)
    BY <1>0, <2>1, <2>2, <2>3 DEF nonceStore
  <2> QED
    BY <2>1, <2>2, <2>4, <2>5, ReqType
<1> QED
  BY <1>1, <1>2, <1>3, <1>4, <1>5, <1>6

(* The claims of a query are kept until it expires. *)
LEMMA MarkFacts ==
  ASSUME TypeOK, NEW q \in 1..Len(launched), Mark(q), claimed \in Seq(Timed)
  PROVE  /\ claimed' \in Seq(Timed)
         /\ \E i \in 1..Len(claimed') : claimed'[i].key = q
         /\ forgotten \subseteq forgotten'
         /\ \A k : (\E i \in 1..Len(claimed) : claimed[i].key = k) /\ k # q /\ k \notin forgotten' /\ launched[k].expQ > now
              => \E i \in 1..Len(claimed') : claimed'[i].key = k
<1> DEFINE x == launched[q].expQ
<1>0. now \in Nat /\ x \in Nat /\ q \in Launches /\ \A l \in 1..Len(launched) : launched[l].expQ \in Nat
  BY Numbers
<1>1. UsedCapacity \in Nat \ {0}
  BY MiniAppBounds
<1>2. [key |-> q, exp |-> x] \in Timed
  BY <1>0 DEF Timed, Entry
<1>3. \/ claimed' = SetKey(claimed, q, x, now) /\ forgotten' = forgotten
      \/ /\ claimed' = AddKey(claimed, q, x, now, UsedCapacity)
         /\ forgotten' = forgotten \cup Evicted(claimed, q, now, UsedCapacity)
  BY DEF Mark
<1> HIDE DEF x
<1>4. /\ claimed' \in Seq(Timed)
      /\ HasEntry(claimed', [key |-> q, exp |-> x])
      /\ forgotten \subseteq forgotten'
      /\ \A e : HasEntry(claimed, e) /\ e.exp > now /\ e.key # q /\ e.key \notin forgotten' => HasEntry(claimed', e)
  <2>1. CASE claimed' = SetKey(claimed, q, x, now) /\ forgotten' = forgotten
    BY <1>2, <2>1, SetKeyFacts
  <2>2. CASE /\ claimed' = AddKey(claimed, q, x, now, UsedCapacity)
             /\ forgotten' = forgotten \cup Evicted(claimed, q, now, UsedCapacity)
    BY <1>1, <1>2, <2>2, AddKeyFacts
  <2> QED
    BY <1>3, <2>1, <2>2
<1>5. ASSUME NEW k, NEW i \in 1..Len(claimed), claimed[i].key = k, k # q, k \notin forgotten', launched[k].expQ > now
      PROVE  \E j \in 1..Len(claimed') : claimed'[j].key = k
  <2>1. claimed[i] \in Timed
    OBVIOUS
  <2>2. claimed[i].exp \in Nat /\ claimed[i].exp >= launched[k].expQ /\ k \in 1..Len(launched)
    BY <1>5, <2>1 DEF Timed, Entry
  <2>3. claimed[i].exp > now
    BY <1>0, <1>5, <2>2
  <2>4. HasEntry(claimed', claimed[i])
    BY <1>3, <1>4, <1>5, <2>3 DEF HasEntry
  <2> QED
    BY <1>5, <2>4 DEF HasEntry
<1>6. \E i \in 1..Len(claimed') : claimed'[i].key = q
  BY <1>4 DEF HasEntry
<1> QED
  BY <1>3, <1>4, <1>5, <1>6

(* Rounded up to whole seconds, a time is no shorter. *)
LEMMA RoundUp ==
  ASSUME NEW t \in Nat, NEW n \in Nat \ {0}
  PROVE  ((t + n - 1) \div n) * n \in Nat /\ ((t + n - 1) \div n) * n >= t
<1> DEFINE d == (t + n - 1) \div n
           m == (t + n - 1) % n
<1>1. t + n - 1 \in Nat
  OBVIOUS
<1>2. d \in Nat /\ m \in 0..(n - 1) /\ t + n - 1 = n * d + m
  BY <1>1
<1>3. n * d = d * n /\ d * n \in Nat
  BY <1>2
<1> HIDE DEF d, m
<1>4. d * n >= t
  BY <1>2, <1>3
<1> QED
  BY <1>3, <1>4 DEF d

(* The claims in Redis. *)
LEMMA TryAddFacts ==
  ASSUME TypeOK, NEW a \in Answerers, NEW q \in 1..Len(launched), NEW x \in Nat, x >= launched[q].expQ,
         claimedNX \in Seq(Timed), TryAdd(a, q, x)
  PROVE  /\ claimedNX' \in Seq(Timed)
         /\ forgotten \subseteq forgotten'
         /\ \/ AnsFinish(a) /\ UNCHANGED <<claimedNX, forgotten>>
            \/ /\ AnsGoto(a, "sending", q, 0)
               /\ ~HasKey(claimedNX, q, now)
               /\ q \notin forgotten' => launched[q].expQ > now
               /\ \E i \in 1..Len(claimedNX') : claimedNX'[i].key = q
               /\ \A k : (\E i \in 1..Len(claimedNX) : claimedNX[i].key = k) /\ k # q /\ launched[k].expQ > now
                    => \E i \in 1..Len(claimedNX') : claimedNX'[i].key = k
<1>0. now \in Nat /\ q \in Launches /\ \A l \in 1..Len(launched) : launched[l].expQ \in Nat
  BY Numbers
<1>1. CASE HasKey(claimedNX, q, now)
  BY <1>1 DEF TryAdd
<1>2. CASE ~HasKey(claimedNX, q, now)
  <2>1. /\ AnsGoto(a, "sending", q, 0)
        /\ claimedNX' = SetKey(claimedNX, q, x, now)
        /\ forgotten' = IF QueryInTime(q) THEN forgotten ELSE forgotten \cup {q}
    BY <1>2 DEF TryAdd
  <2>2. [key |-> q, exp |-> x] \in Timed
    BY <1>0 DEF Timed, Entry
  <2>3. /\ claimedNX' \in Seq(Timed)
        /\ HasEntry(claimedNX', [key |-> q, exp |-> x])
        /\ \A e : HasEntry(claimedNX, e) /\ e.exp > now /\ e.key # q => HasEntry(claimedNX', e)
    BY <2>1, <2>2, SetKeyFacts
  <2>4. ASSUME NEW k, NEW i \in 1..Len(claimedNX), claimedNX[i].key = k, k # q, launched[k].expQ > now
        PROVE  \E j \in 1..Len(claimedNX') : claimedNX'[j].key = k
    <3>1. claimedNX[i] \in Timed
      OBVIOUS
    <3>2. claimedNX[i].exp \in Nat /\ claimedNX[i].exp >= launched[k].expQ /\ k \in 1..Len(launched)
      BY <2>4, <3>1 DEF Timed, Entry
    <3>3. claimedNX[i].exp > now
      BY <1>0, <2>4, <3>2
    <3>4. HasEntry(claimedNX', claimedNX[i])
      BY <2>3, <2>4, <3>3 DEF HasEntry
    <3> QED
      BY <2>4, <3>4 DEF HasEntry
  <2>5. \E i \in 1..Len(claimedNX') : claimedNX'[i].key = q
    BY <2>3 DEF HasEntry
  <2>6. forgotten \subseteq forgotten' /\ (q \notin forgotten' => launched[q].expQ > now)
    BY <2>1 DEF QueryInTime
  <2> QED
    BY <1>2, <2>1, <2>3, <2>4, <2>5, <2>6
<1> QED
  BY <1>1, <1>2

(* The time a claim in Redis is kept. *)
LEMMA ClaimTime ==
  ASSUME TypeOK, Links, ClaimsApart, NEW a \in Answerers, ClaimAsync(a)
  PROVE  \E q \in 1..Len(launched), x \in Nat : q = ans[a].query /\ x >= launched[q].expQ /\ TryAdd(a, q, x)
<1> DEFINE q == ans[a].query
           t == ans[a].ttl
           up == ((t + Second - 1) \div Second) * Second
<1>1. q \in 1..Len(launched) /\ now + t >= launched[q].expQ
  BY DEF ClaimAsync, Links, ClaimsApart
<1>2. t \in Nat /\ now \in Nat /\ Second \in Nat \ {0} /\ launched[q].expQ \in Nat
  BY <1>1, Numbers DEF TypeOK, Answer
<1>3. up \in Nat /\ up >= t
  BY <1>2, RoundUp
<1>4. TryAdd(a, q, now + up)
  BY DEF ClaimAsync
<1> HIDE DEF up, t
<1>5. now + up \in Nat /\ now + up >= launched[q].expQ
  BY <1>1, <1>2, <1>3
<1> QED
  BY <1>1, <1>4, <1>5

(* The answers. *)
LEMMA TypeAnswers ==
  ASSUME TypeOK, Links, ClaimsApart, NEW a \in Answerers,
         \/ \E s \in 1..MaxRequests : AnswerQuery(a, s)
         \/ ClaimAsync(a) \/ AnswerSent(a)
         \/ \E taken, queued \in BOOLEAN : AnswerFails(a, taken, queued)
  PROVE  TypeOK' /\ Links'
<1> DEFINE done == [NoAns EXCEPT !.pc = "done"]
           rec(s, q, t) == [pc |-> s, query |-> q, ttl |-> t]
<1>0. /\ claimed \in Seq(Entry) /\ disk \in Seq(Entry) /\ claimedNX \in Seq(Entry) /\ outbox \in Seq(Launches)
      /\ posted \in [Launches -> Nat] /\ now \in Nat /\ 1..Len(launched) \subseteq Launches
      /\ Seq(Timed) \subseteq Seq(Entry) /\ claimed \in Seq(Timed) /\ claimedNX \in Seq(Timed)
  <2>1. Timed \subseteq Entry
    BY DEF Timed
  <2>2. /\ claimed \in Seq(Entry) /\ disk \in Seq(Entry) /\ claimedNX \in Seq(Entry) /\ outbox \in Seq(Launches)
        /\ posted \in [Launches -> Nat]
    BY DEF TypeOK
  <2>3. claimed \in Seq(Timed) /\ claimedNX \in Seq(Timed)
    BY DEF ClaimsApart
  <2> QED
    BY <2>1, <2>2, <2>3, Numbers
<1>1. done \in Answer(Len(launched)) /\ done.pc = "done"
  BY AnsRecords
<1>2. ASSUME NEW s \in 1..MaxRequests, AnswerQuery(a, s) PROVE TypeOK' /\ Links'
  <2> DEFINE q == sessions[s].launch
             t == launched[q].expQ - now
             new == rec("claiming", q, t)
             new2 == rec("sending", q, 0)
  <2>1. UNCHANGED <<setup, now, restarts, membership, launched, page, http, queries, disk, claimedNX, outbox, posted>>
    BY <1>2 DEF AnswerQuery
  <2>2. q \in 1..Len(launched)
    <3>1. s \in 1..Len(sessions) /\ sessions \in Seq(Session(Len(launched)))
      BY <1>2 DEF AnswerQuery, Links, TypeOK
    <3>2. sessions[s] \in Session(Len(launched))
      BY <3>1
    <3> QED
      BY <3>2 DEF Session
  <2>3. \/ ans' = [ans EXCEPT ![a] = done] /\ claimed' = claimed
        \/ QueryInTime(q) /\ ans' = [ans EXCEPT ![a] = new] /\ claimed' = claimed
        \/ ans' = [ans EXCEPT ![a] = new2] /\ Mark(q)
    BY <1>2 DEF AnswerQuery, AnsFinish, AnsGoto, Claimable
  <2>4. QueryInTime(q) => new \in Answer(Len(launched))
    <3>1. launched[q].expQ \in Nat
      BY <2>2, Numbers
    <3>2. QueryInTime(q) => t \in Nat
      BY <1>0, <3>1 DEF QueryInTime
    <3> QED
      BY <2>2, <3>2, AnsRecords
  <2>5. new2 \in Answer(Len(launched)) /\ new.query = q /\ new2.query = q
    BY <2>2, AnsRecords
  <2>6. claimed' \in Seq(Entry)
    BY <1>0, <2>2, <2>3, MarkFacts
  <2>7. PICK x \in Answer(Len(launched)) : ans' = [ans EXCEPT ![a] = x] /\ (x.pc \in {"claiming", "sending"} => x.query = q)
    <3> HIDE DEF new, new2, done, q
    <3> QED
      BY <1>1, <2>3, <2>4, <2>5
  <2> HIDE DEF q
  <2>8. disk' \in Seq(Entry) /\ claimedNX' \in Seq(Entry) /\ outbox' \in Seq(Launches) /\ posted' \in [Launches -> Nat]
    BY <1>0, <2>1
  <2> QED
    BY <2>1, <2>2, <2>6, <2>7, <2>8, AnsType
<1>3. CASE ClaimAsync(a)
  <2>1. PICK q \in 1..Len(launched), x \in Nat : q = ans[a].query /\ x >= launched[q].expQ /\ TryAdd(a, q, x)
    BY <1>3, ClaimTime
  <2>2. UNCHANGED <<setup, now, restarts, membership, launched, page, http, queries, claimed, disk, outbox, posted>>
    BY <1>3 DEF ClaimAsync
  <2>3. claimedNX' \in Seq(Timed) /\ (AnsFinish(a) \/ AnsGoto(a, "sending", q, 0))
    BY <1>0, <2>1, TryAddFacts
  <2>4. rec("sending", q, 0) \in Answer(Len(launched)) /\ rec("sending", q, 0).query = q
    BY AnsRecords
  <2>5. PICK y \in Answer(Len(launched)) : ans' = [ans EXCEPT ![a] = y] /\ (y.pc \in {"claiming", "sending"} => y.query = q)
    <3>1. ans' = [ans EXCEPT ![a] = done] \/ ans' = [ans EXCEPT ![a] = rec("sending", q, 0)]
      BY <2>3 DEF AnsFinish, AnsGoto
    <3> HIDE DEF done, rec
    <3> QED
      BY <1>1, <2>4, <3>1
  <2>6. /\ claimed' \in Seq(Entry) /\ disk' \in Seq(Entry) /\ claimedNX' \in Seq(Entry)
        /\ outbox' \in Seq(Launches) /\ posted' \in [Launches -> Nat]
    BY <1>0, <2>2, <2>3
  <2> QED
    BY <2>2, <2>5, <2>6, AnsType
<1>4. CASE AnswerSent(a)
  <2>1. ans[a].query \in Launches
    BY <1>0, <1>4 DEF AnswerSent, Links
  <2>2. posted' \in [Launches -> Nat]
    BY <1>0, <1>4, <2>1 DEF AnswerSent
  <2>3. ans' = [ans EXCEPT ![a] = done]
    BY <1>4 DEF AnswerSent, AnsFinish
  <2>4. UNCHANGED <<setup, now, restarts, membership, launched, page, http, queries, claimed, disk, claimedNX, outbox>>
    BY <1>4 DEF AnswerSent, claims
  <2> HIDE DEF done
  <2> QED
    BY <1>0, <1>1, <2>2, <2>3, <2>4, AnsType
<1>5. ASSUME NEW taken \in BOOLEAN, NEW queued \in BOOLEAN, AnswerFails(a, taken, queued) PROVE TypeOK' /\ Links'
  <2>1. ans[a].query \in Launches
    BY <1>0, <1>5 DEF AnswerFails, Links
  <2>2. posted' \in [Launches -> Nat]
    BY <1>0, <1>5, <2>1 DEF AnswerFails
  <2>3. ans' = [ans EXCEPT ![a] = done]
    BY <1>5 DEF AnswerFails, AnsFinish
  <2>4. UNCHANGED <<setup, now, restarts, membership, launched, page, http, queries, disk, claimedNX>>
    BY <1>5 DEF AnswerFails
  <2>5. claimed' \in Seq(Entry)
    BY <1>0, <1>5, WithoutKeyFacts DEF AnswerFails, ReleaseQuery
  <2>6. outbox' \in Seq(Launches)
    BY <1>0, <1>5, <2>1 DEF AnswerFails
  <2> HIDE DEF done
  <2> QED
    BY <1>0, <1>1, <2>2, <2>3, <2>4, <2>5, <2>6, AnsType
<1> QED
  BY <1>2, <1>3, <1>4, <1>5

(* A restart ends what was under way. *)
LEMMA RestartFacts ==
  ASSUME TypeOK, Links, NEW taken \in SUBSET Answerers, Restart(taken)
  PROVE  /\ TypeOK' /\ Links'
         /\ \A r \in Requests : req'[r].pc \in {"idle", "done"} /\ (req'[r].seen = "none" \/ req'[r] = req[r])
         /\ \A a \in Answerers : ans'[a].pc \in {"idle", "done"} \/ (ans[a].pc = "idle" /\ ans'[a] = ans[a])
         /\ \A a \in Answerers : ans'[a].pc \notin {"claiming", "sending"}
         /\ IsFiniteSet(taken)
<1>0. /\ restarts \in Nat /\ req \in [Requests -> Request] /\ nonces \in Seq(Entry) /\ disk \in Seq(Entry)
      /\ ans \in [Answerers -> Answer(Len(launched))] /\ posted \in [Launches -> Nat]
  BY DEF TypeOK
<1>1. NoReq.pc = "idle" /\ [NoReq EXCEPT !.pc = "done"] \in Request /\ [NoReq EXCEPT !.pc = "done"].pc = "done" /\ [NoReq EXCEPT !.pc = "done"].seen = "none"
  BY DEF NoReq, Request
<1>2. [NoAns EXCEPT !.pc = "done"] \in Answer(Len(launched)) /\ [NoAns EXCEPT !.pc = "done"].pc = "done"
  BY AnsRecords
<1>3. /\ req' = [r \in Requests |-> IF req[r].pc = "idle" THEN req[r] ELSE [NoReq EXCEPT !.pc = "done"]]
      /\ ans' = [a \in Answerers |-> IF ans[a].pc = "idle" THEN ans[a] ELSE [NoAns EXCEPT !.pc = "done"]]
      /\ posted' = [q \in Launches |-> posted[q] + Cardinality({a \in taken : ans[a].query = q})]
      /\ restarts' = restarts + 1 /\ queries' = << >>
      /\ claimed' = Unexpired(disk, now) /\ disk' = Unexpired(disk, now)
      /\ nonces' = IF setup.nonces = "memory" THEN << >> ELSE nonces
      /\ UNCHANGED <<setup, now, membership, launched, page, sessions, fed, claimedNX, outbox>>
  BY Zenon DEF Restart
<1>4. /\ req' \in [Requests -> Request]
      /\ \A r \in Requests : req'[r].pc \in {"idle", "done"} /\ (req'[r].seen = "none" \/ req'[r] = req[r])
  <2> DEFINE done == [NoReq EXCEPT !.pc = "done"]
  <2>1. ASSUME NEW r \in Requests PROVE req'[r] = IF req[r].pc = "idle" THEN req[r] ELSE done
    BY <1>3
  <2> HIDE DEF done
  <2>2. done \in Request /\ done.pc = "done" /\ done.seen = "none"
    BY <1>1 DEF done
  <2> QED
    BY <1>0, <1>3, <2>1, <2>2 DEF done
<1>5. /\ ans' \in [Answerers -> Answer(Len(launched))]
      /\ \A a \in Answerers : ans'[a].pc \in {"idle", "done"} \/ (ans[a].pc = "idle" /\ ans'[a] = ans[a])
      /\ \A a \in Answerers : ans'[a].pc \notin {"claiming", "sending"}
  <2> DEFINE done == [NoAns EXCEPT !.pc = "done"]
  <2>1. ASSUME NEW a \in Answerers PROVE ans'[a] = IF ans[a].pc = "idle" THEN ans[a] ELSE done
    BY <1>3
  <2> HIDE DEF done
  <2>2. done \in Answer(Len(launched)) /\ done.pc = "done"
    BY <1>2 DEF done
  <2> QED
    BY <1>0, <1>3, <2>1, <2>2 DEF done
<1>6. IsFiniteSet(taken)
  BY MiniAppBounds, FS_Subset
<1>7. posted' \in [Launches -> Nat]
  <2>1. ASSUME NEW q \in Launches PROVE posted[q] + Cardinality({a \in taken : ans[a].query = q}) \in Nat
    <3>1. IsFiniteSet({a \in taken : ans[a].query = q})
      BY <1>6, FS_Subset
    <3>2. Cardinality({a \in taken : ans[a].query = q}) \in Nat
      BY <3>1, FS_CardinalityType
    <3> QED
      BY <1>0, <3>2
  <2> QED
    BY <1>3, <2>1
<1>8. Unexpired(disk, now) \in Seq(Entry)
  BY <1>0, UnexpiredFacts
<1>9. nonces' \in Seq(Entry) /\ queries' \in Seq(Launches) /\ restarts' \in Nat
  BY <1>0, <1>3
<1>10. TypeOK'
  BY <1>3, <1>4, <1>5, <1>7, <1>8, <1>9 DEF TypeOK
<1>11. Links'
  BY <1>3, <1>4, <1>5 DEF Links
<1> QED
  BY <1>4, <1>5, <1>6, <1>10, <1>11

LEMMA TypeHolds ==
  ASSUME TypeOK, Links, ClaimsApart, Next
  PROVE  TypeOK' /\ Links'
<1>1. ASSUME NEW r \in Requests,
             \/ PostAuth(r) \/ ClaimNonce(r) \/ MintSession(r) \/ FeedMiniAppData(r)
             \/ \E knows \in BOOLEAN : ResolveRoomAuth(r, knows)
             \/ \E i \in 1..MaxRequests : PostData(r, i)
      PROVE  TypeOK' /\ Links'
  BY <1>1, TypeRequests
<1>2. ASSUME NEW a \in Answerers,
             \/ \E s \in 1..MaxRequests : AnswerQuery(a, s)
             \/ ClaimAsync(a) \/ AnswerSent(a)
             \/ \E taken, queued \in BOOLEAN : AnswerFails(a, taken, queued)
      PROVE  TypeOK' /\ Links'
  BY <1>2, TypeAnswers
<1>3. CASE \/ Tick \/ Leaves \/ SendData \/ WriteClaims \/ FlushOutbox
           \/ \E l \in Launches : BridgeLoads(l)
           \/ \E source \in {"hostWindow", "otherWindow"}, origin \in Origins, fresh \in BOOLEAN :
                BridgeMessage(source, origin, fresh)
  BY <1>3, TypeQuiet
<1>4. CASE CreateMiniAppLaunch
  BY <1>4, TypeLaunch
<1>5. CASE \E taken \in SUBSET Answerers : Restart(taken)
  BY <1>5, RestartFacts
<1> QED
  BY <1>1, <1>2, <1>3, <1>4, <1>5 DEF Next

-----------------------------------------------------------------------------
(* A launch is traded once. *)

(* A step that leaves the launch alone. *)
LEMMA TradeQuiet ==
  ASSUME TypeOK, NEW k \in 1..Len(launched), Traded(k), now' \in Nat, now' >= now, launched'[k] = launched[k],
         evicted \subseteq evicted', untimely \subseteq untimely', sessions' = sessions,
         \A r \in Requests : Gating(r, k)' => Gating(r, k),
         Spent(k) => Spent(k)' \/ OutOfDate(k) \/ k \in evicted'
  PROVE  Traded(k)'
<1>1. OutOfDate(k) => OutOfDate(k)'
  <2>1. now \in Nat /\ Until(k) \in Nat
    BY Numbers
  <2>2. Until(k)' = Until(k)
    BY DEF Until
  <2> QED
    BY <2>1, <2>2 DEF OutOfDate
<1>2. Holding(k)' => Holding(k)
  BY DEF Holding, OfLaunch
<1> QED
  BY <1>1, <1>2 DEF Traded, OfLaunch

(* ... or that leaves all of them alone. *)
LEMMA TradeStill ==
  ASSUME TypeOK, TradedOnce, now' \in Nat, now' >= now,
         UNCHANGED <<setup, launched, nonces, evicted, untimely, sessions>>,
         \A r \in Requests : req'[r].pc = "gating" => req[r].pc = "gating" /\ req'[r].launch = req[r].launch
  PROVE  TradedOnce'
<1> SUFFICES ASSUME setup.nonceTtl >= InitTtl, NEW k \in 1..Len(launched) PROVE Traded(k)'
  BY DEF TradedOnce
<1>1. Traded(k)
  BY DEF TradedOnce
<1>2. \A r \in Requests : Gating(r, k)' => Gating(r, k)
  BY DEF Gating
<1>3. Spent(k) => Spent(k)'
  BY DEF Spent, Until
<1> QED
  BY <1>1, <1>2, <1>3, TradeQuiet

(* A nonce on record whose launch is in date is seen. *)
LEMMA SpentSeen ==
  ASSUME TypeOK, NEW k \in 1..Len(launched), Spent(k), ~OutOfDate(k)
  PROVE  NonceSeen(k) /\ \E e : HasEntry(nonces, e) /\ e.key = k /\ e.exp > now /\ e.exp >= Until(k)
<1>1. now \in Nat /\ Until(k) \in Nat /\ nonces \in Seq(Entry)
  BY Numbers DEF TypeOK
<1>2. PICK i \in 1..Len(nonces) : nonces[i].key = k /\ nonces[i].exp >= Until(k)
  BY DEF Spent
<1>3. nonces[i].exp \in Nat /\ i \in DOMAIN nonces /\ HasEntry(nonces, nonces[i])
  <2>1. nonces[i] \in Entry /\ i \in DOMAIN nonces
    BY <1>1
  <2> QED
    BY <2>1 DEF Entry, HasEntry
<1>4. nonces[i].exp > now
  BY <1>1, <1>2, <1>3 DEF OutOfDate
<1> QED
  BY <1>2, <1>3, <1>4 DEF NonceSeen, HasKey

(* A nonce is recorded that was not on record. *)
LEMMA TradeRecord ==
  ASSUME TypeOK, TypeOK', TradedOnce, NEW r \in Requests, NEW l \in 1..Len(launched), req[r].pc # "gating",
         ~NonceSeen(l), RecordNonce(l), UNCHANGED <<setup, launched, now, sessions>>,
         \A q \in Requests : (q # r => req'[q] = req[q]) /\ (q = r => req'[q].pc = "gating" /\ req'[q].launch = l)
  PROVE  TradedOnce'
<1> SUFFICES ASSUME setup.nonceTtl >= InitTtl, NEW k \in 1..Len(launched) PROVE Traded(k)'
  BY DEF TradedOnce
<1>0. Traded(k)
  BY DEF TradedOnce
<1>1. now \in Nat /\ Until(k) \in Nat /\ Until(k)' = Until(k)
  BY Numbers DEF Until
<1>2. evicted \subseteq evicted' /\ untimely \subseteq untimely'
  BY RecordFacts
<1>3. CASE k # l
  <2>1. \A q \in Requests : Gating(q, k)' => Gating(q, k)
    BY <1>3 DEF Gating
  <2>2. ASSUME Spent(k), ~OutOfDate(k), k \notin evicted' PROVE Spent(k)'
    <3>1. PICK e : HasEntry(nonces, e) /\ e.key = k /\ e.exp > now /\ e.exp >= Until(k)
      BY <2>2, SpentSeen
    <3>2. HasEntry(nonces', e)
      BY <1>3, <2>2, <3>1, RecordFacts
    <3> QED
      BY <1>1, <3>1, <3>2 DEF Spent, HasEntry
  <2>3. now' \in Nat /\ now' >= now /\ launched'[k] = launched[k] /\ sessions' = sessions
    BY <1>1
  <2> QED
    BY <1>0, <1>2, <2>1, <2>2, <2>3, TradeQuiet
<1>4. ASSUME k = l, k \notin evicted' \cup untimely' PROVE Traded(k)'
  <2>1. k \notin evicted \cup untimely
    BY <1>2, <1>4
  <2>2. now < Until(k) /\ \E i \in 1..Len(nonces') : nonces'[i].key = k /\ nonces'[i].exp >= Until(k)
    BY <1>4, RecordFacts
  <2>3. ~OutOfDate(k)
    BY <1>1, <2>2 DEF OutOfDate
  <2>4. ~Spent(k)
    BY <1>4, <2>3, SpentSeen
  <2>5. ~Holding(k)
    BY <1>0, <2>1, <2>3, <2>4 DEF Traded
  <2>6. \A i \in 1..Len(sessions) : ~OfLaunch(i, k)'
    BY <2>5 DEF Holding, OfLaunch
  <2>7. \A q \in Requests : Gating(q, k)' => q = r
    BY <2>5 DEF Holding, Gating
  <2>8. Spent(k)'
    BY <1>1, <2>2 DEF Spent
  <2> QED
    BY <2>6, <2>7, <2>8 DEF Traded
<1> QED
  BY <1>3, <1>4 DEF Traded

(* How Begin, Goto and Finish move a request. *)
LEMMA ReqSteps ==
  ASSUME TypeOK, NEW r \in Requests
  PROVE  /\ \A s, l : Begin(r, s, l) =>
              \A q \in Requests : (q # r => req'[q] = req[q]) /\ (q = r => req'[q].pc = s /\ req'[q].launch = l)
         /\ \A s : Goto(r, s) =>
              \A q \in Requests : (q # r => req'[q] = req[q]) /\ (q = r => req'[q].pc = s /\ req'[q].launch = req[r].launch)
         /\ Finish(r) => \A q \in Requests : (q # r => req'[q] = req[q]) /\ (q = r => req'[q].pc = "done")
<1>1. req \in [Requests -> Request] /\ req[r] \in Request
  BY DEF TypeOK
<1>2. ASSUME NEW s, NEW l, Begin(r, s, l)
      PROVE  \A q \in Requests : (q # r => req'[q] = req[q]) /\ (q = r => req'[q].pc = s /\ req'[q].launch = l)
  BY <1>1, <1>2 DEF Begin
<1>3. ASSUME NEW s, Goto(r, s)
      PROVE  \A q \in Requests : (q # r => req'[q] = req[q]) /\ (q = r => req'[q].pc = s /\ req'[q].launch = req[r].launch)
  BY <1>1, <1>3 DEF Goto, Request
<1>4. ASSUME Finish(r)
      PROVE  \A q \in Requests : (q # r => req'[q] = req[q]) /\ (q = r => req'[q].pc = "done")
  BY <1>1, <1>4 DEF Finish, NoReq
<1> QED
  BY <1>2, <1>3, <1>4

(* A session is minted. *)
LEMMA TradeMint ==
  ASSUME TypeOK, TradedOnce, NEW r \in Requests, MintSession(r)
  PROVE  TradedOnce'
<1> DEFINE l == req[r].launch
           n == Len(sessions)
<1>1. /\ UNCHANGED <<setup, launched, nonces, evicted, untimely, now>> /\ req[r].pc = "gating"
      /\ Finish(r)
  BY DEF MintSession, nonceStore
<1>2. \A q \in Requests : (q # r => req'[q] = req[q]) /\ (q = r => req'[q].pc = "done")
  BY <1>1, ReqSteps
<1>3. CASE sessions' = sessions
  <2>1. now' \in Nat /\ now' >= now
    BY <1>1, Numbers
  <2> QED
    BY <1>1, <1>2, <1>3, <2>1, TradeStill
<1>4. CASE sessions' # sessions
  <2>1. /\ Len(sessions') = n + 1 /\ n \in Nat /\ sessions'[n + 1].launch = l
        /\ \A i \in 1..n : sessions'[i] = sessions[i]
    <3> DEFINE new == [launch |-> l, snap |-> launched[l].snap, exp |-> (now \div Second + SessionTtl) * Second]
    <3>1. sessions' = Append(sessions, new) /\ new.launch = l
      BY <1>4 DEF MintSession
    <3>2. sessions \in Seq(Session(Len(launched)))
      BY DEF TypeOK
    <3> HIDE DEF new, l
    <3> QED
      BY <3>1, <3>2
  <2> SUFFICES ASSUME setup.nonceTtl >= InitTtl, NEW k \in 1..Len(launched), k \notin evicted \cup untimely
               PROVE  Traded(k)'
    BY <1>1 DEF TradedOnce, Traded
  <2>2. Traded(k)
    BY DEF TradedOnce
  <2>3. (Spent(k) => Spent(k)') /\ (OutOfDate(k) => OutOfDate(k)')
    BY <1>1 DEF Spent, OutOfDate, Until
  <2>4. \A q \in Requests : Gating(q, k)' => q # r /\ Gating(q, k)
    BY <1>2 DEF Gating
  <2>5. \A i \in 1..Len(sessions') : OfLaunch(i, k)' => (i \in 1..n /\ OfLaunch(i, k)) \/ (i = n + 1 /\ k = l)
    BY <2>1 DEF OfLaunch
  <2>6. k = l => Gating(r, k)
    BY <1>1 DEF Gating
  <2>7. Holding(k)' => Holding(k)
    BY <2>4, <2>5, <2>6 DEF Holding
  <2> HIDE DEF l, n
  <2>8. /\ \A i, j \in 1..n : OfLaunch(i, k) /\ OfLaunch(j, k) => i = j
        /\ \A q, p \in Requests : Gating(q, k) /\ Gating(p, k) => q = p
        /\ \A i \in 1..n, q \in Requests : ~(OfLaunch(i, k) /\ Gating(q, k))
    BY <2>2 DEF Traded, n
  <2>9. Holding(k)' => Spent(k)' \/ OutOfDate(k)'
    BY <2>2, <2>3, <2>7 DEF Traded
  <2>10. \A i, j \in 1..Len(sessions') : OfLaunch(i, k)' /\ OfLaunch(j, k)' => i = j
    BY <2>5, <2>6, <2>8
  <2>11. \A i \in 1..Len(sessions'), q \in Requests : ~(OfLaunch(i, k)' /\ Gating(q, k)')
    BY <2>4, <2>5, <2>6, <2>8
  <2> QED
    BY <2>4, <2>8, <2>9, <2>10, <2>11 DEF Traded
<1> QED
  BY <1>3, <1>4

(* A launch is made. *)
LEMMA TradeLaunch ==
  ASSUME TypeOK, TradedOnce, Links, CreateMiniAppLaunch
  PROVE  TradedOnce'
<1> DEFINE n == Len(launched)
<1>1. /\ UNCHANGED <<setup, nonces, evicted, untimely, now, sessions, req>>
      /\ Len(launched') = n + 1 /\ \A k \in 1..n : launched'[k] = launched[k]
  BY TypeLaunch DEF CreateMiniAppLaunch, http, nonceStore
<1>2. now \in Nat /\ n \in Nat
  BY Numbers
<1> SUFFICES ASSUME setup.nonceTtl >= InitTtl, NEW k \in 1..(n + 1) PROVE Traded(k)'
  BY <1>1 DEF TradedOnce
<1>3. CASE k \in 1..n
  <2>1. Traded(k)
    BY <1>1, <1>3 DEF TradedOnce
  <2>2. \A r \in Requests : Gating(r, k)' => Gating(r, k)
    BY <1>1 DEF Gating
  <2>3. Spent(k) => Spent(k)'
    BY <1>1, <1>3 DEF Spent, Until
  <2>4. now' \in Nat /\ now' >= now /\ launched'[k] = launched[k] /\ sessions' = sessions
    BY <1>1, <1>2, <1>3
  <2>5. evicted \subseteq evicted' /\ untimely \subseteq untimely' /\ k \in 1..Len(launched)
    BY <1>1, <1>3
  <2> QED
    BY <2>1, <2>2, <2>3, <2>4, <2>5, TradeQuiet
<1>4. CASE k = n + 1
  <2>1. \A i \in 1..Len(sessions) : sessions[i].launch \in 1..n
    <3>1. \A i \in 1..Len(sessions) : sessions[i] \in Session(n)
      BY DEF TypeOK
    <3> QED
      BY <3>1 DEF Session
  <2>2. \A r \in Requests : req[r].pc = "gating" => req[r].launch \in 1..n
    BY DEF Links
  <2>3. \A i \in 1..Len(sessions) : ~OfLaunch(i, k)'
    BY <1>1, <1>2, <1>4, <2>1 DEF OfLaunch
  <2>4. \A r \in Requests : ~Gating(r, k)'
    BY <1>1, <1>2, <1>4, <2>2 DEF Gating
  <2> QED
    BY <1>1, <2>3, <2>4 DEF Traded, Holding
<1> QED
  BY <1>2, <1>3, <1>4

(* The memory store is lost in a restart. *)
LEMMA TradeRestart ==
  ASSUME TypeOK, Links, TradedOnce, NEW taken \in SUBSET Answerers, Restart(taken)
  PROVE  TradedOnce'
<1>1. /\ UNCHANGED <<setup, now, launched, sessions, untimely>>
      /\ nonces' = IF setup.nonces = "memory" THEN << >> ELSE nonces
      /\ evicted' = IF setup.nonces = "memory" THEN evicted \cup {l \in Launches : NonceSeen(l)} ELSE evicted
  BY Zenon DEF Restart
<1> SUFFICES ASSUME setup.nonceTtl >= InitTtl, NEW k \in 1..Len(launched) PROVE Traded(k)'
  BY <1>1 DEF TradedOnce
<1>2. Traded(k)
  BY <1>1 DEF TradedOnce
<1>3. \A r \in Requests : Gating(r, k)' => Gating(r, k)
  BY RestartFacts DEF Gating
<1>4. ASSUME Spent(k), ~OutOfDate(k), k \notin evicted' PROVE Spent(k)'
  <2>1. NonceSeen(k) /\ k \in Launches
    BY <1>4, SpentSeen, Numbers
  <2>2. setup.nonces # "memory"
    BY <1>1, <1>4, <2>1
  <2> QED
    BY <1>1, <1>4, <2>2 DEF Spent, Until
<1>5. now' \in Nat /\ now' >= now
  BY <1>1, Numbers
<1> QED
  BY <1>1, <1>2, <1>3, <1>4, <1>5, TradeQuiet

LEMMA TradeHolds ==
  ASSUME TypeOK, Links, TradedOnce, TypeOK', Next
  PROVE  TradedOnce'
<1>0. now \in Nat /\ req \in [Requests -> Request]
  BY DEF TypeOK
<1>1. CASE Tick
  <2>1. now' \in Nat /\ now' >= now /\ UNCHANGED <<setup, launched, nonces, evicted, untimely, sessions, req>>
    BY <1>0, <1>1 DEF Tick, http, nonceStore
  <2> QED
    BY <2>1, TradeStill
<1>2. ASSUME UNCHANGED <<setup, now, launched, http>> PROVE TradedOnce'
  <2>1. now' \in Nat /\ now' >= now /\ UNCHANGED <<setup, launched, nonces, evicted, untimely, sessions, req>>
    BY <1>0, <1>2 DEF http, nonceStore
  <2> QED
    BY <2>1, TradeStill
<1>3. ASSUME NEW r \in Requests, UNCHANGED <<setup, now, launched, nonces, evicted, untimely, sessions>>,
             \A q \in Requests : (q # r => req'[q] = req[q]) /\ (q = r => req'[q].pc # "gating")
      PROVE  TradedOnce'
  <2>1. now' \in Nat /\ now' >= now
    BY <1>0, <1>3
  <2> QED
    BY <1>3, <2>1, TradeStill
<1>4. ASSUME NEW r \in Requests, PostAuth(r) PROVE TradedOnce'
  <2> DEFINE l == page.launch
  <2>1. l \in 1..Len(launched)
    <3>1. page \in Page(Len(launched)) /\ Len(launched) \in Nat
      BY Numbers DEF TypeOK
    <3> QED
      BY <1>4, <3>1 DEF PostAuth, Page
  <2>2. UNCHANGED <<setup, now, launched, sessions>> /\ req[r].pc # "gating"
    BY <1>4 DEF PostAuth, NextRequest
  <2>3. \/ (Finish(r) \/ Begin(r, "claiming", l)) /\ UNCHANGED <<nonces, evicted, untimely>>
        \/ Begin(r, "gating", l) /\ RecordNonce(l) /\ ~NonceSeen(l)
    BY <1>4 DEF PostAuth, nonceStore
  <2> HIDE DEF l
  <2>4. CASE (Finish(r) \/ Begin(r, "claiming", l)) /\ UNCHANGED <<nonces, evicted, untimely>>
    BY <1>3, <2>2, <2>4, ReqSteps
  <2>5. CASE Begin(r, "gating", l) /\ RecordNonce(l) /\ ~NonceSeen(l)
    BY <2>1, <2>2, <2>5, ReqSteps, TradeRecord
  <2> QED
    BY <2>3, <2>4, <2>5
<1>5. ASSUME NEW r \in Requests, ClaimNonce(r) PROVE TradedOnce'
  <2> DEFINE l == req[r].launch
  <2>1. l \in 1..Len(launched)
    BY <1>0, <1>5 DEF ClaimNonce, Links
  <2>2. UNCHANGED <<setup, now, launched, sessions>> /\ req[r].pc # "gating"
    BY <1>5 DEF ClaimNonce
  <2>3. \/ Finish(r) /\ UNCHANGED <<nonces, evicted, untimely>>
        \/ Goto(r, "gating") /\ RecordNonce(l) /\ ~NonceSeen(l)
    BY <1>5 DEF ClaimNonce, nonceStore
  <2>4. CASE Finish(r) /\ UNCHANGED <<nonces, evicted, untimely>>
    BY <1>3, <2>2, <2>4, ReqSteps
  <2>5. CASE Goto(r, "gating") /\ RecordNonce(l) /\ ~NonceSeen(l)
    <3>1. \A q \in Requests : (q # r => req'[q] = req[q]) /\ (q = r => req'[q].pc = "gating" /\ req'[q].launch = l)
      BY <2>5, ReqSteps
    <3> HIDE DEF l
    <3> QED
      BY <2>1, <2>2, <2>5, <3>1, TradeRecord
  <2> QED
    BY <2>3, <2>4, <2>5
<1>6. ASSUME NEW r \in Requests, NEW s \in 1..MaxRequests, PostData(r, s) PROVE TradedOnce'
  <2>1. UNCHANGED <<setup, now, launched, nonces, evicted, untimely, sessions>> /\ (Finish(r) \/ Begin(r, "refreshing", s))
    BY <1>6 DEF PostData, nonceStore
  <2> QED
    BY <1>3, <2>1, ReqSteps
<1>7. ASSUME NEW r \in Requests, FeedMiniAppData(r) PROVE TradedOnce'
  <2>1. UNCHANGED <<setup, now, launched, nonces, evicted, untimely, sessions>> /\ Finish(r)
    BY <1>7 DEF FeedMiniAppData, nonceStore
  <2> QED
    BY <1>3, <2>1, ReqSteps
<1>8. ASSUME NEW r \in Requests, NEW knows \in BOOLEAN, ResolveRoomAuth(r, knows) PROVE TradedOnce'
  <2>1. UNCHANGED <<setup, now, launched, nonces, evicted, untimely, sessions>>
    BY <1>8 DEF ResolveRoomAuth, nonceStore
  <2>2. \A q \in Requests : req'[q].pc = req[q].pc /\ req'[q].launch = req[q].launch
    BY <1>0, <1>8 DEF ResolveRoomAuth, Request
  <2>3. now' \in Nat /\ now' >= now
    BY <1>0, <2>1
  <2> QED
    BY <2>1, <2>2, <2>3, TradeStill
<1>9. CASE \/ Leaves \/ SendData \/ WriteClaims \/ FlushOutbox \/ \E l \in Launches : BridgeLoads(l)
           \/ \E source \in {"hostWindow", "otherWindow"}, origin \in Origins, fresh \in BOOLEAN :
                BridgeMessage(source, origin, fresh)
  BY <1>2, <1>9 DEF Leaves, SendData, WriteClaims, FlushOutbox, BridgeLoads, BridgeMessage
<1>10. CASE \/ \E a \in Answerers, s \in 1..MaxRequests : AnswerQuery(a, s)
            \/ \E a \in Answerers : ClaimAsync(a) \/ AnswerSent(a)
            \/ \E a \in Answerers, taken, queued \in BOOLEAN : AnswerFails(a, taken, queued)
  BY <1>2, <1>10 DEF AnswerQuery, ClaimAsync, AnswerSent, AnswerFails
<1>11. CASE CreateMiniAppLaunch
  BY <1>11, TradeLaunch
<1>12. ASSUME NEW r \in Requests, MintSession(r) PROVE TradedOnce'
  BY <1>12, TradeMint
<1>13. CASE \E taken \in SUBSET Answerers : Restart(taken)
  BY <1>13, TradeRestart
<1> QED
  BY <1>1, <1>4, <1>5, <1>6, <1>7, <1>8, <1>9, <1>10, <1>11, <1>12, <1>13 DEF Next

-----------------------------------------------------------------------------
(* Whoever passes the gates was a member. *)

LEMMA GateHolds ==
  ASSUME TypeOK, Links, GateInv, NoDataFromLeavers, Next
  PROVE  GateInv' /\ NoDataFromLeavers'
<1> DEFINE busy == {"claiming", "gating", "refreshing"}
<1>0. req \in [Requests -> Request] /\ membership \in {"join", "leave"}
  BY DEF TypeOK
<1>1. ASSUME UNCHANGED <<setup, membership, req, passed>> PROVE GateInv' /\ NoDataFromLeavers'
  BY <1>1 DEF GateInv, NoDataFromLeavers
<1>2. CASE Leaves
  <2>1. membership' = "leave" /\ UNCHANGED <<setup, req, passed>>
    BY <1>2 DEF Leaves, http
  <2> QED
    BY <2>1 DEF GateInv, NoDataFromLeavers
<1>3. ASSUME NEW r \in Requests, NEW x, req' = [req EXCEPT ![r] = x], UNCHANGED <<setup, membership, passed>>,
             x.pc \in busy /\ membership = "join" => x.member, x.seen = "join" => x.member
      PROVE  GateInv' /\ NoDataFromLeavers'
  <2>1. \A q \in Requests : (q # r => req'[q] = req[q]) /\ (q = r => req'[q] = x)
    BY <1>0, <1>3
  <2> QED
    BY <1>3, <2>1 DEF GateInv, NoDataFromLeavers
<1>4. ASSUME NEW r \in Requests, NEW s, NEW l, Begin(r, s, l), UNCHANGED <<setup, membership, passed>>
      PROVE  GateInv' /\ NoDataFromLeavers'
  <2> DEFINE x == [pc |-> s, launch |-> l, seen |-> "none", member |-> membership = "join"]
  <2>1. req' = [req EXCEPT ![r] = x]
    BY <1>4 DEF Begin
  <2>2. x.seen = "none" /\ (membership = "join" => x.member)
    OBVIOUS
  <2> HIDE DEF x
  <2> QED
    BY <1>3, <1>4, <2>1, <2>2
<1>5. ASSUME NEW r \in Requests, Finish(r), UNCHANGED <<setup, membership, passed>>
      PROVE  GateInv' /\ NoDataFromLeavers'
  <2> DEFINE x == [NoReq EXCEPT !.pc = "done"]
  <2>1. req' = [req EXCEPT ![r] = x]
    BY <1>5 DEF Finish
  <2>2. x.seen = "none" /\ x.pc = "done"
    BY DEF NoReq
  <2> HIDE DEF x
  <2> QED
    BY <1>3, <1>5, <2>1, <2>2
<1>6. ASSUME NEW r \in Requests, PostAuth(r) PROVE GateInv' /\ NoDataFromLeavers'
  <2>1. UNCHANGED <<setup, membership, passed>> /\ (Finish(r) \/ \E s \in busy : Begin(r, s, page.launch))
    BY <1>6 DEF PostAuth
  <2> QED
    BY <1>4, <1>5, <2>1
<1>7. ASSUME NEW r \in Requests, ClaimNonce(r) PROVE GateInv' /\ NoDataFromLeavers'
  <2> DEFINE x == [req[r] EXCEPT !.pc = "gating"]
  <2>1. UNCHANGED <<setup, membership, passed>> /\ req[r].pc = "claiming"
    BY <1>7 DEF ClaimNonce
  <2>2. Finish(r) \/ req' = [req EXCEPT ![r] = x]
    BY <1>0, <1>7 DEF ClaimNonce, Goto
  <2>3. x.seen = req[r].seen /\ x.member = req[r].member
    BY ReqMoves
  <2> HIDE DEF x
  <2> QED
    BY <1>3, <1>5, <2>1, <2>2, <2>3 DEF GateInv
<1>8. ASSUME NEW r \in Requests, NEW knows \in BOOLEAN, ResolveRoomAuth(r, knows) PROVE GateInv' /\ NoDataFromLeavers'
  <2> DEFINE s == IF knows THEN membership ELSE "unknown"
             x == [req[r] EXCEPT !.seen = s]
  <2>1. UNCHANGED <<setup, membership, passed>> /\ req[r].pc \in busy
    BY <1>8 DEF ResolveRoomAuth
  <2>2. req' = [req EXCEPT ![r] = x]
    BY <1>0, <1>8 DEF ResolveRoomAuth
  <2>3. s = "join" => membership = "join"
    OBVIOUS
  <2> HIDE DEF s
  <2>4. x.seen = s /\ x.member = req[r].member /\ x.pc = req[r].pc
    BY <1>0 DEF Request
  <2> HIDE DEF x
  <2> QED
    BY <1>3, <2>1, <2>2, <2>3, <2>4 DEF GateInv
<1>9. ASSUME NEW r \in Requests, NEW snap, GatesPass(r, snap), Pass(r, snap) PROVE NoDataFromLeavers'
  <2> DEFINE p == [member |-> req[r].member, seen |-> req[r].seen, snap |-> snap]
  <2>1. setup.gated => req[r].seen = "join" \/ (req[r].seen = "unknown" /\ snap = "join")
    BY <1>9 DEF GatesPass, Membership
  <2>2. passed' = passed \/ (setup.gated /\ passed' = passed \cup {p})
    BY <1>9 DEF Pass
  <2>3. setup.gated => p.member \/ (p.seen = "unknown" /\ p.snap = "join")
    BY <2>1 DEF GateInv
  <2> HIDE DEF p
  <2> QED
    BY <2>2, <2>3 DEF NoDataFromLeavers
<1>10. ASSUME NEW r \in Requests, MintSession(r) \/ FeedMiniAppData(r) PROVE GateInv' /\ NoDataFromLeavers'
  <2> DEFINE x == [NoReq EXCEPT !.pc = "done"]
  <2>1. UNCHANGED <<setup, membership>> /\ req' = [req EXCEPT ![r] = x]
    BY <1>10 DEF MintSession, FeedMiniAppData, Finish
  <2>2. x.seen = "none" /\ x.pc = "done"
    BY DEF NoReq
  <2>3. passed' = passed \/ \E snap : GatesPass(r, snap) /\ Pass(r, snap)
    BY <1>10 DEF MintSession, FeedMiniAppData
  <2> HIDE DEF x
  <2>4. \A q \in Requests : (q # r => req'[q] = req[q]) /\ (q = r => req'[q] = x)
    BY <1>0, <2>1
  <2>5. GateInv'
    BY <2>1, <2>2, <2>4 DEF GateInv
  <2>6. NoDataFromLeavers'
    BY <1>9, <2>3 DEF NoDataFromLeavers
  <2> QED
    BY <2>5, <2>6
<1>11. ASSUME NEW r \in Requests, NEW s \in 1..MaxRequests, PostData(r, s) PROVE GateInv' /\ NoDataFromLeavers'
  <2>1. UNCHANGED <<setup, membership, passed>> /\ (Finish(r) \/ Begin(r, "refreshing", s))
    BY <1>11 DEF PostData
  <2> QED
    BY <1>4, <1>5, <2>1
<1>12. CASE \/ Tick \/ CreateMiniAppLaunch \/ SendData \/ WriteClaims \/ FlushOutbox \/ \E l \in Launches : BridgeLoads(l)
            \/ \E source \in {"hostWindow", "otherWindow"}, origin \in Origins, fresh \in BOOLEAN :
                 BridgeMessage(source, origin, fresh)
  BY <1>1, <1>12 DEF Tick, CreateMiniAppLaunch, SendData, WriteClaims, FlushOutbox, BridgeLoads, BridgeMessage, http
<1>13. CASE \/ \E a \in Answerers, s \in 1..MaxRequests : AnswerQuery(a, s)
            \/ \E a \in Answerers : ClaimAsync(a) \/ AnswerSent(a)
            \/ \E a \in Answerers, taken, queued \in BOOLEAN : AnswerFails(a, taken, queued)
  BY <1>1, <1>13 DEF AnswerQuery, ClaimAsync, AnswerSent, AnswerFails, http
<1>14. CASE \E taken \in SUBSET Answerers : Restart(taken)
  <2>1. UNCHANGED <<setup, membership, passed>>
    BY <1>14 DEF Restart
  <2>2. \A r \in Requests : req'[r].pc \in {"idle", "done"} /\ (req'[r].seen = "none" \/ req'[r] = req[r])
    BY <1>14, RestartFacts
  <2> QED
    BY <2>1, <2>2 DEF GateInv, NoDataFromLeavers
<1> QED
  BY <1>2, <1>6, <1>7, <1>8, <1>10, <1>11, <1>12, <1>13, <1>14 DEF Next

-----------------------------------------------------------------------------
(* A query is answered once. *)

(* An answer moves on; q is its query. *)
LEMMA AnsMoves ==
  ASSUME TypeOK, NEW a \in Answerers
  PROVE  /\ \A s, q, t : AnsGoto(a, s, q, t) =>
              \A b \in Answerers : (b # a => ans'[b] = ans[b])
                                   /\ (b = a => ans'[b].pc = s /\ ans'[b].query = q /\ ans'[b].ttl = t)
         /\ AnsFinish(a) => \A b \in Answerers : (b # a => ans'[b] = ans[b]) /\ (b = a => ans'[b].pc = "done")
<1>1. ans \in [Answerers -> Answer(Len(launched))]
  BY DEF TypeOK
<1>2. ASSUME NEW s, NEW q, NEW t, AnsGoto(a, s, q, t)
      PROVE  \A b \in Answerers : (b # a => ans'[b] = ans[b])
                                  /\ (b = a => ans'[b].pc = s /\ ans'[b].query = q /\ ans'[b].ttl = t)
  BY <1>1, <1>2 DEF AnsGoto
<1>3. ASSUME AnsFinish(a)
      PROVE  \A b \in Answerers : (b # a => ans'[b] = ans[b]) /\ (b = a => ans'[b].pc = "done")
  BY <1>1, <1>3 DEF AnsFinish, NoAns
<1> QED
  BY <1>2, <1>3

(* What is claimed or gone. *)
Over(q) == Marked(q) \/ Gone(q)

(* A step that neither posts an answer nor starts one. *)
LEMMA AnswerStill ==
  ASSUME TypeOK, NEW k \in 1..Len(launched), Answered(k), doubtful \subseteq doubtful', forgotten \subseteq forgotten',
         k \notin doubtful' => posted'[k] = posted[k],
         \A a \in Answerers : Sending(a, k)' => Sending(a, k),
         k \notin forgotten' /\ Over(k) => Over(k)'
  PROVE  Answered(k)'
BY DEF Answered, Over

(* Nor does a query come back that has expired or was forgotten. *)
LEMMA GoneStays ==
  ASSUME TypeOK, NEW k \in 1..Len(launched), Gone(k), now' \in Nat, now' >= now, setup' = setup, launched'[k] = launched[k],
         \A i \in 1..Len(queries') : queries'[i] = k => \E j \in 1..Len(queries) : queries[j] = k
  PROVE  Gone(k)'
<1>1. now \in Nat /\ launched[k].expQ \in Nat
  BY Numbers
<1> QED
  BY <1>1 DEF Gone

(* A step that leaves claims and answers alone. *)
LEMMA AnswerQuiet ==
  ASSUME TypeOK, Links, AnswerInv, UNCHANGED <<setup, launched, queries, answering>>, now' \in Nat, now' >= now
  PROVE  AnswerInv'
<1>1. now \in Nat /\ Timed' = Timed /\ ans \in [Answerers -> Answer(Len(launched))]
  BY Numbers DEF Timed, TypeOK
<1>2. UNCHANGED <<claimed, disk, claimedNX, forgotten, ans, outbox, posted, doubtful>>
  BY DEF answering, claims
<1>3. ASSUME NEW a \in Answerers, ans[a].pc = "claiming" PROVE now' + ans[a].ttl >= launched[ans[a].query].expQ
  <2>1. ans[a].ttl \in Nat /\ now + ans[a].ttl >= launched[ans[a].query].expQ /\ ans[a].query \in 1..Len(launched)
    BY <1>1, <1>3 DEF AnswerInv, ClaimsApart, Links, Answer
  <2>2. launched[ans[a].query].expQ \in Nat
    BY <2>1, Numbers
  <2> QED
    BY <1>1, <2>1, <2>2
<1>4. ClaimsApart'
  BY <1>1, <1>2, <1>3 DEF AnswerInv, ClaimsApart
<1>5. ASSUME NEW k \in 1..Len(launched) PROVE Answered(k)'
  <2>1. Answered(k) /\ (Gone(k) => Gone(k)')
    BY GoneStays DEF AnswerInv
  <2>2. Over(k) => Over(k)'
    BY <1>2, <2>1 DEF Over, Marked
  <2> QED
    BY <1>2, <2>1, <2>2, AnswerStill DEF Sending
<1> QED
  BY <1>2, <1>4, <1>5 DEF AnswerInv

(* A query that can be claimed was not answered before. *)
LEMMA NotOver ==
  ASSUME TypeOK, ClaimsApart, NEW q \in 1..Len(launched), launched[q].expQ > now, QueryHeld(q),
         ~HasKey(claimed, q, now), ~HasKey(claimedNX, q, now)
  PROVE  ~Over(q)
<1>0. now \in Nat /\ launched[q].expQ \in Nat
  BY Numbers
<1>1. ~Gone(q)
  <2>1. queries \in Seq(Launches)
    BY DEF TypeOK
  <2> QED
    BY <1>0, <2>1 DEF Gone, QueryHeld
<1>2. ASSUME NEW store \in Seq(Timed), NEW i \in 1..Len(store), store[i].key = q PROVE HasKey(store, q, now)
  <2>1. store[i] \in Timed /\ i \in DOMAIN store
    OBVIOUS
  <2>2. store[i].exp \in Nat /\ store[i].exp >= launched[q].expQ
    BY <1>2, <2>1 DEF Timed, Entry
  <2>3. store[i].exp > now
    BY <1>0, <2>2
  <2> QED
    BY <1>2, <2>1, <2>3 DEF HasKey
<1>3. claimed \in Seq(Timed) /\ claimedNX \in Seq(Timed)
  BY DEF ClaimsApart
<1>4. ~Marked(q)
  BY <1>2, <1>3 DEF Marked
<1> QED
  BY <1>1, <1>4 DEF Over

(* The answer a starts to send the message of a query nobody has answered. *)
LEMMA AnswerStarts ==
  ASSUME TypeOK, ClaimsApart, NEW a \in Answerers, NEW q \in 1..Len(launched), NEW k \in 1..Len(launched), Answered(k),
         ans[a].pc # "sending", AnsGoto(a, "sending", q, 0), UNCHANGED <<posted, doubtful>>, forgotten \subseteq forgotten',
         k = q /\ k \notin forgotten' => ~Over(k),
         k = q => Over(k)',
         k # q /\ k \notin forgotten' /\ Over(k) => Over(k)'
  PROVE  Answered(k)'
<1>1. \A b \in Answerers : Sending(b, k)' => (b # a /\ Sending(b, k)) \/ (b = a /\ k = q)
  BY AnsMoves DEF Sending
<1>2. CASE k # q
  BY <1>1, <1>2, AnswerStill
<1>3. CASE k = q
  <2> SUFFICES ASSUME k \notin doubtful \cup forgotten' PROVE Answered(k)'
    BY DEF Answered
  <2>1. posted[k] <= 1 /\ posted[k] # 1 /\ \A b \in Answerers : ~Sending(b, k)
    BY <1>3 DEF Answered, Over
  <2>2. \A b \in Answerers : Sending(b, k)' => b = a
    BY <1>1, <2>1
  <2> QED
    BY <1>3, <2>1, <2>2 DEF Answered, Over
<1> QED
  BY <1>2, <1>3

(* A new query is nobody's. *)
LEMMA AnswerLaunch ==
  ASSUME TypeOK, Links, AnswerInv, CreateMiniAppLaunch
  PROVE  AnswerInv'
<1> DEFINE n == Len(launched)
<1>0. /\ Len(launched') = n + 1 /\ (\A l \in 1..n : launched'[l] = launched[l])
      /\ n \in Nat /\ now \in Nat /\ MaxLaunches \in Nat /\ n < MaxLaunches /\ TypeOK'
  BY TypeLaunch, Numbers DEF CreateMiniAppLaunch
<1>1. /\ UNCHANGED <<setup, now, claimed, disk, claimedNX, forgotten, ans, outbox, posted, doubtful>>
      /\ (queries' = queries \/ queries' = Append(PruneQueries, n + 1))
  BY DEF CreateMiniAppLaunch, answering, claims, IssueQuery
<1>2. Timed \subseteq Timed' /\ 1..n \subseteq 1..(n + 1)
  BY <1>0 DEF Timed
<1>3. /\ claimed \in Seq(Timed') /\ disk \in Seq(Timed') /\ claimedNX \in Seq(Timed')
  BY <1>2 DEF AnswerInv, ClaimsApart
<1>4. \A a \in Answerers : ans[a].pc \in {"claiming", "sending"} => ans[a].query \in 1..n
  BY DEF Links
<1>5. ClaimsApart'
  BY <1>0, <1>1, <1>3, <1>4 DEF AnswerInv, ClaimsApart
<1>6. ASSUME NEW k \in 1..n PROVE Answered(k)'
  <2>1. \A i \in 1..Len(queries') : queries'[i] = k => \E j \in 1..Len(queries) : queries[j] = k
    <3>1. PruneQueries \in Seq(Launches) /\ \A i \in 1..Len(PruneQueries) : \E j \in 1..Len(queries) : queries[j] = PruneQueries[i]
      BY PruneFacts
    <3>2. CASE queries' = Append(PruneQueries, n + 1)
      <4>1. /\ Len(queries') = Len(PruneQueries) + 1
            /\ \A i \in 1..Len(queries') :
                 (i \in 1..Len(PruneQueries) /\ queries'[i] = PruneQueries[i]) \/ queries'[i] = n + 1
        <5>1. n + 1 \in Launches
          BY <1>0 DEF Launches
        <5> QED
          BY <3>1, <3>2, <5>1
      <4>2. k # n + 1
        BY <1>0
      <4> QED
        BY <3>1, <4>1, <4>2
    <3> QED
      BY <1>1, <3>2
  <2>2. Gone(k) => Gone(k)'
    BY <1>0, <1>1, <2>1, GoneStays
  <2>3. Over(k) => Over(k)'
    BY <1>1, <2>2 DEF Over, Marked
  <2>4. Answered(k)
    BY DEF AnswerInv
  <2> QED
    BY <1>1, <2>3, <2>4, AnswerStill DEF Sending
<1>7. ASSUME NEW k, k = n + 1 PROVE Answered(k)'
  <2>1. k \in Launches /\ k \notin 1..n
    BY <1>0, <1>7 DEF Launches
  <2>2. posted[k] = 0
    BY <2>1 DEF AnswerInv
  <2>3. \A a \in Answerers : ~Sending(a, k)'
    BY <1>1, <1>4, <2>1 DEF Sending
  <2> QED
    BY <1>1, <2>2, <2>3 DEF Answered
<1>8. \A k \in 1..(n + 1) : k \in 1..n \/ k = n + 1
  BY <1>0
<1>9. \A k \in 1..Len(launched') : Answered(k)'
  BY <1>0, <1>6, <1>7, <1>8
<1>10. \A i \in 1..Len(outbox') : outbox'[i] \in doubtful' \cap (1..Len(launched'))
  BY <1>0, <1>1, <1>2 DEF AnswerInv
<1>11. \A q \in Launches : q \notin 1..Len(launched') => posted'[q] = 0
  BY <1>0, <1>1, <1>2 DEF AnswerInv
<1> QED
  BY <1>5, <1>9, <1>10, <1>11 DEF AnswerInv

(* The claims are written, or the outbox is flushed. *)
LEMMA AnswerStores ==
  ASSUME TypeOK, Links, AnswerInv, WriteClaims \/ FlushOutbox
  PROVE  AnswerInv'
<1>0. claimed \in Seq(Timed) /\ now \in Nat /\ posted \in [Launches -> Nat] /\ outbox \in Seq(Launches)
      /\ 1..Len(launched) \subseteq Launches
  BY Numbers DEF AnswerInv, ClaimsApart, TypeOK
<1>1. UNCHANGED <<setup, now, launched, queries, claimed, claimedNX, forgotten, ans, doubtful>>
  BY DEF WriteClaims, FlushOutbox, claims
<1>2. Timed' = Timed
  BY <1>1 DEF Timed
<1>3. disk' \in Seq(Timed) /\ (setup.queries # "signed" => disk' = disk)
  <2>1. Unexpired(claimed, now) \in Seq(Timed)
    BY <1>0, UnexpiredFacts
  <2>2. disk' = disk \/ (setup.queries = "signed" /\ disk' = Unexpired(claimed, now))
    BY DEF WriteClaims, FlushOutbox, claims
  <2> QED
    BY <2>1, <2>2 DEF AnswerInv, ClaimsApart
<1>4. ClaimsApart'
  BY <1>1, <1>2, <1>3 DEF AnswerInv, ClaimsApart
<1>5. /\ \A i \in 1..Len(outbox') : outbox'[i] \in doubtful \cap (1..Len(launched))
      /\ \A k \in Launches : posted'[k] = posted[k] \/ k \in doubtful \cap (1..Len(launched))
  <2>1. CASE WriteClaims
    BY <2>1 DEF WriteClaims, AnswerInv
  <2>2. CASE FlushOutbox
    <3>1. outbox # << >> /\ posted' = [posted EXCEPT ![Head(outbox)] = @ + 1] /\ outbox' = Tail(outbox)
      BY <2>2 DEF FlushOutbox
    <3>2. /\ Head(outbox) = outbox[1] /\ 1 \in 1..Len(outbox)
          /\ \A i \in 1..Len(outbox') : i + 1 \in 1..Len(outbox) /\ outbox'[i] = outbox[i + 1]
      BY <1>0, <3>1
    <3>3. Head(outbox) \in doubtful \cap (1..Len(launched))
      BY <3>2 DEF AnswerInv
    <3>4. \A k \in Launches : k # Head(outbox) => posted'[k] = posted[k]
      BY <1>0, <3>1
    <3> QED
      BY <3>2, <3>3, <3>4 DEF AnswerInv
  <2> QED
    BY <2>1, <2>2
<1>6. ASSUME NEW k \in 1..Len(launched) PROVE Answered(k)'
  <2>1. Answered(k) /\ (Over(k) => Over(k)') /\ k \in Launches
    BY <1>0, <1>1 DEF AnswerInv, Over, Marked, Gone
  <2> QED
    BY <1>1, <1>5, <2>1, AnswerStill DEF Sending
<1> QED
  BY <1>1, <1>4, <1>5, <1>6 DEF AnswerInv

(* A handler answers: it claims the query in the process, or goes on to. *)
LEMMA AnswerClaims ==
  ASSUME TypeOK, Links, AnswerInv, NEW a \in Answerers, NEW s \in 1..MaxRequests, AnswerQuery(a, s)
  PROVE  AnswerInv'
<1>0. ClaimsApart
  BY DEF AnswerInv
<1>1. /\ UNCHANGED <<setup, now, launched, queries, disk, claimedNX, outbox, posted, doubtful>>
      /\ ans[a].pc = "idle"
  BY DEF AnswerQuery
<1>2. PICK q \in 1..Len(launched) : q = sessions[s].launch
  <2>1. s \in 1..Len(sessions) /\ sessions \in Seq(Session(Len(launched)))
    BY DEF AnswerQuery, Links, TypeOK
  <2>2. sessions[s] \in Session(Len(launched))
    BY <2>1
  <2> QED
    BY <2>2 DEF Session
<1> DEFINE t == launched[q].expQ - now
<1>3. \/ AnsFinish(a) /\ UNCHANGED <<claimed, forgotten>>
      \/ Claimable(q) /\ setup.queries = "signedAsync" /\ AnsGoto(a, "claiming", q, t) /\ UNCHANGED <<claimed, forgotten>>
      \/ Claimable(q) /\ setup.queries # "signedAsync" /\ AnsGoto(a, "sending", q, 0) /\ Mark(q)
  BY <1>2 DEF AnswerQuery
<1>4. now \in Nat /\ launched[q].expQ \in Nat /\ Timed' = Timed
  BY <1>1, <1>2, Numbers DEF Timed
<1>5. /\ now + t = launched[q].expQ
      /\ \A k \in 1..Len(launched) : Gone(k)' <=> Gone(k)
  BY <1>1, <1>4 DEF Gone
<1> HIDE DEF t
<1>6. CASE \/ AnsFinish(a) /\ UNCHANGED <<claimed, forgotten>>
           \/ Claimable(q) /\ setup.queries = "signedAsync" /\ AnsGoto(a, "claiming", q, t) /\ UNCHANGED <<claimed, forgotten>>
  <2>1. UNCHANGED <<claimed, forgotten>>
    BY <1>6
  <2>2. \A b \in Answerers :
          \/ b # a /\ ans'[b] = ans[b]
          \/ b = a /\ ans'[b].pc = "done"
          \/ b = a /\ setup.queries = "signedAsync" /\ ans'[b].pc = "claiming" /\ ans'[b].query = q /\ ans'[b].ttl = t
    BY <1>6, AnsMoves
  <2>3. ClaimsApart'
    <3>1. ASSUME NEW b \in Answerers, ans'[b].pc = "claiming"
          PROVE  now + ans'[b].ttl >= launched[ans'[b].query].expQ /\ setup.queries = "signedAsync"
      <4>1. CASE b # a
        BY <1>0, <2>2, <3>1, <4>1 DEF ClaimsApart
      <4>2. CASE b = a
        <5>1. ans'[b].query = q /\ ans'[b].ttl = t /\ setup.queries = "signedAsync"
          BY <2>2, <3>1, <4>2
        <5> QED
          BY <1>4, <1>5, <5>1
      <4> QED
        BY <4>1, <4>2
    <3> QED
      BY <1>0, <1>1, <1>4, <2>1, <3>1 DEF ClaimsApart
  <2>4. ASSUME NEW k \in 1..Len(launched) PROVE Answered(k)'
    <3>1. Answered(k) /\ (Over(k) => Over(k)')
      BY <1>1, <1>5, <2>1 DEF AnswerInv, Over, Marked
    <3>2. \A b \in Answerers : Sending(b, k)' => Sending(b, k)
      BY <2>2 DEF Sending
    <3> QED
      BY <1>1, <2>1, <3>1, <3>2, AnswerStill
  <2> QED
    BY <1>1, <2>3, <2>4 DEF AnswerInv
<1>7. CASE Claimable(q) /\ setup.queries # "signedAsync" /\ AnsGoto(a, "sending", q, 0) /\ Mark(q)
  <2>1. \A b \in Answerers : (b # a /\ ans'[b] = ans[b]) \/ (b = a /\ ans'[b].pc = "sending")
    BY <1>7, AnsMoves
  <2>2. claimed' \in Seq(Timed) /\ claimedNX = << >>
    BY <1>0, <1>2, <1>7, MarkFacts DEF ClaimsApart
  <2>3. ClaimsApart'
    BY <1>0, <1>1, <1>4, <1>7, <2>1, <2>2 DEF ClaimsApart
  <2>4. ~Over(q)
    <3>1. launched[q].expQ > now /\ QueryHeld(q) /\ ~HasKey(claimed, q, now)
      BY <1>7 DEF Claimable, QueryInTime
    <3>2. ~HasKey(claimedNX, q, now)
      BY <2>2 DEF HasKey
    <3> QED
      BY <1>0, <1>2, <3>1, <3>2, NotOver
  <2>5. /\ forgotten \subseteq forgotten'
        /\ Over(q)'
        /\ \A k \in 1..Len(launched) : k # q /\ k \notin forgotten' /\ Over(k) => Over(k)'
    <3>1. claimed \in Seq(Timed)
      BY <1>0 DEF ClaimsApart
    <3>2. forgotten \subseteq forgotten' /\ Marked(q)'
      BY <1>2, <1>7, <3>1, MarkFacts DEF Marked
    <3>3. ASSUME NEW k \in 1..Len(launched), k # q, k \notin forgotten', Over(k) PROVE Over(k)'
      <4>1. CASE Gone(k)
        BY <1>5, <4>1 DEF Over
      <4>2. CASE ~Gone(k)
        <5>1. launched[k].expQ > now /\ Marked(k)
          BY <1>4, <3>3, <4>2, Numbers DEF Over, Gone
        <5>2. \E i \in 1..Len(claimed) : claimed[i].key = k
          BY <2>2, <5>1 DEF Marked
        <5>3. \E i \in 1..Len(claimed') : claimed'[i].key = k
          BY <1>2, <1>7, <3>1, <3>3, <5>1, <5>2, MarkFacts
        <5> QED
          BY <5>3 DEF Over, Marked
      <4> QED
        BY <4>1, <4>2
    <3> QED
      BY <3>2, <3>3 DEF Over
  <2>6. ASSUME NEW k \in 1..Len(launched) PROVE Answered(k)'
    <3>1. Answered(k)
      BY DEF AnswerInv
    <3> QED
      BY <1>0, <1>1, <1>2, <1>7, <2>4, <2>5, <3>1, AnswerStarts
  <2> QED
    BY <1>1, <2>3, <2>6 DEF AnswerInv
<1> QED
  BY <1>3, <1>6, <1>7

(* ... or in Redis. *)
LEMMA AnswerClaimsAsync ==
  ASSUME TypeOK, Links, AnswerInv, NEW a \in Answerers, ClaimAsync(a)
  PROVE  AnswerInv'
<1>0. ClaimsApart /\ setup.queries = "signedAsync" /\ claimed = << >> /\ claimedNX \in Seq(Timed)
  BY DEF AnswerInv, ClaimsApart, ClaimAsync
<1>1. UNCHANGED <<setup, now, launched, queries, claimed, disk, outbox, posted, doubtful>> /\ ans[a].pc = "claiming"
  BY DEF ClaimAsync
<1>2. PICK q \in 1..Len(launched), x \in Nat : q = ans[a].query /\ x >= launched[q].expQ /\ TryAdd(a, q, x)
  BY <1>0, ClaimTime
<1>3. now \in Nat /\ launched[q].expQ \in Nat /\ Timed' = Timed
  BY <1>1, Numbers DEF Timed
<1>4. \A k \in 1..Len(launched) : Gone(k)' <=> Gone(k)
  BY <1>1 DEF Gone
<1>5. claimedNX' \in Seq(Timed) /\ forgotten \subseteq forgotten'
  BY <1>0, <1>2, TryAddFacts
<1>6. CASE AnsFinish(a) /\ UNCHANGED <<claimedNX, forgotten>>
  <2>1. \A b \in Answerers : (b # a /\ ans'[b] = ans[b]) \/ (b = a /\ ans'[b].pc = "done")
    BY <1>6, AnsMoves
  <2>2. ClaimsApart'
    BY <1>0, <1>1, <1>3, <1>6, <2>1 DEF ClaimsApart
  <2>3. ASSUME NEW k \in 1..Len(launched) PROVE Answered(k)'
    <3>1. Answered(k) /\ (Over(k) => Over(k)')
      BY <1>1, <1>4, <1>6 DEF AnswerInv, Over, Marked
    <3>2. \A b \in Answerers : Sending(b, k)' => Sending(b, k)
      BY <2>1 DEF Sending
    <3> QED
      BY <1>1, <1>6, <3>1, <3>2, AnswerStill
  <2> QED
    BY <1>1, <2>2, <2>3 DEF AnswerInv
<1>7. CASE /\ AnsGoto(a, "sending", q, 0)
           /\ ~HasKey(claimedNX, q, now)
           /\ q \notin forgotten' => launched[q].expQ > now
           /\ \E i \in 1..Len(claimedNX') : claimedNX'[i].key = q
           /\ \A k : (\E i \in 1..Len(claimedNX) : claimedNX[i].key = k) /\ k # q /\ launched[k].expQ > now
                => \E i \in 1..Len(claimedNX') : claimedNX'[i].key = k
  <2>1. \A b \in Answerers : (b # a /\ ans'[b] = ans[b]) \/ (b = a /\ ans'[b].pc = "sending")
    BY <1>7, AnsMoves
  <2>2. ClaimsApart'
    BY <1>0, <1>1, <1>3, <1>5, <2>1 DEF ClaimsApart
  <2>3. q \notin forgotten' => ~Over(q)
    <3>1. QueryHeld(q) /\ ~HasKey(claimed, q, now)
      BY <1>0 DEF QueryHeld, HasKey
    <3> QED
      BY <1>0, <1>7, <3>1, NotOver
  <2>4. Over(q)'
    BY <1>7 DEF Over, Marked
  <2>5. ASSUME NEW k \in 1..Len(launched), k # q, Over(k) PROVE Over(k)'
    <3>1. CASE Gone(k)
      BY <1>4, <3>1 DEF Over
    <3>2. CASE ~Gone(k)
      <4>1. launched[k].expQ > now /\ Marked(k)
        BY <1>3, <2>5, <3>2, Numbers DEF Over, Gone
      <4>2. \E i \in 1..Len(claimedNX) : claimedNX[i].key = k
        BY <1>0, <4>1 DEF Marked
      <4>3. \E i \in 1..Len(claimedNX') : claimedNX'[i].key = k
        BY <1>7, <2>5, <4>1, <4>2
      <4> QED
        BY <4>3 DEF Over, Marked
    <3> QED
      BY <3>1, <3>2
  <2>6. ASSUME NEW k \in 1..Len(launched) PROVE Answered(k)'
    <3>1. Answered(k) /\ ans[a].pc # "sending" /\ AnsGoto(a, "sending", q, 0)
      BY <1>1, <1>7 DEF AnswerInv
    <3> QED
      BY <1>0, <1>1, <1>5, <2>3, <2>4, <2>5, <3>1, AnswerStarts
  <2> QED
    BY <1>1, <2>2, <2>6 DEF AnswerInv
<1>8. \/ AnsFinish(a) /\ UNCHANGED <<claimedNX, forgotten>>
      \/ /\ AnsGoto(a, "sending", q, 0)
         /\ ~HasKey(claimedNX, q, now)
         /\ q \notin forgotten' => launched[q].expQ > now
         /\ \E i \in 1..Len(claimedNX') : claimedNX'[i].key = q
         /\ \A k : (\E i \in 1..Len(claimedNX) : claimedNX[i].key = k) /\ k # q /\ launched[k].expQ > now
              => \E i \in 1..Len(claimedNX') : claimedNX'[i].key = k
  BY <1>0, <1>2, TryAddFacts
<1> QED
  BY <1>6, <1>7, <1>8

(* The message is sent. *)
LEMMA AnswerPosts ==
  ASSUME TypeOK, Links, AnswerInv, NEW a \in Answerers, AnswerSent(a)
  PROVE  AnswerInv'
<1>0. posted \in [Launches -> Nat] /\ 1..Len(launched) \subseteq Launches
  BY Numbers DEF TypeOK
<1>1. /\ UNCHANGED <<setup, now, launched, queries, claimed, disk, claimedNX, forgotten, outbox, doubtful>>
      /\ AnsFinish(a) /\ ans[a].pc = "sending"
  BY DEF AnswerSent, claims
<1>2. PICK q \in 1..Len(launched) : q = ans[a].query
  BY <1>1 DEF Links
<1>3. \A k \in Launches : posted'[k] = IF k = q THEN posted[k] + 1 ELSE posted[k]
  BY <1>0, <1>2 DEF AnswerSent
<1>4. \A b \in Answerers : (b # a /\ ans'[b] = ans[b]) \/ (b = a /\ ans'[b].pc = "done")
  BY <1>1, AnsMoves
<1>5. ClaimsApart'
  BY <1>1, <1>4 DEF AnswerInv, ClaimsApart, Timed
<1>6. ASSUME NEW k \in 1..Len(launched) PROVE Answered(k)'
  <2>1. Answered(k) /\ (Over(k) => Over(k)') /\ k \in Launches
    BY <1>0, <1>1 DEF AnswerInv, Over, Marked, Gone
  <2>2. \A b \in Answerers : Sending(b, k)' => b # a /\ Sending(b, k)
    BY <1>4 DEF Sending
  <2>3. CASE k # q
    BY <1>1, <1>3, <2>1, <2>2, <2>3, AnswerStill
  <2>4. CASE k = q
    <3> SUFFICES ASSUME k \notin doubtful \cup forgotten PROVE Answered(k)'
      BY <1>1 DEF Answered
    <3>1. Sending(a, k)
      BY <1>1, <1>2, <2>4 DEF Sending
    <3>2. posted[k] # 1 /\ posted[k] <= 1 /\ Over(k) /\ \A b \in Answerers : Sending(b, k) => b = a
      BY <2>1, <3>1 DEF Answered, Over
    <3>3. posted'[k] = 1
      BY <1>0, <1>3, <2>1, <2>4, <3>2
    <3>4. \A b \in Answerers : ~Sending(b, k)'
      BY <2>2, <3>2
    <3> QED
      BY <2>1, <3>2, <3>3, <3>4 DEF Answered, Over
  <2> QED
    BY <2>3, <2>4
<1>7. \A k \in Launches : k \notin 1..Len(launched) => posted'[k] = 0
  BY <1>2, <1>3 DEF AnswerInv
<1> QED
  BY <1>1, <1>5, <1>6, <1>7 DEF AnswerInv

(* The send fails, and the query is released. *)
LEMMA AnswerFailed ==
  ASSUME TypeOK, Links, AnswerInv, NEW a \in Answerers, NEW taken \in BOOLEAN, NEW queued \in BOOLEAN,
         AnswerFails(a, taken, queued)
  PROVE  AnswerInv'
<1>0. posted \in [Launches -> Nat] /\ 1..Len(launched) \subseteq Launches /\ outbox \in Seq(Launches)
  BY Numbers DEF TypeOK
<1>1. /\ UNCHANGED <<setup, now, launched, queries, disk, claimedNX, forgotten>>
      /\ AnsFinish(a) /\ ans[a].pc = "sending"
  BY DEF AnswerFails
<1>2. PICK q \in 1..Len(launched) : q = ans[a].query
  BY <1>1 DEF Links
<1>3. /\ posted' = [posted EXCEPT ![q] = @ + (IF taken THEN 1 ELSE 0)]
      /\ outbox' = IF queued THEN Append(outbox, q) ELSE outbox
      /\ doubtful' = IF taken \/ queued THEN doubtful \cup {q} ELSE doubtful
      /\ claimed' = WithoutKey(claimed, q)
  BY <1>2 DEF AnswerFails, ReleaseQuery
<1>4. /\ \A k \in Launches : k # q \/ k \notin doubtful' => posted'[k] = posted[k]
      /\ doubtful \subseteq doubtful'
  <2>1. \A k \in Launches : posted'[k] = IF k = q THEN posted[k] + (IF taken THEN 1 ELSE 0) ELSE posted[k]
    BY <1>0, <1>3
  <2> QED
    BY <1>0, <1>3, <2>1
<1>5. \A b \in Answerers : (b # a /\ ans'[b] = ans[b]) \/ (b = a /\ ans'[b].pc = "done")
  BY <1>1, AnsMoves
<1>6. claimed \in Seq(Timed)
  BY DEF AnswerInv, ClaimsApart
<1>7. claimed' \in Seq(Timed) /\ \A e : HasEntry(claimed, e) /\ e.key # q => HasEntry(claimed', e)
  BY <1>3, <1>6, WithoutKeyFacts
<1>8. setup.queries = "signedAsync" => claimed' = << >>
  <2>1. ASSUME claimed = << >> PROVE claimed' = << >>
    <3>1. claimed' = Kept(<< >>, {<< >>[i] : i \in {j \in DOMAIN << >> : << >>[j].key # q}})
      BY <1>3, <2>1, Zenon DEF WithoutKey
    <3> QED
      BY <3>1, KeptEmpty
  <2> QED
    BY <2>1 DEF AnswerInv, ClaimsApart
<1>9. ClaimsApart'
  BY <1>1, <1>5, <1>7, <1>8 DEF AnswerInv, ClaimsApart, Timed
<1>10. ASSUME NEW k \in 1..Len(launched) PROVE Answered(k)'
  <2>1. Answered(k) /\ k \in Launches
    BY <1>0 DEF AnswerInv
  <2>2. \A b \in Answerers : Sending(b, k)' => b # a /\ Sending(b, k)
    BY <1>5 DEF Sending
  <2>3. CASE k # q
    <3>1. Over(k) => Over(k)'
      <4>1. Gone(k) => Gone(k)'
        BY <1>1 DEF Gone
      <4>2. ASSUME NEW i \in 1..Len(claimed), claimed[i].key = k PROVE \E j \in 1..Len(claimed') : claimed'[j].key = k
        BY <1>7, <2>3, <4>2 DEF HasEntry
      <4>3. Marked(k) => Marked(k)'
        BY <1>1, <4>2 DEF Marked
      <4> QED
        BY <4>1, <4>3 DEF Over
    <3> QED
      BY <1>1, <1>4, <2>1, <2>2, <2>3, <3>1, AnswerStill
  <2>4. CASE k = q
    <3> SUFFICES ASSUME k \notin doubtful' \cup forgotten PROVE Answered(k)'
      BY <1>1 DEF Answered
    <3>1. Sending(a, k) /\ k \notin doubtful
      BY <1>1, <1>2, <1>4, <2>4 DEF Sending
    <3>2. posted[k] # 1 /\ posted[k] <= 1 /\ \A b \in Answerers : Sending(b, k) => b = a
      BY <2>1, <3>1 DEF Answered
    <3>3. posted'[k] = posted[k]
      BY <1>4, <2>1
    <3>4. \A b \in Answerers : ~Sending(b, k)'
      BY <2>2, <3>2
    <3> QED
      BY <3>2, <3>3, <3>4 DEF Answered
  <2> QED
    BY <2>3, <2>4
<1>11. \A k \in Launches : k \notin 1..Len(launched) => posted'[k] = 0
  BY <1>2, <1>4 DEF AnswerInv
<1>12. \A i \in 1..Len(outbox') : outbox'[i] \in doubtful' \cap (1..Len(launched))
  <2>1. CASE queued
    <3>1. /\ Len(outbox') = Len(outbox) + 1 /\ outbox'[Len(outbox) + 1] = q
          /\ \A i \in 1..Len(outbox) : outbox'[i] = outbox[i]
      BY <1>0, <1>2, <1>3, <2>1
    <3>2. \A i \in 1..Len(outbox') : i \in 1..Len(outbox) \/ i = Len(outbox) + 1
      BY <1>0, <3>1
    <3>3. q \in doubtful'
      BY <1>3, <2>1
    <3> QED
      BY <1>2, <1>4, <3>1, <3>2, <3>3 DEF AnswerInv
  <2>2. CASE ~queued
    BY <1>3, <1>4, <2>2 DEF AnswerInv
  <2> QED
    BY <2>1, <2>2
<1> QED
  BY <1>1, <1>9, <1>10, <1>11, <1>12 DEF AnswerInv

(* A set without two different elements. *)
LEMMA AtMostOne ==
  ASSUME NEW S, \A x, y \in S : x = y
  PROVE  Cardinality(S) \in {0, 1} /\ (Cardinality(S) = 1 => S # {})
<1>1. CASE S = {}
  BY <1>1, FS_EmptySet
<1>2. CASE S # {}
  <2>1. PICK x : S = {x}
    BY <1>2
  <2> QED
    BY <1>2, <2>1, FS_Singleton
<1> QED
  BY <1>1, <1>2

(* The claims are read from the file again. *)
LEMMA AnswerRestarts ==
  ASSUME TypeOK, Links, AnswerInv, NEW taken \in SUBSET Answerers, Restart(taken)
  PROVE  AnswerInv'
<1> DEFINE Posting(k) == {a \in taken : ans[a].query = k}
<1>0. /\ posted \in [Launches -> Nat] /\ 1..Len(launched) \subseteq Launches /\ now \in Nat
      /\ claimed \in Seq(Timed) /\ disk \in Seq(Timed) /\ ClaimsApart
  BY Numbers DEF TypeOK, AnswerInv, ClaimsApart
<1>1. /\ UNCHANGED <<setup, now, launched, claimedNX, outbox, doubtful>>
      /\ queries' = << >> /\ claimed' = Unexpired(disk, now) /\ disk' = Unexpired(disk, now)
      /\ forgotten' = IF setup.queries = "memory" THEN forgotten
                      ELSE forgotten \cup {q \in Launches : HasKey(claimed, q, now) /\ ~HasKey(disk, q, now)}
      /\ taken \subseteq {a \in Answerers : ans[a].pc = "sending"}
      /\ posted' = [q \in Launches |-> posted[q] + Cardinality(Posting(q))]
  BY Zenon DEF Restart
<1>2. \A a \in Answerers : ans'[a].pc \notin {"claiming", "sending"}
  BY RestartFacts
<1>3. /\ Unexpired(disk, now) \in Seq(Timed)
      /\ \A e : HasEntry(disk, e) /\ e.exp > now => HasEntry(Unexpired(disk, now), e)
  BY <1>0, UnexpiredFacts
<1>4. disk = << >> => Unexpired(disk, now) = << >>
  <2>1. ASSUME disk = << >> PROVE Unexpired(disk, now) = << >>
    <3>1. Unexpired(disk, now) = Kept(<< >>, {disk[i] : i \in {j \in DOMAIN disk : disk[j].exp > now}})
      BY <2>1, Zenon DEF Unexpired
    <3> QED
      BY <3>1, KeptEmpty
  <2> QED
    BY <2>1
<1>5. ClaimsApart'
  BY <1>0, <1>1, <1>2, <1>3, <1>4 DEF ClaimsApart, Timed
<1>6. \A a \in taken : \A k : ans[a].query = k => Sending(a, k)
  BY <1>1 DEF Sending
<1>7. ASSUME NEW k \in 1..Len(launched), k \notin forgotten', Over(k) PROVE Over(k)'
  <2>1. CASE Gone(k)
    BY <1>1, <2>1 DEF Over, Gone
  <2>2. CASE setup.queries = "memory"
    BY <1>1, <2>2 DEF Over, Gone
  <2>3. CASE ~Gone(k) /\ setup.queries # "memory"
    <3>1. launched[k].expQ > now /\ Marked(k) /\ k \in Launches
      BY <1>0, <1>7, <2>3, Numbers DEF Over, Gone
    <3>2. CASE \E i \in 1..Len(claimedNX) : claimedNX[i].key = k
      BY <1>1, <3>2 DEF Over, Marked
    <3>3. ASSUME NEW i \in 1..Len(claimed), claimed[i].key = k PROVE Over(k)'
      <4>1. claimed[i] \in Timed /\ i \in DOMAIN claimed
        BY <1>0
      <4>2. claimed[i].exp \in Nat /\ claimed[i].exp >= launched[k].expQ /\ launched[k].expQ \in Nat
        BY <3>3, <4>1, Numbers DEF Timed, Entry
      <4>3. HasKey(claimed, k, now)
        <5>1. claimed[i].exp > now
          BY <1>0, <3>1, <4>2
        <5> QED
          BY <3>3, <4>1, <5>1 DEF HasKey
      <4>4. HasKey(disk, k, now)
        BY <1>1, <1>7, <2>3, <3>1, <4>3
      <4>5. PICK j \in 1..Len(disk) : disk[j].key = k /\ disk[j].exp > now
        BY <1>0, <4>4 DEF HasKey
      <4>6. HasEntry(claimed', disk[j])
        BY <1>1, <1>3, <4>5 DEF HasEntry
      <4> QED
        BY <4>5, <4>6 DEF HasEntry, Over, Marked
    <3> QED
      BY <3>1, <3>2, <3>3 DEF Marked
  <2> QED
    BY <2>1, <2>2, <2>3
<1>8. ASSUME NEW k \in 1..Len(launched) PROVE Answered(k)'
  <2> SUFFICES ASSUME k \notin doubtful \cup forgotten' PROVE Answered(k)'
    BY <1>1 DEF Answered
  <2>1. k \notin forgotten /\ Answered(k)
    BY <1>1 DEF AnswerInv
  <2>2. \A x, y \in Posting(k) : x = y
    BY <1>6, <2>1 DEF Answered
  <2>3. Cardinality(Posting(k)) \in {0, 1} /\ (Cardinality(Posting(k)) = 1 => Posting(k) # {})
    BY <2>2, AtMostOne
  <2>4. Posting(k) # {} => posted[k] # 1 /\ Over(k)
    BY <1>6, <2>1 DEF Answered, Over
  <2>5. posted[k] <= 1 /\ (posted[k] = 1 => Over(k)) /\ posted[k] \in Nat
    BY <1>0, <2>1 DEF Answered, Over
  <2>6. posted'[k] = posted[k] + Cardinality(Posting(k))
    BY <1>0, <1>1
  <2> HIDE DEF Posting
  <2>7. posted'[k] <= 1 /\ (posted'[k] = 1 => Over(k))
    BY <2>3, <2>4, <2>5, <2>6
  <2>8. \A a \in Answerers : ~Sending(a, k)'
    BY <1>2 DEF Sending
  <2> QED
    BY <1>7, <2>7, <2>8 DEF Answered, Over
<1>9. ASSUME NEW k \in Launches, k \notin 1..Len(launched) PROVE posted'[k] = 0
  <2>1. Posting(k) = {}
    BY <1>6, <1>9 DEF Links, Sending
  <2>2. Cardinality(Posting(k)) = 0
    BY <2>1, FS_EmptySet
  <2>3. posted[k] = 0 /\ posted'[k] = posted[k] + Cardinality(Posting(k))
    BY <1>1, <1>9 DEF AnswerInv
  <2> QED
    BY <2>2, <2>3
<1> QED
  BY <1>1, <1>5, <1>8, <1>9 DEF AnswerInv

LEMMA AnswerHolds ==
  ASSUME TypeOK, Links, AnswerInv, Next
  PROVE  AnswerInv'
<1>0. now \in Nat
  BY Numbers
<1>1. ASSUME UNCHANGED <<setup, now, launched, queries, answering>> PROVE AnswerInv'
  BY <1>0, <1>1, AnswerQuiet
<1>2. CASE Tick
  <2>1. UNCHANGED <<setup, launched, queries, answering>> /\ now' \in Nat /\ now' >= now
    BY <1>0, <1>2 DEF Tick
  <2> QED
    BY <2>1, AnswerQuiet
<1>3. CASE \/ Leaves \/ SendData \/ \E l \in Launches : BridgeLoads(l)
           \/ \E source \in {"hostWindow", "otherWindow"}, origin \in Origins, fresh \in BOOLEAN :
                BridgeMessage(source, origin, fresh)
  BY <1>1, <1>3 DEF Leaves, SendData, BridgeLoads, BridgeMessage
<1>4. CASE \/ \E r \in Requests : PostAuth(r) \/ ClaimNonce(r) \/ MintSession(r) \/ FeedMiniAppData(r)
           \/ \E r \in Requests, knows \in BOOLEAN : ResolveRoomAuth(r, knows)
           \/ \E r \in Requests, s \in 1..MaxRequests : PostData(r, s)
  BY <1>1, <1>4 DEF PostAuth, ClaimNonce, MintSession, FeedMiniAppData, ResolveRoomAuth, PostData
<1> QED
  BY <1>2, <1>3, <1>4, AnswerLaunch, AnswerStores, AnswerClaims, AnswerClaimsAsync, AnswerPosts, AnswerFailed,
     AnswerRestarts DEF Next

-----------------------------------------------------------------------------
(* Where sendData goes. *)

LEMMA HostHolds ==
  ASSUME IInv, Next
  PROVE  HostInv'
<1>0. HostInv /\ page \in Page(Len(launched))
  BY DEF IInv, TypeOK
<1>1. ASSUME UNCHANGED <<setup, page, target>> PROVE HostInv'
  BY <1>0, <1>1 DEF HostInv
<1>2. CASE SendData
  <2>1. UNCHANGED <<setup, page>> /\ target' = target \cup {page.hostOrigin} /\ page.open
    BY <1>2 DEF SendData
  <2> QED
    BY <1>0, <2>1 DEF HostInv
<1>3. ASSUME NEW l \in Launches, BridgeLoads(l) PROVE HostInv'
  <2>1. UNCHANGED <<setup, target>> /\ target = {}
    BY <1>0, <1>3 DEF BridgeLoads, HostInv
  <2>2. page'.hostOrigin = IF setup.pinned THEN "host" ELSE "*"
    BY <1>0, <1>3 DEF BridgeLoads, Page
  <2> QED
    BY <2>1, <2>2 DEF HostInv
<1>4. ASSUME NEW source \in {"hostWindow", "otherWindow"}, NEW origin \in Origins, NEW fresh \in BOOLEAN,
             BridgeMessage(source, origin, fresh)
      PROVE  HostInv'
  <2>1. UNCHANGED <<setup, target>> /\ page.open /\ source = "hostWindow"
    BY <1>4 DEF BridgeMessage, Believes
  <2>2. /\ page'.open = page.open
        /\ page'.heard = page.heard \cup {origin}
        /\ page'.hostOrigin = IF page.hostOrigin = "*" /\ origin # "null" THEN origin ELSE page.hostOrigin
    BY <1>0, <1>4, <2>1 DEF BridgeMessage, Page
  <2>3. page'.open
    BY <2>1, <2>2
  <2>4. CASE setup.pinned
    BY <1>0, <2>1, <2>2, <2>3, <2>4 DEF HostInv
  <2>5. CASE ~setup.pinned
    BY <1>0, <2>1, <2>2, <2>3, <2>5 DEF HostInv
  <2> QED
    BY <2>4, <2>5
<1>5. CASE \/ Tick \/ Leaves \/ CreateMiniAppLaunch \/ WriteClaims \/ FlushOutbox
           \/ \E r \in Requests, knows \in BOOLEAN : ResolveRoomAuth(r, knows)
           \/ \E r \in Requests : PostAuth(r) \/ ClaimNonce(r) \/ MintSession(r) \/ FeedMiniAppData(r)
           \/ \E r \in Requests, s \in 1..MaxRequests : PostData(r, s)
  BY <1>1, <1>5 DEF Tick, Leaves, CreateMiniAppLaunch, WriteClaims, FlushOutbox, ResolveRoomAuth, PostAuth, ClaimNonce,
                    MintSession, FeedMiniAppData, PostData
<1>6. CASE \/ \E a \in Answerers, s \in 1..MaxRequests : AnswerQuery(a, s)
           \/ \E a \in Answerers : ClaimAsync(a) \/ AnswerSent(a)
           \/ \E a \in Answerers, taken, queued \in BOOLEAN : AnswerFails(a, taken, queued)
           \/ \E taken \in SUBSET Answerers : Restart(taken)
  BY <1>1, <1>6 DEF AnswerQuery, ClaimAsync, AnswerSent, AnswerFails, Restart
<1> QED
  BY <1>2, <1>3, <1>4, <1>5, <1>6 DEF Next

-----------------------------------------------------------------------------
(* The results. *)

LEMMA StepHolds == IInv /\ [Next]_vars => IInv'
<1> SUFFICES ASSUME IInv, [Next]_vars PROVE IInv'
  OBVIOUS
<1>1. CASE Next
  <2>1. TypeOK' /\ Links'
    BY <1>1, TypeHolds DEF IInv, AnswerInv
  <2>2. TradedOnce' /\ GateInv' /\ NoDataFromLeavers' /\ AnswerInv' /\ HostInv'
    BY <1>1, <2>1, TradeHolds, GateHolds, AnswerHolds, HostHolds DEF IInv
  <2> QED
    BY <2>1, <2>2 DEF IInv
<1>2. CASE UNCHANGED vars
  <2>1. TypeOK' /\ Links'
    BY <1>2 DEF IInv, TypeOK, Links, vars
  <2>2. TradedOnce'
    BY <1>2 DEF IInv, TradedOnce, Traded, Holding, Gating, OfLaunch, Spent, OutOfDate, Until, nonceStore, http, vars
  <2>3. AnswerInv'
    <3>1. now' \in Nat /\ now' >= now
      BY <1>2, Numbers DEF IInv, vars
    <3> QED
      BY <1>2, <3>1, AnswerQuiet DEF IInv, vars, answering, claims
  <2>4. HostInv' /\ NoDataFromLeavers' /\ GateInv'
    BY <1>2 DEF IInv, HostInv, NoDataFromLeavers, GateInv, vars
  <2> QED
    BY <2>1, <2>2, <2>3, <2>4 DEF IInv
<1> QED
  BY <1>1, <1>2

(* The inductive invariant holds in every reachable state. *)
THEOREM MiniAppInvariant == Spec => []IInv
BY InitHolds, StepHolds, PTL DEF Spec

(* The state keeps its types: requests, sessions and answers only refer to *)
(* launches that were made.                                                *)
THEOREM MiniAppTypes == Spec => []TypeOK
<1>1. IInv => TypeOK
  BY DEF IInv
<1> QED
  BY <1>1, MiniAppInvariant, PTL

(* singleUseLaunch: however requests interleave, across restarts, whatever *)
(* the lifetimes, capacities and clocks, a launch gives two sessions only  *)
(* if the memory store lost its nonce, or the nonce was recorded at a time *)
(* from which it is not kept for as long as the launch is accepted.        *)
THEOREM LaunchOnceHolds == Spec => []LaunchOnce
<1>1. IInv => LaunchOnce
  <2> SUFFICES ASSUME IInv, setup.nonceTtl >= InitTtl, NEW l \in Launches, l \notin evicted \cup untimely
               PROVE  ~(Cardinality({i \in DOMAIN sessions : sessions[i].launch = l}) > 1)
    BY DEF LaunchOnce
  <2> DEFINE S == {i \in DOMAIN sessions : sessions[i].launch = l}
  <2>1. DOMAIN sessions = 1..Len(sessions)
    BY DEF IInv, TypeOK
  <2>2. \A x, y \in S : x = y
    <3>1. CASE l \in 1..Len(launched)
      BY <2>1, <3>1 DEF IInv, TradedOnce, Traded, OfLaunch
    <3>2. CASE l \notin 1..Len(launched)
      <4>1. \A i \in 1..Len(sessions) : sessions[i] \in Session(Len(launched))
        BY DEF IInv, TypeOK
      <4> QED
        BY <2>1, <3>2, <4>1 DEF Session
    <3> QED
      BY <3>1, <3>2
  <2> HIDE DEF S
  <2>3. Cardinality(S) \in {0, 1}
    BY <2>2, AtMostOne
  <2> QED
    BY <2>3 DEF S
<1> QED
  BY <1>1, MiniAppInvariant, PTL

(* requireMembership: a user who had left when a request came gets no      *)
(* session by it, and nothing it posts reaches a handler, however long     *)
(* resolveRoomAuth takes, unless the resolver does not know the user.      *)
THEOREM NoDataFromLeaversHolds == Spec => []NoDataFromLeavers
<1>1. IInv => NoDataFromLeavers
  BY DEF IInv
<1> QED
  BY <1>1, MiniAppInvariant, PTL

(* A query is answered by one message, for all registries, capacities and  *)
(* lifetimes, however many handlers answer at once and across restarts,    *)
(* unless an answer that failed is posted all the same or a claim is lost. *)
THEOREM AnsweredOnceHolds == Spec => []AnsweredOnce
<1>1. IInv => AnsweredOnce
  <2> SUFFICES ASSUME IInv, NEW q \in Launches, posted[q] > 1 PROVE q \in doubtful \cup forgotten
    BY DEF AnsweredOnce
  <2>1. posted[q] \in Nat /\ AnswerInv
    BY DEF IInv, TypeOK
  <2>2. q \in 1..Len(launched)
    BY <2>1 DEF AnswerInv
  <2> QED
    BY <2>1, <2>2 DEF AnswerInv, Answered
<1> QED
  BY <1>1, MiniAppInvariant, PTL

(* sendData goes to the pinned host, or to one origin the host window has  *)
(* spoken from, whatever other windows say.                                *)
THEOREM DataGoesToHostHolds == Spec => []DataGoesToHost
<1>1. IInv => DataGoesToHost
  <2> SUFFICES ASSUME IInv PROVE DataGoesToHost
    OBVIOUS
  <2>1. HostInv
    BY DEF IInv
  <2>2. \A x, y \in target \ {"*"} : x = y
    BY <2>1 DEF HostInv
  <2>3. Cardinality(target \ {"*"}) \in {0, 1}
    BY <2>2, AtMostOne
  <2>4. Cardinality(target \ {"*"}) <= 1
    BY <2>3
  <2> QED
    BY <2>1, <2>4 DEF HostInv, DataGoesToHost
<1> QED
  BY <1>1, MiniAppInvariant, PTL
=============================================================================
