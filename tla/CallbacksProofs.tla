--------------------------- MODULE CallbacksProofs ---------------------------
(***************************************************************************)
(* The invariants of Callbacks hold for any number of edits, presses,      *)
(* restarts and processes, all lifetimes and capacities.                   *)
(***************************************************************************)
EXTENDS Callbacks, SequenceFacts

-----------------------------------------------------------------------------
(* The inductive invariant. *)

Minted == {t \in Ops : op[t].kind \in {"send", "replace"}}

(* Process p has the mark of the token, had it and lost it, or the token   *)
(* is over.                                                                *)
Marked(p, m, t) == HasKey(used[p], <<m, t>>, now) \/ <<p, <<m, t>>>> \in forgotten \/ op[t].exp <= now

(* Edit e was to take the place of the button, and has done so or is still *)
(* on its way, unless a text edit put the button back.                     *)
Replaces(e, t) ==
  t < e /\ op[e].kind \in {"replace", "remove"} /\ (~op[e].taken \/ t \notin shown \/ t \in restored)

Replaced(t) == op[t].taken /\ \E e \in Ops : Replaces(e, t)

(* Operations begin one after the other; what each of them stands for. *)
OpShape ==
  /\ \A d, e \in Ops : d < e /\ op[d].pc = "idle" => op[e].pc = "idle"
  /\ \A e \in Ops :
       /\ op[e].pc = "idle" => op[e] = NoOp
       /\ op[e].kind = "none" => op[e].pc = "idle"
       /\ op[e].pc = "reading" => op[e].kind = "text"
       /\ e \notin Minted => op[e].exp = 0
       /\ op[e].exp <= now + RegTtl
       /\ e \in Minted => op[e].board = {e}
       /\ op[e].kind = "remove" => op[e].board = {}
       /\ op[e].board \subseteq Minted
       /\ op[e].pc = "done" => op[e].taken
  /\ shown \subseteq Minted

(* What the registries hold: of minted tokens only, bound when their send  *)
(* has returned; the signed one has the token of every send under way.     *)
SideShape ==
  /\ \A p \in Procs, t \in Ops :
       /\ side[p][t].kept => t \in Minted
       /\ side[p][t].bound => t \in Minted /\ op[t].pc = "done"
  /\ Signed => \A t \in Minted : op[t].pc = "sending" => side[op[t].by][t].kept

(* A press is of a minted token; an async claim is of a single-use token,  *)
(* and one that was granted is on record.                                  *)
PressShape ==
  /\ \A r \in 1..Len(press) : press[r].tok \in Minted
  /\ \A r \in Presses, p \in Procs :
       /\ hand[r][p] # "new" => r \in 1..Len(press)
       /\ hand[r][p] = "claiming" => mode = "redis" /\ op[press[r].tok].single
       /\ hand[r][p] = "got" /\ mode = "redis" /\ op[press[r].tok].single => press[r].tok \in claims

(* A mark lasts as long as its token, and a dead one has a reason. *)
GoodEntry(m) ==
  /\ m.key[2] \in Minted
  /\ m.exp >= op[m.key[2]].exp
  /\ m.key[1] = "dead" => m.key[2] \in consumed \/ Replaced(m.key[2])

GoodEntries == {m \in Entry : GoodEntry(m)}

MarksGood == \A p \in Procs : used[p] \in Seq(GoodEntries) /\ usedDisk[p] \in Seq(GoodEntries)

(* A single-use token that was delivered. *)
Spent(t) ==
  /\ mode = "memory" => got[t] <= 1 /\ ~side[First][t].kept
  /\ mode = "file" => Marked(First, "dead", t) /\ (got[t] > 1 => <<First, <<"dead", t>>>> \in forgotten)
  /\ mode = "redis" => got[t] <= 1 /\ t \in claims

SpentOnce == \A t \in Ops : got[t] > 0 => t \in Minted /\ (op[t].single => Spent(t))

(* What a finished send of this life has put into the registry is there    *)
(* and bound, or was revoked; what an edit has replaced is dead.           *)
DoneFresh(t) == op[t].pc = "done" /\ op[t].fresh

StaleDead ==
  /\ \A t \in Minted : DoneFresh(t) =>
       /\ Signed => t \in OfMessage(op[t].by) \/ Marked(op[t].by, "dead", t)
       /\ ~Signed => ~side[op[t].by][t].kept \/ t \in OfMessage(op[t].by)
  /\ \A p \in Procs, t \in Ops : <<p, t>> \in stale =>
       /\ op[t].pc = "done"
       /\ Signed => Marked(p, "dead", t)
       /\ ~Signed => ~side[p][t].kept

(* What was answered is known to be. *)
AnsweredKnown ==
  \A p \in Procs, t \in Ops : <<p, t>> \in answered =>
    /\ t \in Minted
    /\ side[p][t].kept => side[p][t].ans
    /\ Signed => Marked(p, "ans", t)
    /\ mode = "redis" /\ op[t].single => t \in claims

(* A token that is not in the registry, or has no alias, was used up,      *)
(* replaced or dropped.                                                    *)
MintedKnown ==
  \A t \in Minted :
    /\ mode = "memory" => side[First][t].kept \/ t \in consumed \/ Replaced(t) \/ <<First, t>> \in dropped
    /\ mode = "file" => t \in alias[First] \/ Replaced(t) \/ <<First, t>> \in dropped
    /\ mode = "redis" => t \in aliasNet \/ Replaced(t)

(* What was delivered late was replaced or answered before. *)
LateShape == late \subseteq Procs \X Ops \X {"stale", "answered"}

CbInv ==
  /\ TypeOK /\ OpShape /\ SideShape /\ PressShape /\ MarksGood
  /\ SpentOnce /\ StaleDead /\ AnsweredKnown /\ MintedKnown
  /\ LateShape /\ DeadButtonsStayDead

-----------------------------------------------------------------------------
(* The store of marks. *)

(* AddAll of the first m keys. *)
AddFirst(store, keys, x, m) ==
  LET upTo[n \in 0..m] ==
        IF n = 0 THEN store ELSE AddKey(upTo[n - 1], keys[n], x, now, UsedCapacity)
  IN upTo[m]

(* Whatever every addition keeps, a series of them keeps. *)
LEMMA AddAllKeeps ==
  ASSUME NEW A, NEW z \in A, NEW keys, NEW m \in Nat, NEW x,
         \A i \in 1..m : \A y \in A : AddKey(y, keys[i], x, now, UsedCapacity) \in A
  PROVE  AddFirst(z, keys, x, m) \in A
<1> DEFINE g == [i \in 1..m |-> [y \in A |-> AddKey(y, keys[i], x, now, UsedCapacity)]]
           Is(f) == f = [n \in 0..m |->
                          IF n = 0 THEN z ELSE AddKey(f[n - 1], keys[n], x, now, UsedCapacity)]
<1>1. g \in [1..m -> [A -> A]]
  OBVIOUS
<1> HIDE DEF g
<1>2. PICK f \in [0..m -> A] : f[0] = z /\ \A i \in 1..m : f[i] = g[i][f[i - 1]]
  BY <1>1, RecursionExists
<1>3. ASSUME NEW i \in 1..m PROVE f[i] = AddKey(f[i - 1], keys[i], x, now, UsedCapacity)
  <2>1. f[i - 1] \in A
    BY <1>2
  <2> QED
    BY <1>2, <2>1 DEF g
<1>4. Is(f)
  BY <1>2, <1>3
<1> DEFINE c == CHOOSE h : Is(h)
<1>5. AddFirst(z, keys, x, m) = c[m]
  BY Zenon DEF AddFirst
<1>6. Is(c)
  BY <1>4
<1> HIDE DEF c, Is
<1>7. c[0] = z /\ \A i \in 1..m : c[i] = AddKey(c[i - 1], keys[i], x, now, UsedCapacity)
  BY <1>6 DEF Is
<1> DEFINE T == {n \in Nat : n <= m => c[n] \in A}
<1>8. 0 \in T
  BY <1>7
<1>9. ASSUME NEW n \in Nat, n \in T PROVE n + 1 \in T
  <2> SUFFICES ASSUME n + 1 <= m PROVE c[n + 1] \in A
    OBVIOUS
  <2>1. n + 1 \in 1..m /\ (n + 1) - 1 = n /\ c[n] \in A
    BY <1>9
  <2>2. c[n + 1] = AddKey(c[n], keys[n + 1], x, now, UsedCapacity)
    BY <1>7, <2>1
  <2> QED
    BY <2>1, <2>2
<1>10. Nat \subseteq T
  <2> HIDE DEF T
  <2> QED
    BY <1>8, <1>9, Induction
<1> QED
  BY <1>5, <1>10

(* The entries of a filled store are old ones and the new ones. *)
LEMMA AddAllFacts ==
  ASSUME NEW E, NEW store \in Seq(E), NEW K, NEW keys \in Seq(K), NEW x, now \in Nat,
         \A k \in K : [key |-> k, exp |-> x] \in E
  PROVE  AddAll(store, keys, x) \in Seq(E)
<1>1. Len(keys) \in Nat /\ UsedCapacity \in Nat \ {0}
  BY CallbackBounds
<1>2. ASSUME NEW i \in 1..Len(keys), NEW y \in Seq(E) PROVE AddKey(y, keys[i], x, now, UsedCapacity) \in Seq(E)
  <2>1. [key |-> keys[i], exp |-> x] \in E
    OBVIOUS
  <2> DEFINE k == keys[i]
             a == AddKey(y, k, x, now, UsedCapacity)
  <2> HIDE DEF k, a
  <2>2. a \in Seq(E)
    BY <1>1, <2>1, AddKeyFacts DEF a, k
  <2> QED
    BY <2>2 DEF a, k
<1> DEFINE A == Seq(E)
<1>3. store \in A /\ \A i \in 1..Len(keys) : \A y \in A : AddKey(y, keys[i], x, now, UsedCapacity) \in A
  BY <1>2
<1> HIDE DEF A
<1>4. AddFirst(store, keys, x, Len(keys)) \in A
  BY <1>1, <1>3, AddAllKeeps
<1>5. AddAll(store, keys, x) = AddFirst(store, keys, x, Len(keys))
  BY Zenon DEF AddAll, AddFirst
<1> QED
  BY <1>4, <1>5 DEF A

(* What the store has and should have, it has afterwards, or the loss is   *)
(* on record.                                                              *)
LEMMA MarkFacts ==
  ASSUME TypeOK, NEW p \in Procs, NEW K \in SUBSET Keys, NEW keys \in Seq(K), NEW x, Mark(p, keys, x),
         NEW E, used[p] \in Seq(E), \A k \in K : [key |-> k, exp |-> x] \in E
  PROVE  /\ used'[p] \in Seq(E) /\ used' = [used EXCEPT ![p] = used'[p]]
         /\ forgotten \subseteq forgotten' /\ forgotten' \subseteq Procs \X Keys
         /\ \A k : HasKey(used[p], k, now) => HasKey(used'[p], k, now) \/ <<p, k>> \in forgotten'
         /\ \A i \in 1..Len(keys) : HasKey(used'[p], keys[i], now) \/ <<p, keys[i]>> \in forgotten'
<1> DEFINE new == AddAll(used[p], keys, x)
           M == MarksOf(used[p]) \cup {keys[i] : i \in DOMAIN keys}
<1>1. used' = [used EXCEPT ![p] = new] /\ forgotten' = forgotten \cup Lost(p, M, new)
  BY Zenon DEF Mark
<1>2. used \in [Procs -> Seq(Entry)] /\ now \in Nat /\ forgotten \subseteq Procs \X Keys
  BY DEF TypeOK
<1>3. new \in Seq(E)
  BY <1>2, AddAllFacts
<1>4. used'[p] = new /\ used' = [used EXCEPT ![p] = used'[p]]
  BY <1>1, <1>2
<1>5. M \subseteq Keys
  <2>1. used[p] \in Seq(Entry)
    BY <1>2
  <2>2. ASSUME NEW k \in MarksOf(used[p]) PROVE k \in Keys
    <3>1. PICK i \in DOMAIN used[p] : k = used[p][i].key
      BY <2>2 DEF MarksOf
    <3>2. used[p][i] \in Entry
      BY <2>1, <3>1
    <3> QED
      BY <3>1, <3>2 DEF Entry
  <2> QED
    BY <2>2
<1>6. ASSUME NEW k, HasKey(used[p], k, now) PROVE k \in M
  BY <1>6 DEF HasKey, MarksOf
<1>7. ASSUME NEW i \in 1..Len(keys) PROVE keys[i] \in M
  OBVIOUS
<1> HIDE DEF new, M
<1>8. ASSUME NEW k \in M PROVE HasKey(used'[p], k, now) \/ <<p, k>> \in forgotten'
  BY <1>1, <1>4 DEF Lost
<1>9. forgotten \subseteq forgotten' /\ forgotten' \subseteq Procs \X Keys
  BY <1>1, <1>2, <1>5 DEF Lost
<1> QED
  BY <1>3, <1>4, <1>6, <1>7, <1>8, <1>9

(* What a restart or a write keeps. *)
LEMMA UnexpiredKeys ==
  ASSUME NEW E, NEW store \in Seq(E), now \in Nat
  PROVE  /\ Unexpired(store, now) \in Seq(E)
         /\ \A k : HasKey(store, k, now) => HasKey(Unexpired(store, now), k, now)
<1> DEFINE u == Unexpired(store, now)
<1>1. u \in Seq(E) /\ \A e : HasEntry(store, e) /\ e.exp > now => HasEntry(u, e)
  BY UnexpiredFacts
<1> HIDE DEF u
<1>2. ASSUME NEW k, HasKey(store, k, now) PROVE HasKey(u, k, now)
  <2>1. PICK i \in DOMAIN store : store[i].key = k /\ store[i].exp > now
    BY <1>2 DEF HasKey
  <2>2. HasEntry(store, store[i])
    BY <2>1 DEF HasEntry
  <2>3. PICK j \in 1..Len(u) : u[j] = store[i]
    BY <1>1, <2>1, <2>2 DEF HasEntry
  <2>4. j \in DOMAIN u
    BY <1>1, <2>3
  <2> QED
    BY <2>1, <2>3, <2>4 DEF HasKey
<1> QED
  BY <1>1, <1>2 DEF u

-----------------------------------------------------------------------------
(* What every step leaves as it was. *)

(* An operation that has begun keeps what it is. *)
OpKeeps(d) ==
  /\ op'[d].pc # "idle" /\ op'[d].by = op[d].by /\ op'[d].kind = op[d].kind
  /\ op'[d].exp = op[d].exp /\ op'[d].single = op[d].single
  /\ (op[d].pc = "done" => op'[d].pc = "done") /\ (op'[d].fresh => op[d].fresh)
  /\ (op[d].taken => op'[d].taken)

OpGrow == \A d \in Ops : op[d].pc # "idle" => OpKeeps(d)

(* Marks are lost on record only. *)
UsedStep ==
  /\ forgotten \subseteq forgotten'
  /\ \A p \in Procs : \A k : HasKey(used[p], k, now) => HasKey(used'[p], k, now) \/ <<p, k>> \in forgotten'

Grows ==
  /\ setup' = setup /\ now' >= now
  /\ consumed \subseteq consumed' /\ claims \subseteq claims'
  /\ dropped \subseteq dropped' /\ restored \subseteq restored'

Steps == TypeOK' /\ OpGrow /\ UsedStep /\ Grows

LEMMA NoChange ==
  /\ op' = op => OpGrow
  /\ UNCHANGED <<used, forgotten, now>> => UsedStep
  /\ used' = used /\ forgotten' = forgotten => UsedStep
  BY DEF OpGrow, OpKeeps, UsedStep

LEMMA TickSteps == ASSUME TypeOK, Tick PROVE Steps
<1>1. now \in Nat /\ now' = now + 1
  BY DEF Tick, TypeOK
<1>2. TypeOK'
  BY <1>1 DEF Tick, TypeOK, registry, history
<1> QED
  BY <1>1, <1>2, NoChange DEF Tick, Steps, Grows, registry, history

(* Fields of an operation that a step may set. *)
LEMMA OpFields ==
  ASSUME TypeOK, NEW e \in Ops, NEW r \in Operation, op' = [op EXCEPT ![e] = r], op[e].pc # "idle",
         r.pc # "idle", r.by = op[e].by, r.kind = op[e].kind, r.exp = op[e].exp, r.single = op[e].single,
         op[e].pc # "done", r.fresh = op[e].fresh, op[e].taken => r.taken
  PROVE  op' \in [Ops -> Operation] /\ OpGrow
<1>1. op \in [Ops -> Operation]
  BY DEF TypeOK
<1>2. op'[e] = r /\ \A d \in Ops : d # e => op'[d] = op[d]
  BY <1>1
<1>3. OpKeeps(e)
  BY <1>2 DEF OpKeeps
<1>4. \A d \in Ops : d # e /\ op[d].pc # "idle" => OpKeeps(d)
  BY <1>2 DEF OpKeeps
<1> QED
  BY <1>1, <1>3, <1>4 DEF OpGrow

LEMMA ReadSteps ==
  ASSUME TypeOK, NEW e \in Ops, NEW found \in BOOLEAN, ReadExistingKeyboard(e, found)
  PROVE  Steps /\ op' = [op EXCEPT ![e] = op'[e]] /\ op'[e] = [op[e] EXCEPT !.pc = "sending", !.board = op'[e].board]
         /\ op'[e].board \in {op[1].board, {}} /\ op[e].pc = "reading"
<1> DEFINE b == IF found THEN op[1].board ELSE {}
           r == [op[e] EXCEPT !.pc = "sending", !.board = b]
<1>0. op \in [Ops -> Operation] /\ 1 \in Ops /\ MaxOps \in Nat
  BY CallbackBounds DEF TypeOK, Ops
<1>1. op[e] \in Operation /\ op[1] \in Operation
  BY <1>0
<1>2. b \subseteq Ops
  BY <1>1 DEF Operation
<1>3. op' = [op EXCEPT ![e] = r] /\ op[e].pc = "reading"
  BY <1>0 DEF ReadExistingKeyboard
<1>4. r \in Operation /\ r.pc = "sending" /\ r.board = b
  BY <1>1, <1>2 DEF Operation
<1>5. r.by = op[e].by /\ r.kind = op[e].kind /\ r.exp = op[e].exp /\ r.single = op[e].single /\ r.fresh = op[e].fresh /\ r.taken = op[e].taken
  BY <1>1 DEF Operation
<1>6. op'[e] = r /\ op' = [op EXCEPT ![e] = op'[e]] /\ op'[e] = [op[e] EXCEPT !.pc = "sending", !.board = op'[e].board]
  BY <1>0, <1>3, <1>4
<1>7. op'[e].board \in {op[1].board, {}}
  BY <1>4, <1>6
<1> HIDE DEF r, b
<1>8. op' \in [Ops -> Operation] /\ OpGrow
  BY <1>3, <1>4, <1>5, OpFields
<1>9. TypeOK'
  BY <1>8 DEF ReadExistingKeyboard, TypeOK, registry, history
<1> QED
  BY <1>3, <1>6, <1>7, <1>8, <1>9, NoChange DEF ReadExistingKeyboard, Steps, Grows, registry, history, TypeOK

LEMMA TakesSteps ==
  ASSUME TypeOK, NEW e \in Ops, ServerTakes(e)
  PROVE  /\ Steps /\ op[e].pc # "idle" /\ ~op[e].taken /\ shown' = op[e].board
         /\ op' = [op EXCEPT ![e] = op'[e]] /\ op'[e] = [op[e] EXCEPT !.taken = TRUE]
<1> DEFINE r == [op[e] EXCEPT !.taken = TRUE]
<1>0. op \in [Ops -> Operation]
  BY DEF TypeOK
<1>1. op[e] \in Operation /\ op[e].board \subseteq Ops
  BY <1>0 DEF Operation
<1>2. op' = [op EXCEPT ![e] = r] /\ op[e].pc \in {"sending", "gone"} /\ ~op[e].taken /\ shown' = op[e].board
  BY <1>0 DEF ServerTakes
<1>3. r \in Operation /\ r.pc = op[e].pc /\ r.taken
  BY <1>1 DEF Operation
<1>4. r.by = op[e].by /\ r.kind = op[e].kind /\ r.exp = op[e].exp /\ r.single = op[e].single /\ r.fresh = op[e].fresh
  BY <1>1 DEF Operation
<1>5. op'[e] = r /\ op' = [op EXCEPT ![e] = op'[e]]
  BY <1>0, <1>2
<1>6. op' \in [Ops -> Operation] /\ OpGrow
  <2> HIDE DEF r
  <2> QED
    BY <1>2, <1>3, <1>4, OpFields
<1>7. restored \subseteq restored' /\ restored' \subseteq Ops
  BY <1>1 DEF ServerTakes, TypeOK
<1>8. TypeOK'
  BY <1>1, <1>2, <1>6, <1>7 DEF ServerTakes, TypeOK, registry
<1>9. UsedStep /\ Grows
  BY <1>7, NoChange DEF ServerTakes, Grows, registry, TypeOK
<1> QED
  BY <1>2, <1>5, <1>6, <1>8, <1>9 DEF Steps

LEMMA ThrowsSteps ==
  ASSUME TypeOK, NEW e \in Ops, SendThrows(e)
  PROVE  /\ Steps /\ op[e].pc = "sending"
         /\ op' = [op EXCEPT ![e] = op'[e]] /\ op'[e] = [op[e] EXCEPT !.pc = "gone"]
<1> DEFINE r == [op[e] EXCEPT !.pc = "gone"]
<1>0. op \in [Ops -> Operation]
  BY DEF TypeOK
<1>1. op[e] \in Operation
  BY <1>0
<1>2. op' = [op EXCEPT ![e] = r] /\ op[e].pc = "sending"
  BY <1>0 DEF SendThrows
<1>3. r \in Operation /\ r.pc = "gone" /\ r.taken = op[e].taken
  BY <1>1 DEF Operation
<1>4. r.by = op[e].by /\ r.kind = op[e].kind /\ r.exp = op[e].exp /\ r.single = op[e].single /\ r.fresh = op[e].fresh
  BY <1>1 DEF Operation
<1>5. op'[e] = r /\ op' = [op EXCEPT ![e] = op'[e]]
  BY <1>0, <1>2
<1>6. op' \in [Ops -> Operation] /\ OpGrow
  <2> HIDE DEF r
  <2> QED
    BY <1>2, <1>3, <1>4, OpFields
<1>8. TypeOK'
  BY <1>6 DEF SendThrows, TypeOK, registry, history
<1>9. UsedStep /\ Grows
  BY NoChange DEF SendThrows, Grows, registry, history, TypeOK
<1> QED
  BY <1>2, <1>5, <1>6, <1>8, <1>9 DEF Steps

(* The record that bindMessage leaves. *)
LEMMA ReturnsSteps ==
  ASSUME TypeOK, NEW e \in Ops, SendReturns(e)
  PROVE  /\ Steps /\ op[e].pc = "sending" /\ op[e].taken
         /\ op' = [op EXCEPT ![e] = op'[e]] /\ op'[e] = [op[e] EXCEPT !.pc = "done"]
         /\ \A q \in Procs, t \in Ops : q # op[e].by \/ t # e => side'[q][t] = side[q][t]
         /\ LET s == side[op[e].by][e]
                s1 == side'[op[e].by][e]
            IN IF e \in Minted /\ (Signed \/ s.kept) THEN s1.kept /\ s1.bound /\ s1.ans = s.ans ELSE s1 = s
<1> DEFINE r == [op[e] EXCEPT !.pc = "done"]
           q == op[e].by
           new == [kept |-> TRUE, bound |-> TRUE, ans |-> side[q][e].ans]
<1>0. op \in [Ops -> Operation] /\ side \in [Procs -> [Ops -> Record]]
  BY DEF TypeOK
<1>1. op[e] \in Operation
  BY <1>0
<1>2. op' = [op EXCEPT ![e] = r] /\ op[e].pc = "sending" /\ op[e].taken
  BY <1>0 DEF SendReturns
<1>3. r \in Operation /\ r.pc = "done" /\ r.taken = op[e].taken
  BY <1>1 DEF Operation
<1>4. r.by = op[e].by /\ r.kind = op[e].kind /\ r.exp = op[e].exp /\ r.single = op[e].single /\ r.fresh = op[e].fresh
  BY <1>1 DEF Operation
<1>5. op'[e] = r /\ op' = [op EXCEPT ![e] = op'[e]]
  BY <1>0, <1>2
<1>6. op' \in [Ops -> Operation] /\ OpGrow
  <2> HIDE DEF r
  <2> QED
    BY <1>2, <1>3, <1>4, OpFields
<1>7. q \in Procs /\ side[q][e] \in Record
  BY <1>0, <1>1 DEF Operation
<1>8. new \in Record
  BY <1>7 DEF Record
<1>9. side' = IF e \in Minted /\ (Signed \/ side[q][e].kept) THEN [side EXCEPT ![q][e] = new] ELSE side
  BY <1>0, <1>7 DEF SendReturns, Minted
<1> HIDE DEF q, new
<1>10. /\ side' \in [Procs -> [Ops -> Record]]
       /\ \A p \in Procs, t \in Ops : p # q \/ t # e => side'[p][t] = side[p][t]
       /\ side'[q][e] = IF e \in Minted /\ (Signed \/ side[q][e].kept) THEN new ELSE side[q][e]
  BY <1>0, <1>7, <1>8, <1>9
<1>11. TypeOK'
  BY <1>6, <1>10 DEF SendReturns, TypeOK, history
<1>12. UsedStep /\ Grows
  BY NoChange DEF SendReturns, Grows, history, TypeOK
<1>13. new.kept /\ new.bound /\ new.ans = side[q][e].ans
  BY DEF new
<1> QED
  BY <1>2, <1>5, <1>6, <1>10, <1>11, <1>12, <1>13 DEF Steps, q

(* One process's store changes. *)
LEMMA MarkSteps ==
  ASSUME TypeOK, NEW p \in Procs, NEW K \in SUBSET Keys, NEW keys \in Seq(K), NEW x \in Nat, Mark(p, keys, x)
  PROVE  used' \in [Procs -> Seq(Entry)] /\ forgotten' \subseteq Procs \X Keys /\ UsedStep
<1>1. used \in [Procs -> Seq(Entry)]
  BY DEF TypeOK
<1>2. used[p] \in Seq(Entry) /\ \A k \in K : [key |-> k, exp |-> x] \in Entry
  BY <1>1 DEF Entry
<1>3. /\ used'[p] \in Seq(Entry) /\ used' = [used EXCEPT ![p] = used'[p]]
      /\ forgotten \subseteq forgotten' /\ forgotten' \subseteq Procs \X Keys
      /\ \A k : HasKey(used[p], k, now) => HasKey(used'[p], k, now) \/ <<p, k>> \in forgotten'
  BY <1>2, MarkFacts
<1>4. used' \in [Procs -> Seq(Entry)] /\ \A q \in Procs \ {p} : used'[q] = used[q]
  BY <1>1, <1>3
<1> QED
  BY <1>3, <1>4 DEF UsedStep

LEMMA PersistSteps ==
  ASSUME TypeOK, NEW p \in Procs, PersistUsed(p)
  PROVE  Steps /\ usedDisk' = [usedDisk EXCEPT ![p] = Unexpired(used[p], now)]
<1>1. used \in [Procs -> Seq(Entry)] /\ usedDisk \in [Procs -> Seq(Entry)] /\ now \in Nat
  BY DEF TypeOK
<1>2. Unexpired(used[p], now) \in Seq(Entry)
  BY <1>1, UnexpiredKeys
<1>3. usedDisk' = [usedDisk EXCEPT ![p] = Unexpired(used[p], now)] /\ usedDisk' \in [Procs -> Seq(Entry)]
  BY <1>1, <1>2 DEF PersistUsed
<1>4. TypeOK'
  BY <1>3 DEF PersistUsed, TypeOK, history
<1> QED
  BY <1>1, <1>3, <1>4, NoChange DEF PersistUsed, Steps, Grows, history

LEMMA AliasSteps ==
  ASSUME TypeOK, NEW p \in Procs, PersistAliases(p)
  PROVE  Steps
<1>1. alias \in [Procs -> SUBSET Ops] /\ aliasDisk \in [Procs -> SUBSET Ops] /\ now \in Nat
  BY DEF TypeOK
<1>2. aliasDisk' \in [Procs -> SUBSET Ops]
  BY <1>1 DEF PersistAliases
<1>3. TypeOK'
  BY <1>2 DEF PersistAliases, TypeOK, history
<1> QED
  BY <1>1, <1>3, NoChange DEF PersistAliases, Steps, Grows, history

LEMMA RestartSteps ==
  ASSUME TypeOK, NEW p \in Procs, NEW clean \in BOOLEAN, Restart(p, clean)
  PROVE  /\ Steps
         /\ used'[p] \in {Unexpired(used[p], now), Unexpired(usedDisk[p], now)} /\ usedDisk'[p] = used'[p]
         /\ \A q \in Procs \ {p} : used'[q] = used[q] /\ usedDisk'[q] = usedDisk[q]
         /\ \A d \in Ops : /\ op'[d].board = op[d].board /\ op'[d].taken = op[d].taken
                           /\ op[d].pc = "idle" => op'[d] = op[d]
                           /\ op'[d].pc \in {op[d].pc, "gone"}
                           /\ op[d].by = p /\ op[d].pc # "idle" => ~op'[d].fresh /\ op'[d].pc \in {"done", "gone"}
         /\ \A t \in Ops : side'[p][t] = Absent
         /\ \A q \in Procs \ {p} : side'[q] = side[q]
         /\ \A t \in Ops : ~Signed /\ side[p][t].kept => <<p, t>> \in dropped'
         /\ \A t \in Ops : Signed /\ t \in alias[p] => t \in alias'[p] \/ <<p, t>> \in dropped'
         /\ \A q \in Procs \ {p} : alias'[q] = alias[q]
         /\ \A r \in Presses, q \in Procs : hand'[r][q] = hand[r][q] \/ (hand'[r][q] = "refused" /\ hand[r][q] # "new")
<1> DEFINE kept == IF clean THEN Unexpired(used[p], now) ELSE Unexpired(usedDisk[p], now)
           names == IF mode # "file" THEN {} ELSE IF clean THEN alias[p] ELSE aliasDisk[p]
<1>1. /\ used' = [used EXCEPT ![p] = kept] /\ usedDisk' = [usedDisk EXCEPT ![p] = kept]
      /\ alias' = [alias EXCEPT ![p] = names] /\ aliasDisk' = [aliasDisk EXCEPT ![p] = names]
      /\ forgotten' = forgotten \cup Lost(p, MarksOf(used[p]), kept)
      /\ dropped' = dropped \cup {<<p, t>> : t \in {u \in Ops : IF Signed THEN u \in alias[p] \ names
                                                                ELSE side[p][u].kept}}
  BY Zenon DEF Restart
<1>2. /\ used \in [Procs -> Seq(Entry)] /\ usedDisk \in [Procs -> Seq(Entry)] /\ now \in Nat
      /\ alias \in [Procs -> SUBSET Ops] /\ aliasDisk \in [Procs -> SUBSET Ops]
      /\ forgotten \subseteq Procs \X Keys /\ dropped \subseteq Procs \X Ops
  BY DEF TypeOK
<1>3. used[p] \in Seq(Entry) /\ usedDisk[p] \in Seq(Entry) /\ kept \in {Unexpired(used[p], now), Unexpired(usedDisk[p], now)}
  BY <1>2
<1>4. kept \in Seq(Entry)
  BY <1>2, <1>3, UnexpiredKeys
<1>5. names \subseteq Ops
  BY <1>2
<1>6. MarksOf(used[p]) \subseteq Keys
  <2> SUFFICES ASSUME NEW k \in MarksOf(used[p]) PROVE k \in Keys
    OBVIOUS
  <2>1. PICK i \in DOMAIN used[p] : k = used[p][i].key
    BY DEF MarksOf
  <2>2. used[p][i] \in Entry
    BY <1>3, <2>1
  <2> QED
    BY <2>1, <2>2 DEF Entry
<1>7. ASSUME NEW k, HasKey(used[p], k, now) PROVE k \in MarksOf(used[p])
  BY <1>7 DEF HasKey, MarksOf
<1> HIDE DEF kept, names
<1>8. /\ used' \in [Procs -> Seq(Entry)] /\ usedDisk' \in [Procs -> Seq(Entry)]
      /\ used'[p] = kept /\ usedDisk'[p] = kept
      /\ \A q \in Procs \ {p} : used'[q] = used[q] /\ usedDisk'[q] = usedDisk[q]
  BY <1>1, <1>2, <1>4
<1>9. forgotten' \subseteq Procs \X Keys /\ UsedStep
  <2>1. \A k \in MarksOf(used[p]) : HasKey(used'[p], k, now) \/ <<p, k>> \in forgotten'
    BY <1>1, <1>8 DEF Lost
  <2> QED
    BY <1>1, <1>2, <1>6, <1>7, <1>8, <2>1 DEF UsedStep, Lost
<1>10. /\ alias' \in [Procs -> SUBSET Ops] /\ aliasDisk' \in [Procs -> SUBSET Ops]
       /\ alias'[p] = names /\ \A q \in Procs \ {p} : alias'[q] = alias[q]
  BY <1>1, <1>2, <1>5
<1>11. /\ dropped \subseteq dropped' /\ dropped' \subseteq Procs \X Ops
       /\ \A t \in Ops : ~Signed /\ side[p][t].kept => <<p, t>> \in dropped'
       /\ \A t \in Ops : Signed /\ t \in alias[p] => t \in alias'[p] \/ <<p, t>> \in dropped'
  BY <1>1, <1>2, <1>10
<1>12. op \in [Ops -> Operation]
  BY DEF TypeOK
<1>13. ASSUME NEW d \in Ops
       PROVE  /\ op'[d] \in Operation
              /\ op'[d].board = op[d].board /\ op'[d].taken = op[d].taken
              /\ op[d].pc = "idle" => op'[d] = op[d]
              /\ op'[d].pc \in {op[d].pc, "gone"}
              /\ op[d].by = p /\ op[d].pc # "idle" => ~op'[d].fresh /\ op'[d].pc \in {"done", "gone"}
              /\ op[d].pc # "idle" => OpKeeps(d)
  <2> DEFINE r == [op[d] EXCEPT !.fresh = FALSE, !.pc = IF @ = "done" THEN @ ELSE "gone"]
  <2>1. op'[d] = IF op[d].by # p \/ op[d].pc = "idle" THEN op[d] ELSE r
    BY DEF Restart
  <2>2. op[d] \in Operation
    BY <1>12
  <2>3. CASE op[d].by # p \/ op[d].pc = "idle"
    <3>1. op'[d] = op[d]
      BY <2>1, <2>3
    <3> QED
      BY <2>2, <2>3, <3>1 DEF OpKeeps
  <2>4. CASE ~(op[d].by # p \/ op[d].pc = "idle")
    <3>1. op'[d] = r
      BY <2>1, <2>4
    <3>2. /\ r \in Operation /\ r.fresh = FALSE /\ r.pc = IF op[d].pc = "done" THEN "done" ELSE "gone"
          /\ r.by = op[d].by /\ r.kind = op[d].kind /\ r.exp = op[d].exp /\ r.single = op[d].single
          /\ r.board = op[d].board /\ r.taken = op[d].taken
      BY <2>2 DEF Operation
    <3> HIDE DEF r
    <3> QED
      BY <2>4, <3>1, <3>2 DEF OpKeeps
  <2> QED
    BY <2>3, <2>4
<1>14. op' \in [Ops -> Operation] /\ OpGrow
  <2>1. op' = [e \in Ops |-> op'[e]]
    BY DEF Restart
  <2> QED
    BY <1>13, <2>1 DEF OpGrow
<1>15. side \in [Procs -> [Ops -> Record]] /\ Absent \in Record
  BY DEF TypeOK, Absent, Record
<1>16. /\ side' \in [Procs -> [Ops -> Record]]
       /\ \A t \in Ops : side'[p][t] = Absent
       /\ \A q \in Procs \ {p} : side'[q] = side[q]
  BY <1>15 DEF Restart
<1>17. /\ hand' \in [Presses -> [Procs -> {"new", "claiming", "got", "refused", "answered"}]]
       /\ \A r \in Presses, q \in Procs : hand'[r][q] = hand[r][q] \/ (hand'[r][q] = "refused" /\ hand[r][q] # "new")
  <2>1. hand' = [r \in Presses |-> [hand[r] EXCEPT ![p] = IF @ \in {"claiming", "got"} THEN "refused" ELSE @]]
    BY Zenon DEF Restart
  <2>2. hand \in [Presses -> [Procs -> {"new", "claiming", "got", "refused", "answered"}]]
    BY DEF TypeOK
  <2> DEFINE H == {"new", "claiming", "got", "refused", "answered"}
  <2>3. ASSUME NEW r \in Presses
        PROVE  hand'[r] \in [Procs -> H] /\ \A q \in Procs : hand'[r][q] = hand[r][q] \/ (hand'[r][q] = "refused" /\ hand[r][q] # "new")
    <3> DEFINE v == IF hand[r][p] \in {"claiming", "got"} THEN "refused" ELSE hand[r][p]
    <3>1. hand[r] \in [Procs -> H]
      BY <2>2
    <3>2. hand'[r] = [hand[r] EXCEPT ![p] = v]
      BY <2>1, <3>1
    <3>3. v \in H /\ (v = hand[r][p] \/ (v = "refused" /\ hand[r][p] # "new"))
      BY <3>1
    <3> HIDE DEF v
    <3> QED
      BY <3>1, <3>2, <3>3
  <2>4. hand' = [r \in Presses |-> hand'[r]]
    BY <2>1
  <2> HIDE DEF H
  <2>5. hand' \in [Presses -> [Procs -> H]]
    BY <2>3, <2>4
  <2> QED
    BY <2>3, <2>5 DEF H
<1>18. TypeOK'
  <2>1. restarts \in Nat /\ restarts' = restarts + 1
    BY Zenon DEF Restart, TypeOK
  <2>2. restarts' \in Nat
    BY <2>1
  <2> QED
    BY <1>8, <1>9, <1>10, <1>11, <1>14, <1>16, <1>17, <2>2 DEF Restart, TypeOK
<1>19. Grows
  <2>1. UNCHANGED <<setup, now, claims, consumed, restored>>
    BY Zenon DEF Restart
  <2> QED
    BY <1>2, <1>11, <2>1 DEF Grows
<1>20. used'[p] \in {Unexpired(used[p], now), Unexpired(usedDisk[p], now)}
  BY <1>3, <1>8
<1> QED
  BY <1>8, <1>9, <1>10, <1>11, <1>13, <1>14, <1>16, <1>17, <1>18, <1>19, <1>20 DEF Steps

Mints(kind) == kind \in {"send", "replace"}
IssuedRecord == [kept |-> TRUE, bound |-> FALSE, ans |-> FALSE]

(* The registry after tokenizeKeyboard: the revoked tokens are gone, the   *)
(* new one is there, and what else is gone was dropped.                    *)
BegunSide(p, e, kind, revoked) ==
  /\ \A q \in Procs \ {p} : side'[q] = side[q]
  /\ Mints(kind) => side'[p][e] = IssuedRecord
  /\ \A t \in Ops : t # e \/ ~Mints(kind) =>
       /\ side'[p][t] \in {side[p][t], Absent}
       /\ t \in revoked => side'[p][t] = Absent
       /\ t \notin revoked /\ Signed => side'[p][t] = side[p][t]
       /\ t \notin revoked /\ side[p][t].kept => side'[p][t].kept \/ <<p, t>> \in dropped'

LEMMA BeginSide ==
  ASSUME TypeOK, NEW p \in Procs, NEW e \in Ops, NEW kind, NEW single, NEW revoked \in SUBSET Ops,
         Begin(p, e, kind, single, revoked)
  PROVE  /\ side' \in [Procs -> [Ops -> Record]]
         /\ BegunSide(p, e, kind, revoked)
         /\ dropped \subseteq dropped' /\ dropped' \subseteq Procs \X Ops
<1> DEFINE before == [t \in Ops |-> IF t \in revoked THEN Absent ELSE side[p][t]]
           after == IF Mints(kind) THEN Issue(before, e) ELSE before
<1>1. /\ side' = [side EXCEPT ![p] = after]
      /\ dropped' = dropped \cup {<<p, t>> : t \in {u \in Ops : before[u].kept /\ ~after[u].kept}}
  BY Zenon DEF Begin, Mints
<1>2. side \in [Procs -> [Ops -> Record]] /\ dropped \subseteq Procs \X Ops
  BY DEF TypeOK
<1>3. Absent \in Record /\ IssuedRecord \in Record
  BY DEF Absent, Record, IssuedRecord
<1>4. before \in [Ops -> Record]
  BY <1>2, <1>3
<1>5. ASSUME NEW t \in Ops PROVE before[t] = IF t \in revoked THEN Absent ELSE side[p][t]
  OBVIOUS
<1> HIDE DEF before
<1>6. Issue(before, e) = IF Signed THEN [before EXCEPT ![e] = IssuedRecord] ELSE IssueMemory(before, e)
  BY Zenon DEF Issue, IssuedRecord
<1>7. IssueMemory(before, e) = [t \in Ops |-> IF t = e THEN IssuedRecord ELSE IF t \in Pruned(before) THEN before[t] ELSE Absent]
  BY Zenon DEF IssueMemory, IssuedRecord
<1>8. CASE Mints(kind)
  <2>1. after = Issue(before, e)
    BY <1>8
  <2> HIDE DEF after
  <2>2. /\ after \in [Ops -> Record] /\ after[e] = IssuedRecord
        /\ \A t \in Ops \ {e} : after[t] \in {before[t], Absent} /\ (Signed => after[t] = before[t])
    BY <1>3, <1>4, <1>6, <1>7, <2>1
  <2>3. side'[p] = after /\ side' \in [Procs -> [Ops -> Record]] /\ \A q \in Procs \ {p} : side'[q] = side[q]
    BY <1>1, <1>2, <2>2
  <2>4. \A t \in Ops : before[t].kept => after[t].kept \/ <<p, t>> \in dropped'
    BY <1>1
  <2> QED
    BY <1>1, <1>2, <1>5, <1>8, <2>2, <2>3, <2>4 DEF BegunSide
<1>9. CASE ~Mints(kind)
  <2>1. after = before
    BY <1>9
  <2> HIDE DEF after
  <2>2. side'[p] = before /\ side' \in [Procs -> [Ops -> Record]] /\ \A q \in Procs \ {p} : side'[q] = side[q]
    BY <1>1, <1>2, <1>4, <2>1
  <2> QED
    BY <1>1, <1>2, <1>5, <1>9, <2>1, <2>2 DEF BegunSide
<1> QED
  BY <1>8, <1>9

(* The operation that begins. *)
BegunOp(p, e, kind) ==
  /\ op' = [op EXCEPT ![e] = op'[e]]
  /\ op'[e].pc \in {"reading", "sending"} /\ op'[e].by = p /\ op'[e].kind = kind /\ ~op'[e].taken
  /\ op'[e].pc = "reading" => kind = "text"
  /\ op'[e].exp = (IF Mints(kind) THEN now + RegTtl ELSE 0)
  /\ op'[e].board = (IF Mints(kind) THEN {e} ELSE {})

LEMMA BeginOp ==
  ASSUME TypeOK, NEW p \in Procs, NEW e \in Ops, NEW kind \in {"send", "replace", "remove", "text"},
         NEW single \in BOOLEAN, NEW revoked, op[e].pc = "idle", Begin(p, e, kind, single, revoked)
  PROVE  op' \in [Ops -> Operation] /\ OpGrow /\ BegunOp(p, e, kind)
<1> DEFINE r == [pc |-> IF kind = "text" THEN "reading" ELSE "sending", by |-> p, kind |-> kind,
                 fresh |-> TRUE, exp |-> IF Mints(kind) THEN now + RegTtl ELSE 0, single |-> Mints(kind) /\ single,
                 board |-> IF Mints(kind) THEN {e} ELSE {}, taken |-> FALSE]
<1>1. op' = [op EXCEPT ![e] = r]
  BY Zenon DEF Begin, Mints
<1>2. op \in [Ops -> Operation] /\ now \in Nat /\ RegTtl \in Nat
  BY CallbackBounds DEF TypeOK
<1>3. /\ r.pc \in {"reading", "sending"} /\ r.by = p /\ r.kind = kind /\ ~r.taken
      /\ r.pc = "reading" => kind = "text"
      /\ r.exp = (IF Mints(kind) THEN now + RegTtl ELSE 0)
      /\ r.board = (IF Mints(kind) THEN {e} ELSE {})
  OBVIOUS
<1>4. r \in Operation
  <2>1. (IF Mints(kind) THEN now + RegTtl ELSE 0) \in Nat
    BY <1>2
  <2>2. (IF Mints(kind) THEN {e} ELSE {}) \in SUBSET Ops
    OBVIOUS
  <2>3. (Mints(kind) /\ single) \in BOOLEAN
    BY DEF Mints
  <2>4. (IF kind = "text" THEN "reading" ELSE "sending") \in {"idle", "reading", "sending", "done", "gone"}
    OBVIOUS
  <2> DEFINE a == IF Mints(kind) THEN now + RegTtl ELSE 0
             b == IF Mints(kind) THEN {e} ELSE {}
             c == Mints(kind) /\ single
             d == IF kind = "text" THEN "reading" ELSE "sending"
  <2> HIDE DEF a, b, c, d
  <2>5. a \in Nat /\ b \in SUBSET Ops /\ c \in BOOLEAN /\ d \in {"idle", "reading", "sending", "done", "gone"}
    BY <2>1, <2>2, <2>3, <2>4 DEF a, b, c, d
  <2>6. [pc |-> d, by |-> p, kind |-> kind, fresh |-> TRUE, exp |-> a, single |-> c, board |-> b, taken |-> FALSE] \in Operation
    BY <2>5 DEF Operation
  <2> QED
    BY <2>6 DEF a, b, c, d
<1> HIDE DEF r
<1>5. op' \in [Ops -> Operation] /\ op'[e] = r /\ \A d \in Ops \ {e} : op'[d] = op[d]
  BY <1>1, <1>2, <1>4
<1>6. OpGrow
  <2> SUFFICES ASSUME NEW d \in Ops, op[d].pc # "idle" PROVE OpKeeps(d)
    BY DEF OpGrow
  <2>1. op'[d] = op[d]
    BY <1>5
  <2> QED
    BY <2>1 DEF OpKeeps
<1>7. op' = [op EXCEPT ![e] = op'[e]]
  BY <1>1, <1>5
<1> QED
  BY <1>3, <1>5, <1>6, <1>7 DEF BegunOp

(* The aliases. *)
BegunAlias(p, e, kind, revoked) ==
  /\ alias' = [alias EXCEPT ![p] = (alias[p] \ revoked) \cup (IF Mints(kind) THEN {e} ELSE {})]
  /\ mode = "redis" => aliasNet' = (aliasNet \ revoked) \cup (IF Mints(kind) THEN {e} ELSE {})

(* The blacklist. *)
LEMMA RevokeFacts ==
  ASSUME TypeOK, NEW p \in Procs, NEW ts \in SUBSET Ops, Revoke(p, ts),
         NEW E, used[p] \in Seq(E), \A t \in ts : [key |-> <<"dead", t>>, exp |-> now + RegTtl] \in E
  PROVE  /\ used'[p] \in Seq(E) /\ used' \in [Procs -> Seq(Entry)] /\ \A q \in Procs \ {p} : used'[q] = used[q]
         /\ forgotten' \subseteq Procs \X Keys /\ UsedStep
         /\ Signed => \A t \in ts : HasKey(used'[p], <<"dead", t>>, now) \/ <<p, <<"dead", t>>>> \in forgotten'
<1>0. used \in [Procs -> Seq(Entry)] /\ now \in Nat /\ forgotten \subseteq Procs \X Keys
  BY DEF TypeOK
<1>1. CASE Signed
  <2> DEFINE K == {"dead"} \X ts
             x == now + RegTtl
  <2>1. PICK keys \in Listings(ts) : Mark(p, keys, x)
    BY <1>1, Zenon DEF Revoke
  <2>2. x \in Nat /\ K \in SUBSET Keys
    BY <1>0, CallbackBounds DEF Keys
  <2>3. IsFiniteSet(ts)
    <3>1. IsFiniteSet(Ops)
      BY CallbackBounds, FS_Interval DEF Ops
    <3> QED
      BY <3>1, FS_Subset
  <2>4. Cardinality(ts) \in Nat
    BY <2>3, FS_CardinalityType
  <2>5. keys \in [1..Cardinality(ts) -> K] /\ \A t \in ts : \E i \in DOMAIN keys : keys[i][2] = t
    BY <2>1 DEF Listings
  <2>6. keys \in Seq(K) /\ DOMAIN keys = 1..Len(keys)
    BY <2>4, <2>5
  <2>7. ASSUME NEW k \in K PROVE [key |-> k, exp |-> x] \in E
    <3>1. PICK t \in ts : k = <<"dead", t>>
      OBVIOUS
    <3> QED
      BY <3>1
  <2>8. ASSUME NEW t \in ts PROVE \E i \in 1..Len(keys) : keys[i] = <<"dead", t>>
    <3>1. PICK i \in DOMAIN keys : keys[i][2] = t
      BY <2>5
    <3>2. keys[i] \in K
      BY <2>5, <3>1
    <3>3. keys[i] = <<"dead", t>>
      BY <3>1, <3>2
    <3> QED
      BY <2>6, <3>1, <3>3
  <2> HIDE DEF K, x
  <2>9. UsedStep /\ used' \in [Procs -> Seq(Entry)] /\ forgotten' \subseteq Procs \X Keys
    BY <2>1, <2>2, <2>6, MarkSteps
  <2>10. /\ used'[p] \in Seq(E) /\ used' = [used EXCEPT ![p] = used'[p]]
         /\ \A i \in 1..Len(keys) : HasKey(used'[p], keys[i], now) \/ <<p, keys[i]>> \in forgotten'
    BY <2>1, <2>2, <2>6, <2>7, MarkFacts
  <2>11. \A q \in Procs \ {p} : used'[q] = used[q]
    BY <1>0, <2>10
  <2> QED
    BY <2>8, <2>9, <2>10, <2>11
<1>2. CASE ~Signed
  <2>1. used' = used /\ forgotten' = forgotten
    BY <1>2, Zenon DEF Revoke
  <2> QED
    BY <1>0, <1>2, <2>1, NoChange
<1> QED
  BY <1>1, <1>2

(* Types of an operation that begins. *)
LEMMA BeginSteps ==
  ASSUME TypeOK, NEW p \in Procs, NEW e \in Ops, NEW kind \in {"send", "replace", "remove", "text"},
         NEW single \in BOOLEAN, NEW revoked \in SUBSET Ops, op[e].pc = "idle", Begin(p, e, kind, single, revoked),
         UNCHANGED <<setup, now, shown, aliasDisk, usedDisk, claims, press, hand, restarts, got, consumed, answered, restored>>,
         stale' \subseteq Procs \X Ops
  PROVE  /\ Steps /\ BegunOp(p, e, kind) /\ BegunSide(p, e, kind, revoked) /\ BegunAlias(p, e, kind, revoked)
         /\ Revoke(p, revoked)
<1>1. Revoke(p, revoked)
  BY Zenon DEF Begin
<1>2. BegunAlias(p, e, kind, revoked) /\ aliasNet' \in {aliasNet, (aliasNet \ revoked) \cup (IF Mints(kind) THEN {e} ELSE {})}
  BY DEF Begin, BegunAlias, Mints
<1>3. alias' \in [Procs -> SUBSET Ops] /\ aliasNet' \subseteq Ops
  BY <1>2 DEF TypeOK, BegunAlias
<1>4. used' \in [Procs -> Seq(Entry)] /\ forgotten' \subseteq Procs \X Keys /\ UsedStep
  <2>1. used \in [Procs -> Seq(Entry)] /\ now + RegTtl \in Nat
    BY CallbackBounds DEF TypeOK
  <2>2. ASSUME NEW t \in revoked PROVE [key |-> <<"dead", t>>, exp |-> now + RegTtl] \in Entry
    BY <2>1 DEF Entry, Keys
  <2>3. used[p] \in Seq(Entry)
    BY <2>1
  <2> QED
    BY <1>1, <2>2, <2>3, RevokeFacts
<1>5. op' \in [Ops -> Operation] /\ OpGrow /\ BegunOp(p, e, kind)
  BY BeginOp
<1>6. /\ side' \in [Procs -> [Ops -> Record]] /\ BegunSide(p, e, kind, revoked)
      /\ dropped \subseteq dropped' /\ dropped' \subseteq Procs \X Ops
  BY BeginSide
<1>7. TypeOK'
  BY <1>3, <1>4, <1>5, <1>6 DEF TypeOK
<1>8. Grows
  BY <1>6 DEF Grows, TypeOK
<1> QED
  BY <1>1, <1>2, <1>4, <1>5, <1>6, <1>7, <1>8 DEF Steps

(* A send or an edit begins: what the invariant's parts need of it. *)
Begins(p, e, kind, revoked) ==
  /\ Steps /\ BegunOp(p, e, kind) /\ BegunSide(p, e, kind, revoked) /\ BegunAlias(p, e, kind, revoked)
  /\ Revoke(p, revoked)
  /\ p \in Active /\ op[e].pc = "idle" /\ kind \in {"send", "replace", "remove", "text"}
  /\ \A d \in 1..(e - 1) : op[d].pc # "idle"
  /\ revoked = {} \/ (revoked = OfMessage(p) /\ kind \in {"replace", "remove"})
  /\ \A q \in Procs, t \in Ops : <<q, t>> \in stale' =>
       <<q, t>> \in stale \/ (q = p /\ DoneFresh(t) /\ op[t].by = p /\ revoked = OfMessage(p))
  /\ UNCHANGED <<setup, now, shown, usedDisk, claims, press, hand, got, consumed, answered, late, restored>>

LEMMA SendBegins ==
  ASSUME TypeOK, NEW p \in Procs, NEW single \in BOOLEAN, SendKeyboard(p, single)
  PROVE  1 \in Ops /\ Begins(p, 1, "send", {})
<1>1. /\ p \in Active /\ NextOp(1) /\ Begin(p, 1, "send", single, {})
      /\ UNCHANGED <<setup, now, shown, aliasDisk, usedDisk, claims, press, hand, restarts, got, consumed, stale, answered, late, restored>>
  BY Zenon DEF SendKeyboard
<1>2. 1 \in Ops
  <2>1. setup \in Setups
    BY DEF TypeOK
  <2>2. setup.ops \in 0..MaxOps /\ MaxOps \in Nat
    BY <2>1, CallbackBounds
  <2>3. 1 <= setup.ops
    BY <1>1 DEF NextOp
  <2> QED
    BY <2>2, <2>3 DEF Ops
<1>3. op[1].pc = "idle" /\ \A d \in 1..(1 - 1) : op[d].pc # "idle"
  BY <1>1 DEF NextOp
<1>4. stale' \subseteq Procs \X Ops /\ {} \in SUBSET Ops
  BY <1>1 DEF TypeOK
<1>5. /\ Steps /\ BegunOp(p, 1, "send") /\ BegunSide(p, 1, "send", {}) /\ BegunAlias(p, 1, "send", {})
      /\ Revoke(p, {})
  BY <1>1, <1>2, <1>3, <1>4, BeginSteps
<1> QED
  BY <1>1, <1>2, <1>3, <1>5 DEF Begins

LEMMA EditBegins ==
  ASSUME TypeOK, NEW p \in Procs, NEW e \in Ops, NEW kind \in {"replace", "remove", "text"}, EditMessage(p, e, kind)
  PROVE  \E revoked \in SUBSET Ops : Begins(p, e, kind, revoked)
<1> DEFINE revoked == IF kind = "text" THEN {} ELSE OfMessage(p)
           dead == IF kind = "text" THEN {} ELSE {d \in 1..(e - 1) : op[d].pc = "done" /\ op[d].by = p /\ op[d].fresh}
<1>1. /\ p \in Active /\ NextOp(e) /\ Begin(p, e, kind, FALSE, revoked)
      /\ stale' = stale \cup {<<p, t>> : t \in dead}
      /\ UNCHANGED <<setup, now, shown, aliasDisk, usedDisk, claims, press, hand, restarts, got, consumed, answered, late, restored>>
  BY Zenon DEF EditMessage
<1>2. op[e].pc = "idle" /\ \A d \in 1..(e - 1) : op[d].pc # "idle"
  BY <1>1 DEF NextOp
<1>3. revoked \in SUBSET Ops
  BY DEF OfMessage
<1>4. ASSUME NEW t \in dead PROVE t \in Ops /\ DoneFresh(t) /\ op[t].by = p /\ revoked = OfMessage(p)
  <2>1. kind # "text" /\ t \in 1..(e - 1) /\ op[t].pc = "done" /\ op[t].by = p /\ op[t].fresh
    OBVIOUS
  <2>2. t \in Ops
    BY <2>1, CallbackBounds DEF Ops
  <2> QED
    BY <2>1, <2>2 DEF DoneFresh
<1>5. revoked = {} \/ (revoked = OfMessage(p) /\ kind \in {"replace", "remove"})
  OBVIOUS
<1> HIDE DEF revoked, dead
<1>6. stale' \subseteq Procs \X Ops
  BY <1>1, <1>4 DEF TypeOK
<1>7. \A q \in Procs, t \in Ops : <<q, t>> \in stale' =>
        <<q, t>> \in stale \/ (q = p /\ DoneFresh(t) /\ op[t].by = p /\ revoked = OfMessage(p))
  BY <1>1, <1>4
<1>8. /\ Steps /\ BegunOp(p, e, kind) /\ BegunSide(p, e, kind, revoked) /\ BegunAlias(p, e, kind, revoked)
      /\ Revoke(p, revoked)
  BY <1>1, <1>2, <1>3, <1>6, BeginSteps
<1>9. Begins(p, e, kind, revoked)
  BY <1>1, <1>2, <1>5, <1>7, <1>8 DEF Begins
<1> QED
  BY <1>3, <1>9

(* A press that arrives, first or again. *)
Pressed(r, x) ==
  /\ press' \in Seq(Press) /\ r \in 1..Len(press') /\ press'[r] = x
  /\ \A i \in 1..Len(press) : i \in 1..Len(press') /\ press'[i] = press[i]
  /\ \A i \in 1..Len(press') : i \in 1..Len(press) \/ i = r
  /\ (r \in 1..Len(press) /\ press[r] = x) \/ \E e \in Ops : x.tok \in op[e].board

Hands == {"new", "claiming", "got", "refused", "answered"}

Moves(r, p, s) ==
  /\ hand' \in [Presses -> [Procs -> Hands]] /\ hand'[r][p] = s
  /\ \A i \in Presses, q \in Procs : i # r \/ q # p => hand'[i][q] = hand[i][q]

(* An update with token t reaches the handlers of p. *)
Gets(p, t) ==
  /\ got' \in [Ops -> Nat] /\ got'[t] = got[t] + 1 /\ \A u \in Ops \ {t} : got'[u] = got[u]
  /\ \A l \in late' : \/ l \in late
                      \/ l = <<p, t, "stale">> /\ <<p, t>> \in stale
                      \/ l = <<p, t, "answered">> /\ <<p, t>> \in answered

Refuses == got' = got /\ late' = late

LEMMA PressFacts ==
  ASSUME TypeOK, NEW r \in Presses, NEW x \in Press, PressArrives(r, x)
  PROVE  Pressed(r, x)
<1>1. press \in Seq(Press)
  BY DEF TypeOK
<1>2. CASE r \in DOMAIN press /\ press[r] = x /\ UNCHANGED press
  BY <1>1, <1>2 DEF Pressed
<1>3. CASE /\ r = Len(press) + 1
           /\ \E e \in Ops : op[e].taken /\ x.tok \in op[e].board
           /\ press' = Append(press, x)
  <2>1. press' \in Seq(Press) /\ Len(press') = Len(press) + 1 /\ Len(press) \in Nat
    BY <1>1, <1>3
  <2>2. press'[r] = x /\ \A i \in 1..Len(press) : press'[i] = press[i]
    BY <1>1, <1>3
  <2> QED
    BY <1>3, <2>1, <2>2 DEF Pressed
<1> QED
  BY <1>2, <1>3 DEF PressArrives

LEMMA GotoFacts ==
  ASSUME TypeOK, NEW r \in Presses, NEW p \in Procs, NEW s \in Hands, Goto(r, p, s)
  PROVE  Moves(r, p, s)
<1>1. hand \in [Presses -> [Procs -> Hands]]
  BY DEF TypeOK, Hands
<1>2. hand' = [hand EXCEPT ![r][p] = s]
  BY DEF Goto
<1> QED
  BY <1>1, <1>2 DEF Moves

LEMMA DeliverFacts ==
  ASSUME TypeOK, NEW r \in Presses, NEW p \in Procs, NEW x \in Press, NEW ans, Deliver(r, p, x, ans)
  PROVE  \/ Moves(r, p, "refused") /\ Refuses
         \/ Moves(r, p, "got") /\ ~ans /\ Gets(p, x.tok)
<1> DEFINE t == x.tok
           extra == {l \in {<<p, t, "stale">>, <<p, t, "answered">>} :
                      <<p, t>> \in (IF l[3] = "stale" THEN stale ELSE answered)}
           outcome == Outcome(x, ans)
<1>1. /\ Goto(r, p, outcome)
      /\ got' = IF outcome = "got" THEN [got EXCEPT ![t] = @ + 1] ELSE got
      /\ late' = IF outcome = "got" THEN late \cup extra ELSE late
  BY Zenon DEF Deliver
<1>2. t \in Ops
  BY DEF Press
<1>3. outcome = IF ~x.inRoom \/ ans THEN "refused" ELSE "got"
  BY DEF Outcome
<1>4. got \in [Ops -> Nat]
  BY DEF TypeOK
<1>5. \A l \in extra : \/ l = <<p, t, "stale">> /\ <<p, t>> \in stale
                       \/ l = <<p, t, "answered">> /\ <<p, t>> \in answered
  OBVIOUS
<1> HIDE DEF extra, outcome
<1>6. CASE outcome = "got"
  <2>1. Moves(r, p, "got") /\ ~ans
    BY <1>1, <1>3, <1>6, GotoFacts DEF Hands
  <2>2. Gets(p, t)
    BY <1>1, <1>2, <1>4, <1>5, <1>6 DEF Gets
  <2> QED
    BY <2>1, <2>2
<1>7. CASE outcome = "refused"
  <2>1. Moves(r, p, "refused")
    BY <1>1, <1>7, GotoFacts DEF Hands
  <2> QED
    BY <1>1, <1>7, <2>1 DEF Refuses
<1> QED
  BY <1>3, <1>6, <1>7

(* The outcomes of resolve. *)
Found(p, x) == (x.short => Canonicalize(p, x.tok)) /\ Peek(p, x.tok)

Untouched == UNCHANGED <<side, used, forgotten, consumed>>

Delivers(r, p, x) ==
  \/ Moves(r, p, "refused") /\ Refuses
  \/ Moves(r, p, "got") /\ ~Answered(p, x.tok) /\ Gets(p, x.tok)

Consumed(p, t) ==
  /\ consumed' = consumed \cup {t}
  /\ IF Signed THEN Mark(p, <<<<"dead", t>>>>, op[t].exp) /\ UNCHANGED side
     ELSE Forget(p, t) /\ UNCHANGED <<used, forgotten>>

Turned(r, p, x) ==
  /\ Untouched /\ Refuses
  /\ Moves(r, p, "refused") \/ (Moves(r, p, "claiming") /\ op[x.tok].single /\ mode = "redis")

Uses(r, p, x) == Peek(p, x.tok) /\ op[x.tok].single /\ mode # "redis" /\ Delivers(r, p, x) /\ Consumed(p, x.tok)

Shares(r, p, x) == Peek(p, x.tok) /\ ~op[x.tok].single /\ Delivers(r, p, x) /\ Untouched

LEMMA ResolveFacts ==
  ASSUME TypeOK, NEW r \in Presses, NEW p \in Procs, NEW x \in Press, Resolve(r, p, x)
  PROVE  /\ p \in Active /\ Pressed(r, x) /\ (Turned(r, p, x) \/ Uses(r, p, x) \/ Shares(r, p, x))
         /\ UNCHANGED <<setup, now, op, shown, alias, aliasDisk, aliasNet, usedDisk, claims, restarts, dropped, stale, answered, restored>>
<1> DEFINE t == x.tok
<1>1. /\ p \in Active /\ PressArrives(r, x)
      /\ UNCHANGED <<setup, now, op, shown, alias, aliasDisk, aliasNet, usedDisk, claims, restarts, dropped, stale, answered, restored>>
  BY Zenon DEF Resolve
<1>2. \/ Goto(r, p, "refused") /\ UNCHANGED <<side, used, forgotten, got, late, consumed>>
      \/ Consumes(t) /\ mode = "redis" /\ Goto(r, p, "claiming") /\ UNCHANGED <<side, used, forgotten, got, late, consumed>>
      \/ Found(p, x) /\ Consumes(t) /\ mode # "redis" /\ Deliver(r, p, x, Answered(p, t)) /\ Consumed(p, t)
      \/ Found(p, x) /\ ~Consumes(t) /\ Deliver(r, p, x, Answered(p, t)) /\ UNCHANGED <<side, used, forgotten, consumed>>
  BY Zenon DEF Resolve, Found, Consumed
<1>3. Pressed(r, x)
  BY <1>1, PressFacts
<1>4. CASE Goto(r, p, "refused") /\ UNCHANGED <<side, used, forgotten, got, late, consumed>>
  <2>1. Moves(r, p, "refused")
    BY <1>4, GotoFacts DEF Hands
  <2> QED
    BY <1>1, <1>3, <1>4, <2>1 DEF Turned, Untouched, Refuses
<1>5. CASE Consumes(t) /\ mode = "redis" /\ Goto(r, p, "claiming") /\ UNCHANGED <<side, used, forgotten, got, late, consumed>>
  <2>1. Moves(r, p, "claiming")
    BY <1>5, GotoFacts DEF Hands
  <2> QED
    BY <1>1, <1>3, <1>5, <2>1 DEF Turned, Untouched, Refuses, Consumes
<1>6. CASE Found(p, x) /\ Consumes(t) /\ mode # "redis" /\ Deliver(r, p, x, Answered(p, t)) /\ Consumed(p, t)
  <2>1. Delivers(r, p, x)
    BY <1>6, DeliverFacts DEF Delivers
  <2> QED
    BY <1>1, <1>3, <1>6, <2>1 DEF Uses, Found, Consumes
<1>7. CASE Found(p, x) /\ ~Consumes(t) /\ Deliver(r, p, x, Answered(p, t)) /\ UNCHANGED <<side, used, forgotten, consumed>>
  <2>1. Delivers(r, p, x)
    BY <1>7, DeliverFacts DEF Delivers
  <2> QED
    BY <1>1, <1>3, <1>7, <2>1 DEF Shares, Found, Consumes, Untouched
<1> QED
  BY <1>2, <1>4, <1>5, <1>6, <1>7

(* What a press does to the registry of its process. *)
SideBut(p, t) == \A q \in Procs, u \in Ops : q # p \/ u # t => side'[q][u] = side[q][u]

(* One mark more. *)
LEMMA OneMark ==
  ASSUME TypeOK, NEW p \in Procs, NEW k \in Keys, NEW x \in Nat, Mark(p, <<k>>, x)
  PROVE  /\ used' \in [Procs -> Seq(Entry)] /\ forgotten' \subseteq Procs \X Keys /\ UsedStep
         /\ HasKey(used'[p], k, now) \/ <<p, k>> \in forgotten'
         /\ \A q \in Procs \ {p} : used'[q] = used[q]
         /\ \A E : used[p] \in Seq(E) /\ [key |-> k, exp |-> x] \in E => used'[p] \in Seq(E)
<1> DEFINE K == {k}
           keys == <<k>>
<1>1. K \in SUBSET Keys /\ keys \in Seq(K) /\ Len(keys) = 1 /\ keys[1] = k /\ Mark(p, keys, x)
  OBVIOUS
<1>2. used \in [Procs -> Seq(Entry)]
  BY DEF TypeOK
<1>3. used[p] \in Seq(Entry) /\ \A j \in K : [key |-> j, exp |-> x] \in Entry
  BY <1>2 DEF Entry
<1>4. 1 \in 1..Len(keys)
  BY <1>1
<1>5. \A j \in K : j = k
  OBVIOUS
<1> HIDE DEF K, keys
<1>6. used' \in [Procs -> Seq(Entry)] /\ forgotten' \subseteq Procs \X Keys /\ UsedStep
  BY <1>1, MarkSteps
<1>7. /\ used' = [used EXCEPT ![p] = used'[p]]
      /\ \A i \in 1..Len(keys) : HasKey(used'[p], keys[i], now) \/ <<p, keys[i]>> \in forgotten'
  BY <1>1, <1>3, MarkFacts
<1>8. \A q \in Procs \ {p} : used'[q] = used[q]
  BY <1>2, <1>7
<1>9. ASSUME NEW E, used[p] \in Seq(E), [key |-> k, exp |-> x] \in E PROVE used'[p] \in Seq(E)
  <2>1. \A j \in K : [key |-> j, exp |-> x] \in E
    BY <1>5, <1>9
  <2> QED
    BY <1>1, <1>9, <2>1, MarkFacts
<1>10. HasKey(used'[p], k, now) \/ <<p, k>> \in forgotten'
  BY <1>1, <1>4, <1>7
<1> QED
  BY <1>6, <1>8, <1>9, <1>10

LEMMA ConsumedFacts ==
  ASSUME TypeOK, NEW p \in Procs, NEW t \in Ops, Consumed(p, t)
  PROVE  /\ consumed' = consumed \cup {t}
         /\ side' \in [Procs -> [Ops -> Record]] /\ SideBut(p, t)
         /\ side'[p][t] = IF Signed THEN side[p][t] ELSE Absent
         /\ used' \in [Procs -> Seq(Entry)] /\ forgotten' \subseteq Procs \X Keys /\ UsedStep
         /\ Signed => HasKey(used'[p], <<"dead", t>>, now) \/ <<p, <<"dead", t>>>> \in forgotten'
         /\ \A q \in Procs \ {p} : used'[q] = used[q]
         /\ \A E : used[p] \in Seq(E) /\ [key |-> <<"dead", t>>, exp |-> op[t].exp] \in E => used'[p] \in Seq(E)
<1>1. /\ side \in [Procs -> [Ops -> Record]] /\ used \in [Procs -> Seq(Entry)] /\ forgotten \subseteq Procs \X Keys
      /\ op \in [Ops -> Operation]
  BY DEF TypeOK
<1>2. Absent \in Record /\ <<"dead", t>> \in Keys
  BY DEF Absent, Record, Keys
<1>3. op[t].exp \in Nat
  BY <1>1 DEF Operation
<1>4. consumed' = consumed \cup {t}
  BY DEF Consumed
<1>5. CASE Signed
  <2>1. Mark(p, <<<<"dead", t>>>>, op[t].exp) /\ side' = side
    BY <1>5 DEF Consumed
  <2> DEFINE k == <<"dead", t>>
             x == op[t].exp
  <2>2. k \in Keys /\ x \in Nat /\ Mark(p, <<k>>, x)
    BY <1>2, <1>3, <2>1
  <2> HIDE DEF k, x
  <2>3. /\ used' \in [Procs -> Seq(Entry)] /\ forgotten' \subseteq Procs \X Keys /\ UsedStep
        /\ HasKey(used'[p], k, now) \/ <<p, k>> \in forgotten'
        /\ \A q \in Procs \ {p} : used'[q] = used[q]
        /\ \A E : used[p] \in Seq(E) /\ [key |-> k, exp |-> x] \in E => used'[p] \in Seq(E)
    BY <2>2, OneMark
  <2>4. SideBut(p, t) /\ side'[p][t] = side[p][t] /\ side' \in [Procs -> [Ops -> Record]]
    BY <1>1, <2>1 DEF SideBut
  <2> QED
    BY <1>4, <1>5, <2>3, <2>4 DEF k, x
<1>6. CASE ~Signed
  <2>1. side' = [side EXCEPT ![p][t] = Absent] /\ used' = used /\ forgotten' = forgotten
    BY <1>6 DEF Consumed, Forget
  <2>2. SideBut(p, t) /\ side'[p][t] = Absent /\ side' \in [Procs -> [Ops -> Record]]
    BY <1>1, <1>2, <2>1 DEF SideBut
  <2> QED
    BY <1>1, <1>4, <1>6, <2>1, <2>2, NoChange
<1> QED
  BY <1>5, <1>6

LEMMA ResolveSteps ==
  ASSUME TypeOK, NEW r \in Presses, NEW p \in Procs, NEW x \in Press, Resolve(r, p, x)
  PROVE  Steps
<1>1. /\ Pressed(r, x) /\ (Turned(r, p, x) \/ Uses(r, p, x) \/ Shares(r, p, x))
      /\ UNCHANGED <<setup, now, op, shown, alias, aliasDisk, aliasNet, usedDisk, claims, restarts, dropped, stale, answered, restored>>
  BY ResolveFacts
<1>2. press' \in Seq(Press) /\ x.tok \in Ops
  BY <1>1 DEF Pressed, Press
<1>3. hand' \in [Presses -> [Procs -> Hands]] /\ got' \in [Ops -> Nat]
  BY <1>1 DEF Turned, Uses, Shares, Delivers, Moves, Refuses, Gets, TypeOK
<1>4. /\ side' \in [Procs -> [Ops -> Record]] /\ used' \in [Procs -> Seq(Entry)]
      /\ forgotten' \subseteq Procs \X Keys /\ UsedStep /\ consumed \subseteq consumed' /\ consumed' \subseteq Ops
  <2>1. CASE Untouched
    BY <2>1, NoChange DEF Untouched, TypeOK
  <2>2. CASE Consumed(p, x.tok)
    <3>1. consumed \subseteq Ops
      BY DEF TypeOK
    <3> QED
      BY <1>2, <2>2, <3>1, ConsumedFacts
  <2> QED
    BY <1>1, <2>1, <2>2 DEF Turned, Uses, Shares
<1>5. TypeOK'
  BY <1>1, <1>2, <1>3, <1>4 DEF TypeOK, Hands
<1>6. now \in Nat
  BY DEF TypeOK
<1>7. OpGrow /\ Grows
  BY <1>1, <1>4, <1>6, NoChange DEF Grows
<1> QED
  BY <1>4, <1>5, <1>7 DEF Steps

LEMMA ClaimSteps ==
  ASSUME TypeOK, PressShape, NEW r \in Presses, NEW p \in Procs, ClaimAsync(r, p)
  PROVE  /\ Steps /\ hand[r][p] = "claiming" /\ r \in 1..Len(press) /\ press[r] \in Press
         /\ \/ Moves(r, p, "refused") /\ Refuses /\ claims' = claims /\ consumed' = consumed
            \/ /\ press[r].tok \notin claims /\ claims' = claims \cup {press[r].tok}
               /\ Moves(r, p, "got") \/ Moves(r, p, "refused")
               /\ Refuses \/ Gets(p, press[r].tok)
         /\ UNCHANGED <<setup, now, op, shown, side, alias, aliasDisk, aliasNet, used, usedDisk, press, restarts, forgotten, dropped, stale, answered, restored>>
<1> DEFINE t == press[r].tok
<1>1. /\ hand[r][p] = "claiming"
      /\ \/ TryAdd(t) /\ Deliver(r, p, press[r], FALSE) /\ claims' = claims \cup {t} /\ consumed' = consumed \cup {t}
         \/ ~TryAdd(t) /\ Goto(r, p, "refused") /\ UNCHANGED <<claims, got, late, consumed>>
      /\ UNCHANGED <<setup, now, op, shown, side, alias, aliasDisk, aliasNet, used, usedDisk, press, restarts, forgotten, dropped, stale, answered, restored>>
  BY Zenon DEF ClaimAsync
<1>2. r \in 1..Len(press)
  BY <1>1 DEF PressShape
<1>3. press \in Seq(Press)
  BY DEF TypeOK
<1>4. press[r] \in Press
  BY <1>2, <1>3
<1>5. t \in Ops
  BY <1>4 DEF Press
<1>6. \/ Moves(r, p, "refused") /\ Refuses /\ claims' = claims /\ consumed' = consumed
      \/ /\ t \notin claims /\ claims' = claims \cup {t} /\ consumed' = consumed \cup {t}
         /\ Moves(r, p, "got") \/ Moves(r, p, "refused")
         /\ Refuses \/ Gets(p, t)
  <2>1. CASE TryAdd(t) /\ Deliver(r, p, press[r], FALSE) /\ claims' = claims \cup {t} /\ consumed' = consumed \cup {t}
    <3>1. \/ Moves(r, p, "refused") /\ Refuses
          \/ Moves(r, p, "got") /\ ~FALSE /\ Gets(p, press[r].tok)
      BY <1>4, <2>1, DeliverFacts
    <3> QED
      BY <2>1, <3>1 DEF TryAdd
  <2>2. CASE ~TryAdd(t) /\ Goto(r, p, "refused") /\ UNCHANGED <<claims, got, late, consumed>>
    <3>1. Moves(r, p, "refused")
      BY <2>2, GotoFacts DEF Hands
    <3> QED
      BY <2>2, <3>1 DEF Refuses
  <2> QED
    BY <1>1, <2>1, <2>2
<1>7. /\ hand' \in [Presses -> [Procs -> Hands]] /\ got' \in [Ops -> Nat]
      /\ claims \subseteq claims' /\ consumed \subseteq consumed' /\ claims' \subseteq Ops /\ consumed' \subseteq Ops
  BY <1>5, <1>6 DEF Moves, Refuses, Gets, TypeOK
<1>8. TypeOK'
  BY <1>1, <1>7 DEF TypeOK, Hands
<1>9. Steps
  <2>1. OpGrow /\ UsedStep
    BY <1>1, NoChange
  <2>2. now \in Nat
    BY DEF TypeOK
  <2>3. Grows
    BY <1>1, <1>7, <2>2 DEF Grows
  <2> QED
    BY <1>8, <2>1, <2>3 DEF Steps
<1> QED
  BY <1>1, <1>2, <1>4, <1>6, <1>9

(* markAnswered *)
LEMMA AnswerSteps ==
  ASSUME TypeOK, PressShape, OpShape, NEW r \in Presses, NEW p \in Procs, AnswerCallback(r, p)
  PROVE  LET t == press[r].tok
         IN /\ Steps /\ hand[r][p] = "got" /\ r \in 1..Len(press) /\ t \in Ops
            /\ Moves(r, p, "answered") /\ SideBut(p, t)
            /\ side'[p][t].kept => side'[p][t].ans
            /\ side'[p][t].bound = side[p][t].bound
            /\ side[p][t].kept => side'[p][t].kept
            /\ ~Signed => side'[p][t].kept = side[p][t].kept
            /\ Signed => HasKey(used'[p], <<"ans", t>>, now) \/ <<p, <<"ans", t>>>> \in forgotten'
            /\ \A q \in Procs \ {p} : used'[q] = used[q]
            /\ \A E : used[p] \in Seq(E) /\ (\A x \in Nat : x >= op[t].exp => [key |-> <<"ans", t>>, exp |-> x] \in E) => used'[p] \in Seq(E)
            /\ answered' = answered \cup {<<p, t>>}
            /\ UNCHANGED <<setup, now, op, shown, alias, aliasDisk, aliasNet, usedDisk, claims, press, restarts, got, consumed, dropped, stale, late, restored>>
<1> DEFINE t == press[r].tok
           x == IF Peek(p, t) THEN op[t].exp ELSE now + RegTtl
           k == <<"ans", t>>
<1>1. /\ hand[r][p] = "got" /\ Goto(r, p, "answered") /\ MarkAnswered(p, t) /\ answered' = answered \cup {<<p, t>>}
      /\ UNCHANGED <<setup, now, op, shown, alias, aliasDisk, aliasNet, usedDisk, claims, press, restarts, got, consumed, dropped, stale, late, restored>>
  BY Zenon DEF AnswerCallback
<1>2. r \in 1..Len(press)
  BY <1>1 DEF PressShape
<1>3. /\ press \in Seq(Press) /\ side \in [Procs -> [Ops -> Record]] /\ used \in [Procs -> Seq(Entry)]
      /\ forgotten \subseteq Procs \X Keys /\ op \in [Ops -> Operation] /\ now \in Nat /\ answered \subseteq Procs \X Ops
  BY DEF TypeOK
<1>4. t \in Ops
  <2>1. press[r] \in Press
    BY <1>2, <1>3
  <2> QED
    BY <2>1 DEF Press
<1>5. Moves(r, p, "answered")
  BY <1>1, GotoFacts DEF Hands
<1>6. op[t].exp \in Nat /\ RegTtl \in Nat /\ op[t].exp <= now + RegTtl
  BY <1>3, <1>4, CallbackBounds DEF Operation, OpShape
<1>7. x \in Nat /\ x >= op[t].exp
  BY <1>3, <1>6
<1>8. k \in Keys
  BY <1>4 DEF Keys
<1>9. /\ side' = IF Signed THEN [side EXCEPT ![p][t] = [kept |-> TRUE, bound |-> @.bound, ans |-> TRUE]]
                 ELSE MarkAnsweredMemory(p, t)
      /\ IF Signed THEN Mark(p, <<k>>, x) ELSE UNCHANGED <<used, forgotten>>
  BY <1>1, Zenon DEF MarkAnswered
<1>10. side[p][t] \in Record
  BY <1>3, <1>4
<1>11. /\ side' \in [Procs -> [Ops -> Record]] /\ SideBut(p, t)
       /\ side'[p][t].kept => side'[p][t].ans
       /\ side'[p][t].bound = side[p][t].bound
       /\ side[p][t].kept => side'[p][t].kept
       /\ ~Signed => side'[p][t].kept = side[p][t].kept
  <2> DEFINE a == [kept |-> TRUE, bound |-> side[p][t].bound, ans |-> TRUE]
             b == [side[p][t] EXCEPT !.ans = TRUE]
  <2>1. a \in Record /\ a.kept = TRUE /\ a.ans = TRUE /\ a.bound = side[p][t].bound
    BY <1>10 DEF Record
  <2>2. b \in Record /\ b.kept = side[p][t].kept /\ b.ans = TRUE /\ b.bound = side[p][t].bound
    BY <1>10 DEF Record
  <2>3. CASE Signed
    <3>1. side' = [side EXCEPT ![p][t] = a]
      BY <1>3, <1>4, <1>9, <2>3
    <3> HIDE DEF a
    <3>2. side' \in [Procs -> [Ops -> Record]] /\ SideBut(p, t) /\ side'[p][t] = a
      BY <1>3, <1>4, <2>1, <3>1 DEF SideBut
    <3> QED
      BY <2>1, <2>3, <3>2
  <2>4. CASE ~Signed /\ side[p][t].kept
    <3>1. side' = [side EXCEPT ![p][t] = b]
      BY <1>3, <1>4, <1>9, <2>4 DEF MarkAnsweredMemory
    <3> HIDE DEF b
    <3>2. side' \in [Procs -> [Ops -> Record]] /\ SideBut(p, t) /\ side'[p][t] = b
      BY <1>3, <1>4, <2>2, <3>1 DEF SideBut
    <3> QED
      BY <2>2, <2>4, <3>2
  <2>5. CASE ~Signed /\ ~side[p][t].kept
    <3>1. side' = side
      BY <1>9, <2>5 DEF MarkAnsweredMemory
    <3> QED
      BY <1>3, <2>5, <3>1 DEF SideBut
  <2> QED
    BY <2>3, <2>4, <2>5
<1> DEFINE New(E) == \A y \in Nat : y >= op[t].exp => [key |-> k, exp |-> y] \in E
<1>12. ASSUME NEW E, New(E) PROVE [key |-> k, exp |-> x] \in E
  BY <1>7, <1>12
<1> HIDE DEF x, k, New
<1>13. /\ used' \in [Procs -> Seq(Entry)] /\ forgotten' \subseteq Procs \X Keys /\ UsedStep
       /\ Signed => HasKey(used'[p], k, now) \/ <<p, k>> \in forgotten'
       /\ \A q \in Procs \ {p} : used'[q] = used[q]
       /\ \A E : used[p] \in Seq(E) /\ New(E) => used'[p] \in Seq(E)
  <2>1. CASE Signed
    <3>1. Mark(p, <<k>>, x)
      BY <1>9, <2>1
    <3>2. /\ used' \in [Procs -> Seq(Entry)] /\ forgotten' \subseteq Procs \X Keys /\ UsedStep
          /\ HasKey(used'[p], k, now) \/ <<p, k>> \in forgotten'
          /\ \A q \in Procs \ {p} : used'[q] = used[q]
          /\ \A E : used[p] \in Seq(E) /\ [key |-> k, exp |-> x] \in E => used'[p] \in Seq(E)
      BY <1>7, <1>8, <3>1, OneMark
    <3> QED
      BY <1>12, <3>2
  <2>2. CASE ~Signed
    <3>1. used' = used /\ forgotten' = forgotten
      BY <1>9, <2>2
    <3> QED
      BY <1>3, <2>2, <3>1, NoChange
  <2> QED
    BY <2>1, <2>2
<1>14. answered' \subseteq Procs \X Ops
  BY <1>1, <1>3, <1>4
<1>15. TypeOK'
  BY <1>1, <1>5, <1>11, <1>13, <1>14 DEF TypeOK, Hands, Moves
<1>16. Steps
  BY <1>1, <1>13, <1>15, NoChange DEF Steps, Grows, TypeOK
<1> QED
  BY <1>1, <1>2, <1>4, <1>5, <1>11, <1>13, <1>16 DEF k, New

-----------------------------------------------------------------------------
(* What stays true of a token. *)

TokenStays ==
  /\ Minted \subseteq Minted'
  /\ \A t \in Minted : op[t].pc # "idle" /\ op'[t].exp = op[t].exp /\ op'[t].single = op[t].single /\ op'[t].by = op[t].by

LEMMA MintedStays ==
  ASSUME TypeOK, OpShape, Steps
  PROVE  TokenStays
<1> SUFFICES ASSUME NEW t \in Minted
             PROVE  /\ t \in Minted' /\ op[t].pc # "idle"
                    /\ op'[t].exp = op[t].exp /\ op'[t].single = op[t].single /\ op'[t].by = op[t].by
  BY DEF TokenStays
<1>1. t \in Ops /\ op[t].kind \in {"send", "replace"}
  BY DEF Minted
<1>2. op[t].pc # "idle"
  <2>1. op[t].pc = "idle" => op[t] = NoOp
    BY <1>1 DEF OpShape
  <2> QED
    BY <1>1, <2>1 DEF NoOp
<1>3. OpKeeps(t)
  BY <1>1, <1>2 DEF Steps, OpGrow
<1> QED
  BY <1>1, <1>2, <1>3 DEF OpKeeps, Minted

(* No edit brings a button back, but a text edit, on record. *)
ReplacedStays == \A t \in Ops : Replaced(t) => Replaced(t)'

(* The operations that no message of this step is about. *)
TakenSame == \A d \in Ops : op[d].pc # "idle" => op'[d].taken = op[d].taken

LEMMA ReplacerFacts ==
  ASSUME TypeOK, OpShape, Steps, NEW t \in Ops, NEW e \in Ops, op[t].taken, Replaces(e, t)
  PROVE  /\ op[t].pc # "idle" /\ op'[t].taken /\ op[e].pc # "idle" /\ t < e
         /\ op[e].kind \in {"replace", "remove"} /\ op'[e].kind = op[e].kind
         /\ ~op[e].taken \/ t \notin shown \/ t \in restored
<1>1. (op[t].pc = "idle" => op[t] = NoOp) /\ (op[e].pc = "idle" => op[e] = NoOp)
  BY DEF OpShape
<1>2. t < e /\ op[e].kind \in {"replace", "remove"} /\ (~op[e].taken \/ t \notin shown \/ t \in restored)
  BY DEF Replaces
<1>3. op[t].pc # "idle" /\ op[e].pc # "idle"
  BY <1>1, <1>2 DEF NoOp
<1>4. OpKeeps(t) /\ OpKeeps(e)
  BY <1>3 DEF Steps, OpGrow
<1> QED
  BY <1>2, <1>3, <1>4 DEF OpKeeps

LEMMA ReplacedKept ==
  ASSUME TypeOK, OpShape, Steps, TakenSame, shown' = shown
  PROVE  ReplacedStays
<1> SUFFICES ASSUME NEW t \in Ops, Replaced(t) PROVE Replaced(t)'
  BY DEF ReplacedStays
<1>1. PICK e \in Ops : Replaces(e, t)
  BY DEF Replaced
<1>2. op[t].taken
  BY DEF Replaced
<1>3. /\ op[t].pc # "idle" /\ op'[t].taken /\ op[e].pc # "idle" /\ t < e
      /\ op[e].kind \in {"replace", "remove"} /\ op'[e].kind = op[e].kind
      /\ ~op[e].taken \/ t \notin shown \/ t \in restored
  BY <1>1, <1>2, ReplacerFacts
<1>4. op'[e].taken = op[e].taken
  BY <1>3 DEF TakenSame
<1>5. restored \subseteq restored'
  BY DEF Steps, Grows
<1>6. Replaces(e, t)'
  BY <1>3, <1>4, <1>5 DEF Replaces
<1> QED
  BY <1>3, <1>6 DEF Replaced

LEMMA TakesReplaced ==
  ASSUME TypeOK, OpShape, NEW f \in Ops, ServerTakes(f)
  PROVE  ReplacedStays
<1> SUFFICES ASSUME NEW t \in Ops, Replaced(t) PROVE Replaced(t)'
  BY DEF ReplacedStays
<1>0. /\ Steps /\ op[f].pc # "idle" /\ ~op[f].taken /\ shown' = op[f].board
      /\ op' = [op EXCEPT ![f] = op'[f]] /\ op'[f] = [op[f] EXCEPT !.taken = TRUE]
  BY TakesSteps
<1>1. PICK e \in Ops : Replaces(e, t)
  BY DEF Replaced
<1>2. op[t].taken
  BY DEF Replaced
<1>3. /\ op[t].pc # "idle" /\ op'[t].taken /\ op[e].pc # "idle" /\ t < e
      /\ op[e].kind \in {"replace", "remove"} /\ op'[e].kind = op[e].kind
      /\ ~op[e].taken \/ t \notin shown \/ t \in restored
  BY <1>0, <1>1, <1>2, ReplacerFacts
<1>4. restored \subseteq restored'
  BY <1>0 DEF Steps, Grows
<1>5. op \in [Ops -> Operation]
  BY DEF TypeOK
<1>6. /\ e \in Minted => op[e].board = {e}
      /\ op[e].kind = "remove" => op[e].board = {}
      /\ f \in Minted => op[f].board = {f}
      /\ op[f].kind = "remove" => op[f].board = {}
      /\ op[f].kind # "none"
  BY <1>0 DEF OpShape
<1>7. ~op'[e].taken \/ t \notin shown' \/ t \in restored'
  <2>1. CASE e = f
    <3>1. op[e].board \subseteq {e}
      BY <1>3, <1>6 DEF Minted
    <3>2. t # e
      BY <1>3 DEF Ops
    <3> QED
      BY <1>0, <2>1, <3>1, <3>2
  <2>2. CASE e # f
    <3>1. op'[e].taken = op[e].taken
      BY <1>0, <1>5, <2>2
    <3>2. CASE op[f].kind = "text"
      <4>1. restored' = restored \cup (op[f].board \ shown)
        BY <3>2 DEF ServerTakes
      <4> QED
        BY <1>0, <1>3, <1>4, <3>1, <4>1
    <3>3. CASE op[f].kind # "text"
      <4>1. op[f].board \subseteq {f}
        <5>1. op[f].kind \in {"send", "replace", "remove"}
          BY <1>5, <1>6, <3>3 DEF Operation
        <5> QED
          BY <1>6, <5>1 DEF Minted
      <4>2. t # f
        BY <1>0, <1>2
      <4> QED
        BY <1>0, <4>1, <4>2
    <3> QED
      BY <3>2, <3>3
  <2> QED
    BY <2>1, <2>2
<1>8. Replaces(e, t)'
  BY <1>3, <1>7 DEF Replaces
<1> QED
  BY <1>3, <1>8 DEF Replaced

LEMMA GoodStays ==
  ASSUME TypeOK, OpShape, Steps, ReplacedStays
  PROVE  GoodEntries \subseteq GoodEntries'
<1>1. TokenStays
  BY MintedStays
<1> SUFFICES ASSUME NEW m \in Entry, GoodEntry(m) PROVE GoodEntry(m)'
  BY DEF GoodEntries
<1> DEFINE t == m.key[2]
<1>2. t \in Minted /\ m.exp >= op[t].exp /\ (m.key[1] = "dead" => t \in consumed \/ Replaced(t))
  BY DEF GoodEntry
<1> HIDE DEF t
<1>3. t \in Ops /\ t \in Minted' /\ op'[t].exp = op[t].exp
  BY <1>1, <1>2 DEF TokenStays, Minted
<1>4. m.key[1] = "dead" => t \in consumed' \/ Replaced(t)'
  BY <1>2, <1>3 DEF Steps, Grows, ReplacedStays
<1>5. m.exp >= op'[t].exp
  BY <1>2, <1>3
<1> QED
  BY <1>3, <1>4, <1>5 DEF GoodEntry, t

(* A mark lasts as long as its token. *)
MarkedStays == \A p \in Procs, m \in {"dead", "ans"} : \A t \in Minted : Marked(p, m, t) => Marked(p, m, t)'

(* A mark that was set before the clock moved. *)
LEMMA MarkLasts ==
  ASSUME TypeOK, TypeOK', MarksGood', NEW p \in Procs, NEW m, NEW t \in Ops, now' >= now,
         HasKey(used'[p], <<m, t>>, now) \/ <<p, <<m, t>>>> \in forgotten'
  PROVE  Marked(p, m, t)'
<1>1. now \in Nat /\ now' \in Nat /\ op' \in [Ops -> Operation] /\ used'[p] \in Seq(GoodEntries')
  BY DEF TypeOK, MarksGood
<1>2. op'[t].exp \in Nat
  BY <1>1 DEF Operation
<1>3. CASE <<p, <<m, t>>>> \in forgotten'
  BY <1>3 DEF Marked
<1>4. CASE HasKey(used'[p], <<m, t>>, now)
  <2>1. PICK i \in DOMAIN used'[p] : used'[p][i].key = <<m, t>> /\ used'[p][i].exp > now
    BY <1>4 DEF HasKey
  <2>2. PICK g \in GoodEntries' : g = used'[p][i]
    BY <1>1, <2>1
  <2>3. g \in Entry /\ GoodEntry(g)'
    BY <2>2 DEF GoodEntries
  <2>4. g.exp \in Nat
    BY <2>3 DEF Entry
  <2>5. g.key = <<m, t>>
    BY <2>1, <2>2
  <2>6. g.exp >= op'[g.key[2]].exp
    BY <2>3 DEF GoodEntry
  <2>7. g.exp >= op'[t].exp
    BY <2>5, <2>6
  <2>8. CASE g.exp > now'
    <3>1. HasKey(used'[p], <<m, t>>, now')
      BY <2>1, <2>2, <2>8 DEF HasKey
    <3> QED
      BY <3>1 DEF Marked
  <2>9. CASE ~(g.exp > now')
    <3>1. op'[t].exp <= now'
      BY <1>1, <1>2, <2>4, <2>7, <2>9
    <3> QED
      BY <3>1 DEF Marked
  <2> QED
    BY <2>8, <2>9
<1> QED
  BY <1>3, <1>4

LEMMA MarkedKept ==
  ASSUME TypeOK, OpShape, Steps, MarksGood'
  PROVE  MarkedStays
<1> SUFFICES ASSUME NEW p \in Procs, NEW m \in {"dead", "ans"}, NEW t \in Minted, Marked(p, m, t)
             PROVE  Marked(p, m, t)'
  BY DEF MarkedStays
<1>1. t \in Ops /\ op'[t].exp = op[t].exp
  BY MintedStays DEF TokenStays, Minted
<1>2. now' >= now /\ TypeOK'
  BY DEF Steps, Grows
<1>3. CASE op[t].exp <= now
  <2>1. now \in Nat /\ now' \in Nat /\ op \in [Ops -> Operation]
    BY <1>2 DEF TypeOK
  <2>2. op[t].exp \in Nat
    BY <1>1, <2>1 DEF Operation
  <2>3. op'[t].exp <= now'
    BY <1>1, <1>2, <1>3, <2>1, <2>2
  <2> QED
    BY <2>3 DEF Marked
<1>4. CASE HasKey(used[p], <<m, t>>, now) \/ <<p, <<m, t>>>> \in forgotten
  <2>1. HasKey(used'[p], <<m, t>>, now) \/ <<p, <<m, t>>>> \in forgotten'
    BY <1>4 DEF Steps, UsedStep
  <2> QED
    BY <1>1, <1>2, <2>1, MarkLasts
<1> QED
  BY <1>3, <1>4 DEF Marked

-----------------------------------------------------------------------------
(* What the parts of the invariant ask of a step. *)

NoBegin == \A d \in Ops : op[d].pc = "idle" => op'[d] = op[d]

OpMoves(d) ==
  /\ d \in Minted \/ op[d].kind = "remove" => op'[d].board = op[d].board
  /\ op'[d].board \subseteq Minted
  /\ op'[d].pc = "done" => op'[d].taken
  /\ op'[d].pc = "reading" => op[d].pc = "reading"

LEMMA SameMinted ==
  ASSUME TypeOK, OpShape, Steps, NoBegin
  PROVE  Minted' = Minted
<1>1. Minted \subseteq Minted'
  BY MintedStays DEF TokenStays
<1>2. ASSUME NEW t \in Minted' PROVE t \in Minted
  <2>1. t \in Ops /\ op'[t].kind \in {"send", "replace"}
    BY DEF Minted
  <2>2. CASE op[t].pc = "idle"
    BY <2>1, <2>2 DEF NoBegin, Minted
  <2>3. CASE op[t].pc # "idle"
    <3>1. op'[t].kind = op[t].kind
      BY <2>1, <2>3 DEF Steps, OpGrow, OpKeeps
    <3> QED
      BY <2>1, <3>1 DEF Minted
  <2> QED
    BY <2>2, <2>3
<1> QED
  BY <1>1, <1>2

LEMMA OpShapeKept ==
  ASSUME TypeOK, OpShape, Steps, NoBegin, \A d \in Ops : op[d].pc # "idle" => OpMoves(d), shown' \subseteq Minted
  PROVE  OpShape'
<1>1. Minted' = Minted
  BY SameMinted
<1>2. ASSUME NEW d \in Ops, NEW e \in Ops, d < e, op'[d].pc = "idle" PROVE op'[e].pc = "idle"
  <2>1. op[d].pc = "idle"
    BY <1>2 DEF Steps, OpGrow, OpKeeps
  <2>2. op[e].pc = "idle"
    BY <1>2, <2>1 DEF OpShape
  <2> QED
    BY <2>2 DEF NoBegin
<1>3. ASSUME NEW e \in Ops
      PROVE  /\ op'[e].pc = "idle" => op'[e] = NoOp
             /\ op'[e].kind = "none" => op'[e].pc = "idle"
             /\ op'[e].pc = "reading" => op'[e].kind = "text"
             /\ e \notin Minted' => op'[e].exp = 0
             /\ op'[e].exp <= now' + RegTtl
             /\ e \in Minted' => op'[e].board = {e}
             /\ op'[e].kind = "remove" => op'[e].board = {}
             /\ op'[e].board \subseteq Minted'
             /\ op'[e].pc = "done" => op'[e].taken
  <2>1. /\ op[e].pc = "idle" => op[e] = NoOp
        /\ op[e].kind = "none" => op[e].pc = "idle"
        /\ op[e].pc = "reading" => op[e].kind = "text"
        /\ e \notin Minted => op[e].exp = 0
        /\ op[e].exp <= now + RegTtl
        /\ e \in Minted => op[e].board = {e}
        /\ op[e].kind = "remove" => op[e].board = {}
        /\ op[e].board \subseteq Minted
        /\ op[e].pc = "done" => op[e].taken
    BY DEF OpShape
  <2>2. op'[e].exp = op[e].exp
    <3>1. CASE op[e].pc = "idle"
      BY <3>1 DEF NoBegin
    <3>2. CASE op[e].pc # "idle"
      BY <3>2 DEF Steps, OpGrow, OpKeeps
    <3> QED
      BY <3>1, <3>2
  <2>3. op'[e].exp <= now' + RegTtl
    <3>1. op[e].exp \in Nat /\ RegTtl \in Nat /\ now \in Nat /\ now' \in Nat /\ now' >= now
      <4>1. op \in [Ops -> Operation]
        BY DEF TypeOK
      <4>2. op[e] \in Operation
        BY <4>1
      <4>3. op[e].exp \in Nat
        BY <4>2 DEF Operation
      <4> QED
        BY <4>3, CallbackBounds DEF TypeOK, Steps, Grows
    <3> QED
      BY <2>1, <2>2, <3>1
  <2>4. CASE op[e].pc = "idle"
    <3>1. op'[e] = op[e]
      BY <2>4 DEF NoBegin
    <3> QED
      BY <1>1, <2>1, <2>3, <3>1
  <2>5. CASE op[e].pc # "idle"
    <3>1. op'[e].pc # "idle" /\ op'[e].kind = op[e].kind
      BY <2>5 DEF Steps, OpGrow, OpKeeps
    <3>2. OpMoves(e)
      BY <2>5
    <3> QED
      BY <1>1, <2>1, <2>2, <2>3, <2>5, <3>1, <3>2 DEF OpMoves
  <2> QED
    BY <2>4, <2>5
<1>4. shown' \subseteq Minted'
  BY <1>1
<1> QED
  BY <1>2, <1>3, <1>4 DEF OpShape

LEMMA OpsSame ==
  ASSUME TypeOK, OpShape, Steps, op' = op, shown' = shown
  PROVE  OpShape' /\ NoBegin /\ ReplacedStays /\ Minted' = Minted
<1>1. NoBegin /\ TakenSame
  BY DEF NoBegin, TakenSame
<1>2. \A d \in Ops : op[d].pc # "idle" => OpMoves(d)
  BY DEF OpMoves, OpShape
<1>3. shown' \subseteq Minted
  BY DEF OpShape
<1> QED
  BY <1>1, <1>2, <1>3, OpShapeKept, ReplacedKept, SameMinted

(* The registries. *)
SideMoves(p, t) ==
  /\ side'[p][t].kept => side[p][t].kept \/ t \in Minted
  /\ side'[p][t].bound => side[p][t].bound \/ (t \in Minted /\ op'[t].pc = "done")

LEMMA SideShapeKept ==
  ASSUME TypeOK, OpShape, Steps, NoBegin, SideShape, \A p \in Procs, t \in Ops : SideMoves(p, t),
         Signed => \A t \in Minted : op'[t].pc = "sending" =>
                     op[t].pc = "sending" /\ (side[op[t].by][t].kept => side'[op[t].by][t].kept)
  PROVE  SideShape'
<1>1. Minted' = Minted /\ setup' = setup
  BY SameMinted DEF Steps, Grows
<1>2. ASSUME NEW p \in Procs, NEW t \in Ops
      PROVE  /\ side'[p][t].kept => t \in Minted'
             /\ side'[p][t].bound => t \in Minted' /\ op'[t].pc = "done"
  <2>1. side[p][t].kept => t \in Minted
    BY DEF SideShape
  <2>2. side[p][t].bound => t \in Minted /\ op[t].pc = "done"
    BY DEF SideShape
  <2>3. op[t].pc = "done" => op'[t].pc = "done"
    BY DEF Steps, OpGrow, OpKeeps
  <2>4. SideMoves(p, t)
    OBVIOUS
  <2> QED
    BY <1>1, <2>1, <2>2, <2>3, <2>4 DEF SideMoves
<1>3. ASSUME Signed', NEW t \in Minted', op'[t].pc = "sending" PROVE side'[op'[t].by][t].kept
  <2>1. Signed /\ t \in Minted
    BY <1>1, <1>3 DEF Signed, mode
  <2>2. op[t].pc = "sending" /\ (side[op[t].by][t].kept => side'[op[t].by][t].kept)
    BY <1>3, <2>1
  <2>3. side[op[t].by][t].kept
    BY <2>1, <2>2 DEF SideShape
  <2>4. op'[t].by = op[t].by
    BY <2>1, MintedStays DEF TokenStays
  <2> QED
    BY <2>2, <2>3, <2>4
<1> QED
  BY <1>2, <1>3 DEF SideShape

(* Presses. *)
LEMMA PressShapeKept ==
  ASSUME TypeOK, OpShape, Steps, PressShape, press' = press,
         \A r \in Presses, p \in Procs : hand'[r][p] = hand[r][p] \/ (hand'[r][p] = "refused" /\ hand[r][p] # "new")
  PROVE  PressShape'
<1>1. TokenStays
  BY MintedStays
<1>2. setup' = setup /\ claims \subseteq claims'
  BY DEF Steps, Grows
<1>3. \A r \in 1..Len(press) : press[r].tok \in Minted
  BY DEF PressShape
<1>4. \A r \in 1..Len(press') : press'[r].tok \in Minted'
  BY <1>1, <1>3 DEF TokenStays
<1>5. ASSUME NEW r \in Presses, NEW p \in Procs
      PROVE  /\ hand'[r][p] # "new" => r \in 1..Len(press')
             /\ hand'[r][p] = "claiming" => mode' = "redis" /\ op'[press'[r].tok].single
             /\ hand'[r][p] = "got" /\ mode' = "redis" /\ op'[press'[r].tok].single => press'[r].tok \in claims'
  <2>1. /\ hand[r][p] # "new" => r \in 1..Len(press)
        /\ hand[r][p] = "claiming" => mode = "redis" /\ op[press[r].tok].single
        /\ hand[r][p] = "got" /\ mode = "redis" /\ op[press[r].tok].single => press[r].tok \in claims
    BY DEF PressShape
  <2>2. mode' = mode
    BY <1>2 DEF mode
  <2>3. r \in 1..Len(press) => op'[press[r].tok].single = op[press[r].tok].single
    BY <1>1, <1>3 DEF TokenStays
  <2>4. hand'[r][p] = hand[r][p] \/ (hand'[r][p] = "refused" /\ hand[r][p] # "new")
    OBVIOUS
  <2> QED
    BY <1>2, <2>1, <2>2, <2>3, <2>4
<1> QED
  BY <1>4, <1>5 DEF PressShape

(* A record that is new is answered; one that stays keeps its answer; the  *)
(* memory registry takes no token back.                                    *)
RecMoves(p, t) ==
  /\ side'[p][t].kept => side'[p][t].ans \/ (side[p][t].kept /\ (side[p][t].ans => side'[p][t].ans))
  /\ ~Signed /\ side'[p][t].kept => side[p][t].kept

RecStep == \A p \in Procs : \A t \in Minted : RecMoves(p, t)

(* The token of a finished send stays bound or dies. *)
BoundMoves(q, t) ==
  \/ DoneFresh(t) /\ (t \in OfMessage(q) => t \in OfMessage(q)')
  \/ t \in OfMessage(q)'
  \/ Signed /\ Marked(q, "dead", t)'
  \/ ~Signed /\ ~side'[q][t].kept

BoundStep == \A t \in Minted : \A q \in Procs : DoneFresh(t)' /\ op[t].by = q => BoundMoves(q, t)

KnownMoves(t) ==
  /\ mode = "memory" /\ side[First][t].kept =>
       side'[First][t].kept \/ t \in consumed' \/ Replaced(t)' \/ <<First, t>> \in dropped'
  /\ mode = "file" /\ t \in alias[First] => t \in alias'[First] \/ Replaced(t)' \/ <<First, t>> \in dropped'
  /\ mode = "redis" /\ t \in aliasNet => t \in aliasNet' \/ Replaced(t)'

KnownStep == \A t \in Minted : KnownMoves(t)

(* A delivered token stays spent. *)
LEMMA SpentStays ==
  ASSUME TypeOK, OpShape, Steps, MarksGood', RecStep, NEW t \in Minted, Spent(t), got'[t] = got[t]
  PROVE  Spent(t)'
<1>1. t \in Ops /\ setup' = setup /\ claims \subseteq claims' /\ forgotten \subseteq forgotten' /\ First \in Procs
  BY CallbackBounds DEF Minted, Steps, Grows, UsedStep
<1>2. mode' = mode
  BY <1>1 DEF mode
<1>3. Marked(First, "dead", t) => Marked(First, "dead", t)'
  BY <1>1, MarkedKept DEF MarkedStays
<1>4. CASE mode = "memory"
  <2>1. ~side'[First][t].kept
    BY <1>1, <1>4 DEF Spent, RecStep, RecMoves, Signed
  <2>2. got'[t] <= 1
    BY <1>4 DEF Spent
  <2> QED
    BY <1>2, <1>4, <2>1, <2>2 DEF Spent
<1>5. CASE mode = "file"
  BY <1>1, <1>2, <1>3, <1>5 DEF Spent
<1>6. CASE mode = "redis"
  BY <1>1, <1>2, <1>6 DEF Spent
<1>7. CASE mode \notin {"memory", "file", "redis"}
  BY <1>2, <1>7 DEF Spent
<1> QED
  BY <1>4, <1>5, <1>6, <1>7

LEMMA SpentKept ==
  ASSUME TypeOK, OpShape, Steps, MarksGood', RecStep, SpentOnce, got' = got
  PROVE  SpentOnce'
<1>1. TokenStays
  BY MintedStays
<1> SUFFICES ASSUME NEW t \in Ops, got'[t] > 0 PROVE t \in Minted' /\ (op'[t].single => Spent(t)')
  BY DEF SpentOnce
<1>2. t \in Minted /\ (op[t].single => Spent(t))
  BY DEF SpentOnce
<1>3. t \in Minted' /\ op'[t].single = op[t].single
  BY <1>1, <1>2 DEF TokenStays
<1>4. Spent(t) => Spent(t)'
  BY <1>2, SpentStays
<1> QED
  BY <1>2, <1>3, <1>4

(* The token of a finished send of process q. *)
BoundOrDead(q, t) ==
  /\ Signed => t \in OfMessage(q) \/ Marked(q, "dead", t)
  /\ ~Signed => ~side[q][t].kept \/ t \in OfMessage(q)

LEMMA BoundKept ==
  ASSUME TypeOK, OpShape, Steps, MarksGood', RecStep, BoundStep, StaleDead, NEW t \in Minted, DoneFresh(t)',
         NEW q \in Procs, op[t].by = q
  PROVE  BoundOrDead(q, t)'
<1>1. setup' = setup
  BY DEF Steps, Grows
<1>2. Signed' = Signed
  BY <1>1 DEF Signed, mode
<1>3. Marked(q, "dead", t) => Marked(q, "dead", t)'
  BY MarkedKept DEF MarkedStays
<1>4. BoundMoves(q, t)
  BY DEF BoundStep
<1>5. DoneFresh(t) => BoundOrDead(q, t)
  BY DEF StaleDead, BoundOrDead
<1>6. ~Signed /\ side'[q][t].kept => side[q][t].kept
  BY DEF RecStep, RecMoves
<1> QED
  BY <1>2, <1>3, <1>4, <1>5, <1>6 DEF BoundMoves, BoundOrDead

(* A replaced token of a process. *)
DeadAt(p, t) ==
  /\ op[t].pc = "done"
  /\ Signed => Marked(p, "dead", t)
  /\ ~Signed => ~side[p][t].kept

LEMMA DeadStays ==
  ASSUME TypeOK, OpShape, Steps, SideShape', MarksGood', RecStep, NEW p \in Procs, NEW t \in Ops, DeadAt(p, t)
  PROVE  DeadAt(p, t)'
<1>1. setup' = setup /\ op'[t].pc = "done" /\ op'[t].kind = op[t].kind
  BY DEF DeadAt, Steps, Grows, OpGrow, OpKeeps
<1>2. Signed' = Signed
  BY <1>1 DEF Signed, mode
<1>3. CASE t \in Minted
  <2>1. Marked(p, "dead", t) => Marked(p, "dead", t)'
    BY <1>3, MarkedKept DEF MarkedStays
  <2>2. ~Signed /\ side'[p][t].kept => side[p][t].kept
    BY <1>3 DEF RecStep, RecMoves
  <2> QED
    BY <1>1, <1>2, <2>1, <2>2 DEF DeadAt
<1>4. CASE t \notin Minted
  <2>1. ~side'[p][t].kept
    BY <1>1, <1>4 DEF SideShape, Minted
  <2>2. op'[t].exp = op[t].exp /\ op[t].exp = 0
    BY <1>4 DEF OpShape, DeadAt, Steps, OpGrow, OpKeeps
  <2>3. now' \in Nat
    BY DEF Steps, TypeOK
  <2>4. op'[t].exp <= now'
    BY <2>2, <2>3
  <2> QED
    BY <1>1, <2>1, <2>4 DEF DeadAt, Marked
<1> QED
  BY <1>3, <1>4

(* Both parts of StaleDead. *)
LEMMA StaleParts ==
  ASSUME TypeOK', OpShape,
         \A t \in Minted' : \A q \in Procs : DoneFresh(t)' /\ op'[t].by = q => BoundOrDead(q, t)',
         \A p \in Procs, t \in Ops : <<p, t>> \in stale' => DeadAt(p, t)'
  PROVE  StaleDead'
<1>1. ASSUME NEW t \in Minted', DoneFresh(t)'
      PROVE  (/\ Signed => t \in OfMessage(op[t].by) \/ Marked(op[t].by, "dead", t)
              /\ ~Signed => ~side[op[t].by][t].kept \/ t \in OfMessage(op[t].by))'
  <2>1. op' \in [Ops -> Operation] /\ t \in Ops
    BY DEF TypeOK, Minted
  <2>2. op'[t] \in Operation
    BY <2>1
  <2>3. PICK q \in Procs : q = op'[t].by
    BY <2>2 DEF Operation
  <2>4. BoundOrDead(q, t)'
    BY <1>1, <2>3
  <2> QED
    BY <2>3, <2>4 DEF BoundOrDead, OfMessage, Marked
<1>2. ASSUME NEW p \in Procs, NEW t \in Ops, <<p, t>> \in stale'
      PROVE  /\ op'[t].pc = "done"
             /\ Signed' => Marked(p, "dead", t)'
             /\ ~Signed' => ~side'[p][t].kept
  BY <1>2 DEF DeadAt
<1> QED
  BY <1>1, <1>2 DEF StaleDead

LEMMA StaleKept ==
  ASSUME TypeOK, OpShape, Steps, NoBegin, SideShape', MarksGood', RecStep, BoundStep, StaleDead, stale' = stale
  PROVE  StaleDead'
<1>1. Minted' = Minted
  BY SameMinted
<1>2. ASSUME NEW t \in Minted', NEW q \in Procs, DoneFresh(t)', op'[t].by = q PROVE BoundOrDead(q, t)'
  <2>1. t \in Minted /\ op[t].by = q
    BY <1>1, <1>2, MintedStays DEF TokenStays
  <2> QED
    BY <1>2, <2>1, BoundKept
<1>3. ASSUME NEW p \in Procs, NEW t \in Ops, <<p, t>> \in stale' PROVE DeadAt(p, t)'
  <2>1. DeadAt(p, t)
    BY <1>3 DEF StaleDead, DeadAt
  <2> QED
    BY <2>1, DeadStays
<1>4. TypeOK'
  BY DEF Steps
<1> QED
  BY <1>2, <1>3, <1>4, StaleParts

(* What process p has answered. *)
AnsweredAt(p, t) ==
  /\ t \in Minted
  /\ side[p][t].kept => side[p][t].ans
  /\ Signed => Marked(p, "ans", t)
  /\ mode = "redis" /\ op[t].single => t \in claims

LEMMA AnsweredStays ==
  ASSUME TypeOK, OpShape, Steps, MarksGood', RecStep, NEW p \in Procs, NEW t \in Ops, AnsweredAt(p, t)
  PROVE  AnsweredAt(p, t)'
<1>1. setup' = setup /\ claims \subseteq claims'
  BY DEF Steps, Grows
<1>2. Signed' = Signed /\ mode' = mode
  BY <1>1 DEF Signed, mode
<1>3. t \in Minted
  BY DEF AnsweredAt
<1>4. t \in Minted' /\ op'[t].single = op[t].single
  BY <1>3, MintedStays DEF TokenStays
<1>5. Marked(p, "ans", t) => Marked(p, "ans", t)'
  BY <1>3, MarkedKept DEF MarkedStays
<1>6. side'[p][t].kept => side'[p][t].ans
  BY <1>3 DEF RecStep, RecMoves, AnsweredAt
<1> QED
  BY <1>1, <1>2, <1>4, <1>5, <1>6 DEF AnsweredAt

LEMMA AnsweredKept ==
  ASSUME TypeOK, OpShape, Steps, MarksGood', RecStep, AnsweredKnown,
         \A p \in Procs, t \in Ops : <<p, t>> \in answered' => <<p, t>> \in answered \/ AnsweredAt(p, t)'
  PROVE  AnsweredKnown'
<1> SUFFICES ASSUME NEW p \in Procs, NEW t \in Ops, <<p, t>> \in answered' PROVE AnsweredAt(p, t)'
  BY DEF AnsweredKnown, AnsweredAt
<1>1. CASE <<p, t>> \in answered
  <2>1. AnsweredAt(p, t)
    BY <1>1 DEF AnsweredKnown, AnsweredAt
  <2> QED
    BY <2>1, AnsweredStays
<1> QED
  BY <1>1

(* A token that a process can look up, or has a reason not to. *)
KnownToken(t) ==
  /\ mode = "memory" => side[First][t].kept \/ t \in consumed \/ Replaced(t) \/ <<First, t>> \in dropped
  /\ mode = "file" => t \in alias[First] \/ Replaced(t) \/ <<First, t>> \in dropped
  /\ mode = "redis" => t \in aliasNet \/ Replaced(t)

LEMMA KnownKept ==
  ASSUME TypeOK, OpShape, Steps, ReplacedStays, KnownStep, MintedKnown, \A t \in Minted' : t \in Minted \/ KnownToken(t)'
  PROVE  MintedKnown'
<1> SUFFICES ASSUME NEW t \in Minted, t \in Minted' PROVE KnownToken(t)'
  BY DEF MintedKnown, KnownToken
<1>1. t \in Ops /\ setup' = setup /\ consumed \subseteq consumed' /\ dropped \subseteq dropped'
  BY DEF Minted, Steps, Grows
<1>2. mode' = mode
  BY <1>1 DEF mode
<1>3. Replaced(t) => Replaced(t)'
  BY <1>1 DEF ReplacedStays
<1>4. KnownToken(t)
  BY DEF MintedKnown, KnownToken
<1>5. KnownMoves(t)
  BY DEF KnownStep
<1> QED
  BY <1>1, <1>2, <1>3, <1>4, <1>5 DEF KnownToken, KnownMoves

(* An old late delivery keeps its excuse. *)
Excused(l) ==
  \/ <<l[1], <<IF l[3] = "stale" THEN "dead" ELSE "ans", l[2]>>>> \in forgotten
  \/ l[3] = "stale" /\ mode = "redis" /\ op[l[2]].single

LEMMA LateKept ==
  ASSUME TypeOK, OpShape, Steps, LateShape, DeadButtonsStayDead,
         \A l \in late' : l \in late \/ (l \in Procs \X Ops \X {"stale", "answered"} /\ Excused(l)')
  PROVE  LateShape' /\ DeadButtonsStayDead'
<1>1. LateShape'
  BY DEF LateShape
<1>2. setup' = setup /\ forgotten \subseteq forgotten'
  BY DEF Steps, Grows, UsedStep
<1>3. mode' = mode
  BY <1>2 DEF mode
<1>4. ASSUME NEW l \in late' PROVE Excused(l)'
  <2>1. CASE l \in late
    <3>1. Excused(l) /\ l[2] \in Ops
      BY <2>1 DEF DeadButtonsStayDead, Excused, LateShape
    <3>2. op[l[2]].single => op'[l[2]].single
      <4>1. op[l[2]].pc = "idle" => op[l[2]] = NoOp
        BY <3>1 DEF OpShape
      <4>2. op[l[2]].single => op[l[2]].pc # "idle"
        BY <4>1 DEF NoOp
      <4> QED
        BY <3>1, <4>2 DEF Steps, OpGrow, OpKeeps
    <3> QED
      BY <1>2, <1>3, <3>1, <3>2 DEF Excused
  <2> QED
    BY <2>1
<1> QED
  BY <1>1, <1>4 DEF DeadButtonsStayDead, Excused

-----------------------------------------------------------------------------
(* The actions. *)

LEMMA SeqWiden == ASSUME NEW A, NEW B, A \subseteq B, NEW s \in Seq(A) PROVE s \in Seq(B)
<1>1. \A i \in 1..Len(s) : s[i] \in B
  OBVIOUS
<1> QED
  BY <1>1

LEMMA MarksKept ==
  ASSUME TypeOK, OpShape, Steps, ReplacedStays, MarksGood,
         \A p \in Procs : used'[p] = used[p] \/ used'[p] \in Seq(GoodEntries'),
         \A p \in Procs : usedDisk'[p] = usedDisk[p] \/ usedDisk'[p] \in Seq(GoodEntries')
  PROVE  MarksGood'
<1>1. GoodEntries \subseteq GoodEntries'
  BY GoodStays
<1>2. ASSUME NEW p \in Procs PROVE used[p] \in Seq(GoodEntries') /\ usedDisk[p] \in Seq(GoodEntries')
  BY <1>1, SeqWiden DEF MarksGood
<1> QED
  BY <1>2 DEF MarksGood

(* A step that delivers, answers and replaces nothing. *)
LEMMA Quiet ==
  ASSUME CbInv, Steps, NoBegin, ReplacedStays, OpShape', SideShape', PressShape', MarksGood',
         RecStep, BoundStep, KnownStep, got' = got, stale' = stale, answered' = answered, late' = late
  PROVE  CbInv'
<1>1. TypeOK /\ OpShape /\ SpentOnce /\ StaleDead /\ AnsweredKnown /\ MintedKnown /\ LateShape /\ DeadButtonsStayDead
  BY DEF CbInv
<1>2. SpentOnce'
  BY <1>1, SpentKept
<1>3. StaleDead'
  BY <1>1, StaleKept
<1>4. AnsweredKnown'
  BY <1>1, AnsweredKept
<1>5. Minted' = Minted
  BY <1>1, SameMinted
<1>6. MintedKnown'
  BY <1>1, <1>5, KnownKept
<1>7. LateShape' /\ DeadButtonsStayDead'
  BY <1>1, LateKept
<1>8. TypeOK'
  BY DEF Steps
<1> QED
  BY <1>2, <1>3, <1>4, <1>6, <1>7, <1>8 DEF CbInv

(* No send returns, and none begins to wait for its answer but a text edit. *)
PcCalm == \A d \in Ops : /\ op'[d].pc = "done" => op[d].pc = "done"
                         /\ op'[d].pc = "sending" => op[d].pc = "sending" \/ d \notin Minted

LEMMA SideSame ==
  ASSUME CbInv, Steps, NoBegin, PcCalm, side' = side, alias' = alias, aliasNet' = aliasNet
  PROVE  SideShape' /\ RecStep /\ BoundStep /\ KnownStep
<1>1. TypeOK /\ OpShape /\ SideShape
  BY DEF CbInv
<1>2. SideShape'
  <2>1. \A p \in Procs, t \in Ops : SideMoves(p, t)
    BY DEF SideMoves
  <2>2. \A t \in Minted : op'[t].pc = "sending" =>
          op[t].pc = "sending" /\ (side[op[t].by][t].kept => side'[op[t].by][t].kept)
    BY DEF PcCalm, Minted
  <2> QED
    BY <1>1, <2>1, <2>2, SideShapeKept
<1>3. RecStep
  BY DEF RecStep, RecMoves
<1>4. BoundStep
  <2> SUFFICES ASSUME NEW t \in Minted, NEW q \in Procs, DoneFresh(t)' PROVE BoundMoves(q, t)
    BY DEF BoundStep
  <2>1. t \in Ops /\ op'[t].pc = "done" /\ op'[t].fresh
    BY DEF DoneFresh, Minted
  <2>2. op[t].pc = "done"
    BY <2>1 DEF PcCalm
  <2>3. op[t].fresh
    BY <2>1, <2>2 DEF Steps, OpGrow, OpKeeps
  <2>4. OfMessage(q)' = OfMessage(q)
    BY DEF OfMessage
  <2> QED
    BY <2>2, <2>3, <2>4 DEF BoundMoves, DoneFresh
<1>5. KnownStep
  BY DEF KnownStep, KnownMoves
<1> QED
  BY <1>2, <1>3, <1>4, <1>5

LEMMA TickKeeps == ASSUME CbInv, Tick PROVE CbInv'
<1>0. TypeOK /\ OpShape /\ SideShape /\ PressShape /\ MarksGood
  BY DEF CbInv
<1>1. Steps
  BY <1>0, TickSteps
<1>2. UNCHANGED <<op, shown, side, alias, aliasNet, used, usedDisk, press, hand, got, stale, answered, late>>
  BY DEF Tick, registry, history
<1>3. OpShape' /\ NoBegin /\ ReplacedStays
  BY <1>0, <1>1, <1>2, OpsSame
<1>4. SideShape' /\ RecStep /\ BoundStep /\ KnownStep
  <2>1. PcCalm
    BY <1>2 DEF PcCalm
  <2> QED
    BY <1>1, <1>2, <1>3, <2>1, SideSame
<1>5. PressShape'
  BY <1>0, <1>1, <1>2, PressShapeKept
<1>6. MarksGood'
  BY <1>0, <1>1, <1>2, <1>3, MarksKept
<1> QED
  BY <1>1, <1>2, <1>3, <1>4, <1>5, <1>6, Quiet

LEMMA AliasesKeep == ASSUME CbInv, NEW p \in Procs, PersistAliases(p) PROVE CbInv'
<1>0. TypeOK /\ OpShape /\ SideShape /\ PressShape /\ MarksGood
  BY DEF CbInv
<1>1. Steps
  BY <1>0, AliasSteps
<1>2. UNCHANGED <<op, shown, side, alias, aliasNet, used, usedDisk, press, hand, got, stale, answered, late>>
  BY DEF PersistAliases, history
<1>3. OpShape' /\ NoBegin /\ ReplacedStays
  BY <1>0, <1>1, <1>2, OpsSame
<1>4. SideShape' /\ RecStep /\ BoundStep /\ KnownStep
  <2>1. PcCalm
    BY <1>2 DEF PcCalm
  <2> QED
    BY <1>1, <1>2, <1>3, <2>1, SideSame
<1>5. PressShape'
  BY <1>0, <1>1, <1>2, PressShapeKept
<1>6. MarksGood'
  BY <1>0, <1>1, <1>2, <1>3, MarksKept
<1> QED
  BY <1>1, <1>2, <1>3, <1>4, <1>5, <1>6, Quiet

LEMMA PersistKeeps == ASSUME CbInv, NEW p \in Procs, PersistUsed(p) PROVE CbInv'
<1>0. TypeOK /\ OpShape /\ SideShape /\ PressShape /\ MarksGood
  BY DEF CbInv
<1>1. Steps /\ usedDisk' = [usedDisk EXCEPT ![p] = Unexpired(used[p], now)]
  BY <1>0, PersistSteps
<1>2. UNCHANGED <<op, shown, side, alias, aliasNet, used, press, hand, got, stale, answered, late>>
  BY DEF PersistUsed, history
<1>3. OpShape' /\ NoBegin /\ ReplacedStays
  BY <1>0, <1>1, <1>2, OpsSame
<1>4. SideShape' /\ RecStep /\ BoundStep /\ KnownStep
  <2>1. PcCalm
    BY <1>2 DEF PcCalm
  <2> QED
    BY <1>1, <1>2, <1>3, <2>1, SideSame
<1>5. PressShape'
  BY <1>0, <1>1, <1>2, PressShapeKept
<1>6. MarksGood'
  <2>1. now \in Nat /\ usedDisk \in [Procs -> Seq(Entry)]
    BY <1>0 DEF TypeOK
  <2>2. used[p] \in Seq(GoodEntries)
    BY <1>0 DEF MarksGood
  <2>3. Unexpired(used[p], now) \in Seq(GoodEntries)
    BY <2>1, <2>2, UnexpiredKeys
  <2>4. Unexpired(used[p], now) \in Seq(GoodEntries')
    BY <1>0, <1>1, <1>3, <2>3, GoodStays, SeqWiden
  <2>5. \A q \in Procs : usedDisk'[q] = usedDisk[q] \/ usedDisk'[q] \in Seq(GoodEntries')
    BY <1>1, <2>1, <2>4
  <2> QED
    BY <1>0, <1>1, <1>2, <1>3, <2>5, MarksKept
<1> QED
  BY <1>1, <1>2, <1>3, <1>4, <1>5, <1>6, Quiet

(* An operation moves on. *)
LEMMA OneOpMoves ==
  ASSUME TypeOK, OpShape, Steps, NEW e \in Ops, op' = [op EXCEPT ![e] = op'[e]], op[e].pc # "idle", OpMoves(e),
         shown' \subseteq Minted
  PROVE  OpShape' /\ NoBegin /\ \A d \in Ops \ {e} : op'[d] = op[d]
<1>1. op \in [Ops -> Operation]
  BY DEF TypeOK
<1>2. \A d \in Ops \ {e} : op'[d] = op[d]
  BY <1>1
<1>3. NoBegin
  BY <1>2 DEF NoBegin
<1>4. \A d \in Ops : op[d].pc # "idle" => OpMoves(d)
  <2> SUFFICES ASSUME NEW d \in Ops \ {e} PROVE OpMoves(d)
    OBVIOUS
  <2>1. op'[d] = op[d]
    BY <1>2
  <2> QED
    BY <2>1 DEF OpMoves, OpShape
<1> QED
  BY <1>2, <1>3, <1>4, OpShapeKept

LEMMA TakesKeeps == ASSUME CbInv, NEW e \in Ops, ServerTakes(e) PROVE CbInv'
<1>0. TypeOK /\ OpShape /\ SideShape /\ PressShape /\ MarksGood
  BY DEF CbInv
<1>1. /\ Steps /\ op[e].pc # "idle" /\ ~op[e].taken /\ shown' = op[e].board
      /\ op' = [op EXCEPT ![e] = op'[e]] /\ op'[e] = [op[e] EXCEPT !.taken = TRUE]
  BY <1>0, TakesSteps
<1>2. UNCHANGED <<side, alias, aliasNet, used, usedDisk, press, hand, got, stale, answered, late>>
  BY DEF ServerTakes, registry
<1>3. op'[e].pc = op[e].pc /\ op'[e].board = op[e].board /\ op'[e].taken
  <2>1. op \in [Ops -> Operation]
    BY <1>0 DEF TypeOK
  <2>2. op[e] \in Operation
    BY <2>1
  <2> QED
    BY <1>1, <2>2 DEF Operation
<1>4. op[e].board \subseteq Minted
  BY <1>0 DEF OpShape
<1>5. OpMoves(e)
  BY <1>3, <1>4 DEF OpMoves
<1>6. OpShape' /\ NoBegin /\ \A d \in Ops \ {e} : op'[d] = op[d]
  BY <1>0, <1>1, <1>4, <1>5, OneOpMoves
<1>7. ReplacedStays
  BY <1>0, TakesReplaced
<1>8. SideShape' /\ RecStep /\ BoundStep /\ KnownStep
  <2>1. PcCalm
    BY <1>3, <1>6 DEF PcCalm
  <2> QED
    BY <1>1, <1>2, <1>6, <2>1, SideSame
<1>9. PressShape'
  BY <1>0, <1>1, <1>2, PressShapeKept
<1>10. MarksGood'
  BY <1>0, <1>1, <1>2, <1>7, MarksKept
<1> QED
  BY <1>1, <1>2, <1>6, <1>7, <1>8, <1>9, <1>10, Quiet

LEMMA ThrowsKeeps == ASSUME CbInv, NEW e \in Ops, SendThrows(e) PROVE CbInv'
<1>0. TypeOK /\ OpShape /\ SideShape /\ PressShape /\ MarksGood
  BY DEF CbInv
<1>1. /\ Steps /\ op[e].pc = "sending"
      /\ op' = [op EXCEPT ![e] = op'[e]] /\ op'[e] = [op[e] EXCEPT !.pc = "gone"]
  BY <1>0, ThrowsSteps
<1>2. UNCHANGED <<shown, side, alias, aliasNet, used, usedDisk, press, hand, got, stale, answered, late>>
  BY DEF SendThrows, registry, history
<1>3. op'[e].pc = "gone" /\ op'[e].board = op[e].board /\ op'[e].taken = op[e].taken
  <2>1. op \in [Ops -> Operation]
    BY <1>0 DEF TypeOK
  <2>2. op[e] \in Operation
    BY <2>1
  <2> QED
    BY <1>1, <2>2 DEF Operation
<1>4. op[e].board \subseteq Minted /\ shown' \subseteq Minted
  BY <1>0, <1>2 DEF OpShape
<1>5. OpMoves(e)
  BY <1>3, <1>4 DEF OpMoves
<1>6. OpShape' /\ NoBegin /\ \A d \in Ops \ {e} : op'[d] = op[d]
  BY <1>0, <1>1, <1>4, <1>5, OneOpMoves
<1>7. ReplacedStays
  <2>1. TakenSame
    BY <1>3, <1>6 DEF TakenSame
  <2> QED
    BY <1>0, <1>1, <1>2, <2>1, ReplacedKept
<1>8. SideShape' /\ RecStep /\ BoundStep /\ KnownStep
  <2>1. PcCalm
    BY <1>3, <1>6 DEF PcCalm
  <2> QED
    BY <1>1, <1>2, <1>6, <2>1, SideSame
<1>9. PressShape'
  BY <1>0, <1>1, <1>2, PressShapeKept
<1>10. MarksGood'
  BY <1>0, <1>1, <1>2, <1>7, MarksKept
<1> QED
  BY <1>1, <1>2, <1>6, <1>7, <1>8, <1>9, <1>10, Quiet

LEMMA ReadKeeps ==
  ASSUME CbInv, NEW e \in Ops, NEW found \in BOOLEAN, ReadExistingKeyboard(e, found)
  PROVE  CbInv'
<1>0. TypeOK /\ OpShape /\ SideShape /\ PressShape /\ MarksGood
  BY DEF CbInv
<1>1. /\ Steps /\ op' = [op EXCEPT ![e] = op'[e]]
      /\ op'[e] = [op[e] EXCEPT !.pc = "sending", !.board = op'[e].board]
      /\ op'[e].board \in {op[1].board, {}} /\ op[e].pc = "reading"
  BY <1>0, ReadSteps
<1>2. UNCHANGED <<shown, side, alias, aliasNet, used, usedDisk, press, hand, got, stale, answered, late>>
  BY DEF ReadExistingKeyboard, registry, history
<1>3. op'[e].pc = "sending" /\ op'[e].taken = op[e].taken
  <2>1. op \in [Ops -> Operation]
    BY <1>0 DEF TypeOK
  <2>2. op[e] \in Operation
    BY <2>1
  <2> DEFINE b == op'[e].board
  <2>3. op'[e] = [op[e] EXCEPT !.pc = "sending", !.board = b]
    BY <1>1
  <2> HIDE DEF b
  <2> QED
    BY <2>2, <2>3 DEF Operation
<1>4. op'[e].board \subseteq Minted /\ shown' \subseteq Minted
  <2>1. 1 \in Ops
    BY CallbackBounds DEF Ops
  <2>2. op[1].board \subseteq Minted
    BY <1>0, <2>1 DEF OpShape
  <2> QED
    BY <1>0, <1>1, <1>2, <2>2 DEF OpShape
<1>5. op[e].kind = "text" /\ e \notin Minted
  BY <1>0, <1>1 DEF OpShape, Minted
<1>6. OpMoves(e)
  BY <1>3, <1>4, <1>5 DEF OpMoves
<1>7. OpShape' /\ NoBegin /\ \A d \in Ops \ {e} : op'[d] = op[d]
  BY <1>0, <1>1, <1>4, <1>6, OneOpMoves
<1>8. ReplacedStays
  <2>1. TakenSame
    BY <1>3, <1>7 DEF TakenSame
  <2> QED
    BY <1>0, <1>1, <1>2, <2>1, ReplacedKept
<1>9. SideShape' /\ RecStep /\ BoundStep /\ KnownStep
  <2>1. PcCalm
    BY <1>3, <1>5, <1>7 DEF PcCalm
  <2> QED
    BY <1>1, <1>2, <1>7, <2>1, SideSame
<1>10. PressShape'
  BY <1>0, <1>1, <1>2, PressShapeKept
<1>11. MarksGood'
  BY <1>0, <1>1, <1>2, <1>8, MarksKept
<1> QED
  BY <1>1, <1>2, <1>7, <1>8, <1>9, <1>10, <1>11, Quiet

LEMMA ReturnsKeeps == ASSUME CbInv, NEW e \in Ops, SendReturns(e) PROVE CbInv'
<1> DEFINE q == op[e].by
           s == side[q][e]
           s1 == side'[q][e]
<1>0. TypeOK /\ OpShape /\ SideShape /\ PressShape /\ MarksGood
  BY DEF CbInv
<1>1. /\ Steps /\ op[e].pc = "sending" /\ op[e].taken
      /\ op' = [op EXCEPT ![e] = op'[e]] /\ op'[e] = [op[e] EXCEPT !.pc = "done"]
      /\ \A p \in Procs, t \in Ops : p # q \/ t # e => side'[p][t] = side[p][t]
      /\ IF e \in Minted /\ (Signed \/ s.kept) THEN s1.kept /\ s1.bound /\ s1.ans = s.ans ELSE s1 = s
  BY <1>0, ReturnsSteps
<1>2. UNCHANGED <<shown, alias, aliasNet, used, usedDisk, press, hand, got, stale, answered, late>>
  BY DEF SendReturns, history
<1>3. op'[e].pc = "done" /\ op'[e].board = op[e].board /\ op'[e].taken = op[e].taken /\ q \in Procs
  <2>1. op \in [Ops -> Operation]
    BY <1>0 DEF TypeOK
  <2>2. op[e] \in Operation
    BY <2>1
  <2> QED
    BY <1>1, <2>2 DEF Operation
<1>4. op[e].board \subseteq Minted /\ shown' \subseteq Minted
  BY <1>0, <1>2 DEF OpShape
<1>5. OpMoves(e)
  BY <1>1, <1>3, <1>4 DEF OpMoves
<1>6. OpShape' /\ NoBegin /\ \A d \in Ops \ {e} : op'[d] = op[d]
  BY <1>0, <1>1, <1>4, <1>5, OneOpMoves
<1>7. ReplacedStays
  <2>1. TakenSame
    BY <1>3, <1>6 DEF TakenSame
  <2> QED
    BY <1>0, <1>1, <1>2, <2>1, ReplacedKept
<1>8. Signed /\ e \in Minted => s.kept
  BY <1>0, <1>1 DEF SideShape
<1>9. s \in Record
  <2>1. side \in [Procs -> [Ops -> Record]]
    BY <1>0 DEF TypeOK
  <2> QED
    BY <1>3, <2>1
<1>10. /\ e \in Minted /\ s.kept => s1.kept /\ s1.bound /\ s1.ans = s.ans
       /\ e \notin Minted \/ ~s.kept => s1 = s
  BY <1>1, <1>8
<1>11. ASSUME NEW p \in Procs, NEW t \in Ops PROVE (p = q /\ t = e) \/ side'[p][t] = side[p][t]
  BY <1>1
<1>12. SideMoves(q, e) /\ RecMoves(q, e) /\ (s.kept => s1.kept)
  BY <1>3, <1>10 DEF SideMoves, RecMoves
<1> HIDE DEF s, s1, q
<1>13. SideShape'
  <2>1. ASSUME NEW p \in Procs, NEW t \in Ops PROVE SideMoves(p, t)
    BY <1>11, <1>12 DEF SideMoves
  <2>2. \A t \in Minted : op'[t].pc = "sending" =>
          op[t].pc = "sending" /\ (side[op[t].by][t].kept => side'[op[t].by][t].kept)
    <3> SUFFICES ASSUME NEW t \in Minted, op'[t].pc = "sending"
                 PROVE  op[t].pc = "sending" /\ side'[op[t].by][t] = side[op[t].by][t]
      OBVIOUS
    <3>1. t \in Ops /\ t # e
      BY <1>3 DEF Minted
    <3>2. op[t].by \in Procs
      BY <1>0, <3>1 DEF TypeOK, Operation
    <3> QED
      BY <1>6, <1>11, <3>1, <3>2
  <2> QED
    BY <1>0, <1>1, <1>6, <2>1, <2>2, SideShapeKept
<1>14. RecStep
  <2> SUFFICES ASSUME NEW p \in Procs, NEW t \in Minted PROVE RecMoves(p, t)
    BY DEF RecStep
  <2>1. t \in Ops
    BY DEF Minted
  <2> QED
    BY <1>11, <1>12, <2>1 DEF RecMoves
<1>15. BoundStep
  <2> SUFFICES ASSUME NEW t \in Minted, NEW p \in Procs, DoneFresh(t)', op[t].by = p PROVE BoundMoves(p, t)
    BY DEF BoundStep
  <2>1. t \in Ops
    BY DEF Minted
  <2>2. CASE t # e
    <3>1. side'[p][t] = side[p][t] /\ op'[t] = op[t]
      BY <1>6, <1>11, <2>1, <2>2
    <3>2. DoneFresh(t) /\ (t \in OfMessage(p) => t \in OfMessage(p)')
      BY <3>1 DEF DoneFresh, OfMessage
    <3> QED
      BY <3>2 DEF BoundMoves
  <2>3. CASE t = e /\ s.kept
    <3>1. p = q /\ s1.kept /\ s1.bound
      BY <1>10, <2>3 DEF q
    <3>2. t \in OfMessage(p)'
      BY <2>1, <2>3, <3>1 DEF OfMessage, s1
    <3> QED
      BY <3>2 DEF BoundMoves
  <2>4. CASE t = e /\ ~s.kept
    <3>1. p = q /\ s1 = s /\ ~Signed
      BY <1>8, <1>10, <2>4 DEF q
    <3>2. ~side'[p][t].kept
      BY <2>4, <3>1 DEF s, s1
    <3> QED
      BY <3>1, <3>2 DEF BoundMoves
  <2> QED
    BY <2>2, <2>3, <2>4
<1>16. KnownStep
  <2> SUFFICES ASSUME NEW t \in Minted PROVE KnownMoves(t)
    BY DEF KnownStep
  <2>1. t \in Ops /\ First \in Procs
    BY CallbackBounds DEF Minted
  <2>2. side[First][t].kept => side'[First][t].kept
    BY <1>11, <1>12, <2>1 DEF s, s1
  <2> QED
    BY <1>2, <2>2 DEF KnownMoves
<1>17. PressShape'
  BY <1>0, <1>1, <1>2, PressShapeKept
<1>18. MarksGood'
  BY <1>0, <1>1, <1>2, <1>7, MarksKept
<1> QED
  BY <1>1, <1>2, <1>6, <1>7, <1>13, <1>14, <1>15, <1>16, <1>17, <1>18, Quiet

LEMMA RestartKeeps ==
  ASSUME CbInv, NEW p \in Procs, NEW clean \in BOOLEAN, Restart(p, clean)
  PROVE  CbInv'
<1>0. TypeOK /\ OpShape /\ SideShape /\ PressShape /\ MarksGood
  BY DEF CbInv
<1>1. /\ Steps
      /\ used'[p] \in {Unexpired(used[p], now), Unexpired(usedDisk[p], now)} /\ usedDisk'[p] = used'[p]
      /\ \A q \in Procs \ {p} : used'[q] = used[q] /\ usedDisk'[q] = usedDisk[q]
      /\ \A d \in Ops : /\ op'[d].board = op[d].board /\ op'[d].taken = op[d].taken
                        /\ op[d].pc = "idle" => op'[d] = op[d]
                        /\ op'[d].pc \in {op[d].pc, "gone"}
                        /\ op[d].by = p /\ op[d].pc # "idle" => ~op'[d].fresh /\ op'[d].pc \in {"done", "gone"}
      /\ \A t \in Ops : side'[p][t] = Absent
      /\ \A q \in Procs \ {p} : side'[q] = side[q]
      /\ \A t \in Ops : ~Signed /\ side[p][t].kept => <<p, t>> \in dropped'
      /\ \A t \in Ops : Signed /\ t \in alias[p] => t \in alias'[p] \/ <<p, t>> \in dropped'
      /\ \A q \in Procs \ {p} : alias'[q] = alias[q]
      /\ \A r \in Presses, q \in Procs : hand'[r][q] = hand[r][q] \/ (hand'[r][q] = "refused" /\ hand[r][q] # "new")
  BY <1>0, RestartSteps
<1>2. UNCHANGED <<shown, aliasNet, press, got, stale, answered, late>>
  BY DEF Restart
<1>3. NoBegin /\ TakenSame
  BY <1>1 DEF NoBegin, TakenSame
<1>4. ASSUME NEW d \in Ops, op[d].pc # "idle" PROVE OpMoves(d)
  <2>1. op[d].board \subseteq Minted /\ (op[d].pc = "done" => op[d].taken)
    BY <1>0 DEF OpShape
  <2> QED
    BY <1>1, <2>1 DEF OpMoves
<1>5. OpShape'
  BY <1>0, <1>1, <1>2, <1>3, <1>4, OpShapeKept DEF OpShape
<1>6. ReplacedStays
  BY <1>0, <1>1, <1>2, <1>3, ReplacedKept
<1>7. ~Absent.kept /\ ~Absent.bound
  BY DEF Absent
<1>8. ASSUME NEW q \in Procs, NEW t \in Ops
      PROVE  (q = p /\ ~side'[q][t].kept /\ ~side'[q][t].bound) \/ (q # p /\ side'[q][t] = side[q][t])
  BY <1>1, <1>7
<1>9. SideShape'
  <2>1. ASSUME NEW q \in Procs, NEW t \in Ops PROVE SideMoves(q, t)
    BY <1>8 DEF SideMoves
  <2>2. \A t \in Minted : op'[t].pc = "sending" =>
          op[t].pc = "sending" /\ (side[op[t].by][t].kept => side'[op[t].by][t].kept)
    <3> SUFFICES ASSUME NEW t \in Minted, op'[t].pc = "sending"
                 PROVE  op[t].pc = "sending" /\ side'[op[t].by][t] = side[op[t].by][t]
      OBVIOUS
    <3>1. t \in Ops
      BY DEF Minted
    <3>2. op[t].pc = "sending"
      BY <1>1, <3>1
    <3>3. op[t].by # p
      BY <1>1, <3>1, <3>2
    <3>4. op[t].by \in Procs
      BY <1>0, <3>1 DEF TypeOK, Operation
    <3> QED
      BY <1>8, <3>1, <3>2, <3>3, <3>4
  <2> QED
    BY <1>0, <1>1, <1>3, <2>1, <2>2, SideShapeKept
<1>10. RecStep
  <2> SUFFICES ASSUME NEW q \in Procs, NEW t \in Minted PROVE RecMoves(q, t)
    BY DEF RecStep
  <2>1. t \in Ops
    BY DEF Minted
  <2> QED
    BY <1>8, <2>1 DEF RecMoves
<1>11. BoundStep
  <2> SUFFICES ASSUME NEW t \in Minted, NEW q \in Procs, DoneFresh(t)', op[t].by = q PROVE BoundMoves(q, t)
    BY DEF BoundStep
  <2>1. t \in Ops /\ op'[t].pc = "done" /\ op'[t].fresh
    BY DEF Minted, DoneFresh
  <2>2. op[t].pc = "done"
    BY <1>1, <2>1
  <2>3. q # p /\ op[t].fresh
    BY <1>1, <2>1, <2>2 DEF Steps, OpGrow, OpKeeps
  <2>4. side'[q][t] = side[q][t]
    BY <1>8, <2>1, <2>3
  <2>5. DoneFresh(t) /\ (t \in OfMessage(q) => t \in OfMessage(q)')
    BY <2>2, <2>3, <2>4 DEF DoneFresh, OfMessage
  <2> QED
    BY <2>5 DEF BoundMoves
<1>12. KnownStep
  <2> SUFFICES ASSUME NEW t \in Minted PROVE KnownMoves(t)
    BY DEF KnownStep
  <2>1. t \in Ops /\ First \in Procs
    BY CallbackBounds DEF Minted
  <2>2. mode = "memory" /\ side[First][t].kept => side'[First][t].kept \/ <<First, t>> \in dropped'
    BY <1>1, <1>8, <2>1 DEF Signed
  <2>3. mode = "file" /\ t \in alias[First] => t \in alias'[First] \/ <<First, t>> \in dropped'
    BY <1>1, <2>1 DEF Signed
  <2> QED
    BY <1>2, <2>2, <2>3 DEF KnownMoves
<1>13. PressShape'
  BY <1>0, <1>1, <1>2, PressShapeKept
<1>14. MarksGood'
  <2>1. now \in Nat
    BY <1>0 DEF TypeOK
  <2>2. used[p] \in Seq(GoodEntries) /\ usedDisk[p] \in Seq(GoodEntries)
    BY <1>0 DEF MarksGood
  <2>3. Unexpired(used[p], now) \in Seq(GoodEntries) /\ Unexpired(usedDisk[p], now) \in Seq(GoodEntries)
    BY <2>1, <2>2, UnexpiredKeys
  <2>4. used'[p] \in Seq(GoodEntries)
    BY <1>1, <2>3
  <2>5. GoodEntries \subseteq GoodEntries'
    BY <1>0, <1>1, <1>6, GoodStays
  <2>6. used'[p] \in Seq(GoodEntries')
    BY <2>4, <2>5, SeqWiden
  <2>7. \A q \in Procs : used'[q] = used[q] \/ used'[q] \in Seq(GoodEntries')
    BY <1>1, <2>6
  <2>8. \A q \in Procs : usedDisk'[q] = usedDisk[q] \/ usedDisk'[q] \in Seq(GoodEntries')
    BY <1>1, <2>6
  <2> QED
    BY <1>0, <1>1, <1>6, <2>7, <2>8, MarksKept
<1> QED
  BY <1>1, <1>2, <1>3, <1>5, <1>6, <1>9, <1>10, <1>11, <1>12, <1>13, <1>14, Quiet

(* One process moves on with one press. *)
LEMMA PressShapeMoved ==
  ASSUME TypeOK, OpShape, Steps, PressShape, NEW r \in Presses, NEW p \in Procs, NEW s, Moves(r, p, s),
         r \in 1..Len(press'), \A i \in 1..Len(press) : i \in 1..Len(press') /\ press'[i] = press[i],
         \A i \in 1..Len(press') : i \in 1..Len(press) \/ i = r,
         press'[r].tok \in Minted',
         s = "claiming" => mode = "redis" /\ op'[press'[r].tok].single,
         s = "got" /\ mode = "redis" /\ op'[press'[r].tok].single => press'[r].tok \in claims'
  PROVE  PressShape'
<1>1. TokenStays
  BY MintedStays
<1>2. setup' = setup /\ claims \subseteq claims'
  BY DEF Steps, Grows
<1>3. \A i \in 1..Len(press) : press[i].tok \in Minted
  BY DEF PressShape
<1>4. \A i \in 1..Len(press') : press'[i].tok \in Minted'
  BY <1>1, <1>3 DEF TokenStays
<1>5. mode' = mode
  BY <1>2 DEF mode
<1>6. ASSUME NEW i \in Presses, NEW q \in Procs
      PROVE  /\ hand'[i][q] # "new" => i \in 1..Len(press')
             /\ hand'[i][q] = "claiming" => mode' = "redis" /\ op'[press'[i].tok].single
             /\ hand'[i][q] = "got" /\ mode' = "redis" /\ op'[press'[i].tok].single => press'[i].tok \in claims'
  <2>1. CASE i = r /\ q = p
    <3>1. hand'[i][q] = s
      BY <2>1 DEF Moves
    <3> QED
      BY <1>5, <2>1, <3>1
  <2>2. CASE ~(i = r /\ q = p)
    <3>1. hand'[i][q] = hand[i][q]
      BY <2>2 DEF Moves
    <3>2. /\ hand[i][q] # "new" => i \in 1..Len(press)
          /\ hand[i][q] = "claiming" => mode = "redis" /\ op[press[i].tok].single
          /\ hand[i][q] = "got" /\ mode = "redis" /\ op[press[i].tok].single => press[i].tok \in claims
      BY DEF PressShape
    <3>3. i \in 1..Len(press) => press'[i].tok = press[i].tok /\ op'[press[i].tok].single = op[press[i].tok].single
      BY <1>1, <1>3 DEF TokenStays
    <3> QED
      BY <1>2, <1>5, <3>1, <3>2, <3>3
  <2> QED
    BY <2>1, <2>2
<1> QED
  BY <1>4, <1>6 DEF PressShape

(* A press of a token of one process changes what that process has of it. *)
LEMMA AnswerKeeps == ASSUME CbInv, NEW r \in Presses, NEW p \in Procs, AnswerCallback(r, p) PROVE CbInv'
<1>0. TypeOK /\ OpShape /\ SideShape /\ PressShape /\ MarksGood
  BY DEF CbInv
<1>00. PICK t \in Ops : t = press[r].tok
  BY <1>0, AnswerSteps
<1>1. /\ Steps /\ hand[r][p] = "got" /\ r \in 1..Len(press)
      /\ Moves(r, p, "answered") /\ SideBut(p, t)
      /\ side'[p][t].kept => side'[p][t].ans
      /\ side'[p][t].bound = side[p][t].bound
      /\ side[p][t].kept => side'[p][t].kept
      /\ ~Signed => side'[p][t].kept = side[p][t].kept
      /\ Signed => HasKey(used'[p], <<"ans", t>>, now) \/ <<p, <<"ans", t>>>> \in forgotten'
      /\ \A q \in Procs \ {p} : used'[q] = used[q]
      /\ \A E : used[p] \in Seq(E) /\ (\A x \in Nat : x >= op[t].exp => [key |-> <<"ans", t>>, exp |-> x] \in E) => used'[p] \in Seq(E)
      /\ answered' = answered \cup {<<p, t>>}
      /\ UNCHANGED <<setup, now, op, shown, alias, aliasDisk, aliasNet, usedDisk, claims, press, restarts, got, consumed, dropped, stale, late, restored>>
  BY <1>0, <1>00, AnswerSteps
<1>2. t \in Minted
  BY <1>0, <1>00, <1>1 DEF PressShape
<1>3. OpShape' /\ NoBegin /\ ReplacedStays /\ Minted' = Minted
  BY <1>0, <1>1, OpsSame
<1>4. ASSUME NEW q \in Procs, NEW u \in Ops PROVE (q = p /\ u = t) \/ side'[q][u] = side[q][u]
  BY <1>1 DEF SideBut
<1>5. SideShape'
  <2>1. ASSUME NEW q \in Procs, NEW u \in Ops PROVE SideMoves(q, u)
    BY <1>1, <1>2, <1>4 DEF SideMoves
  <2>2. \A u \in Minted : op'[u].pc = "sending" =>
          op[u].pc = "sending" /\ (side[op[u].by][u].kept => side'[op[u].by][u].kept)
    <3> SUFFICES ASSUME NEW u \in Minted PROVE side[op[u].by][u].kept => side'[op[u].by][u].kept
      BY <1>1
    <3>1. u \in Ops
      BY DEF Minted
    <3>2. op[u].by \in Procs
      BY <1>0, <3>1 DEF TypeOK, Operation
    <3> QED
      BY <1>1, <1>4, <3>1, <3>2
  <2> QED
    BY <1>0, <1>1, <1>3, <2>1, <2>2, SideShapeKept
<1>6. RecStep
  <2> SUFFICES ASSUME NEW q \in Procs, NEW u \in Minted PROVE RecMoves(q, u)
    BY DEF RecStep
  <2>1. u \in Ops
    BY DEF Minted
  <2> QED
    BY <1>1, <1>4, <2>1 DEF RecMoves
<1>7. BoundStep
  <2> SUFFICES ASSUME NEW u \in Minted, NEW q \in Procs, DoneFresh(u)' PROVE BoundMoves(q, u)
    BY DEF BoundStep
  <2>1. u \in Ops
    BY DEF Minted
  <2>2. DoneFresh(u)
    BY <1>1 DEF DoneFresh
  <2>3. u \in OfMessage(q) => u \in OfMessage(q)'
    BY <1>1, <1>4, <2>1 DEF OfMessage
  <2> QED
    BY <2>2, <2>3 DEF BoundMoves
<1>8. KnownStep
  <2> SUFFICES ASSUME NEW u \in Minted PROVE KnownMoves(u)
    BY DEF KnownStep
  <2>1. u \in Ops /\ First \in Procs
    BY CallbackBounds DEF Minted
  <2>2. side[First][u].kept => side'[First][u].kept
    BY <1>1, <1>4, <2>1
  <2> QED
    BY <1>1, <2>2 DEF KnownMoves
<1>9. PressShape'
  <2>1. \A i \in 1..Len(press) : i \in 1..Len(press') /\ press'[i] = press[i]
    BY <1>1
  <2>2. \A i \in 1..Len(press') : i \in 1..Len(press) \/ i = r
    BY <1>1
  <2>3. press'[r].tok \in Minted' /\ r \in 1..Len(press')
    BY <1>00, <1>1, <1>2, <1>3
  <2> QED
    BY <1>0, <1>1, <2>1, <2>2, <2>3, PressShapeMoved
<1>10. MarksGood'
  <2>1. used[p] \in Seq(GoodEntries')
    <3>1. used[p] \in Seq(GoodEntries)
      BY <1>0 DEF MarksGood
    <3> QED
      BY <1>0, <1>1, <1>3, <3>1, GoodStays, SeqWiden
  <2>2. ASSUME NEW x \in Nat, x >= op[t].exp PROVE [key |-> <<"ans", t>>, exp |-> x] \in GoodEntries'
    <3> DEFINE m == [key |-> <<"ans", t>>, exp |-> x]
    <3>1. m \in Entry
      BY DEF Entry, Keys
    <3>2. m.key[2] = t /\ m.key[1] = "ans" /\ m.exp = x
      OBVIOUS
    <3> HIDE DEF m
    <3>3. GoodEntry(m)'
      BY <1>1, <1>2, <1>3, <2>2, <3>2 DEF GoodEntry
    <3>4. m \in GoodEntries'
      BY <3>1, <3>3 DEF GoodEntries
    <3> QED
      BY <3>4 DEF m
  <2>3. used'[p] \in Seq(GoodEntries')
    BY <1>1, <2>1, <2>2
  <2>4. \A q \in Procs : used'[q] = used[q] \/ used'[q] \in Seq(GoodEntries')
    BY <1>1, <2>3
  <2> QED
    BY <1>0, <1>1, <1>3, <2>4, MarksKept
<1>11. TypeOK' /\ SpentOnce /\ StaleDead /\ AnsweredKnown /\ MintedKnown /\ LateShape /\ DeadButtonsStayDead
  BY <1>1 DEF CbInv, Steps
<1>12. AnsweredAt(p, t)'
  <2>1. mode' = mode /\ Signed' = Signed
    BY <1>1 DEF mode, Signed
  <2>2. Signed => Marked(p, "ans", t)'
    <3> SUFFICES ASSUME Signed PROVE Marked(p, "ans", t)'
      OBVIOUS
    <3>1. now' >= now
      BY <1>1 DEF Steps, Grows
    <3> QED
      BY <1>0, <1>1, <1>10, <1>11, <3>1, MarkLasts
  <2>3. mode = "redis" /\ op[t].single => t \in claims
    BY <1>0, <1>00, <1>1 DEF PressShape
  <2> QED
    BY <1>1, <1>2, <1>3, <2>1, <2>2, <2>3 DEF AnsweredAt
<1>13. AnsweredKnown'
  <2>1. \A q \in Procs, u \in Ops : <<q, u>> \in answered' => <<q, u>> \in answered \/ AnsweredAt(q, u)'
    BY <1>1, <1>12
  <2> QED
    BY <1>0, <1>1, <1>6, <1>10, <1>11, <2>1, AnsweredKept
<1>14. SpentOnce'
  BY <1>0, <1>1, <1>6, <1>10, <1>11, SpentKept
<1>15. StaleDead'
  BY <1>0, <1>1, <1>3, <1>5, <1>6, <1>7, <1>10, <1>11, StaleKept
<1>16. MintedKnown'
  BY <1>0, <1>1, <1>3, <1>8, <1>11, KnownKept
<1>17. LateShape' /\ DeadButtonsStayDead'
  BY <1>0, <1>1, <1>11, LateKept
<1> QED
  BY <1>3, <1>5, <1>9, <1>10, <1>11, <1>13, <1>14, <1>15, <1>16, <1>17 DEF CbInv

(* A token is delivered. *)
LEMMA SpentGets ==
  ASSUME TypeOK, OpShape, Steps, MarksGood', RecStep, SpentOnce, NEW t \in Minted,
         \A u \in Ops \ {t} : got'[u] = got[u], op[t].single => Spent(t)'
  PROVE  SpentOnce'
<1>1. TokenStays
  BY MintedStays
<1> SUFFICES ASSUME NEW u \in Ops, got'[u] > 0 PROVE u \in Minted' /\ (op'[u].single => Spent(u)')
  BY DEF SpentOnce
<1>2. CASE u = t
  BY <1>1, <1>2 DEF TokenStays
<1>3. CASE u # t
  <2>1. got'[u] = got[u]
    BY <1>3
  <2>2. u \in Minted /\ (op[u].single => Spent(u))
    BY <2>1 DEF SpentOnce
  <2>3. u \in Minted' /\ op'[u].single = op[u].single
    BY <1>1, <2>2 DEF TokenStays
  <2>4. Spent(u) => Spent(u)'
    BY <2>1, <2>2, SpentStays
  <2> QED
    BY <2>2, <2>3, <2>4
<1> QED
  BY <1>2, <1>3

LEMMA ClaimKeeps == ASSUME CbInv, NEW r \in Presses, NEW p \in Procs, ClaimAsync(r, p) PROVE CbInv'
<1>0. TypeOK /\ OpShape /\ SideShape /\ PressShape /\ MarksGood
  BY DEF CbInv
<1>1. /\ Steps /\ hand[r][p] = "claiming" /\ r \in 1..Len(press) /\ press[r] \in Press
      /\ \/ Moves(r, p, "refused") /\ Refuses /\ claims' = claims /\ consumed' = consumed
         \/ /\ press[r].tok \notin claims /\ claims' = claims \cup {press[r].tok}
            /\ Moves(r, p, "got") \/ Moves(r, p, "refused")
            /\ Refuses \/ Gets(p, press[r].tok)
      /\ UNCHANGED <<setup, now, op, shown, side, alias, aliasDisk, aliasNet, used, usedDisk, press, restarts, forgotten, dropped, stale, answered, restored>>
  BY <1>0, ClaimSteps
<1>2. PICK t \in Ops : t = press[r].tok
  BY <1>1 DEF Press
<1>3. t \in Minted /\ mode = "redis" /\ op[t].single
  BY <1>0, <1>1, <1>2 DEF PressShape
<1>4. OpShape' /\ NoBegin /\ ReplacedStays /\ Minted' = Minted
  BY <1>0, <1>1, OpsSame
<1>5. SideShape' /\ RecStep /\ BoundStep /\ KnownStep
  <2>1. PcCalm
    BY <1>1 DEF PcCalm
  <2> QED
    BY <1>1, <1>4, <2>1, SideSame
<1>6. MarksGood'
  BY <1>0, <1>1, <1>4, MarksKept
<1>7. PressShape'
  <2>1. \A i \in 1..Len(press) : i \in 1..Len(press') /\ press'[i] = press[i]
    BY <1>1
  <2>2. \A i \in 1..Len(press') : i \in 1..Len(press) \/ i = r
    BY <1>1
  <2>3. press'[r].tok \in Minted' /\ r \in 1..Len(press') /\ press'[r].tok = t
    BY <1>1, <1>2, <1>3, <1>4
  <2>4. CASE Moves(r, p, "refused")
    BY <1>0, <1>1, <2>1, <2>2, <2>3, <2>4, PressShapeMoved
  <2>5. CASE Moves(r, p, "got") /\ claims' = claims \cup {press[r].tok}
    <3>1. press'[r].tok \in claims'
      BY <1>2, <2>3, <2>5
    <3> QED
      BY <1>0, <1>1, <2>1, <2>2, <2>3, <2>5, <3>1, PressShapeMoved
  <2> QED
    BY <1>1, <2>4, <2>5
<1>8. TypeOK' /\ SpentOnce /\ StaleDead /\ AnsweredKnown /\ MintedKnown /\ LateShape /\ DeadButtonsStayDead
  BY <1>1 DEF CbInv, Steps
<1>9. Refuses \/ (t \notin claims /\ t \in claims' /\ Gets(p, t))
  BY <1>1, <1>2
<1>10. SpentOnce'
  <2>1. CASE Refuses
    BY <1>0, <1>1, <1>5, <1>6, <1>8, <2>1, SpentKept DEF Refuses
  <2>2. CASE t \notin claims /\ t \in claims' /\ Gets(p, t)
    <3>1. got \in [Ops -> Nat]
      BY <1>0 DEF TypeOK
    <3>2. got[t] \in Nat
      BY <3>1
    <3>3. ~(got[t] > 0)
      BY <1>3, <1>8, <2>2 DEF SpentOnce, Spent
    <3>4. got'[t] = got[t] + 1 /\ \A u \in Ops \ {t} : got'[u] = got[u]
      BY <2>2 DEF Gets
    <3>5. got'[t] <= 1
      BY <3>2, <3>3, <3>4
    <3>6. mode' = "redis"
      BY <1>1, <1>3 DEF mode
    <3>7. Spent(t)'
      BY <2>2, <3>5, <3>6 DEF Spent
    <3> QED
      BY <1>0, <1>1, <1>3, <1>5, <1>6, <1>8, <3>4, <3>7, SpentGets
  <2> QED
    BY <1>9, <2>1, <2>2
<1>11. LateShape' /\ DeadButtonsStayDead'
  <2>1. CASE Refuses
    BY <1>0, <1>1, <1>8, <2>1, LateKept DEF Refuses
  <2>2. CASE t \notin claims /\ t \in claims' /\ Gets(p, t)
    <3>1. <<p, t>> \notin answered
      BY <1>3, <1>8, <2>2 DEF AnsweredKnown
    <3>2. ASSUME NEW l \in late' PROVE l \in late \/ (l \in Procs \X Ops \X {"stale", "answered"} /\ Excused(l)')
      <4>1. l \in late \/ l = <<p, t, "stale">>
        BY <2>2, <3>1 DEF Gets
      <4>2. l = <<p, t, "stale">> => l \in Procs \X Ops \X {"stale", "answered"} /\ l[3] = "stale" /\ l[2] = t
        OBVIOUS
      <4>3. mode' = "redis" /\ op'[t].single
        BY <1>1, <1>3 DEF mode
      <4> QED
        BY <4>1, <4>2, <4>3 DEF Excused
    <3> QED
      BY <1>0, <1>1, <1>8, <3>2, LateKept
  <2> QED
    BY <1>9, <2>1, <2>2
<1>12. StaleDead'
  BY <1>0, <1>1, <1>4, <1>5, <1>6, <1>8, StaleKept
<1>13. AnsweredKnown'
  BY <1>0, <1>1, <1>5, <1>6, <1>8, AnsweredKept
<1>14. MintedKnown'
  BY <1>0, <1>1, <1>4, <1>5, <1>8, KnownKept
<1> QED
  BY <1>4, <1>5, <1>6, <1>7, <1>8, <1>10, <1>11, <1>12, <1>13, <1>14 DEF CbInv

(* A token that peek finds: what its late delivery is excused by. *)
LEMMA LateExcused ==
  ASSUME CbInv, NEW p \in Procs, NEW t \in Ops, Peek(p, t), forgotten \subseteq forgotten',
         ~Answered(p, t), Gets(p, t), NEW l \in late'
  PROVE  l \in late \/ (l \in Procs \X Ops \X {"stale", "answered"} /\ Excused(l)')
<1>1. StaleDead /\ AnsweredKnown /\ TypeOK
  BY DEF CbInv
<1>2. ~(op[t].exp <= now)
  <2>1. op[t].exp > now
    BY DEF Peek, PeekMemory, InTime
  <2>2. op \in [Ops -> Operation] /\ now \in Nat
    BY <1>1 DEF TypeOK
  <2>3. op[t].exp \in Nat
    BY <2>2 DEF Operation
  <2> QED
    BY <2>1, <2>2, <2>3
<1>3. /\ Signed => ~HasKey(used[p], <<"dead", t>>, now)
      /\ ~Signed => side[p][t].kept
  BY DEF Peek, PeekMemory
<1>4. CASE l = <<p, t, "stale">> /\ <<p, t>> \in stale
  <2>1. (Signed => Marked(p, "dead", t)) /\ (~Signed => ~side[p][t].kept)
    BY <1>1, <1>4 DEF StaleDead
  <2>2. <<p, <<"dead", t>>>> \in forgotten'
    BY <1>2, <1>3, <2>1 DEF Marked
  <2>3. l \in Procs \X Ops \X {"stale", "answered"} /\ l[1] = p /\ l[2] = t /\ l[3] = "stale"
    BY <1>4
  <2> QED
    BY <2>2, <2>3 DEF Excused
<1>5. CASE l = <<p, t, "answered">> /\ <<p, t>> \in answered
  <2>1. (side[p][t].kept => side[p][t].ans) /\ (Signed => Marked(p, "ans", t))
    BY <1>1, <1>5 DEF AnsweredKnown
  <2>2. ~side[p][t].kept /\ Signed /\ ~HasKey(used[p], <<"ans", t>>, now)
    BY <1>3, <2>1 DEF Answered
  <2>3. <<p, <<"ans", t>>>> \in forgotten'
    BY <1>2, <2>1, <2>2 DEF Marked
  <2>4. l \in Procs \X Ops \X {"stale", "answered"} /\ l[1] = p /\ l[2] = t /\ l[3] = "answered"
    BY <1>5
  <2> QED
    BY <2>3, <2>4 DEF Excused
<1> QED
  BY <1>4, <1>5 DEF Gets

(* What resolve does to the stores. *)
LEMMA ResolveStores ==
  ASSUME CbInv, NEW r \in Presses, NEW p \in Procs, NEW x \in Press, Resolve(r, p, x), NEW t \in Minted, t = x.tok
  PROVE  /\ Steps /\ OpShape' /\ NoBegin /\ ReplacedStays /\ Minted' = Minted
         /\ SideShape' /\ RecStep /\ BoundStep /\ KnownStep /\ MarksGood'
<1>0. TypeOK /\ OpShape /\ SideShape /\ MarksGood /\ t \in Ops
  BY DEF CbInv, Minted
<1>1. /\ Turned(r, p, x) \/ Uses(r, p, x) \/ Shares(r, p, x)
      /\ UNCHANGED <<setup, now, op, shown, alias, aliasDisk, aliasNet, usedDisk, claims, restarts, dropped, stale, answered, restored>>
  BY <1>0, ResolveFacts
<1>2. Steps
  BY <1>0, ResolveSteps
<1>3. OpShape' /\ NoBegin /\ ReplacedStays /\ Minted' = Minted
  BY <1>0, <1>1, <1>2, OpsSame
<1>4. CASE Untouched
  <2>1. side' = side /\ used' = used
    BY <1>4 DEF Untouched
  <2>2. PcCalm
    BY <1>1 DEF PcCalm
  <2>3. SideShape' /\ RecStep /\ BoundStep /\ KnownStep
    BY <1>1, <1>2, <1>3, <2>1, <2>2, SideSame
  <2>4. MarksGood'
    BY <1>0, <1>1, <1>2, <1>3, <2>1, MarksKept
  <2> QED
    BY <1>2, <1>3, <2>3, <2>4
<1>5. CASE Consumed(p, t) /\ mode # "redis"
  <2>1. /\ consumed' = consumed \cup {t} /\ SideBut(p, t)
        /\ side'[p][t] = IF Signed THEN side[p][t] ELSE Absent
        /\ \A q \in Procs \ {p} : used'[q] = used[q]
        /\ \A E : used[p] \in Seq(E) /\ [key |-> <<"dead", t>>, exp |-> op[t].exp] \in E => used'[p] \in Seq(E)
    BY <1>0, <1>5, ConsumedFacts
  <2>2. ~Absent.kept /\ ~Absent.bound
    BY DEF Absent
  <2>3. ASSUME NEW q \in Procs, NEW u \in Ops
        PROVE  \/ side'[q][u] = side[q][u]
               \/ ~Signed /\ u = t /\ ~side'[q][u].kept /\ ~side'[q][u].bound
    BY <2>1, <2>2 DEF SideBut
  <2>4. SideShape'
    <3>1. ASSUME NEW q \in Procs, NEW u \in Ops PROVE SideMoves(q, u)
      BY <2>3 DEF SideMoves
    <3>2. Signed => \A u \in Minted : op'[u].pc = "sending" =>
            op[u].pc = "sending" /\ (side[op[u].by][u].kept => side'[op[u].by][u].kept)
      <4> SUFFICES ASSUME Signed, NEW u \in Minted PROVE side[op[u].by][u].kept => side'[op[u].by][u].kept
        BY <1>1
      <4>1. u \in Ops
        BY DEF Minted
      <4>2. op[u].by \in Procs
        BY <1>0, <4>1 DEF TypeOK, Operation
      <4> QED
        BY <2>3, <4>1, <4>2
    <3> QED
      BY <1>0, <1>2, <1>3, <3>1, <3>2, SideShapeKept
  <2>5. RecStep
    <3> SUFFICES ASSUME NEW q \in Procs, NEW u \in Minted PROVE RecMoves(q, u)
      BY DEF RecStep
    <3>1. u \in Ops
      BY DEF Minted
    <3> QED
      BY <2>3, <3>1 DEF RecMoves
  <2>6. BoundStep
    <3> SUFFICES ASSUME NEW u \in Minted, NEW q \in Procs, DoneFresh(u)' PROVE BoundMoves(q, u)
      BY DEF BoundStep
    <3>1. u \in Ops
      BY DEF Minted
    <3>2. DoneFresh(u)
      BY <1>1 DEF DoneFresh
    <3>3. CASE side'[q][u] = side[q][u]
      <4>1. u \in OfMessage(q) => u \in OfMessage(q)'
        BY <3>3 DEF OfMessage
      <4> QED
        BY <3>2, <4>1 DEF BoundMoves
    <3>4. CASE ~Signed /\ ~side'[q][u].kept
      BY <3>4 DEF BoundMoves
    <3> QED
      BY <2>3, <3>1, <3>3, <3>4
  <2>7. KnownStep
    <3> SUFFICES ASSUME NEW u \in Minted PROVE KnownMoves(u)
      BY DEF KnownStep
    <3>1. u \in Ops /\ First \in Procs
      BY CallbackBounds DEF Minted
    <3>2. side[First][u].kept => side'[First][u].kept \/ u \in consumed'
      BY <2>1, <2>3, <3>1
    <3> QED
      BY <1>1, <3>2 DEF KnownMoves
  <2>8. MarksGood'
    <3>1. used[p] \in Seq(GoodEntries')
      <4>1. used[p] \in Seq(GoodEntries)
        BY <1>0 DEF MarksGood
      <4> QED
        BY <1>0, <1>2, <1>3, <4>1, GoodStays, SeqWiden
    <3>2. [key |-> <<"dead", t>>, exp |-> op[t].exp] \in GoodEntries'
      <4> DEFINE y == op[t].exp
      <4>1. y \in Nat
        BY <1>0 DEF TypeOK, Operation
      <4>2. op'[t].exp = y /\ y >= y
        BY <1>1, <4>1
      <4> HIDE DEF y
      <4>3. PICK m \in Entry : m = [key |-> <<"dead", t>>, exp |-> y]
        BY <1>0, <4>1 DEF Entry, Keys
      <4>4. m.key[2] = t /\ m.exp = y
        BY <4>3
      <4>5. GoodEntry(m)'
        BY <1>3, <2>1, <4>2, <4>4 DEF GoodEntry
      <4>6. m \in GoodEntries'
        BY <4>5 DEF GoodEntries
      <4> QED
        BY <4>3, <4>6 DEF y
    <3>3. used'[p] \in Seq(GoodEntries')
      BY <2>1, <3>1, <3>2
    <3>4. \A q \in Procs : used'[q] = used[q] \/ used'[q] \in Seq(GoodEntries')
      BY <2>1, <3>3
    <3> QED
      BY <1>0, <1>1, <1>2, <1>3, <3>4, MarksKept
  <2> QED
    BY <1>2, <1>3, <2>4, <2>5, <2>6, <2>7, <2>8
<1> QED
  BY <1>1, <1>4, <1>5 DEF Turned, Uses, Shares

(* A single-use token that resolve delivers. *)
LEMMA UsesSpends ==
  ASSUME CbInv, NEW p \in Procs, NEW t \in Minted, Steps, MarksGood', p \in Active, mode # "redis",
         Peek(p, t), op[t].single, Consumed(p, t), Gets(p, t)
  PROVE  Spent(t)'
<1>0. TypeOK /\ OpShape /\ SpentOnce /\ t \in Ops
  BY DEF CbInv, Minted
<1>1. p = First
  BY DEF Active
<1>2. setup' = setup /\ now' >= now /\ TypeOK' /\ forgotten \subseteq forgotten'
  BY DEF Steps, Grows, UsedStep
<1>3. mode' = mode
  BY <1>2 DEF mode
<1>4. /\ side'[p][t] = IF Signed THEN side[p][t] ELSE Absent
      /\ Signed => HasKey(used'[p], <<"dead", t>>, now) \/ <<p, <<"dead", t>>>> \in forgotten'
  BY <1>0, ConsumedFacts
<1>5. got[t] > 0 => Spent(t)
  BY <1>0 DEF SpentOnce
<1>6. got[t] \in Nat /\ got'[t] = got[t] + 1
  BY <1>0 DEF TypeOK, Gets
<1>7. CASE mode = "memory"
  <2>1. side[First][t].kept
    BY <1>1, <1>7 DEF Peek, PeekMemory, Signed
  <2>2. ~(got[t] > 0)
    BY <1>5, <1>7, <2>1 DEF Spent
  <2>3. got'[t] <= 1
    BY <1>6, <2>2
  <2>4. ~side'[First][t].kept
    BY <1>1, <1>4, <1>7 DEF Signed, Absent
  <2> QED
    BY <1>3, <1>7, <2>3, <2>4 DEF Spent
<1>8. CASE mode = "file"
  <2>1. Signed
    BY <1>8 DEF Signed
  <2>2. Marked(p, "dead", t)'
    BY <1>0, <1>2, <1>4, <2>1, MarkLasts
  <2>3. ASSUME got[t] > 0 PROVE <<First, <<"dead", t>>>> \in forgotten'
    <3>1. Marked(First, "dead", t)
      BY <1>5, <1>8, <2>3 DEF Spent
    <3>2. ~HasKey(used[First], <<"dead", t>>, now) /\ op[t].exp > now
      BY <1>1, <2>1 DEF Peek, InTime
    <3>3. op[t].exp \in Nat /\ now \in Nat
      BY <1>0 DEF TypeOK, Operation
    <3>4. ~(op[t].exp <= now)
      BY <3>2, <3>3
    <3> QED
      BY <1>2, <3>1, <3>2, <3>4 DEF Marked
  <2>4. got'[t] > 1 => got[t] > 0
    BY <1>6
  <2> QED
    BY <1>1, <1>3, <1>8, <2>2, <2>3, <2>4 DEF Spent
<1>9. CASE mode \notin {"memory", "file", "redis"}
  BY <1>3, <1>9 DEF Spent
<1> QED
  BY <1>7, <1>8, <1>9

LEMMA ResolveKeeps ==
  ASSUME CbInv, NEW r \in Presses, NEW p \in Procs, NEW x \in Press, Resolve(r, p, x)
  PROVE  CbInv'
<1>0. TypeOK /\ OpShape /\ SideShape /\ PressShape /\ MarksGood
  BY DEF CbInv
<1>1. /\ p \in Active /\ Pressed(r, x) /\ (Turned(r, p, x) \/ Uses(r, p, x) \/ Shares(r, p, x))
      /\ UNCHANGED <<setup, now, op, shown, alias, aliasDisk, aliasNet, usedDisk, claims, restarts, dropped, stale, answered, restored>>
  BY <1>0, ResolveFacts
<1>2. x.tok \in Minted
  <2>1. CASE r \in 1..Len(press) /\ press[r] = x
    BY <1>0, <2>1 DEF PressShape
  <2>2. CASE \E e \in Ops : x.tok \in op[e].board
    BY <1>0, <2>2 DEF OpShape
  <2> QED
    BY <1>1, <2>1, <2>2 DEF Pressed
<1>3. PICK t \in Minted : t = x.tok
  BY <1>2
<1>4. /\ Steps /\ OpShape' /\ NoBegin /\ ReplacedStays /\ Minted' = Minted
      /\ SideShape' /\ RecStep /\ BoundStep /\ KnownStep /\ MarksGood'
  BY <1>3, ResolveStores
<1>5. TypeOK' /\ SpentOnce /\ StaleDead /\ AnsweredKnown /\ MintedKnown /\ LateShape /\ DeadButtonsStayDead /\ t \in Ops
  BY <1>4 DEF CbInv, Steps, Minted
<1>6. PressShape'
  <2>1. /\ r \in 1..Len(press') /\ press'[r].tok = t /\ t \in Minted'
        /\ \A i \in 1..Len(press) : i \in 1..Len(press') /\ press'[i] = press[i]
        /\ \A i \in 1..Len(press') : i \in 1..Len(press) \/ i = r
    BY <1>1, <1>3, <1>4 DEF Pressed
  <2>2. CASE Moves(r, p, "refused")
    BY <1>0, <1>4, <2>1, <2>2, PressShapeMoved
  <2>3. CASE Moves(r, p, "claiming") /\ op[t].single /\ mode = "redis"
    <3>1. op'[press'[r].tok].single
      BY <1>1, <2>1, <2>3
    <3> QED
      BY <1>0, <1>4, <2>1, <2>3, <3>1, PressShapeMoved
  <2>4. CASE Moves(r, p, "got") /\ (~op[t].single \/ mode # "redis")
    <3>1. ~(mode = "redis" /\ op'[press'[r].tok].single)
      BY <1>1, <2>1, <2>4
    <3> QED
      BY <1>0, <1>4, <2>1, <2>4, <3>1, PressShapeMoved
  <2> QED
    BY <1>1, <1>3, <2>2, <2>3, <2>4 DEF Turned, Uses, Shares, Delivers
<1>7. \/ Refuses
      \/ /\ Peek(p, t) /\ ~Answered(p, t) /\ Gets(p, t)
         /\ ~op[t].single \/ (mode # "redis" /\ op[t].single /\ Consumed(p, t))
  BY <1>1, <1>3 DEF Turned, Uses, Shares, Delivers
<1>8. SpentOnce' /\ LateShape' /\ DeadButtonsStayDead'
  <2>1. CASE Refuses
    <3>1. got' = got /\ late' = late
      BY <2>1 DEF Refuses
    <3> QED
      BY <1>0, <1>4, <1>5, <3>1, SpentKept, LateKept
  <2>2. CASE /\ Peek(p, t) /\ ~Answered(p, t) /\ Gets(p, t)
             /\ ~op[t].single \/ (mode # "redis" /\ op[t].single /\ Consumed(p, t))
    <3>1. op[t].single => Spent(t)'
      BY <1>1, <1>4, <2>2, UsesSpends
    <3>2. \A u \in Ops \ {t} : got'[u] = got[u]
      BY <2>2 DEF Gets
    <3>3. SpentOnce'
      BY <1>0, <1>4, <1>5, <3>1, <3>2, SpentGets
    <3>4. forgotten \subseteq forgotten'
      BY <1>4 DEF Steps, UsedStep
    <3>5. \A l \in late' : l \in late \/ (l \in Procs \X Ops \X {"stale", "answered"} /\ Excused(l)')
      BY <1>5, <2>2, <3>4, LateExcused
    <3>6. LateShape' /\ DeadButtonsStayDead'
      BY <1>0, <1>4, <1>5, <3>5, LateKept
    <3> QED
      BY <3>3, <3>6
  <2> QED
    BY <1>7, <2>1, <2>2
<1>9. StaleDead'
  BY <1>0, <1>1, <1>4, <1>5, StaleKept
<1>10. AnsweredKnown'
  BY <1>0, <1>1, <1>4, <1>5, AnsweredKept
<1>11. MintedKnown'
  BY <1>0, <1>4, <1>5, KnownKept
<1> QED
  BY <1>4, <1>5, <1>6, <1>8, <1>9, <1>10, <1>11 DEF CbInv

(* The operations when one begins. *)
LEMMA BeginsOps ==
  ASSUME CbInv, NEW p \in Procs, NEW e \in Ops, NEW kind, NEW revoked \in SUBSET Ops, Begins(p, e, kind, revoked)
  PROVE  /\ \A d \in Ops \ {e} : op'[d] = op[d]
         /\ e \notin Minted /\ Minted' = (IF Mints(kind) THEN Minted \cup {e} ELSE Minted)
         /\ ReplacedStays /\ OpShape' /\ PressShape'
         /\ \A t \in revoked : t \in Minted /\ t \in OfMessage(p) /\ op[t].pc = "done" /\ Replaced(t)'
<1>0. TypeOK /\ OpShape /\ SideShape /\ PressShape
  BY DEF CbInv
<1>1. /\ Steps /\ BegunOp(p, e, kind) /\ op[e].pc = "idle" /\ kind \in {"send", "replace", "remove", "text"}
      /\ \A d \in 1..(e - 1) : op[d].pc # "idle"
      /\ revoked = {} \/ (revoked = OfMessage(p) /\ kind \in {"replace", "remove"})
      /\ UNCHANGED <<setup, now, shown, usedDisk, claims, press, hand, got, consumed, answered, late, restored>>
  BY DEF Begins
<1>2. op \in [Ops -> Operation] /\ now \in Nat /\ RegTtl \in Nat
  BY <1>0, CallbackBounds DEF TypeOK
<1>3. /\ op'[e].pc \in {"reading", "sending"} /\ op'[e].by = p /\ op'[e].kind = kind /\ ~op'[e].taken
      /\ op'[e].pc = "reading" => kind = "text"
      /\ op'[e].exp = (IF Mints(kind) THEN now + RegTtl ELSE 0)
      /\ op'[e].board = (IF Mints(kind) THEN {e} ELSE {})
  BY <1>1 DEF BegunOp
<1>4. \A d \in Ops \ {e} : op'[d] = op[d]
  <2>1. op' = [op EXCEPT ![e] = op'[e]]
    BY <1>1 DEF BegunOp
  <2> QED
    BY <1>2, <2>1
<1>5. e \notin Minted
  <2>1. op[e] = NoOp
    BY <1>0, <1>1 DEF OpShape
  <2> QED
    BY <2>1 DEF NoOp, Minted
<1>6. Minted' = (IF Mints(kind) THEN Minted \cup {e} ELSE Minted)
  BY <1>3, <1>4, <1>5 DEF Minted, Mints
<1>7. ReplacedStays
  <2>1. TakenSame
    BY <1>1, <1>4 DEF TakenSame
  <2> QED
    BY <1>0, <1>1, <2>1, ReplacedKept
<1>8. OpShape'
  <2>1. ASSUME NEW d \in Ops, NEW f \in Ops, d < f, op'[d].pc = "idle" PROVE op'[f].pc = "idle"
    <3>1. d # e /\ op[d].pc = "idle"
      BY <1>3, <1>4, <2>1
    <3>2. f # e
      <4>1. f = e => d \in 1..(e - 1)
        BY <2>1 DEF Ops
      <4> QED
        BY <1>1, <3>1, <4>1
    <3>3. op[f].pc = "idle"
      BY <1>0, <2>1, <3>1 DEF OpShape
    <3> QED
      BY <1>4, <3>2, <3>3
  <2>2. ASSUME NEW d \in Ops
        PROVE  /\ op'[d].pc = "idle" => op'[d] = NoOp
               /\ op'[d].kind = "none" => op'[d].pc = "idle"
               /\ op'[d].pc = "reading" => op'[d].kind = "text"
               /\ d \notin Minted' => op'[d].exp = 0
               /\ op'[d].exp <= now' + RegTtl
               /\ d \in Minted' => op'[d].board = {d}
               /\ op'[d].kind = "remove" => op'[d].board = {}
               /\ op'[d].board \subseteq Minted'
               /\ op'[d].pc = "done" => op'[d].taken
    <3>1. CASE d # e
      <4>1. op'[d] = op[d] /\ (d \in Minted' <=> d \in Minted) /\ Minted \subseteq Minted' /\ now' = now
        BY <1>1, <1>4, <1>6, <3>1
      <4>2. /\ op[d].pc = "idle" => op[d] = NoOp
            /\ op[d].kind = "none" => op[d].pc = "idle"
            /\ op[d].pc = "reading" => op[d].kind = "text"
            /\ d \notin Minted => op[d].exp = 0
            /\ op[d].exp <= now + RegTtl
            /\ d \in Minted => op[d].board = {d}
            /\ op[d].kind = "remove" => op[d].board = {}
            /\ op[d].board \subseteq Minted
            /\ op[d].pc = "done" => op[d].taken
        BY <1>0 DEF OpShape
      <4> QED
        BY <4>1, <4>2
    <3>2. CASE d = e
      <4>1. op'[e].exp <= now' + RegTtl
        BY <1>1, <1>2, <1>3
      <4>2. (e \in Minted' <=> Mints(kind)) /\ (kind = "remove" => ~Mints(kind))
        BY <1>5, <1>6 DEF Mints
      <4> QED
        BY <1>1, <1>3, <3>2, <4>1, <4>2
    <3> QED
      BY <3>1, <3>2
  <2>3. shown' \subseteq Minted'
    BY <1>0, <1>1, <1>6 DEF OpShape
  <2> QED
    BY <2>1, <2>2, <2>3 DEF OpShape
<1>9. PressShape'
  BY <1>0, <1>1, PressShapeKept
<1>10. ASSUME NEW t \in revoked PROVE t \in Minted /\ t \in OfMessage(p) /\ op[t].pc = "done" /\ Replaced(t)'
  <2>1. t \in OfMessage(p) /\ kind \in {"replace", "remove"} /\ t \in Ops
    BY <1>1, <1>10
  <2>2. t \in Minted /\ op[t].pc = "done"
    BY <1>0, <2>1 DEF OfMessage, SideShape
  <2>3. t # e
    BY <1>1, <2>2
  <2>4. t < e
    <3>1. e < t => op[t].pc = "idle"
      BY <1>0, <1>1, <2>1 DEF OpShape
    <3>2. t < e \/ e < t
      BY <2>1, <2>3 DEF Ops
    <3> QED
      BY <2>2, <3>1, <3>2
  <2>5. Replaces(e, t)'
    BY <1>3, <2>1, <2>4 DEF Replaces
  <2>6. op'[t].taken
    <3>1. op[t].taken
      BY <1>0, <2>1, <2>2 DEF OpShape
    <3> QED
      BY <1>4, <2>1, <2>3, <3>1
  <2>7. Replaced(t)'
    BY <2>5, <2>6 DEF Replaced
  <2> QED
    BY <2>1, <2>2, <2>7
<1> QED
  BY <1>4, <1>5, <1>6, <1>7, <1>8, <1>9, <1>10

(* The registry and the marks when an operation begins. *)
LEMMA BeginsSide ==
  ASSUME CbInv, NEW p \in Procs, NEW e \in Ops, NEW kind, NEW revoked \in SUBSET Ops, Begins(p, e, kind, revoked)
  PROVE  /\ SideShape' /\ MarksGood' /\ RecStep
         /\ \A t \in Minted : /\ side'[p][t] \in {side[p][t], Absent}
                              /\ t \in revoked => side'[p][t] = Absent
                              /\ Signed /\ t \in revoked => Marked(p, "dead", t)'
<1>0. TypeOK /\ OpShape /\ SideShape /\ MarksGood
  BY DEF CbInv
<1>1. /\ Steps /\ BegunOp(p, e, kind) /\ BegunSide(p, e, kind, revoked) /\ Revoke(p, revoked) /\ op[e].pc = "idle"
      /\ UNCHANGED <<setup, now, shown, usedDisk>>
  BY DEF Begins
<1>2. /\ \A d \in Ops \ {e} : op'[d] = op[d]
      /\ e \notin Minted /\ Minted' = (IF Mints(kind) THEN Minted \cup {e} ELSE Minted)
      /\ ReplacedStays /\ OpShape'
      /\ \A t \in revoked : t \in Minted /\ t \in OfMessage(p) /\ op[t].pc = "done" /\ Replaced(t)'
  BY BeginsOps
<1>3. ~Absent.kept /\ ~Absent.bound /\ IssuedRecord.kept /\ ~IssuedRecord.bound
  BY DEF Absent, IssuedRecord
<1>4. /\ \A q \in Procs \ {p} : side'[q] = side[q]
      /\ Mints(kind) => side'[p][e] = IssuedRecord
      /\ \A t \in Ops : t # e \/ ~Mints(kind) =>
           /\ side'[p][t] \in {side[p][t], Absent}
           /\ t \in revoked => side'[p][t] = Absent
           /\ t \notin revoked /\ Signed => side'[p][t] = side[p][t]
  BY <1>1 DEF BegunSide
<1>5. ASSUME NEW t \in Minted
      PROVE  /\ t \in Ops /\ t # e /\ side'[p][t] \in {side[p][t], Absent}
             /\ t \in revoked => side'[p][t] = Absent
             /\ t \notin revoked /\ Signed => side'[p][t] = side[p][t]
  <2>1. t \in Ops /\ t # e
    BY <1>2 DEF Minted
  <2> QED
    BY <1>4, <2>1
<1>6. setup' = setup
  BY <1>1
<1>7. SideShape'
  <2>1. ASSUME NEW q \in Procs, NEW t \in Ops
        PROVE  /\ side'[q][t].kept => t \in Minted'
               /\ side'[q][t].bound => t \in Minted' /\ op'[t].pc = "done"
    <3>1. CASE q = p /\ t = e /\ Mints(kind)
      BY <1>2, <1>3, <1>4, <3>1
    <3>2. CASE ~(q = p /\ t = e /\ Mints(kind))
      <4>1. side'[q][t] \in {side[q][t], Absent}
        BY <1>4, <3>2
      <4>2. (side[q][t].kept => t \in Minted) /\ (side[q][t].bound => t \in Minted /\ op[t].pc = "done")
        BY <1>0 DEF SideShape
      <4>3. t \in Minted => t \in Minted' /\ op'[t] = op[t]
        BY <1>2
      <4> QED
        BY <1>3, <4>1, <4>2, <4>3
    <3> QED
      BY <3>1, <3>2
  <2>2. ASSUME Signed', NEW t \in Minted', op'[t].pc = "sending" PROVE side'[op'[t].by][t].kept
    <3>1. Signed
      BY <1>6, <2>2 DEF Signed, mode
    <3>2. CASE t = e /\ Mints(kind)
      <4>1. op'[t].by = p
        BY <1>1, <3>2 DEF BegunOp
      <4> QED
        BY <1>3, <1>4, <3>2, <4>1
    <3>3. CASE ~(t = e /\ Mints(kind))
      <4>1. t \in Minted /\ op'[t] = op[t] /\ t \in Ops
        BY <1>2, <1>5, <2>2, <3>3
      <4>2. side[op[t].by][t].kept /\ op[t].by \in Procs
        <5>1. op[t].by \in Procs
          BY <1>0, <4>1 DEF TypeOK, Operation
        <5> QED
          BY <1>0, <2>2, <3>1, <4>1, <5>1 DEF SideShape
      <4>3. t \notin revoked
        BY <1>2, <2>2, <4>1
      <4>4. side'[op[t].by][t] = side[op[t].by][t]
        BY <1>4, <1>5, <3>1, <4>1, <4>2, <4>3
      <4> QED
        BY <4>1, <4>2, <4>4
    <3> QED
      BY <3>2, <3>3
  <2> QED
    BY <2>1, <2>2 DEF SideShape
<1>8. RecStep
  <2> SUFFICES ASSUME NEW q \in Procs, NEW t \in Minted PROVE RecMoves(q, t)
    BY DEF RecStep
  <2>1. side'[q][t] \in {side[q][t], Absent}
    BY <1>4, <1>5
  <2> QED
    BY <1>3, <2>1 DEF RecMoves
<1>9. ASSUME NEW t \in revoked PROVE [key |-> <<"dead", t>>, exp |-> now + RegTtl] \in GoodEntries'
  <2> DEFINE y == now + RegTtl
  <2>1. t \in Minted /\ Replaced(t)' /\ t \in Ops /\ t # e
    BY <1>2, <1>9
  <2>2. y \in Nat /\ op[t].exp <= y
    <3>1. now \in Nat /\ RegTtl \in Nat
      BY <1>0, CallbackBounds DEF TypeOK
    <3> QED
      BY <1>0, <2>1, <3>1 DEF OpShape
  <2>3. op'[t].exp = op[t].exp /\ t \in Minted'
    BY <1>2, <2>1
  <2>4. op[t].exp \in Nat
    BY <1>0, <2>1 DEF TypeOK, Operation
  <2>5. y >= op'[t].exp
    BY <2>2, <2>3, <2>4
  <2> HIDE DEF y
  <2>6. PICK m \in Entry : m = [key |-> <<"dead", t>>, exp |-> y]
    BY <2>1, <2>2 DEF Entry, Keys
  <2>7. m.key[2] = t /\ m.exp = y
    BY <2>6
  <2>8. GoodEntry(m)'
    BY <2>1, <2>3, <2>5, <2>7 DEF GoodEntry
  <2>9. m \in GoodEntries'
    BY <2>8 DEF GoodEntries
  <2> QED
    BY <2>6, <2>9 DEF y
<1>10. used[p] \in Seq(GoodEntries')
  <2>1. used[p] \in Seq(GoodEntries)
    BY <1>0 DEF MarksGood
  <2> QED
    BY <1>0, <1>1, <1>2, <2>1, GoodStays, SeqWiden
<1>11. /\ used'[p] \in Seq(GoodEntries') /\ \A q \in Procs \ {p} : used'[q] = used[q]
       /\ Signed => \A t \in revoked : HasKey(used'[p], <<"dead", t>>, now) \/ <<p, <<"dead", t>>>> \in forgotten'
  BY <1>0, <1>1, <1>9, <1>10, RevokeFacts
<1>12. MarksGood'
  <2>1. \A q \in Procs : used'[q] = used[q] \/ used'[q] \in Seq(GoodEntries')
    BY <1>11
  <2>2. \A q \in Procs : usedDisk'[q] = usedDisk[q] \/ usedDisk'[q] \in Seq(GoodEntries')
    BY <1>1
  <2> QED
    BY <1>0, <1>1, <1>2, <2>1, <2>2, MarksKept
<1>13. ASSUME Signed, NEW t \in revoked PROVE Marked(p, "dead", t)'
  <2>1. TypeOK' /\ now' >= now
    BY <1>1 DEF Steps, Grows
  <2> QED
    BY <1>0, <1>11, <1>12, <1>13, <2>1, MarkLasts
<1> QED
  BY <1>5, <1>7, <1>8, <1>12, <1>13

LEMMA BeginsKeeps ==
  ASSUME CbInv, NEW p \in Procs, NEW e \in Ops, NEW kind, NEW revoked \in SUBSET Ops, Begins(p, e, kind, revoked)
  PROVE  CbInv'
<1>0. /\ TypeOK /\ OpShape /\ SideShape /\ SpentOnce /\ StaleDead /\ AnsweredKnown /\ MintedKnown
      /\ LateShape /\ DeadButtonsStayDead
  BY DEF CbInv
<1>1. /\ Steps /\ BegunOp(p, e, kind) /\ BegunSide(p, e, kind, revoked) /\ BegunAlias(p, e, kind, revoked)
      /\ p \in Active /\ op[e].pc = "idle"
      /\ \A q \in Procs, t \in Ops : <<q, t>> \in stale' =>
           <<q, t>> \in stale \/ (q = p /\ DoneFresh(t) /\ op[t].by = p /\ revoked = OfMessage(p))
      /\ UNCHANGED <<setup, now, got, answered, late>>
  BY DEF Begins
<1>2. /\ \A d \in Ops \ {e} : op'[d] = op[d]
      /\ e \notin Minted /\ Minted' = (IF Mints(kind) THEN Minted \cup {e} ELSE Minted)
      /\ ReplacedStays /\ OpShape' /\ PressShape'
      /\ \A t \in revoked : t \in Minted /\ t \in OfMessage(p) /\ op[t].pc = "done" /\ Replaced(t)'
  BY BeginsOps
<1>3. /\ SideShape' /\ MarksGood' /\ RecStep
      /\ \A t \in Minted : /\ side'[p][t] \in {side[p][t], Absent}
                           /\ t \in revoked => side'[p][t] = Absent
                           /\ Signed /\ t \in revoked => Marked(p, "dead", t)'
  BY BeginsSide
<1>4. ~Absent.kept /\ ~Absent.bound /\ IssuedRecord.kept
  BY DEF Absent, IssuedRecord
<1>5. TypeOK'
  BY <1>1 DEF Steps
<1>6. \A q \in Procs \ {p} : side'[q] = side[q]
  BY <1>1 DEF BegunSide
<1>7. BoundStep
  <2> SUFFICES ASSUME NEW t \in Minted, NEW q \in Procs, DoneFresh(t)' PROVE BoundMoves(q, t)
    BY DEF BoundStep
  <2>1. t \in Ops /\ op'[t] = op[t]
    BY <1>2 DEF Minted
  <2>2. DoneFresh(t)
    BY <2>1 DEF DoneFresh
  <2>3. CASE side'[q][t] = side[q][t]
    <3>1. t \in OfMessage(q) => t \in OfMessage(q)'
      BY <2>3 DEF OfMessage
    <3> QED
      BY <2>2, <3>1 DEF BoundMoves
  <2>4. CASE q = p /\ t \in revoked
    <3>1. Signed => Marked(q, "dead", t)'
      BY <1>3, <2>4
    <3>2. ~side'[q][t].kept
      BY <1>3, <1>4, <2>4
    <3> QED
      BY <3>1, <3>2 DEF BoundMoves
  <2>5. CASE q = p /\ t \notin revoked
    <3>1. Signed => side'[q][t] = side[q][t]
      BY <1>1, <1>2, <2>1, <2>5 DEF BegunSide
    <3>2. side'[q][t] = side[q][t] \/ ~side'[q][t].kept
      BY <1>3, <1>4, <2>5
    <3> QED
      BY <2>3, <3>1, <3>2 DEF BoundMoves
  <2> QED
    BY <1>6, <2>3, <2>4, <2>5
<1>8. StaleDead'
  <2>1. ASSUME NEW t \in Minted', NEW q \in Procs, DoneFresh(t)', op'[t].by = q PROVE BoundOrDead(q, t)'
    <3>1. t # e
      BY <1>1, <2>1 DEF DoneFresh, BegunOp
    <3>2. t \in Minted
      BY <1>2, <3>1
    <3>3. op[t].by = q
      BY <1>0, <1>1, <2>1, <3>2, MintedStays DEF TokenStays
    <3> QED
      BY <1>0, <1>1, <1>3, <1>7, <2>1, <3>2, <3>3, BoundKept
  <2>2. ASSUME NEW q \in Procs, NEW t \in Ops, <<q, t>> \in stale' PROVE DeadAt(q, t)'
    <3>1. CASE <<q, t>> \in stale
      <4>1. DeadAt(q, t)
        BY <1>0, <3>1 DEF StaleDead, DeadAt
      <4> QED
        BY <1>0, <1>1, <1>3, <4>1, DeadStays
    <3>2. CASE q = p /\ DoneFresh(t) /\ op[t].by = p /\ revoked = OfMessage(p)
      <4>1. op[t].pc = "done" /\ t # e
        BY <1>1, <3>2 DEF DoneFresh
      <4>2. op'[t] = op[t] /\ (t \in Minted' <=> t \in Minted) /\ now' = now
        BY <1>1, <1>2, <4>1
      <4>3. CASE t \in Minted
        <5>1. DoneFresh(t)'
          BY <3>2, <4>2 DEF DoneFresh
        <5>2. BoundOrDead(p, t)'
          BY <2>1, <3>2, <4>2, <4>3, <5>1
        <5>3. t \notin OfMessage(p)'
          <6>1. t \in OfMessage(p)' => side'[p][t] = side[p][t] /\ side'[p][t].kept /\ side'[p][t].bound
            BY <1>3, <1>4, <4>3 DEF OfMessage
          <6>2. t \in OfMessage(p)' => t \in revoked
            BY <3>2, <6>1 DEF OfMessage
          <6> QED
            BY <1>3, <1>4, <4>3, <6>1, <6>2
        <5> QED
          BY <3>2, <4>1, <4>2, <5>2, <5>3 DEF BoundOrDead, DeadAt
      <4>4. CASE t \notin Minted
        <5>1. ~side'[p][t].kept
          BY <1>3, <4>2, <4>4 DEF SideShape
        <5>2. op'[t].exp = 0
          BY <1>0, <4>2, <4>4 DEF OpShape
        <5>3. now' \in Nat
          BY <1>5 DEF TypeOK
        <5>4. op'[t].exp <= now'
          BY <5>2, <5>3
        <5> QED
          BY <3>2, <4>1, <4>2, <5>1, <5>4 DEF DeadAt, Marked
      <4> QED
        BY <4>3, <4>4
    <3> QED
      BY <1>1, <2>2, <3>1, <3>2
  <2> QED
    BY <1>0, <1>5, <2>1, <2>2, StaleParts
<1>9. SpentOnce'
  BY <1>0, <1>1, <1>3, SpentKept
<1>10. AnsweredKnown'
  BY <1>0, <1>1, <1>3, AnsweredKept
<1>11. MintedKnown'
  <2>1. mode # "redis" => p = First
    BY <1>1 DEF Active
  <2>2. alias \in [Procs -> SUBSET Ops]
    BY <1>0 DEF TypeOK
  <2>3. alias'[p] = (alias[p] \ revoked) \cup (IF Mints(kind) THEN {e} ELSE {})
    BY <1>1, <2>2 DEF BegunAlias
  <2>4. mode = "redis" => aliasNet' = (aliasNet \ revoked) \cup (IF Mints(kind) THEN {e} ELSE {})
    BY <1>1 DEF BegunAlias
  <2>5. mode' = mode
    BY <1>1 DEF mode
  <2>6. ASSUME NEW t \in Minted PROVE KnownMoves(t)
    <3>1. t \in Ops /\ t # e
      BY <1>2 DEF Minted
    <3>2. t \in revoked => Replaced(t)'
      BY <1>2
    <3>3. t \notin revoked /\ side[p][t].kept => side'[p][t].kept \/ <<p, t>> \in dropped'
      BY <1>1, <3>1 DEF BegunSide
    <3> QED
      BY <2>1, <2>3, <2>4, <3>2, <3>3 DEF KnownMoves
  <2>7. ASSUME NEW t \in Minted' PROVE t \in Minted \/ KnownToken(t)'
    <3> SUFFICES ASSUME t \notin Minted PROVE KnownToken(t)'
      OBVIOUS
    <3>1. t = e /\ Mints(kind)
      BY <1>2, <2>7
    <3>2. side'[p][t].kept
      BY <1>1, <1>4, <3>1 DEF BegunSide
    <3> QED
      BY <2>1, <2>3, <2>4, <2>5, <3>1, <3>2 DEF KnownToken
  <2>8. KnownStep
    BY <2>6 DEF KnownStep
  <2> QED
    BY <1>0, <1>1, <1>2, <2>7, <2>8, KnownKept
<1>12. LateShape' /\ DeadButtonsStayDead'
  BY <1>0, <1>1, LateKept
<1> QED
  BY <1>2, <1>3, <1>5, <1>8, <1>9, <1>10, <1>11, <1>12 DEF CbInv

-----------------------------------------------------------------------------
(* The theorems. *)

LEMMA InitHolds == ASSUME Init PROVE CbInv
<1>1. /\ setup \in Setups /\ now = 0 /\ restarts = 0 /\ op = [e \in Ops |-> NoOp] /\ shown = {}
      /\ side = [p \in Procs |-> [t \in Ops |-> Absent]]
      /\ alias = [p \in Procs |-> {}] /\ aliasDisk = [p \in Procs |-> {}] /\ aliasNet = {}
      /\ used = [p \in Procs |-> << >>] /\ usedDisk = [p \in Procs |-> << >>] /\ claims = {}
      /\ press = << >> /\ hand = [r \in Presses |-> [p \in Procs |-> "new"]] /\ got = [t \in Ops |-> 0]
      /\ consumed = {} /\ forgotten = {} /\ dropped = {} /\ stale = {} /\ answered = {} /\ late = {} /\ restored = {}
  BY DEF Init
<1>2. NoOp \in Operation /\ NoOp.pc = "idle" /\ NoOp.kind = "none" /\ NoOp.exp = 0 /\ NoOp.board = {}
  BY CallbackBounds DEF NoOp, Operation
<1>3. Absent \in Record /\ ~Absent.kept /\ ~Absent.bound
  BY DEF Absent, Record
<1>4. \A e \in Ops : op[e] = NoOp
  BY <1>1
<1>5. TypeOK
  <2>1. op \in [Ops -> Operation] /\ side \in [Procs -> [Ops -> Record]]
    BY <1>1, <1>2, <1>3
  <2>2. alias \in [Procs -> SUBSET Ops] /\ aliasDisk \in [Procs -> SUBSET Ops]
    BY <1>1
  <2>3. used \in [Procs -> Seq(Entry)] /\ usedDisk \in [Procs -> Seq(Entry)] /\ press \in Seq(Press)
    BY <1>1
  <2>4. hand \in [Presses -> [Procs -> {"new", "claiming", "got", "refused", "answered"}]] /\ got \in [Ops -> Nat]
    BY <1>1
  <2> QED
    BY <1>1, <2>1, <2>2, <2>3, <2>4 DEF TypeOK
<1>6. Minted = {}
  BY <1>2, <1>4 DEF Minted
<1>7. OpShape
  <2>1. now \in Nat /\ RegTtl \in Nat
    BY <1>1, CallbackBounds
  <2> QED
    BY <1>1, <1>2, <1>4, <1>6, <2>1 DEF OpShape
<1>8. SideShape
  BY <1>1, <1>3, <1>6 DEF SideShape
<1>9. PressShape
  <2>1. Len(press) = 0 /\ \A r \in Presses, p \in Procs : hand[r][p] = "new"
    BY <1>1
  <2> QED
    BY <2>1 DEF PressShape
<1>10. MarksGood
  BY <1>1 DEF MarksGood
<1>11. SpentOnce
  <2>1. \A t \in Ops : ~(got[t] > 0)
    BY <1>1
  <2> QED
    BY <2>1 DEF SpentOnce
<1>12. StaleDead /\ AnsweredKnown /\ MintedKnown
  BY <1>1, <1>6 DEF StaleDead, AnsweredKnown, MintedKnown
<1>13. LateShape /\ DeadButtonsStayDead
  BY <1>1 DEF LateShape, DeadButtonsStayDead
<1> QED
  BY <1>5, <1>7, <1>8, <1>9, <1>10, <1>11, <1>12, <1>13 DEF CbInv

LEMMA Stutters == ASSUME CbInv, UNCHANGED vars PROVE CbInv'
<1>0. TypeOK /\ OpShape /\ SideShape /\ PressShape /\ MarksGood
  BY DEF CbInv
<1>1. UNCHANGED <<setup, now, op, shown, side, alias, aliasDisk, aliasNet, used, usedDisk, claims, press, hand, restarts,
                  got, consumed, forgotten, dropped, stale, answered, late, restored>>
  BY DEF vars, registry, history
<1>2. now \in Nat
  BY <1>0 DEF TypeOK
<1>3. TypeOK'
  BY <1>0, <1>1 DEF TypeOK
<1>4. Steps
  BY <1>1, <1>2, <1>3, NoChange DEF Steps, Grows
<1>5. OpShape' /\ NoBegin /\ ReplacedStays
  BY <1>0, <1>1, <1>4, OpsSame
<1>6. SideShape' /\ RecStep /\ BoundStep /\ KnownStep
  <2>1. PcCalm
    BY <1>1 DEF PcCalm
  <2> QED
    BY <1>1, <1>4, <1>5, <2>1, SideSame
<1>7. PressShape'
  BY <1>0, <1>1, <1>4, PressShapeKept
<1>8. MarksGood'
  BY <1>0, <1>1, <1>4, <1>5, MarksKept
<1> QED
  BY <1>1, <1>4, <1>5, <1>6, <1>7, <1>8, Quiet

LEMMA NextKeeps == ASSUME CbInv, [Next]_vars PROVE CbInv'
<1>0. TypeOK
  BY DEF CbInv
<1>1. CASE Tick
  BY <1>1, TickKeeps
<1>2. ASSUME NEW p \in Procs, NEW single \in BOOLEAN, SendKeyboard(p, single) PROVE CbInv'
  <2>1. 1 \in Ops /\ Begins(p, 1, "send", {})
    BY <1>0, <1>2, SendBegins
  <2>2. {} \in SUBSET Ops
    OBVIOUS
  <2> QED
    BY <2>1, <2>2, BeginsKeeps
<1>3. ASSUME NEW p \in Procs, NEW e \in Ops, NEW kind \in {"replace", "remove", "text"}, EditMessage(p, e, kind) PROVE CbInv'
  <2>1. PICK revoked \in SUBSET Ops : Begins(p, e, kind, revoked)
    BY <1>0, <1>3, EditBegins
  <2> QED
    BY <2>1, BeginsKeeps
<1>4. ASSUME NEW e \in Ops, ServerTakes(e) \/ SendReturns(e) \/ SendThrows(e) PROVE CbInv'
  BY <1>4, TakesKeeps, ReturnsKeeps, ThrowsKeeps
<1>5. ASSUME NEW e \in Ops, NEW found \in BOOLEAN, ReadExistingKeyboard(e, found) PROVE CbInv'
  BY <1>5, ReadKeeps
<1>6. ASSUME NEW r \in Presses, NEW p \in Procs, NEW x \in Press, Resolve(r, p, x) PROVE CbInv'
  BY <1>6, ResolveKeeps
<1>7. ASSUME NEW r \in Presses, NEW p \in Procs, ClaimAsync(r, p) \/ AnswerCallback(r, p) PROVE CbInv'
  BY <1>7, ClaimKeeps, AnswerKeeps
<1>8. ASSUME NEW p \in Procs, PersistUsed(p) \/ PersistAliases(p) PROVE CbInv'
  BY <1>8, PersistKeeps, AliasesKeep
<1>9. ASSUME NEW p \in Procs, NEW clean \in BOOLEAN, Restart(p, clean) PROVE CbInv'
  BY <1>9, RestartKeeps
<1>10. CASE UNCHANGED vars
  BY <1>10, Stutters
<1> QED
  BY <1>1, <1>2, <1>3, <1>4, <1>5, <1>6, <1>7, <1>8, <1>9, <1>10, Zenon DEF Next

(* The inductive invariant holds in every reachable state. *)
THEOREM CallbacksInvariant == Spec => []CbInv
<1>1. Init => CbInv
  BY InitHolds
<1>2. CbInv /\ [Next]_vars => CbInv'
  BY NextKeeps
<1> QED
  BY <1>1, <1>2, PTL DEF Spec

(* The registries, stores and histories have their types, for any number   *)
(* of operations, presses, processes and restarts and all lifetimes and    *)
(* capacities.                                                             *)
THEOREM CallbackTypes == Spec => []TypeOK
<1>1. CbInv => TypeOK
  BY DEF CbInv
<1> QED
  BY <1>1, CallbacksInvariant, PTL

(* resolve and resolveAsync: a single-use token is delivered once, unless  *)
(* the mark of its use was lost.                                           *)
THEOREM SingleUseOnceHolds == Spec => []SingleUseOnce
<1>1. ASSUME CbInv PROVE SingleUseOnce
  <2>1. TypeOK /\ SpentOnce
    BY <1>1 DEF CbInv
  <2> SUFFICES ASSUME NEW t \in Ops, op[t].single, got[t] > 1
               PROVE  \E p \in Procs : <<p, <<"dead", t>>>> \in forgotten
    BY DEF SingleUseOnce
  <2>2. got[t] \in Nat
    BY <2>1 DEF TypeOK
  <2>3. got[t] > 0 /\ ~(got[t] <= 1)
    BY <2>2
  <2>4. Spent(t)
    BY <2>1, <2>3 DEF SpentOnce
  <2>5. mode = "file"
    <3>1. mode \in {"memory", "file", "redis"}
      BY <2>1, CallbackModes DEF TypeOK, mode
    <3> QED
      BY <2>3, <2>4, <3>1 DEF Spent
  <2>6. <<First, <<"dead", t>>>> \in forgotten
    BY <2>4, <2>5 DEF Spent
  <2> QED
    BY <2>6, CallbackBounds
<1> QED
  BY <1>1, CallbacksInvariant, PTL

(* tokenizeKeyboard, revokeForMessage and markAnswered: what an edit has   *)
(* replaced, or a handler answered, is not delivered by that process again *)
(* but for the exceptions that are listed.                                 *)
THEOREM DeadButtonsStayDeadHolds == Spec => []DeadButtonsStayDead
<1>1. CbInv => DeadButtonsStayDead
  BY DEF CbInv
<1> QED
  BY <1>1, CallbacksInvariant, PTL

(* peek and canonicalize: the buttons on display work, at every process,   *)
(* but for the exceptions that are listed.                                 *)
THEOREM ShownButtonsWorkHolds == Spec => []ShownButtonsWork
<1>1. ASSUME CbInv PROVE ShownButtonsWork
  <2>1. TypeOK /\ OpShape /\ MarksGood /\ MintedKnown
    BY <1>1 DEF CbInv
  <2> SUFFICES ASSUME NEW t \in shown, NEW p \in Active,
                      ~(op[t].exp <= now), t \notin consumed, t \notin restored,
                      ~\E e \in (t + 1)..MaxOps : op[e].kind \in {"replace", "remove"} /\ ~op[e].taken,
                      <<p, t>> \notin dropped
               PROVE  Peek(p, t) /\ Canonicalize(p, t)
    BY DEF ShownButtonsWork
  <2>2. t \in Minted /\ t \in Ops /\ p \in Procs
    BY <2>1, CallbackBounds DEF OpShape, Minted, Active
  <2>3. mode \in {"memory", "file", "redis"} /\ (mode # "redis" => p = First)
    BY <2>1, CallbackModes DEF TypeOK, mode, Active
  <2>4. ~Replaced(t)
    <3> SUFFICES ASSUME NEW e \in Ops, Replaces(e, t) PROVE FALSE
      BY DEF Replaced
    <3>1. t < e /\ op[e].kind \in {"replace", "remove"} /\ ~op[e].taken
      BY DEF Replaces
    <3>2. e \in (t + 1)..MaxOps
      BY <2>2, <3>1, CallbackBounds DEF Ops
    <3> QED
      BY <3>1, <3>2
  <2>5. KnownToken(t)
    BY <2>1, <2>2 DEF MintedKnown, KnownToken
  <2>6. InTime(t)
    <3>1. op[t].exp \in Nat /\ now \in Nat
      BY <2>1, <2>2 DEF TypeOK, Operation
    <3> QED
      BY <3>1 DEF InTime
  <2>7. ~HasKey(used[p], <<"dead", t>>, now)
    <3> SUFFICES ASSUME NEW i \in DOMAIN used[p], used[p][i].key = <<"dead", t>> PROVE FALSE
      BY DEF HasKey
    <3>1. used[p] \in Seq(GoodEntries)
      BY <2>1, <2>2 DEF MarksGood
    <3>2. used[p][i] \in GoodEntries
      BY <3>1
    <3>3. PICK m \in GoodEntries : m = used[p][i]
      BY <3>2
    <3>4. m.key[1] = "dead" /\ m.key[2] = t /\ GoodEntry(m)
      BY <3>3 DEF GoodEntries
    <3> QED
      BY <2>4, <3>4 DEF GoodEntry
  <2>8. Peek(p, t)
    BY <2>3, <2>4, <2>5, <2>6, <2>7 DEF Peek, PeekMemory, Signed, KnownToken
  <2>9. Canonicalize(p, t)
    BY <2>3, <2>4, <2>5 DEF Canonicalize, Signed, AliasHeld, AliasFetched, KnownToken
  <2> QED
    BY <2>8, <2>9
<1> QED
  BY <1>1, CallbacksInvariant, PTL
=============================================================================
