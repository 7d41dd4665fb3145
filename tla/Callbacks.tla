------------------------------ MODULE Callbacks ------------------------------
(***************************************************************************)
(* Keyboard buttons: the tokens behind them (keyboards.ts), the stores of  *)
(* used tokens (token-store.ts, file-ttl-map.ts, redis-stores.ts), the     *)
(* sends and edits that mint, bind and revoke them (send.ts) and the       *)
(* presses that resolve them (bot.ts, context.ts), for one message with    *)
(* one-button keyboards.  The token an operation mints has its number.     *)
(***************************************************************************)
EXTENDS TtlStore, FiniteSets

CONSTANTS
  Setups,       \* see below
  Procs,        \* processes of the bot; only "redis" uses more than the first
  First,        \* the first process
  MaxOps,       \* bound: one send and its edits
  MaxPresses,   \* bound: presses
  MaxTime,      \* bound: the clock
  RegTtl,       \* ttlMs of the registry, the life of every token
  RegCapacity,  \* maxEntries of CallbackRegistry
  UsedCapacity  \* capacity of the used token store

(* A setup is [mode, ops, presses, restarts].  The modes: "memory" is       *)
(* CallbackRegistry, "file" SignedCallbackRegistry with the file stores of  *)
(* one host, "redis" the same with shared alias and async used stores.  The *)
(* numbers bound the run in that mode.                                      *)

ASSUME CallbackBounds ==
  /\ {MaxOps, MaxPresses, MaxTime} \subseteq Nat
  /\ \A s \in Setups : s.ops \in 0..MaxOps /\ s.presses \in 0..MaxPresses /\ s.restarts \in Nat
  /\ {RegTtl, RegCapacity, UsedCapacity} \subseteq Nat \ {0}
  /\ First \in Procs

ASSUME CallbackModes == \A s \in Setups : s.mode \in {"memory", "file", "redis"}

Ops == 1..MaxOps
Presses == 1..MaxPresses

VARIABLES
  setup,
  now,
  op,        \* operation -> [pc, by, kind, fresh, exp, single, board, taken];
             \* fresh: begun in the present life of its process
  shown,     \* the tokens of the keyboard on display
  side,      \* the registry's map, process -> token -> [kept, bound, ans]
  alias,     \* process -> tokens whose short alias it can look up without I/O
  aliasDisk, \* process -> the alias file
  aliasNet,  \* the shared alias map
  used,      \* process -> the sync used token store, keys <<"dead" or "ans", token>>
  usedDisk,  \* process -> its file
  claims,    \* the async used token store: tokens claimed
  press,     \* press -> [tok, short, inRoom]
  hand,      \* press -> process -> where it is with it
  restarts,
  got,       \* history: token -> number of updates delivered
  consumed,  \* history: single-use tokens resolved, delivered or not
  forgotten, \* history: <<process, key>> of unexpired marks that were lost
  dropped,   \* history: <<process, token>> a registry or alias file has lost
  stale,     \* history: <<process, token>> replaced by a later edit
  answered,  \* history: <<process, token>> answered
  late,      \* history: <<process, token, "stale" or "answered">> delivered though
  restored   \* history: tokens a text edit has put back on display

registry == <<side, alias, aliasDisk, aliasNet, used, usedDisk, claims>>
history == <<got, consumed, forgotten, dropped, stale, answered, late, restored>>
vars == <<setup, now, op, shown, registry, press, hand, restarts, history>>

mode == setup.mode
Active == IF mode = "redis" THEN Procs ELSE {First}
Signed == mode # "memory"

NoOp == [pc |-> "idle", by |-> First, kind |-> "none", fresh |-> TRUE, exp |-> 0, single |-> FALSE, board |-> {}, taken |-> FALSE]
Absent == [kept |-> FALSE, bound |-> FALSE, ans |-> FALSE]

Operation == [pc : {"idle", "reading", "sending", "done", "gone"}, by : Procs,
              kind : {"none", "send", "replace", "remove", "text"}, fresh : BOOLEAN, exp : Nat,
              single : BOOLEAN, board : SUBSET Ops, taken : BOOLEAN]
Record == [kept : BOOLEAN, bound : BOOLEAN, ans : BOOLEAN]
Keys == {"dead", "ans"} \X Ops
Entry == [key : Keys, exp : Nat]
Press == [tok : Ops, short : BOOLEAN, inRoom : BOOLEAN]

TypeOK ==
  /\ setup \in Setups /\ now \in Nat /\ restarts \in Nat
  /\ op \in [Ops -> Operation] /\ shown \subseteq Ops
  /\ side \in [Procs -> [Ops -> Record]]
  /\ alias \in [Procs -> SUBSET Ops] /\ aliasDisk \in [Procs -> SUBSET Ops] /\ aliasNet \subseteq Ops
  /\ used \in [Procs -> Seq(Entry)] /\ usedDisk \in [Procs -> Seq(Entry)] /\ claims \subseteq Ops
  /\ press \in Seq(Press)
  /\ hand \in [Presses -> [Procs -> {"new", "claiming", "got", "refused", "answered"}]]
  /\ got \in [Ops -> Nat] /\ consumed \subseteq Ops /\ restored \subseteq Ops
  /\ forgotten \subseteq Procs \X Keys
  /\ dropped \subseteq Procs \X Ops /\ stale \subseteq Procs \X Ops /\ answered \subseteq Procs \X Ops

Init ==
  /\ setup \in Setups
  /\ now = 0
  /\ op = [e \in Ops |-> NoOp]
  /\ shown = {}
  /\ side = [p \in Procs |-> [t \in Ops |-> Absent]]
  /\ alias = [p \in Procs |-> {}] /\ aliasDisk = [p \in Procs |-> {}] /\ aliasNet = {}
  /\ used = [p \in Procs |-> << >>] /\ usedDisk = [p \in Procs |-> << >>]
  /\ claims = {}
  /\ press = << >>
  /\ hand = [r \in Presses |-> [p \in Procs |-> "new"]]
  /\ restarts = 0
  /\ got = [t \in Ops |-> 0]
  /\ consumed = {} /\ forgotten = {} /\ dropped = {} /\ stale = {} /\ answered = {} /\ late = {} /\ restored = {}

Tick ==
  /\ now < MaxTime
  /\ now' = now + 1
  /\ UNCHANGED <<setup, op, shown, registry, press, hand, restarts, history>>

-----------------------------------------------------------------------------
(* The registries. *)

(* The alias map of the process, in memory or backed by a file. *)
AliasHeld(p, t) == t \in alias[p]

(* RedisTtlStringMap.prefetch: the map all processes share. *)
AliasFetched(t) == mode = "redis" /\ t \in aliasNet

(* canonicalize, canonicalizeAsync: may the short form be looked up? *)
Canonicalize(p, t) == Signed => AliasHeld(p, t) \/ AliasFetched(t)

(* verifyCallbackToken: a signature that is right, and the expiry in it. *)
InTime(t) == op[t].exp > now

(* peek of CallbackRegistry. *)
PeekMemory(p, t) == InTime(t) /\ side[p][t].kept

(* peek *)
Peek(p, t) == IF Signed THEN InTime(t) /\ ~HasKey(used[p], <<"dead", t>>, now) ELSE PeekMemory(p, t)

(* The `answered` of the record that peek returns. *)
Answered(p, t) ==
  IF side[p][t].kept \/ ~Signed THEN side[p][t].ans ELSE HasKey(used[p], <<"ans", t>>, now)

(* add for each of the keys, with the same lifetime. *)
AddAll(store, keys, exp) ==
  LET upTo[n \in 0..Len(keys)] ==
        IF n = 0 THEN store ELSE AddKey(upTo[n - 1], keys[n], exp, now, UsedCapacity)
  IN upTo[Len(keys)]

(* The marks that p should have and has not. *)
Lost(p, keys, store) == {<<p, k>> : k \in {j \in keys : ~HasKey(store, j, now)}}

MarksOf(store) == {store[i].key : i \in {j \in DOMAIN store : store[j].exp > now}}

(* The used store of p takes these keys. *)
Mark(p, keys, exp) ==
  LET store == AddAll(used[p], keys, exp)
  IN /\ used' = [used EXCEPT ![p] = store]
     /\ forgotten' = forgotten \cup Lost(p, MarksOf(used[p]) \cup {keys[i] : i \in DOMAIN keys}, store)

(* prune of CallbackRegistry: expired tokens go, then the oldest. *)
Pruned(map) ==
  LET live == {t \in Ops : map[t].kept /\ op[t].exp > now}
      excess == {t \in live : Cardinality({u \in live : u > t}) >= RegCapacity - 1}
  IN live \ excess

(* issue of CallbackRegistry: its map, pruned, with the new token e. *)
IssueMemory(map, e) ==
  [t \in Ops |-> IF t = e THEN [kept |-> TRUE, bound |-> FALSE, ans |-> FALSE]
                 ELSE IF t \in Pruned(map) THEN map[t] ELSE Absent]

(* issue, of either registry; the signed one prunes nothing. *)
Issue(map, e) ==
  IF Signed THEN [map EXCEPT ![e] = [kept |-> TRUE, bound |-> FALSE, ans |-> FALSE]] ELSE IssueMemory(map, e)

(* A revokeForMessage that takes the tokens of sends under way as well. *)
AllKnown(p) == {t \in Ops : side[p][t].kept}

(* revokeForMessage walks byMessage, so only what this process has bound. *)
OfMessage(p) == {t \in Ops : side[p][t].kept /\ side[p][t].bound}

(* A revoke that drops what it knows of the token and does not blacklist it. *)
RevokeForgetful(p, ts) == UNCHANGED <<used, forgotten>>

(* The blacklist entries of these tokens, one after the other. *)
Listings(ts) ==
  {keys \in [1..Cardinality(ts) -> {"dead"} \X ts] : \A t \in ts : \E i \in DOMAIN keys : keys[i][2] = t}

(* revoke, for each of the tokens: the blacklist of the signed registry.    *)
(* The tokens come in the order in which they were bound.                   *)
Revoke(p, ts) ==
  IF Signed THEN \E keys \in Listings(ts) : Mark(p, keys, now + RegTtl)
  ELSE UNCHANGED <<used, forgotten>>

-----------------------------------------------------------------------------
(* Sends and edits. *)

NextOp(e) == e <= setup.ops /\ op[e].pc = "idle" /\ \A d \in 1..(e - 1) : op[d].pc # "idle"

(* tokenizeKeyboard up to the send: old tokens are revoked first, then the  *)
(* new one is issued.                                                       *)
Begin(p, e, kind, single, revoked) ==
  LET before == [t \in Ops |-> IF t \in revoked THEN Absent ELSE side[p][t]]
      mints == kind \in {"send", "replace"}
      after == IF mints THEN Issue(before, e) ELSE before
      known == (alias[p] \ revoked) \cup (IF mints THEN {e} ELSE {})
  IN /\ op' = [op EXCEPT ![e] = [pc |-> IF kind = "text" THEN "reading" ELSE "sending", by |-> p, kind |-> kind,
                                 fresh |-> TRUE, exp |-> IF mints THEN now + RegTtl ELSE 0, single |-> mints /\ single,
                                 board |-> IF mints THEN {e} ELSE {}, taken |-> FALSE]]
     /\ side' = [side EXCEPT ![p] = after]
     /\ dropped' = dropped \cup {<<p, t>> : t \in {u \in Ops : before[u].kept /\ ~after[u].kept}}
     /\ alias' = [alias EXCEPT ![p] = known]
     /\ aliasNet' = IF mode = "redis" THEN (aliasNet \ revoked) \cup (IF mints THEN {e} ELSE {}) ELSE aliasNet
     /\ Revoke(p, revoked)

(* sendMessageWithOptions with a keyboard. *)
SendKeyboard(p, single) ==
  /\ p \in Active /\ NextOp(1)
  /\ Begin(p, 1, "send", single, {})
  /\ UNCHANGED <<setup, now, shown, aliasDisk, usedDisk, claims, press, hand, restarts, got, consumed, stale, answered, late, restored>>

(* editMessageWithOptions with another keyboard, with none, or with the     *)
(* keyboard left out ("text").                                              *)
EditMessage(p, e, kind) ==
  /\ p \in Active /\ e > 1 /\ NextOp(e) /\ op[1].taken
  /\ LET revoked == IF kind = "text" THEN {} ELSE OfMessage(p)
     IN /\ Begin(p, e, kind, FALSE, revoked)
        /\ stale' = stale \cup {<<p, t>> : t \in IF kind = "text" THEN {}
                                                 ELSE {d \in 1..(e - 1) : op[d].pc = "done" /\ op[d].by = p /\ op[d].fresh}}
  /\ UNCHANGED <<setup, now, shown, aliasDisk, usedDisk, claims, press, hand, restarts, got, consumed, answered, late, restored>>

(* readExistingKeyboard: the event is the first one, whatever has replaced  *)
(* it since, or cannot be had.                                              *)
ReadExistingKeyboard(e, found) ==
  /\ op[e].pc = "reading"
  /\ op' = [op EXCEPT ![e].pc = "sending", ![e].board = IF found THEN op[1].board ELSE {}]
  /\ UNCHANGED <<setup, now, shown, registry, press, hand, restarts, history>>

(* The homeserver takes the message: in time, late, or from the outbox. *)
ServerTakes(e) ==
  /\ op[e].pc \in {"sending", "gone"} /\ ~op[e].taken
  /\ op' = [op EXCEPT ![e].taken = TRUE]
  /\ shown' = op[e].board
  /\ restored' = IF op[e].kind = "text" THEN restored \cup (op[e].board \ shown) ELSE restored
  /\ UNCHANGED <<setup, now, registry, press, hand, restarts, got, consumed, forgotten, dropped, stale, answered, late>>

(* The send returns; bindMessage. *)
SendReturns(e) ==
  /\ op[e].pc = "sending" /\ op[e].taken
  /\ op' = [op EXCEPT ![e].pc = "done"]
  /\ side' = IF op[e].kind \in {"send", "replace"} /\ (Signed \/ side[op[e].by][e].kept)
             THEN [side EXCEPT ![op[e].by][e] = [kept |-> TRUE, bound |-> TRUE, ans |-> @.ans]]
             ELSE side
  /\ UNCHANGED <<setup, now, shown, alias, aliasDisk, aliasNet, used, usedDisk, claims, press, hand, restarts, history>>

(* The send throws: nothing is bound. *)
SendThrows(e) ==
  /\ op[e].pc = "sending"
  /\ op' = [op EXCEPT ![e].pc = "gone"]
  /\ UNCHANGED <<setup, now, shown, registry, press, hand, restarts, history>>

-----------------------------------------------------------------------------
(* Presses. *)

Consumes(t) == op[t].single

Goto(r, p, s) == hand' = [hand EXCEPT ![r][p] = s]

(* What readCallbackEvent makes of a resolved record. *)
Outcome(x, ans) == IF ~x.inRoom \/ ans THEN "refused" ELSE "got"

Deliver(r, p, x, ans) ==
  LET t == x.tok
      outcome == Outcome(x, ans)
  IN /\ Goto(r, p, outcome)
     /\ got' = IF outcome = "got" THEN [got EXCEPT ![t] = @ + 1] ELSE got
     /\ late' = IF outcome = "got"
                THEN late \cup {l \in {<<p, t, "stale">>, <<p, t, "answered">>} :
                                  <<p, t>> \in (IF l[3] = "stale" THEN stale ELSE answered)}
                ELSE late

(* A press of a button that is or was on display, with the full token or    *)
(* the short alias of the text fallback, perhaps in another room, reaches a *)
(* process; in "redis" mode the others get the same event.                  *)
PressArrives(r, x) ==
  \/ r \in DOMAIN press /\ press[r] = x /\ UNCHANGED press
  \/ /\ r = Len(press) + 1 /\ r <= setup.presses
     /\ \E e \in Ops : op[e].taken /\ x.tok \in op[e].board
     /\ press' = Append(press, x)

(* resolve of CallbackRegistry deletes a single-use token. *)
Forget(p, t) == side' = [side EXCEPT ![p][t] = Absent]

(* resolve, resolveAsync up to the async claim.  (A press by a user the     *)
(* button is not meant for is refused before anything changes.)             *)
Resolve(r, p, x) ==
  /\ p \in Active /\ hand[r][p] = "new"
  /\ PressArrives(r, x)
  /\ LET t == x.tok
         found == (x.short => Canonicalize(p, t)) /\ Peek(p, t)
     IN \/ /\ ~found
           /\ Goto(r, p, "refused")
           /\ UNCHANGED <<side, used, forgotten, got, late, consumed>>
        \/ /\ found /\ Consumes(t) /\ mode = "redis"
           /\ Goto(r, p, "claiming")
           /\ UNCHANGED <<side, used, forgotten, got, late, consumed>>
        \/ /\ found /\ Consumes(t) /\ mode # "redis"
           /\ Deliver(r, p, x, Answered(p, t))
           /\ consumed' = consumed \cup {t}
           /\ IF Signed THEN Mark(p, <<<<"dead", t>>>>, op[t].exp) /\ UNCHANGED side
              ELSE Forget(p, t) /\ UNCHANGED <<used, forgotten>>
        \/ /\ found /\ ~Consumes(t)
           /\ Deliver(r, p, x, Answered(p, t))
           /\ UNCHANGED <<side, used, forgotten, consumed>>
  /\ UNCHANGED <<setup, now, op, shown, alias, aliasDisk, aliasNet, usedDisk, claims, restarts, dropped, stale, answered, restored>>

(* A claim that reads and then writes. *)
ClaimBlindly(t) == TRUE

(* tryAdd, SET NX: is the claim ours? *)
TryAdd(t) == t \notin claims

(* A single-use token that was answered is also claimed, so the answered    *)
(* flag read before the claim makes no difference.                          *)
ClaimAsync(r, p) ==
  /\ hand[r][p] = "claiming"
  /\ LET t == press[r].tok
     IN \/ TryAdd(t) /\ Deliver(r, p, press[r], FALSE) /\ claims' = claims \cup {t} /\ consumed' = consumed \cup {t}
        \/ ~TryAdd(t) /\ Goto(r, p, "refused") /\ UNCHANGED <<claims, got, late, consumed>>
  /\ UNCHANGED <<setup, now, op, shown, side, alias, aliasDisk, aliasNet, used, usedDisk, press, restarts, forgotten, dropped, stale, answered, restored>>

(* markAnswered of CallbackRegistry. *)
MarkAnsweredMemory(p, t) == IF side[p][t].kept THEN [side EXCEPT ![p][t].ans = TRUE] ELSE side

(* markAnswered *)
MarkAnswered(p, t) ==
  /\ side' = IF Signed THEN [side EXCEPT ![p][t] = [kept |-> TRUE, bound |-> @.bound, ans |-> TRUE]]
             ELSE MarkAnsweredMemory(p, t)
  /\ IF Signed THEN Mark(p, <<<<"ans", t>>>>, IF Peek(p, t) THEN op[t].exp ELSE now + RegTtl)
     ELSE UNCHANGED <<used, forgotten>>

(* answerCallback of the handler. *)
AnswerCallback(r, p) ==
  /\ hand[r][p] = "got"
  /\ Goto(r, p, "answered")
  /\ MarkAnswered(p, press[r].tok)
  /\ answered' = answered \cup {<<p, press[r].tok>>}
  /\ UNCHANGED <<setup, now, op, shown, alias, aliasDisk, aliasNet, usedDisk, claims, press, restarts, got, consumed, dropped, stale, late, restored>>

-----------------------------------------------------------------------------
(* The file stores. *)

(* The used tokens are written 50 ms after a change ... *)
PersistUsed(p) ==
  /\ Signed /\ usedDisk[p] # Unexpired(used[p], now)
  /\ usedDisk' = [usedDisk EXCEPT ![p] = Unexpired(used[p], now)]
  /\ UNCHANGED <<setup, now, op, shown, side, alias, aliasDisk, aliasNet, used, claims, press, hand, restarts, history>>

(* ... and so are the aliases. *)
PersistAliases(p) ==
  /\ mode = "file" /\ aliasDisk[p] # alias[p]
  /\ aliasDisk' = [aliasDisk EXCEPT ![p] = alias[p]]
  /\ UNCHANGED <<setup, now, op, shown, side, alias, aliasNet, used, usedDisk, claims, press, hand, restarts, history>>

(* A process stops, with flush() if in good order, and runs again. *)
Restart(p, clean) ==
  /\ p \in Active /\ restarts < setup.restarts
  /\ restarts' = restarts + 1
  /\ LET kept == IF clean THEN Unexpired(used[p], now) ELSE Unexpired(usedDisk[p], now)
         names == IF mode # "file" THEN {} ELSE IF clean THEN alias[p] ELSE aliasDisk[p]
     IN /\ used' = [used EXCEPT ![p] = kept]
        /\ usedDisk' = [usedDisk EXCEPT ![p] = kept]
        /\ alias' = [alias EXCEPT ![p] = names]
        /\ aliasDisk' = [aliasDisk EXCEPT ![p] = names]
        /\ forgotten' = forgotten \cup Lost(p, MarksOf(used[p]), kept)
        /\ dropped' = dropped \cup {<<p, t>> : t \in {u \in Ops : IF Signed THEN u \in alias[p] \ names
                                                                  ELSE side[p][u].kept}}
  /\ side' = [side EXCEPT ![p] = [t \in Ops |-> Absent]]
  /\ op' = [e \in Ops |-> IF op[e].by # p \/ op[e].pc = "idle" THEN op[e]
                          ELSE [op[e] EXCEPT !.fresh = FALSE, !.pc = IF @ = "done" THEN @ ELSE "gone"]]
  /\ hand' = [r \in Presses |-> [hand[r] EXCEPT ![p] = IF @ \in {"claiming", "got"} THEN "refused" ELSE @]]
  /\ UNCHANGED <<setup, now, shown, aliasNet, claims, press, got, consumed, stale, answered, late, restored>>

-----------------------------------------------------------------------------
Next ==
  \/ Tick
  \/ \E p \in Procs, single \in BOOLEAN : SendKeyboard(p, single)
  \/ \E p \in Procs, e \in Ops, kind \in {"replace", "remove", "text"} : EditMessage(p, e, kind)
  \/ \E e \in Ops : ServerTakes(e) \/ SendReturns(e) \/ SendThrows(e)
  \/ \E e \in Ops, found \in BOOLEAN : ReadExistingKeyboard(e, found)
  \/ \E r \in Presses, p \in Procs, x \in Press : Resolve(r, p, x)
  \/ \E r \in Presses, p \in Procs : ClaimAsync(r, p) \/ AnswerCallback(r, p)
  \/ \E p \in Procs : PersistUsed(p) \/ PersistAliases(p)
  \/ \E p \in Procs, clean \in BOOLEAN : Restart(p, clean)

Spec == Init /\ [][Next]_vars

-----------------------------------------------------------------------------
(* A single-use token is delivered to handlers at most once, over presses   *)
(* of both its forms, processes and restarts, unless the mark of its use    *)
(* was lost: pushed out of a full store or not yet on disk at a crash.      *)
SingleUseOnce ==
  \A t \in Ops : op[t].single /\ got[t] > 1 => \E p \in Procs : <<p, <<"dead", t>>>> \in forgotten

(* A button whose keyboard a later edit of the same process has replaced    *)
(* or removed, or whose press that process has answered, is not delivered   *)
(* by it again, later restarts included, unless the mark was lost or, when  *)
(* revoked, an async claim of it was under way.  What an edit cannot know   *)
(* of, it leaves alive: tokens of an edit that is still under way or        *)
(* failed, and of before the last restart.                                  *)
DeadButtonsStayDead ==
  \A l \in late :
    LET mark == IF l[3] = "stale" THEN "dead" ELSE "ans"
    IN \/ <<l[1], <<mark, l[2]>>>> \in forgotten
       \/ l[3] = "stale" /\ mode = "redis" /\ op[l[2]].single

(* The buttons on display can be pressed until they expire or are used up, *)
(* by any process, unless an edit that was to replace them never reached   *)
(* the homeserver (they are revoked before it is sent), a text edit put a  *)
(* replaced keyboard back, or the process lost what it needs to know.      *)
ShownButtonsWork ==
  \A t \in shown, p \in Active :
    \/ Peek(p, t) /\ Canonicalize(p, t)
    \/ op[t].exp <= now \/ t \in consumed \/ t \in restored
    \/ \E e \in (t + 1)..MaxOps : op[e].kind \in {"replace", "remove"} /\ ~op[e].taken
    \/ <<p, t>> \in dropped
=============================================================================
