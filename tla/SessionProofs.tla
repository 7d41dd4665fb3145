---------------------------- MODULE SessionProofs ----------------------------
(***************************************************************************)
(* The session, for any bots, processes, crashes, requests, retry limit    *)
(* and number of expiries.  First SessionBootstrap: the storage lock       *)
(* excludes, but for acquires that race; what create(), re-login,          *)
(* relocation and stop() do around it keeps to its protocol; and through   *)
(* all of them the session files, the tokens and the crypto store stay     *)
(* with one device.  Then MatrixHttp: a request takes effect once, and no  *)
(* token is used that is not on disk.                                      *)
(***************************************************************************)
EXTENDS SessionBootstrap, MatrixHttp, TLAPS

-----------------------------------------------------------------------------
(* The storage lock. *)

(* A holder's process runs, and the file names it unless it is bared. *)
HolderRuns == \A b \in Bots : Holding(b) => PidOf[b] \in alive /\ (b \in bared \/ file = PidOf[b])

(* While a bot is between its read of the file and its write, whoever else *)
(* claims the lock has raced with it, and whoever holds it has raced with  *)
(* it or is bared.                                                         *)
ClaimersRaced ==
  \A b, c \in Bots : state[b] = "claiming" /\ c # b =>
    /\ Holding(c) => c \in bared \/ {b, c} \in raced
    /\ state[c] = "claiming" => {b, c} \in raced

LockInv == TypeOK /\ SoleHolder /\ HolderRuns /\ ClaimersRaced

(* The invariant holds initially. *)
LEMMA LockInit == Init => LockInv
  BY DEF Init, LockInv, TypeOK, BotStates, SoleHolder, HolderRuns, ClaimersRaced, Holding

(* Every step keeps it. *)
LEMMA LockNext ==
  ASSUME LockInv, [Next]_vars
  PROVE  LockInv'
<1> USE PidAssumption DEF LockInv, Goto, Holding
<1>1. ASSUME NEW b \in Bots, OpenStores(b) PROVE LockInv'
  BY <1>1 DEF OpenStores, TypeOK, BotStates, SoleHolder, HolderRuns, ClaimersRaced, history
<1>2. ASSUME NEW b \in Bots, AcquireOwnPid(b) \/ AcquireBusy(b) PROVE LockInv'
  BY <1>2 DEF AcquireOwnPid, AcquireBusy, MayStartAcquire, TypeOK, BotStates, SoleHolder,
              HolderRuns, ClaimersRaced, history
<1>3. ASSUME NEW b \in Bots, AcquireRead(b) PROVE LockInv'
  <2>1. \A c \in Bots : Holding(c) => c \in bared
    BY <1>3 DEF AcquireRead, HolderRuns, IsPidAlive
  <2>2. state' = [state EXCEPT ![b] = "claiming"] /\ file' = file /\ alive' = alive /\ bared' = bared
    BY <1>3 DEF AcquireRead
  <2>3. /\ \A c \in Bots : state[c] = "claiming" => {b, c} \in raced'
        /\ \A pair \in raced : b \notin pair => pair \in raced'
        /\ raced' \subseteq SUBSET Bots
    BY <1>3 DEF AcquireRead, TypeOK
  <2>4. TypeOK' /\ SoleHolder' /\ HolderRuns'
    BY <2>1, <2>2, <2>3 DEF TypeOK, BotStates, SoleHolder, HolderRuns
  <2>5. ASSUME NEW a \in Bots, NEW c \in Bots, state'[a] = "claiming", c # a
        PROVE  (Holding(c) => c \in bared \/ {a, c} \in raced)' /\ (state[c] = "claiming" => {a, c} \in raced)'
    <3>1. Holding(c)' => c \in bared'
      BY <2>1, <2>2 DEF TypeOK
    <3>2. {a, c} = {c, a}
      OBVIOUS
    <3>3. state[c]' = "claiming" => {a, c} \in raced'
      BY <2>2, <2>3, <2>5, <3>2 DEF TypeOK, ClaimersRaced
    <3>4. QED
      BY <3>1, <3>3
  <2>6. ClaimersRaced'
    BY <2>5 DEF ClaimersRaced
  <2>7. QED
    BY <2>4, <2>6
<1>4. ASSUME NEW b \in Bots, AcquireWrite(b) PROVE LockInv'
  <2>1. \A c \in Bots \ {b} : (Holding(c) => c \in bared') /\ (state[c] = "claiming" => {b, c} \in raced)
    BY <1>4 DEF AcquireWrite, ClaimersRaced
  <2>2. \A a, c \in Bots : {a, c} = {c, a}
    OBVIOUS
  <2>3. TypeOK' /\ SoleHolder' /\ HolderRuns'
    BY <1>4, <2>1 DEF AcquireWrite, TypeOK, BotStates, SoleHolder, HolderRuns
  <2>4. ClaimersRaced'
    BY <1>4, <2>1, <2>2 DEF AcquireWrite, TypeOK, ClaimersRaced
  <2>5. QED
    BY <2>3, <2>4
<1>5. ASSUME NEW b \in Bots, ReleaseRead(b) PROVE LockInv'
  BY <1>5 DEF ReleaseRead, TypeOK, BotStates, SoleHolder, HolderRuns, ClaimersRaced
<1>6. ASSUME NEW b \in Bots, ReleaseUnlink(b) PROVE LockInv'
  <2>1. \A c \in Bots \ {b} : Holding(c) => c \in bared'
    BY <1>6 DEF ReleaseUnlink, SoleHolder
  <2>2. QED
    BY <1>6, <2>1 DEF ReleaseUnlink, TypeOK, BotStates, SoleHolder, HolderRuns, ClaimersRaced
<1>7. ASSUME NEW b \in Bots, GiveUp(b) PROVE LockInv'
  BY <1>7 DEF GiveUp, TypeOK, BotStates, SoleHolder, HolderRuns, ClaimersRaced, history
<1>8. ASSUME NEW p \in Pids, Spawn(p) PROVE LockInv'
  BY <1>8 DEF Spawn, TypeOK, SoleHolder, HolderRuns, ClaimersRaced, history
<1>9. ASSUME NEW p \in Pids, Crash(p) PROVE LockInv'
  BY <1>9 DEF Crash, TypeOK, BotStates, SoleHolder, HolderRuns, ClaimersRaced
<1>10. CASE UNCHANGED vars
  BY <1>10 DEF vars, history, TypeOK, SoleHolder, HolderRuns, ClaimersRaced
<1>11. QED
  BY <1>1, <1>2, <1>3, <1>4, <1>5, <1>6, <1>7, <1>8, <1>9, <1>10 DEF Next, BotStep

(* storage-lock.ts, "Exclusive lock for a storagePath": no two bots ever   *)
(* hold the lock, whatever crashes, whichever pids come back and however   *)
(* their acquires interleave, but for a bot whose entry was written over   *)
(* by one that had read the file before that entry was there.              *)
THEOREM Exclusive == Spec => []SoleHolder
<1>1. LockInv => SoleHolder
  BY DEF LockInv
<1>2. LockInv /\ [Next]_vars => LockInv'
  BY LockNext
<1>3. QED
  BY <1>1, <1>2, LockInit, PTL DEF Spec

(* release() removes the holder's own lock and never another's: the file   *)
(* names the holder as long as it holds, unless a race has written over it.*)
THEOREM HolderIsNamed == Spec => []FileNamesHolder
<1>1. LockInv => FileNamesHolder
  BY DEF LockInv, HolderRuns, FileNamesHolder
<1>2. LockInv /\ [Next]_vars => LockInv'
  BY LockNext
<1>3. QED
  BY <1>1, <1>2, LockInit, PTL DEF Spec

-----------------------------------------------------------------------------
(* The life of a bot around it. *)

(* A step of create() or of the session handling leaves the lock alone or  *)
(* is one of the lock's own steps.                                         *)
LEMMA BootStepIsLockStep ==
  ASSUME BootNext
  PROVE  [Next]_vars
<1>1. ASSUME NEW b \in Bots,
             \/ CreateStart(b) \/ ReuseOrLogin(b) \/ PasswordLogin(b) \/ SaveSession(b) \/ WhoAmI(b)
             \/ Relogin(b) \/ ReloginSaved(b) \/ ReloginFails(b) \/ CreateThrows(b) \/ OpenCrypto(b)
      PROVE  UNCHANGED vars
  BY <1>1 DEF CreateStart, ReuseOrLogin, PasswordLogin, SaveSession, WhoAmI, Relogin, ReloginSaved,
              ReloginFails, CreateThrows, OpenCrypto
<1>2. ASSUME NEW b \in Bots,
             StartBot(b) \/ AuthFails(b) \/ Relocate(b) \/ RelocateLogin(b) \/ RelocateSave(b)
      PROVE  UNCHANGED vars
  BY <1>2 DEF StartBot, AuthFails, Relocate, RelocateLogin, RelocateSave
<1>3. ASSUME NEW b \in Bots, PersistDevice(b) \/ TakeLock(b) \/ LockRefused(b) \/ StopBot(b) \/ Unlink(b)
      PROVE  BotStep(b)
  BY <1>3 DEF PersistDevice, TakeLock, LockRefused, StopBot, Unlink, BotStep
<1>4. ASSUME NEW p \in Pids, SpawnProcess(p) \/ CrashProcess(p) PROVE Spawn(p) \/ Crash(p)
  BY <1>4 DEF SpawnProcess, CrashProcess
<1>5. ASSUME NEW d \in Devices, RevokeToken(d) PROVE UNCHANGED vars
  BY <1>5 DEF RevokeToken
<1>6. ASSUME NEW b \in Bots, NEW victims \in SUBSET Devices, PruneOtherDevices(b, victims)
      PROVE  UNCHANGED vars
  BY <1>6 DEF PruneOtherDevices
<1>7. QED
  BY <1>1, <1>2, <1>3, <1>4, <1>5, <1>6 DEF BootNext, Next

(* The detailed life of a bot implements the lock's specification.         *)
THEOREM BootImplementsLock == BootSpec => Spec
<1>1. BootInit => Init
  BY DEF BootInit
<1>2. [BootNext]_allVars => [Next]_vars
  <2>1. CASE BootNext
    BY <2>1, BootStepIsLockStep
  <2>2. CASE UNCHANGED allVars
    BY <2>2 DEF allVars
  <2>3. QED
    BY <2>1, <2>2
<1>3. QED
  BY <1>1, <1>2, PTL DEF BootSpec, Spec

(* Bot.create and Bot.stop on one directory: two bots are never up at the  *)
(* same time, however their logins, re-logins, relocations and crashes     *)
(* overlap, unless the acquires of the two raced.                          *)
THEOREM SoleBot == BootSpec => []SoleHolder
  BY BootImplementsLock, Exclusive, PTL

-----------------------------------------------------------------------------
(* The device. *)

Tokens == [dev : Nat, n : Nat]
Mems == [tok : Tokens, pref : Nat, dev : Nat]

TokenTypeOK ==
  /\ stage \in [Bots -> Stages]
  /\ mem \in [Bots -> Mems]
  /\ sessionFile \in Tokens /\ deviceFile \in Nat /\ store \in Nat
  /\ minted \in Nat /\ known \in Nat

(* A token is of some device; a bot has one from its login on, and nothing *)
(* when it is not up.                                                      *)
HasToken ==
  /\ sessionFile # NoToken => sessionFile.dev # 0
  /\ \A b \in Bots :
       /\ mem[b].tok # NoToken => mem[b].tok.dev # 0
       /\ stage[b] = "idle" => mem[b] = NoMem
       /\ stage[b] \notin {"idle", "discovering", "login", "relocating"} => mem[b].tok.dev # 0
       /\ stage[b] \in {"persisting", "locking", "running", "failed"} => mem[b].dev # 0

(* The lock is not touched before createMatrixClient has returned. *)
LockComesLater ==
  /\ state \in [Bots -> BotStates]
  /\ \A b \in Bots :
       /\ stage[b] \in {"discovering", "login", "saving", "whoami", "opening", "persisting",
                        "relocating", "relocated"} => state[b] = "off"
       /\ stage[b] \in {"relogin", "resaving"} /\ mem[b].dev = 0 => state[b] = "off"

(* As long as there is no device.json, one create() at most is under way   *)
(* and session.json holds what it logged in with, or nothing.              *)
AloneBefore ==
  "overlap" \notin parted /\ deviceFile = 0 =>
    /\ \A b, c \in Bots : stage[b] # "idle" /\ stage[c] # "idle" => b = c
    /\ \A b \in Bots :
         /\ stage[b] \notin {"locking", "running", "failed"}
         /\ stage[b] \in {"login", "saving", "relocating", "relocated"} => sessionFile = NoToken
         /\ stage[b] \in {"discovering", "whoami", "relogin", "resaving", "opening", "persisting"} =>
              sessionFile.dev = mem[b].tok.dev
         /\ mem[b].dev = IF stage[b] = "persisting" THEN mem[b].tok.dev ELSE 0

(* From then on there is one device: the one of device.json, in the        *)
(* session file, in every bot and in what the logins ask for.              *)
OneDevice ==
  "overlap" \notin parted /\ deviceFile # 0 =>
    /\ sessionFile.dev \in {0, deviceFile}
    /\ \A b \in Bots :
         /\ mem[b].tok.dev \in {0, deviceFile}
         /\ mem[b].dev \in {0, deviceFile}
         /\ stage[b] \in {"persisting", "locking", "running", "failed"} => mem[b].dev = deviceFile
         /\ stage[b] \in {"login", "relocating"} => mem[b].pref = deviceFile

(* The crypto store is of that device; before there is a device.json it is *)
(* the one just opened.                                                    *)
StoreOfDevice ==
  parted = {} /\ store # 0 =>
    /\ deviceFile # 0 => store = deviceFile
    /\ deviceFile = 0 => \E b \in Bots : stage[b] = "persisting" /\ mem[b].dev = store

DeviceInv == TokenTypeOK /\ HasToken /\ LockComesLater /\ AloneBefore /\ OneDevice /\ StoreOfDevice

(* The invariant holds initially. *)
LEMMA DeviceInit == BootInit => DeviceInv
<1> SUFFICES ASSUME BootInit PROVE DeviceInv
  OBVIOUS
<1>1. NoToken \in Tokens /\ NoToken.dev = 0 /\ NoMem \in Mems
  BY DEF NoToken, NoMem, Tokens, Mems
<1>2. TokenTypeOK
  BY <1>1 DEF BootInit, TokenTypeOK, Stages
<1>3. NoMem.tok = NoToken /\ NoMem.dev = 0
  BY DEF NoMem
<1>4. HasToken /\ LockComesLater /\ AloneBefore /\ OneDevice /\ StoreOfDevice
  BY <1>1, <1>3 DEF BootInit, Init, BotStates, HasToken, LockComesLater, AloneBefore, OneDevice, StoreOfDevice
<1>5. QED
  BY <1>2, <1>4 DEF DeviceInv

(* No token, no memory. *)
LEMMA NothingFacts ==
  /\ NoToken \in Tokens /\ NoToken.dev = 0 /\ NoToken.n = 0
  /\ NoMem \in Mems /\ NoMem.tok = NoToken /\ NoMem.pref = 0 /\ NoMem.dev = 0
  BY DEF NoToken, NoMem, Tokens, Mems

(* What a bot has in memory is of the types it should be. *)
LEMMA MemFacts ==
  ASSUME NEW m \in Mems
  PROVE  /\ m.tok \in Tokens /\ m.tok.dev \in Nat /\ m.dev \in Nat /\ m.pref \in Nat
         /\ \A d \in Nat : [m EXCEPT !.pref = d] \in Mems /\ [m EXCEPT !.dev = d] \in Mems
         /\ \A t \in Tokens : [m EXCEPT !.tok = t] \in Mems
<1>1. m.tok \in Tokens /\ m.dev \in Nat /\ m.pref \in Nat
  BY DEF Mems
<1>2. m.tok.dev \in Nat
  BY <1>1 DEF Tokens
<1>3. QED
  BY <1>1, <1>2 DEF Mems

(* create() begins: the session is read, then used or a login prepared. *)
LEMMA StartHolds ==
  ASSUME DeviceInv, NEW b \in Bots, CreateStart(b) \/ ReuseOrLogin(b)
  PROVE  DeviceInv'
<1> USE NothingFacts DEF DeviceInv, To, vars, files, server
<1>1. CASE CreateStart(b)
  <2> USE <1>1 DEF CreateStart
  <2>1. TokenTypeOK'
    BY MemFacts DEF TokenTypeOK, Stages
  <2>2. HasToken'
    BY DEF TokenTypeOK, Mems, HasToken
  <2>3. LockComesLater'
    BY DEF TokenTypeOK, Mems, HasToken, LockComesLater, BotStates
  <2>4. AloneBefore'
    BY DEF TokenTypeOK, Mems, HasToken, AloneBefore, Creating, Stages
  <2>5. OneDevice'
    BY DEF TokenTypeOK, Mems, HasToken, AloneBefore, OneDevice, Stages
  <2>6. StoreOfDevice'
    BY DEF TokenTypeOK, Mems, HasToken, LockComesLater, AloneBefore, OneDevice, StoreOfDevice, Stages
  <2>7. QED
    BY <2>1, <2>2, <2>3, <2>4, <2>5, <2>6
<1>2. CASE ReuseOrLogin(b)
  <2> USE <1>2 DEF ReuseOrLogin
  <2>1. TokenTypeOK'
    BY DEF TokenTypeOK, Mems, Stages
  <2>2. HasToken'
    BY DEF TokenTypeOK, Mems, HasToken
  <2>3. LockComesLater'
    BY DEF TokenTypeOK, Mems, HasToken, LockComesLater, BotStates
  <2>4. AloneBefore'
    BY DEF TokenTypeOK, Mems, HasToken, AloneBefore, Creating, Stages
  <2>5. OneDevice'
    BY DEF TokenTypeOK, Mems, HasToken, AloneBefore, OneDevice, Stages
  <2>6. StoreOfDevice'
    BY DEF TokenTypeOK, Mems, HasToken, LockComesLater, AloneBefore, OneDevice, StoreOfDevice, Stages
  <2>7. QED
    BY <2>1, <2>2, <2>3, <2>4, <2>5, <2>6
<1>3. QED
  BY <1>1, <1>2

(* What a login gave is written. *)
LEMMA SaveHolds ==
  ASSUME DeviceInv, NEW b \in Bots, SaveSession(b) \/ ReloginSaved(b) \/ RelocateSave(b)
  PROVE  DeviceInv'
<1> USE NothingFacts DEF DeviceInv, To, vars, files, server
<1>1. CASE SaveSession(b)
  <2> USE <1>1 DEF SaveSession
  <2>1. TokenTypeOK'
    BY MemFacts DEF TokenTypeOK, Stages
  <2>2. HasToken'
    BY DEF TokenTypeOK, Mems, HasToken
  <2>3. LockComesLater'
    BY DEF TokenTypeOK, Mems, HasToken, LockComesLater, BotStates
  <2>4. AloneBefore'
    BY DEF TokenTypeOK, Mems, HasToken, AloneBefore, Creating, Stages
  <2>5. OneDevice'
    BY DEF TokenTypeOK, Mems, HasToken, AloneBefore, OneDevice, Stages
  <2>6. StoreOfDevice'
    BY DEF TokenTypeOK, Mems, HasToken, LockComesLater, AloneBefore, OneDevice, StoreOfDevice, Stages
  <2>7. QED
    BY <2>1, <2>2, <2>3, <2>4, <2>5, <2>6
<1>2. CASE ReloginSaved(b)
  <2> USE <1>2 DEF ReloginSaved
  <2>1. TokenTypeOK'
    BY MemFacts DEF TokenTypeOK, Stages
  <2>2. HasToken'
    BY DEF TokenTypeOK, Mems, HasToken
  <2>3. LockComesLater'
    BY DEF TokenTypeOK, Mems, HasToken, LockComesLater, BotStates
  <2>4. AloneBefore'
    BY DEF TokenTypeOK, Mems, HasToken, AloneBefore, Creating, Stages
  <2>5. OneDevice'
    BY DEF TokenTypeOK, Mems, HasToken, AloneBefore, OneDevice, Stages
  <2>6. StoreOfDevice'
    BY DEF TokenTypeOK, Mems, HasToken, LockComesLater, AloneBefore, OneDevice, StoreOfDevice, Stages
  <2>7. QED
    BY <2>1, <2>2, <2>3, <2>4, <2>5, <2>6
<1>3. CASE RelocateSave(b)
  <2> USE <1>3 DEF RelocateSave
  <2>1. TokenTypeOK'
    BY MemFacts DEF TokenTypeOK, Stages
  <2>2. HasToken'
    BY DEF TokenTypeOK, Mems, HasToken
  <2>3. LockComesLater'
    BY DEF TokenTypeOK, Mems, HasToken, LockComesLater, BotStates
  <2>4. AloneBefore'
    BY DEF TokenTypeOK, Mems, HasToken, AloneBefore, Creating, Stages
  <2>5. OneDevice'
    BY DEF TokenTypeOK, Mems, HasToken, AloneBefore, OneDevice, Stages
  <2>6. StoreOfDevice'
    BY DEF TokenTypeOK, Mems, HasToken, LockComesLater, AloneBefore, OneDevice, StoreOfDevice, Stages
  <2>7. QED
    BY <2>1, <2>2, <2>3, <2>4, <2>5, <2>6
<1>4. QED
  BY <1>1, <1>2, <1>3

(* Steps that only move on, or give up. *)
LEMMA StageHolds ==
  ASSUME DeviceInv, NEW b \in Bots, WhoAmI(b) \/ StartBot(b) \/ AuthFails(b) \/ CreateThrows(b) \/ ReloginFails(b)
  PROVE  DeviceInv'
<1> USE NothingFacts DEF DeviceInv, To, vars, files, server
<1>1. CASE WhoAmI(b) \/ StartBot(b) \/ AuthFails(b)
  <2> USE <1>1 DEF WhoAmI, StartBot, AuthFails
  <2>1. TokenTypeOK'
    BY MemFacts DEF TokenTypeOK, Stages
  <2>2. HasToken'
    BY DEF TokenTypeOK, Mems, HasToken
  <2>3. LockComesLater'
    BY DEF TokenTypeOK, Mems, HasToken, LockComesLater, BotStates
  <2>4. AloneBefore'
    BY DEF TokenTypeOK, Mems, HasToken, AloneBefore, Creating, Stages
  <2>5. OneDevice'
    BY DEF TokenTypeOK, Mems, HasToken, AloneBefore, OneDevice, Stages
  <2>6. StoreOfDevice'
    BY DEF TokenTypeOK, Mems, HasToken, LockComesLater, AloneBefore, OneDevice, StoreOfDevice, Stages
  <2>7. QED
    BY <2>1, <2>2, <2>3, <2>4, <2>5, <2>6
<1>2. CASE CreateThrows(b)
  <2> USE <1>2 DEF CreateThrows
  <2>1. TokenTypeOK'
    BY MemFacts DEF TokenTypeOK, Stages
  <2>2. HasToken'
    BY DEF TokenTypeOK, Mems, HasToken
  <2>3. LockComesLater'
    BY DEF TokenTypeOK, Mems, HasToken, LockComesLater, BotStates
  <2>4. AloneBefore'
    BY DEF TokenTypeOK, Mems, HasToken, AloneBefore, Creating, Stages
  <2>5. OneDevice'
    BY DEF TokenTypeOK, Mems, HasToken, AloneBefore, OneDevice, Stages
  <2>6. StoreOfDevice'
    BY DEF TokenTypeOK, Mems, HasToken, LockComesLater, AloneBefore, OneDevice, StoreOfDevice, Stages
  <2>7. QED
    BY <2>1, <2>2, <2>3, <2>4, <2>5, <2>6
<1>3. CASE ReloginFails(b)
  <2> USE <1>3 DEF ReloginFails
  <2>1. TokenTypeOK'
    <3>1. mem[b] \in Mems /\ mem[b].tok.dev \in Nat
      BY MemFacts DEF TokenTypeOK
    <3>2. mem' = [mem EXCEPT ![b] = [mem[b] EXCEPT !.pref = mem[b].tok.dev]] \/ mem' = mem
      OBVIOUS
    <3>3. mem' \in [Bots -> Mems]
      BY <3>1, <3>2, MemFacts, ZenonT(60) DEF TokenTypeOK
    <3>4. QED
      BY <3>3 DEF TokenTypeOK, Stages
  <2>2. HasToken'
    BY DEF TokenTypeOK, Mems, HasToken
  <2>3. LockComesLater'
    BY DEF TokenTypeOK, Mems, HasToken, LockComesLater, BotStates
  <2>4. AloneBefore'
    BY DEF TokenTypeOK, Mems, HasToken, AloneBefore, Creating, Stages
  <2>5. OneDevice'
    BY DEF TokenTypeOK, Mems, HasToken, AloneBefore, OneDevice, Stages
  <2>6. StoreOfDevice'
    BY DEF TokenTypeOK, Mems, HasToken, LockComesLater, AloneBefore, OneDevice, StoreOfDevice, Stages
  <2>7. QED
    BY <2>1, <2>2, <2>3, <2>4, <2>5, <2>6
<1>4. QED
  BY <1>1, <1>2, <1>3

(* The crypto store is opened and its device written down. *)
LEMMA OpenHolds ==
  ASSUME DeviceInv, NEW b \in Bots, OpenCrypto(b) \/ PersistDevice(b)
  PROVE  DeviceInv'
<1> USE NothingFacts DEF DeviceInv, To, vars, files, server, OpenStores, Goto
<1>1. CASE OpenCrypto(b)
  <2> USE <1>1 DEF OpenCrypto
  <2>1. TokenTypeOK'
    BY MemFacts DEF TokenTypeOK, Stages
  <2>2. HasToken'
    BY DEF TokenTypeOK, Mems, HasToken
  <2>3. LockComesLater'
    BY DEF TokenTypeOK, Mems, HasToken, LockComesLater, BotStates
  <2>4. AloneBefore'
    BY DEF TokenTypeOK, Mems, HasToken, AloneBefore, Creating, Stages
  <2>5. OneDevice'
    BY DEF TokenTypeOK, Mems, HasToken, AloneBefore, OneDevice, Stages
  <2>6. StoreOfDevice'
    BY DEF TokenTypeOK, Mems, HasToken, LockComesLater, AloneBefore, OneDevice, StoreOfDevice, Stages
  <2>7. QED
    BY <2>1, <2>2, <2>3, <2>4, <2>5, <2>6
<1>2. CASE PersistDevice(b)
  <2> USE <1>2 DEF PersistDevice
  <2>1. TokenTypeOK'
    BY MemFacts DEF TokenTypeOK, Stages
  <2>2. HasToken'
    BY DEF TokenTypeOK, Mems, HasToken
  <2>3. LockComesLater'
    BY DEF TokenTypeOK, Mems, HasToken, LockComesLater, BotStates
  <2>4. AloneBefore'
    BY DEF TokenTypeOK, Mems, HasToken, AloneBefore, Creating, Stages
  <2>5. OneDevice'
    BY DEF TokenTypeOK, Mems, HasToken, AloneBefore, OneDevice, Stages
  <2>6. StoreOfDevice'
    BY DEF TokenTypeOK, Mems, HasToken, LockComesLater, AloneBefore, OneDevice, StoreOfDevice, Stages
  <2>7. QED
    BY <2>1, <2>2, <2>3, <2>4, <2>5, <2>6
<1>3. QED
  BY <1>1, <1>2

(* The lock is refused or given back. *)
LEMMA LockHolds ==
  ASSUME DeviceInv, NEW b \in Bots, LockRefused(b) \/ StopBot(b)
  PROVE  DeviceInv'
<1> USE NothingFacts DEF DeviceInv, To, vars, files, server, GiveUp, ReleaseRead, Goto
<1>1. CASE LockRefused(b)
  <2> USE <1>1 DEF LockRefused
  <2>1. TokenTypeOK'
    BY MemFacts DEF TokenTypeOK, Stages
  <2>2. HasToken'
    BY DEF TokenTypeOK, Mems, HasToken
  <2>3. LockComesLater'
    BY DEF TokenTypeOK, Mems, HasToken, LockComesLater, BotStates
  <2>4. AloneBefore'
    BY DEF TokenTypeOK, Mems, HasToken, AloneBefore, Creating, Stages
  <2>5. OneDevice'
    BY DEF TokenTypeOK, Mems, HasToken, AloneBefore, OneDevice, Stages
  <2>6. StoreOfDevice'
    BY DEF TokenTypeOK, Mems, HasToken, LockComesLater, AloneBefore, OneDevice, StoreOfDevice, Stages
  <2>7. QED
    BY <2>1, <2>2, <2>3, <2>4, <2>5, <2>6
<1>2. CASE StopBot(b)
  <2> USE <1>2 DEF StopBot
  <2>1. TokenTypeOK'
    BY MemFacts DEF TokenTypeOK, Stages
  <2>2. HasToken'
    BY DEF TokenTypeOK, Mems, HasToken
  <2>3. LockComesLater'
    BY DEF TokenTypeOK, Mems, HasToken, LockComesLater, BotStates
  <2>4. AloneBefore'
    BY DEF TokenTypeOK, Mems, HasToken, AloneBefore, Creating, Stages
  <2>5. OneDevice'
    BY DEF TokenTypeOK, Mems, HasToken, AloneBefore, OneDevice, Stages
  <2>6. StoreOfDevice'
    BY DEF TokenTypeOK, Mems, HasToken, LockComesLater, AloneBefore, OneDevice, StoreOfDevice, Stages
  <2>7. QED
    BY <2>1, <2>2, <2>3, <2>4, <2>5, <2>6
<1>3. QED
  BY <1>1, <1>2

(* relocateSession wipes the store. *)
LEMMA RelocateHolds ==
  ASSUME DeviceInv, NEW b \in Bots, Relocate(b)
  PROVE  DeviceInv'
<1> USE NothingFacts DEF DeviceInv, To, vars, files, server, ReloginDevice
<1>1. CASE Relocate(b)
  <2> USE <1>1 DEF Relocate
  <2>1. TokenTypeOK'
    <3>1. ReloginDevice \in Nat
      BY DEF TokenTypeOK, Tokens
    <3>2. mem' \in [Bots -> Mems]
      <4>1. mem[b] \in Mems /\ mem' = [mem EXCEPT ![b] = [mem[b] EXCEPT !.pref = ReloginDevice]]
        BY DEF TokenTypeOK
      <4> HIDE DEF ReloginDevice
      <4>2. QED
        BY <3>1, <4>1, MemFacts DEF TokenTypeOK
    <3>3. QED
      BY <3>2 DEF TokenTypeOK, Stages
  <2>2. HasToken'
    BY DEF TokenTypeOK, Mems, HasToken
  <2>3. LockComesLater'
    BY DEF TokenTypeOK, Mems, HasToken, LockComesLater, BotStates
  <2>4. AloneBefore'
    BY DEF TokenTypeOK, Mems, HasToken, AloneBefore, Creating, Stages
  <2>5. OneDevice'
    BY DEF TokenTypeOK, Mems, HasToken, AloneBefore, OneDevice, Stages
  <2>6. StoreOfDevice'
    BY DEF TokenTypeOK, Mems, HasToken, LockComesLater, AloneBefore, OneDevice, StoreOfDevice, Stages
  <2>7. QED
    BY <2>1, <2>2, <2>3, <2>4, <2>5, <2>6
<1>2. QED
  BY <1>1

(* GrantToken: a login for a device gives a token of that device, a login  *)
(* for none a token of a new one.                                          *)
LEMMA GrantFacts ==
  ASSUME DeviceInv, NEW b \in Bots, NEW pref \in Nat, NEW s \in Stages, GrantToken(b, pref, s)
  PROVE  \E t \in Tokens :
           /\ t # NoToken /\ t.dev # 0 /\ (pref # 0 => t.dev = pref)
           /\ mem' = [mem EXCEPT ![b] = [mem[b] EXCEPT !.tok = t]]
           /\ stage' = [stage EXCEPT ![b] = s]
           /\ known' \in Nat /\ minted' \in Nat
<1>1. minted \in Nat /\ known \in Nat
  BY DEF DeviceInv, TokenTypeOK
<1> DEFINE d == IF pref = 0 THEN known + 1 ELSE pref
           t == [dev |-> d, n |-> minted + 1]
<1>2. t \in Tokens /\ t.dev = d /\ d # 0 /\ t # NoToken
  BY <1>1 DEF Tokens, NoToken
<1>3. mem' = [mem EXCEPT ![b] = [mem[b] EXCEPT !.tok = t]]
  BY DEF GrantToken
<1>4. known' \in Nat /\ minted' \in Nat /\ stage' = [stage EXCEPT ![b] = s]
  BY <1>1 DEF GrantToken, To
<1>5. QED
  BY <1>2, <1>3, <1>4

(* The homeserver hands out a token. *)
LEMMA LoginHolds ==
  ASSUME DeviceInv, NEW b \in Bots, PasswordLogin(b) \/ Relogin(b) \/ RelocateLogin(b)
  PROVE  DeviceInv'
<1> DEFINE pref == IF stage[b] = "relogin" THEN ReloginDevice ELSE mem[b].pref
           s == IF stage[b] = "login" THEN "saving" ELSE IF stage[b] = "relogin" THEN "resaving" ELSE "relocated"
<1> USE NothingFacts DEF DeviceInv
<1>1. /\ pref \in Nat /\ s \in Stages /\ GrantToken(b, pref, s)
      /\ stage[b] \in {"login", "relogin", "relocating"}
      /\ UNCHANGED <<vars, files, revokes, crashes, parted>>
  <2>1. pref \in Nat /\ s \in Stages
    BY MemFacts DEF TokenTypeOK, Tokens, ReloginDevice, Stages
  <2>2. QED
    BY <2>1 DEF PasswordLogin, Relogin, RelocateLogin
<1>2. PICK t \in Tokens :
        /\ t # NoToken /\ t.dev # 0 /\ (pref # 0 => t.dev = pref)
        /\ mem' = [mem EXCEPT ![b] = [mem[b] EXCEPT !.tok = t]]
        /\ stage' = [stage EXCEPT ![b] = s]
        /\ known' \in Nat /\ minted' \in Nat
  BY <1>1, GrantFacts
<1>3. /\ deviceFile # 0 /\ "overlap" \notin parted => t.dev = deviceFile
      /\ deviceFile = 0 /\ "overlap" \notin parted /\ stage[b] = "relogin" => t.dev = sessionFile.dev
  BY <1>1, <1>2 DEF TokenTypeOK, HasToken, AloneBefore, OneDevice, ReloginDevice
<1>4. mem'[b] \in Mems /\ mem'[b].tok = t /\ mem'[b].dev = mem[b].dev
  BY <1>2, MemFacts DEF TokenTypeOK, Mems
<1>5. stage'[b] = s /\ s \in {"saving", "resaving", "relocated"} /\ \A c \in Bots \ {b} : mem'[c] = mem[c] /\ stage'[c] = stage[c]
  BY <1>1, <1>2 DEF TokenTypeOK
<1> USE <1>1, <1>4, <1>5 DEF vars, files
<1>6. TokenTypeOK'
  BY <1>2 DEF TokenTypeOK
<1>7. HasToken'
  BY <1>2 DEF HasToken
<1>8. LockComesLater'
  BY DEF LockComesLater
<1>9. AloneBefore'
  BY <1>3 DEF AloneBefore
<1>10. OneDevice'
  BY <1>3 DEF OneDevice
<1>11. StoreOfDevice'
  BY DEF StoreOfDevice
<1>12. QED
  BY <1>6, <1>7, <1>8, <1>9, <1>10, <1>11

(* Steps that leave the files and every bot as they are. *)
LEMMA QuietHolds ==
  ASSUME DeviceInv, UNCHANGED <<files, stage, mem, minted, known, parted>>, LockComesLater'
  PROVE  DeviceInv'
<1> USE DEF DeviceInv, files
<1>1. TokenTypeOK' /\ HasToken' /\ AloneBefore' /\ OneDevice' /\ StoreOfDevice'
  BY DEF TokenTypeOK, HasToken, AloneBefore, OneDevice, StoreOfDevice
<1>2. QED
  BY <1>1

(* A process dies. *)
LEMMA CrashHolds ==
  ASSUME DeviceInv, NEW p \in Pids, CrashProcess(p)
  PROVE  DeviceInv'
<1> USE NothingFacts DEF DeviceInv, CrashProcess, files, server
<1>1. TokenTypeOK'
  BY DEF TokenTypeOK, Stages
<1>2. HasToken'
  BY DEF TokenTypeOK, HasToken
<1>3. LockComesLater'
  BY DEF LockComesLater, BotStates, Crash
<1>4. AloneBefore'
  BY DEF TokenTypeOK, AloneBefore
<1>5. OneDevice'
  BY DEF TokenTypeOK, OneDevice
<1>6. StoreOfDevice'
  BY DEF TokenTypeOK, HasToken, AloneBefore, OneDevice, StoreOfDevice
<1>7. QED
  BY <1>1, <1>2, <1>3, <1>4, <1>5, <1>6

(* Every step keeps the invariant. *)
LEMMA DeviceNext ==
  ASSUME DeviceInv, [BootNext]_allVars
  PROVE  DeviceInv'
<1>1. CASE UNCHANGED allVars
  BY <1>1, QuietHolds DEF allVars, boot, vars, files, server, DeviceInv, LockComesLater
<1>2. ASSUME NEW b \in Bots, TakeLock(b) \/ Unlink(b) PROVE DeviceInv'
  <2>1. LockComesLater'
    BY <1>2 DEF TakeLock, Unlink, AcquireOwnPid, AcquireBusy, AcquireRead, AcquireWrite, ReleaseUnlink, Goto,
                boot, files, server, DeviceInv, LockComesLater, BotStates
  <2>2. QED
    BY <1>2, <2>1, QuietHolds DEF TakeLock, Unlink, boot, files, server
<1>3. ASSUME NEW b \in Bots, NEW victims \in SUBSET Devices, PruneOtherDevices(b, victims) PROVE DeviceInv'
  BY <1>3, QuietHolds DEF PruneOtherDevices, vars, DeviceInv, LockComesLater
<1>4. ASSUME NEW d \in Devices, RevokeToken(d) PROVE DeviceInv'
  BY <1>4, QuietHolds DEF RevokeToken, vars, DeviceInv, LockComesLater
<1>5. ASSUME NEW p \in Pids, SpawnProcess(p) PROVE DeviceInv'
  BY <1>5, QuietHolds DEF SpawnProcess, Spawn, boot, files, server, DeviceInv, LockComesLater
<1>6. CASE BootNext
  BY <1>2, <1>3, <1>4, <1>5, <1>6, StartHolds, SaveHolds, StageHolds, OpenHolds, LockHolds, RelocateHolds,
     LoginHolds, CrashHolds DEF BootNext
<1>7. QED
  BY <1>1, <1>6

(* The inductive invariant of the session and its files. *)
THEOREM DeviceInvariant == BootSpec => []DeviceInv
  BY DeviceInit, DeviceNext, PTL DEF BootSpec

(* verifyCryptoContract holds for as long as the bot runs: its token is of *)
(* the device of its crypto store, through re-logins, pruned devices and   *)
(* other bots, unless creates overlapped before there was a device.json.   *)
THEOREM TokenStaysWithStore == BootSpec => []TokenMatchesStore
<1>1. DeviceInv => TokenMatchesStore
  BY DEF DeviceInv, TokenTypeOK, HasToken, AloneBefore, OneDevice, TokenMatchesStore
<1>2. QED
  BY <1>1, DeviceInvariant, PTL

(* Whatever throws, fails or dies: the next create() asks for the device   *)
(* the crypto store belongs to, unless creates overlapped then or a        *)
(* process died between creating the store and writing device.json.        *)
THEOREM StoreStaysUsable == BootSpec => []StoreReopens
<1>1. DeviceInv => StoreReopens
  BY NothingFacts DEF DeviceInv, TokenTypeOK, HasToken, OneDevice, StoreOfDevice, StoreReopens
<1>2. QED
  BY <1>1, DeviceInvariant, PTL
-----------------------------------------------------------------------------
(* The HTTP client and the refresh of its token. *)

(* A request that is not idempotent and has taken effect is on its way     *)
(* out: its answer came or was lost, and neither is replayed.              *)
EffectIsFinal ==
  \A q \in Requests \ Idempotent :
    /\ applied[q] <= 1
    /\ applied[q] = 1 =>
         \/ req[q].pc = "answered" /\ req[q].answer \in {"ok", "lost"}
         \/ req[q].pc \in {"done", "failed"}

(* The attempts a request has made: the retries, and one more after its    *)
(* own refresh.                                                            *)
Budget ==
  \A q \in Requests :
    /\ req[q].attempt <= MaxRetries + (IF req[q].refreshed THEN 2 ELSE 1)
    /\ req[q].pc = "backoff" => req[q].attempt <= MaxRetries
    /\ req[q].pc = "ready" => req[q].attempt <= MaxRetries + (IF req[q].refreshed THEN 1 ELSE 0)
    /\ req[q].pc = "refreshing" => ~req[q].refreshed

(* No token in use is newer than the session on disk: what a request       *)
(* carries, and so what it may make the homeserver revoke, is never ahead  *)
(* of what a restarted process would find.                                 *)
StoredBeforeUse ==
  /\ bearer <= session
  /\ \A q \in Requests : req[q].token <= session

(* The credentials the hook holds: while they are not stored they are      *)
(* newer than the session and the homeserver accepts their refresh token;  *)
(* once the promise has settled they are stored.                           *)
HookAhead ==
  /\ refresh.pc = "save" => session <= refresh.gen /\ refresh.gen <= newest /\ refresh.gen \in usable
  /\ refresh.pc = "settled" => refresh.gen <= session
  /\ refresh.pc = "login" => relogin

HttpInv == HttpTypeOK /\ EffectIsFinal /\ Budget /\ StoredBeforeUse /\ HookAhead /\ SessionRecoverable

ReqStates ==
  [pc : Pcs, attempt : 0..(MaxRetries + 2), refreshed : BOOLEAN, token : Gens \cup {NoGen}, answer : Answers]

-----------------------------------------------------------------------------
(* The invariant holds when the bot starts. *)
LEMMA HttpInitHolds == HttpInit => HttpInv
<1> SUFFICES ASSUME HttpInit PROVE HttpInv
  OBVIOUS
<1> USE HttpAssumption
<1>1. NewRequest \in ReqStates
  BY DEF NewRequest, ReqStates, Pcs, Answers, Gens, NoGen
<1>2. NoRefresh \in RefreshStates
  BY DEF NoRefresh, RefreshStates, Gens, NoGen
<1>3. HttpTypeOK
  BY <1>1, <1>2 DEF HttpInit, HttpTypeOK, Gens, ReqStates
<1>4. EffectIsFinal /\ Budget /\ StoredBeforeUse /\ HookAhead /\ SessionRecoverable
  BY DEF HttpInit, EffectIsFinal, Budget, StoredBeforeUse, HookAhead, SessionRecoverable, NewRequest, NoRefresh, NoGen
<1> QED
  BY <1>3, <1>4 DEF HttpInv

(* A step that changes one request, nothing else of the client and nothing *)
(* of the homeserver but the effect of that request.                       *)
LEMMA RequestStep ==
  ASSUME HttpInv, NEW q \in Requests, NEW r \in ReqStates, req' = [req EXCEPT ![q] = r],
         UNCHANGED <<homeserver, session, relogin, bearer, refresh, expiries, restarts>>,
         r.attempt <= MaxRetries + (IF r.refreshed THEN 2 ELSE 1),
         r.pc = "backoff" => r.attempt <= MaxRetries,
         r.pc = "ready" => r.attempt <= MaxRetries + (IF r.refreshed THEN 1 ELSE 0),
         r.pc # "refreshing",
         r.token <= session,
         q \notin Idempotent /\ applied[q] = 1 =>
           (r.pc = "answered" /\ r.answer \in {"ok", "lost"}) \/ r.pc \in {"done", "failed"}
  PROVE  HttpInv'
<1> USE DEF homeserver
<1>1. HttpTypeOK'
  BY DEF HttpInv, HttpTypeOK, ReqStates
<1>2. EffectIsFinal'
  BY DEF HttpInv, HttpTypeOK, EffectIsFinal
<1>3. Budget'
  BY DEF HttpInv, HttpTypeOK, Budget
<1>4. StoredBeforeUse' /\ HookAhead' /\ SessionRecoverable'
  BY DEF HttpInv, HttpTypeOK, StoredBeforeUse, HookAhead, SessionRecoverable
<1> QED
  BY <1>1, <1>2, <1>3, <1>4 DEF HttpInv

(* attempt(), retries, aborts, refusals: one request goes on. *)
LEMMA ClientStepHolds ==
  ASSUME HttpInv, NEW q \in Requests,
         \/ ServerDenies(q) \/ ServerAppliesNothing(q)
         \/ Attempt(q) \/ RequestReturns(q) \/ Abort(q) \/ Retry(q) \/ WakeUp(q) \/ RequestThrows(q)
         \/ DeniedAgain(q) \/ RefreshRefused(q)
  PROVE  HttpInv'
<1> USE HttpAssumption
<1>1. req[q] \in ReqStates /\ session \in Nat /\ bearer \in Gens /\ req \in [Requests -> ReqStates]
  BY DEF HttpInv, HttpTypeOK, ReqStates, Gens
<1>2. /\ req[q].attempt <= MaxRetries + (IF req[q].refreshed THEN 2 ELSE 1)
      /\ req[q].pc = "backoff" => req[q].attempt <= MaxRetries
      /\ req[q].pc = "ready" => req[q].attempt <= MaxRetries + (IF req[q].refreshed THEN 1 ELSE 0)
  BY DEF HttpInv, Budget
<1>3. req[q].token <= session /\ bearer <= session
  BY DEF HttpInv, StoredBeforeUse
<1>4. q \notin Idempotent /\ applied[q] = 1 =>
        (req[q].pc = "answered" /\ req[q].answer \in {"ok", "lost"}) \/ req[q].pc \in {"done", "failed"}
  BY DEF HttpInv, EffectIsFinal
<1>5. UNCHANGED <<homeserver, session, relogin, bearer, refresh, expiries, restarts>>
  BY DEF ServerDenies, ServerAppliesNothing, Attempt, RequestReturns, Abort, Retry, WakeUp, RequestThrows,
         DeniedAgain, RefreshRefused
<1>6. CASE ServerDenies(q) \/ ServerAppliesNothing(q)
  <2>1. PICK a \in {"denied", "limited", "refused", "lost"} : Answer(q, a) /\ req[q].pc = "sent"
    BY <1>6 DEF ServerDenies, ServerAppliesNothing
  <2> DEFINE r == [req[q] EXCEPT !.pc = "answered", !.answer = a]
  <2>2. req' = [req EXCEPT ![q] = r]
    BY <1>1, <2>1 DEF Answer
  <2>3. r \in ReqStates
    BY <1>1 DEF ReqStates, Pcs, Answers
  <2>4. r.attempt = req[q].attempt /\ r.refreshed = req[q].refreshed /\ r.pc = "answered" /\ r.token = req[q].token
    BY <1>1 DEF ReqStates
  <2> HIDE DEF r
  <2> QED
    BY <1>2, <1>3, <1>4, <1>5, <2>1, <2>2, <2>3, <2>4, RequestStep
<1>7. CASE Attempt(q)
  <2> DEFINE r == [req[q] EXCEPT !.pc = "sent", !.attempt = @ + 1, !.token = bearer]
  <2>1. req' = [req EXCEPT ![q] = r] /\ req[q].pc = "ready"
    BY <1>1, <1>7 DEF Attempt
  <2>2. req[q].attempt + 1 \in 0..(MaxRetries + 2) /\ req[q].attempt \in Nat
    BY <1>1, <1>2, <2>1 DEF ReqStates
  <2>3. r \in ReqStates
    BY <1>1, <2>2 DEF ReqStates, Pcs
  <2>4. r.attempt = req[q].attempt + 1 /\ r.refreshed = req[q].refreshed /\ r.pc = "sent" /\ r.token = bearer
    BY <1>1 DEF ReqStates
  <2> HIDE DEF r
  <2>5. r.attempt <= MaxRetries + (IF r.refreshed THEN 2 ELSE 1)
    BY <1>2, <2>1, <2>2, <2>4
  <2> QED
    BY <1>3, <1>4, <1>5, <2>1, <2>3, <2>4, <2>5, RequestStep
<1>8. CASE RequestReturns(q) \/ Abort(q) \/ Retry(q) \/ WakeUp(q) \/ RequestThrows(q) \/ DeniedAgain(q) \/ RefreshRefused(q)
  <2>1. PICK s \in {"done", "failed", "backoff", "ready", "authFailed"} :
          /\ req' = [req EXCEPT ![q].pc = s]
          /\ s = "backoff" => req[q].pc = "answered" /\ Retryable(q) /\ WithinBudget(q)
          /\ s = "ready" => req[q].pc = "backoff"
          /\ s = "authFailed" => \/ req[q].pc = "answered" /\ req[q].answer = "denied"
                                \/ req[q].pc = "refreshing"
    BY <1>8 DEF RequestReturns, Abort, Retry, WakeUp, RequestThrows, DeniedAgain, RefreshRefused
  <2> DEFINE r == [req[q] EXCEPT !.pc = s]
  <2>2. req' = [req EXCEPT ![q] = r]
    BY <1>1, <2>1
  <2>3. r \in ReqStates
    BY <1>1 DEF ReqStates, Pcs
  <2>4. r.attempt = req[q].attempt /\ r.refreshed = req[q].refreshed /\ r.pc = s /\ r.token = req[q].token
    BY <1>1 DEF ReqStates
  <2>5. req[q].attempt \in Nat /\ req[q].refreshed \in BOOLEAN
    BY <1>1 DEF ReqStates
  <2> HIDE DEF r
  <2>6. s = "backoff" => r.attempt <= MaxRetries
    BY <2>1, <2>4 DEF WithinBudget
  <2>7. s = "ready" => r.attempt <= MaxRetries + (IF r.refreshed THEN 1 ELSE 0)
    BY <1>2, <2>1, <2>4, <2>5
  <2>8. q \notin Idempotent /\ applied[q] = 1 => s \in {"done", "failed"}
    BY <1>4, <2>1 DEF Retryable
  <2> QED
    BY <1>2, <1>3, <1>5, <2>2, <2>3, <2>4, <2>6, <2>7, <2>8, RequestStep
<1> QED
  BY <1>6, <1>7, <1>8

(* What a revocation leaves. *)
LEMMA SinceFacts ==
  ASSUME NEW g, NEW gens
  PROVE  Since(g, gens) \subseteq gens /\ \A x \in gens : x >= g => x \in Since(g, gens)
  BY DEF Since

(* The homeserver carries a request out.  It revokes what is older than    *)
(* the token used, which the stored session is not.                        *)
LEMMA ServerAppliesHolds == ASSUME HttpInv, NEW q \in Requests, ServerApplies(q) PROVE HttpInv'
<1> USE HttpAssumption
<1>1. /\ req \in [Requests -> ReqStates] /\ applied \in [Requests -> Nat] /\ newest \in Nat
      /\ usable \subseteq 0..newest /\ accepted \subseteq 0..newest /\ session \in 0..newest /\ bearer \in 0..newest
  BY DEF HttpInv, HttpTypeOK, ReqStates, Gens
<1>2. /\ UNCHANGED <<newest, session, relogin, bearer, refresh, expiries, restarts>>
      /\ req[q].pc = "sent" /\ req[q].token \in accepted
      /\ accepted' = Since(req[q].token, accepted) /\ usable' = Since(req[q].token, usable)
      /\ applied' = [applied EXCEPT ![q] = @ + 1]
  BY DEF ServerApplies
<1>3. PICK a \in {"ok", "lost"} : req' = [req EXCEPT ![q].pc = "answered", ![q].answer = a]
  BY DEF ServerApplies, Answer
<1>4. /\ req' \in [Requests -> ReqStates]
      /\ \A p \in Requests : /\ req'[p].attempt = req[p].attempt /\ req'[p].refreshed = req[p].refreshed
                             /\ req'[p].token = req[p].token /\ (p # q => req'[p] = req[p])
      /\ req'[q].pc = "answered" /\ req'[q].answer = a
  <2> DEFINE r == [req[q] EXCEPT !.pc = "answered", !.answer = a]
  <2>1. req' = [req EXCEPT ![q] = r]
    BY <1>1, <1>3
  <2>2. req[q] \in ReqStates
    BY <1>1
  <2>3. r \in ReqStates
    BY <2>2 DEF ReqStates, Pcs, Answers
  <2>4. r.attempt = req[q].attempt /\ r.refreshed = req[q].refreshed /\ r.token = req[q].token
        /\ r.pc = "answered" /\ r.answer = a
    BY <2>2 DEF ReqStates
  <2> HIDE DEF r
  <2> QED
    BY <1>1, <2>1, <2>3, <2>4
<1>5. HttpTypeOK'
  <2>1. accepted' \subseteq 0..newest /\ usable' \subseteq 0..newest
    BY <1>1, <1>2, SinceFacts
  <2>2. applied' \in [Requests -> Nat]
    BY <1>1, <1>2
  <2> QED
    BY <1>2, <1>4, <2>1, <2>2 DEF HttpInv, HttpTypeOK, ReqStates
<1>6. EffectIsFinal'
  <2>1. q \notin Idempotent => applied[q] = 0
    BY <1>1, <1>2 DEF HttpInv, EffectIsFinal
  <2> QED
    BY <1>1, <1>2, <1>4, <2>1 DEF HttpInv, EffectIsFinal
<1>7. Budget'
  BY <1>2, <1>4 DEF HttpInv, Budget
<1>8. StoredBeforeUse'
  BY <1>2, <1>4 DEF HttpInv, StoredBeforeUse
<1>9. req[q].token <= session /\ req[q].token \in Int
  <2>1. req[q].token <= session
    BY DEF HttpInv, StoredBeforeUse
  <2>2. req[q].token \in 0..newest
    BY <1>1, <1>2
  <2> HIDE <1>2
  <2> QED
    BY <2>1, <2>2
<1>10. SessionRecoverable'
  <2>1. session >= req[q].token
    BY <1>1, <1>9
  <2> QED
    BY <1>2, <2>1, SinceFacts DEF HttpInv, SessionRecoverable
<1>11. HookAhead'
  <2>1. refresh.pc = "save" => session <= refresh.gen /\ refresh.gen \in usable
    BY DEF HttpInv, HookAhead
  <2>2. refresh.pc = "save" => refresh.gen \in usable'
    <3> SUFFICES ASSUME refresh.pc = "save" PROVE refresh.gen \in usable'
      OBVIOUS
    <3>1. refresh.gen \in 0..newest
      BY <1>1, <2>1
    <3>2. refresh.gen >= req[q].token
      BY <1>1, <1>9, <2>1, <3>1
    <3> QED
      BY <1>2, <2>1, <3>2, SinceFacts
  <2> QED
    BY <1>2, <2>2 DEF HttpInv, HookAhead
<1> QED
  BY <1>5, <1>6, <1>7, <1>8, <1>10, <1>11 DEF HttpInv

(* A 401 joins the refresh or starts one. *)
LEMMA JoinRefreshHolds == ASSUME HttpInv, NEW q \in Requests, JoinRefresh(q) PROVE HttpInv'
<1> USE HttpAssumption
<1>1. req \in [Requests -> ReqStates] /\ refresh \in RefreshStates
  BY DEF HttpInv, HttpTypeOK, ReqStates
<1>2. /\ UNCHANGED <<homeserver, session, relogin, bearer, expiries, restarts>>
      /\ req[q].pc = "answered" /\ req[q].answer = "denied"
      /\ req' = [req EXCEPT ![q].pc = "refreshing"]
      /\ refresh' = IF refresh = NoRefresh THEN [pc |-> "exchange", gen |-> NoGen] ELSE refresh
  BY DEF JoinRefresh
<1>3. /\ req' \in [Requests -> ReqStates]
      /\ \A p \in Requests : /\ req'[p].attempt = req[p].attempt /\ req'[p].refreshed = req[p].refreshed
                             /\ req'[p].token = req[p].token /\ (p # q => req'[p] = req[p])
      /\ req'[q].pc = "refreshing"
  <2> DEFINE r == [req[q] EXCEPT !.pc = "refreshing"]
  <2>1. req' = [req EXCEPT ![q] = r]
    BY <1>1, <1>2
  <2>2. req[q] \in ReqStates
    BY <1>1
  <2>3. r \in ReqStates
    BY <2>2 DEF ReqStates, Pcs
  <2>4. r.attempt = req[q].attempt /\ r.refreshed = req[q].refreshed /\ r.token = req[q].token /\ r.pc = "refreshing"
    BY <2>2 DEF ReqStates
  <2> HIDE DEF r
  <2> QED
    BY <1>1, <2>1, <2>3, <2>4
<1>4. refresh' \in RefreshStates /\ (refresh'.pc = "exchange" \/ refresh' = refresh)
  BY <1>1, <1>2 DEF RefreshStates
<1>5. HttpTypeOK'
  BY <1>2, <1>3, <1>4 DEF HttpInv, HttpTypeOK, homeserver, ReqStates
<1>6. EffectIsFinal'
  <2>1. q \notin Idempotent => applied[q] # 1
    BY <1>2 DEF HttpInv, EffectIsFinal
  <2> QED
    BY <1>2, <1>3, <2>1 DEF HttpInv, EffectIsFinal, homeserver
<1>7. Budget' /\ StoredBeforeUse'
  <2>1. ~req[q].refreshed
    BY DEF JoinRefresh
  <2> QED
    BY <1>2, <1>3, <2>1 DEF HttpInv, Budget, StoredBeforeUse
<1>8. HookAhead' /\ SessionRecoverable'
  BY <1>2, <1>4 DEF HttpInv, HookAhead, SessionRecoverable, homeserver
<1> QED
  BY <1>5, <1>6, <1>7, <1>8 DEF HttpInv

(* What the hook's steps leave alone. *)
LEMMA HookFrame ==
  ASSUME HttpInv, UNCHANGED <<applied, req, bearer, expiries, restarts, relogin>>, HttpTypeOK', session <= session',
         session' \in Int
  PROVE  EffectIsFinal' /\ Budget' /\ StoredBeforeUse'
<1>1. EffectIsFinal' /\ Budget'
  BY DEF HttpInv, EffectIsFinal, Budget
<1>2. StoredBeforeUse'
  BY HttpAssumption DEF HttpInv, HttpTypeOK, StoredBeforeUse, Gens, NoGen
<1> QED
  BY <1>1, <1>2

(* The exchange of the refresh token: the stored one stays good, whether   *)
(* the answer comes or not.                                                *)
LEMMA ExchangeHolds == ASSUME HttpInv, ExchangeAnswered \/ ExchangeFails PROVE HttpInv'
<1> USE HttpAssumption
<1>1. /\ newest \in Gens /\ usable \subseteq 0..newest /\ accepted \subseteq 0..newest /\ session \in 0..newest
      /\ refresh \in RefreshStates /\ relogin \in BOOLEAN
  BY DEF HttpInv, HttpTypeOK
<1>2. UNCHANGED <<applied, session, relogin, bearer, req, expiries, restarts>> /\ refresh.pc = "exchange"
  BY DEF ExchangeAnswered, ExchangeFails, Exchange
<1>3. \/ UNCHANGED <<newest, usable, accepted>> /\ AfterFailure
      \/ Exchange
  BY DEF ExchangeAnswered, ExchangeFails
<1>4. /\ newest' \in Gens /\ newest <= newest' /\ usable' \subseteq 0..newest' /\ accepted' \subseteq 0..newest'
      /\ session \in usable => session \in usable'
  <2>1. CASE UNCHANGED <<newest, usable, accepted>>
    BY <1>1, <2>1 DEF Gens
  <2>2. CASE Exchange
    <3>1. newest' = newest + 1 /\ newest' \in Gens
      BY <1>1, <2>2 DEF Exchange, Issue, Gens
    <3>2. usable' \subseteq 0..newest' /\ accepted' \subseteq 0..newest'
      <4>1. Since(session, usable) \subseteq 0..newest /\ Since(session, accepted) \subseteq 0..newest
        BY <1>1, SinceFacts
      <4>2. 0..newest \subseteq 0..(newest + 1) /\ newest + 1 \in 0..(newest + 1)
        BY <1>1 DEF Gens
      <4> QED
        BY <2>2, <3>1, <4>1, <4>2 DEF Exchange
    <3>3. session \in usable'
      BY <1>1, <2>2 DEF Exchange, Since
    <3> QED
      BY <1>1, <3>1, <3>2, <3>3 DEF Gens
  <2> QED
    BY <1>3, <2>1, <2>2
<1>5. /\ refresh' \in RefreshStates
      /\ \/ refresh'.pc = "save" /\ refresh'.gen = newest' /\ newest' \in usable'
         \/ refresh'.pc = "login" /\ relogin
         \/ refresh'.pc = "settled" /\ refresh'.gen = NoGen
  <2>1. CASE ExchangeAnswered
    BY <1>1, <2>1 DEF ExchangeAnswered, Exchange, Issue, RefreshStates, Gens
  <2>2. CASE ExchangeFails
    <3>1. refresh' = [pc |-> IF relogin THEN "login" ELSE "settled", gen |-> NoGen]
      BY <2>2 DEF ExchangeFails, AfterFailure
    <3> QED
      BY <1>1, <3>1 DEF RefreshStates
  <2> QED
    BY <2>1, <2>2
<1>6. bearer \in 0..newest' /\ session \in 0..newest'
  BY <1>1, <1>4 DEF HttpInv, HttpTypeOK, Gens
<1>7. HttpTypeOK'
  BY <1>2, <1>4, <1>5, <1>6 DEF HttpInv, HttpTypeOK
<1>8. EffectIsFinal' /\ Budget' /\ StoredBeforeUse'
  BY <1>1, <1>2, <1>7, HookFrame
<1>9. SessionRecoverable'
  BY <1>2, <1>4 DEF HttpInv, SessionRecoverable
<1>10. HookAhead'
  BY <1>1, <1>2, <1>4, <1>5, <1>6 DEF HookAhead, NoGen, Gens
<1> QED
  BY <1>7, <1>8, <1>9, <1>10 DEF HttpInv

(* The password login, which only happens with a password. *)
LEMMA HookLoginHolds == ASSUME HttpInv, LoginAnswered \/ LoginFails PROVE HttpInv'
<1> USE HttpAssumption
<1>1. /\ newest \in Gens /\ usable \subseteq 0..newest /\ accepted \subseteq 0..newest /\ session \in 0..newest
      /\ refresh \in RefreshStates
  BY DEF HttpInv, HttpTypeOK
<1>2. UNCHANGED <<applied, session, relogin, bearer, req, expiries, restarts>> /\ refresh.pc = "login"
  BY DEF LoginAnswered, LoginFails, Login
<1>3. relogin /\ relogin'
  BY <1>2 DEF HttpInv, HookAhead
<1>4. newest' \in Gens /\ newest <= newest' /\ usable' \subseteq 0..newest' /\ accepted' \subseteq 0..newest'
  <2>1. CASE UNCHANGED <<newest, usable, accepted>>
    BY <1>1, <2>1 DEF Gens
  <2>2. CASE Login
    BY <1>1, <2>2 DEF Login, Issue, Gens
  <2> QED
    BY <2>1, <2>2 DEF LoginAnswered, LoginFails
<1>5. /\ refresh' \in RefreshStates
      /\ \/ refresh'.pc = "save" /\ refresh'.gen = newest' /\ newest' \in usable'
         \/ refresh'.pc = "settled" /\ refresh'.gen = NoGen
  <2>1. CASE LoginAnswered
    BY <1>1, <2>1 DEF LoginAnswered, Login, Issue, RefreshStates, Gens
  <2>2. CASE LoginFails
    BY <1>1, <2>2 DEF LoginFails, RefreshStates
  <2> QED
    BY <2>1, <2>2
<1>6. bearer \in 0..newest' /\ session \in 0..newest'
  BY <1>1, <1>4 DEF HttpInv, HttpTypeOK, Gens
<1>7. HttpTypeOK'
  BY <1>2, <1>4, <1>5, <1>6 DEF HttpInv, HttpTypeOK
<1>8. EffectIsFinal' /\ Budget' /\ StoredBeforeUse'
  BY <1>1, <1>2, <1>7, HookFrame
<1>9. SessionRecoverable'
  BY <1>3 DEF SessionRecoverable
<1>10. HookAhead'
  BY <1>1, <1>2, <1>4, <1>5, <1>6 DEF HookAhead, NoGen, Gens
<1> QED
  BY <1>7, <1>8, <1>9, <1>10 DEF HttpInv

(* saveSession, and the timer that clears the promise. *)
LEMMA SettleHolds == ASSUME HttpInv, SaveRefreshed \/ ClearRefresh PROVE HttpInv'
<1> USE HttpAssumption
<1>1. /\ newest \in Gens /\ session \in 0..newest /\ refresh \in RefreshStates
  BY DEF HttpInv, HttpTypeOK
<1>2. UNCHANGED <<homeserver, relogin, bearer, req, expiries, restarts>>
  BY DEF SaveRefreshed, ClearRefresh
<1>3. /\ refresh' \in RefreshStates /\ session' \in 0..newest /\ session <= session'
      /\ refresh'.pc \in {"none", "settled"} /\ (refresh'.pc = "settled" => refresh'.gen = session')
      /\ session' = session \/ session' \in usable
  <2>1. CASE SaveRefreshed
    <3>1. refresh.gen \in Int /\ session <= refresh.gen /\ refresh.gen <= newest /\ refresh.gen \in usable
      BY <1>1, <2>1 DEF SaveRefreshed, HttpInv, HookAhead, RefreshStates, Gens, NoGen
    <3> QED
      BY <1>1, <2>1, <3>1 DEF SaveRefreshed, RefreshStates, Gens
  <2>2. CASE ClearRefresh
    BY <1>1, <2>2 DEF ClearRefresh, NoRefresh, RefreshStates, NoGen, Gens
  <2> QED
    BY <2>1, <2>2
<1>4. HttpTypeOK'
  BY <1>2, <1>3 DEF HttpInv, HttpTypeOK, homeserver
<1>5. EffectIsFinal' /\ Budget' /\ StoredBeforeUse'
  BY <1>1, <1>2, <1>3, <1>4, HookFrame DEF homeserver, Gens
<1>6. SessionRecoverable' /\ HookAhead'
  BY <1>1, <1>2, <1>3 DEF HttpInv, SessionRecoverable, HookAhead, homeserver, Gens
<1> QED
  BY <1>4, <1>5, <1>6 DEF HttpInv

(* A waiting request goes on with the token of the settled promise. *)
LEMMA RefreshedHolds == ASSUME HttpInv, NEW q \in Requests, Refreshed(q) PROVE HttpInv'
<1> USE HttpAssumption
<1>1. /\ req \in [Requests -> ReqStates] /\ newest \in Gens /\ session \in 0..newest /\ refresh \in RefreshStates
  BY DEF HttpInv, HttpTypeOK, ReqStates
<1>2. /\ UNCHANGED <<homeserver, session, relogin, refresh, expiries, restarts>>
      /\ req[q].pc = "refreshing" /\ refresh.pc = "settled" /\ refresh.gen # NoGen /\ bearer' = refresh.gen
      /\ req' = [req EXCEPT ![q].pc = "ready", ![q].refreshed = TRUE]
  BY DEF Refreshed
<1>3. bearer' \in 0..newest /\ bearer' <= session
  BY <1>1, <1>2 DEF HttpInv, HookAhead, RefreshStates, Gens, NoGen
<1>4. /\ req' \in [Requests -> ReqStates]
      /\ \A p \in Requests : /\ req'[p].attempt = req[p].attempt /\ req'[p].token = req[p].token
                             /\ p # q => req'[p] = req[p]
      /\ req'[q].pc = "ready" /\ req'[q].refreshed = TRUE
  <2> DEFINE r == [req[q] EXCEPT !.pc = "ready", !.refreshed = TRUE]
  <2>1. req' = [req EXCEPT ![q] = r]
    BY <1>1, <1>2
  <2>2. req[q] \in ReqStates
    BY <1>1
  <2>3. r \in ReqStates
    BY <2>2 DEF ReqStates, Pcs
  <2>4. r.attempt = req[q].attempt /\ r.token = req[q].token /\ r.pc = "ready" /\ r.refreshed = TRUE
    BY <2>2 DEF ReqStates
  <2> HIDE DEF r
  <2> QED
    BY <1>1, <2>1, <2>3, <2>4
<1>5. HttpTypeOK'
  BY <1>2, <1>3, <1>4 DEF HttpInv, HttpTypeOK, homeserver, ReqStates
<1>6. EffectIsFinal'
  <2>1. q \notin Idempotent => applied[q] # 1
    BY <1>2 DEF HttpInv, EffectIsFinal
  <2> QED
    BY <1>2, <1>4, <2>1 DEF HttpInv, EffectIsFinal, homeserver
<1>7. Budget'
  <2>1. ~req[q].refreshed
    BY <1>2 DEF HttpInv, Budget
  <2>2. req[q].attempt <= MaxRetries + 1
    BY <2>1 DEF HttpInv, Budget
  <2>3. req[q].attempt \in Nat
    BY <1>1 DEF ReqStates
  <2> QED
    BY <1>4, <2>2, <2>3 DEF HttpInv, Budget
<1>8. StoredBeforeUse' /\ HookAhead' /\ SessionRecoverable'
  BY <1>2, <1>3, <1>4 DEF HttpInv, StoredBeforeUse, HookAhead, SessionRecoverable, homeserver
<1> QED
  BY <1>5, <1>6, <1>7, <1>8 DEF HttpInv

(* The access token times out. *)
LEMMA ExpireHolds == ASSUME HttpInv, Expire PROVE HttpInv'
<1>1. HttpTypeOK'
  BY HttpAssumption DEF HttpInv, HttpTypeOK, Expire
<1>2. EffectIsFinal' /\ Budget' /\ StoredBeforeUse' /\ HookAhead' /\ SessionRecoverable'
  BY DEF HttpInv, Expire, EffectIsFinal, Budget, StoredBeforeUse, HookAhead, SessionRecoverable
<1> QED
  BY <1>1, <1>2 DEF HttpInv

(* The process dies and starts again with the session on disk. *)
LEMMA RestartHolds == ASSUME HttpInv, Restart PROVE HttpInv'
<1> USE HttpAssumption
<1>1. /\ req' = [q \in Requests |-> NewRequest] /\ refresh' = NoRefresh /\ bearer' = session
      /\ applied' = [q \in Requests |-> 0] /\ restarts' \in 0..MaxRestarts
      /\ UNCHANGED <<newest, accepted, usable, session, relogin, expiries>>
  BY DEF Restart, HttpInv, HttpTypeOK
<1>2. NewRequest \in ReqStates
  BY DEF NewRequest, ReqStates, Pcs, Answers, Gens, NoGen
<1>3. NoRefresh \in RefreshStates
  BY DEF NoRefresh, RefreshStates, Gens, NoGen
<1>4. HttpTypeOK'
  BY <1>1, <1>2, <1>3 DEF HttpInv, HttpTypeOK, ReqStates
<1>5. EffectIsFinal' /\ Budget'
  BY <1>1 DEF EffectIsFinal, Budget, NewRequest
<1>6. StoredBeforeUse'
  <2>1. session \in Nat
    BY DEF HttpInv, HttpTypeOK, Gens
  <2> QED
    BY <1>1, <2>1 DEF StoredBeforeUse, NewRequest, NoGen
<1>7. HookAhead' /\ SessionRecoverable'
  BY <1>1 DEF HttpInv, HookAhead, SessionRecoverable, NoRefresh
<1> QED
  BY <1>4, <1>5, <1>6, <1>7 DEF HttpInv

(* Every step keeps the invariant. *)
LEMMA HttpNextHolds == ASSUME HttpInv, [HttpNext]_httpVars PROVE HttpInv'
<1>1. ASSUME NEW q \in Requests,
             \/ ServerDenies(q) \/ ServerAppliesNothing(q)
             \/ Attempt(q) \/ RequestReturns(q) \/ Abort(q) \/ Retry(q) \/ WakeUp(q) \/ RequestThrows(q)
             \/ DeniedAgain(q) \/ RefreshRefused(q)
      PROVE  HttpInv'
  BY <1>1, ClientStepHolds
<1>2. ASSUME NEW q \in Requests, ServerApplies(q) PROVE HttpInv'
  BY <1>2, ServerAppliesHolds
<1>3. ASSUME NEW q \in Requests, JoinRefresh(q) PROVE HttpInv'
  BY <1>3, JoinRefreshHolds
<1>4. ASSUME NEW q \in Requests, Refreshed(q) PROVE HttpInv'
  BY <1>4, RefreshedHolds
<1>5. CASE Hook
  BY <1>5, ExchangeHolds, HookLoginHolds, SettleHolds DEF Hook
<1>6. CASE Expire \/ Restart
  BY <1>6, ExpireHolds, RestartHolds
<1>7. CASE AllSettled \/ UNCHANGED httpVars
  <2>1. UNCHANGED httpVars
    BY <1>7 DEF AllSettled
  <2>2. HttpTypeOK'
    BY <2>1 DEF httpVars, HttpInv, HttpTypeOK
  <2>3. EffectIsFinal' /\ Budget' /\ StoredBeforeUse' /\ HookAhead' /\ SessionRecoverable'
    BY <2>1 DEF httpVars, HttpInv, EffectIsFinal, Budget, StoredBeforeUse, HookAhead, SessionRecoverable
  <2> QED
    BY <2>2, <2>3 DEF HttpInv
<1> QED
  BY <1>1, <1>2, <1>3, <1>4, <1>5, <1>6, <1>7 DEF HttpNext, Homeserver, Client

-----------------------------------------------------------------------------
(* The invariant holds in every reachable state. *)
THEOREM HttpInvariant == HttpSpec => []HttpInv
<1>1. HttpInv /\ [HttpNext]_httpVars => HttpInv'
  BY HttpNextHolds
<1> QED
  BY <1>1, HttpInitHolds, PTL DEF HttpSpec

(* retryDelayFor: a request that is not idempotent takes effect at most    *)
(* once, for any number of retries, refreshes and concurrent requests.     *)
THEOREM EffectAtMostOnce == HttpSpec => []NonIdempotentOnce
<1>1. HttpInv => NonIdempotentOnce
  BY DEF HttpInv, EffectIsFinal, NonIdempotentOnce
<1> QED
  BY <1>1, HttpInvariant, PTL

(* session-recovery.ts persists the new credentials before it hands out    *)
(* their token: wherever the process dies and whichever answer is lost,    *)
(* the session on disk can be resumed.                                     *)
THEOREM AlwaysRecoverable == HttpSpec => []SessionRecoverable
<1>1. HttpInv => SessionRecoverable
  BY DEF HttpInv
<1> QED
  BY <1>1, HttpInvariant, PTL

(* The reason: no request carries credentials newer than the stored ones,  *)
(* so none makes the homeserver revoke those.                              *)
THEOREM NothingUsedUnstored == HttpSpec => []StoredBeforeUse
<1>1. HttpInv => StoredBeforeUse
  BY DEF HttpInv
<1> QED
  BY <1>1, HttpInvariant, PTL

(* request() loops without a counter of its own for the refresh: it makes  *)
(* at most maxRetries + 1 attempts, and one more after a refresh.          *)
THEOREM AttemptsBounded == HttpSpec => [](\A q \in Requests : req[q].attempt <= MaxRetries + (IF req[q].refreshed THEN 2 ELSE 1))
<1>1. HttpInv => \A q \in Requests : req[q].attempt <= MaxRetries + (IF req[q].refreshed THEN 2 ELSE 1)
  BY DEF HttpInv, Budget
<1> QED
  BY <1>1, HttpInvariant, PTL
=============================================================================
