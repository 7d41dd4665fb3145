-------------------------- MODULE SessionBootstrap --------------------------
(***************************************************************************)
(* How a bot gets its session and its E2EE identity: createMatrixClient    *)
(* (client.ts), password login and the session files (login.ts), the       *)
(* re-login after an auth failure (session-recovery.ts) and the storage    *)
(* lock that Bot.create takes only afterwards.  Several bots, of one       *)
(* process or of several, may be given one storage directory.              *)
(***************************************************************************)
EXTENDS StorageLock, Naturals

CONSTANTS
  MaxDevices,   \* bound: devices the homeserver hands out
  MaxTokens,    \* bound: access tokens, numbered over all devices
  MaxRevokes,   \* bound: tokens the homeserver takes back
  MaxCrashes    \* bound: processes that die

Devices == 1..MaxDevices

VARIABLES
  sessionFile, \* session.json: a token [dev, n], or NoToken
  deviceFile,  \* device.json, or 0
  store,       \* the device of the crypto store, or 0
  valid,       \* the homeserver: device -> its token number, 0 none
  minted,      \* tokens handed out
  known,       \* devices handed out
  stage,       \* bot -> where it is in create() and after
  mem,         \* bot -> [tok, pref, dev]: its token, the device a login is to
               \* ask for, the device of its CryptoEngine
  revokes,
  crashes,
  parted       \* history: "overlap" when a create() began during another
               \* before there was a device.json, "crash" when a process died between creating
               \* the crypto store and writing device.json

files == <<sessionFile, deviceFile, store>>
server == <<valid, minted, known>>
boot == <<files, server, stage, mem, revokes, crashes, parted>>
allVars == <<vars, boot>>

NoToken == [dev |-> 0, n |-> 0]
NoMem == [tok |-> NoToken, pref |-> 0, dev |-> 0]

Stages == {"idle", "discovering", "login", "saving", "whoami", "relogin", "resaving", "opening", "persisting",
           "locking", "running", "failed", "relocating", "relocated"}

BootTypeOK ==
  /\ stage \in [Bots -> Stages]
  /\ deviceFile \in 0..MaxDevices /\ store \in 0..MaxDevices
  /\ valid \in [Devices -> 0..MaxTokens]

BootInit ==
  /\ Init
  /\ sessionFile = NoToken /\ deviceFile = 0 /\ store = 0
  /\ valid = [d \in Devices |-> 0] /\ minted = 0 /\ known = 0
  /\ stage = [b \in Bots |-> "idle"]
  /\ mem = [b \in Bots |-> NoMem]
  /\ revokes = 0 /\ crashes = 0
  /\ parted = {}

To(b, s) == stage' = [stage EXCEPT ![b] = s]

Creating(b) == stage[b] \in Stages \ {"idle", "locking", "running", "failed"}

-----------------------------------------------------------------------------
(* loadSession, then the discovery of the homeserver. *)
CreateStart(b) ==
  /\ CanStep(b) /\ state[b] = "off" /\ stage[b] = "idle"
  /\ To(b, "discovering")
  /\ mem' = [mem EXCEPT ![b] = [NoMem EXCEPT !.tok = sessionFile]]
  /\ parted' = IF deviceFile = 0 /\ \E c \in Bots \ {b} : Creating(c) THEN parted \cup {"overlap"}
               ELSE parted
  /\ UNCHANGED <<vars, files, server, revokes, crashes>>

(* The session read before the discovery is used, or a password login asks *)
(* for the device of device.json.                                          *)
ReuseOrLogin(b) ==
  /\ CanStep(b) /\ stage[b] = "discovering"
  /\ IF mem[b].tok # NoToken THEN To(b, "whoami") /\ UNCHANGED mem
     ELSE To(b, "login") /\ mem' = [mem EXCEPT ![b].pref = deviceFile]
  /\ UNCHANGED <<vars, files, server, revokes, crashes, parted>>

(* POST /login at the homeserver: with a device id the device gets a new   *)
(* token, without one there is a new device.                               *)
GrantToken(b, pref, next) ==
  /\ minted < MaxTokens /\ (pref = 0 => known < MaxDevices)
  /\ LET d == IF pref = 0 THEN known + 1 ELSE pref
     IN /\ valid' = [valid EXCEPT ![d] = minted + 1]
        /\ mem' = [mem EXCEPT ![b].tok = [dev |-> d, n |-> minted + 1]]
        /\ known' = IF pref = 0 THEN known + 1 ELSE known
  /\ minted' = minted + 1
  /\ To(b, next)

PasswordLogin(b) ==
  /\ CanStep(b) /\ stage[b] = "login"
  /\ GrantToken(b, mem[b].pref, "saving")
  /\ UNCHANGED <<vars, files, revokes, crashes, parted>>

(* saveSession of passwordLogin. *)
SaveSession(b) ==
  /\ CanStep(b) /\ stage[b] = "saving"
  /\ sessionFile' = mem[b].tok
  /\ To(b, "whoami")
  /\ UNCHANGED <<vars, deviceFile, store, server, mem, revokes, crashes, parted>>

WhoAmI(b) ==
  /\ CanStep(b) /\ stage[b] = "whoami"
  /\ To(b, IF valid[mem[b].tok.dev] = mem[b].tok.n THEN "opening" ELSE "relogin")
  /\ UNCHANGED <<vars, files, server, mem, revokes, crashes, parted>>

(* The device the session refresh handler asks for. *)
ReloginAnyDevice == 0

ReloginDevice == IF sessionFile # NoToken THEN sessionFile.dev ELSE deviceFile

(* createSessionRefreshHandler, called by MatrixHttp: the files are read   *)
(* anew, in create() and at any time later.  (A refresh token that works   *)
(* gives a token of the same device.)                                      *)
Relogin(b) ==
  /\ CanStep(b) /\ stage[b] = "relogin"
  /\ GrantToken(b, ReloginDevice, "resaving")
  /\ UNCHANGED <<vars, files, revokes, crashes, parted>>

(* ... saveSession and savePersistedDeviceId. *)
ReloginSaved(b) ==
  /\ CanStep(b) /\ stage[b] = "resaving"
  /\ sessionFile' = mem[b].tok
  /\ deviceFile' = mem[b].tok.dev
  /\ To(b, IF mem[b].dev = 0 THEN "whoami" ELSE "running")
  /\ UNCHANGED <<vars, store, server, mem, revokes, crashes, parted>>

(* The handler gives up: create() clears the session and logs in itself,   *)
(* with the device of the session it had; a running bot ends (onFatal).    *)
ReloginFails(b) ==
  /\ CanStep(b) /\ stage[b] = "relogin"
  /\ IF mem[b].dev = 0
     THEN /\ sessionFile' = NoToken
          /\ mem' = [mem EXCEPT ![b].pref = mem[b].tok.dev]
          /\ To(b, "login")
     ELSE To(b, "failed") /\ UNCHANGED <<sessionFile, mem>>
  /\ UNCHANGED <<vars, deviceFile, store, server, revokes, crashes, parted>>

(* create() throws on the way, whatever has been written stays. *)
CreateThrows(b) ==
  /\ CanStep(b) /\ stage[b] \in {"login", "whoami", "opening", "relocating"}
  /\ stage[b] = "opening" => store \notin {0, mem[b].tok.dev}
  /\ To(b, "idle")
  /\ mem' = [mem EXCEPT ![b] = NoMem]
  /\ UNCHANGED <<vars, files, server, revokes, crashes, parted>>

(* Engine.create with the device that whoami named; a crypto store of      *)
(* another device is refused.                                              *)
OpenCrypto(b) ==
  /\ CanStep(b) /\ stage[b] = "opening"
  /\ store \in {0, mem[b].tok.dev}
  /\ store' = mem[b].tok.dev
  /\ mem' = [mem EXCEPT ![b].dev = mem[b].tok.dev]
  /\ To(b, "persisting")
  /\ UNCHANGED <<vars, sessionFile, deviceFile, server, revokes, crashes, parted>>

(* savePersistedDeviceId left out. *)
PersistNothing(b) ==
  /\ CanStep(b) /\ stage[b] = "persisting"
  /\ To(b, "locking")
  /\ OpenStores(b)
  /\ UNCHANGED <<files, server, mem, revokes, crashes, parted>>

(* savePersistedDeviceId; createMatrixClient returns. *)
PersistDevice(b) ==
  /\ stage[b] = "persisting"
  /\ deviceFile' = mem[b].dev
  /\ To(b, "locking")
  /\ OpenStores(b)
  /\ UNCHANGED <<sessionFile, store, server, mem, revokes, crashes, parted>>

(* Bot.create goes on to the lock. *)
TakeLock(b) ==
  /\ stage[b] = "locking"
  /\ AcquireOwnPid(b) \/ AcquireBusy(b) \/ AcquireRead(b) \/ AcquireWrite(b)
  /\ UNCHANGED boot

LockRefused(b) ==
  /\ GiveUp(b)
  /\ To(b, "idle")
  /\ mem' = [mem EXCEPT ![b] = NoMem]
  /\ UNCHANGED <<files, server, revokes, crashes, parted>>

(* start(): verifyCryptoContract compares the device of whoami, if the     *)
(* token is good, with the one of the engine.                              *)
StartBot(b) ==
  /\ CanStep(b) /\ state[b] = "held" /\ stage[b] = "locking"
  /\ LET good == valid[mem[b].tok.dev] = mem[b].tok.n
     IN To(b, IF ~good THEN "relogin" ELSE IF mem[b].tok.dev = mem[b].dev THEN "running" ELSE "failed")
  /\ UNCHANGED <<vars, files, server, mem, revokes, crashes, parted>>

(* A request of a running bot finds its token gone. *)
AuthFails(b) ==
  /\ CanStep(b) /\ stage[b] = "running"
  /\ valid[mem[b].tok.dev] # mem[b].tok.n
  /\ To(b, "relogin")
  /\ UNCHANGED <<vars, files, server, mem, revokes, crashes, parted>>

(* pruneOtherDevices: what a bot may delete is every device but its own,   *)
(* all of them or the ones idle for long.                                  *)
Prunable(b) == (1..known) \ {mem[b].dev}

(* maybePruneOtherDevicesOnStart, once started and then at intervals: the  *)
(* tokens of the deleted devices are gone, and an error only warns.        *)
PruneOtherDevices(b, victims) ==
  /\ CanStep(b) /\ stage[b] = "running"
  /\ valid[mem[b].tok.dev] = mem[b].tok.n
  /\ victims # {} /\ victims \subseteq Prunable(b)
  /\ valid' = [d \in Devices |-> IF d \in victims THEN 0 ELSE valid[d]]
  /\ UNCHANGED <<vars, files, minted, known, stage, mem, revokes, crashes, parted>>

(* stop() *)
StopBot(b) ==
  /\ stage[b] \in {"running", "failed"}
  /\ ReleaseRead(b)
  /\ To(b, "idle")
  /\ mem' = [mem EXCEPT ![b] = NoMem]
  /\ UNCHANGED <<files, server, revokes, crashes, parted>>

Unlink(b) == ReleaseUnlink(b) /\ UNCHANGED boot

(* relocateSession, the operator's repair while no bot is up: wipe the      *)
(* crypto store, clear the session, log in with the old device.             *)
Relocate(b) ==
  /\ CanStep(b) /\ state[b] = "off"
  /\ \A c \in Bots : stage[c] = "idle"
  /\ store' = 0 /\ sessionFile' = NoToken
  /\ mem' = [mem EXCEPT ![b].pref = ReloginDevice]
  /\ To(b, "relocating")
  /\ UNCHANGED <<vars, deviceFile, server, revokes, crashes, parted>>

RelocateLogin(b) ==
  /\ CanStep(b) /\ stage[b] = "relocating"
  /\ GrantToken(b, mem[b].pref, "relocated")
  /\ UNCHANGED <<vars, files, revokes, crashes, parted>>

RelocateSave(b) ==
  /\ CanStep(b) /\ stage[b] = "relocated"
  /\ sessionFile' = mem[b].tok /\ deviceFile' = mem[b].tok.dev
  /\ mem' = [mem EXCEPT ![b] = NoMem]
  /\ To(b, "idle")
  /\ UNCHANGED <<vars, store, server, revokes, crashes, parted>>

-----------------------------------------------------------------------------
(* The homeserver takes a token back. *)
RevokeToken(d) ==
  /\ revokes < MaxRevokes /\ valid[d] # 0
  /\ revokes' = revokes + 1
  /\ valid' = [valid EXCEPT ![d] = 0]
  /\ UNCHANGED <<vars, files, minted, known, stage, mem, crashes, parted>>

SpawnProcess(p) == Spawn(p) /\ UNCHANGED boot

CrashProcess(p) ==
  /\ crashes < MaxCrashes
  /\ crashes' = crashes + 1
  /\ Crash(p)
  /\ stage' = [b \in Bots |-> IF PidOf[b] = p THEN "idle" ELSE stage[b]]
  /\ mem' = [b \in Bots |-> IF PidOf[b] = p THEN NoMem ELSE mem[b]]
  /\ parted' = IF \E b \in Bots : PidOf[b] = p /\ stage[b] = "persisting" /\ deviceFile # mem[b].dev
               THEN parted \cup {"crash"} ELSE parted
  /\ UNCHANGED <<files, server, revokes>>

BootNext ==
  \/ \E b \in Bots :
       \/ CreateStart(b) \/ ReuseOrLogin(b) \/ PasswordLogin(b) \/ SaveSession(b) \/ WhoAmI(b)
       \/ Relogin(b) \/ ReloginSaved(b) \/ ReloginFails(b) \/ CreateThrows(b)
       \/ OpenCrypto(b) \/ PersistDevice(b) \/ TakeLock(b) \/ LockRefused(b)
       \/ StartBot(b) \/ AuthFails(b) \/ StopBot(b) \/ Unlink(b)
       \/ Relocate(b) \/ RelocateLogin(b) \/ RelocateSave(b)
       \/ \E victims \in SUBSET Devices : PruneOtherDevices(b, victims)
  \/ \E p \in Pids : SpawnProcess(p) \/ CrashProcess(p)
  \/ \E d \in Devices : RevokeToken(d)

BootSpec == BootInit /\ [][BootNext]_allVars

-----------------------------------------------------------------------------
(* A running bot sends with a token of the device its crypto store belongs  *)
(* to, through re-logins and other bots on the same directory.              *)
TokenMatchesStore == \A b \in Bots : stage[b] = "running" => "overlap" \in parted \/ mem[b].tok.dev = mem[b].dev

(* Whatever fails where, the next create() gets a token of the device the   *)
(* crypto store belongs to, so the store stays usable.  Two things part     *)
(* them: creates that overlap before device.json exists, and a process that *)
(* dies between creating the store and writing device.json.                 *)
StoreReopens ==
  store # 0 /\ parted = {} /\ (\A b \in Bots : stage[b] # "persisting") =>
    store = (IF sessionFile # NoToken THEN sessionFile.dev ELSE deviceFile)
=============================================================================
