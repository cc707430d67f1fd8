---------------------------- MODULE Persistence ----------------------------
(***************************************************************************)
(* What the companion keeps between its runs, and how it can lose it: the  *)
(* configuration file (src/config.rs), the pairing token in the OS         *)
(* credential store (src/credential_store.rs) and the paired-device file   *)
(* (src/devices.rs), each replaced atomically or not at all.               *)
(*                                                                         *)
(* A process is one run of the program: the tray (src/main.rs,             *)
(* src/tray.rs), a second instance that ends at the single-instance lock,  *)
(* or the installer's --prepare-install-config.  Its main thread performs  *)
(* one access to a store in a step; other processes, the notifier thread   *)
(* of an approved dialog and the person who edits the file run between the *)
(* steps.  A process may be killed anywhere.  A refused access to a store  *)
(* is a fault, and the faults are bounded.                                 *)
(***************************************************************************)
EXTENDS Integers, FiniteSets

CONSTANTS
  Process,              \* runs of the program that may exist at one time
  Device,               \* device ids handed out to phones
  NoProcess,            \* nobody holds the single-instance lock
  Missing, Corrupt,     \* a configuration file that is not there, or not JSON
  MAX_FAULTS,           \* bound on refused accesses to a store
  MAX_EVENTS            \* bound on starts, on choices made in the tray, on what
                        \* is done to the stores from outside, and on faults,
                        \* together

ASSUME ProcessAssumption == NoProcess \notin Process
ASSUME BoundAssumption == MAX_EVENTS \in Nat /\ MAX_FAULTS \in Nat

\* Pairing tokens are uuids, never minted twice: they are numbered.
NoToken == 0

\* reachable stands for allow_remote_connections and allow_discovery, launch
\* for launch_on_startup, granted for the two allow_..._commands.
Config == [token: Nat, storage: {"keyring", "file"},
           reachable: BOOLEAN, launch: BOOLEAN, granted: BOOLEAN]
ASSUME FileAssumption ==
  Missing \notin Config /\ Corrupt \notin Config /\ Missing # Corrupt

VARIABLES
  keyring,      \* the entry of the OS credential store
  file,         \* wakemate.config.json
  deviceFile,   \* wakemate.devices.json
  minted,       \* how many tokens were minted so far
  instance,     \* the holder of the single-instance mutex
  task,         \* what the main thread of each process is doing
  memory,       \* the SharedConfig of each process
  unseen,       \* the file's time differs from last_config_modified
  registry,     \* the DeviceRegistry of each process
  approving,    \* how many notifier threads were answered with Yes, and have
                \* not yet granted the capabilities
  events, faults,   \* what the bounds count
  retired,      \* history: tokens that a saved rotation or reset replaced
  granted,      \* history: an approval is the last decision on capabilities
  paired,       \* history: approved devices that were not revoked since
  mishap        \* history: kinds of faults and races that have happened

storeVars == <<keyring, file, deviceFile, minted>>
trayVars == <<memory, unseen, registry, approving>>
boundVars == <<events, faults>>
historyVars == <<retired, granted, paired, mishap>>
vars == <<storeVars, instance, task, trayVars, boundVars, historyVars>>

Mishaps == {"credential", "config", "devices", "damage", "lock",
            "credential race", "config race", "missed change",
            "capability edit"}

Default == [token |-> NoToken, storage |-> "file", reachable |-> FALSE,
            launch |-> TRUE, granted |-> FALSE]
BugInstallPosture(c) ==
  [c EXCEPT !.reachable = TRUE, !.launch = TRUE, !.granted = TRUE]

InstallPosture(c) == [c EXCEPT !.reachable = TRUE, !.launch = TRUE]

\* A token that lives in the credential store is blanked in the file.
OnDisk(c) == IF c.storage = "keyring" THEN [c EXCEPT !.token = NoToken] ELSE c

LoadPC == {"read", "hydrate", "store", "save"}
PC == LoadPC \cup {"off", "posture", "lock", "registry", "idle", "assign",
                   "rotateSave", "rotateRevoke", "resetDelete"}

\* A task: the operation and where it stands, the configuration it works on,
\* the one it began with, load_or_create's recovered_from_error, and (history)
\* whether a store has changed since it was read.
Task == [op: {"none", "start", "prepare", "reload", "rotate", "reset"}, at: PC,
         draft: Config, before: Config, recovered: BOOLEAN, stale: BOOLEAN]
NewTask(o, pc, c) == [op |-> o, at |-> pc, draft |-> Default, before |-> c,
                      recovered |-> FALSE, stale |-> FALSE]
Off == NewTask("none", "off", Default)
Idle == NewTask("none", "idle", Default)

TypeOK ==
  /\ keyring \in Nat /\ minted \in Nat
  /\ file \in Config \cup {Missing, Corrupt}
  /\ deviceFile \in SUBSET Device
  /\ instance \in Process \cup {NoProcess}
  /\ task \in [Process -> Task]
  /\ memory \in [Process -> Config] /\ unseen \in [Process -> BOOLEAN]
  /\ registry \in [Process -> SUBSET Device]
  /\ approving \in [Process -> Nat]
  /\ events \in Nat /\ faults \in Nat
  /\ retired \in SUBSET Nat /\ granted \in BOOLEAN /\ paired \in SUBSET Device
  /\ mishap \in SUBSET Mishaps

At(p) == task[p].at
\* The tray's event loop and its notifier threads run.
Running(p) == At(p) = "idle" \/ task[p].op \in {"reload", "rotate", "reset"}
\* The main thread holds the SharedConfig mutex across steps.
ConfigLocked(p) ==
  At(p) = "rotateSave" \/ (task[p].op = "reset" /\ At(p) # "resetDelete")

\* Nothing runs, or a tray is at rest with its token in the credential store.
Init ==
  /\ \/ file = Missing /\ keyring = NoToken /\ minted = 0     \* first start
     \/ /\ file = [Default EXCEPT !.token = 1]    \* token still in the file
        /\ keyring = NoToken /\ minted = 1
     \/ /\ file = [Default EXCEPT !.storage = "keyring"]
        /\ keyring = 1 /\ minted = 1
  /\ instance \in Process \cup {NoProcess}
  /\ instance # NoProcess => keyring # NoToken
  /\ task = [p \in Process |-> IF p = instance THEN Idle ELSE Off]
  /\ memory = [p \in Process |-> IF p = instance THEN [file EXCEPT !.token = keyring]
                                 ELSE Default]
  /\ deviceFile = {} /\ registry = [p \in Process |-> {}]
  /\ unseen = [p \in Process |-> FALSE]
  /\ approving = [p \in Process |-> 0]
  /\ events = 0 /\ faults = 0
  /\ retired = {} /\ granted = FALSE /\ paired = {} /\ mishap = {}

---------------------------------------------------------------------------
(* Accesses to the stores, each with its outcome *)

Room == events + faults < MAX_EVENTS
Event == Room /\ events' = events + 1

NoFault == UNCHANGED <<faults, mishap>>
Fault(kind) ==
  /\ Room /\ faults < MAX_FAULTS
  /\ faults' = faults + 1
  /\ mishap' = mishap \cup {kind}

\* A write that carries what was read before somebody else's change.
Race(overwrites, kind) ==
  /\ mishap' = IF overwrites THEN mishap \cup {kind} ELSE mishap
  /\ UNCHANGED faults

Step(p, t) == task' = [task EXCEPT ![p] = t]
Goto(p, pc) == Step(p, [task[p] EXCEPT !.at = pc])

\* A thread that changes a store makes every load under way stale.
Outdated(t) ==
  IF t.op \in {"start", "prepare", "reload"} THEN [t EXCEPT !.stale = TRUE]
  ELSE t
ChangeStep(p, t) ==
  task' = [q \in Process |-> IF q = p THEN t ELSE Outdated(task[q])]

\* AppConfig::save_to_path renames over the file, or leaves it as it was.
ReplaceFile(c) ==
  /\ file' = OnDisk(c)
  /\ unseen' = [q \in Process |-> Running(q)]
KeepFile == UNCHANGED <<file, unseen>>

\* DeviceRegistry::save logs a failure and goes on.
SaveRegistry(devices) ==
  \/ deviceFile' = devices /\ NoFault
  \/ UNCHANGED deviceFile /\ Fault("devices")

\* revoke_all returns early when there is nothing in memory.
RevokeAll(p) ==
  /\ registry' = [registry EXCEPT ![p] = {}]
  /\ IF registry[p] = {} THEN UNCHANGED deviceFile /\ NoFault
     ELSE SaveRegistry({})
  /\ paired' = {}

---------------------------------------------------------------------------
(* load_or_create_from_path: at the start of every process, and in a       *)
(* reload of the tray                                                      *)

Start(p) ==
  /\ At(p) = "off" /\ Event
  /\ \E o \in {"start", "prepare"} : Step(p, NewTask(o, "read", Default))
  /\ UNCHANGED <<storeVars, instance, trayVars, faults, historyVars>>

BugReadFile(p) ==
  /\ At(p) = "read"
  /\ NoFault
  /\ Step(p, [task[p] EXCEPT !.at = "hydrate",
        !.draft = IF file = Corrupt THEN InstallPosture(Default) ELSE file])
  /\ UNCHANGED <<storeVars, instance, trayVars, retired, granted, paired,
                 events>>

\* A file that cannot be read or parsed is replaced by the defaults with the
\* install posture; one that is not there by the defaults.
ReadFile(p) ==
  /\ At(p) = "read"
  /\ \E readable \in BOOLEAN :
       LET bad == ~readable \/ file = Corrupt
       IN /\ IF readable THEN NoFault ELSE file # Missing /\ Fault("damage")
          /\ Step(p, [task[p] EXCEPT !.at = "hydrate", !.recovered = bad,
                !.draft = IF bad THEN InstallPosture(Default)
                          ELSE IF file = Missing THEN Default ELSE file])
  /\ UNCHANGED <<storeVars, instance, trayVars, retired, granted, paired,
                 events>>

\* hydrate_token, first half: the entry of the credential store wins; without
\* one, or when the store does not answer, the draft's own token is kept, or a
\* fresh one minted.
HydrateLoad(p) ==
  /\ At(p) = "hydrate"
  /\ \/ /\ keyring # NoToken
        /\ Step(p, [task[p] EXCEPT !.at = "save", !.draft.token = keyring,
                                   !.draft.storage = "keyring"])
        /\ UNCHANGED minted /\ NoFault
     \/ /\ IF keyring = NoToken THEN NoFault ELSE Fault("credential")
        /\ IF task[p].draft.token = NoToken
           THEN /\ minted' = minted + 1
                /\ Step(p, [task[p] EXCEPT !.at = "store",
                                           !.draft.token = minted + 1])
           ELSE UNCHANGED minted /\ Goto(p, "store")
  /\ UNCHANGED <<keyring, file, deviceFile, instance, trayVars, retired,
                 granted, paired, events>>

\* hydrate_token, second half: the token moves into the credential store, or
\* stays in the file.  It is an old one when it was read before it was replaced,
\* or while it is.
HydrateStore(p) ==
  LET token == task[p].draft.token
      old == \/ task[p].stale
             \/ \E q \in Process : ConfigLocked(q) /\ task[q].before.token = token
      kept(place) == [task[p] EXCEPT !.at = "save", !.draft.storage = place]
  IN /\ At(p) = "store"
     /\ \/ /\ keyring' = token
           /\ Race(old /\ keyring # token, "credential race")
           /\ Step(p, kept("keyring"))
        \/ UNCHANGED keyring /\ Fault("credential") /\ Step(p, kept("file"))
     /\ UNCHANGED <<file, deviceFile, minted, instance, trayVars, retired,
                    granted, paired, events>>

\* What a load does once it has saved, or has failed to: a failure ends the
\* process at its start, and is overlooked when the load had to recover.
AfterSave(t, saved) ==
  IF ~saved /\ ~t.recovered THEN IF t.op = "reload" THEN Idle ELSE Off
  ELSE [t EXCEPT !.at = CASE t.op = "start" -> "lock"
                          [] t.op = "prepare" -> "posture"
                          [] OTHER -> "assign"]
SaveLoaded(p) ==
  LET t == task[p]
  IN /\ t.at = "save" /\ t.op # "reset"
     /\ \/ /\ ReplaceFile(t.draft)
           /\ Race(t.stale /\ file # OnDisk(t.draft), "config race")
           /\ Step(p, AfterSave(t, TRUE))
        \/ KeepFile /\ Fault("config") /\ Step(p, AfterSave(t, FALSE))
     /\ UNCHANGED <<keyring, deviceFile, minted, instance, memory, registry,
                    approving, retired, granted, paired, events>>

\* prepare_install_config_at_path saves a second time, and the installer ends.
PrepareInstall(p) ==
  LET c == InstallPosture(task[p].draft)
  IN /\ At(p) = "posture"
     /\ \/ ReplaceFile(c) /\ Race(task[p].stale /\ file # OnDisk(c), "config race")
        \/ KeepFile /\ Fault("config")
     /\ Step(p, Off)
     /\ UNCHANGED <<keyring, deviceFile, minted, instance, memory, registry,
                    approving, retired, granted, paired, events>>

\* Only now is the single-instance lock asked for.  A second instance ends; a
\* failure of the lock itself is overlooked.
AcquireInstance(p) ==
  /\ At(p) = "lock"
  /\ \/ /\ instance = NoProcess
        /\ instance' = p
        /\ Goto(p, "registry") /\ NoFault
     \/ /\ instance # NoProcess
        /\ Step(p, Off) /\ NoFault /\ UNCHANGED instance
     \/ Goto(p, "registry") /\ Fault("lock") /\ UNCHANGED instance
  /\ UNCHANGED <<storeVars, trayVars, retired, granted, paired, events>>

\* DeviceRegistry::load_from_path: without a readable file nobody is paired.
LoadRegistry(readable) == IF readable THEN deviceFile ELSE {}

\* TrayApp::new loads the registry, and takes the configuration file as it is
\* by now for the one that was loaded.
StartTray(p) ==
  LET missed == task[p].stale \/ file # OnDisk(task[p].draft)
  IN /\ At(p) = "registry"
     /\ memory' = [memory EXCEPT ![p] = task[p].draft]
     /\ unseen' = [unseen EXCEPT ![p] = FALSE]
     /\ \E readable \in BOOLEAN :
          /\ registry' = [registry EXCEPT ![p] = LoadRegistry(readable)]
          /\ IF readable THEN UNCHANGED faults
             ELSE Room /\ faults < MAX_FAULTS /\ faults' = faults + 1
          /\ mishap' = mishap \cup (IF readable THEN {} ELSE {"devices"})
                              \cup (IF missed THEN {"missed change"} ELSE {})
     /\ Step(p, Idle)
     /\ UNCHANGED <<storeVars, instance, approving, retired, granted, paired,
                    events>>

\* A quit, a logoff, a power cut: memory is gone, the stores are as they are.
Stop(p) ==
  /\ At(p) # "off"
  /\ Step(p, Off)
  /\ instance' = IF instance = p THEN NoProcess ELSE instance
  /\ memory' = [memory EXCEPT ![p] = Default]
  /\ approving' = [approving EXCEPT ![p] = 0]
  /\ registry' = [registry EXCEPT ![p] = {}]
  /\ unseen' = [unseen EXCEPT ![p] = FALSE]
  /\ UNCHANGED <<storeVars, boundVars, historyVars>>

---------------------------------------------------------------------------
(* The tray: rotation, reset, startup setting, revocation, reload *)

\* rotate_api_token under the config mutex.  A store that refuses the new
\* token keeps the old one.
RotateToken(p) ==
  LET rotated(place) ==
        [memory[p] EXCEPT !.token = minted + 1, !.storage = place]
  IN /\ At(p) = "idle" /\ Event
     /\ minted' = minted + 1
     /\ \/ /\ keyring' = minted + 1 /\ NoFault
           /\ memory' = [memory EXCEPT ![p] = rotated("keyring")]
        \/ /\ UNCHANGED keyring /\ Fault("credential")
           /\ memory' = [memory EXCEPT ![p] = rotated("file")]
     /\ ChangeStep(p, NewTask("rotate", "rotateSave", memory[p]))
     /\ UNCHANGED <<file, deviceFile, instance, unseen, registry, approving,
                    retired, granted, paired>>

\* A save that fails ends the rotation before any phone is revoked.
SaveRotation(p) ==
  /\ At(p) = "rotateSave"
  /\ \/ /\ ReplaceFile(memory[p]) /\ NoFault
        /\ retired' = retired \cup {task[p].before.token}
        /\ ChangeStep(p, [task[p] EXCEPT !.at = "rotateRevoke"])
     \/ /\ KeepFile /\ Fault("config")
        /\ UNCHANGED retired /\ Step(p, Idle)
  /\ UNCHANGED <<keyring, deviceFile, minted, instance, memory, registry,
                 approving, granted, paired, events>>

RevokeRotated(p) ==
  /\ At(p) = "rotateRevoke"
  /\ RevokeAll(p)
  /\ Step(p, Idle)
  /\ UNCHANGED <<keyring, file, minted, instance, memory, unseen, approving,
                 retired, granted, events>>

\* reset_companion: every phone is revoked before the config mutex is taken.
ResetRegistry(p) ==
  /\ At(p) = "idle" /\ Event
  /\ RevokeAll(p)
  /\ Step(p, NewTask("reset", "resetDelete", Default))
  /\ UNCHANGED <<keyring, file, minted, instance, memory, unseen, approving,
                 retired, granted>>

BugResetDelete(p) ==
  /\ At(p) = "resetDelete"
  /\ ChangeStep(p, NewTask("reset", "hydrate", memory[p]))
  /\ NoFault
  /\ UNCHANGED <<keyring, file, deviceFile, minted, instance, trayVars, retired,
                 granted, paired, events>>

\* reset_to_defaults: the entry is deleted, or a failure logged, and the
\* token hydrated (HydrateLoad, HydrateStore) on top of the defaults.
ResetDelete(p) ==
  /\ At(p) = "resetDelete"
  /\ \/ keyring' = NoToken /\ NoFault
     \/ UNCHANGED keyring /\ Fault("credential")
  /\ ChangeStep(p, NewTask("reset", "hydrate", memory[p]))
  /\ UNCHANGED <<file, deviceFile, minted, instance, trayVars, retired,
                 granted, paired, events>>

\* The memory is reset whether the save succeeds or not.
SaveReset(p) ==
  /\ At(p) = "save" /\ task[p].op = "reset"
  /\ memory' = [memory EXCEPT ![p] = task[p].draft]
  /\ \/ /\ ReplaceFile(task[p].draft) /\ NoFault
        /\ retired' = retired \cup {task[p].before.token}
        /\ granted' = FALSE
     \/ KeepFile /\ Fault("config") /\ UNCHANGED <<retired, granted>>
  /\ ChangeStep(p, Idle)
  /\ UNCHANGED <<keyring, deviceFile, minted, instance, registry, approving,
                 paired, events>>

\* toggle_launch_on_startup, once the OS has taken the new setting.
ToggleLaunch(p) ==
  LET next == [memory[p] EXCEPT !.launch = ~@]
  IN /\ At(p) = "idle" /\ Event
     /\ memory' = [memory EXCEPT ![p] = next]
     /\ \/ ReplaceFile(next) /\ NoFault
        \/ KeepFile /\ Fault("config")
     /\ ChangeStep(p, Idle)
     /\ UNCHANGED <<keyring, deviceFile, minted, instance, registry,
                    approving, retired, granted, paired>>

BugRevokeDevice(p, d) ==
  /\ At(p) = "idle" /\ d \in registry[p] /\ Event
  /\ registry' = [registry EXCEPT ![p] = @ \ {d}]
  /\ paired' = paired \ {d}
  /\ NoFault
  /\ UNCHANGED <<storeVars, instance, task, memory, unseen, approving, retired,
                 granted>>

RevokeDevice(p, d) ==
  /\ At(p) = "idle" /\ d \in registry[p] /\ Event
  /\ registry' = [registry EXCEPT ![p] = @ \ {d}]
  /\ SaveRegistry(registry[p] \ {d})
  /\ paired' = paired \ {d}
  /\ UNCHANGED <<keyring, file, minted, instance, task, memory, unseen,
                 approving, retired, granted>>

\* reload_config_if_changed: the file's time is recorded and the memory copied
\* before the file is read.  The load's own save changes the time again.
BeginReload(p) ==
  /\ At(p) = "idle" /\ unseen[p]
  /\ unseen' = [unseen EXCEPT ![p] = FALSE]
  /\ Step(p, NewTask("reload", "read", memory[p]))
  /\ UNCHANGED <<storeVars, instance, memory, registry, approving, boundVars,
                 historyVars>>

BugAssignReload(p) ==
  LET t == task[p]
  IN /\ t.at = "assign"
     /\ IF t.draft = t.before THEN UNCHANGED memory
        ELSE memory' = [memory EXCEPT ![p] = t.draft]
     /\ Race(t.stale /\ t.draft # t.before, "config race")
     /\ unseen' = [unseen EXCEPT ![p] = FALSE]
     /\ Step(p, Idle)
     /\ UNCHANGED <<storeVars, instance, registry, approving, retired, granted,
                    paired, events>>

\* What was read replaces the memory if it differs from the copy.
AssignReload(p) ==
  LET t == task[p]
  IN /\ t.at = "assign"
     /\ IF t.draft = t.before THEN UNCHANGED memory
        ELSE memory' = [memory EXCEPT ![p] = t.draft]
     /\ Race(t.stale /\ t.draft # t.before, "config race")
     /\ Step(p, Idle)
     /\ UNCHANGED <<storeVars, instance, unseen, registry, approving, retired,
                    granted, paired, events>>

---------------------------------------------------------------------------
(* The notifier threads of approved dialogs, and the outside world *)

\* A Yes to a dialog without an enrollment, or with one that has expired,
\* registers nobody; the capabilities are granted all the same.
ApproveNobody(p) ==
  /\ Running(p) /\ Event
  /\ approving' = [approving EXCEPT ![p] = @ + 1]
  /\ UNCHANGED <<storeVars, instance, task, memory, unseen, registry, faults,
                 historyVars>>

\* commit_valid registers the phone under the registry mutex.
RegisterDevice(p, d) ==
  /\ Running(p) /\ d \notin paired /\ Event
  /\ registry' = [registry EXCEPT ![p] = @ \cup {d}]
  /\ SaveRegistry(registry[p] \cup {d})
  /\ paired' = paired \cup {d}
  /\ approving' = [approving EXCEPT ![p] = @ + 1]
  /\ UNCHANGED <<keyring, file, minted, instance, task, memory, unseen,
                 retired, granted>>

\* The capabilities are granted and saved in one hold of the config mutex.
GrantCapabilities(p) ==
  LET next == [memory[p] EXCEPT !.granted = TRUE]
  IN /\ approving[p] > 0 /\ ~ConfigLocked(p)
     /\ memory' = [memory EXCEPT ![p] = next]
     /\ \/ ReplaceFile(next) /\ NoFault
        \/ KeepFile /\ Fault("config")
     /\ granted' = TRUE
     /\ approving' = [approving EXCEPT ![p] = @ - 1]
     /\ ChangeStep(p, Outdated(task[p]))
     /\ UNCHANGED <<keyring, deviceFile, minted, instance, registry, retired,
                    paired, events>>

\* The person edits the file, its capabilities included, ruins it or removes
\* it.
EditFile ==
  /\ Event
  /\ \/ /\ file \in Config
        /\ file' = [file EXCEPT !.reachable = ~@]
        /\ UNCHANGED mishap
     \/ /\ file \in Config
        /\ file' = [file EXCEPT !.granted = ~@]
        /\ mishap' = mishap \cup {"capability edit"}
     \/ /\ file' \in {Missing, Corrupt} \ {file}
        /\ mishap' = mishap \cup {"damage"}
  /\ unseen' = [q \in Process |-> Running(q)]
  /\ UNCHANGED <<keyring, deviceFile, minted, instance, task, memory,
                 registry, approving, faults, retired, granted, paired>>

\* The credential is deleted in the OS's own credential manager.
DropCredential ==
  /\ Event /\ keyring # NoToken
  /\ keyring' = NoToken
  /\ UNCHANGED <<file, deviceFile, minted, instance, task, trayVars, faults,
                 historyVars>>

---------------------------------------------------------------------------

Load(p) ==
  ReadFile(p) \/ HydrateLoad(p) \/ HydrateStore(p) \/ SaveLoaded(p)
Launch(p) == PrepareInstall(p) \/ AcquireInstance(p) \/ StartTray(p)
Reload(p) == BeginReload(p) \/ AssignReload(p)
Rotate(p) == SaveRotation(p) \/ RevokeRotated(p)
Reset(p) == ResetDelete(p) \/ SaveReset(p)

Next ==
  \/ \E p \in Process :
       \/ Start(p) \/ Load(p) \/ Launch(p) \/ Reload(p) \/ Stop(p)
       \/ RotateToken(p) \/ Rotate(p)
       \/ ResetRegistry(p) \/ Reset(p)
       \/ ToggleLaunch(p)
       \/ ApproveNobody(p) \/ GrantCapabilities(p)
       \/ \E d \in Device : RegisterDevice(p, d) \/ RevokeDevice(p, d)
  \/ EditFile \/ DropCredential

Spec == Init /\ [][Next]_vars

\* A thread that has begun an operation is scheduled until it is done, and the
\* event loop polls the file.  Nobody is forced to start or to stop a process,
\* to choose a menu item or to edit a file.
Fairness ==
  \A p \in Process :
    WF_vars(Load(p) \/ Launch(p) \/ Reload(p) \/ Rotate(p) \/ Reset(p))

FairSpec == Spec /\ Fairness

---------------------------------------------------------------------------
(* Properties *)

\* A token that a rotation or a reset has replaced (rotate_pairing_token and
\* reset_companion in src/tray.rs) never becomes the token of a tray again,
\* over reloads, restarts, second instances and installers, unless the
\* credential store refused an access, a load that had read the old token
\* moved it into the store afterwards, or a second tray runs.
RetiredTokenStaysDead ==
  \/ mishap \cap {"credential", "credential race", "missed change", "lock"} # {}
  \/ \A p \in Process :
       Running(p) /\ ~ConfigLocked(p) => memory[p].token \notin retired

\* Both command capabilities are on in a tray exactly if an approval was the
\* last decision about them, and not a reset (windows_pairing_notifier and
\* reset_companion in src/tray.rs): no reload, restart or other process
\* withdraws or restores them, unless a person wrote them into the file, which
\* the reload takes over without a dialog, a save failed, the file was damaged
\* or overwritten by a load that had read an older one, or a second tray runs.
CapabilitiesFollowDecisions ==
  \/ mishap \cap {"config", "config race", "damage", "missed change", "lock",
                  "capability edit"} # {}
  \/ \A p \in Process :
       Running(p) /\ ~ConfigLocked(p) => memory[p].granted = granted

\* A tray lets in the phones that were approved and not revoked, no other, and
\* a restart finds the same phones (src/devices.rs), unless the device file
\* could not be read or written or a second tray runs.
RegistryIsDurable ==
  \/ mishap \cap {"devices", "lock"} # {}
  \/ /\ deviceFile = paired
     /\ \A p \in Process : Running(p) => registry[p] = paired

\* Once nobody changes anything, the tray's configuration and the file agree
\* for good (reload_config_if_changed in src/tray.rs): an edit is picked up or
\* overwritten, never left unseen, unless a save failed, the file changed
\* before TrayApp::new looked at its time, or a second tray runs.
MemoryAndFileConverge ==
  <>[](\/ mishap \cap {"config", "missed change", "lock"} # {}
       \/ \A p \in Process : Running(p) => file = OnDisk(memory[p]))

\* A tray has the capabilities on only after an approval (SECURITY_MODEL.md:
\* "even when enabled in config, still require the pairing approval"): a file
\* that says otherwise does not turn them on.
CapabilitiesNeedApproval ==
  \A p \in Process : Running(p) /\ memory[p].granted => granted

\* A token that hydrate_token or a rotation had to leave in the file, because
\* the credential store refused it, is still the token after the next reload
\* (src/config.rs: "the token stays in the config file").
FileTokenIsKept ==
  [][\A p \in Process :
       /\ AssignReload(p) /\ memory[p].storage = "file"
       /\ mishap = {"credential"}
       => memory'[p].token = memory[p].token]_vars
=============================================================================
