# WakeMATE Companion: TLA+ models, checks and proofs

WakeMATE Companion is a Windows tray program with an HTTP(S) server in it. A
phone scans a QR code, asks to be paired, a person answers a dialog on the
desktop, and from then on the phone may send input and power commands. This
directory models the parts of it in which several threads, several processes or
a crash between two writes decide what happens.

## 1. The system

| Part | Source | State | Operations |
| --- | --- | --- | --- |
| Pairing coordinator | `src/pairing.rs` | status (idle, pending, approved, denied), enrollment slot, session slot, `last_prompt_at` | `request_with_session`, `commit_valid`, `holds`, `mint`, `claimable`, `try_consume` |
| HTTP endpoints | `src/app.rs` | none of their own | `pairing_enroll`, `pairing_activate`, `pairing_status`, `pairing_check`, `wake`, `command`, `info` |
| Approval dialog | `src/tray.rs:1619` | one thread per prompt | show the hint, take the answer, commit, record, grant |
| Rate limiter | `src/security.rs` | an attempt record per address | `locked_out`, `record_failure`, `record_success` |
| Device registry | `src/devices.rs` | list of devices, `wakemate.devices.json` | `register_with_id`, `revoke`, `revoke_all`, `authenticate` |
| Configuration | `src/config.rs`, `src/credential_store.rs` | config in memory, file, token in the credential store | load, save, rotate, reset, install posture |
| Tray | `src/tray.rs` | server thread, popup, `startup_error`, time of the config file | QR popup, restart, rotate, revoke, reset, launch on startup, reload of a changed file, quit |
| Server thread | `src/main.rs`, `src/tray.rs:1462` | listeners, runtime, coordinator, limiter | spawn, shut down, restart, collect an unexpected end |
| TLS identity | `src/tls.rs` | certificate and key on disk | load or create |
| Commands | `src/app.rs`, `src/input.rs`, `src/secure_attention.rs`, `src/system.rs` | keys held down | keyboard, mouse, media, power, security screen |
| Discovery | `src/discovery.rs` | its UDP port | answer a probe |
| QR payload, rendering, types | `src/pairing_qr.rs`, ... | none | pure input and output |

How they interact. Handlers run in parallel on a multi-threaded tokio runtime.
An enrollment or activation goes through the limiter to the coordinator, which
puts the pending record into the enrollment slot, sets the status to pending
and spawns a dialog thread. That thread answers into the same slot and status,
writes the registry (its own mutex) and the configuration (another mutex). A
status read looks into the registry and then, holding it, into the slot. A
command works on a copy of the configuration that it takes at its start. The
tray thread mints session tokens, revokes phones, rewrites the configuration
and replaces the whole server, with its coordinator and its limiter, while
dialog threads of the old one live on. Every change of the configuration goes
to the file and comes back from it: the tray reloads a file whose time has
changed, its own saves included, and so does every process at its start, a
second instance and the installer's `--prepare-install-config` as well.

What is hard. No operation holds more than one of these mutexes, except the
status read (registry, then slot) and the prompt reservation (`last_prompt_at`,
then session); so between the checks of a request and what it does, between a
dialog's answer and its effects, and between the steps of a reset, a rotation
or a load, everything else may run. On top of that come three time limits (the
prompt cooldown of 10 s, the TTL of an enrollment, the TTL of a session token),
a person who may answer at any time or never, three stores of which each access
may fail, processes that may be killed between two of them, and one keyboard
for all handlers. `hazards` in `PROJECT.json` lists these by line.

What makes each part correct:

- *Coordinator and dialog*: an answer concerns the device it was asked about
  and nothing else; an approved enrollment is registered; one dialog at a time;
  Busy ends; a QR token is worth one prompt; prompts are spaced.
- *Status read*: a phone is not told "denied" and registered afterwards.
- *Limiter*: a bound on the guesses of one server run that holds for overlapping
  requests; a lockout that lasts while the server runs.
- *Registry, configuration*: what was revoked, reset or rotated away stays away
  over failures, reloads and restarts; a granted capability stays granted, and
  only an approval or a person who edits the file turns one on; memory and file
  agree in the end.
- *Tray and server*: one server at a time; the settings, the popup and the
  error that are shown belong to the server that runs; no join hangs.
- *Commands*: no effect without a credential and a capability; no key stays
  down; the answer of `security_screen` says what happened.

## 2. Modules

| Module | What it is |
| --- | --- |
| `Pairing` | coordinator, the two pairing endpoints, the per-device status read, the dialog threads, and the tray's operations on the same state |
| `Enrollment` | the abstract specification of pairing: the stages of one enrollment |
| `Access` | the abstract specification of authority: which phones are paired and which capabilities are on, and the steps that may change them |
| `PairingRefinement` | the refinement mappings from `Pairing` to `Enrollment` and to `Access` |
| `RateLimiter` | the lockout and `authenticate_inner` around it |
| `Persistence` | configuration file, credential store and device file under several processes |
| `Serving` | the tray's event loop, the server thread, the QR popup, TLS identity and discovery |
| `Commands` | the command handlers against the steps of `Access`, the tray and one keyboard |
| `MC...` | their TLC instances, with one `.cfg` per run |
| `...Proofs` | their theorems; those of `PairingRefinement` are in `EnrollmentProofs` and `AccessProofs` |

The modules meet in the state that they share, each at its own grain. In
`Pairing` the registry is a set that changes at once; `Persistence` opens its
save into memory and file. `Persistence` has the configuration's token,
capabilities and settings as fields; `Commands` has the token and capabilities
that a handler copies, `Serving` the settings that a server run takes. So each
hazard is checked where its interleavings are, with the rest of the program as
the environment. Between `Pairing` and `Commands` that environment is a
specification of its own: `Access` says which steps may change phones and
capabilities, `Pairing` is shown to take no others, and the environment of
`Commands` is built from its actions.

### Pairing

Each coordinator is a number in `1..MAX_SERVERS`; `server` is the running one.
`status`, `slot`, `session` and `lastPrompt` are functions of the coordinator,
because dialogs keep theirs through a restart. Device ids and session tokens
are model values that are never handed out twice (uuids in the code), so a
device stands for its id, its name and its token. `requestedAt` and `mintedAt`
hold the times that the records carry.

A request is a record with a program counter; its steps are the critical
sections of `request_with_session` in their order:

| Action | Code |
| --- | --- |
| `PairingEnroll`, `PairingActivate` | the handler up to the call, with a shared (or device) token or a claimable session token |
| `CheckStatus` | the Pending check, `pairing.rs:413` |
| `LockCooldown` | lock of `last_prompt_at`, the clock, the cooldown check, 421-437 |
| `ConsumeSession` | `try_consume`, the stamp, the unlock, 439-447 |
| `QueueEnrollment` | `enrollment.set`, 449 |
| `ShowPrompt` | `status.set(Pending)` and the spawned thread, 453-461 |

`status.set` and the spawn are one action: between them only the new thread is
missing, and its first step is an action of its own. `LockCooldown` keeps the
mutex (`CooldownLockFree`) until `ConsumeSession`. Busy, AwaitingApproval
without a prompt, and InvalidSession all end the request without an effect
(`Refuse`).

A dialog is a record of a thread: `ReadHint` (the name shown), the answer
(`AnswerNo`, `AnswerYes`), then `RecordDenial`, or the three sections of
`commit_valid` (`AnswerYes` clones the record if it has not expired,
`Register`, `Unqueue`), `RecordApproval` and `GrantCapabilities`. A status read
is `PollRegistry` and `PollSlot`; it holds the registry (`RegistryFree`) in
between. `MintSession`, `RevokeDevice`, `RevokeAll`, `ReloadConfig`,
`RestartServer` and the three `Reset...` actions are the tray's. A restart waits
for the requests of the old server, as joining its thread does. The two
capabilities are one record `allow`. A Yes sets both, a reset clears both, and
`ReloadConfig` takes over any of `Edited`, the capabilities that a reload may
find in the file: a person may have edited it, or the reload has read it before
a notifier saved its grant (the steps of that race are in `Persistence`).

`denied`, `resets`, and the fields `shown`, `claimed`, `cred` and `era` of a
dialog record what the properties speak of. `shown` stands for the name on the
screen and `claimed` for the record that the code has cloned.

`Enrollment` says what all this promises of one device id: it is asked about,
then refused or approved, registered, revoked, and never goes back.
`PairingRefinement` computes the stage from the registry and the dialogs:
registered is paired; claimed by a dialog and not registered is approved or
revoked; asked about and not claimed is asked or refused. A request alone has no
stage: only a dialog that is open asks.

`Access` forgets who was asked. A phone is new, paired or gone; a dialog is
open, granting or done; a Yes registers one new phone or, when there is no
enrollment or it has expired, nobody, and in both cases turns the capabilities
on once, later; a reset revokes all phones and then turns the capabilities off;
a reload sets them as the file has them, which asks nobody. Several dialogs may
be pending at a time, because those of a replaced server live on. A phone's
value is its stage with all that comes before the registration forgotten, and a
reset is between its two steps while `tray = "resetConfig"`.

### RateLimiter

One record per address; an absent entry is `NoAttempts`, from which
`locked_out` and `record_failure` behave the same. A request is checked
(`RefuseLockedOut` or `CompareCredential`) and later recorded
(`RecordFailure`, `RecordSuccess`); any number of other steps come in between.
Which credential is valid is left open, except that a `Stranger` never has one.
A restart starts a new limiter, and `guesses` belongs to a limiter: what the
module says of guesses and lockouts it says of one server run.

### Persistence

A process is one run of the program: the tray, a second instance that ends at
the single-instance lock, or the installer's helper. `task` holds what its main
thread is doing and with which draft of the configuration. Each step makes one
access to one store, and each access may be refused:

| Actions | Code |
| --- | --- |
| `ReadFile`, `HydrateLoad`, `HydrateStore`, `SaveLoaded` | `load_or_create_from_path`, `hydrate_token`, `save_to_path` |
| `PrepareInstall` | the second save of `prepare_install_config_at_path` |
| `AcquireInstance`, `StartTray` | `main` after the load, `TrayApp::new`, `DeviceRegistry::load_from_path` |
| `RotateToken`, `SaveRotation`, `RevokeRotated` | `rotate_pairing_token` |
| `ResetRegistry`, `ResetDelete`, `HydrateLoad`, `HydrateStore`, `SaveReset` | `reset_companion` |
| `BeginReload`, the load, `AssignReload` | `reload_config_if_changed` |
| `ToggleLaunch`, `RevokeDevice` | the menu items |
| `RegisterDevice`, `ApproveNobody`, `GrantCapabilities` | a notifier thread after a Yes, with an enrollment to commit or without |
| `Stop`, `EditFile`, `DropCredential` | the end of a process, the person, the OS |

A rename replaces the file or leaves it, so `file` is a configuration,
`Missing` or `Corrupt`. `OnDisk` blanks the token that the credential store
holds. `approving` counts the threads that have yet to grant. `unseen` is the
comparison of the file's time with
`last_config_modified`. At the start nothing runs, or a tray is at rest with its
token in the credential store. A person may edit the settings or the
capabilities (one flag here, for both), ruin the file or remove it; an edit of
the token itself is left out. `ConfigLocked` is the `SharedConfig` mutex where the
code keeps it over several steps. Tokens are numbers in the order they are
minted.

`retired`, `granted` and `paired` record what the person decided, and `mishap`
which faults and races have happened; a property excuses only the kinds it
names. `stale` marks a load that began before a store was changed by somebody
else: its write is then a `Race`.

### Serving

Server runs are numbered by generation. The stages of a run are the steps of
`run_server` in order: settings, TLS identity (read, then create), HTTP port,
discovery port, TLS port, serving, draining. The tray's event loop is `tray`:
while it is in a join (`restart`, `resetRestart`, `reload`, `exit`) it does
nothing else, and a message (`told`) lets the thread end. A run ends early when
a port is taken (`foreign`, or held by an older run), when the identity cannot
be read or written, when an address does not parse, or by `Fail`;
`NoticeFailure` is `refresh_server_health`. `PopupLoad` and `PopupSave` are the
same `load_or_create_at` on the tray's thread. Keys are numbered as they are
generated; `raced` records that both sides found no identity at the same time.
`behind` records the error returns that skip a restart: in `reset_companion` a
save that fails, or a refresh of tooltip or menu after it, in the reload a
failed `sync_launch_on_startup` or refresh of the tooltip.

### Commands

A handler arrives with a credential and a command, copies the configuration
(`TakeSnapshot`), is checked against the copy and the registry of the moment
(`Authorize`), and acts. `Act` is every effect of one call. `Press` and
`Release` are `key_press` key by key: a handler's own keys are `Pressed`, the
keys of the computer are `held`. `ReadPolicy`, `SendSas` and `ApplyFallback` are
`security_screen`. The environment takes the steps of `Access` for dialogs,
revocations, resets and reloads of edited capabilities, in the tray's order
(`rotating` and `resetting` say what is half done); besides, it replaces the
token and changes the machine's policy. Dialogs are open from the start, one for
each member of `Prompt`, and any number of them may be answered at once.

`since` records what was true of a request at some time between its arrival and
its check; `abandoned`, `shared`, `bare` and `typed` what happened to keys.

## 3. Properties

Each is stated in words above its definition.

*Pairing*: `PromptGrantsOnlyItsDevice`, `ApprovedPromptRegistersItsDevice`,
`OneDialogPerCoordinator`, `PendingMeansDialogOpen`, `TokenBuysOnePrompt`,
`CooldownSpacesPrompts`, `DeniedOnlyIfExpiredOrReplaced`, the liveness property
`AnswerFreesCoordinator`, and the refinements `ImplementsEnrollment` and
`ImplementsAccess`.

*Limiter*: `GuessesAreRationed` and `LockoutOnlyGrows`. The first gives the
number that the lockout really enforces. With 8 failures per window and n
requests in flight, a stranger gets at most 2(8 + n) - 3 bad credentials
compared in any 60 seconds of one server run: a sliding window overlaps two
fixed ones, and in each of them n - 1 requests may be past the check when the
last failure is recorded. With one less it is violated in the checked instance,
so the bound is exact there; that it is never exceeded is proved for every
instance (section 6). Both are about one server run. Every restart makes a new
`AppState` and a new limiter (`app.rs:45-60`), so that 60 seconds which overlap
a restart may hold the guesses of two budgets.

*Stores*: `RetiredTokenStaysDead`, `CapabilitiesFollowDecisions` and
`RegistryIsDurable` compare what the program runs with to what the person
decided, over any number of reloads, restarts and kills. Each names the mishaps
after which it is not promised, and none of them can be left out: without any
single one the property is violated in the instance of `stores`. They are the
honest form of promises that the code makes without conditions: with one refused
access to the credential store a replaced token can come back, with one refused
save of the device file a revoked phone can, and with an edit of the file the
capabilities are on without an approval. `MemoryAndFileConverge` is liveness: an
edit of the file is picked up or overwritten for good, although every reload
saves the file again and so causes another reload.

*Server*: `OneServer`, `ServerRunsCurrentSettings`, `PinShownIsServed` and
`NothingStaleAfterRestart` relate the server that runs to what the tray shows.
The last one also documents what a restart after a reload leaves behind: the
popup of the replaced coordinator and the error of the previous server.
`FailureIsNoticed` and `TrayNeverHangs` are liveness.

*Commands*: `ActedWithinAuthority` allows exactly the staleness the copy of the
configuration brings, a credential or capability withdrawn after the request
arrived. `HeldKeysAreOwned` and `ComboHasItsModifiers` say what two handlers can
do to each other's keys, and `SecurityScreenHonest` what an answer of
`security_screen` means. `SecureComboNeverTyped` holds for combinations of three
keys only: the filter in `is_secure_attention_combo` compares three parts, so
`ctrl+ctrl+alt+delete` is typed as Delete under Control and Alt.

Six runs check a sentence of the repository that the code does not keep; each
is quoted under `findings`:

- `stall`: the comments on the Pending check hold only if no request stalls for
  long between that check and `status.set(Pending)`. The exact condition is in
  section 6.
- `denial`: a status read can report a false denial when the enrollment expires
  during its registration.
- `reset`: a dialog that is open during a reset can register its phone after.
  The trace opens it between the two steps of the reset.
- `clear`: a success in flight clears a lockout.
- `rotated`: when the credential store refuses a rotated token, the file keeps
  it, and the reload that the save itself causes takes the old one from the
  store again.
- `edited`: the documents demand the desktop approval even when the capabilities
  are enabled in the file; the reload takes them over from it without a dialog.

## 4. Runs and bounds

| Run | Instance | Shows |
| --- | --- | --- |
| `prompts` | 2 requests, 2 dialogs, 2 devices, 2 session tokens, one server, clock to 3, cooldown 3, TTL of records 1 and of tokens 0, stall 1 | the safety of dialogs, one prompt per token, the proofs' invariant, the refinement of `Enrollment` |
| `tray` | 1 request, 2 dialogs, 1 device, 2 servers, 1 reset, reloads that enable input alone or disable both, with fairness | status reads, that Busy ends, both refinements |
| `stall` | cooldown 2, stall 2 | violation |
| `denial` | record TTL 1 | violation |
| `reset` | 1 reset | violation |
| `ration` | 2 requests, a stranger's and a phone's address, 2 failures per window, window and lockout 1, clock to 3, 2 servers | the two limiter properties and the invariant of their proofs |
| `clear` | the same | violation |
| `stores` | 2 processes, 1 device, 3 events of which 1 a refused access, with fairness | the four store properties |
| `rotated` | 1 process, 3 events of which 1 a refused access | violation |
| `edited` | 1 process, 1 event, no refused access | violation |
| `serving` | 3 settings, 3 server runs, 3 events, with fairness | the six server properties |
| `commands` | 2 requests, 1 phone, 2 dialogs, 6 combinations, 2 policies, 2 events | the five command properties |

Two requests and two dialogs of one coordinator are what every race in this code
needs; the clock bound of `prompts` lets a second prompt of the same coordinator
follow an expired record and a whole cooldown, and a QR code be minted while the
one before it is burned or has expired. A token lives for the tick it is minted
in, so that it may expire while a request that presents it stalls. Two devices tell a granted from an asked
one. Two servers are an old and a new coordinator. In `stores` an event is a
start, a choice, an edit or a fault. Because a tray may be at rest in the
initial state, three are a rotation, reset or approval beside a second process
that starts and a fault, or two decisions and a restart. One device is enough
because a registry operation is about one phone or about all. In `serving` the
settings are those of a reset, an installed and a TLS-only companion, and three
runs let a run be replaced twice. In `commands` the combinations are the empty
one, the secure attention sequence in another order, the same with a key twice,
two keys and a name that does not parse, a shortcut that shares Control with
them, and Delete alone; one request carries any of the commands, the other one
keys.

The deadlock check is off: bounded clocks, ids and events run out, and the
program may be idle for ever. Requests and dialogs are interchangeable, so the
safety runs of `Pairing` and `RateLimiter` use symmetry; runs that check
liveness do not. `commands` uses the symmetry of its dialogs; its requests are
told apart by what they may carry.

`MAX_NOW`, `MAX_SERVERS`, `MAX_RESETS`, `MAX_EVENTS`, `MAX_FAULTS` and the sets
of ids bound the runs only. An `Arrive` waits until a thread record is left for
it, which is a bound of the model as well; `Serving` accepts no restart at its
last generation.

## 5. Fairness

`Pairing`: `FairSpec` makes a dialog thread take its steps, once it has been
answered, and a status read finish: threads that hold or await only short
mutexes are scheduled. One condition of weak fairness for each thread is enough,
because a thread is at one step at a time. The answer itself is not fair: nobody
has to click. `Register` is strongly fair: it competes for the registry mutex
with status reads that hold it for two lookups, and a phone polls at intervals
of seconds, so the mutex is free most of the time although it is taken again and
again.

`Persistence`: the main thread of a process that has begun a load, a rotation or
a reset is scheduled until it is done, and the event loop, which ticks once a
second, looks at the file's time. A notifier thread need not come to its grant:
memory and file agree in the end without it. Nobody has to start or stop a
process, choose a menu item or edit the file.

`Serving`: the server run goes on to its next stage (a drain ends after 5 s at
the latest), and the event loop polls and returns from a join once the thread
has ended. Nobody has to click, and no server has to fail.

`Commands` and `RateLimiter` state safety only.

## 6. Proofs

TLAPS checks these for any number of requests, dialogs, devices, tokens,
processes, generations and events, and any time limits.

`PairingProofs`:

- `TypeCorrect`: the type invariant, with `ClaimInv` (a registering dialog has
  a device).
- `CooldownSafety`: prompts are `PROMPT_COOLDOWN` apart, without assumptions on
  stalls. The invariant (`LockInv`) says that the one request that holds
  `last_prompt_at` passed the cooldown against the stamp that is still there.
- `DialogInvariant` and from it `PromptSafety`, `ApprovalRegisters`,
  `OneDialog`, `PendingHasDialog`, under
  `ShortStall == 2 * MAX_STALL < PROMPT_COOLDOWN`.

The argument for the last group: a coordinator's dialog has one *owner*, first
the request that reserved it and then the thread that shows it (`OwnerInv`).
The danger is a request that read the status before its rival set it to
Pending. It read at most `MAX_STALL` after its rival did (the rival had not
finished), so the rival's stamp is less than a cooldown old for as long as it
may stall itself (`CooldownInv`, `StallInv`), and the cooldown check refuses it.
With one owner, the record in the slot is the one the owner put there
(`SlotInv`), the hint and the clone name it while it has not expired
(`HintInv`), and nobody else empties the slot. None of the four properties is
inductive alone; `IInv` is, and the run `prompts` checks it too. In the code the
cooldown is 10 s, so the assumption is that no handler is suspended for 5 s
within a few dozen instructions: a machine that sleeps or swaps can break it,
which is the finding of `stall`.

`EnrollmentProofs`, on the invariant of `PairingProofs`:

- `EnrollmentRefined`: each step of `Pairing` is, for each device id, a step of
  `Enrollment` or a stutter, under `ShortStall`. The invariant adds
  `OriginInv` (a device id belongs to one request or to one dialog, never to
  two) and `ProgressInv` (a dialog claims a device only past a Yes, and only
  claimed devices are registered), so that the stage of a device is decided by
  its one dialog; an action then moves the stage of one device, or none.
- `DenialsAreFinal`, under `ShortStall`: `ReadInv` says that a device which a
  poll called denied has left the slot for good, or its dialog has been
  overtaken by expiry or by a restart.
- `OnePromptPerToken`, without assumptions on stalls: `SessionInv` says that a
  burned token has one holder, which is the request that burned it until it
  hands the token to its dialog, and an unburned token has none.

`AccessProofs`: `AccessRefined`, each step of `Pairing` is a step of `Access` or
a stutter, under `ShortStall`. The stages do most of the work: a phone's value
is a function of its stage, so that `EnrollmentRefined`'s lemmas on what each
action does to the stages also say what it does to the phones. What is new are
the capabilities, which only the `grant` step of a thread that was answered
with Yes, the second step of a reset and a reload outside a reset may touch, and
the order of these. A capability comes on by a grant or by a reload that finds
it on in the file; where `Edited` has none on, by a grant alone.
So the theorems of `CommandsProofs` are about the pairing flow as it is: their
environment takes every step of `Access` that changes phones or capabilities
(a dialog that opens or is refused changes neither), a rotation's revocation
after its new token.

`RateLimiterProofs`: `LimiterTypeCorrect`, and `LockoutSafety`, which is
`LockoutOnlyGrows` for any number of overlapping requests. It rests on
`LimiterInv`: no lockout reaches further than `LOCKOUT_DURATION` from now, so a
new one never shortens it, and a stranger's request never clears a record.
`GuessBudget` is `GuessesAreRationed`, a bound of one server run, for every
number of failures per window of at least 2, every finite number of overlapping
requests and every lockout at least as long as the window (`RationAssumption`;
the code has 8, 60 s and 60 s). Its invariant `RationInv` (theorem
`RationInvariant`) looks back: a guess made at time `x` has been followed by a
bounded number of others, and by the fewer the later `x` lies. A guess after the
limiter's window is followed only by guesses not recorded yet; one inside it by
those and the failures the window has counted; one made up to a `FAILURE_WINDOW`
before it by one window's worth more. Once the window has locked the address,
only guesses that were past the check add to these. The next failure either
counts in the window or opens a new one, and then every earlier guess moves one
case back. So the two windows that a sliding window overlaps are `OneWindow` and
a lockout each, which is `Budget`.

`CommandsProofs`: `CommandsTypeCorrect` and all five properties
(`ActsWithinAuthority`, `NoKeyLeftDown`, `CombosAreComplete`, `FilterHolds`,
`AnswersAreHonest`), for any keys, combinations and number of handlers. `IInv`
adds to them `History` (what the copy of a waiting handler says was true since
it arrived, and a handler past the gate had its authority), `Progress` (how far
a handler can be in its combination), `SharedKeys` (two handlers that have
pressed the same key are both recorded; the keys of any other are down) and
`ScreenStages` (what the answer and the effects are before the handler ends).

`ServingProofs`: `ServingTypeCorrect`, `OneServerThread`,
`CurrentSettingsServed`, `PinIsServed` and `RestartClearsUp`. `IInv` adds
`Generations` (runs after `gen` have not begun, and a server that is not active
has ended), `Responders`, `Popups` and `Errors` (what an open popup and a set
error say about the run they belong to), `Identities` (every key in use is the
one on disk, and one that is being written found none, unless `raced`) and
`Settings`.

`PersistenceProofs`: `StoresTypeCorrect`, `RegistryDurable`,
`CapabilitiesFollow` and `RetiredStaysDead`, for any number of processes and any
interleaving of their loads. The invariant is layered: `Control` (types, where a
task can stand, and `OneTray`: without a fault of the lock at most one process
is past it), then `RegistryIsDurable`, then `GrantsFollow` (file, memory and
every draft that is not stale carry the last decision), then `TokensBorn` and
`RetiredGone` (a retired token is in no store, no memory and no draft but a
stale one). `GrantsFollow` is excused, like its property, once a person has
edited the capabilities in the file. Each action has one lemma for what it
changes, and each layer one step per action. The last layer is where the
argument lies: only the tray retires tokens, everything another process has read
before is marked stale by that step, and a stale draft that reaches a store is a
race that the properties name.

Only model-checked: `AnswerFreesCoordinator`, `MemoryAndFileConverge`,
`FailureIsNoticed` and `TrayNeverHangs`, because liveness under fairness is
beyond the prover. Every other property of a passing run is a theorem.

## 7. Not modelled

- The whole program as one product: session tokens are in `Pairing`, the lockout
  in `RateLimiter`, commands in `Commands`. What `Pairing` and `Commands` share
  is `Access`, which one implements and the other assumes. A lockout only
  refuses, which `Commands` allows at any time.
- The legacy branch of `pairing_status` (it only reads), the build without a
  notifier (`Unavailable` changes no state), the retired headless mode and the
  stubs for systems other than Windows.
- Pure functions: normalising and parsing of addresses and names (that one may
  not parse ends a server run in `Serving`), the QR payload, the comparison of
  tokens, certificates' contents, and the amounts of a scroll (the hazard of
  `i32::MIN` is listed and has no property).
- Rendering: labels of menu and tooltip, the geometry of the popup, icons.
- Poisoned mutexes: the code takes the value out of them and goes on.

## 8. What is left

In this order:

1. The configuration as an interface in the manner of `Access`: what
   `Persistence` may do to token and capabilities, for `Commands` and `Serving`.
2. `RateLimiter` composed with `Commands`: a lockout between a handler's
   check and its effect.
3. The labels of the tray as state, against the configuration they show.
