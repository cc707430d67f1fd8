------------------------------ MODULE Commands ------------------------------
(***************************************************************************)
(* Remote commands (command, info, wake and security_screen in src/app.rs, *)
(* src/input.rs, src/secure_attention.rs).  Every handler runs on a worker *)
(* thread of its own: it copies the configuration, checks the credential   *)
(* and the capability against the copy, and then acts on the one keyboard  *)
(* and the one desktop of the computer, next to the other handlers and to  *)
(* the tray, which meanwhile rotates the token, revokes phones, and        *)
(* changes the capabilities.                                               *)
(***************************************************************************)
EXTENDS Integers, Sequences, FiniteSets

CONSTANTS
  Request,              \* requests; each is sent once
  Device,               \* phones with a token of their own
  Prompt,               \* notifier threads, one for each dialog that is open
  Key,                  \* the keys that parse_key knows
  Control, Alt, Delete, \* three of them
  Combo,                \* key combinations as sequences of names; a name that
                        \* is not in Key does not parse
  Ask,                  \* the credential and the command that each request may
                        \* carry
  Policy,               \* values of SoftwareSASGeneration
  UI_ACCESS,            \* the process was started with uiAccess
  AUTH_FOR_INFO,        \* require_auth_for_info
  MAX_EVENTS            \* bound on what the tray and the system do meanwhile

Kind == {"info", "wake", "input", "keys", "system", "security"}
Command == [kind: Kind, combo: Combo, fallback: BOOLEAN]
Credential == [kind: {"shared"}, of: 0..MAX_EVENTS] \cup [kind: {"device"}, of: Device]

ASSUME KeyAssumption ==
  /\ {Control, Alt, Delete} \subseteq Key
  /\ Cardinality({Control, Alt, Delete}) = 3
ASSUME CommandAssumption ==
  /\ \A c \in Combo : c \in Seq({c[i] : i \in DOMAIN c})
  /\ Ask \in [Request -> SUBSET [cred: Credential, cmd: Command]]
ASSUME ParameterAssumption ==
  /\ Policy \subseteq 0..3
  /\ UI_ACCESS \in BOOLEAN /\ AUTH_FOR_INFO \in BOOLEAN
  /\ MAX_EVENTS \in Nat

VARIABLES
  token,      \* the shared API token: how often it was replaced
  phones,     \* the registry: a phone is new, paired or gone
  input, power, \* allow_input_commands and allow_power_commands
  policy,     \* the machine policy for software SAS
  rotating,   \* a rotation has replaced the token, and not yet revoked phones
  resetting,  \* a reset has revoked the phones, and not yet the capabilities
  dialog,     \* what each notifier thread has come to
  at,         \* where each handler stands
  ask,        \* the credential and the command of each request
  seen,       \* each handler's copy of the configuration
  position,   \* how far each handler has come in its key combination
  held,       \* keys that are down
  result,     \* what security_screen answered
  since,      \* history: what was true of each request at some time between
              \* its arrival and its check
  acted,      \* history: requests that had an effect, or an answer with data
  abandoned,  \* history: keys that a refused combination left down
  typed,      \* history: requests that pressed Delete under Control and Alt,
              \* with nothing but keys of their own
  bare,       \* history: requests whose last key lacked one of their modifiers
  shared,     \* history: requests that pressed a key while another had it
  screens,    \* history: requests that raised the security screen
  locks,      \* history: requests that locked the desktop
  moved,      \* history: requests during which the policy changed
  events      \* what the bound counts

configVars == <<token, input, power>>
hostVars == <<token, phones, input, power, policy, rotating, resetting, dialog>>
handlerVars == <<at, ask, seen, position, result>>
keyVars == <<held, abandoned, typed, bare, shared>>
screenVars == <<screens, locks, moved>>
vars == <<hostVars, handlerVars, keyVars, screenVars, since, acted, events>>

Fact == {"live", "allowed", "both"}
Stage == {"none", "arrived", "snapshot", "act", "press", "clicked", "release",
          "policy", "sas", "fallback", "done"}
Snapshot == [token: Nat, input: BOOLEAN, power: BOOLEAN]
NoSnapshot == [token |-> 0, input |-> FALSE, power |-> FALSE]
Result == {"none", "sas", "lock", "permission_required", "execution_failed"}

TypeOK ==
  /\ token \in Nat /\ phones \in [Device -> {"new", "paired", "gone"}]
  /\ input \in BOOLEAN /\ power \in BOOLEAN
  /\ policy \in Policy
  /\ rotating \in BOOLEAN /\ resetting \in BOOLEAN
  /\ dialog \in [Prompt -> {"open", "granting", "done"}]
  /\ at \in [Request -> Stage]
  /\ \A r \in Request : at[r] # "none" => ask[r] \in Ask[r]
  /\ seen \in [Request -> Snapshot] /\ position \in [Request -> Nat]
  /\ held \in SUBSET Key /\ abandoned \in SUBSET Key
  /\ result \in [Request -> Result] /\ since \in [Request -> SUBSET Fact]
  /\ \A S \in {acted, typed, bare, shared, screens, locks, moved} :
       S \in SUBSET Request
  /\ events \in Nat

Cmd(r) == ask[r].cmd
Keys(r) == ask[r].cmd.combo

---------------------------------------------------------------------------
(* What holds of a request at a moment, for the histories *)

Live(r) ==
  IF ask[r].cred.kind = "shared" THEN ask[r].cred.of = token
  ELSE phones[ask[r].cred.of] = "paired"

NeedsInput(r) == Cmd(r).kind \in {"input", "keys"}
NeedsPower(r) == Cmd(r).kind \in {"system", "security"}
Allowed(r) == (NeedsInput(r) => input) /\ (NeedsPower(r) => power)

\* What a step of the environment makes true is true since the arrival of a
\* request that has not been checked yet.
Now(r) == {f \in Fact :
             /\ at[r] \in {"arrived", "snapshot"}
             /\ f \in {"live", "both"} => Live(r)
             /\ f \in {"allowed", "both"} => Allowed(r)}
Observe == since' = [r \in Request |-> since[r] \cup Now(r)']

\* The keys a handler has pressed and not released.
Pressed(r) ==
  IF at[r] \in {"press", "clicked", "release"} /\ position[r] > 0
  THEN {Keys(r)[i] : i \in 1..position[r]} ELSE {}

Init ==
  /\ token = 0 /\ phones \in [Device -> {"new", "paired"}]
  /\ input \in BOOLEAN /\ power = input
  /\ policy \in Policy
  /\ rotating = FALSE /\ resetting = FALSE
  /\ dialog = [p \in Prompt |-> "open"]
  /\ at = [r \in Request |-> "none"]
  /\ ask = [r \in Request |-> <<>>]
  /\ seen = [r \in Request |-> NoSnapshot]
  /\ position = [r \in Request |-> 0]
  /\ held = {} /\ result = [r \in Request |-> "none"]
  /\ since = [r \in Request |-> {}]
  /\ acted = {} /\ abandoned = {} /\ typed = {} /\ bare = {} /\ shared = {}
  /\ screens = {} /\ locks = {} /\ moved = {} /\ events = 0

Event == events < MAX_EVENTS /\ events' = events + 1
Go(r, stage) == at' = [at EXCEPT ![r] = stage]

---------------------------------------------------------------------------
(* A handler, up to the gate *)

\* A phone sends a request with a token it may have: a shared one that was
\* valid once, or its own, approved or not.
Arrive(r) ==
  /\ at[r] = "none" /\ Go(r, "arrived")
  /\ \E a \in Ask[r] :
       /\ a.cred.kind = "shared" => a.cred.of <= token
       /\ ask' = [ask EXCEPT ![r] = a]
  /\ UNCHANGED <<hostVars, seen, position, result, keyVars, screenVars, acted,
                 events>>
  /\ Observe

\* config_snapshot: the one copy that authentication and the gate use.
TakeSnapshot(r) ==
  /\ at[r] = "arrived" /\ Go(r, "snapshot")
  /\ seen' = [seen EXCEPT ![r] =
                [token |-> token, input |-> input, power |-> power]]
  /\ UNCHANGED <<hostVars, ask, position, result, keyVars, screenVars, since,
                 acted, events>>

\* authenticate_inner without a session: the copy's token, or the registry as
\* it is by now.
Authentic(r) ==
  IF ask[r].cred.kind = "shared" THEN ask[r].cred.of = seen[r].token
  ELSE phones[ask[r].cred.of] = "paired"

\* Mutant: the gates read the configuration again.
BugGate(r) == Allowed(r)

\* ensure_input_enabled and ensure_power_enabled; the server is never started
\* headless.
Gate(r) ==
  (NeedsInput(r) => seen[r].input) /\ (NeedsPower(r) => seen[r].power)

\* /v1/info may be open to everyone.
OpenInfo(r) == Cmd(r).kind = "info" /\ ~AUTH_FOR_INFO

\* Mutant: only the usual order is recognized.
BugIsSecureAttentionCombo(parts) == parts = <<Control, Alt, Delete>>

\* Ctrl+Alt+Delete in any order, and nothing else.
IsSecureAttentionCombo(parts) ==
  Len(parts) = 3 /\ {parts[i] : i \in 1..3} = {Control, Alt, Delete}

\* The match on the command.  An empty combination and the secure attention
\* sequence are refused before any key is pressed.
Dispatch(r) ==
  CASE Cmd(r).kind = "security" -> "policy"
    [] Cmd(r).kind # "keys" -> "act"
    [] Keys(r) = <<>> \/ IsSecureAttentionCombo(Keys(r)) -> "done"
    [] OTHER -> "press"

\* The check and the dispatch use what the handler has copied, and the
\* registry; the copy is not used again.  A locked-out address is refused
\* whatever it presents.
Authorize(r) ==
  /\ at[r] = "snapshot"
  /\ \/ /\ OpenInfo(r) \/ (Authentic(r) /\ Gate(r))
        /\ Go(r, Dispatch(r)) /\ UNCHANGED since
     \/ /\ ~OpenInfo(r)
        /\ Go(r, "done") /\ since' = [since EXCEPT ![r] = {}]
  /\ seen' = [seen EXCEPT ![r] = NoSnapshot]
  /\ UNCHANGED <<hostVars, ask, position, result, keyVars, screenVars, acted,
                 events>>

---------------------------------------------------------------------------
(* The effects *)

\* Everything that is one call: information, a wake packet, the pointer, a
\* mouse button, text, a system action.  The call may fail.
Act(r) ==
  /\ at[r] = "act" /\ Go(r, "done")
  /\ acted' = acted \cup {r}
  /\ UNCHANGED <<hostVars, ask, seen, position, result, keyVars, screenVars,
                 since, events>>

\* parse_key knows the name.
Parses(name) == name \in Key

\* Mutant: a modifier that does not parse is passed on.
BugPress(r) ==
  LET last == position[r] + 1 = Len(Keys(r)) IN
  /\ at[r] = "press"
  /\ held' = held \cup {Keys(r)[position[r] + 1]} /\ acted' = acted \cup {r}
  /\ position' = [position EXCEPT ![r] = @ + 1]
  /\ Go(r, IF last THEN "clicked" ELSE "press")
  /\ UNCHANGED <<hostVars, ask, seen, result, abandoned, typed, bare, shared,
                 screenVars, since, events>>

\* key_press presses the keys in turn, the last one as a click.  A name that
\* does not parse ends it there, with the keys before it down.
Press(r) ==
  LET name == Keys(r)[position[r] + 1]
      last == position[r] + 1 = Len(Keys(r))
      others == {s \in Request \ {r} : name \in Pressed(s)}
      own == held \ (abandoned \cup UNION {Pressed(s) : s \in Request \ {r}})
  IN
  /\ at[r] = "press"
  /\ IF Parses(name)
     THEN /\ held' = held \cup {name} /\ acted' = acted \cup {r}
          /\ position' = [position EXCEPT ![r] = @ + 1]
          /\ Go(r, IF last THEN "clicked" ELSE "press")
          /\ typed' = IF name = Delete /\ {Control, Alt} \subseteq own
                      THEN typed \cup {r} ELSE typed
          /\ bare' = IF last /\ ~(Pressed(r) \subseteq held)
                     THEN bare \cup {r} ELSE bare
          /\ shared' = IF others = {} THEN shared
                       ELSE shared \cup {r} \cup others
          /\ UNCHANGED abandoned
     ELSE /\ abandoned' = abandoned \cup (Pressed(r) \cap held)
          /\ Go(r, "done")
          /\ UNCHANGED <<held, acted, position, typed, bare, shared>>
  /\ UNCHANGED <<hostVars, ask, seen, result, screenVars, since, events>>

\* Mutant: the first modifier is not released.
BugRelease(r) ==
  LET name == Keys(r)[position[r]] IN
  /\ at[r] \in {"clicked", "release"}
  /\ held' = held \ {name} /\ abandoned' = abandoned \ {name}
  /\ position' = [position EXCEPT ![r] = @ - 1]
  /\ Go(r, IF position[r] <= 2 THEN "done" ELSE "release")
  /\ UNCHANGED <<hostVars, ask, seen, result, typed, bare, shared, screenVars,
                 since, acted, events>>

\* Mutant: everything that is down is released at once.
BugReleaseAll(r) ==
  /\ at[r] \in {"clicked", "release"} /\ Go(r, "done")
  /\ held' = {} /\ abandoned' = {}
  /\ position' = [position EXCEPT ![r] = 0]
  /\ UNCHANGED <<hostVars, ask, seen, result, typed, bare, shared, screenVars,
                 since, acted, events>>

\* The click's release, and then the modifiers in reverse.
Release(r) ==
  LET name == Keys(r)[position[r]] IN
  /\ at[r] \in {"clicked", "release"}
  /\ held' = held \ {name} /\ abandoned' = abandoned \ {name}
  /\ position' = [position EXCEPT ![r] = @ - 1]
  /\ Go(r, IF position[r] = 1 THEN "done" ELSE "release")
  /\ UNCHANGED <<hostVars, ask, seen, result, typed, bare, shared, screenVars,
                 since, acted, events>>

\* evaluate_eligibility; the process is never a service.
Eligible == UI_ACCESS /\ policy \in {2, 3}

\* request_secure_attention_sequence reads the policy ...
ReadPolicy(r) ==
  /\ at[r] = "policy"
  /\ IF Eligible
     THEN Go(r, "sas") /\ UNCHANGED result
     ELSE /\ Go(r, "fallback")
          /\ result' = [result EXCEPT ![r] = "permission_required"]
  /\ UNCHANGED <<hostVars, ask, seen, position, keyVars, screenVars, since,
                 acted, events>>

\* ... and calls SendSAS, which returns nothing and does nothing when the
\* policy has changed; sas.dll may be missing.
SendSas(r) ==
  /\ at[r] = "sas"
  /\ \/ /\ Go(r, "done") /\ acted' = acted \cup {r}
        /\ result' = [result EXCEPT ![r] = "sas"]
        /\ screens' = IF Eligible THEN screens \cup {r} ELSE screens
     \/ /\ Go(r, "fallback")
        /\ result' = [result EXCEPT ![r] = "execution_failed"]
        /\ UNCHANGED <<screens, acted>>
  /\ UNCHANGED <<hostVars, ask, seen, position, keyVars, locks, moved, since,
                 events>>

\* Mutant: the lock is not opt-in.
BugApplyFallback(r) ==
  /\ at[r] = "fallback" /\ Go(r, "done")
  /\ locks' = locks \cup {r} /\ acted' = acted \cup {r}
  /\ result' = [result EXCEPT ![r] = "lock"]
  /\ UNCHANGED <<hostVars, ask, seen, position, keyVars, screens, moved, since,
                 events>>

\* apply_fallback: without one the refusal is the answer.
ApplyFallback(r) ==
  /\ at[r] = "fallback" /\ Go(r, "done")
  /\ \/ ~Cmd(r).fallback /\ UNCHANGED <<result, locks, acted>>
     \/ /\ Cmd(r).fallback
        /\ \/ /\ locks' = locks \cup {r} /\ acted' = acted \cup {r}
              /\ result' = [result EXCEPT ![r] = "lock"]
           \/ /\ result' = [result EXCEPT ![r] = "execution_failed"]
              /\ UNCHANGED <<locks, acted>>
  /\ UNCHANGED <<hostVars, ask, seen, position, keyVars, screens, moved, since,
                 events>>

---------------------------------------------------------------------------
(* The tray, the notifiers and the system *)

\* What happens to phones and capabilities is what the pairing flow is shown to
\* do (PairingRefinement), in the order the tray goes about it.
access == INSTANCE Access WITH Edited <- [input: BOOLEAN, power: BOOLEAN]
Idle == ~rotating /\ ~resetting

Meanwhile ==
  /\ UNCHANGED <<policy, handlerVars, keyVars, screenVars, acted>>
  /\ Observe

\* rotate_pairing_token replaces the token and then empties the registry.
RotateToken ==
  /\ Idle /\ rotating' = TRUE /\ Event
  /\ token' = token + 1
  /\ UNCHANGED <<phones, input, power, dialog, resetting>>
  /\ Meanwhile

RevokeAll ==
  /\ rotating /\ rotating' = FALSE
  /\ access!Revoke(access!Paired)
  /\ UNCHANGED <<token, events>> /\ Meanwhile

\* reset_companion empties the registry and then replaces the configuration.
ResetRegistry ==
  /\ Idle /\ Event
  /\ access!ResetRegistry
  /\ UNCHANGED <<token, rotating>> /\ Meanwhile

ResetConfig ==
  /\ access!ResetConfig
  /\ token' = token + 1
  /\ UNCHANGED <<rotating, events>> /\ Meanwhile

\* One phone is revoked from the menu.
RevokeDevice(d) ==
  /\ Idle /\ Event
  /\ d \in access!Paired /\ access!Revoke({d})
  /\ UNCHANGED <<token, rotating>> /\ Meanwhile

\* A Yes, with the phone of its enrollment or without one, and the grant.
Approve(p) ==
  /\ Event
  /\ access!Approve(p) \/ \E d \in Device : access!Register(p, d)
  /\ UNCHANGED <<token, rotating>> /\ Meanwhile

Grant(p) ==
  /\ access!Grant(p)
  /\ UNCHANGED <<token, rotating, events>> /\ Meanwhile

\* The tray reloads a file in which a person has set the capabilities.
EditCapabilities ==
  /\ Idle /\ Event
  /\ access!Reload
  /\ UNCHANGED <<token, rotating>> /\ Meanwhile

ChangePolicy ==
  /\ Event
  /\ policy' \in Policy \ {policy}
  /\ moved' = moved \cup {r \in Request : at[r] = "sas"}
  /\ UNCHANGED <<configVars, phones, rotating, resetting, dialog, handlerVars,
                 keyVars, screens, locks, since, acted>>

---------------------------------------------------------------------------

Handler(r) ==
  \/ TakeSnapshot(r) \/ Authorize(r) \/ Act(r) \/ Press(r) \/ Release(r)
  \/ ReadPolicy(r) \/ SendSas(r) \/ ApplyFallback(r)

Environment ==
  \/ RotateToken \/ RevokeAll \/ ResetRegistry \/ ResetConfig
  \/ EditCapabilities \/ ChangePolicy
  \/ \E d \in Device : RevokeDevice(d)
  \/ \E p \in Prompt : Approve(p) \/ Grant(p)

Next == Environment \/ \E r \in Request : Arrive(r) \/ Handler(r)

Spec == Init /\ [][Next]_vars

---------------------------------------------------------------------------
(* Properties *)

\* A request acts only with a credential and a capability that were good after
\* it arrived (authenticate and the ensure_ gates in src/app.rs), whatever the
\* tray rotates, revokes or resets meanwhile.  For the shared token both were
\* good at one moment, since both come from one copy of the configuration; a
\* phone's own token is looked up later than its capability.
ActedWithinAuthority ==
  \A r \in acted : OpenInfo(r) \/
    /\ {"live", "allowed"} \subseteq since[r]
    /\ ask[r].cred.kind = "shared" => "both" \in since[r]

\* A key that is down belongs to a combination that is being pressed or
\* released, or was left down by one that was refused half-way (key_press in
\* src/input.rs): nothing else ever leaves a key down.
HeldKeysAreOwned ==
  held \subseteq abandoned \cup UNION {Pressed(r) : r \in Request}

\* The last key of a combination goes down with its modifiers down (key_press
\* in src/input.rs), unless another handler pressed one of the same keys at
\* the same time: its release takes the key from both.
ComboHasItsModifiers == bare \subseteq shared

\* Delete is not typed under Control and Alt by a combination of the three
\* (is_secure_attention_combo in src/input.rs), only by one with more parts,
\* or with the help of keys that other requests hold or left down.
SecureComboNeverTyped == \A r \in typed : Len(Keys(r)) > 3

\* security_screen answers what happened (src/app.rs): the sequence when it
\* was raised, unless the policy changed between its check and SendSAS, which
\* reports nothing; a lock when the desktop was locked, and then only when the
\* phone opted in.
SecurityScreenHonest ==
  \A r \in Request :
    /\ result[r] = "sas" => r \in screens \cup moved
    /\ r \in screens => result[r] = "sas"
    /\ r \in locks <=> result[r] = "lock"
    /\ r \in locks => Cmd(r).fallback
=============================================================================
