------------------------------ MODULE Pairing ------------------------------
(***************************************************************************)
(* The pairing flow of the companion (src/pairing.rs), with the two sides  *)
(* that share its state: the HTTP handlers that ask for a desktop prompt   *)
(* (pairing_enroll, pairing_activate, pairing_status in src/app.rs) and    *)
(* the Windows notifier threads that show the dialog and record the answer *)
(* (windows_pairing_notifier in src/tray.rs).  The tray's own operations   *)
(* on the same state -- a new QR code, a restarted server, a revoked       *)
(* phone, a reset -- are actions too.                                      *)
(*                                                                         *)
(* Every critical section of the code is one action: the status mutex, the *)
(* last_prompt_at mutex, the enrollment mutex, the session mutex, the      *)
(* registry mutex and the config mutex are all taken and released          *)
(* separately, and other threads run between them.  last_prompt_at and the *)
(* registry (during a status read) are held across several steps.          *)
(***************************************************************************)
EXTENDS Integers, FiniteSets

CONSTANTS
  Handler,              \* HTTP requests that may be in flight at one time
  Prompt,               \* notifier threads; each is spawned at most once
  Device,               \* device ids handed out (uuids, never reused)
  Token,                \* one-time pairing-session tokens (uuids)
  NoDevice, NoToken,    \* the Nones of Option<device> and Option<token>
  Edited,               \* the capabilities that a reload may find in the
                        \* configuration file, other than those in memory
  PROMPT_COOLDOWN, ENROLLMENT_TTL, PAIRING_SESSION_TTL,
  MAX_STALL,            \* most time a request spends between reading the
                        \* status and setting it to Pending
  MAX_NOW,              \* bound on the clock
  MAX_SERVERS,          \* bound on server runs: one coordinator for each
  MAX_RESETS            \* bound on companion resets

ASSUME NullAssumption == NoDevice \notin Device /\ NoToken \notin Token
ASSUME TimeAssumption ==
  /\ PROMPT_COOLDOWN \in Nat /\ ENROLLMENT_TTL \in Nat
  /\ PAIRING_SESSION_TTL \in Nat /\ MAX_STALL \in Nat
  /\ MAX_NOW \in Nat /\ MAX_RESETS \in Nat
\* allow_input_commands and allow_power_commands.
Capabilities == [input: BOOLEAN, power: BOOLEAN]
AllOn == [input |-> TRUE, power |-> TRUE]
AllOff == [input |-> FALSE, power |-> FALSE]

ASSUME EditedAssumption == Edited \subseteq Capabilities
ASSUME ServersAssumption == MAX_SERVERS \in Nat \ {0}

VARIABLES
  now,          \* the monotonic clock behind Instant::now()
  server,       \* the running server's coordinator
  status,       \* PairingStatusHandle of each coordinator
  slot,         \* EnrollmentSlot of each coordinator
  session,      \* PairingSessionSlot of each coordinator: its token
  lastPrompt,   \* last_prompt_at of each coordinator
  requestedAt,  \* PendingEnrollment.requested_at of each device id
  mintedAt,     \* PairingSession.minted_at of each token
  consumed,     \* tokens whose PairingSession.consumed is set
  req,          \* the requests in flight
  prompt,       \* the notifier threads
  registry,     \* device ids in the DeviceRegistry
  allow,        \* the Capabilities in the shared configuration
  poll,         \* the device whose status read holds the registry mutex
  denied,       \* history: devices a status read reported as denied
  tray,         \* where the tray thread stands in a reset
  resets        \* history: how many resets erased the configuration

Never == -1
Coordinator == 1..MAX_SERVERS

clockVars == <<requestedAt, mintedAt>>
slotVars  == <<status, slot, lastPrompt>>
sessVars  == <<session, consumed>>
trayVars  == <<server, tray, resets>>
vars == <<now, server, status, slot, session, lastPrompt, requestedAt,
          mintedAt, consumed, req, prompt, registry, allow, poll, denied,
          tray, resets>>

IdleRequest ==
  [pc |-> "idle", dev |-> NoDevice, cred |-> NoToken, since |-> 0, stamp |-> 0]
NoPrompt ==
  [pc |-> "none", of |-> 1, asked |-> NoDevice, cred |-> NoToken,
   shown |-> NoDevice, claimed |-> NoDevice, era |-> 0]

NewRequest(d, c) ==
  [pc |-> "check", dev |-> d, cred |-> c, since |-> 0, stamp |-> 0]
NewPrompt(d, c) ==
  [pc |-> "hint", of |-> server, asked |-> d, cred |-> c, shown |-> NoDevice,
   claimed |-> NoDevice, era |-> resets]

RequestPC == {"idle", "check", "lock", "consume", "queue", "show"}
PromptPC  == {"none", "hint", "dialog", "deny", "register", "unqueue",
              "record", "grant", "done"}

RequestRecord ==
  [pc: RequestPC, dev: Device \cup {NoDevice}, cred: Token \cup {NoToken},
   since: Int, stamp: Int]
PromptRecord ==
  [pc: PromptPC, of: Coordinator, asked: Device \cup {NoDevice},
   cred: Token \cup {NoToken}, shown: Device \cup {NoDevice},
   claimed: Device \cup {NoDevice}, era: Nat]

TypeOK ==
  /\ now \in 0..MAX_NOW
  /\ server \in Coordinator
  /\ status \in [Coordinator -> {"Idle", "Pending", "Approved", "Denied"}]
  /\ slot \in [Coordinator -> Device \cup {NoDevice}]
  /\ session \in [Coordinator -> Token \cup {NoToken}]
  /\ lastPrompt \in [Coordinator -> Int]
  /\ requestedAt \in [Device -> Int]
  /\ mintedAt \in [Token -> Int]
  /\ consumed \in SUBSET Token
  /\ req \in [Handler -> RequestRecord]
  /\ prompt \in [Prompt -> PromptRecord]
  /\ registry \in SUBSET Device
  /\ allow \in Capabilities
  /\ poll \in Device \cup {NoDevice}
  /\ denied \in SUBSET Device
  /\ tray \in {"idle", "resetConfig", "resetRestart"}
  /\ resets \in Nat

---------------------------------------------------------------------------
(* What the slots answer *)

Expired(d) == now - requestedAt[d] > ENROLLMENT_TTL

\* The slot's content as every reader filters it: nothing once it expired.
BugWaiting(g) ==
  IF slot[g] # NoDevice /\ now - requestedAt[slot[g]] < ENROLLMENT_TTL
  THEN slot[g] ELSE NoDevice
Waiting(g) ==
  IF slot[g] # NoDevice /\ ~Expired(slot[g]) THEN slot[g] ELSE NoDevice
Holds(g, d) == Waiting(g) = d

Claimable(t) ==
  /\ t = session[server]
  /\ t \notin consumed
  /\ ~(now - mintedAt[t] > PAIRING_SESSION_TTL)

\* No status read is between its look at the registry and its look at the
\* enrollment slot, so the registry mutex can be taken.
RegistryFree == poll = NoDevice

InFlight(h) == req[h].pc \in {"lock", "consume", "queue", "show"}
CooldownLockFree == \A h \in Handler : req[h].pc # "consume"
Unspawned == {p \in Prompt : prompt[p].pc = "none"}
Busy == {h \in Handler : req[h].pc # "idle"}

Init ==
  /\ now = 0 /\ server = 1
  /\ status = [g \in Coordinator |-> "Idle"]
  /\ slot = [g \in Coordinator |-> NoDevice]
  /\ session = [g \in Coordinator |-> NoToken]
  /\ lastPrompt = [g \in Coordinator |-> Never]
  /\ requestedAt = [d \in Device |-> Never]
  /\ mintedAt = [t \in Token |-> Never]
  /\ consumed = {}
  /\ req = [h \in Handler |-> IdleRequest]
  /\ prompt = [p \in Prompt |-> NoPrompt]
  /\ registry = {} /\ allow = AllOff
  /\ poll = NoDevice /\ denied = {}
  /\ tray = "idle" /\ resets = 0

(* Time passes, but no request stays longer than MAX_STALL between its     *)
(* status check and the moment its prompt is marked Pending.               *)
Tick ==
  /\ now < MAX_NOW
  /\ \A h \in Handler : InFlight(h) => now < req[h].since + MAX_STALL
  /\ now' = now + 1
  /\ UNCHANGED <<server, status, slot, session, lastPrompt, requestedAt,
                 mintedAt, consumed, req, prompt, registry, allow, poll,
                 denied, tray, resets>>

---------------------------------------------------------------------------
(* The HTTP handlers *)

(* A request without a prompt left to spawn is not started (a bound of the *)
(* model, not of the code).  A request may present the shared token, or    *)
(* for an activation a device token (cred = NoToken), or a claimable       *)
(* session token.                                                          *)
Arrive(h, d, c) ==
  /\ req[h].pc = "idle"
  /\ Cardinality(Busy) < Cardinality(Unspawned)
  /\ c # NoToken => Claimable(c)
  /\ req' = [req EXCEPT ![h] = NewRequest(d, c)]
  /\ UNCHANGED <<now, slotVars, sessVars, mintedAt, prompt, registry, allow,
                 poll, denied, trayVars>>

\* A fresh device id and token are made before the prompt is asked for.
PairingEnroll(h) ==
  \E d \in Device, c \in Token \cup {NoToken} :
    /\ requestedAt[d] = Never
    /\ Arrive(h, d, c)
    /\ requestedAt' = [requestedAt EXCEPT ![d] = now]

PairingActivate(h) ==
  \E c \in Token \cup {NoToken} :
    Arrive(h, NoDevice, c) /\ UNCHANGED requestedAt

(* Busy, AwaitingApproval without a prompt of its own, InvalidSession: the *)
(* request ends, and nothing was queued.                                   *)
Refuse(h) == req' = [req EXCEPT ![h] = IdleRequest]

BugCheckStatus(h) ==
  /\ req[h].pc = "check"
  /\ req' = [req EXCEPT ![h].pc = "lock", ![h].since = now]
  /\ UNCHANGED <<now, slotVars, sessVars, clockVars, prompt, registry, allow,
                 poll, denied, trayVars>>
CheckStatus(h) ==
  /\ req[h].pc = "check"
  /\ \/ /\ status[server] = "Pending"
        /\ Refuse(h)
     \/ /\ status[server] # "Pending"
        /\ req' = [req EXCEPT ![h].pc = "lock", ![h].since = now]
  /\ UNCHANGED <<now, slotVars, sessVars, clockVars, prompt, registry, allow,
                 poll, denied, trayVars>>

BugUnlockedCooldown(h) ==
  /\ req[h].pc = "lock"
  /\ lastPrompt[server] # Never => now - lastPrompt[server] >= PROMPT_COOLDOWN
  /\ req' = [req EXCEPT ![h].pc = "consume", ![h].stamp = now]
  /\ UNCHANGED <<now, slotVars, sessVars, clockVars, prompt, registry, allow,
                 poll, denied, trayVars>>
BugShortCooldown(h) ==
  /\ req[h].pc = "lock"
  /\ CooldownLockFree
  /\ lastPrompt[server] # Never =>
       now - lastPrompt[server] >= PROMPT_COOLDOWN - 1
  /\ req' = [req EXCEPT ![h].pc = "consume", ![h].stamp = now]
  /\ UNCHANGED <<now, slotVars, sessVars, clockVars, prompt, registry, allow,
                 poll, denied, trayVars>>

\* Takes the last_prompt_at mutex and reads the clock; the mutex is kept
\* until ConsumeSession.
LockCooldown(h) ==
  /\ req[h].pc = "lock"
  /\ CooldownLockFree
  /\ LET shouldPrompt == \/ lastPrompt[server] = Never
                         \/ now - lastPrompt[server] >= PROMPT_COOLDOWN
     IN \/ /\ ~shouldPrompt
           /\ Refuse(h)
        \/ /\ shouldPrompt
           /\ req' = [req EXCEPT ![h].pc = "consume", ![h].stamp = now]
     /\ UNCHANGED <<now, slotVars, sessVars, clockVars, prompt, registry, allow,
                 poll, denied, trayVars>>

\* try_consume, then last_prompt_at is stamped and its mutex released.
BugConsumeSession(h) ==
  /\ req[h].pc = "consume"
  /\ \/ /\ req[h].cred # NoToken /\ ~Claimable(req[h].cred)
        /\ Refuse(h)
        /\ UNCHANGED <<lastPrompt, consumed>>
     \/ /\ req[h].cred # NoToken => Claimable(req[h].cred)
        /\ req' = [req EXCEPT ![h].pc = "queue"]
        /\ lastPrompt' = [lastPrompt EXCEPT ![server] = req[h].stamp]
        /\ UNCHANGED consumed
  /\ UNCHANGED <<now, status, slot, session, clockVars, prompt, registry,
                 allow, poll, denied, trayVars>>
ConsumeSession(h) ==
  /\ req[h].pc = "consume"
  /\ \/ /\ req[h].cred # NoToken /\ ~Claimable(req[h].cred)
        /\ Refuse(h)
        /\ UNCHANGED <<lastPrompt, consumed>>
     \/ /\ req[h].cred # NoToken => Claimable(req[h].cred)
        /\ req' = [req EXCEPT ![h].pc = "queue"]
        /\ lastPrompt' = [lastPrompt EXCEPT ![server] = req[h].stamp]
        /\ consumed' = (consumed \cup {req[h].cred}) \ {NoToken}
  /\ UNCHANGED <<now, status, slot, session, clockVars, prompt, registry,
                 allow, poll, denied, trayVars>>

\* The pending record is queued only now; an activation leaves the slot alone.
QueueEnrollment(h) ==
  /\ req[h].pc = "queue"
  /\ req' = [req EXCEPT ![h].pc = "show"]
  /\ slot' = IF req[h].dev = NoDevice THEN slot
             ELSE [slot EXCEPT ![server] = req[h].dev]
  /\ UNCHANGED <<now, status, lastPrompt, sessVars, clockVars, prompt,
                 registry, allow, poll, denied, trayVars>>

\* The status becomes Pending and the notifier spawns its thread.
ShowPrompt(h) ==
  /\ req[h].pc = "show"
  /\ \E p \in Unspawned :
       prompt' = [prompt EXCEPT ![p] = NewPrompt(req[h].dev, req[h].cred)]
  /\ status' = [status EXCEPT ![server] = "Pending"]
  /\ req' = [req EXCEPT ![h] = IdleRequest]
  /\ UNCHANGED <<now, slot, lastPrompt, sessVars, clockVars, registry, allow,
                 poll, denied, trayVars>>

---------------------------------------------------------------------------
(* A notifier thread.  It outlives the server that spawned it: a restart   *)
(* replaces the coordinator, not the dialog on the screen.                 *)

Move(p, pc) == prompt' = [prompt EXCEPT ![p].pc = pc]

\* pending_device_name: the dialog names the waiting device, or only the peer.
ReadHint(p) ==
  /\ prompt[p].pc = "hint"
  /\ prompt' = [prompt EXCEPT ![p].pc = "dialog",
                              ![p].shown = Waiting(prompt[p].of)]
  /\ UNCHANGED <<now, slotVars, sessVars, clockVars, req, registry, allow,
                 poll, denied, trayVars>>

\* "No": the slot is cleared, then the denial is recorded.
AnswerNo(p) ==
  /\ prompt[p].pc = "dialog"
  /\ Move(p, "deny")
  /\ slot' = [slot EXCEPT ![prompt[p].of] = NoDevice]
  /\ UNCHANGED <<now, status, lastPrompt, sessVars, clockVars, req, registry,
                 allow, poll, denied, trayVars>>

BugRecordDenial(p) ==
  /\ prompt[p].pc = "deny"
  /\ Move(p, "done")
  /\ UNCHANGED <<now, slotVars, sessVars, clockVars, req, registry, allow,
                 poll, denied, trayVars>>
BugFallThrough(p) ==
  /\ prompt[p].pc = "deny"
  /\ Move(p, "record")
  /\ status' = [status EXCEPT ![prompt[p].of] = "Denied"]
  /\ UNCHANGED <<now, slot, lastPrompt, sessVars, clockVars, req, registry,
                 allow, poll, denied, trayVars>>
RecordDenial(p) ==
  /\ prompt[p].pc = "deny"
  /\ Move(p, "done")
  /\ status' = [status EXCEPT ![prompt[p].of] = "Denied"]
  /\ UNCHANGED <<now, slot, lastPrompt, sessVars, clockVars, req, registry,
                 allow, poll, denied, trayVars>>

\* "Yes": commit_valid clones the slot's record unless it expired.
BugAnswerYes(p) ==
  /\ prompt[p].pc = "dialog"
  /\ prompt' = [prompt EXCEPT
       ![p].pc = IF Waiting(prompt[p].of) = NoDevice THEN "grant"
                 ELSE "register",
       ![p].claimed = Waiting(prompt[p].of)]
  /\ UNCHANGED <<now, slotVars, sessVars, clockVars, req, registry, allow,
                 poll, denied, trayVars>>
BugExpiredYes(p) ==
  /\ prompt[p].pc = "dialog"
  /\ prompt' = [prompt EXCEPT ![p].pc = "register",
                              ![p].claimed = Waiting(prompt[p].of)]
  /\ UNCHANGED <<now, slotVars, sessVars, clockVars, req, registry, allow,
                 poll, denied, trayVars>>
BugRunningServerYes(p) ==
  /\ prompt[p].pc = "dialog"
  /\ prompt' = [prompt EXCEPT
       ![p].pc = IF Waiting(server) = NoDevice THEN "record" ELSE "register",
       ![p].claimed = Waiting(server)]
  /\ UNCHANGED <<now, slotVars, sessVars, clockVars, req, registry, allow,
                 poll, denied, trayVars>>
AnswerYes(p) ==
  /\ prompt[p].pc = "dialog"
  /\ prompt' = [prompt EXCEPT
       ![p].pc = IF Waiting(prompt[p].of) = NoDevice THEN "record"
                 ELSE "register",
       ![p].claimed = Waiting(prompt[p].of)]
  /\ UNCHANGED <<now, slotVars, sessVars, clockVars, req, registry, allow,
                 poll, denied, trayVars>>

\* register_with_id, under the registry mutex.
BugRegister(p) ==
  /\ prompt[p].pc = "register"
  /\ Move(p, "unqueue")
  /\ registry' = registry \cup {prompt[p].claimed}
  /\ UNCHANGED <<now, slotVars, sessVars, clockVars, req, allow, poll, denied,
                 trayVars>>
Register(p) ==
  /\ prompt[p].pc = "register"
  /\ RegistryFree
  /\ Move(p, "unqueue")
  /\ registry' = registry \cup {prompt[p].claimed}
  /\ UNCHANGED <<now, slotVars, sessVars, clockVars, req, allow, poll, denied,
                 trayVars>>

\* The end of commit_valid: only now does the device leave the slot.
BugUnqueue(p) ==
  /\ prompt[p].pc = "unqueue"
  /\ Move(p, "record")
  /\ UNCHANGED <<now, slotVars, sessVars, clockVars, req, registry, allow,
                 poll, denied, trayVars>>
Unqueue(p) ==
  /\ prompt[p].pc = "unqueue"
  /\ Move(p, "record")
  /\ slot' = [slot EXCEPT ![prompt[p].of] = NoDevice]
  /\ UNCHANGED <<now, status, lastPrompt, sessVars, clockVars, req, registry,
                 allow, poll, denied, trayVars>>

RecordApproval(p) ==
  /\ prompt[p].pc = "record"
  /\ Move(p, "grant")
  /\ status' = [status EXCEPT ![prompt[p].of] = "Approved"]
  /\ UNCHANGED <<now, slot, lastPrompt, sessVars, clockVars, req, registry,
                 allow, poll, denied, trayVars>>

\* Both capability flags are set and saved under the config mutex.
GrantCapabilities(p) ==
  /\ prompt[p].pc = "grant"
  /\ Move(p, "done")
  /\ allow' = AllOn
  /\ UNCHANGED <<now, slotVars, sessVars, clockVars, req, registry, poll,
                 denied, trayVars>>

---------------------------------------------------------------------------
(* A status read of one device.  Only an id a phone was given is polled.   *)

PollRegistry(d) ==
  /\ RegistryFree
  /\ \E p \in Prompt : prompt[p].asked = d
  /\ d \notin registry            \* otherwise: Approved, nothing is held
  /\ poll' = d
  /\ UNCHANGED <<now, slotVars, sessVars, clockVars, req, prompt, registry,
                 allow, denied, trayVars>>

PollSlot ==
  /\ poll # NoDevice
  /\ denied' = IF Holds(server, poll) THEN denied ELSE denied \cup {poll}
  /\ poll' = NoDevice
  /\ UNCHANGED <<now, slotVars, sessVars, clockVars, req, prompt, registry,
                 allow, trayVars>>

---------------------------------------------------------------------------
(* The tray: one thread, one operation at a time *)

\* A new pairing QR code.
MintSession ==
  /\ tray = "idle"
  /\ \E t \in Token :
       /\ mintedAt[t] = Never
       /\ mintedAt' = [mintedAt EXCEPT ![t] = now]
       /\ session' = [session EXCEPT ![server] = t]
  /\ UNCHANGED <<now, slotVars, consumed, requestedAt, req, prompt, registry,
                 allow, poll, denied, trayVars>>

RevokeDevice(d) ==
  /\ tray = "idle"
  /\ RegistryFree
  /\ d \in registry
  /\ registry' = registry \ {d}
  /\ UNCHANGED <<now, slotVars, sessVars, clockVars, req, prompt, allow, poll,
                 denied, trayVars>>

\* The revocation inside a token rotation.
RevokeAll ==
  /\ tray = "idle"
  /\ RegistryFree
  /\ registry # {}
  /\ registry' = {}
  /\ UNCHANGED <<now, slotVars, sessVars, clockVars, req, prompt, allow, poll,
                 denied, trayVars>>

\* The old server's requests are over when its thread is joined; the new
\* server has a coordinator of its own.
NewServer ==
  /\ server < MAX_SERVERS
  /\ Busy = {} /\ RegistryFree
  /\ server' = server + 1

\* reload_config_if_changed takes over the whole file as it was read, and asks
\* nobody: with the capabilities that a person has written into it, or those
\* that a notifier has changed since.  If the server settings have changed as
\* well, RestartServer follows.
ReloadConfig ==
  /\ tray = "idle"
  /\ allow' \in Edited
  /\ UNCHANGED <<now, slotVars, sessVars, clockVars, req, prompt, registry,
                 poll, denied, trayVars>>

\* restart_connection, or the restart that ends a reload.
RestartServer ==
  /\ tray = "idle"
  /\ NewServer
  /\ UNCHANGED <<now, slotVars, sessVars, clockVars, req, prompt, registry,
                 allow, poll, denied, tray, resets>>

\* reset_companion: the registry, then the configuration, then the server if
\* its settings changed.
ResetRegistry ==
  /\ tray = "idle" /\ resets < MAX_RESETS
  /\ RegistryFree
  /\ registry' = {}
  /\ tray' = "resetConfig"
  /\ UNCHANGED <<now, slotVars, sessVars, clockVars, req, prompt, allow, poll,
                 denied, server, resets>>

ResetConfig ==
  /\ tray = "resetConfig"
  /\ allow' = AllOff
  /\ resets' = resets + 1
  /\ tray' \in {"idle", "resetRestart"}
  /\ UNCHANGED <<now, slotVars, sessVars, clockVars, req, prompt, registry,
                 poll, denied, server>>

ResetRestart ==
  /\ tray = "resetRestart"
  /\ NewServer
  /\ tray' = "idle"
  /\ UNCHANGED <<now, slotVars, sessVars, clockVars, req, prompt, registry,
                 allow, poll, denied, resets>>

---------------------------------------------------------------------------
Request(h) ==
  \/ PairingEnroll(h) \/ PairingActivate(h) \/ CheckStatus(h)
  \/ LockCooldown(h) \/ ConsumeSession(h) \/ QueueEnrollment(h)
  \/ ShowPrompt(h)

Notifier(p) ==
  \/ ReadHint(p) \/ AnswerNo(p) \/ RecordDenial(p) \/ AnswerYes(p)
  \/ Register(p) \/ Unqueue(p) \/ RecordApproval(p) \/ GrantCapabilities(p)

Tray ==
  \/ MintSession \/ RevokeAll \/ ReloadConfig \/ RestartServer
  \/ ResetRegistry \/ ResetConfig \/ ResetRestart \/ \E d \in Device : RevokeDevice(d)

Next ==
  \/ Tick \/ Tray \/ PollSlot
  \/ \E h \in Handler : Request(h)
  \/ \E p \in Prompt : Notifier(p)
  \/ \E d \in Device : PollRegistry(d)

Spec == Init /\ [][Next]_vars

(* Threads are scheduled, except that nobody has to answer a dialog.  A    *)
(* phone polls at a finite rate, so a thread that keeps asking for the     *)
(* registry mutex gets it (strong fairness).                               *)
Fairness ==
  /\ WF_vars(PollSlot)
  /\ \A p \in Prompt :
       /\ WF_vars(\/ ReadHint(p) \/ RecordDenial(p) \/ Unqueue(p)
                  \/ RecordApproval(p) \/ GrantCapabilities(p))
       /\ SF_vars(Register(p))
FairSpec == Spec /\ Fairness

---------------------------------------------------------------------------
(* Properties *)

Reserved(h) == req[h].pc \in {"queue", "show"}
Open(p) == prompt[p].pc \in {"hint", "dialog", "deny", "register", "unqueue",
                             "record"}

(* A "Yes" commits the device named in the dialog it answers, or none: a   *)
(* dialog on screen never grants a device the person was not asked about   *)
(* (pairing.rs, request and the comment on the Pending check).             *)
PromptGrantsOnlyItsDevice ==
  \A p \in Prompt :
    prompt[p].claimed # NoDevice =>
      /\ prompt[p].shown = prompt[p].claimed
      /\ prompt[p].asked = prompt[p].claimed

(* A "Yes" to an enrollment that committed nothing came after the record's *)
(* TTL: no other dialog or request emptied the slot under it (commit_valid *)
(* and the clear-before-record order of the notifier).                     *)
ApprovedPromptRegistersItsDevice ==
  \A p \in Prompt :
    /\ prompt[p].pc \in {"record", "grant"}
    /\ prompt[p].asked # NoDevice
    /\ prompt[p].claimed = NoDevice
    => Expired(prompt[p].asked)

(* Two dialogs never compete for the slot of one coordinator, not even in  *)
(* the gap between a request's status check and its status update.         *)
OneDialogPerCoordinator ==
  \A p, q \in Prompt :
    Open(p) /\ Open(q) /\ prompt[p].of = prompt[q].of => p = q

(* A coordinator that answers Busy has a dialog whose answer will free it: *)
(* no order of steps leaves the status Pending behind the last dialog.     *)
PendingMeansDialogOpen ==
  \A g \in Coordinator :
    status[g] = "Pending" => \E p \in Prompt : prompt[p].of = g /\ Open(p)

(* A QR token pays for exactly one prompt: it is burned when and only when *)
(* a prompt was reserved with it, never by a request answered Busy, and    *)
(* never twice (try_consume, request_with_session).                        *)
TokenBuysOnePrompt ==
  \A t \in Token :
    LET shownFor == {p \in Prompt : prompt[p].cred = t}
        reservedBy == {h \in Handler : Reserved(h) /\ req[h].cred = t}
    IN Cardinality(shownFor) + Cardinality(reservedBy)
         = IF t \in consumed THEN 1 ELSE 0

(* Two prompts of one coordinator are reserved at least PROMPT_COOLDOWN    *)
(* apart, whatever the requests that race for the reservation.             *)
CooldownSpacesPrompts ==
  [][\A g \in Coordinator :
       lastPrompt'[g] # lastPrompt[g] /\ lastPrompt[g] # Never =>
         lastPrompt'[g] - lastPrompt[g] >= PROMPT_COOLDOWN]_lastPrompt

(* A device that a status read called denied is registered later only when *)
(* its enrollment had expired or its dialog belongs to a coordinator that  *)
(* a restart replaced (commit_valid, pairing_status).                      *)
DeniedOnlyIfExpiredOrReplaced ==
  \A d \in denied \cap registry :
    \/ Expired(d)
    \/ \E p \in Prompt : prompt[p].claimed = d /\ prompt[p].of < server

(* Once a dialog is answered, its coordinator takes requests again.        *)
AnswerFreesCoordinator ==
  \A p \in Prompt :
    prompt[p].pc \in {"deny", "register", "unqueue", "record"}
      ~> status[prompt[p].of] # "Pending"

(* What the comments in pairing_status and commit_valid say without        *)
(* exception: a status read never reports a false denial of a device that  *)
(* is about to be registered.                                              *)
NoFalseDenial == denied \cap registry = {}

(* What the reset dialog announces, "Every phone will need to re-scan a    *)
(* fresh pairing code afterwards": once a reset is over, every registered  *)
(* phone asked for its enrollment after it.                                *)
ResetRequiresRescan ==
  tray = "idle" =>
    \A d \in registry :
      \E p \in Prompt : prompt[p].claimed = d /\ prompt[p].era = resets

---------------------------------------------------------------------------
(* The inductive invariant behind the four safety properties on dialogs.   *)

\* Only a committed record reaches register_with_id and what follows it.
ClaimInv ==
  \A p \in Prompt :
    prompt[p].pc \in {"register", "unqueue"} => prompt[p].claimed # NoDevice

\* Times that a request in flight has read lie in its stall window.
StallInv ==
  \A h \in Handler :
    /\ InFlight(h) => /\ 0 <= req[h].since /\ req[h].since <= now
                      /\ now <= req[h].since + MAX_STALL
    /\ req[h].pc \in {"consume", "queue", "show"} =>
         req[h].since <= req[h].stamp /\ req[h].stamp <= now

\* A coordinator's next or current dialog has one owner: a request that
\* reserved it, or the notifier thread that shows it.
OwnerInv ==
  /\ \A h, k \in Handler : Reserved(h) /\ Reserved(k) => h = k
  /\ OneDialogPerCoordinator
  /\ \A h \in Handler, p \in Prompt :
       Reserved(h) /\ Open(p) => prompt[p].of # server

\* The bound under which the status check and the reservation act as one.
ShortStall == 2 * MAX_STALL < PROMPT_COOLDOWN

Owned == (\E h \in Handler : Reserved(h))
           \/ \E p \in Prompt : Open(p) /\ prompt[p].of = server

\* The holder of last_prompt_at that passed the cooldown has no rival; a
\* request that read the status before its rival set it to Pending is too
\* early for the cooldown its rival stamped.
CooldownInv ==
  /\ \A h \in Handler :
       req[h].pc = "consume" =>
         ~Owned /\ \A k \in Handler : req[k].pc = "consume" => k = h
  /\ \A h \in Handler :
       Reserved(h) => lastPrompt[server] = req[h].stamp
  /\ \A h \in Handler :
       req[h].pc = "lock" /\ Owned =>
         /\ lastPrompt[server] # Never
         /\ req[h].since + MAX_STALL < lastPrompt[server] + PROMPT_COOLDOWN

PendingInv ==
  \A g \in Coordinator :
    status[g] = "Pending" <=> \E p \in Prompt : prompt[p].of = g /\ Open(p)

\* A device id in use has its requested_at, which never changes again.
BornInv ==
  /\ \A d \in Device : requestedAt[d] # Never => requestedAt[d] >= 0
  /\ \A g \in Coordinator : slot[g] # NoDevice => requestedAt[slot[g]] # Never
  /\ \A h \in Handler :
       req[h].dev # NoDevice => requestedAt[req[h].dev] # Never
  /\ \A p \in Prompt :
       prompt[p].asked # NoDevice => requestedAt[prompt[p].asked] # Never

\* A device waits in a slot only on behalf of the owner of its dialog.
Queued(g, d) ==
  \/ \E h \in Handler : req[h].pc = "show" /\ g = server /\ req[h].dev = d
  \/ \E p \in Prompt : /\ prompt[p].pc \in {"hint", "dialog", "register",
                                            "unqueue"}
                       /\ prompt[p].of = g /\ prompt[p].asked = d
SlotInv ==
  /\ \A g \in Coordinator : Waiting(g) # NoDevice => Queued(g, Waiting(g))
  /\ \A h \in Handler :
       req[h].pc = "show" /\ req[h].dev # NoDevice => slot[server] = req[h].dev
  /\ \A p \in Prompt :
       prompt[p].pc \in {"hint", "dialog"} /\ prompt[p].asked # NoDevice =>
         slot[prompt[p].of] = prompt[p].asked

\* Until its record expires, the dialog names the device it was opened for.
HintInv ==
  \A p \in Prompt :
    /\ prompt[p].pc = "hint" => prompt[p].claimed = NoDevice
    /\ prompt[p].pc = "dialog" /\ prompt[p].asked # NoDevice =>
         Expired(prompt[p].asked) \/ prompt[p].shown = prompt[p].asked

DialogInv ==
  /\ StallInv /\ OwnerInv /\ CooldownInv /\ PendingInv /\ BornInv /\ SlotInv
  /\ HintInv /\ PromptGrantsOnlyItsDevice /\ ApprovedPromptRegistersItsDevice
IInv == TypeOK /\ ClaimInv /\ DialogInv
=============================================================================
