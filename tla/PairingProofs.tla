--------------------------- MODULE PairingProofs ---------------------------
(* Proofs about Pairing, for every number of requests, dialogs, devices,   *)
(* server runs and resets and for every length of the time constants.      *)
EXTENDS Pairing, TLAPS

---------------------------------------------------------------------------
(* Type correctness.  register_with_id is reached with a device only,      *)
(* which is why TypeOK is proved together with ClaimInv.                   *)

TypeInv == TypeOK /\ ClaimInv

\* The records a request and a notifier thread start from and move through.
LEMMA NullRecords == IdleRequest \in RequestRecord /\ NoPrompt \in PromptRecord
BY ServersAssumption DEF IdleRequest, NoPrompt, RequestRecord, PromptRecord,
                         RequestPC, PromptPC, Coordinator

LEMMA NewRecords ==
  ASSUME TypeOK, NEW d \in Device \cup {NoDevice},
         NEW c \in Token \cup {NoToken}
  PROVE  NewRequest(d, c) \in RequestRecord /\ NewPrompt(d, c) \in PromptRecord
BY DEF NewRequest, NewPrompt, RequestRecord, PromptRecord, RequestPC, PromptPC,
       TypeOK

LEMMA RequestMoves ==
  ASSUME NEW r \in RequestRecord, NEW pc \in RequestPC, NEW t \in Int
  PROVE  /\ [r EXCEPT !.pc = pc] \in RequestRecord
         /\ [r EXCEPT !.pc = pc, !.since = t] \in RequestRecord
         /\ [r EXCEPT !.pc = pc, !.stamp = t] \in RequestRecord
BY DEF RequestRecord

LEMMA PromptMoves ==
  ASSUME NEW r \in PromptRecord, NEW pc \in PromptPC,
         NEW d \in Device \cup {NoDevice}
  PROVE  /\ [r EXCEPT !.pc = pc] \in PromptRecord
         /\ [r EXCEPT !.pc = pc, !.shown = d] \in PromptRecord
         /\ [r EXCEPT !.pc = pc, !.claimed = d] \in PromptRecord
BY DEF PromptRecord

LEMMA InitType == Init => TypeInv
<1> SUFFICES ASSUME Init PROVE TypeInv
  OBVIOUS
<1>1. req \in [Handler -> RequestRecord] /\ prompt \in [Prompt -> PromptRecord]
  BY NullRecords DEF Init
<1>2. TypeOK
  <2>1. now \in 0..MAX_NOW /\ server \in Coordinator
    BY TimeAssumption, ServersAssumption DEF Init, Coordinator
  <2>2. /\ status \in [Coordinator -> {"Idle", "Pending", "Approved", "Denied"}]
        /\ slot \in [Coordinator -> Device \cup {NoDevice}]
        /\ session \in [Coordinator -> Token \cup {NoToken}]
    BY DEF Init
  <2>3. /\ lastPrompt \in [Coordinator -> Int]
        /\ requestedAt \in [Device -> Int]
        /\ mintedAt \in [Token -> Int]
    BY DEF Init, Never
  <2>4. /\ consumed \in SUBSET Token /\ registry \in SUBSET Device
        /\ allow \in Capabilities /\ poll \in Device \cup {NoDevice}
        /\ denied \in SUBSET Device /\ resets \in Nat
        /\ tray \in {"idle", "resetConfig", "resetRestart"}
    BY DEF Init, Capabilities, AllOff
  <2>. QED  BY <1>1, <2>1, <2>2, <2>3, <2>4 DEF TypeOK
<1>3. ClaimInv
  BY DEF Init, ClaimInv, NoPrompt
<1>. QED  BY <1>2, <1>3 DEF TypeInv

LEMMA RequestType ==
  ASSUME NEW h \in Handler, TypeInv, Request(h) PROVE TypeInv'
<1> USE DEF TypeInv, TypeOK, slotVars, sessVars, clockVars, trayVars
<1>r. /\ req[h] \in RequestRecord /\ now \in Int
      /\ IdleRequest \in RequestRecord /\ NoPrompt \in PromptRecord
      /\ req[h].dev \in Device \cup {NoDevice}
      /\ req[h].cred \in Token \cup {NoToken} /\ req[h].stamp \in Int
  BY NullRecords, TimeAssumption DEF RequestRecord
<1>p. \A pc \in RequestPC :
        /\ [req[h] EXCEPT !.pc = pc] \in RequestRecord
        /\ [req[h] EXCEPT !.pc = pc, !.since = now] \in RequestRecord
        /\ [req[h] EXCEPT !.pc = pc, !.stamp = now] \in RequestRecord
  BY <1>r, RequestMoves
<1>1. ASSUME NEW d \in Device \cup {NoDevice}, NEW c \in Token \cup {NoToken},
             Arrive(h, d, c), requestedAt' \in [Device -> Int]
      PROVE  TypeInv'
  BY <1>1, NewRecords DEF Arrive, ClaimInv
<1>2. CASE PairingEnroll(h)
  BY <1>1, <1>2, <1>r DEF PairingEnroll
<1>3. CASE PairingActivate(h)
  BY <1>1, <1>3 DEF PairingActivate
<1>4. CASE CheckStatus(h)
  BY <1>4, <1>r, <1>p DEF CheckStatus, Refuse, ClaimInv, RequestPC
<1>5. CASE LockCooldown(h)
  BY <1>5, <1>r, <1>p DEF LockCooldown, Refuse, ClaimInv, RequestPC
<1>6. CASE ConsumeSession(h)
  BY <1>6, <1>r, <1>p DEF ConsumeSession, Refuse, ClaimInv, RequestPC
<1>7. CASE QueueEnrollment(h)
  BY <1>7, <1>r, <1>p DEF QueueEnrollment, ClaimInv, RequestPC
<1>8. CASE ShowPrompt(h)
  <2>1. NewPrompt(req[h].dev, req[h].cred) \in PromptRecord
    BY <1>r, NewRecords
  <2>2. NewPrompt(req[h].dev, req[h].cred).pc = "hint"
    BY DEF NewPrompt
  <2>. QED  BY <2>1, <2>2, <1>8, <1>r DEF ShowPrompt, Unspawned, ClaimInv
<1>. QED  BY <1>2, <1>3, <1>4, <1>5, <1>6, <1>7, <1>8 DEF Request

(* Every step of a notifier thread changes its own record only. *)
LEMMA PromptStep ==
  ASSUME NEW p \in Prompt, TypeInv, NEW r \in PromptRecord,
         prompt' = [prompt EXCEPT ![p] = r],
         r.pc \in {"register", "unqueue"} => r.claimed # NoDevice
  PROVE  prompt' \in [Prompt -> PromptRecord] /\ ClaimInv'
BY DEF TypeInv, TypeOK, ClaimInv

LEMMA NotifierType ==
  ASSUME NEW p \in Prompt, TypeInv, Notifier(p) PROVE TypeInv'
<1>r. /\ prompt[p] \in PromptRecord /\ prompt[p].of \in Coordinator
      /\ prompt[p].claimed \in Device \cup {NoDevice}
      /\ Waiting(prompt[p].of) \in Device \cup {NoDevice}
  BY DEF TypeInv, TypeOK, PromptRecord, Waiting
<1>m. \A pc \in PromptPC \ {"register", "unqueue"} :
        Move(p, pc) => prompt' \in [Prompt -> PromptRecord] /\ ClaimInv'
  <2> SUFFICES ASSUME NEW pc \in PromptPC \ {"register", "unqueue"},
                      Move(p, pc)
               PROVE  prompt' \in [Prompt -> PromptRecord] /\ ClaimInv'
    OBVIOUS
  <2>1. prompt' = [prompt EXCEPT ![p] = [prompt[p] EXCEPT !.pc = pc]]
    BY DEF Move
  <2>2. [prompt[p] EXCEPT !.pc = pc] \in PromptRecord
    BY <1>r, PromptMoves
  <2>3. [prompt[p] EXCEPT !.pc = pc].pc \notin {"register", "unqueue"}
    BY <1>r DEF PromptRecord
  <2>. QED  BY <2>1, <2>2, <2>3, PromptStep
<1>1. CASE ReadHint(p)
  <2> DEFINE r == [prompt[p] EXCEPT !.pc = "dialog",
                                    !.shown = Waiting(prompt[p].of)]
  <2>1. prompt' = [prompt EXCEPT ![p] = r]  BY <1>1 DEF ReadHint
  <2>2. r \in PromptRecord  BY <1>r, PromptMoves DEF PromptPC
  <2>3. r.pc = "dialog"  BY <1>r DEF PromptRecord
  <2>4. prompt' \in [Prompt -> PromptRecord] /\ ClaimInv'
    BY <2>1, <2>2, <2>3, PromptStep
  <2>. QED
    BY <2>4, <1>1 DEF ReadHint, TypeInv, TypeOK, slotVars, sessVars, clockVars,
                     trayVars
<1>2. CASE AnswerNo(p)
  <2>1. prompt' \in [Prompt -> PromptRecord] /\ ClaimInv'
    BY <1>2, <1>m DEF AnswerNo, PromptPC
  <2>. QED
    BY <2>1, <1>2, <1>r DEF AnswerNo, TypeInv, TypeOK, slotVars, sessVars,
                         clockVars, trayVars
<1>3. CASE RecordDenial(p)
  <2>1. prompt' \in [Prompt -> PromptRecord] /\ ClaimInv'
    BY <1>3, <1>m DEF RecordDenial, PromptPC
  <2>. QED
    BY <2>1, <1>3, <1>r DEF RecordDenial, TypeInv, TypeOK, slotVars, sessVars,
                         clockVars, trayVars
<1>4. CASE AnswerYes(p)
  <2> DEFINE w == Waiting(prompt[p].of)
             pc == IF w = NoDevice THEN "record" ELSE "register"
             r == [prompt[p] EXCEPT !.pc = pc, !.claimed = w]
  <2>1. prompt' = [prompt EXCEPT ![p] = r]  BY <1>4 DEF AnswerYes
  <2>2. pc \in PromptPC  BY DEF PromptPC
  <2>3. r \in PromptRecord  BY <2>2, <1>r, PromptMoves
  <2>4. r.pc \in {"register", "unqueue"} => r.claimed # NoDevice
    BY <1>r DEF PromptRecord
  <2>5. prompt' \in [Prompt -> PromptRecord] /\ ClaimInv'
    BY <2>1, <2>3, <2>4, PromptStep
  <2>. QED
    BY <2>5, <1>4 DEF AnswerYes, TypeInv, TypeOK, slotVars, sessVars, clockVars,
                     trayVars
<1>5. CASE Register(p)
  <2> DEFINE r == [prompt[p] EXCEPT !.pc = "unqueue"]
  <2>1. prompt' = [prompt EXCEPT ![p] = r]  BY <1>5 DEF Register, Move
  <2>2. r \in PromptRecord  BY <1>r, PromptMoves DEF PromptPC
  <2>3. prompt[p].claimed \in Device
    BY <1>5, <1>r DEF Register, TypeInv, ClaimInv
  <2>4. r.claimed # NoDevice
    BY <1>r, <2>3, NullAssumption DEF PromptRecord
  <2>5. prompt' \in [Prompt -> PromptRecord] /\ ClaimInv'
    BY <2>1, <2>2, <2>4, PromptStep
  <2>. QED
    BY <2>3, <2>5, <1>5, <1>r DEF Register, TypeInv, TypeOK, slotVars, sessVars,
                         clockVars, trayVars
<1>6. CASE Unqueue(p)
  <2>1. prompt' \in [Prompt -> PromptRecord] /\ ClaimInv'
    BY <1>6, <1>m DEF Unqueue, PromptPC
  <2>. QED
    BY <2>1, <1>6, <1>r DEF Unqueue, TypeInv, TypeOK, slotVars, sessVars,
                         clockVars, trayVars
<1>7. CASE RecordApproval(p)
  <2>1. prompt' \in [Prompt -> PromptRecord] /\ ClaimInv'
    BY <1>7, <1>m DEF RecordApproval, PromptPC
  <2>. QED
    BY <2>1, <1>7, <1>r DEF RecordApproval, TypeInv, TypeOK, slotVars, sessVars,
                         clockVars, trayVars
<1>8. CASE GrantCapabilities(p)
  <2>1. prompt' \in [Prompt -> PromptRecord] /\ ClaimInv'
    BY <1>8, <1>m DEF GrantCapabilities, PromptPC
  <2>. QED
    BY <2>1, <1>8, <1>r DEF GrantCapabilities, TypeInv, TypeOK, slotVars, sessVars,
                         clockVars, trayVars, Capabilities, AllOn
<1>. QED  BY <1>1, <1>2, <1>3, <1>4, <1>5, <1>6, <1>7, <1>8 DEF Notifier

LEMMA TrayType == ASSUME TypeInv, Tray PROVE TypeInv'
<1> USE DEF TypeInv, TypeOK, ClaimInv, slotVars, sessVars, clockVars, trayVars
<1>1. CASE MintSession
  <2>1. PICK t \in Token : /\ mintedAt' = [mintedAt EXCEPT ![t] = now]
                           /\ session' = [session EXCEPT ![server] = t]
    BY <1>1 DEF MintSession
  <2>2. mintedAt' \in [Token -> Int]
    BY <2>1, TimeAssumption
  <2>3. session' \in [Coordinator -> Token \cup {NoToken}]
    BY <2>1
  <2>. QED  BY <1>1, <2>2, <2>3 DEF MintSession
<1>2. CASE RevokeAll  BY <1>2 DEF RevokeAll
<1>3. CASE RestartServer
  BY <1>3, ServersAssumption DEF RestartServer, NewServer, Coordinator
<1>4. CASE ResetRegistry  BY <1>4 DEF ResetRegistry
<1>5. CASE ResetConfig
  <2>1. tray' \in {"idle", "resetConfig", "resetRestart"} /\ allow' \in Capabilities
    BY <1>5 DEF ResetConfig, Capabilities, AllOff
  <2>2. resets' \in Nat
    BY <1>5 DEF ResetConfig
  <2>. QED  BY <1>5, <2>1, <2>2 DEF ResetConfig
<1>6. CASE ResetRestart
  BY <1>6, ServersAssumption DEF ResetRestart, NewServer, Coordinator
<1>7. ASSUME NEW d \in Device, RevokeDevice(d) PROVE TypeInv'
  BY <1>7 DEF RevokeDevice
<1>8. CASE ReloadConfig
  BY <1>8, EditedAssumption DEF ReloadConfig
<1>. QED  BY <1>1, <1>2, <1>3, <1>4, <1>5, <1>6, <1>7, <1>8 DEF Tray

LEMMA NextType == TypeInv /\ [Next]_vars => TypeInv'
<1> SUFFICES ASSUME TypeInv, [Next]_vars PROVE TypeInv'
  OBVIOUS
<1>1. CASE Tick
  BY <1>1, TimeAssumption DEF Tick, TypeInv, TypeOK, ClaimInv
<1>2. CASE PollSlot
  BY <1>2 DEF PollSlot, TypeInv, TypeOK, ClaimInv, slotVars, sessVars,
              clockVars, trayVars
<1>3. ASSUME NEW d \in Device, PollRegistry(d) PROVE TypeInv'
  BY <1>3 DEF PollRegistry, TypeInv, TypeOK, ClaimInv, slotVars, sessVars,
              clockVars, trayVars
<1>4. CASE UNCHANGED vars
  BY <1>4 DEF vars, TypeInv, TypeOK, ClaimInv
<1>. QED
  BY <1>1, <1>2, <1>3, <1>4, RequestType, NotifierType, TrayType DEF Next

(* Every variable of the pairing flow keeps its type, and a registered     *)
(* device is always a device (PairingCoordinator, EnrollmentSlot,          *)
(* DeviceRegistry).                                                        *)
THEOREM TypeCorrect == Spec => []TypeOK
<1>1. TypeInv => TypeOK  BY DEF TypeInv
<1>. QED  BY InitType, NextType, <1>1, PTL DEF Spec

---------------------------------------------------------------------------
(* The dialog invariant.  Its steps are proved one action at a time, each  *)
(* from the types of the fields that the action reads.                     *)

Typed ==
  /\ now \in Int /\ server \in Coordinator
  /\ MAX_STALL \in Nat /\ PROMPT_COOLDOWN \in Nat /\ ENROLLMENT_TTL \in Nat
  /\ \A g \in Coordinator :
       lastPrompt[g] \in Int /\ slot[g] \in Device \cup {NoDevice}
  /\ \A d \in Device : requestedAt[d] \in Int
  /\ \A h \in Handler :
       /\ req[h].since \in Int /\ req[h].stamp \in Int
       /\ req[h].dev \in Device \cup {NoDevice}
  /\ \A p \in Prompt :
       /\ prompt[p].of \in Coordinator
       /\ prompt[p].asked \in Device \cup {NoDevice}
       /\ prompt[p].shown \in Device \cup {NoDevice}
       /\ prompt[p].claimed \in Device \cup {NoDevice}

LEMMA TypedFacts == TypeOK => Typed
<1> SUFFICES ASSUME TypeOK PROVE Typed
  OBVIOUS
<1>1. \A h \in Handler : req[h] \in RequestRecord
  BY DEF TypeOK
<1>2. \A p \in Prompt : prompt[p] \in PromptRecord
  BY DEF TypeOK
<1>3. /\ now \in Int /\ server \in Coordinator
      /\ MAX_STALL \in Nat /\ PROMPT_COOLDOWN \in Nat /\ ENROLLMENT_TTL \in Nat
  BY TimeAssumption DEF TypeOK
<1>4. /\ \A g \in Coordinator :
           lastPrompt[g] \in Int /\ slot[g] \in Device \cup {NoDevice}
      /\ \A d \in Device : requestedAt[d] \in Int
  BY DEF TypeOK
<1>. QED  BY <1>1, <1>2, <1>3, <1>4 DEF Typed, RequestRecord, PromptRecord


LEMMA InitDialog == Init => DialogInv
<1> SUFFICES ASSUME Init PROVE DialogInv
  OBVIOUS
<1>1. /\ \A h \in Handler : req[h] = IdleRequest
      /\ \A p \in Prompt : prompt[p] = NoPrompt
      /\ \A g \in Coordinator : status[g] = "Idle" /\ slot[g] = NoDevice
      /\ \A d \in Device : requestedAt[d] = Never
  BY DEF Init
<1>2. /\ \A h \in Handler : req[h].pc = "idle" /\ req[h].dev = NoDevice
      /\ \A p \in Prompt : /\ prompt[p].pc = "none"
                           /\ prompt[p].asked = NoDevice
                           /\ prompt[p].claimed = NoDevice
  BY <1>1 DEF IdleRequest, NoPrompt
<1>3. StallInv /\ OwnerInv /\ CooldownInv /\ PendingInv
  BY <1>1, <1>2 DEF StallInv, InFlight, OwnerInv, OneDialogPerCoordinator,
     CooldownInv, PendingInv, Reserved, Open
<1>4. BornInv /\ SlotInv /\ HintInv
  BY <1>1, <1>2 DEF BornInv, SlotInv, HintInv, Waiting
<1>5. PromptGrantsOnlyItsDevice /\ ApprovedPromptRegistersItsDevice
  BY <1>2 DEF PromptGrantsOnlyItsDevice, ApprovedPromptRegistersItsDevice
<1>. QED  BY <1>3, <1>4, <1>5 DEF DialogInv

\* A request that starts, or ends before it reserved a prompt, is no owner.
LEMMA QuietRequest ==
  ASSUME NEW h \in Handler, IInv, NEW r,
         req' = [req EXCEPT ![h] = r], r.pc \in {"idle", "check"},
         req[h].pc # "show",
         UNCHANGED <<now, server, slotVars, prompt>>,
         r.dev # NoDevice => requestedAt'[r.dev] # Never,
         \A d \in Device : /\ requestedAt[d] # Never =>
                                requestedAt'[d] = requestedAt[d]
                           /\ requestedAt'[d] # Never => requestedAt'[d] >= 0
  PROVE  DialogInv'
<1>t. Typed  BY TypedFacts DEF IInv
<1>r. /\ req'[h] = r
      /\ \A k \in Handler : k # h => req'[k] = req[k]
  BY DEF IInv, TypeOK
<1> USE DEF IInv, DialogInv, slotVars
<1>1. StallInv'
  BY <1>r DEF StallInv, InFlight
<1>2. OwnerInv'
  BY <1>r DEF OwnerInv, OneDialogPerCoordinator, Reserved, Open
<1>3. CooldownInv'
  BY <1>r DEF CooldownInv, Owned, Reserved, Open
<1>4. PendingInv'
  BY DEF PendingInv, Open
<1>5. BornInv'
  BY <1>t, <1>r DEF BornInv, Typed
<1>w. /\ \A d \in Device : requestedAt[d] # Never => Expired(d)' = Expired(d)
      /\ \A g \in Coordinator : Waiting(g)' = Waiting(g)
  BY <1>t DEF Waiting, Expired, BornInv, Typed
<1>6. SlotInv'
  <2>1. \A g \in Coordinator, d \in Device : Queued(g, d) => Queued(g, d)'
    BY <1>r DEF Queued
  <2>2. \A g \in Coordinator : Waiting(g) # NoDevice => Waiting(g) \in Device
    BY <1>t DEF Waiting, Typed
  <2>. QED  BY <1>r, <1>w, <2>1, <2>2 DEF SlotInv
<1>7. HintInv'
  BY <1>t, <1>w DEF HintInv, BornInv, Typed
<1>8. PromptGrantsOnlyItsDevice'
  BY DEF PromptGrantsOnlyItsDevice
<1>9. ApprovedPromptRegistersItsDevice'
  BY <1>t, <1>w DEF ApprovedPromptRegistersItsDevice, BornInv, Typed
<1>. QED  BY <1>1, <1>2, <1>3, <1>4, <1>5, <1>6, <1>7, <1>8, <1>9

\* An answer without a prompt: the request just ends.
LEMMA RefusedRequest ==
  ASSUME NEW h \in Handler, IInv, Refuse(h), req[h].pc # "show",
         UNCHANGED <<now, server, slotVars, requestedAt, prompt>>
  PROVE  DialogInv'
<1>1. IdleRequest.pc = "idle" /\ IdleRequest.dev = NoDevice
  BY DEF IdleRequest
<1>2. \A d \in Device : requestedAt[d] # Never => requestedAt[d] >= 0
  BY DEF IInv, DialogInv, BornInv
<1>. QED  BY <1>1, <1>2, QuietRequest DEF Refuse

LEMMA ArriveDialog ==
  ASSUME NEW h \in Handler, IInv, PairingEnroll(h) \/ PairingActivate(h)
  PROVE  DialogInv'
<1>1. PICK d \in Device \cup {NoDevice}, c \in Token \cup {NoToken} :
        /\ Arrive(h, d, c)
        /\ \/ /\ d \in Device /\ requestedAt[d] = Never
              /\ requestedAt' = [requestedAt EXCEPT ![d] = now]
           \/ d = NoDevice /\ requestedAt' = requestedAt
  BY DEF PairingEnroll, PairingActivate
<1> DEFINE r == NewRequest(d, c)
<1>2. r.pc = "check" /\ r.dev = d
  BY DEF NewRequest
<1>3. /\ req' = [req EXCEPT ![h] = r] /\ req[h].pc # "show"
      /\ UNCHANGED <<now, server, slotVars, prompt>>
  BY <1>1 DEF Arrive, trayVars
<1>4. now \in Nat /\ requestedAt \in [Device -> Int] /\ NoDevice \notin Device
  BY TimeAssumption, NullAssumption DEF IInv, TypeOK
<1>5. \A e \in Device : /\ requestedAt[e] # Never =>
                             requestedAt'[e] = requestedAt[e]
                        /\ requestedAt'[e] # Never => requestedAt'[e] >= 0
  BY <1>1, <1>4 DEF IInv, DialogInv, BornInv, Never
<1>6. r.dev # NoDevice => requestedAt'[r.dev] # Never
  BY <1>1, <1>2, <1>4 DEF Never
<1> HIDE DEF r
<1>. QED  BY <1>2, <1>3, <1>5, <1>6, QuietRequest

\* A request that advances short of a reservation disturbs nothing but the
\* invariants on its own times.
LEMMA AdvancingRequest ==
  ASSUME NEW h \in Handler, IInv, NEW r \in RequestRecord,
         req' = [req EXCEPT ![h] = r],
         req[h].pc \in {"check", "lock"}, r.pc \in {"lock", "consume"},
         r.dev = req[h].dev,
         UNCHANGED <<now, server, slotVars, requestedAt, prompt>>
  PROVE  /\ OwnerInv' /\ PendingInv' /\ BornInv' /\ SlotInv' /\ HintInv'
         /\ PromptGrantsOnlyItsDevice' /\ ApprovedPromptRegistersItsDevice'
<1>r. /\ req'[h] = r
      /\ \A k \in Handler : k # h => req'[k] = req[k]
  BY DEF IInv, TypeOK
<1> USE DEF IInv, DialogInv, slotVars
<1>1. OwnerInv'
  BY <1>r DEF OwnerInv, OneDialogPerCoordinator, Reserved, Open
<1>2. PendingInv'
  BY DEF PendingInv, Open
<1>3. BornInv'
  BY <1>r DEF BornInv
<1>4. SlotInv'
  <2>1. \A d : \A g \in Coordinator : Queued(g, d) => Queued(g, d)'
    BY <1>r DEF Queued
  <2>2. \A g \in Coordinator : Waiting(g)' = Waiting(g)
    BY DEF Waiting, Expired
  <2>. QED  BY <1>r, <2>1, <2>2 DEF SlotInv
<1>5. HintInv' /\ PromptGrantsOnlyItsDevice' /\ ApprovedPromptRegistersItsDevice'
  BY DEF HintInv, PromptGrantsOnlyItsDevice, ApprovedPromptRegistersItsDevice,
         Expired
<1>. QED  BY <1>1, <1>2, <1>3, <1>4, <1>5

\* The step that needs ShortStall: a request finds the status not Pending
\* while another one is between its reservation and its status update.
LEMMA CheckStatusDialog ==
  ASSUME ShortStall, NEW h \in Handler, IInv, CheckStatus(h) PROVE DialogInv'
<1>t. Typed /\ req \in [Handler -> RequestRecord] /\ now \in Nat
  BY TypedFacts, TimeAssumption DEF IInv, TypeOK
<1>1. CASE status[server] = "Pending"
  BY <1>1, RefusedRequest DEF CheckStatus, clockVars, trayVars
<1>2. CASE status[server] # "Pending"
  <2> DEFINE r == [req[h] EXCEPT !.pc = "lock", !.since = now]
  <2>1. req' = [req EXCEPT ![h] = r]
    BY <1>2 DEF CheckStatus
  <2>2. r \in RequestRecord
    <3>1. req[h] \in RequestRecord /\ "lock" \in RequestPC /\ now \in Int
      BY <1>t DEF RequestPC
    <3>. QED  BY <3>1, RequestMoves
  <2>3. /\ r.pc = "lock" /\ r.since = now /\ r.dev = req[h].dev
        /\ req[h].pc = "check"
    BY <1>2, <1>t DEF CheckStatus, RequestRecord
  <2>4. UNCHANGED <<now, server, slotVars, requestedAt, prompt>>
    BY <1>2 DEF CheckStatus, clockVars, trayVars
  <2>5. /\ OwnerInv' /\ PendingInv' /\ BornInv' /\ SlotInv' /\ HintInv'
        /\ PromptGrantsOnlyItsDevice' /\ ApprovedPromptRegistersItsDevice'
    <3> HIDE DEF r
    <3>. QED  BY <2>1, <2>2, <2>3, <2>4, AdvancingRequest
  <2>r. /\ req'[h].pc = "lock" /\ req'[h].since = now
        /\ \A k \in Handler : k # h => req'[k] = req[k]
    BY <1>t, <2>1, <2>3
  <2>6. StallInv'
    BY <1>t, <2>4, <2>r DEF IInv, DialogInv, StallInv, InFlight, Typed
  <2>o. /\ Owned' => Owned
        /\ \A k \in Handler : Reserved(k)' => Reserved(k)
    BY <2>4, <2>r DEF Owned, Reserved, Open
  <2>7. Owned => /\ lastPrompt[server] # Never
                 /\ now + MAX_STALL < lastPrompt[server] + PROMPT_COOLDOWN
    <3> SUFFICES ASSUME Owned
                 PROVE  /\ lastPrompt[server] # Never
                        /\ now + MAX_STALL < lastPrompt[server] + PROMPT_COOLDOWN
      OBVIOUS
    <3>1. PICK k \in Handler : Reserved(k)
      BY <1>t, <1>2 DEF Owned, IInv, DialogInv, PendingInv, Typed
    <3>2. /\ lastPrompt[server] = req[k].stamp
          /\ 0 <= req[k].since /\ req[k].since <= req[k].stamp
          /\ now <= req[k].since + MAX_STALL
      BY <3>1 DEF IInv, DialogInv, CooldownInv, StallInv, Reserved, InFlight
    <3>. QED  BY <1>t, <3>2 DEF ShortStall, Typed, Never
  <2>8. CooldownInv'
    BY <2>4, <2>r, <2>o, <2>7 DEF IInv, DialogInv, CooldownInv, slotVars, Reserved
  <2>. QED  BY <2>5, <2>6, <2>8 DEF DialogInv
<1>. QED  BY <1>1, <1>2

\* A request that passes the cooldown has no rival: with one, it would have
\* read the status too early.
LEMMA LockCooldownDialog ==
  ASSUME NEW h \in Handler, IInv, LockCooldown(h) PROVE DialogInv'
<1>t. Typed /\ req \in [Handler -> RequestRecord] /\ now \in Nat
  BY TypedFacts, TimeAssumption DEF IInv, TypeOK
<1>1. CASE Refuse(h)
  BY <1>1, RefusedRequest DEF LockCooldown, clockVars, trayVars
<1>2. CASE ~Refuse(h)
  <2> DEFINE r == [req[h] EXCEPT !.pc = "consume", !.stamp = now]
  <2>1. /\ req' = [req EXCEPT ![h] = r]
        /\ \/ lastPrompt[server] = Never
           \/ now - lastPrompt[server] >= PROMPT_COOLDOWN
        /\ \A k \in Handler : req[k].pc # "consume"
    BY <1>2 DEF LockCooldown, CooldownLockFree
  <2>2. r \in RequestRecord
    <3>1. req[h] \in RequestRecord /\ "consume" \in RequestPC /\ now \in Int
      BY <1>t DEF RequestPC
    <3>. QED  BY <3>1, RequestMoves
  <2>3. /\ r.pc = "consume" /\ r.stamp = now /\ r.dev = req[h].dev
        /\ r.since = req[h].since /\ req[h].pc = "lock"
    BY <1>2, <1>t DEF LockCooldown, RequestRecord
  <2>4. UNCHANGED <<now, server, slotVars, requestedAt, prompt>>
    BY <1>2 DEF LockCooldown, clockVars, trayVars
  <2>5. /\ OwnerInv' /\ PendingInv' /\ BornInv' /\ SlotInv' /\ HintInv'
        /\ PromptGrantsOnlyItsDevice' /\ ApprovedPromptRegistersItsDevice'
    <3> HIDE DEF r
    <3>. QED  BY <2>1, <2>2, <2>3, <2>4, AdvancingRequest
  <2>r. /\ req'[h].pc = "consume" /\ req'[h].since = req[h].since
        /\ req'[h].stamp = now
        /\ \A k \in Handler : k # h => req'[k] = req[k]
    BY <1>t, <2>1, <2>3
  <2>6. StallInv'
    BY <1>t, <2>3, <2>4, <2>r DEF IInv, DialogInv, StallInv, InFlight, Typed
  <2>o. /\ Owned' => Owned
        /\ \A k \in Handler : Reserved(k)' => Reserved(k) /\ k # h
    BY <2>4, <2>r DEF Owned, Reserved, Open
  <2>7. ~Owned
    <3>1. now <= req[h].since + MAX_STALL
      BY <2>3 DEF IInv, DialogInv, StallInv, InFlight
    <3>. QED
      BY <1>t, <2>1, <2>3, <3>1 DEF IInv, DialogInv, CooldownInv, Typed
  <2>8. CooldownInv'
    BY <2>1, <2>4, <2>r, <2>o, <2>7
       DEF IInv, DialogInv, CooldownInv, slotVars, Reserved
  <2>. QED  BY <2>5, <2>6, <2>8 DEF DialogInv
<1>. QED  BY <1>1, <1>2

\* The reservation: it makes its request the only owner, and ShortStall puts
\* every request that is still to take the mutex inside the cooldown.
LEMMA ConsumeSessionDialog ==
  ASSUME ShortStall, NEW h \in Handler, IInv, ConsumeSession(h)
  PROVE  DialogInv'
<1>t. Typed /\ req \in [Handler -> RequestRecord]
      /\ lastPrompt \in [Coordinator -> Int]
  BY TypedFacts DEF IInv, TypeOK
<1>1. CASE Refuse(h) /\ UNCHANGED <<lastPrompt, consumed>>
  BY <1>1, RefusedRequest DEF ConsumeSession, clockVars, trayVars, slotVars
<1>2. CASE ~(Refuse(h) /\ UNCHANGED <<lastPrompt, consumed>>)
  <2>1. /\ req' = [req EXCEPT ![h].pc = "queue"]
        /\ lastPrompt' = [lastPrompt EXCEPT ![server] = req[h].stamp]
        /\ req[h].pc = "consume"
        /\ UNCHANGED <<now, server, status, slot, requestedAt, prompt>>
    BY <1>2 DEF ConsumeSession, clockVars, trayVars
  <2>r. /\ req'[h].pc = "queue" /\ req'[h].since = req[h].since
        /\ req'[h].stamp = req[h].stamp /\ req'[h].dev = req[h].dev
        /\ \A k \in Handler : k # h => req'[k] = req[k]
        /\ lastPrompt'[server] = req[h].stamp
    BY <1>t, <2>1 DEF RequestRecord, Typed
  <2>o. /\ ~Owned
        /\ \A k \in Handler : req[k].pc = "consume" => k = h
        /\ 0 <= req[h].since /\ req[h].since <= req[h].stamp
        /\ req[h].stamp <= now /\ now <= req[h].since + MAX_STALL
    BY <2>1 DEF IInv, DialogInv, CooldownInv, StallInv, InFlight
  <2>2. StallInv'
    BY <1>t, <2>1, <2>r, <2>o DEF IInv, DialogInv, StallInv, InFlight
  <2>3. OwnerInv'
    BY <2>1, <2>r, <2>o DEF IInv, DialogInv, OwnerInv, OneDialogPerCoordinator,
       Owned, Reserved, Open
  <2>4. CooldownInv'
    <3>1. \A k \in Handler : Reserved(k)' => k = h
      BY <2>r, <2>o DEF Owned, Reserved
    <3>2. \A k \in Handler : req'[k].pc # "consume"
      BY <2>r, <2>o
    <3>3. \A k \in Handler : req'[k].pc = "lock" =>
            /\ lastPrompt'[server] # Never
            /\ req'[k].since + MAX_STALL < lastPrompt'[server] + PROMPT_COOLDOWN
      <4> SUFFICES ASSUME NEW k \in Handler, req'[k].pc = "lock"
                   PROVE /\ lastPrompt'[server] # Never
                         /\ req'[k].since + MAX_STALL
                              < lastPrompt'[server] + PROMPT_COOLDOWN
        OBVIOUS
      <4>1. req'[k] = req[k] /\ req[k].since <= now
        BY <2>r DEF IInv, DialogInv, StallInv, InFlight
      <4>. QED  BY <1>t, <2>r, <2>o, <4>1 DEF ShortStall, Typed, Never
    <3>. QED  BY <2>1, <2>r, <3>1, <3>2, <3>3 DEF CooldownInv
  <2>5. PendingInv' /\ BornInv'
    BY <2>1, <2>r DEF IInv, DialogInv, PendingInv, Open, BornInv
  <2>6. SlotInv'
    <3>1. \A d : \A g \in Coordinator : Queued(g, d) => Queued(g, d)'
      BY <2>1, <2>r DEF Queued
    <3>2. \A g \in Coordinator : Waiting(g)' = Waiting(g)
      BY <2>1 DEF Waiting, Expired
    <3>. QED  BY <2>1, <2>r, <3>1, <3>2 DEF IInv, DialogInv, SlotInv
  <2>7. HintInv' /\ PromptGrantsOnlyItsDevice' /\ ApprovedPromptRegistersItsDevice'
    BY <2>1 DEF IInv, DialogInv, HintInv, PromptGrantsOnlyItsDevice,
       ApprovedPromptRegistersItsDevice, Expired
  <2>. QED  BY <2>2, <2>3, <2>4, <2>5, <2>6, <2>7 DEF DialogInv
<1>. QED  BY <1>1, <1>2

\* Only the owner writes the slot, and no dialog of this coordinator is open.
LEMMA QueueEnrollmentDialog ==
  ASSUME NEW h \in Handler, IInv, QueueEnrollment(h) PROVE DialogInv'
<1>t. Typed /\ req \in [Handler -> RequestRecord]
      /\ slot \in [Coordinator -> Device \cup {NoDevice}]
  BY TypedFacts DEF IInv, TypeOK
<1>1. /\ req' = [req EXCEPT ![h].pc = "show"]
      /\ slot' = IF req[h].dev = NoDevice THEN slot
                 ELSE [slot EXCEPT ![server] = req[h].dev]
      /\ req[h].pc = "queue"
      /\ UNCHANGED <<now, server, status, lastPrompt, requestedAt, prompt>>
  BY DEF QueueEnrollment, clockVars, trayVars
<1>r. /\ req'[h].pc = "show" /\ req'[h].since = req[h].since
      /\ req'[h].stamp = req[h].stamp /\ req'[h].dev = req[h].dev
      /\ \A k \in Handler : k # h => req'[k] = req[k]
  BY <1>t, <1>1 DEF RequestRecord
<1>s. /\ req[h].dev # NoDevice => slot'[server] = req[h].dev
      /\ req[h].dev = NoDevice => slot' = slot
      /\ \A g \in Coordinator : g # server => slot'[g] = slot[g]
  BY <1>t, <1>1 DEF Typed
<1>o. /\ \A k \in Handler : Reserved(k) => k = h
      /\ \A p \in Prompt : Open(p) => prompt[p].of # server
      /\ \A k \in Handler : Reserved(k)' <=> Reserved(k)
  BY <1>1, <1>r DEF IInv, DialogInv, OwnerInv, Reserved
<1>2. StallInv'
  BY <1>1, <1>r DEF IInv, DialogInv, StallInv, InFlight
<1>3. OwnerInv'
  BY <1>1, <1>o DEF IInv, DialogInv, OwnerInv, OneDialogPerCoordinator, Open
<1>4. CooldownInv'
  <2>1. Owned' = Owned
    BY <1>1, <1>o DEF Owned, Open
  <2>. QED  BY <1>1, <1>r, <1>o, <2>1 DEF IInv, DialogInv, CooldownInv
<1>5. PendingInv'
  BY <1>1 DEF IInv, DialogInv, PendingInv, Open
<1>6. BornInv'
  BY <1>t, <1>1, <1>r, <1>s DEF IInv, DialogInv, BornInv, Typed
<1>7. SlotInv'
  <2>1. ASSUME NEW g \in Coordinator, Waiting(g)' # NoDevice
        PROVE  Queued(g, Waiting(g))'
    <3>1. CASE g = server /\ req[h].dev # NoDevice
      BY <1>1, <1>r, <1>s, <2>1, <3>1 DEF Waiting, Queued
    <3>2. CASE g = server /\ req[h].dev = NoDevice
      <4>1. Waiting(g)' = Waiting(g)
        BY <1>1, <1>s, <3>2 DEF Waiting, Expired
      <4>2. Queued(g, Waiting(g))
        BY <2>1, <4>1 DEF IInv, DialogInv, SlotInv
      <4>3. ~Queued(g, Waiting(g))
        BY <1>1, <1>o, <3>2 DEF Queued, Reserved, Open
      <4>. QED  BY <4>2, <4>3
    <3>3. CASE g # server
      <4>1. Waiting(g)' = Waiting(g)
        BY <1>1, <1>s, <3>3 DEF Waiting, Expired
      <4>. QED
        BY <1>1, <2>1, <3>3, <4>1 DEF IInv, DialogInv, SlotInv, Queued
    <3>. QED  BY <3>1, <3>2, <3>3
  <2>2. ASSUME NEW k \in Handler, req'[k].pc = "show", req'[k].dev # NoDevice
        PROVE  slot'[server] = req'[k].dev
    BY <1>r, <1>s, <1>o, <2>2 DEF Reserved
  <2>3. ASSUME NEW p \in Prompt, prompt[p].pc \in {"hint", "dialog"},
               prompt[p].asked # NoDevice
        PROVE  slot'[prompt[p].of] = prompt[p].asked
    BY <1>t, <1>s, <1>o, <2>3 DEF IInv, DialogInv, SlotInv, Open, Typed
  <2>. QED  BY <1>1, <2>1, <2>2, <2>3 DEF SlotInv
<1>8. HintInv' /\ PromptGrantsOnlyItsDevice' /\ ApprovedPromptRegistersItsDevice'
  BY <1>1 DEF IInv, DialogInv, HintInv, PromptGrantsOnlyItsDevice,
     ApprovedPromptRegistersItsDevice, Expired
<1>. QED  BY <1>2, <1>3, <1>4, <1>5, <1>6, <1>7, <1>8 DEF DialogInv

\* The prompt takes over the ownership of the request that spawned it.
LEMMA ShowPromptDialog ==
  ASSUME NEW h \in Handler, IInv, ShowPrompt(h) PROVE DialogInv'
<1>t. Typed /\ req \in [Handler -> RequestRecord]
      /\ prompt \in [Prompt -> PromptRecord]
  BY TypedFacts DEF IInv, TypeOK
<1>1. PICK p \in Prompt :
        /\ prompt[p].pc = "none"
        /\ prompt' = [prompt EXCEPT ![p] = NewPrompt(req[h].dev, req[h].cred)]
  BY DEF ShowPrompt, Unspawned
<1>2. /\ req[h].pc = "show"
      /\ status' = [status EXCEPT ![server] = "Pending"]
      /\ req' = [req EXCEPT ![h] = IdleRequest]
      /\ UNCHANGED <<now, server, slot, lastPrompt, requestedAt>>
  BY DEF ShowPrompt, clockVars, trayVars
<1>p. /\ prompt'[p].pc = "hint" /\ prompt'[p].of = server
      /\ prompt'[p].asked = req[h].dev /\ prompt'[p].claimed = NoDevice
      /\ \A q \in Prompt : q # p => prompt'[q] = prompt[q]
  BY <1>t, <1>1 DEF NewPrompt
<1>r. /\ req'[h].pc = "idle" /\ req'[h].dev = NoDevice
      /\ \A k \in Handler : k # h => req'[k] = req[k]
  BY <1>t, <1>2 DEF IdleRequest
<1>o. /\ \A k \in Handler : ~Reserved(k)'
      /\ \A q \in Prompt : Open(q) => prompt[q].of # server
      /\ Owned
      /\ \A q \in Prompt : Open(q)' <=> q = p \/ Open(q)
  BY <1>1, <1>2, <1>p, <1>r
     DEF IInv, DialogInv, OwnerInv, Reserved, Open, Owned
<1>3. StallInv'
  BY <1>2, <1>r DEF IInv, DialogInv, StallInv, InFlight
<1>4. OwnerInv'
  BY <1>o, <1>p DEF IInv, DialogInv, OwnerInv, OneDialogPerCoordinator
<1>5. CooldownInv'
  BY <1>2, <1>r, <1>o DEF IInv, DialogInv, CooldownInv
<1>6. PendingInv'
  <2>1. \A g \in Coordinator : status'[g] = IF g = server THEN "Pending"
                                           ELSE status[g]
    BY <1>2 DEF IInv, TypeOK
  <2>. QED  BY <1>1, <1>p, <1>o, <2>1 DEF IInv, DialogInv, PendingInv, Open
<1>7. BornInv'
  BY <1>2, <1>p, <1>r DEF IInv, DialogInv, BornInv
<1>8. SlotInv'
  <2>1. \A g \in Coordinator : Waiting(g)' = Waiting(g)
    BY <1>2 DEF Waiting, Expired
  <2>2. \A d : \A g \in Coordinator : Queued(g, d) => Queued(g, d)'
    BY <1>1, <1>2, <1>p, <1>r DEF Queued
  <2>3. \A q \in Prompt :
          prompt'[q].pc \in {"hint", "dialog"} /\ prompt'[q].asked # NoDevice =>
            slot'[prompt'[q].of] = prompt'[q].asked
    BY <1>2, <1>p DEF IInv, DialogInv, SlotInv
  <2>4. \A k \in Handler : req'[k].pc # "show"
    BY <1>o DEF Reserved
  <2>. QED  BY <2>1, <2>2, <2>3, <2>4 DEF IInv, DialogInv, SlotInv
<1>9. HintInv' /\ PromptGrantsOnlyItsDevice' /\ ApprovedPromptRegistersItsDevice'
  BY <1>2, <1>p DEF IInv, DialogInv, HintInv, PromptGrantsOnlyItsDevice,
     ApprovedPromptRegistersItsDevice, Expired
<1>. QED  BY <1>3, <1>4, <1>5, <1>6, <1>7, <1>8, <1>9 DEF DialogInv

(* A step of a notifier thread changes its own record only, never its      *)
(* coordinator or its device, and opens no dialog.                         *)
NotifierStep(p) ==
  /\ prompt'[p].of = prompt[p].of /\ prompt'[p].asked = prompt[p].asked
  /\ \A q \in Prompt : q # p => prompt'[q] = prompt[q]
  /\ Open(p)' => Open(p)
  /\ UNCHANGED <<now, server, lastPrompt, requestedAt, req>>

LEMMA NotifierKeeps ==
  ASSUME NEW p \in Prompt, IInv, NotifierStep(p),
         slot' \in {slot, [slot EXCEPT ![prompt[p].of] = NoDevice]}
  PROVE  StallInv' /\ OwnerInv' /\ CooldownInv' /\ BornInv'
<1>t. Typed /\ slot \in [Coordinator -> Device \cup {NoDevice}]
  BY TypedFacts DEF IInv, TypeOK
<1>o. /\ \A q \in Prompt : Open(q)' => Open(q)
      /\ \A q \in Prompt : /\ prompt'[q].of = prompt[q].of
                           /\ prompt'[q].asked = prompt[q].asked
      /\ \A k \in Handler : Reserved(k)' <=> Reserved(k)
  BY DEF NotifierStep, Open, Reserved
<1>u. UNCHANGED <<now, server, lastPrompt, requestedAt, req>>
  BY DEF NotifierStep
<1>1. StallInv'
  BY <1>u DEF IInv, DialogInv, StallInv, InFlight
<1>2. OwnerInv'
  BY <1>o, <1>u DEF IInv, DialogInv, OwnerInv, OneDialogPerCoordinator
<1>3. CooldownInv'
  BY <1>o, <1>u DEF IInv, DialogInv, CooldownInv, Owned
<1>4. BornInv'
  <2>1. \A g \in Coordinator : slot'[g] \in {slot[g], NoDevice}
    BY <1>t
  <2>. QED  BY <1>o, <1>u, <2>1 DEF IInv, DialogInv, BornInv
<1>. QED  BY <1>1, <1>2, <1>3, <1>4

\* The slot's device keeps the dialog it waits for, or had expired.
LEMMA SlotKept ==
  ASSUME NEW p \in Prompt, IInv, NotifierStep(p), slot' = slot,
         prompt'[p].pc \in {"hint", "dialog"} =>
           prompt[p].pc \in {"hint", "dialog"},
         \/ Waiting(prompt[p].of) = NoDevice
         \/ prompt[p].pc \in {"hint", "dialog", "register", "unqueue"} =>
              prompt'[p].pc \in {"hint", "dialog", "register", "unqueue"}
  PROVE  SlotInv'
<1>u. UNCHANGED <<now, server, lastPrompt, requestedAt, req>>
  BY DEF NotifierStep
<1>1. \A g \in Coordinator : Waiting(g)' = Waiting(g)
  BY <1>u DEF Waiting, Expired
<1>2. \A d : \A g \in Coordinator :
        Waiting(g) # NoDevice /\ Queued(g, d) => Queued(g, d)'
  BY <1>u DEF NotifierStep, Queued
<1>3. SlotInv
  BY DEF IInv, DialogInv
<1>. QED  BY <1>1, <1>2, <1>3, <1>u DEF SlotInv, NotifierStep

\* The dialog that empties a slot is the only one its coordinator has.
LEMMA SlotEmptied ==
  ASSUME NEW p \in Prompt, IInv, NotifierStep(p), Open(p),
         slot' = [slot EXCEPT ![prompt[p].of] = NoDevice],
         prompt'[p].pc \notin {"hint", "dialog"}
  PROVE  SlotInv'
<1>t. Typed /\ slot \in [Coordinator -> Device \cup {NoDevice}]
  BY TypedFacts DEF IInv, TypeOK
<1>u. UNCHANGED <<now, server, lastPrompt, requestedAt, req>>
  BY DEF NotifierStep
<1>1. \A g \in Coordinator :
        slot'[g] = IF g = prompt[p].of THEN NoDevice ELSE slot[g]
  BY <1>t
<1>2. \A q \in Prompt : Open(q) /\ prompt[q].of = prompt[p].of => q = p
  BY DEF IInv, DialogInv, OwnerInv, OneDialogPerCoordinator
<1>3. \A k \in Handler : Reserved(k) => prompt[p].of # server
  BY DEF IInv, DialogInv, OwnerInv
<1>4. \A g \in Coordinator :
        Waiting(g)' # NoDevice => g # prompt[p].of /\ Waiting(g)' = Waiting(g)
  BY <1>u, <1>1 DEF Waiting, Expired
<1>5. \A d : \A g \in Coordinator :
        g # prompt[p].of /\ Queued(g, d) => Queued(g, d)'
  BY <1>u DEF Queued, NotifierStep
<1>6. \A q \in Prompt :
        prompt'[q].pc \in {"hint", "dialog"} =>
          q # p /\ slot'[prompt[q].of] = slot[prompt[q].of]
  BY <1>t, <1>1, <1>2 DEF Open, Typed, NotifierStep
<1>7. \A k \in Handler : req[k].pc = "show" => slot'[server] = slot[server]
  BY <1>t, <1>1, <1>3 DEF Reserved, Typed
<1>. QED
  BY <1>u, <1>4, <1>5, <1>6, <1>7 DEF IInv, DialogInv, SlotInv, NotifierStep

\* The status stays, and so does the dialog that is behind it ...
LEMMA StatusKept ==
  ASSUME NEW p \in Prompt, IInv, NotifierStep(p), status' = status,
         Open(p) => Open(p)'
  PROVE  PendingInv'
BY DEF IInv, DialogInv, PendingInv, NotifierStep, Open

\* ... or it stops being Pending together with the only open dialog.
LEMMA StatusAnswered ==
  ASSUME NEW p \in Prompt, IInv, NotifierStep(p), Open(p), ~Open(p)',
         NEW s, s # "Pending", status' = [status EXCEPT ![prompt[p].of] = s]
  PROVE  PendingInv'
<1>t. Typed /\ status \in [Coordinator -> {"Idle", "Pending", "Approved",
                                           "Denied"}]
  BY TypedFacts DEF IInv, TypeOK
<1>1. \A g \in Coordinator : status'[g] = IF g = prompt[p].of THEN s
                                         ELSE status[g]
  BY <1>t
<1>2. \A q \in Prompt : Open(q) /\ prompt[q].of = prompt[p].of => q = p
  BY DEF IInv, DialogInv, OwnerInv, OneDialogPerCoordinator
<1>. QED
  BY <1>1, <1>2 DEF IInv, DialogInv, PendingInv, NotifierStep, Open

LEMMA AnswerNoDialog ==
  ASSUME NEW p \in Prompt, IInv, AnswerNo(p) PROVE DialogInv'
<1>t. prompt \in [Prompt -> PromptRecord]
  BY DEF IInv, TypeOK
<1>1. /\ prompt' = [prompt EXCEPT ![p] = [prompt[p] EXCEPT !.pc = "deny"]]
      /\ prompt[p].pc = "dialog"
      /\ UNCHANGED <<now, server, lastPrompt, requestedAt, req>>
  BY DEF AnswerNo, Move, slotVars, sessVars, clockVars, trayVars
<1>p. /\ prompt'[p].pc = "deny"
      /\ prompt'[p].of = prompt[p].of
      /\ prompt'[p].asked = prompt[p].asked
      /\ prompt'[p].shown = prompt[p].shown
      /\ prompt'[p].claimed = prompt[p].claimed
      /\ \A q \in Prompt : q # p => prompt'[q] = prompt[q]
  BY <1>t, <1>1 DEF PromptRecord
<1>2. NotifierStep(p)
  BY <1>1, <1>p DEF NotifierStep, Open
<1>3. slot' = [slot EXCEPT ![prompt[p].of] = NoDevice]
  BY DEF AnswerNo, slotVars
<1>4. StallInv' /\ OwnerInv' /\ CooldownInv' /\ BornInv'
  BY <1>2, <1>3, NotifierKeeps
<1>5. PendingInv'
  <2>1. status' = status /\ (Open(p) => Open(p)')
    BY <1>1, <1>p DEF AnswerNo, slotVars, Open
  <2>. QED  BY <1>2, <2>1, StatusKept
<1>6. SlotInv'
  <2>1. Open(p)  BY <1>1 DEF Open
  <2>. QED  BY <1>2, <1>3, <1>p, <2>1, SlotEmptied
<1>7. HintInv' /\ PromptGrantsOnlyItsDevice' /\ ApprovedPromptRegistersItsDevice'
  BY <1>1, <1>p DEF IInv, DialogInv, HintInv, PromptGrantsOnlyItsDevice,
     ApprovedPromptRegistersItsDevice, Expired
<1>. QED  BY <1>4, <1>5, <1>6, <1>7 DEF DialogInv

LEMMA RecordDenialDialog ==
  ASSUME NEW p \in Prompt, IInv, RecordDenial(p) PROVE DialogInv'
<1>t. prompt \in [Prompt -> PromptRecord]
  BY DEF IInv, TypeOK
<1>1. /\ prompt' = [prompt EXCEPT ![p] = [prompt[p] EXCEPT !.pc = "done"]]
      /\ prompt[p].pc = "deny"
      /\ UNCHANGED <<now, server, lastPrompt, requestedAt, req>>
  BY DEF RecordDenial, Move, slotVars, sessVars, clockVars, trayVars
<1>p. /\ prompt'[p].pc = "done"
      /\ prompt'[p].of = prompt[p].of
      /\ prompt'[p].asked = prompt[p].asked
      /\ prompt'[p].shown = prompt[p].shown
      /\ prompt'[p].claimed = prompt[p].claimed
      /\ \A q \in Prompt : q # p => prompt'[q] = prompt[q]
  BY <1>t, <1>1 DEF PromptRecord
<1>2. NotifierStep(p)
  BY <1>1, <1>p DEF NotifierStep, Open
<1>3. slot' = slot
  BY DEF RecordDenial, slotVars
<1>4. StallInv' /\ OwnerInv' /\ CooldownInv' /\ BornInv'
  BY <1>2, <1>3, NotifierKeeps
<1>5. PendingInv'
  <2>1. status' = [status EXCEPT ![prompt[p].of] = "Denied"]
    BY DEF RecordDenial
  <2>2. Open(p) /\ ~Open(p)'
    BY <1>1, <1>p DEF Open
  <2>. QED  BY <1>2, <2>1, <2>2, StatusAnswered
<1>6. SlotInv'
  BY <1>1, <1>2, <1>3, <1>p, SlotKept
<1>7. HintInv' /\ PromptGrantsOnlyItsDevice' /\ ApprovedPromptRegistersItsDevice'
  BY <1>1, <1>p DEF IInv, DialogInv, HintInv, PromptGrantsOnlyItsDevice,
     ApprovedPromptRegistersItsDevice, Expired
<1>. QED  BY <1>4, <1>5, <1>6, <1>7 DEF DialogInv

LEMMA RegisterDialog ==
  ASSUME NEW p \in Prompt, IInv, Register(p) PROVE DialogInv'
<1>t. prompt \in [Prompt -> PromptRecord]
  BY DEF IInv, TypeOK
<1>1. /\ prompt' = [prompt EXCEPT ![p] = [prompt[p] EXCEPT !.pc = "unqueue"]]
      /\ prompt[p].pc = "register"
      /\ UNCHANGED <<now, server, lastPrompt, requestedAt, req>>
  BY DEF Register, Move, slotVars, sessVars, clockVars, trayVars
<1>p. /\ prompt'[p].pc = "unqueue"
      /\ prompt'[p].of = prompt[p].of
      /\ prompt'[p].asked = prompt[p].asked
      /\ prompt'[p].shown = prompt[p].shown
      /\ prompt'[p].claimed = prompt[p].claimed
      /\ \A q \in Prompt : q # p => prompt'[q] = prompt[q]
  BY <1>t, <1>1 DEF PromptRecord
<1>2. NotifierStep(p)
  BY <1>1, <1>p DEF NotifierStep, Open
<1>3. slot' = slot
  BY DEF Register, slotVars
<1>4. StallInv' /\ OwnerInv' /\ CooldownInv' /\ BornInv'
  BY <1>2, <1>3, NotifierKeeps
<1>5. PendingInv'
  <2>1. status' = status /\ (Open(p) => Open(p)')
    BY <1>1, <1>p DEF Register, slotVars, Open
  <2>. QED  BY <1>2, <2>1, StatusKept
<1>6. SlotInv'
  BY <1>1, <1>2, <1>3, <1>p, SlotKept
<1>7. HintInv' /\ PromptGrantsOnlyItsDevice' /\ ApprovedPromptRegistersItsDevice'
  BY <1>1, <1>p DEF IInv, DialogInv, HintInv, PromptGrantsOnlyItsDevice,
     ApprovedPromptRegistersItsDevice, Expired
<1>. QED  BY <1>4, <1>5, <1>6, <1>7 DEF DialogInv

LEMMA UnqueueDialog ==
  ASSUME NEW p \in Prompt, IInv, Unqueue(p) PROVE DialogInv'
<1>t. prompt \in [Prompt -> PromptRecord]
  BY DEF IInv, TypeOK
<1>1. /\ prompt' = [prompt EXCEPT ![p] = [prompt[p] EXCEPT !.pc = "record"]]
      /\ prompt[p].pc = "unqueue"
      /\ UNCHANGED <<now, server, lastPrompt, requestedAt, req>>
  BY DEF Unqueue, Move, slotVars, sessVars, clockVars, trayVars
<1>p. /\ prompt'[p].pc = "record"
      /\ prompt'[p].of = prompt[p].of
      /\ prompt'[p].asked = prompt[p].asked
      /\ prompt'[p].shown = prompt[p].shown
      /\ prompt'[p].claimed = prompt[p].claimed
      /\ \A q \in Prompt : q # p => prompt'[q] = prompt[q]
  BY <1>t, <1>1 DEF PromptRecord
<1>2. NotifierStep(p)
  BY <1>1, <1>p DEF NotifierStep, Open
<1>3. slot' = [slot EXCEPT ![prompt[p].of] = NoDevice]
  BY DEF Unqueue, slotVars
<1>4. StallInv' /\ OwnerInv' /\ CooldownInv' /\ BornInv'
  BY <1>2, <1>3, NotifierKeeps
<1>5. PendingInv'
  <2>1. status' = status /\ (Open(p) => Open(p)')
    BY <1>1, <1>p DEF Unqueue, slotVars, Open
  <2>. QED  BY <1>2, <2>1, StatusKept
<1>6. SlotInv'
  <2>1. Open(p)  BY <1>1 DEF Open
  <2>. QED  BY <1>2, <1>3, <1>p, <2>1, SlotEmptied
<1>7. HintInv' /\ PromptGrantsOnlyItsDevice' /\ ApprovedPromptRegistersItsDevice'
  BY <1>1, <1>p DEF IInv, DialogInv, ClaimInv, HintInv, PromptGrantsOnlyItsDevice,
     ApprovedPromptRegistersItsDevice, Expired
<1>. QED  BY <1>4, <1>5, <1>6, <1>7 DEF DialogInv

LEMMA RecordApprovalDialog ==
  ASSUME NEW p \in Prompt, IInv, RecordApproval(p) PROVE DialogInv'
<1>t. prompt \in [Prompt -> PromptRecord]
  BY DEF IInv, TypeOK
<1>1. /\ prompt' = [prompt EXCEPT ![p] = [prompt[p] EXCEPT !.pc = "grant"]]
      /\ prompt[p].pc = "record"
      /\ UNCHANGED <<now, server, lastPrompt, requestedAt, req>>
  BY DEF RecordApproval, Move, slotVars, sessVars, clockVars, trayVars
<1>p. /\ prompt'[p].pc = "grant"
      /\ prompt'[p].of = prompt[p].of
      /\ prompt'[p].asked = prompt[p].asked
      /\ prompt'[p].shown = prompt[p].shown
      /\ prompt'[p].claimed = prompt[p].claimed
      /\ \A q \in Prompt : q # p => prompt'[q] = prompt[q]
  BY <1>t, <1>1 DEF PromptRecord
<1>2. NotifierStep(p)
  BY <1>1, <1>p DEF NotifierStep, Open
<1>3. slot' = slot
  BY DEF RecordApproval, slotVars
<1>4. StallInv' /\ OwnerInv' /\ CooldownInv' /\ BornInv'
  BY <1>2, <1>3, NotifierKeeps
<1>5. PendingInv'
  <2>1. status' = [status EXCEPT ![prompt[p].of] = "Approved"]
    BY DEF RecordApproval
  <2>2. Open(p) /\ ~Open(p)'
    BY <1>1, <1>p DEF Open
  <2>. QED  BY <1>2, <2>1, <2>2, StatusAnswered
<1>6. SlotInv'
  BY <1>1, <1>2, <1>3, <1>p, SlotKept
<1>7. HintInv' /\ PromptGrantsOnlyItsDevice' /\ ApprovedPromptRegistersItsDevice'
  BY <1>1, <1>p DEF IInv, DialogInv, HintInv, PromptGrantsOnlyItsDevice,
     ApprovedPromptRegistersItsDevice, Expired
<1>. QED  BY <1>4, <1>5, <1>6, <1>7 DEF DialogInv

LEMMA GrantCapabilitiesDialog ==
  ASSUME NEW p \in Prompt, IInv, GrantCapabilities(p) PROVE DialogInv'
<1>t. prompt \in [Prompt -> PromptRecord]
  BY DEF IInv, TypeOK
<1>1. /\ prompt' = [prompt EXCEPT ![p] = [prompt[p] EXCEPT !.pc = "done"]]
      /\ prompt[p].pc = "grant"
      /\ UNCHANGED <<now, server, lastPrompt, requestedAt, req>>
  BY DEF GrantCapabilities, Move, slotVars, sessVars, clockVars, trayVars
<1>p. /\ prompt'[p].pc = "done"
      /\ prompt'[p].of = prompt[p].of
      /\ prompt'[p].asked = prompt[p].asked
      /\ prompt'[p].shown = prompt[p].shown
      /\ prompt'[p].claimed = prompt[p].claimed
      /\ \A q \in Prompt : q # p => prompt'[q] = prompt[q]
  BY <1>t, <1>1 DEF PromptRecord
<1>2. NotifierStep(p)
  BY <1>1, <1>p DEF NotifierStep, Open
<1>3. slot' = slot
  BY DEF GrantCapabilities, slotVars
<1>4. StallInv' /\ OwnerInv' /\ CooldownInv' /\ BornInv'
  BY <1>2, <1>3, NotifierKeeps
<1>5. PendingInv'
  <2>1. status' = status /\ (Open(p) => Open(p)')
    BY <1>1, <1>p DEF GrantCapabilities, slotVars, Open
  <2>. QED  BY <1>2, <2>1, StatusKept
<1>6. SlotInv'
  BY <1>1, <1>2, <1>3, <1>p, SlotKept
<1>7. HintInv' /\ PromptGrantsOnlyItsDevice' /\ ApprovedPromptRegistersItsDevice'
  BY <1>1, <1>p DEF IInv, DialogInv, HintInv, PromptGrantsOnlyItsDevice,
     ApprovedPromptRegistersItsDevice, Expired
<1>. QED  BY <1>4, <1>5, <1>6, <1>7 DEF DialogInv

LEMMA ReadHintDialog ==
  ASSUME NEW p \in Prompt, IInv, ReadHint(p) PROVE DialogInv'
<1>t. prompt \in [Prompt -> PromptRecord] /\ Typed
  BY TypedFacts DEF IInv, TypeOK
<1>1. /\ prompt' = [prompt EXCEPT ![p] = [prompt[p] EXCEPT
           !.pc = "dialog", !.shown = Waiting(prompt[p].of)]]
      /\ prompt[p].pc = "hint"
      /\ UNCHANGED <<now, server, status, slot, lastPrompt, requestedAt, req>>
  BY DEF ReadHint, slotVars, sessVars, clockVars, trayVars
<1>p. /\ prompt'[p].pc = "dialog"
      /\ prompt'[p].of = prompt[p].of
      /\ prompt'[p].asked = prompt[p].asked
      /\ prompt'[p].shown = Waiting(prompt[p].of)
      /\ prompt'[p].claimed = prompt[p].claimed
      /\ \A q \in Prompt : q # p => prompt'[q] = prompt[q]
  BY <1>t, <1>1 DEF PromptRecord
<1>2. NotifierStep(p)
  BY <1>1, <1>p DEF NotifierStep, Open
<1>3. slot' = slot /\ status' = status
  BY <1>1
<1>4. StallInv' /\ OwnerInv' /\ CooldownInv' /\ BornInv'
  BY <1>2, <1>3, NotifierKeeps
<1>5. PendingInv'
  <2>1. Open(p) => Open(p)'
    BY <1>p DEF Open
  <2>. QED  BY <1>2, <1>3, <2>1, StatusKept
<1>6. SlotInv'
  BY <1>1, <1>2, <1>3, <1>p, SlotKept
<1>x. \A d \in Device : Expired(d)' <=> Expired(d)
  BY <1>1 DEF Expired
<1>7. HintInv'
  <2>1. prompt[p].asked # NoDevice =>
          Expired(prompt[p].asked) \/ Waiting(prompt[p].of) = prompt[p].asked
    BY <1>1 DEF IInv, DialogInv, SlotInv, Waiting
  <2>. QED  BY <1>t, <1>p, <1>x, <2>1 DEF IInv, DialogInv, HintInv, Typed
<1>8. PromptGrantsOnlyItsDevice' /\ ApprovedPromptRegistersItsDevice'
  BY <1>t, <1>1, <1>p, <1>x DEF IInv, DialogInv, HintInv, Typed,
     PromptGrantsOnlyItsDevice, ApprovedPromptRegistersItsDevice
<1>. QED  BY <1>4, <1>5, <1>6, <1>7, <1>8 DEF DialogInv

(* The record that "Yes" clones waits for this dialog: no other owner of   *)
(* the slot exists, and until it expires it is the one the dialog names.   *)
LEMMA AnswerYesDialog ==
  ASSUME NEW p \in Prompt, IInv, AnswerYes(p) PROVE DialogInv'
<1>t. prompt \in [Prompt -> PromptRecord] /\ Typed
  BY TypedFacts DEF IInv, TypeOK
<1> DEFINE w == Waiting(prompt[p].of)
           pc == IF w = NoDevice THEN "record" ELSE "register"
<1>1. /\ prompt' = [prompt EXCEPT ![p] = [prompt[p] EXCEPT !.pc = pc,
                                                           !.claimed = w]]
      /\ prompt[p].pc = "dialog"
      /\ UNCHANGED <<now, server, status, slot, lastPrompt, requestedAt, req>>
  BY DEF AnswerYes, slotVars, sessVars, clockVars, trayVars
<1>c. /\ w = NoDevice => pc = "record"
      /\ w # NoDevice => pc = "register"
  OBVIOUS
<1>w. /\ w # NoDevice => w \in Device /\ ~Expired(w)
      /\ prompt[p].asked # NoDevice /\ w = NoDevice => Expired(prompt[p].asked)
  BY <1>t, <1>1 DEF Waiting, Typed, IInv, DialogInv, SlotInv
<1>a. w # NoDevice => prompt[p].asked = w /\ prompt[p].shown = w
  <2> SUFFICES ASSUME w # NoDevice
               PROVE  prompt[p].asked = w /\ prompt[p].shown = w
    OBVIOUS
  <2>1. Open(p)
    BY <1>1 DEF Open
  <2>2. Queued(prompt[p].of, w)
    BY <1>t DEF Typed, IInv, DialogInv, SlotInv
  <2>3. \A q \in Prompt : Open(q) /\ prompt[q].of = prompt[p].of => q = p
    BY <2>1 DEF IInv, DialogInv, OwnerInv, OneDialogPerCoordinator
  <2>4. \A h \in Handler : Reserved(h) => prompt[p].of # server
    BY <2>1 DEF IInv, DialogInv, OwnerInv
  <2>5. prompt[p].asked = w
    BY <2>2, <2>3, <2>4 DEF Queued, Open, Reserved
  <2>6. prompt[p].shown = w
    BY <1>1, <1>w, <2>5 DEF IInv, DialogInv, HintInv
  <2>. QED  BY <2>5, <2>6
<1> HIDE DEF w, pc
<1>p. /\ prompt'[p].pc = pc
      /\ prompt'[p].of = prompt[p].of
      /\ prompt'[p].asked = prompt[p].asked
      /\ prompt'[p].shown = prompt[p].shown
      /\ prompt'[p].claimed = w
      /\ \A q \in Prompt : q # p => prompt'[q] = prompt[q]
  BY <1>t, <1>1 DEF PromptRecord
<1>o. Open(p) /\ Open(p)'
  BY <1>1, <1>c, <1>p DEF Open
<1>2. NotifierStep(p)
  BY <1>1, <1>p, <1>o DEF NotifierStep
<1>3. slot' = slot /\ status' = status
  BY <1>1
<1>4. StallInv' /\ OwnerInv' /\ CooldownInv' /\ BornInv'
  BY <1>2, <1>3, NotifierKeeps
<1>5. PendingInv'
  BY <1>2, <1>3, <1>o, StatusKept
<1>6. SlotInv'
  <2>1. \/ Waiting(prompt[p].of) = NoDevice
        \/ prompt'[p].pc \in {"hint", "dialog", "register", "unqueue"}
    BY <1>c, <1>p DEF w
  <2>2. prompt'[p].pc \notin {"hint", "dialog"}
    BY <1>c, <1>p
  <2>. QED  BY <1>2, <1>3, <2>1, <2>2, SlotKept
<1>x. \A d \in Device : Expired(d)' <=> Expired(d)
  BY <1>1 DEF Expired
<1>7. HintInv'
  BY <1>t, <1>p, <1>c, <1>x DEF IInv, DialogInv, HintInv, Typed
<1>8. PromptGrantsOnlyItsDevice'
  BY <1>p, <1>a DEF IInv, DialogInv, PromptGrantsOnlyItsDevice
<1>9. ApprovedPromptRegistersItsDevice'
  BY <1>t, <1>p, <1>x, <1>w DEF IInv, DialogInv, Typed,
     ApprovedPromptRegistersItsDevice
<1>. QED  BY <1>4, <1>5, <1>6, <1>7, <1>8, <1>9 DEF DialogInv

LEMMA NotifierDialog ==
  ASSUME NEW p \in Prompt, IInv, Notifier(p) PROVE DialogInv'
BY ReadHintDialog, AnswerNoDialog, RecordDenialDialog, AnswerYesDialog,
   RegisterDialog, UnqueueDialog, RecordApprovalDialog, GrantCapabilitiesDialog
   DEF Notifier

\* Time only lets records expire, and requests in flight are not left behind.
LEMMA TickDialog == ASSUME IInv, Tick PROVE DialogInv'
<1>t. Typed  BY TypedFacts DEF IInv
<1>1. /\ now' = now + 1
      /\ UNCHANGED <<server, status, slot, lastPrompt, requestedAt, req, prompt>>
      /\ \A h \in Handler : InFlight(h) => now < req[h].since + MAX_STALL
  BY DEF Tick
<1>2. StallInv'
  BY <1>t, <1>1 DEF IInv, DialogInv, StallInv, InFlight, Typed
<1>3. OwnerInv' /\ CooldownInv' /\ PendingInv' /\ BornInv'
  BY <1>1 DEF IInv, DialogInv, OwnerInv, OneDialogPerCoordinator, CooldownInv,
     Owned, PendingInv, BornInv, Reserved, Open
<1>4. \A d \in Device : Expired(d) => Expired(d)'
  BY <1>t, <1>1 DEF Expired, Typed
<1>5. \A g \in Coordinator : Waiting(g)' # NoDevice => Waiting(g)' = Waiting(g)
  BY <1>t, <1>1, <1>4 DEF Waiting, Typed
<1>6. SlotInv'
  BY <1>1, <1>5 DEF IInv, DialogInv, SlotInv, Queued
<1>7. HintInv' /\ PromptGrantsOnlyItsDevice' /\ ApprovedPromptRegistersItsDevice'
  BY <1>t, <1>1, <1>4 DEF IInv, DialogInv, HintInv, PromptGrantsOnlyItsDevice,
     ApprovedPromptRegistersItsDevice, Typed
<1>. QED  BY <1>2, <1>3, <1>6, <1>7 DEF DialogInv

\* A new server starts without requests: no reservation crosses a restart.
LEMMA NewServerDialog ==
  ASSUME IInv, NewServer,
         UNCHANGED <<now, status, slot, lastPrompt, requestedAt, req, prompt>>
  PROVE  DialogInv'
<1>1. \A h \in Handler : req[h].pc = "idle"
  BY DEF NewServer, Busy
<1>2. StallInv' /\ OwnerInv' /\ CooldownInv'
  BY <1>1 DEF IInv, DialogInv, StallInv, InFlight, OwnerInv,
     OneDialogPerCoordinator, CooldownInv, Reserved, Open
<1>3. PendingInv' /\ BornInv'
  BY DEF IInv, DialogInv, PendingInv, BornInv, Open
<1>4. SlotInv'
  <2>1. \A g \in Coordinator : Waiting(g)' = Waiting(g)
    BY DEF Waiting, Expired
  <2>. QED  BY <1>1, <2>1 DEF IInv, DialogInv, SlotInv, Queued
<1>5. HintInv' /\ PromptGrantsOnlyItsDevice' /\ ApprovedPromptRegistersItsDevice'
  BY DEF IInv, DialogInv, HintInv, PromptGrantsOnlyItsDevice,
     ApprovedPromptRegistersItsDevice, Expired
<1>. QED  BY <1>2, <1>3, <1>4, <1>5 DEF DialogInv

\* Steps on the registry, the session and the capabilities leave it alone.
LEMMA FrameDialog ==
  ASSUME IInv, UNCHANGED <<now, server, status, slot, lastPrompt, requestedAt,
                           req, prompt>>
  PROVE  DialogInv'
<1>1. StallInv' /\ OwnerInv' /\ CooldownInv' /\ PendingInv' /\ BornInv'
  BY DEF IInv, DialogInv, StallInv, InFlight, OwnerInv,
     OneDialogPerCoordinator, CooldownInv, Owned, PendingInv, BornInv,
     Reserved, Open
<1>2. SlotInv' /\ HintInv'
  BY DEF IInv, DialogInv, SlotInv, HintInv, Queued, Waiting, Expired
<1>3. PromptGrantsOnlyItsDevice' /\ ApprovedPromptRegistersItsDevice'
  BY DEF IInv, DialogInv, PromptGrantsOnlyItsDevice,
     ApprovedPromptRegistersItsDevice, Expired
<1>. QED  BY <1>1, <1>2, <1>3 DEF DialogInv

LEMMA RequestDialog ==
  ASSUME ShortStall, NEW h \in Handler, IInv, Request(h) PROVE DialogInv'
BY ArriveDialog, CheckStatusDialog, LockCooldownDialog, ConsumeSessionDialog,
   QueueEnrollmentDialog, ShowPromptDialog DEF Request

LEMMA TrayDialog == ASSUME IInv, Tray PROVE DialogInv'
<1>1. CASE RestartServer \/ ResetRestart
  BY <1>1, NewServerDialog DEF RestartServer, ResetRestart, slotVars, clockVars
<1>2. ASSUME \/ MintSession \/ RevokeAll \/ ReloadConfig
             \/ ResetRegistry \/ ResetConfig
             \/ \E d \in Device : RevokeDevice(d)
      PROVE  DialogInv'
  <2>1. UNCHANGED <<now, server, status, slot, lastPrompt, requestedAt, req,
                    prompt>>
    BY <1>2 DEF MintSession, RevokeAll, ReloadConfig, ResetRegistry, ResetConfig,
       RevokeDevice, slotVars, clockVars, trayVars
  <2>. QED  BY <2>1, FrameDialog
<1>. QED  BY <1>1, <1>2 DEF Tray

LEMMA NextDialog ==
  ASSUME ShortStall, IInv, [Next]_vars PROVE IInv'
<1>1. TypeOK' /\ ClaimInv'
  BY NextType DEF IInv, TypeInv
<1>2. DialogInv'
  <2>1. ASSUME PollSlot \/ (\E d \in Device : PollRegistry(d)) \/ UNCHANGED vars
        PROVE  DialogInv'
    <3>1. UNCHANGED <<now, server, status, slot, lastPrompt, requestedAt, req,
                      prompt>>
      BY <2>1 DEF PollSlot, PollRegistry, vars, slotVars, clockVars, trayVars
    <3>. QED  BY <3>1, FrameDialog
  <2>. QED
    BY <2>1, TickDialog, TrayDialog, RequestDialog, NotifierDialog DEF Next
<1>. QED  BY <1>1, <1>2 DEF IInv

(* IInv holds of every reachable state when the stall window is short      *)
(* against the cooldown.  The code does not enforce ShortStall:            *)
(* MCPairing_stall.cfg shows the first consequence without it.             *)
THEOREM DialogInvariant == ASSUME ShortStall PROVE Spec => []IInv
<1>1. Init => IInv
  BY InitType, InitDialog DEF IInv, TypeInv
<1>2. IInv /\ [Next]_vars => IInv'
  BY NextDialog
<1>. QED  BY <1>1, <1>2, PTL DEF Spec

(* A "Yes" never commits a device other than the one its dialog was opened *)
(* for and named (request_with_session, pending_device_name, commit_valid),*)
(* whatever the number of racing requests, dialogs and server restarts.    *)
THEOREM PromptSafety ==
  ASSUME ShortStall PROVE Spec => []PromptGrantsOnlyItsDevice
<1>1. IInv => PromptGrantsOnlyItsDevice  BY DEF IInv, DialogInv
<1>. QED  BY <1>1, DialogInvariant, PTL

(* A "Yes" to an enrollment registers its device unless the record expired *)
(* (commit_valid): nothing else empties or replaces the slot under it.     *)
THEOREM ApprovalRegisters ==
  ASSUME ShortStall PROVE Spec => []ApprovedPromptRegistersItsDevice
<1>1. IInv => ApprovedPromptRegistersItsDevice  BY DEF IInv, DialogInv
<1>. QED  BY <1>1, DialogInvariant, PTL

(* The check for a Pending status and the cooldown together keep a         *)
(* coordinator to one dialog (request_with_session).                       *)
THEOREM OneDialog == ASSUME ShortStall PROVE Spec => []OneDialogPerCoordinator
<1>1. IInv => OneDialogPerCoordinator  BY DEF IInv, DialogInv, OwnerInv
<1>. QED  BY <1>1, DialogInvariant, PTL

(* A coordinator answers Busy only while a dialog is there to free it      *)
(* (PairingStatusHandle, windows_pairing_notifier).                        *)
THEOREM PendingHasDialog ==
  ASSUME ShortStall PROVE Spec => []PendingMeansDialogOpen
<1>1. IInv => PendingMeansDialogOpen
  BY DEF IInv, DialogInv, PendingInv, PendingMeansDialogOpen
<1>. QED  BY <1>1, DialogInvariant, PTL

---------------------------------------------------------------------------
(* The cooldown.  It needs no assumption on stalls: last_prompt_at stays   *)
(* locked from the check of the old stamp to the write of the new one.     *)

LockInv ==
  \A h \in Handler :
    req[h].pc = "consume" =>
      /\ \A k \in Handler : req[k].pc = "consume" => k = h
      /\ lastPrompt[server] # Never =>
           req[h].stamp - lastPrompt[server] >= PROMPT_COOLDOWN

SpacedStep ==
  \A g \in Coordinator :
    lastPrompt'[g] # lastPrompt[g] /\ lastPrompt[g] # Never =>
      lastPrompt'[g] - lastPrompt[g] >= PROMPT_COOLDOWN

\* A step that moves no request into the lock and stamps nothing.
LEMMA UnlockedStep ==
  ASSUME LockInv, lastPrompt' = lastPrompt,
         server' = server \/ \A h \in Handler : req'[h].pc # "consume",
         \A h \in Handler :
           req'[h].pc = "consume" => req[h].pc = "consume" /\
                                     req'[h].stamp = req[h].stamp
  PROVE  LockInv' /\ SpacedStep
BY DEF LockInv, SpacedStep

LEMMA RequestLock ==
  ASSUME TypeOK, LockInv, NEW h \in Handler, Request(h)
  PROVE  LockInv' /\ SpacedStep
<1>t. /\ req \in [Handler -> RequestRecord] /\ req[h] \in RequestRecord
      /\ lastPrompt \in [Coordinator -> Int] /\ server \in Coordinator
  BY DEF TypeOK
<1>1. ASSUME NEW r, req' = [req EXCEPT ![h] = r], r.pc # "consume",
             UNCHANGED <<server, lastPrompt>>
      PROVE  LockInv' /\ SpacedStep
  BY <1>t, <1>1, UnlockedStep
<1>2. CASE PairingEnroll(h) \/ PairingActivate(h)
  <2>1. PICK d \in Device \cup {NoDevice}, c \in Token \cup {NoToken} :
          Arrive(h, d, c)
    BY <1>2 DEF PairingEnroll, PairingActivate
  <2>2. NewRequest(d, c).pc # "consume"
    BY DEF NewRequest
  <2>. QED  BY <1>1, <2>1, <2>2 DEF Arrive, slotVars, trayVars
<1>r. IdleRequest.pc # "consume"
  BY DEF IdleRequest
<1>3. CASE CheckStatus(h)
  <2>1. [req[h] EXCEPT !.pc = "lock", !.since = now].pc # "consume"
    BY <1>t DEF RequestRecord
  <2>. QED
    BY <1>1, <1>3, <1>r, <2>1 DEF CheckStatus, Refuse, slotVars, trayVars
<1>4. CASE LockCooldown(h)
  <2>u. UNCHANGED <<server, lastPrompt>>
    BY <1>4 DEF LockCooldown, slotVars, trayVars
  <2>1. CASE Refuse(h)
    BY <1>1, <1>r, <2>u, <2>1 DEF Refuse
  <2>2. ASSUME req' = [req EXCEPT ![h].pc = "consume", ![h].stamp = now],
               \/ lastPrompt[server] = Never
               \/ now - lastPrompt[server] >= PROMPT_COOLDOWN,
               CooldownLockFree
        PROVE  LockInv' /\ SpacedStep
    <3>1. /\ req'[h].stamp = now
          /\ \A k \in Handler : k # h => req'[k].pc # "consume"
      BY <1>t, <2>2 DEF CooldownLockFree, RequestRecord
    <3>. QED  BY <2>u, <2>2, <3>1 DEF LockInv, SpacedStep
  <2>. QED  BY <1>4, <2>1, <2>2 DEF LockCooldown
<1>5. CASE ConsumeSession(h)
  <2>1. CASE Refuse(h) /\ UNCHANGED lastPrompt
    BY <1>1, <1>5, <1>r, <2>1 DEF Refuse, ConsumeSession, trayVars
  <2>2. CASE /\ req' = [req EXCEPT ![h].pc = "queue"]
             /\ lastPrompt' = [lastPrompt EXCEPT ![server] = req[h].stamp]
    <3>1. /\ req'[h].pc = "queue"
          /\ \A k \in Handler : k # h => req'[k] = req[k]
      BY <1>t, <2>2 DEF RequestRecord
    <3>2. \A k \in Handler : req'[k].pc # "consume"
      BY <1>5, <3>1 DEF LockInv, ConsumeSession
    <3>3. SpacedStep
      BY <1>t, <1>5, <2>2 DEF LockInv, SpacedStep, ConsumeSession
    <3>. QED  BY <3>2, <3>3 DEF LockInv
  <2>. QED  BY <1>5, <2>1, <2>2 DEF ConsumeSession
<1>6. CASE QueueEnrollment(h)
  <2>1. [req[h] EXCEPT !.pc = "show"].pc # "consume"
    BY <1>t DEF RequestRecord
  <2>. QED  BY <1>1, <1>6, <2>1 DEF QueueEnrollment, trayVars
<1>7. CASE ShowPrompt(h)
  BY <1>1, <1>7, <1>r DEF ShowPrompt, trayVars
<1>. QED  BY <1>2, <1>3, <1>4, <1>5, <1>6, <1>7 DEF Request

LEMMA NextLock ==
  ASSUME TypeOK, LockInv, [Next]_vars PROVE LockInv' /\ SpacedStep
<1>1. ASSUME UNCHANGED <<server, lastPrompt, req>> PROVE LockInv' /\ SpacedStep
  BY <1>1, UnlockedStep
<1>2. CASE Tick \/ PollSlot \/ (\E d \in Device : PollRegistry(d))
             \/ UNCHANGED vars
  BY <1>1, <1>2 DEF Tick, PollSlot, PollRegistry, vars, slotVars, trayVars
<1>3. ASSUME NEW p \in Prompt, Notifier(p) PROVE LockInv' /\ SpacedStep
  BY <1>1, <1>3 DEF Notifier, ReadHint, AnswerNo, RecordDenial, AnswerYes,
     Register, Unqueue, RecordApproval, GrantCapabilities, slotVars, trayVars
<1>4. CASE Tray
  <2>1. CASE RestartServer \/ ResetRestart
    <3>1. /\ UNCHANGED <<lastPrompt, req>>
          /\ \A h \in Handler : req[h].pc = "idle"
      BY <2>1 DEF RestartServer, ResetRestart, NewServer, Busy, slotVars
    <3>. QED  BY <3>1, UnlockedStep
  <2>2. ASSUME \/ MintSession \/ RevokeAll \/ ReloadConfig
               \/ ResetRegistry \/ ResetConfig
               \/ \E d \in Device : RevokeDevice(d)
        PROVE  LockInv' /\ SpacedStep
    BY <1>1, <2>2 DEF MintSession, RevokeAll, ReloadConfig, ResetRegistry, ResetConfig,
       RevokeDevice, slotVars, trayVars
  <2>. QED  BY <1>4, <2>1, <2>2 DEF Tray
<1>. QED  BY <1>2, <1>3, <1>4, RequestLock DEF Next

(* However requests race for last_prompt_at, and without any bound on how  *)
(* long they stall, two prompts of a coordinator are reserved at least     *)
(* PROMPT_COOLDOWN apart (request_with_session).                           *)
THEOREM CooldownSafety == Spec => CooldownSpacesPrompts
<1>1. Init => LockInv
  BY DEF Init, LockInv, IdleRequest
<1>2. TypeOK /\ LockInv /\ [Next]_vars => LockInv' /\ [SpacedStep]_lastPrompt
  BY NextLock
<1>3. CooldownSpacesPrompts <=> [][SpacedStep]_lastPrompt
  BY DEF CooldownSpacesPrompts, SpacedStep
<1>. QED  BY <1>1, <1>2, <1>3, TypeCorrect, PTL DEF Spec
=============================================================================
