---------------------------- MODULE AccessProofs ----------------------------
(* Pairing implements Access, for every number of requests, dialogs,       *)
(* devices, tokens and restarts: what Commands assumes of the pairing flow *)
(* is what the pairing flow does.                                          *)
EXTENDS EnrollmentProofs

---------------------------------------------------------------------------
(* Access in terms of Enrollment.                                          *)

StagePhone(s) ==
  CASE s = "paired" -> "paired" [] s = "revoked" -> "gone" [] OTHER -> "new"

LEMMA PhonesOfStage == phones = [d \in Device |-> StagePhone(stage[d])]
BY DEF phones, PhoneOf, StagePhone, stage

LEMMA PhonesOfNextStage == phones' = [d \in Device |-> StagePhone(stage'[d])]
BY DEF phones, PhoneOf, StagePhone, stage

LEMMA PairedIsRegistered ==
  ASSUME IInv PROVE access!Paired = registry
<1>1. registry \subseteq Device
  BY DEF IInv, TypeOK
<1>2. \A d \in Device : phones[d] = "paired" <=> d \in registry
  BY DEF phones, PhoneOf, StageOf
<1>. QED  BY <1>1, <1>2 DEF access!Paired

\* Up to the answer, an enrollment is new to Access.
LEMMA SamePhones ==
  ASSUME \/ stage' = stage
         \/ \E d \in Device : \/ enrollment!Ask(d) \/ enrollment!Refuse(d)
                              \/ enrollment!Approve(d)
  PROVE  phones' = phones
<1>1. CASE stage' = stage
  BY <1>1, PhonesOfStage, PhonesOfNextStage
<1>2. ASSUME NEW d \in Device, NEW from \in {"new", "asked"},
             NEW to \in {"asked", "refused", "approved"},
             enrollment!Step(d, from, to)
      PROVE  phones' = phones
  <2>1. stage[d] = from /\ stage'[d] = to
        /\ \A e \in Device \ {d} : stage'[e] = stage[e]
    BY <1>2 DEF enrollment!Step, stage
  <2>2. \A e \in Device : StagePhone(stage'[e]) = StagePhone(stage[e])
    BY <2>1 DEF StagePhone
  <2>. QED  BY <2>2, PhonesOfStage, PhonesOfNextStage
<1>. QED
  BY <1>1, <1>2 DEF enrollment!Ask, enrollment!Refuse, enrollment!Approve

LEMMA RegisteredPhone ==
  ASSUME NEW d \in Device, enrollment!Register(d)
  PROVE  phones[d] = "new" /\ phones' = [phones EXCEPT ![d] = "paired"]
<1>1. stage[d] = "approved" /\ stage'[d] = "paired"
      /\ \A e \in Device \ {d} : stage'[e] = stage[e]
  BY DEF enrollment!Register, enrollment!Step, stage
<1>. QED
  BY <1>1, PhonesOfStage, PhonesOfNextStage DEF StagePhone

LEMMA RevokedPhones ==
  ASSUME EInv, Revokes
  PROVE  phones' = access!Without(registry \ registry')
<1>1. \A d \in Device :
        stage'[d] = IF d \in registry \ registry' THEN "revoked" ELSE stage[d]
  BY RevokesStages DEF enrollment!Revoke
<1>. QED
  BY <1>1, PhonesOfStage, PhonesOfNextStage DEF access!Without, StagePhone

LEMMA OneTurn ==
  ASSUME NEW p \in Prompt, OtherPrompts(p), NEW from, NEW to,
         DialogOf(p) = from, DialogOf(p)' = to
  PROVE  access!Turn(p, from, to)
<1>1. \A q \in Prompt \ {p} : DialogOf(q)' = DialogOf(q)
  BY DEF OtherPrompts, DialogOf
<1>. QED  BY <1>1 DEF access!Turn, dialog

---------------------------------------------------------------------------
(* The steps.                                                              *)

LEMMA NothingChanges ==
  ASSUME UNCHANGED <<prompt, registry, allow>>, resetting' = resetting
  PROVE  UNCHANGED access!vars
<1>1. \A d \in Device : StageOf(d)' = StageOf(d)
  BY DEF StageOf, Claims, AskedFor, Unanswered
<1>2. phones' = phones
  BY <1>1, NoStage, SamePhones
<1>3. dialog' = dialog
  BY DEF dialog, DialogOf
<1>. QED  BY <1>2, <1>3 DEF access!vars

LEMMA RequestAccess ==
  ASSUME EInv, EInv', NEW h \in Handler, Request(h) PROVE [access!Next]_access!vars
<1>i. IInv
  BY DEF EInv
<1>1. CASE ShowPrompt(h)
  <2>1. PICK p \in Prompt : Opens(h, p)
    BY <1>1, <1>i, OpenKinds
  <2>2. phones' = phones
    BY <2>1, OpensStages, SamePhones
  <2>3. access!Turn(p, "none", "open")
    BY <2>1, OneTurn DEF Opens, NewPrompt, DialogOf
  <2>4. UNCHANGED <<allow, resetting>>
    BY <1>1 DEF ShowPrompt, trayVars, resetting
  <2>. QED  BY <2>2, <2>3, <2>4 DEF access!Next, access!Open
<1>2. CASE ~ShowPrompt(h)
  <2>1. UNCHANGED <<prompt, registry, allow, tray>>
    BY <1>2 DEF Request, PairingEnroll, PairingActivate, Arrive, CheckStatus,
                LockCooldown, ConsumeSession, QueueEnrollment, trayVars
  <2>. QED  BY <2>1, NothingChanges DEF resetting
<1>. QED  BY <1>1, <1>2

\* Only the registration concerns a phone.
LEMMA NotifierPhones ==
  ASSUME EInv, EInv', NEW p \in Prompt, GoesOn(p)
  PROVE  IF prompt[p].pc = "register"
         THEN \E d \in Device : enrollment!Register(d)
         ELSE phones' = phones
<1>1. \/ stage' = stage
      \/ \E d \in Device : \/ enrollment!Refuse(d) \/ enrollment!Approve(d)
                           \/ enrollment!Register(d)
  BY GoesOnStages
<1>2. CASE prompt[p].pc = "register"
  <2>1. /\ prompt[p].claimed \in Device /\ prompt[p].claimed \notin registry
        /\ prompt[p].claimed \in registry'
    BY <1>2, TypedFacts DEF GoesOn, EInv, ProgressInv, IInv, Typed, ClaimInv
  <2>2. PICK d \in Device : d \notin registry /\ d \in registry'
    BY <2>1
  <2>3. stage[d] # "paired" /\ stage'[d] = "paired"
    BY <2>2 DEF stage, StageOf
  <2>4. ASSUME NEW e \in Device, NEW from, NEW to \in {"refused", "approved"},
               enrollment!Step(e, from, to)
        PROVE  FALSE
    <3>1. stage'[d] = stage[d] \/ stage'[d] = to
      BY <2>4 DEF enrollment!Step, stage
    <3>. QED  BY <2>3, <3>1
  <2>. QED
    BY <1>1, <1>2, <2>3, <2>4 DEF enrollment!Refuse, enrollment!Approve
<1>3. CASE prompt[p].pc # "register"
  <2>1. registry' = registry
    BY <1>3 DEF GoesOn
  <2>2. ASSUME NEW d \in Device, enrollment!Register(d) PROVE FALSE
    <3>1. StageOf(d) = "approved" /\ StageOf(d)' = "paired"
      BY <2>2 DEF enrollment!Register, enrollment!Step, stage
    <3>. QED  BY <2>1, <3>1 DEF StageOf
  <2>3. phones' = phones
    BY <1>1, <2>2, SamePhones
  <2>. QED  BY <1>3, <2>3
<1>. QED  BY <1>2, <1>3

LEMMA NotifierAccess ==
  ASSUME EInv, EInv', NEW p \in Prompt, Notifier(p)
  PROVE  [access!Next]_access!vars
<1>g. GoesOn(p)
  BY NotifierKinds DEF EInv
<1>o. OtherPrompts(p)
  BY <1>g DEF GoesOn
<1>t. UNCHANGED resetting
  BY DEF Notifier, ReadHint, AnswerNo, RecordDenial, AnswerYes, Register, Unqueue,
         RecordApproval, GrantCapabilities, trayVars, resetting
<1>p. prompt \in [Prompt -> PromptRecord] /\ prompt[p] \in PromptRecord
  BY DEF EInv, IInv, TypeOK
<1>m. ASSUME NEW pc, Move(p, pc) PROVE prompt'[p].pc = pc
  BY <1>p, <1>m DEF Move, PromptRecord
<1>1. ASSUME allow' = allow, prompt[p].pc # "register", DialogOf(p)' = DialogOf(p)
      PROVE  UNCHANGED access!vars
  <2>1. dialog' = dialog
    BY <1>o, <1>1, OneTurn DEF access!Turn, dialog
  <2>2. phones' = phones
    BY <1>g, <1>1, NotifierPhones
  <2>. QED  BY <1>1, <1>t, <2>1, <2>2 DEF access!vars
<1>2. CASE ReadHint(p)
  <2>1. prompt[p].pc = "hint" /\ prompt'[p].pc = "dialog" /\ allow' = allow
    BY <1>2, <1>p DEF ReadHint, PromptRecord
  <2>. QED  BY <1>1, <2>1 DEF DialogOf
<1>3. CASE AnswerNo(p)
  <2>1. prompt[p].pc = "dialog" /\ prompt'[p].pc = "deny" /\ allow' = allow
    BY <1>3, <1>m DEF AnswerNo
  <2>2. access!Turn(p, "open", "done")
    BY <1>o, <2>1, OneTurn DEF DialogOf
  <2>3. phones' = phones
    BY <1>g, <2>1, NotifierPhones
  <2>. QED  BY <1>t, <2>1, <2>2, <2>3 DEF access!Next, access!Refuse
<1>4. CASE RecordDenial(p)
  <2>1. prompt[p].pc = "deny" /\ prompt'[p].pc = "done" /\ allow' = allow
    BY <1>4, <1>m DEF RecordDenial
  <2>. QED  BY <1>1, <2>1 DEF DialogOf
<1>5. CASE AnswerYes(p)
  <2>1. /\ prompt[p].pc = "dialog" /\ allow' = allow
        /\ prompt'[p].pc = IF Waiting(prompt[p].of) = NoDevice THEN "record"
                           ELSE "register"
    BY <1>5, <1>p DEF AnswerYes, PromptRecord
  <2>2. CASE prompt'[p].pc = "register"
    BY <1>1, <2>1, <2>2 DEF DialogOf
  <2>3. CASE prompt'[p].pc = "record"
    <3>1. access!Turn(p, "open", "granting")
      BY <1>o, <2>1, <2>3, OneTurn DEF DialogOf
    <3>2. phones' = phones
      BY <1>g, <2>1, NotifierPhones
    <3>. QED  BY <1>t, <2>1, <3>1, <3>2 DEF access!Next, access!Approve
  <2>. QED  BY <2>1, <2>2, <2>3
<1>6. CASE Register(p)
  <2>1. prompt[p].pc = "register" /\ prompt'[p].pc = "unqueue" /\ allow' = allow
    BY <1>6, <1>m DEF Register
  <2>2. access!Turn(p, "open", "granting")
    BY <1>o, <2>1, OneTurn DEF DialogOf
  <2>3. PICK d \in Device : enrollment!Register(d)
    BY <1>g, <2>1, NotifierPhones
  <2>4. phones[d] = "new" /\ phones' = [phones EXCEPT ![d] = "paired"]
    BY <2>3, RegisteredPhone
  <2>. QED  BY <1>t, <2>1, <2>2, <2>4 DEF access!Next, access!Register
<1>7. CASE Unqueue(p)
  <2>1. prompt[p].pc = "unqueue" /\ prompt'[p].pc = "record" /\ allow' = allow
    BY <1>7, <1>m DEF Unqueue
  <2>. QED  BY <1>1, <2>1 DEF DialogOf
<1>8. CASE RecordApproval(p)
  <2>1. prompt[p].pc = "record" /\ prompt'[p].pc = "grant" /\ allow' = allow
    BY <1>8, <1>m DEF RecordApproval
  <2>. QED  BY <1>1, <2>1 DEF DialogOf
<1>9. CASE GrantCapabilities(p)
  <2>1. prompt[p].pc = "grant" /\ prompt'[p].pc = "done" /\ allow' = AllOn
    BY <1>9, <1>m DEF GrantCapabilities
  <2>2. access!Turn(p, "granting", "done")
    BY <1>o, <2>1, OneTurn DEF DialogOf
  <2>3. phones' = phones
    BY <1>g, <2>1, NotifierPhones
  <2>. QED  BY <1>t, <2>1, <2>2, <2>3 DEF access!Next, access!Grant, AllOn
<1>. QED
  BY <1>2, <1>3, <1>4, <1>5, <1>6, <1>7, <1>8, <1>9 DEF Notifier

LEMMA TrayAccess ==
  ASSUME EInv, Tray PROVE [access!Next]_access!vars
<1>r. registry \subseteq Device /\ access!Paired = registry
  BY PairedIsRegistered DEF EInv, IInv, TypeOK
<1>1. CASE MintSession \/ RestartServer \/ ResetRestart
  <2>1. UNCHANGED <<prompt, registry, allow, resetting>>
    BY <1>1 DEF MintSession, RestartServer, ResetRestart, trayVars, resetting
  <2>. QED  BY <2>1, NothingChanges
<1>2. ASSUME Revokes, prompt' = prompt
      PROVE  phones' = access!Without(registry \ registry') /\ dialog' = dialog
  BY <1>2, RevokedPhones DEF dialog, DialogOf
<1>3. ASSUME NEW d \in Device, RevokeDevice(d) PROVE access!Revoke({d}) /\ d \in registry
  <2>1. Revokes /\ prompt' = prompt /\ registry \ registry' = {d} /\ d \in registry
    BY <1>3 DEF RevokeDevice, Revokes, slotVars, clockVars, trayVars
  <2>2. UNCHANGED <<allow, resetting>> /\ ~resetting
    BY <1>3 DEF RevokeDevice, trayVars, resetting
  <2>. QED  BY <1>r, <1>2, <2>1, <2>2 DEF access!Revoke
<1>4. CASE RevokeAll
  <2>1. Revokes /\ prompt' = prompt /\ registry \ registry' = registry
    BY <1>4 DEF RevokeAll, Revokes, slotVars, clockVars, trayVars
  <2>2. UNCHANGED <<allow, resetting>> /\ ~resetting
    BY <1>4 DEF RevokeAll, trayVars, resetting
  <2>3. access!Revoke(access!Paired)
    BY <1>r, <1>2, <2>1, <2>2 DEF access!Revoke
  <2>. QED  BY <2>3 DEF access!Next
<1>5. CASE ResetRegistry
  <2>1. Revokes /\ prompt' = prompt /\ registry \ registry' = registry
    BY <1>5 DEF ResetRegistry, Revokes, slotVars, clockVars, trayVars
  <2>2. allow' = allow /\ ~resetting /\ resetting' = TRUE
    BY <1>5 DEF ResetRegistry, resetting
  <2>3. access!ResetRegistry
    BY <1>r, <1>2, <2>1, <2>2 DEF access!ResetRegistry
  <2>. QED  BY <2>3 DEF access!Next
<1>6. CASE ResetConfig
  <2>1. UNCHANGED <<prompt, registry>>
    BY <1>6 DEF ResetConfig
  <2>2. allow' = AllOff /\ resetting /\ resetting' = FALSE
    BY <1>6 DEF ResetConfig, resetting
  <2>3. phones' = phones /\ dialog' = dialog
    <3>1. \A d \in Device : StageOf(d)' = StageOf(d)
      BY <2>1 DEF StageOf, Claims, AskedFor, Unanswered
    <3>. QED  BY <2>1, <3>1, NoStage, SamePhones DEF dialog, DialogOf
  <2>4. access!ResetConfig
    BY <2>2, <2>3 DEF access!ResetConfig, AllOff
  <2>. QED  BY <2>4 DEF access!Next
<1>7. CASE ReloadConfig
  <2>1. UNCHANGED <<prompt, registry>> /\ allow' \in Edited
        /\ ~resetting /\ resetting' = resetting
    BY <1>7 DEF ReloadConfig, trayVars, resetting
  <2>2. phones' = phones /\ dialog' = dialog
    <3>1. \A d \in Device : StageOf(d)' = StageOf(d)
      BY <2>1 DEF StageOf, Claims, AskedFor, Unanswered
    <3>. QED  BY <2>1, <3>1, NoStage, SamePhones DEF dialog, DialogOf
  <2>3. access!Reload
    <3>1. \E c \in Edited : allow.input' = c.input /\ allow.power' = c.power
      BY <2>1
    <3>. QED  BY <2>1, <2>2, <3>1 DEF access!Reload
  <2>. QED  BY <2>3 DEF access!Next
<1>. QED
  BY <1>r, <1>1, <1>3, <1>4, <1>5, <1>6, <1>7 DEF Tray, access!Next

LEMMA NextAccess ==
  ASSUME EInv, EInv', [Next]_vars PROVE [access!Next]_access!vars
<1>1. CASE Tick \/ PollSlot \/ (\E d \in Device : PollRegistry(d)) \/ UNCHANGED vars
  <2>1. UNCHANGED <<prompt, registry, allow, tray>>
    BY <1>1 DEF Tick, PollSlot, PollRegistry, vars, trayVars
  <2>. QED  BY <2>1, NothingChanges DEF resetting
<1>. QED
  BY <1>1, RequestAccess, NotifierAccess, TrayAccess DEF Next

(* The pairing flow implements Access, so that what is proved of commands  *)
(* against Access holds against it: a dialog that is answered once grants  *)
(* once, registers at most one phone that was never registered before, and *)
(* no phone comes back after it was revoked, however requests, dialogs,    *)
(* restarts, revocations, reloads and resets overlap                       *)
(* (windows_pairing_notifier, commit_valid, reload_config_if_changed,      *)
(* reset_companion).  A capability comes on by such a grant or by a reload *)
(* of a file that was edited to have it, and by nothing else: by a grant   *)
(* alone, where Edited has no capability on.                               *)
THEOREM AccessRefined == ASSUME ShortStall PROVE Spec => ImplementsAccess
<1>1. Init => access!Init
  <2> SUFFICES ASSUME Init PROVE access!Init
    OBVIOUS
  <2>1. \A d \in Device : PhoneOf(d) = "new"
    BY InitStages DEF PhoneOf
  <2>2. phones \in [Device -> {"new", "paired"}]
    BY <2>1 DEF phones
  <2>3. dialog = [p \in Prompt |-> "none"]
    BY DEF Init, NoPrompt, dialog, DialogOf
  <2>4. allow.input = FALSE /\ allow.power = FALSE /\ resetting = FALSE
    BY DEF Init, AllOff, resetting
  <2>. QED  BY <2>2, <2>3, <2>4 DEF access!Init
<1>2. EInv /\ EInv' /\ [Next]_vars => [access!Next]_access!vars
  BY NextAccess
<1>. QED
  BY <1>1, <1>2, EnrollmentInvariant, PTL
     DEF Spec, ImplementsAccess, access!Spec
=============================================================================
