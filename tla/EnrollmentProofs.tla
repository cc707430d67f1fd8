-------------------------- MODULE EnrollmentProofs --------------------------
(* Pairing implements Enrollment, a status read reports a false denial     *)
(* only in the two documented cases, and a QR token is worth one prompt:   *)
(* for every number of requests, dialogs, devices, tokens and restarts.    *)
EXTENDS PairingRefinement, PairingProofs, FiniteSetTheorems

---------------------------------------------------------------------------
(* What each kind of step does to one enrollment.                          *)

Others(h) == \A k \in Handler : k # h => req'[k] = req[k]
OtherPrompts(p) == \A q \in Prompt : q # p => prompt'[q] = prompt[q]

\* A request begins, for a fresh device id or for none.
Arrives(h) ==
  /\ Others(h)
  /\ req'[h].dev # NoDevice => requestedAt[req'[h].dev] = Never
  /\ \A e \in Device : requestedAt[e] # Never => requestedAt'[e] = requestedAt[e]
  /\ UNCHANGED <<now, server, slot, prompt, registry, poll, denied>>

\* A request goes on, or ends; only one that has reserved fills the slot.
Advances(h) ==
  /\ Others(h) /\ req'[h].dev \in {req[h].dev, NoDevice}
  /\ \A g \in Coordinator : slot'[g] = slot[g] \/ (g = server /\ Reserved(h))
  /\ UNCHANGED <<now, server, requestedAt, prompt, registry, poll, denied>>

\* A request opens its dialog, and ends.
Opens(h, p) ==
  /\ req[h].pc = "show" /\ Others(h) /\ req'[h].dev = NoDevice
  /\ prompt[p].pc = "none" /\ OtherPrompts(p)
  /\ prompt'[p] = NewPrompt(req[h].dev, req[h].cred)
  /\ UNCHANGED <<now, server, slot, requestedAt, registry, poll, denied>>

\* A dialog goes on.
GoesOn(p) ==
  LET r == prompt[p]
      s == prompt'[p]
      same == s.claimed = r.claimed /\ registry' = registry
      cleared == slot' = [slot EXCEPT ![r.of] = NoDevice]
  IN /\ s.of = r.of /\ s.asked = r.asked /\ OtherPrompts(p)
     /\ \/ r.pc = "hint" /\ s.pc = "dialog" /\ same /\ slot' = slot
        \/ r.pc = "dialog" /\ s.pc = "deny" /\ same /\ cleared
        \/ /\ r.pc = "dialog" /\ s.claimed = Waiting(r.of)
           /\ s.pc = IF s.claimed = NoDevice THEN "record" ELSE "register"
           /\ registry' = registry /\ slot' = slot
        \/ /\ r.pc = "register" /\ s.pc = "unqueue" /\ s.claimed = r.claimed
           /\ RegistryFree /\ registry' = registry \cup {r.claimed}
           /\ slot' = slot
        \/ r.pc = "unqueue" /\ s.pc = "record" /\ same /\ cleared
        \/ /\ r.pc \in {"deny", "record", "grant"} /\ s.pc \in {"grant", "done"}
           /\ same /\ slot' = slot
     /\ UNCHANGED <<now, server, requestedAt, req, poll, denied>>

\* Phones are revoked while no status read holds the registry.
Revokes ==
  /\ RegistryFree /\ registry' \subseteq registry
  /\ UNCHANGED <<now, server, slot, requestedAt, req, prompt, poll, denied>>

\* A status read looks into the registry, and then into the slot.
LooksUp(d) ==
  /\ poll' = d /\ d \in Device \ registry /\ \E p \in Prompt : prompt[p].asked = d
  /\ UNCHANGED <<now, server, slot, requestedAt, req, prompt, registry, denied>>
LooksInSlot ==
  /\ poll # NoDevice /\ poll' = NoDevice
  /\ denied' = IF Holds(server, poll) THEN denied ELSE denied \cup {poll}
  /\ UNCHANGED <<now, server, slot, requestedAt, req, prompt, registry>>

\* Time passes, or a server is replaced, or nothing of an enrollment changes.
Passes ==
  /\ now' >= now /\ server' >= server
  /\ UNCHANGED <<slot, requestedAt, req, prompt, registry, poll, denied>>

LEMMA ArrivalKinds ==
  ASSUME IInv, NEW h \in Handler, PairingEnroll(h) \/ PairingActivate(h)
  PROVE  Arrives(h)
<1>1. PICK d \in Device \cup {NoDevice}, c \in Token \cup {NoToken} :
        /\ Arrive(h, d, c)
        /\ \/ /\ d \in Device /\ requestedAt[d] = Never
              /\ requestedAt' = [requestedAt EXCEPT ![d] = now]
           \/ d = NoDevice /\ requestedAt' = requestedAt
  BY DEF PairingEnroll, PairingActivate
<1>2. req'[h].dev = d /\ Others(h)
  BY <1>1 DEF Arrive, NewRequest, Others, IInv, TypeOK
<1>3. \A e \in Device : requestedAt[e] # Never => requestedAt'[e] = requestedAt[e]
  BY <1>1 DEF IInv, TypeOK
<1>4. UNCHANGED <<now, server, slot, prompt, registry, poll, denied>>
  BY <1>1 DEF Arrive, slotVars, trayVars
<1>. QED  BY <1>1, <1>2, <1>3, <1>4 DEF Arrives

LEMMA RequestMoved ==
  ASSUME IInv, NEW h \in Handler, NEW r, req' = [req EXCEPT ![h] = r],
         r.dev \in {req[h].dev, NoDevice},
         UNCHANGED <<now, server, requestedAt, prompt, registry, poll, denied>>,
         \A g \in Coordinator : slot'[g] = slot[g] \/ (g = server /\ Reserved(h))
  PROVE  Advances(h)
<1>1. req'[h] = r /\ Others(h)
  BY DEF IInv, TypeOK, Others
<1>. QED  BY <1>1 DEF Advances

LEMMA AdvanceKinds ==
  ASSUME IInv, NEW h \in Handler,
         \/ CheckStatus(h) \/ LockCooldown(h) \/ ConsumeSession(h)
         \/ QueueEnrollment(h)
  PROVE  Advances(h)
<1>t. req[h] \in RequestRecord /\ slot \in [Coordinator -> Device \cup {NoDevice}]
  BY DEF IInv, TypeOK
<1>u. UNCHANGED <<now, server, requestedAt, prompt, registry, poll, denied>>
  BY DEF CheckStatus, LockCooldown, ConsumeSession, QueueEnrollment, clockVars,
         trayVars
<1>r. IdleRequest.dev = NoDevice
  BY DEF IdleRequest
<1>1. ASSUME Refuse(h), slot' = slot PROVE Advances(h)
  BY <1>1, <1>u, <1>r, RequestMoved DEF Refuse
<1>2. CASE CheckStatus(h)
  <2>1. [req[h] EXCEPT !.pc = "lock", !.since = now].dev = req[h].dev
    BY <1>t DEF RequestRecord
  <2>. QED  BY <1>1, <1>2, <1>u, <2>1, RequestMoved DEF CheckStatus, slotVars
<1>3. CASE LockCooldown(h)
  <2>1. [req[h] EXCEPT !.pc = "consume", !.stamp = now].dev = req[h].dev
    BY <1>t DEF RequestRecord
  <2>. QED  BY <1>1, <1>3, <1>u, <2>1, RequestMoved DEF LockCooldown, slotVars
<1>4. CASE ConsumeSession(h)
  <2>1. [req[h] EXCEPT !.pc = "queue"].dev = req[h].dev
    BY <1>t DEF RequestRecord
  <2>. QED  BY <1>1, <1>4, <1>u, <2>1, RequestMoved DEF ConsumeSession
<1>5. CASE QueueEnrollment(h)
  <2>1. [req[h] EXCEPT !.pc = "show"].dev = req[h].dev
    BY <1>t DEF RequestRecord
  <2>2. \A g \in Coordinator : slot'[g] = slot[g] \/ (g = server /\ Reserved(h))
    BY <1>5, <1>t DEF QueueEnrollment, Reserved
  <2>3. req' = [req EXCEPT ![h] = [req[h] EXCEPT !.pc = "show"]]
    BY <1>5 DEF QueueEnrollment
  <2>. QED  BY <1>u, <2>1, <2>2, <2>3, RequestMoved
<1>. QED  BY <1>2, <1>3, <1>4, <1>5

LEMMA OpenKinds ==
  ASSUME IInv, NEW h \in Handler, ShowPrompt(h)
  PROVE  \E p \in Prompt : Opens(h, p)
<1>1. PICK p \in Unspawned :
        prompt' = [prompt EXCEPT ![p] = NewPrompt(req[h].dev, req[h].cred)]
  BY DEF ShowPrompt
<1>2. /\ p \in Prompt /\ prompt[p].pc = "none" /\ OtherPrompts(p)
      /\ prompt'[p] = NewPrompt(req[h].dev, req[h].cred)
  BY <1>1 DEF Unspawned, OtherPrompts, IInv, TypeOK
<1>3. req'[h].dev = NoDevice /\ Others(h)
  BY DEF ShowPrompt, IdleRequest, Others, IInv, TypeOK
<1>. QED
  BY <1>2, <1>3 DEF ShowPrompt, Opens, slotVars, clockVars, trayVars

LEMMA NotifierKinds ==
  ASSUME IInv, NEW p \in Prompt, Notifier(p)
  PROVE  GoesOn(p)
<1>t. prompt \in [Prompt -> PromptRecord] /\ prompt[p] \in PromptRecord
  BY DEF IInv, TypeOK
<1>u. UNCHANGED <<now, server, requestedAt, req, poll, denied>>
  BY DEF Notifier, ReadHint, AnswerNo, RecordDenial, AnswerYes, Register, Unqueue,
         RecordApproval, GrantCapabilities, slotVars, clockVars, trayVars
<1>m. ASSUME NEW pc, Move(p, pc)
      PROVE  /\ prompt'[p].pc = pc /\ prompt'[p].claimed = prompt[p].claimed
             /\ prompt'[p].of = prompt[p].of /\ prompt'[p].asked = prompt[p].asked
             /\ OtherPrompts(p)
  BY <1>t, <1>m DEF Move, OtherPrompts, PromptRecord
<1>1. CASE ReadHint(p)
  <2>1. /\ prompt'[p].pc = "dialog" /\ prompt'[p].claimed = prompt[p].claimed
        /\ prompt'[p].of = prompt[p].of /\ prompt'[p].asked = prompt[p].asked
        /\ OtherPrompts(p)
    BY <1>t, <1>1 DEF ReadHint, OtherPrompts, PromptRecord
  <2>. QED  BY <1>u, <1>1, <2>1 DEF ReadHint, GoesOn, slotVars
<1>2. CASE AnswerNo(p)
  BY <1>u, <1>m, <1>2 DEF AnswerNo, GoesOn
<1>3. CASE RecordDenial(p)
  BY <1>u, <1>m, <1>3 DEF RecordDenial, GoesOn
<1>4. CASE AnswerYes(p)
  <2>1. /\ prompt'[p].claimed = Waiting(prompt[p].of)
        /\ prompt'[p].pc = IF Waiting(prompt[p].of) = NoDevice THEN "record"
                           ELSE "register"
        /\ prompt'[p].of = prompt[p].of /\ prompt'[p].asked = prompt[p].asked
        /\ OtherPrompts(p)
    BY <1>t, <1>4 DEF AnswerYes, OtherPrompts, PromptRecord
  <2>. QED  BY <1>u, <1>4, <2>1 DEF AnswerYes, GoesOn, slotVars
<1>5. CASE Register(p)
  BY <1>u, <1>m, <1>5 DEF Register, GoesOn, slotVars
<1>6. CASE Unqueue(p)
  BY <1>u, <1>m, <1>6 DEF Unqueue, GoesOn
<1>7. CASE RecordApproval(p)
  BY <1>u, <1>m, <1>7 DEF RecordApproval, GoesOn
<1>8. CASE GrantCapabilities(p)
  BY <1>u, <1>m, <1>8 DEF GrantCapabilities, GoesOn, slotVars
<1>. QED  BY <1>1, <1>2, <1>3, <1>4, <1>5, <1>6, <1>7, <1>8 DEF Notifier

LEMMA OtherKinds ==
  ASSUME IInv,
         \/ Tick \/ Tray \/ PollSlot \/ (\E d \in Device : PollRegistry(d))
         \/ UNCHANGED vars
  PROVE  Passes \/ Revokes \/ LooksInSlot \/ \E d \in Device : LooksUp(d)
<1>t. now \in Int /\ server \in Int
  BY TypedFacts DEF IInv, Typed, Coordinator
<1>1. CASE \/ Tick \/ MintSession \/ ReloadConfig \/ RestartServer
           \/ ResetConfig \/ ResetRestart \/ UNCHANGED vars
  <2>1. UNCHANGED <<slot, requestedAt, req, prompt, registry, poll, denied>>
    BY <1>1 DEF Tick, MintSession, ReloadConfig, RestartServer, ResetConfig,
                ResetRestart, vars, slotVars, clockVars
  <2>2. now' \in {now, now + 1} /\ server' \in {server, server + 1}
    BY <1>1 DEF Tick, MintSession, ReloadConfig, RestartServer, ResetConfig,
                ResetRestart, vars, NewServer, trayVars
  <2>. QED  BY <1>t, <2>1, <2>2 DEF Passes
<1>2. CASE RevokeAll \/ ResetRegistry \/ \E d \in Device : RevokeDevice(d)
  <2>1. RegistryFree /\ registry' \subseteq registry
    BY <1>2 DEF RevokeAll, ResetRegistry, RevokeDevice
  <2>2. UNCHANGED <<now, server, slot, requestedAt, req, prompt, poll, denied>>
    BY <1>2 DEF RevokeAll, ResetRegistry, RevokeDevice, slotVars, clockVars,
                trayVars
  <2>. QED  BY <2>1, <2>2 DEF Revokes
<1>3. CASE PollSlot
  BY <1>3 DEF PollSlot, LooksInSlot, slotVars, clockVars, trayVars
<1>4. ASSUME NEW d \in Device, PollRegistry(d) PROVE LooksUp(d)
  BY <1>4 DEF PollRegistry, LooksUp, slotVars, clockVars, trayVars
<1>. QED  BY <1>1, <1>2, <1>3, <1>4 DEF Tray

LEMMA StepKinds ==
  ASSUME IInv, [Next]_vars
  PROVE  \/ Passes \/ Revokes \/ LooksInSlot \/ \E d \in Device : LooksUp(d)
         \/ \E h \in Handler :
              Arrives(h) \/ Advances(h) \/ \E p \in Prompt : Opens(h, p)
         \/ \E p \in Prompt : GoesOn(p)
<1>1. ASSUME NEW h \in Handler, Request(h)
      PROVE  Arrives(h) \/ Advances(h) \/ \E p \in Prompt : Opens(h, p)
  BY <1>1, ArrivalKinds, AdvanceKinds, OpenKinds DEF Request
<1>. QED  BY <1>1, NotifierKinds, OtherKinds DEF Next

---------------------------------------------------------------------------
(* The invariant.                                                          *)

\* A device id belongs to one request or to one dialog.
OriginInv ==
  /\ \A h, k \in Handler :
       req[h].dev = req[k].dev /\ req[h].dev # NoDevice => h = k
  /\ \A p, q \in Prompt :
       prompt[p].asked = prompt[q].asked /\ prompt[p].asked # NoDevice => p = q
  /\ \A h \in Handler, p \in Prompt :
       req[h].dev # NoDevice => prompt[p].asked # req[h].dev

\* Only a "Yes" claims a device, and only a claimed device is registered.
ProgressInv ==
  /\ \A p \in Prompt :
       /\ prompt[p].pc = "none" => prompt[p].asked = NoDevice
       /\ prompt[p].pc \in {"none", "hint", "dialog", "deny"} =>
            prompt[p].claimed = NoDevice
       /\ prompt[p].pc = "register" => prompt[p].claimed \notin registry
  /\ \A d \in registry : \E p \in Prompt : prompt[p].claimed = d

LEMMA InitOrigin == Init => OriginInv /\ ProgressInv
BY NullAssumption DEF Init, IdleRequest, NoPrompt, OriginInv, ProgressInv

LEMMA OriginKept ==
  ASSUME OriginInv,
         \A h \in Handler : req'[h].dev \in {req[h].dev, NoDevice},
         \A p \in Prompt : prompt'[p].asked = prompt[p].asked
  PROVE  OriginInv'
BY DEF OriginInv

LEMMA NextOrigin ==
  ASSUME IInv, OriginInv, [Next]_vars PROVE OriginInv'
<1>1. CASE Passes \/ Revokes \/ LooksInSlot \/ \E d \in Device : LooksUp(d)
  BY <1>1, OriginKept DEF Passes, Revokes, LooksInSlot, LooksUp
<1>2. ASSUME NEW h \in Handler, Arrives(h) PROVE OriginInv'
  <2>1. /\ \A k \in Handler : req[k].dev # NoDevice => requestedAt[req[k].dev] # Never
        /\ \A p \in Prompt :
             prompt[p].asked # NoDevice => requestedAt[prompt[p].asked] # Never
    BY DEF IInv, DialogInv, BornInv
  <2>2. /\ \A k \in Handler : k # h => req'[k] = req[k]
        /\ req'[h].dev # NoDevice => requestedAt[req'[h].dev] = Never
        /\ prompt' = prompt
    BY <1>2 DEF Arrives, Others
  <2>. QED  BY <2>1, <2>2 DEF OriginInv
<1>3. ASSUME NEW h \in Handler, Advances(h) PROVE OriginInv'
  BY <1>3, OriginKept DEF Advances, Others
<1>4. ASSUME NEW h \in Handler, NEW p \in Prompt, Opens(h, p) PROVE OriginInv'
  <2>1. prompt'[p].asked = req[h].dev
    BY <1>4 DEF Opens, NewPrompt
  <2>2. /\ \A q \in Prompt : q # p => prompt'[q] = prompt[q]
        /\ \A k \in Handler : k # h => req'[k] = req[k]
        /\ req'[h].dev = NoDevice
    BY <1>4 DEF Opens, Others, OtherPrompts
  <2>. QED  BY <2>1, <2>2 DEF OriginInv
<1>5. ASSUME NEW p \in Prompt, GoesOn(p) PROVE OriginInv'
  BY <1>5, OriginKept DEF GoesOn, OtherPrompts
<1>. QED  BY <1>1, <1>2, <1>3, <1>4, <1>5, StepKinds

LEMMA NextProgress ==
  ASSUME IInv, IInv', OriginInv, ProgressInv, [Next]_vars PROVE ProgressInv'
<1>t. \A p \in Prompt : prompt[p].claimed \in Device \cup {NoDevice}
  BY TypedFacts DEF IInv, Typed
<1>1. ASSUME prompt' = prompt, registry' \subseteq registry PROVE ProgressInv'
  BY <1>1 DEF ProgressInv
<1>2. CASE Passes \/ Revokes \/ LooksInSlot \/ \E d \in Device : LooksUp(d)
  BY <1>1, <1>2 DEF Passes, Revokes, LooksInSlot, LooksUp
<1>3. ASSUME NEW h \in Handler, Arrives(h) \/ Advances(h) PROVE ProgressInv'
  BY <1>1, <1>3 DEF Arrives, Advances
<1>4. ASSUME NEW h \in Handler, NEW p \in Prompt, Opens(h, p) PROVE ProgressInv'
  <2>1. /\ prompt'[p].pc = "hint" /\ prompt'[p].claimed = NoDevice
        /\ registry' = registry /\ prompt[p].claimed = NoDevice
        /\ \A q \in Prompt : q # p => prompt'[q] = prompt[q]
    BY <1>4 DEF Opens, NewPrompt, OtherPrompts, ProgressInv
  <2>2. NoDevice \notin registry
    BY NullAssumption DEF IInv, TypeOK
  <2>. QED  BY <2>1, <2>2 DEF ProgressInv
<1>5. ASSUME NEW p \in Prompt, GoesOn(p) PROVE ProgressInv'
  <2>o. /\ \A q \in Prompt : q # p => prompt'[q] = prompt[q]
        /\ prompt'[p].asked = prompt[p].asked
    BY <1>5 DEF GoesOn, OtherPrompts
  <2>g. \A q \in Prompt : prompt[q].claimed # NoDevice =>
                            prompt[q].asked = prompt[q].claimed
    BY DEF IInv, DialogInv, PromptGrantsOnlyItsDevice
  <2>h. \A q \in Prompt : prompt'[q].claimed # NoDevice =>
                            prompt'[q].asked = prompt'[q].claimed
    BY DEF IInv, DialogInv, PromptGrantsOnlyItsDevice
  <2>1. CASE prompt[p].pc = "register"
    <3>1. /\ prompt'[p].pc = "unqueue" /\ prompt'[p].claimed = prompt[p].claimed
          /\ registry' = registry \cup {prompt[p].claimed}
      BY <1>5, <2>1 DEF GoesOn
    <3>2. prompt[p].claimed # NoDevice
      BY <2>1 DEF IInv, ClaimInv
    <3>3. \A q \in Prompt : q # p /\ prompt[q].pc = "register" =>
            prompt[q].claimed # NoDevice /\ prompt[q].claimed # prompt[p].claimed
      BY <2>g, <3>2 DEF IInv, ClaimInv, OriginInv
    <3>. QED  BY <2>o, <3>1, <3>3 DEF ProgressInv
  <2>2. CASE prompt[p].pc = "dialog" /\ prompt'[p].pc # "deny"
    <3>1. /\ prompt[p].claimed = NoDevice /\ registry' = registry
          /\ prompt'[p].pc = IF prompt'[p].claimed = NoDevice THEN "record"
                             ELSE "register"
      BY <1>5, <2>2 DEF GoesOn, ProgressInv
    <3>2. prompt'[p].claimed # NoDevice => prompt'[p].claimed \notin registry
      BY <2>g, <2>h, <2>o, <3>1 DEF ProgressInv, OriginInv
    <3>3. NoDevice \notin registry
      BY NullAssumption DEF IInv, TypeOK
    <3>. QED  BY <2>o, <3>1, <3>2, <3>3 DEF ProgressInv
  <2>3. CASE prompt[p].pc # "register" /\ ~(prompt[p].pc = "dialog" /\ prompt'[p].pc # "deny")
    <3>1. /\ prompt'[p].claimed = prompt[p].claimed /\ registry' = registry
          /\ prompt'[p].pc \notin {"none", "register"}
          /\ prompt'[p].pc \in {"hint", "dialog", "deny"} =>
               prompt[p].pc \in {"hint", "dialog"}
      BY <1>5, <2>3 DEF GoesOn
    <3>. QED  BY <2>o, <3>1 DEF ProgressInv
  <2>. QED  BY <2>1, <2>2, <2>3
<1>. QED  BY <1>2, <1>3, <1>4, <1>5, StepKinds

---------------------------------------------------------------------------
(* Status reads.                                                           *)

\* A device that a status read called denied has expired, or was asked about
\* by a replaced coordinator, or will not be registered any more.
Asked(d) == \E p \in Prompt : prompt[p].asked = d
GoneFor(d) ==
  \/ Expired(d)
  \/ \E p \in Prompt :
       /\ prompt[p].asked = d
       /\ \/ prompt[p].of < server
          \/ prompt[p].pc \notin {"hint", "dialog", "register"} /\ d \notin registry

ReadInv ==
  /\ poll # NoDevice => poll \notin registry /\ Asked(poll)
  /\ \A p \in Prompt :
       /\ prompt[p].of <= server
       /\ prompt[p].pc \in {"register", "unqueue"} =>
            slot[prompt[p].of] = prompt[p].claimed
  /\ \A d \in denied : Asked(d) /\ GoneFor(d)

LEMMA InitRead == Init => ReadInv
BY ServersAssumption DEF Init, NoPrompt, ReadInv

\* Time, restarts and revocations bring nobody back.
LEMMA ReadKept ==
  ASSUME IInv, ReadInv, now' \in Int, server' \in Int,
         now' >= now, server' >= server, registry' \subseteq registry,
         UNCHANGED <<slot, prompt, poll, denied>>,
         \A d \in Device : requestedAt[d] # Never => requestedAt'[d] = requestedAt[d]
  PROVE  ReadInv'
<1>t. /\ Typed /\ denied \subseteq Device
      /\ NoDevice \notin Device
  BY TypedFacts, NullAssumption DEF IInv, TypeOK
<1>1. \A p \in Prompt : prompt[p].of \in Int
  BY <1>t DEF Typed, Coordinator
<1>s. server \in Int
  BY <1>t DEF Typed, Coordinator
<1>2. ASSUME NEW d \in denied PROVE Asked(d)' /\ GoneFor(d)'
  <2>1. Asked(d) /\ GoneFor(d)
    BY <1>2 DEF ReadInv
  <2>2. d # NoDevice /\ requestedAt[d] # Never
    BY <1>t, <1>2, <2>1 DEF IInv, DialogInv, BornInv, Asked
  <2>3. Expired(d) => Expired(d)'
    BY <1>t, <1>2, <2>2 DEF Typed, Expired
  <2>. QED  BY <1>1, <1>s, <2>1, <2>3 DEF GoneFor, Asked
<1>3. \A p \in Prompt : prompt'[p].of <= server'
  BY <1>1, <1>s DEF ReadInv
<1>. QED  BY <1>2, <1>3 DEF ReadInv, Asked

\* A dialog that opens leaves every device's own dialog as it is.
LEMMA OpensRead ==
  ASSUME IInv, ProgressInv, ReadInv, NEW h \in Handler, NEW p \in Prompt,
         Opens(h, p)
  PROVE  ReadInv'
<1>t. /\ Typed /\ denied \subseteq Device /\ NoDevice \notin Device
  BY TypedFacts, NullAssumption DEF IInv, TypeOK
<1>1. /\ prompt[p].asked = NoDevice /\ prompt'[p].pc = "hint"
      /\ prompt'[p].of = server
      /\ \A q \in Prompt : q # p => prompt'[q] = prompt[q]
      /\ UNCHANGED <<now, server, slot, requestedAt, registry, poll, denied>>
  BY DEF Opens, NewPrompt, OtherPrompts, ProgressInv
<1>2. \A d : d # NoDevice /\ Asked(d) => Asked(d)'
  BY <1>1 DEF Asked
<1>3. \A d : d # NoDevice /\ GoneFor(d) => GoneFor(d)'
  BY <1>1 DEF GoneFor, Expired
<1>4. server \in Int
  BY <1>t DEF Typed, Coordinator
<1>. QED  BY <1>t, <1>1, <1>2, <1>3, <1>4 DEF ReadInv

\* A request fills the slot of a coordinator without a dialog only.
LEMMA AdvancesRead ==
  ASSUME IInv, ReadInv, NEW h \in Handler, Advances(h)
  PROVE  ReadInv'
<1>1. UNCHANGED <<now, server, requestedAt, prompt, registry, poll, denied>>
  BY DEF Advances
<1>2. \A p \in Prompt : prompt[p].pc \in {"register", "unqueue"} =>
        slot'[prompt[p].of] = slot[prompt[p].of]
  BY TypedFacts DEF IInv, DialogInv, OwnerInv, Open, Advances, Typed
<1>. QED  BY <1>1, <1>2 DEF ReadInv, Asked, GoneFor, Expired

\* A dialog that goes on empties its own slot at most, and registers only the
\* device it was asked about.
LEMMA GoesOnRead ==
  ASSUME IInv, IInv', OriginInv, ProgressInv, ReadInv, NEW p \in Prompt, GoesOn(p)
  PROVE  ReadInv'
<1>t. /\ Typed /\ denied \subseteq Device /\ NoDevice \notin Device
      /\ slot \in [Coordinator -> Device \cup {NoDevice}]
  BY TypedFacts, NullAssumption DEF IInv, TypeOK
<1>1. /\ UNCHANGED <<now, server, requestedAt, poll, denied>>
      /\ \A q \in Prompt : /\ prompt'[q].of = prompt[q].of
                           /\ prompt'[q].asked = prompt[q].asked
      /\ \A q \in Prompt : q # p => prompt'[q] = prompt[q]
  BY DEF GoesOn, OtherPrompts
<1>2. \A d : Asked(d) <=> Asked(d)'
  BY <1>1 DEF Asked
<1>g. \A q \in Prompt : prompt[q].claimed # NoDevice =>
                          prompt[q].asked = prompt[q].claimed
  BY DEF IInv, DialogInv, PromptGrantsOnlyItsDevice
<1>3. ASSUME NEW d \in denied PROVE GoneFor(d)'
  <2>1. GoneFor(d) /\ d # NoDevice
    BY <1>t, <1>3 DEF ReadInv
  <2>2. CASE Expired(d)
    BY <1>1, <2>2 DEF GoneFor, Expired
  <2>3. CASE \E q \in Prompt : prompt[q].asked = d /\ prompt[q].of < server
    BY <1>1, <2>3 DEF GoneFor
  <2>4. ASSUME NEW q \in Prompt, prompt[q].asked = d, d \notin registry,
               prompt[q].pc \notin {"hint", "dialog", "register"}
        PROVE  GoneFor(d)'
    <3>1. prompt'[q].pc \notin {"hint", "dialog", "register"}
      BY <1>1, <2>4 DEF GoesOn
    <3>2. d \notin registry'
      <4>1. CASE prompt[p].pc = "register"
        BY <1>g, <2>1, <2>4, <4>1 DEF GoesOn, OriginInv, IInv, ClaimInv
      <4>2. CASE prompt[p].pc # "register"
        BY <2>4, <4>2 DEF GoesOn
      <4>. QED  BY <4>1, <4>2
    <3>. QED  BY <1>1, <2>4, <3>1, <3>2 DEF GoneFor
  <2>. QED  BY <2>1, <2>2, <2>3, <2>4 DEF GoneFor
<1>4. poll # NoDevice => poll \notin registry'
  <2>1. poll # NoDevice => poll \notin registry
    BY DEF ReadInv
  <2>2. registry' = registry \/ RegistryFree
    BY DEF GoesOn
  <2>. QED  BY <2>1, <2>2 DEF RegistryFree
<1>5. ASSUME NEW q \in Prompt, prompt'[q].pc \in {"register", "unqueue"}
      PROVE  slot'[prompt'[q].of] = prompt'[q].claimed
  <2>1. CASE q = p
    <3>1. CASE prompt[p].pc = "dialog"
      BY <1>1, <1>5, <2>1, <3>1 DEF GoesOn, Waiting
    <3>2. CASE prompt[p].pc = "register"
      BY <1>1, <1>5, <2>1, <3>2 DEF GoesOn, ReadInv
    <3>. QED  BY <1>5, <2>1, <3>1, <3>2 DEF GoesOn
  <2>2. CASE q # p
    <3>1. prompt[q].of # prompt[p].of \/ slot' = slot
      BY <1>1, <1>5, <2>2 DEF IInv, DialogInv, OwnerInv, OneDialogPerCoordinator,
                              Open, GoesOn
    <3>2. slot'[prompt[q].of] = slot[prompt[q].of]
      BY <1>t, <3>1 DEF GoesOn, Typed
    <3>. QED  BY <1>1, <1>5, <2>2, <3>2 DEF ReadInv
  <2>. QED  BY <2>1, <2>2
<1>6. \A q \in Prompt : prompt'[q].of <= server'
  BY <1>1 DEF ReadInv
<1>. QED  BY <1>1, <1>2, <1>3, <1>4, <1>5, <1>6 DEF ReadInv


\* A status read that finds nothing in the slot of the running server speaks
\* of a device that is gone.
LEMMA LooksInSlotRead ==
  ASSUME IInv, OriginInv, ProgressInv, ReadInv, LooksInSlot PROVE ReadInv'
<1>t. Typed /\ poll \in Device
  BY TypedFacts DEF IInv, TypeOK, LooksInSlot
<1>u. UNCHANGED <<now, server, slot, requestedAt, prompt, registry>>
  BY DEF LooksInSlot
<1>1. Asked(poll) /\ poll \notin registry
  BY DEF LooksInSlot, ReadInv
<1>2. ~Holds(server, poll) => GoneFor(poll)
  <2> SUFFICES ASSUME ~Holds(server, poll), ~Expired(poll) PROVE GoneFor(poll)
    BY DEF GoneFor
  <2>1. PICK p \in Prompt : prompt[p].asked = poll
    BY <1>1 DEF Asked
  <2>2. slot[server] # poll
    BY <1>t, NullAssumption DEF Holds, Waiting
  <2>3. prompt[p].of <= server /\ prompt[p].of \in Int /\ server \in Int
    BY <1>t DEF ReadInv, Typed, Coordinator
  <2>4. CASE prompt[p].of = server
    <3>1. prompt[p].pc \notin {"hint", "dialog"}
      BY <1>t, <2>1, <2>2, <2>4, NullAssumption DEF IInv, DialogInv, SlotInv
    <3>2. prompt[p].pc # "register"
      BY <2>1, <2>2, <2>4 DEF IInv, DialogInv, PromptGrantsOnlyItsDevice, ClaimInv,
                              ReadInv
    <3>. QED  BY <1>1, <2>1, <3>1, <3>2 DEF GoneFor
  <2>. QED  BY <2>1, <2>3, <2>4 DEF GoneFor
<1>3. \A d : GoneFor(d) => GoneFor(d)'
  BY <1>u DEF GoneFor, Expired
<1>. QED  BY <1>u, <1>1, <1>2, <1>3 DEF LooksInSlot, ReadInv, Asked

LEMMA NextRead ==
  ASSUME IInv, IInv', OriginInv, ProgressInv, ReadInv, [Next]_vars PROVE ReadInv'
<1>t. /\ now \in Int /\ server \in Int /\ now' \in Int /\ server' \in Int
      /\ registry \subseteq Device
  BY TimeAssumption DEF IInv, TypeOK, Coordinator
<1>1. ASSUME Passes \/ Revokes PROVE ReadInv'
  BY <1>t, <1>1, ReadKept DEF Passes, Revokes
<1>2. ASSUME NEW d \in Device, LooksUp(d) PROVE ReadInv'
  BY <1>2 DEF LooksUp, ReadInv, Asked, GoneFor, Expired
<1>3. ASSUME NEW h \in Handler, Arrives(h) PROVE ReadInv'
  BY <1>t, <1>3, ReadKept DEF Arrives
<1>. QED
  BY <1>1, <1>2, <1>3, LooksInSlotRead, AdvancesRead, OpensRead, GoesOnRead,
     StepKinds

(* A device that a status read called denied is registered later only when *)
(* its enrollment had expired or a restart replaced the coordinator of its *)
(* dialog (pairing_status, commit_valid).                                  *)
THEOREM DenialsAreFinal ==
  ASSUME ShortStall PROVE Spec => []DeniedOnlyIfExpiredOrReplaced
<1> DEFINE Inv == OriginInv /\ ProgressInv /\ ReadInv
<1>1. Init => Inv
  BY InitOrigin, InitRead
<1>2. IInv /\ IInv' /\ Inv /\ [Next]_vars => Inv'
  BY NextOrigin, NextProgress, NextRead
<1>3. IInv /\ Inv => DeniedOnlyIfExpiredOrReplaced
  <2> SUFFICES ASSUME IInv, Inv, NEW d \in denied \cap registry, ~Expired(d)
               PROVE  \E p \in Prompt : prompt[p].claimed = d /\ prompt[p].of < server
    BY DEF DeniedOnlyIfExpiredOrReplaced
  <2>1. d # NoDevice
    BY NullAssumption DEF IInv, TypeOK
  <2>2. PICK p \in Prompt : prompt[p].claimed = d
    BY DEF ProgressInv
  <2>3. prompt[p].asked = d
    BY <2>1, <2>2 DEF IInv, DialogInv, PromptGrantsOnlyItsDevice
  <2>4. PICK q \in Prompt : prompt[q].asked = d /\ prompt[q].of < server
    BY DEF ReadInv, GoneFor
  <2>5. p = q
    BY <2>1, <2>3, <2>4 DEF OriginInv
  <2>. QED  BY <2>2, <2>4, <2>5
<1> HIDE DEF Inv
<1>. QED  BY <1>1, <1>2, <1>3, DialogInvariant, PTL DEF Spec

---------------------------------------------------------------------------
(* The refinement.  A device has one dialog, and its stage is a function   *)
(* of that dialog and of the registry.                                     *)

StageBy(r, registered) ==
  IF registered THEN "paired"
  ELSE IF r.pc \in {"hint", "dialog"} THEN "asked"
  ELSE IF r.claimed = NoDevice THEN "refused"
  ELSE IF r.pc = "register" THEN "approved" ELSE "revoked"

LEMMA StageOfAsked ==
  ASSUME IInv, OriginInv, ProgressInv, NEW d \in Device, NEW p \in Prompt,
         prompt[p].asked = d
  PROVE  StageOf(d) = StageBy(prompt[p], d \in registry)
<1>1. d # NoDevice
  BY NullAssumption
<1>2. \A q \in Prompt : prompt[q].asked = d => q = p
  BY <1>1 DEF OriginInv
<1>3. \A q \in Prompt : prompt[q].claimed = d <=> q = p /\ prompt[p].claimed = d
  BY <1>1, <1>2 DEF IInv, DialogInv, PromptGrantsOnlyItsDevice
<1>4. prompt[p].claimed # NoDevice => prompt[p].claimed = d
  BY DEF IInv, DialogInv, PromptGrantsOnlyItsDevice
<1>5. CASE d \in registry
  BY <1>5 DEF StageOf, StageBy
<1>6. CASE d \notin registry /\ prompt[p].claimed = d
  <2>1. \E q \in Prompt : Claims(q, d)
    BY <1>6 DEF Claims
  <2>2. (\E q \in Prompt : Claims(q, d) /\ prompt[q].pc = "register")
          <=> prompt[p].pc = "register"
    BY <1>3, <1>6 DEF Claims
  <2>3. prompt[p].pc \notin {"hint", "dialog"} /\ prompt[p].claimed # NoDevice
    BY <1>1, <1>6 DEF ProgressInv
  <2>. QED  BY <1>6, <2>1, <2>2, <2>3 DEF StageOf, StageBy
<1>7. CASE d \notin registry /\ prompt[p].claimed = NoDevice
  <2>1. ~\E q \in Prompt : Claims(q, d)
    BY <1>1, <1>3, <1>7 DEF Claims
  <2>2. \E q \in Prompt : AskedFor(q, d)
    BY DEF AskedFor
  <2>3. (\E q \in Prompt : AskedFor(q, d) /\ Unanswered(q)) <=> Unanswered(p)
    BY <1>2 DEF AskedFor
  <2>. QED  BY <1>7, <2>1, <2>2, <2>3 DEF StageOf, StageBy, Unanswered
<1>. QED  BY <1>4, <1>5, <1>6, <1>7

LEMMA StageOfNew ==
  ASSUME IInv, ProgressInv, NEW d \in Device,
         \A p \in Prompt : prompt[p].asked # d
  PROVE  StageOf(d) = "new"
<1>1. d # NoDevice
  BY NullAssumption
<1>2. ~\E p \in Prompt : Claims(p, d)
  BY <1>1 DEF IInv, DialogInv, PromptGrantsOnlyItsDevice, Claims
<1>3. d \notin registry /\ ~\E p \in Prompt : AskedFor(p, d)
  BY <1>2 DEF ProgressInv, AskedFor, Claims
<1>. QED  BY <1>2, <1>3 DEF StageOf

EInv == IInv /\ OriginInv /\ ProgressInv

Stages ==
  \A d \in Device :
    /\ \A p \in Prompt :
         prompt[p].asked = d => StageOf(d) = StageBy(prompt[p], d \in registry)
    /\ (\A p \in Prompt : prompt[p].asked # d) => StageOf(d) = "new"

LEMMA StageTable == EInv => Stages
BY StageOfAsked, StageOfNew DEF EInv, Stages

LEMMA StageTableNext == EInv' => Stages'
BY StageTable, PTL

\* A step of one dialog leaves the other devices' stages alone.
LEMMA OtherStages ==
  ASSUME Stages, Stages', NEW p \in Prompt, OtherPrompts(p), NEW e \in Device,
         prompt[p].asked # e, prompt'[p].asked # e,
         e \in registry <=> e \in registry'
  PROVE  StageOf(e)' = StageOf(e)
<1>1. CASE \A q \in Prompt : prompt[q].asked # e
  BY <1>1 DEF Stages, OtherPrompts
<1>2. ASSUME NEW q \in Prompt, prompt[q].asked = e
      PROVE  StageOf(e)' = StageOf(e)
  <2>1. prompt'[q] = prompt[q]
    BY <1>2 DEF OtherPrompts
  <2>2. StageOf(e)' = StageBy(prompt[q], e \in registry)
    BY <1>2, <2>1 DEF Stages, StageBy
  <2>. QED  BY <1>2, <2>2 DEF Stages
<1>. QED  BY <1>1, <1>2

\* The stage function, where one device moves and where none does.
LEMMA OneStage ==
  ASSUME NEW d \in Device, NEW from, NEW to, StageOf(d) = from, StageOf(d)' = to,
         \A e \in Device \ {d} : StageOf(e)' = StageOf(e)
  PROVE  enrollment!Step(d, from, to)
BY DEF enrollment!Step, stage

LEMMA NoStage ==
  ASSUME \A e \in Device : StageOf(e)' = StageOf(e) PROVE stage' = stage
BY DEF stage

LEMMA RevokesStages ==
  ASSUME EInv, Revokes PROVE enrollment!Revoke(registry \ registry')
<1>u. prompt' = prompt /\ registry' \subseteq registry /\ registry \subseteq Device
  BY DEF Revokes, EInv, IInv, TypeOK
<1>1. \A d \in registry \ registry' : StageOf(d) = "paired"
  BY DEF StageOf
<1>2. ASSUME NEW d \in registry \ registry' PROVE StageOf(d)' = "revoked"
  <2>1. \E p \in Prompt : Claims(p, d)'
    BY <1>u, <1>2 DEF EInv, ProgressInv, Claims
  <2>2. ~\E p \in Prompt : Claims(p, d)' /\ prompt'[p].pc = "register"
    BY <1>u, <1>2 DEF EInv, ProgressInv, Claims
  <2>. QED  BY <1>2, <2>1, <2>2 DEF StageOf
<1>3. ASSUME NEW d \in Device, d \notin registry \ registry'
      PROVE  StageOf(d)' = StageOf(d)
  <2>1. d \in registry <=> d \in registry'
    BY <1>u, <1>3
  <2>2. \A p \in Prompt : /\ Claims(p, d)' <=> Claims(p, d)
                          /\ AskedFor(p, d)' <=> AskedFor(p, d)
                          /\ Unanswered(p)' <=> Unanswered(p)
                          /\ prompt'[p].pc = prompt[p].pc
    BY <1>u DEF Claims, AskedFor, Unanswered
  <2>. QED  BY <2>1, <2>2 DEF StageOf
<1>. QED  BY <1>u, <1>1, <1>2, <1>3 DEF enrollment!Revoke, stage

LEMMA OpensStages ==
  ASSUME EInv, EInv', NEW h \in Handler, NEW p \in Prompt, Opens(h, p)
  PROVE  stage' = stage \/ \E d \in Device : enrollment!Ask(d)
<1>s. Stages /\ Stages'
  BY StageTable, StageTableNext
<1>1. /\ prompt[p].asked = NoDevice /\ prompt'[p].asked = req[h].dev
      /\ prompt'[p].pc = "hint" /\ registry' = registry /\ OtherPrompts(p)
      /\ NoDevice \notin Device /\ req[h].dev \in Device \cup {NoDevice}
  BY TypedFacts, NullAssumption DEF Opens, NewPrompt, EInv, ProgressInv, IInv, Typed
<1>2. \A e \in Device : e # req[h].dev => StageOf(e)' = StageOf(e)
  BY <1>s, <1>1, OtherStages
<1>3. CASE req[h].dev = NoDevice
  BY <1>1, <1>2, <1>3, NoStage
<1>4. ASSUME NEW d \in Device, d = req[h].dev PROVE enrollment!Ask(d)
  <2>1. \A q \in Prompt : prompt[q].asked # d
    BY <1>1, <1>4 DEF EInv, OriginInv
  <2>2. StageOf(d) = "new"
    BY <1>s, <1>4, <2>1 DEF Stages
  <2>3. d \notin registry
    BY <2>2 DEF StageOf
  <2>4. StageOf(d)' = StageBy(prompt'[p], d \in registry')
    BY <1>s, <1>1, <1>4 DEF Stages
  <2>5. StageOf(d)' = "asked"
    BY <1>1, <2>3, <2>4 DEF StageBy
  <2>6. enrollment!Step(d, "new", "asked")
    BY <1>2, <1>4, <2>2, <2>5, OneStage
  <2>. QED  BY <2>6 DEF enrollment!Ask
<1>. QED  BY <1>1, <1>3, <1>4

LEMMA GoesOnStages ==
  ASSUME EInv, EInv', NEW p \in Prompt, GoesOn(p)
  PROVE  \/ stage' = stage
         \/ \E d \in Device : \/ enrollment!Refuse(d) \/ enrollment!Approve(d)
                              \/ enrollment!Register(d)
<1>s. Stages /\ Stages'
  BY StageTable, StageTableNext
<1>1. /\ prompt'[p].asked = prompt[p].asked /\ OtherPrompts(p)
      /\ NoDevice \notin Device /\ prompt[p].asked \in Device \cup {NoDevice}
  BY TypedFacts, NullAssumption DEF GoesOn, EInv, IInv, Typed
<1>g. /\ prompt[p].claimed # NoDevice => prompt[p].asked = prompt[p].claimed
      /\ prompt'[p].claimed # NoDevice => prompt[p].asked = prompt'[p].claimed
      /\ prompt[p].pc \in {"register", "unqueue"} => prompt[p].claimed # NoDevice
  BY <1>1 DEF EInv, IInv, DialogInv, PromptGrantsOnlyItsDevice, ClaimInv
<1>2. ASSUME NEW e \in Device, prompt[p].asked # e PROVE StageOf(e)' = StageOf(e)
  <2>1. e \in registry <=> e \in registry'
    BY <1>1, <1>g, <1>2 DEF GoesOn
  <2>. QED  BY <1>s, <1>1, <1>2, <2>1, OtherStages
<1>3. CASE prompt[p].asked = NoDevice
  BY <1>1, <1>2, <1>3, NoStage
<1>4. ASSUME NEW d \in Device, prompt[p].asked = d
      PROVE  \/ stage' = stage \/ enrollment!Refuse(d) \/ enrollment!Approve(d)
             \/ enrollment!Register(d)
  <2>1. /\ StageOf(d) = StageBy(prompt[p], d \in registry)
        /\ StageOf(d)' = StageBy(prompt'[p], d \in registry')
    BY <1>s, <1>1, <1>4 DEF Stages
  <2>2. d \in registry => \E q \in Prompt : prompt[q].claimed = d
    BY DEF EInv, ProgressInv
  <2>3. d \in registry => prompt[p].claimed = d
    BY <1>1, <1>4, <2>2 DEF EInv, IInv, DialogInv, PromptGrantsOnlyItsDevice,
                            OriginInv
  <2>e. \A e \in Device \ {d} : StageOf(e)' = StageOf(e)
    BY <1>2, <1>4
  <2>4. CASE prompt[p].pc = "dialog"
    <3>1. d \notin registry /\ registry' = registry /\ prompt[p].claimed = NoDevice
      BY <1>1, <2>3, <2>4 DEF GoesOn, EInv, ProgressInv
    <3>2. StageOf(d) = "asked"
      BY <2>1, <2>4, <3>1 DEF StageBy
    <3>3. CASE prompt'[p].claimed = NoDevice
      <4>1. prompt'[p].pc \in {"deny", "record"}
        BY <2>4, <3>3 DEF GoesOn
      <4>2. StageOf(d)' = "refused"
        BY <2>1, <3>1, <3>3, <4>1 DEF StageBy
      <4>. QED  BY <2>e, <3>2, <4>2, OneStage DEF enrollment!Refuse
    <3>4. CASE prompt'[p].claimed # NoDevice
      <4>1. prompt'[p].pc = "register"
        BY <2>4, <3>1, <3>4 DEF GoesOn
      <4>2. StageOf(d)' = "approved"
        BY <2>1, <3>1, <3>4, <4>1 DEF StageBy
      <4>. QED  BY <2>e, <3>2, <4>2, OneStage DEF enrollment!Approve
    <3>. QED  BY <3>3, <3>4
  <2>5. CASE prompt[p].pc = "register"
    <3>1. prompt[p].claimed = d /\ d # NoDevice /\ d \notin registry
      BY <1>1, <1>g, <1>4, <2>5 DEF EInv, ProgressInv
    <3>2. d \in registry'
      BY <2>5, <3>1 DEF GoesOn
    <3>3. StageOf(d) = "approved" /\ StageOf(d)' = "paired"
      BY <2>1, <2>5, <3>1, <3>2 DEF StageBy
    <3>. QED  BY <2>e, <3>3, OneStage DEF enrollment!Register
  <2>6. CASE prompt[p].pc \notin {"dialog", "register"}
    <3>1. /\ registry' = registry /\ prompt'[p].claimed = prompt[p].claimed
          /\ prompt[p].pc \in {"hint", "dialog"} <=> prompt'[p].pc \in {"hint", "dialog"}
          /\ prompt'[p].pc # "register"
      BY <2>6 DEF GoesOn
    <3>2. StageOf(d)' = StageOf(d)
      BY <2>1, <2>6, <3>1 DEF StageBy
    <3>. QED  BY <2>e, <3>2, NoStage
  <2>. QED  BY <2>4, <2>5, <2>6
<1>. QED  BY <1>1, <1>3, <1>4

LEMMA NextStages ==
  ASSUME EInv, EInv', [Next]_vars PROVE [enrollment!Next]_stage
<1>1. ASSUME UNCHANGED <<prompt, registry>> PROVE stage' = stage
  <2>1. \A d \in Device : StageOf(d)' = StageOf(d)
    BY <1>1 DEF StageOf, Claims, AskedFor, Unanswered
  <2>. QED  BY <2>1, NoStage
<1>2. CASE Passes \/ LooksInSlot \/ \E d \in Device : LooksUp(d)
  BY <1>1, <1>2 DEF Passes, LooksInSlot, LooksUp
<1>3. ASSUME NEW h \in Handler, Arrives(h) \/ Advances(h)
      PROVE  [enrollment!Next]_stage
  BY <1>1, <1>3 DEF Arrives, Advances
<1>4. CASE Revokes
  <2>1. registry \ registry' \in SUBSET Device
    BY DEF EInv, IInv, TypeOK
  <2>. QED  BY <1>4, <2>1, RevokesStages DEF enrollment!Next
<1>5. ASSUME NEW h \in Handler, NEW p \in Prompt, Opens(h, p)
      PROVE  [enrollment!Next]_stage
  BY <1>5, OpensStages DEF enrollment!Next
<1>6. ASSUME NEW p \in Prompt, GoesOn(p) PROVE [enrollment!Next]_stage
  BY <1>6, GoesOnStages DEF enrollment!Next
<1>7. IInv
  BY DEF EInv
<1>. QED  BY <1>2, <1>3, <1>4, <1>5, <1>6, <1>7, StepKinds

LEMMA InitStages == ASSUME Init, NEW d \in Device PROVE StageOf(d) = "new"
<1>1. \A p \in Prompt : prompt[p] = NoPrompt
  BY DEF Init
<1>2. \A p \in Prompt : ~Claims(p, d) /\ ~AskedFor(p, d)
  BY <1>1, NullAssumption DEF NoPrompt, Claims, AskedFor
<1>3. d \notin registry
  BY DEF Init
<1>. QED  BY <1>2, <1>3 DEF StageOf

LEMMA EnrollmentInvariant == ASSUME ShortStall PROVE Spec => []EInv
<1>1. Init => OriginInv /\ ProgressInv
  BY InitOrigin
<1>2. IInv /\ IInv' /\ OriginInv /\ ProgressInv /\ [Next]_vars
        => OriginInv' /\ ProgressInv'
  BY NextOrigin, NextProgress
<1>3. IInv /\ OriginInv /\ ProgressInv <=> EInv
  BY DEF EInv
<1>. QED
  BY <1>1, <1>2, <1>3, DialogInvariant, PTL DEF Spec

(* The pairing flow implements Enrollment: whatever requests, dialogs,     *)
(* restarts and revocations do, a phone is registered only after a Yes to  *)
(* a dialog that was opened for it, once, and never after a refusal or a   *)
(* revocation (request_with_session, commit_valid, the notifier).          *)
THEOREM EnrollmentRefined == ASSUME ShortStall PROVE Spec => ImplementsEnrollment
<1>1. Init => enrollment!Init
  BY InitStages DEF enrollment!Init, stage
<1>2. EInv /\ EInv' /\ [Next]_vars => [enrollment!Next]_stage
  BY NextStages
<1>. QED
  BY <1>1, <1>2, EnrollmentInvariant, PTL
     DEF Spec, ImplementsEnrollment, enrollment!Spec

---------------------------------------------------------------------------
(* QR tokens.  This needs no assumption on stalls: the lock that burns a   *)
(* token also reserves its prompt.                                         *)

\* A request has reserved a prompt with the token, a dialog was opened with it.
Paid(h, t) == Reserved(h) /\ req[h].cred = t
Shown(p, t) == prompt[p].cred = t

Unused(t) ==
  (\A h \in Handler : ~Paid(h, t)) /\ (\A p \in Prompt : ~Shown(p, t))
UsedOnce(t) ==
  \/ \E h \in Handler : /\ \A k \in Handler : Paid(k, t) <=> k = h
                        /\ \A p \in Prompt : ~Shown(p, t)
  \/ \E p \in Prompt : /\ \A q \in Prompt : Shown(q, t) <=> q = p
                       /\ \A h \in Handler : ~Paid(h, t)

SessionInv ==
  /\ \A p \in Prompt : prompt[p].pc = "none" => prompt[p].cred = NoToken
  /\ \A t \in Token : IF t \in consumed THEN UsedOnce(t) ELSE Unused(t)

LEMMA InitSession == Init => SessionInv
BY NullAssumption DEF Init, IdleRequest, NoPrompt, SessionInv, Unused, Paid, Shown,
                      Reserved

\* A step that burns no token and moves none from a request to a dialog.
LEMMA SessionKept ==
  ASSUME SessionInv, consumed' = consumed,
         \A p \in Prompt : /\ prompt'[p].cred = prompt[p].cred
                           /\ prompt'[p].pc = "none" => prompt[p].pc = "none",
         \A h \in Handler, t \in Token : Paid(h, t)' <=> Paid(h, t)
  PROVE  SessionInv'
<1>1. \A p \in Prompt, t \in Token : Shown(p, t)' <=> Shown(p, t)
  BY DEF Shown
<1>2. \A t \in Token : (UsedOnce(t) => UsedOnce(t)') /\ (Unused(t) => Unused(t)')
  BY <1>1 DEF UsedOnce, Unused
<1>. QED  BY <1>2 DEF SessionInv

LEMMA RequestSession ==
  ASSUME TypeOK, SessionInv, NEW h \in Handler, Request(h) PROVE SessionInv'
<1>t. /\ req \in [Handler -> RequestRecord] /\ req[h] \in RequestRecord
      /\ prompt \in [Prompt -> PromptRecord] /\ consumed \subseteq Token
      /\ NoToken \notin Token
  BY NullAssumption DEF TypeOK
<1>r. IdleRequest.pc = "idle"
  BY DEF IdleRequest
<1>1. ASSUME NEW r, req' = [req EXCEPT ![h] = r], UNCHANGED <<prompt, consumed>>,
             r.pc \notin {"queue", "show"}, ~Reserved(h)
      PROVE  SessionInv'
  <2>1. \A k \in Handler, t \in Token : Paid(k, t)' <=> Paid(k, t)
    BY <1>t, <1>1 DEF Paid, Reserved
  <2>. QED  BY <1>1, <2>1, SessionKept
<1>2. CASE PairingEnroll(h) \/ PairingActivate(h)
  <2>1. PICK d \in Device \cup {NoDevice}, c \in Token \cup {NoToken} :
          Arrive(h, d, c)
    BY <1>2 DEF PairingEnroll, PairingActivate
  <2>2. NewRequest(d, c).pc = "check"
    BY DEF NewRequest
  <2>. QED  BY <1>1, <2>1, <2>2 DEF Arrive, Reserved, sessVars
<1>3. CASE CheckStatus(h)
  <2>1. [req[h] EXCEPT !.pc = "lock", !.since = now].pc = "lock"
    BY <1>t DEF RequestRecord
  <2>2. UNCHANGED <<prompt, consumed>> /\ ~Reserved(h)
    BY <1>3 DEF CheckStatus, Reserved, sessVars
  <2>. QED  BY <1>1, <1>3, <1>r, <2>1, <2>2 DEF CheckStatus, Refuse
<1>4. CASE LockCooldown(h)
  <2>1. [req[h] EXCEPT !.pc = "consume", !.stamp = now].pc = "consume"
    BY <1>t DEF RequestRecord
  <2>2. UNCHANGED <<prompt, consumed>> /\ ~Reserved(h)
    BY <1>4 DEF LockCooldown, Reserved, sessVars
  <2>. QED  BY <1>1, <1>4, <1>r, <2>1, <2>2 DEF LockCooldown, Refuse
<1>5. CASE ConsumeSession(h)
  <2>u. prompt' = prompt /\ ~Reserved(h)
    BY <1>5 DEF ConsumeSession, Reserved
  <2>1. CASE Refuse(h) /\ consumed' = consumed
    BY <1>1, <1>r, <2>u, <2>1 DEF Refuse
  <2>2. CASE /\ req[h].cred # NoToken => Claimable(req[h].cred)
             /\ req' = [req EXCEPT ![h].pc = "queue"]
             /\ consumed' = (consumed \cup {req[h].cred}) \ {NoToken}
    <3>1. /\ req'[h].pc = "queue" /\ req'[h].cred = req[h].cred
          /\ \A k \in Handler : k # h => req'[k] = req[k]
      BY <1>t, <2>2 DEF RequestRecord
    <3>2. \A k \in Handler, t \in Token :
            Paid(k, t)' <=> Paid(k, t) \/ (k = h /\ t = req[h].cred)
      BY <2>u, <3>1 DEF Paid, Reserved
    <3>3. \A p \in Prompt, t \in Token : Shown(p, t)' <=> Shown(p, t)
      BY <2>u DEF Shown
    <3>4. ASSUME NEW t \in Token, t # req[h].cred
          PROVE  IF t \in consumed' THEN UsedOnce(t)' ELSE Unused(t)'
      <4>1. \A k \in Handler : Paid(k, t)' <=> Paid(k, t)
        BY <3>2, <3>4
      <4>2. t \in consumed' <=> t \in consumed
        BY <1>t, <2>2, <3>4
      <4>3. (UsedOnce(t) => UsedOnce(t)') /\ (Unused(t) => Unused(t)')
        BY <3>3, <4>1 DEF UsedOnce, Unused
      <4>. QED  BY <4>2, <4>3 DEF SessionInv
    <3>5. ASSUME req[h].cred \in Token
          PROVE  \A t \in Token : t = req[h].cred => t \in consumed' /\ UsedOnce(t)'
      <4> SUFFICES ASSUME NEW t \in Token, t = req[h].cred
                   PROVE  t \in consumed' /\ UsedOnce(t)'
        OBVIOUS
      <4>1. t \notin consumed
        BY <1>t, <2>2 DEF Claimable
      <4>2. Unused(t)
        BY <4>1 DEF SessionInv
      <4>3. \A k \in Handler : Paid(k, t)' <=> k = h
        BY <3>2, <4>2 DEF Unused
      <4>4. \A p \in Prompt : ~Shown(p, t)'
        BY <3>3, <4>2 DEF Unused
      <4>5. UsedOnce(t)'
        BY <4>3, <4>4 DEF UsedOnce
      <4>. QED  BY <1>t, <2>2, <4>5
    <3>. QED  BY <2>u, <3>4, <3>5 DEF SessionInv
  <2>. QED  BY <1>5, <2>1, <2>2 DEF ConsumeSession
<1>6. CASE QueueEnrollment(h)
  <2>1. /\ req[h].pc = "queue" /\ req'[h].pc = "show" /\ req'[h].cred = req[h].cred
        /\ \A k \in Handler : k # h => req'[k] = req[k]
        /\ UNCHANGED <<prompt, consumed>>
    BY <1>t, <1>6 DEF QueueEnrollment, RequestRecord, sessVars
  <2>2. \A k \in Handler, t \in Token : Paid(k, t)' <=> Paid(k, t)
    BY <2>1 DEF Paid, Reserved
  <2>. QED  BY <2>1, <2>2, SessionKept
<1>7. CASE ShowPrompt(h)
  <2>1. PICK p \in Unspawned :
          prompt' = [prompt EXCEPT ![p] = NewPrompt(req[h].dev, req[h].cred)]
    BY <1>7 DEF ShowPrompt
  <2>2. /\ p \in Prompt /\ prompt[p].cred = NoToken
        /\ prompt'[p].pc = "hint" /\ prompt'[p].cred = req[h].cred
        /\ \A q \in Prompt : q # p => prompt'[q] = prompt[q]
    BY <1>t, <2>1 DEF Unspawned, NewPrompt, SessionInv
  <2>3. /\ req[h].pc = "show" /\ req'[h].pc = "idle" /\ consumed' = consumed
        /\ \A k \in Handler : k # h => req'[k] = req[k]
    BY <1>t, <1>r, <1>7 DEF ShowPrompt, sessVars
  <2>4. \A k \in Handler, t \in Token : Paid(k, t)' <=> Paid(k, t) /\ k # h
    BY <2>3 DEF Paid, Reserved
  <2>5. \A q \in Prompt, t \in Token :
          Shown(q, t)' <=> Shown(q, t) \/ (q = p /\ Paid(h, t))
    BY <1>t, <2>2, <2>3 DEF Shown, Paid, Reserved
  <2>6. \A t \in Token : ~Shown(p, t)
    BY <1>t, <2>2 DEF Shown
  <2>7. ASSUME NEW t \in Token
        PROVE  (UsedOnce(t) => UsedOnce(t)') /\ (Unused(t) => Unused(t)')
    BY <2>2, <2>4, <2>5, <2>6 DEF UsedOnce, Unused
  <2>. QED  BY <2>2, <2>3, <2>7 DEF SessionInv
<1>. QED  BY <1>2, <1>3, <1>4, <1>5, <1>6, <1>7 DEF Request

LEMMA NextSession ==
  ASSUME TypeOK, SessionInv, [Next]_vars PROVE SessionInv'
<1>1. ASSUME UNCHANGED <<consumed, req>>,
             \A p \in Prompt : /\ prompt'[p].cred = prompt[p].cred
                               /\ prompt'[p].pc = "none" => prompt[p].pc = "none"
      PROVE  SessionInv'
  <2>1. \A h \in Handler, t \in Token : Paid(h, t)' <=> Paid(h, t)
    BY <1>1 DEF Paid, Reserved
  <2>. QED  BY <1>1, <2>1, SessionKept
<1>2. CASE Tick \/ Tray \/ PollSlot \/ (\E d \in Device : PollRegistry(d))
             \/ UNCHANGED vars
  <2>1. UNCHANGED <<consumed, req, prompt>>
    BY <1>2 DEF Tick, Tray, MintSession, RevokeAll, ReloadConfig, RestartServer, ResetRegistry,
       ResetConfig, ResetRestart, RevokeDevice, PollSlot, PollRegistry, vars,
       sessVars
  <2>. QED  BY <1>1, <2>1
<1>3. ASSUME NEW p \in Prompt, Notifier(p) PROVE SessionInv'
  <2>1. UNCHANGED <<consumed, req>>
    BY <1>3 DEF Notifier, ReadHint, AnswerNo, RecordDenial, AnswerYes, Register,
       Unqueue, RecordApproval, GrantCapabilities, sessVars
  <2>2. prompt \in [Prompt -> PromptRecord] /\ prompt[p] \in PromptRecord
    BY DEF TypeOK
  <2>3. ASSUME NEW pc \in {"deny", "done", "unqueue", "record", "grant"}, Move(p, pc)
        PROVE  \A q \in Prompt : /\ prompt'[q].cred = prompt[q].cred
                                 /\ prompt'[q].pc = "none" => prompt[q].pc = "none"
    BY <2>2, <2>3 DEF Move, PromptRecord
  <2>4. \A q \in Prompt : /\ prompt'[q].cred = prompt[q].cred
                          /\ prompt'[q].pc = "none" => prompt[q].pc = "none"
    <3>1. CASE ReadHint(p)
      BY <2>2, <3>1 DEF ReadHint, PromptRecord
    <3>2. CASE AnswerYes(p)
      BY <2>2, <3>2 DEF AnswerYes, PromptRecord
    <3>3. CASE \E pc \in {"deny", "done", "unqueue", "record", "grant"} : Move(p, pc)
      BY <2>3, <3>3
    <3>. QED
      BY <1>3, <3>1, <3>2, <3>3 DEF Notifier, AnswerNo, RecordDenial, Register,
         Unqueue, RecordApproval, GrantCapabilities
  <2>. QED  BY <1>1, <2>1, <2>4
<1>. QED  BY <1>2, <1>3, RequestSession DEF Next

(* However requests race for a QR token, and without any bound on how long *)
(* they stall, a burned token is worth exactly one prompt and an unburned  *)
(* one none (try_consume in request_with_session).                         *)
THEOREM OnePromptPerToken == Spec => []TokenBuysOnePrompt
<1>1. TypeOK /\ SessionInv /\ [Next]_vars => SessionInv'
  BY NextSession
<1>2. SessionInv => TokenBuysOnePrompt
  <2> SUFFICES ASSUME SessionInv, NEW t \in Token
               PROVE  Cardinality({p \in Prompt : Shown(p, t)})
                        + Cardinality({h \in Handler : Paid(h, t)})
                        = IF t \in consumed THEN 1 ELSE 0
    BY DEF TokenBuysOnePrompt, Shown, Paid
  <2>0. Cardinality({}) = 0
    BY FS_EmptySet
  <2>1. \A x : Cardinality({x}) = 1
    BY FS_Singleton
  <2>2. CASE t \notin consumed
    <3>1. {p \in Prompt : Shown(p, t)} = {} /\ {h \in Handler : Paid(h, t)} = {}
      BY <2>2 DEF SessionInv, Unused
    <3>. QED  BY <2>0, <2>2, <3>1
  <2>3. ASSUME t \in consumed, NEW h \in Handler,
               \A k \in Handler : Paid(k, t) <=> k = h,
               \A p \in Prompt : ~Shown(p, t)
        PROVE  Cardinality({p \in Prompt : Shown(p, t)})
                 + Cardinality({k \in Handler : Paid(k, t)}) = 1
    <3>1. {p \in Prompt : Shown(p, t)} = {} /\ {k \in Handler : Paid(k, t)} = {h}
      BY <2>3
    <3>2. Cardinality({p \in Prompt : Shown(p, t)}) = 0
      BY <2>0, <3>1
    <3>3. Cardinality({k \in Handler : Paid(k, t)}) = 1
      BY <2>1, <3>1
    <3>. QED  BY <3>2, <3>3
  <2>4. ASSUME t \in consumed, NEW p \in Prompt,
               \A q \in Prompt : Shown(q, t) <=> q = p,
               \A h \in Handler : ~Paid(h, t)
        PROVE  Cardinality({q \in Prompt : Shown(q, t)})
                 + Cardinality({h \in Handler : Paid(h, t)}) = 1
    <3>1. {q \in Prompt : Shown(q, t)} = {p} /\ {h \in Handler : Paid(h, t)} = {}
      BY <2>4
    <3>2. Cardinality({q \in Prompt : Shown(q, t)}) = 1
      BY <2>1, <3>1
    <3>3. Cardinality({h \in Handler : Paid(h, t)}) = 0
      BY <2>0, <3>1
    <3>. QED  BY <3>2, <3>3
  <2>. QED  BY <2>2, <2>3, <2>4 DEF SessionInv, UsedOnce
<1>. QED  BY InitSession, TypeCorrect, <1>1, <1>2, PTL DEF Spec
=============================================================================
