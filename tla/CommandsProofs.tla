--------------------------- MODULE CommandsProofs ---------------------------
(* Proofs about Commands, for every set of requests, phones, keys and      *)
(* combinations and whatever the tray does meanwhile.                      *)
EXTENDS Commands, FiniteSetTheorems, TLAPS

Asked == [cred: Credential, cmd: Command]

\* How far a handler is in its combination, by where it stands.
Progress ==
  \A r \in Request :
    /\ at[r] \in {"none", "arrived", "snapshot"} => position[r] = 0
    /\ at[r] = "press" => /\ position[r] < Len(Keys(r))
                          /\ ~IsSecureAttentionCombo(Keys(r))
    /\ at[r] \in {"clicked", "release"} => position[r] \in 1..Len(Keys(r))
    /\ r \in typed => at[r] # "none"

\* A key that two handlers have pressed made both of them sharers, and only a
\* sharer can lose a key before its combination is complete.
SharedKeys ==
  \A r \in Request :
    /\ \A s \in Request \ {r} : Pressed(r) \cap Pressed(s) # {} => r \in shared
    /\ at[r] = "press" /\ r \notin shared => Pressed(r) \subseteq held

\* What the answer and the effects of security_screen are before it is done.
ScreenStages ==
  \A r \in Request :
    /\ at[r] \notin {"fallback", "done"} => result[r] = "none"
    /\ at[r] = "fallback" => result[r] \in {"permission_required", "execution_failed"}
    /\ at[r] # "done" => r \notin screens \cup locks
    /\ at[r] = "sas" => Eligible \/ r \in moved

\* The credential and the capability of a request were good.
Authority(r) ==
  OpenInfo(r) \/
    /\ {"live", "allowed"} \subseteq since[r]
    /\ ask[r].cred.kind = "shared" => "both" \in since[r]

\* What the history of a request holds, by where its handler stands.
History ==
  \A r \in Request :
    /\ Now(r) \subseteq since[r]
    /\ at[r] = "snapshot" /\ Gate(r) => "allowed" \in since[r]
    /\ at[r] = "snapshot" /\ ask[r].cred.kind = "shared" /\ Authentic(r) =>
         /\ "live" \in since[r]
         /\ Gate(r) => "both" \in since[r]
    /\ at[r] \notin {"none", "arrived", "snapshot", "done"} => Authority(r)
    /\ r \in acted => Authority(r) /\ at[r] \notin {"none", "arrived", "snapshot"}

\* The requests and the position of each handler.
Requests ==
  ask \in [Request -> {<<>>} \cup Asked]

IInv == TypeOK /\ Requests /\ Progress /\ HeldKeysAreOwned /\ SharedKeys
        /\ ComboHasItsModifiers /\ SecureComboNeverTyped /\ ScreenStages
        /\ SecurityScreenHonest /\ History

---------------------------------------------------------------------------
(* What a request asks, and what the steps leave alone                      *)

LEMMA RequestParts ==
  ASSUME TypeOK, NEW r \in Request, at[r] # "none"
  PROVE  /\ ask[r] \in Asked /\ Cmd(r).kind \in Kind
         /\ Keys(r) \in Combo /\ Len(Keys(r)) \in Nat
         /\ Keys(r) # <<>> => Len(Keys(r)) > 0
<1>1. ask[r] \in Asked
  BY CommandAssumption DEF TypeOK, Asked
<1>2. ask[r].cmd \in Command
  BY <1>1 DEF Asked
<1>3. Cmd(r).kind \in Kind /\ Keys(r) \in Combo
  BY <1>2 DEF Command, Cmd, Keys
<1>4. Keys(r) \in Seq({Keys(r)[i] : i \in DOMAIN Keys(r)})
  BY <1>3, CommandAssumption
<1>5. Len(Keys(r)) \in Nat /\ (Keys(r) # <<>> => Len(Keys(r)) > 0)
  BY <1>4
<1>. QED  BY <1>1, <1>3, <1>5

LEMMA EnvironmentFrame ==
  ASSUME TypeOK, Environment
  PROVE  /\ UNCHANGED <<handlerVars, keyVars, screens, locks, acted>>
         /\ moved' = moved \cup {r \in Request : at[r] = "sas" /\ policy' # policy}
         /\ Observe \/ UNCHANGED <<since, token, phones, input, power>>
<1>1. ASSUME Meanwhile
      PROVE  /\ UNCHANGED <<handlerVars, keyVars, screens, locks, acted, policy>>
             /\ moved' = moved /\ Observe
  BY <1>1 DEF Meanwhile, screenVars
<1>2. CASE ChangePolicy
  BY <1>2 DEF ChangePolicy, configVars, TypeOK
<1>3. Meanwhile \/ ChangePolicy
  BY DEF Environment, RotateToken, RevokeAll, ResetRegistry, ResetConfig,
         EditCapabilities, RevokeDevice, Approve, Grant
<1>4. CASE Meanwhile
  BY <1>1, <1>4 DEF TypeOK
<1>. QED  BY <1>2, <1>3, <1>4

LEMMA HandlerFrame ==
  ASSUME TypeOK, NEW r \in Request, Handler(r)
  PROVE  /\ at[r] # "none" /\ at' = [at EXCEPT ![r] = at'[r]]
         /\ UNCHANGED <<hostVars, ask, moved, events>>
<1>1. CASE TakeSnapshot(r)
  BY <1>1 DEF TakeSnapshot, Go, screenVars, TypeOK
<1>2. CASE Authorize(r)
  BY <1>2 DEF Authorize, Go, screenVars, TypeOK
<1>3. CASE Act(r)
  BY <1>3 DEF Act, Go, screenVars, TypeOK
<1>4. CASE Press(r)
  BY <1>4 DEF Press, Go, screenVars, TypeOK
<1>5. CASE Release(r)
  BY <1>5 DEF Release, Go, screenVars, TypeOK
<1>6. CASE ReadPolicy(r)
  BY <1>6 DEF ReadPolicy, Go, screenVars, TypeOK
<1>7. CASE SendSas(r)
  BY <1>7 DEF SendSas, Go, screenVars, TypeOK
<1>8. CASE ApplyFallback(r)
  BY <1>8 DEF ApplyFallback, Go, screenVars, TypeOK
<1>. QED
  BY <1>1, <1>2, <1>3, <1>4, <1>5, <1>6, <1>7, <1>8 DEF Handler

\* Only two of a handler's steps touch the keyboard, and only two the screen.
LEMMA KeyFrame ==
  ASSUME NEW r \in Request, Handler(r) \/ Arrive(r), ~Press(r), ~Release(r)
  PROVE  UNCHANGED <<keyVars, position>>
BY DEF Handler, Arrive, TakeSnapshot, Authorize, Act, ReadPolicy, SendSas,
       ApplyFallback

LEMMA ScreenFrame ==
  ASSUME NEW r \in Request, Handler(r) \/ Arrive(r),
         ~ReadPolicy(r), ~SendSas(r), ~ApplyFallback(r)
  PROVE  UNCHANGED <<result, screenVars>>
BY DEF Handler, Arrive, TakeSnapshot, Authorize, Act, Press, Release

---------------------------------------------------------------------------
(* Type correctness                                                         *)

LEMMA InitType == Init => TypeOK /\ Requests
<1> SUFFICES ASSUME Init PROVE TypeOK /\ Requests
  OBVIOUS
<1>1. seen \in [Request -> Snapshot]
  BY DEF Init, Snapshot, NoSnapshot
<1>2. /\ token \in Nat /\ phones \in [Device -> {"new", "paired", "gone"}]
      /\ input \in BOOLEAN /\ power \in BOOLEAN /\ policy \in Policy
      /\ rotating \in BOOLEAN /\ resetting \in BOOLEAN
      /\ dialog \in [Prompt -> {"open", "granting", "done"}]
  BY DEF Init
<1>3. /\ at \in [Request -> Stage] /\ position \in [Request -> Nat]
      /\ result \in [Request -> Result] /\ since \in [Request -> SUBSET Fact]
      /\ \A r \in Request : at[r] = "none"
  BY DEF Init, Stage, Result
<1>4. ask \in [Request -> {<<>>} \cup Asked]
  BY DEF Init
<1>5. held \in SUBSET Key /\ abandoned \in SUBSET Key /\ events \in Nat
  BY DEF Init
<1>6. \A S \in {acted, typed, bare, shared, screens, locks, moved} :
        S \in SUBSET Request
  BY DEF Init
<1>. QED  BY <1>1, <1>2, <1>3, <1>4, <1>5, <1>6 DEF TypeOK, Requests

\* What Observe keeps.
LEMMA ObserveType ==
  ASSUME TypeOK, Observe PROVE since' \in [Request -> SUBSET Fact]
BY DEF TypeOK, Observe, Now

LEMMA EnvironmentType ==
  ASSUME TypeOK, Requests, Environment PROVE TypeOK' /\ Requests'
<1>1. /\ UNCHANGED <<at, ask, seen, position, result, held, abandoned, typed,
                     bare, shared, screens, locks, acted>>
      /\ moved' \in SUBSET Request
  BY EnvironmentFrame DEF handlerVars, keyVars, TypeOK
<1>2. since' \in [Request -> SUBSET Fact]
  BY EnvironmentFrame, ObserveType DEF TypeOK
<1>3. /\ token' \in Nat /\ phones' \in [Device -> {"new", "paired", "gone"}]
      /\ input' \in BOOLEAN /\ power' \in BOOLEAN /\ policy' \in Policy
      /\ rotating' \in BOOLEAN /\ resetting' \in BOOLEAN
      /\ dialog' \in [Prompt -> {"open", "granting", "done"}] /\ events' \in Nat
  <2>1. ASSUME NEW S, phones' = access!Without(S)
        PROVE  phones' \in [Device -> {"new", "paired", "gone"}]
    BY <2>1 DEF TypeOK, access!Without
  <2>2. ASSUME NEW p \in Prompt, NEW from, NEW to \in {"granting", "done"},
               access!Turn(p, from, to)
        PROVE  dialog' \in [Prompt -> {"open", "granting", "done"}]
    BY <2>2 DEF TypeOK, access!Turn
  <2> USE DEF TypeOK, Event, Meanwhile
  <2>3. CASE RotateToken
    BY <2>3 DEF RotateToken
  <2>4. CASE RevokeAll \/ \E d \in Device : RevokeDevice(d)
    <3>1. \E S : access!Revoke(S)
      BY <2>4 DEF RevokeAll, RevokeDevice
    <3>2. /\ phones' \in [Device -> {"new", "paired", "gone"}]
          /\ UNCHANGED <<input, power, dialog, resetting>>
      BY <2>1, <3>1 DEF access!Revoke
    <3>3. CASE RevokeAll
      BY <3>2, <3>3 DEF RevokeAll
    <3>4. CASE \E d \in Device : RevokeDevice(d)
      BY <3>2, <3>4 DEF RevokeDevice
    <3>. QED  BY <2>4, <3>3, <3>4
  <2>5. CASE ResetRegistry
    BY <2>1, <2>5 DEF ResetRegistry, access!ResetRegistry
  <2>6. CASE ResetConfig
    <3>1. input' \in BOOLEAN /\ power' \in BOOLEAN /\ resetting' \in BOOLEAN
      BY <2>6, Zenon DEF ResetConfig, access!ResetConfig
    <3>. QED  BY <2>6, <3>1 DEF ResetConfig, access!ResetConfig
  <2>7. ASSUME NEW p \in Prompt, Approve(p)
        PROVE  /\ phones' \in [Device -> {"new", "paired", "gone"}]
               /\ dialog' \in [Prompt -> {"open", "granting", "done"}]
               /\ UNCHANGED <<input, power, resetting, token, rotating, policy>>
               /\ events' \in Nat
    BY <2>2, <2>7 DEF Approve, access!Approve, access!Register
  <2>8. ASSUME NEW p \in Prompt, Grant(p)
        PROVE  /\ dialog' \in [Prompt -> {"open", "granting", "done"}]
               /\ input' \in BOOLEAN /\ power' \in BOOLEAN
               /\ UNCHANGED <<phones, resetting, token, rotating, policy, events>>
    <3>1. input' \in BOOLEAN /\ power' \in BOOLEAN
      BY <2>8, Zenon DEF Grant, access!Grant
    <3>. QED  BY <2>2, <2>8, <3>1 DEF Grant, access!Grant
  <2>9. CASE EditCapabilities
    <3>1. PICK c \in [input: BOOLEAN, power: BOOLEAN] :
            input' = c.input /\ power' = c.power
      BY <2>9, Zenon DEF EditCapabilities, access!Reload
    <3>2. input' \in BOOLEAN /\ power' \in BOOLEAN
      BY <3>1
    <3>. QED  BY <2>9, <3>2 DEF EditCapabilities, access!Reload
  <2>10. CASE ChangePolicy
    BY <2>10 DEF ChangePolicy, configVars
  <2>. QED
    BY <2>3, <2>4, <2>5, <2>6, <2>7, <2>8, <2>9, <2>10 DEF Environment
<1>. QED  BY <1>1, <1>2, <1>3 DEF TypeOK, Requests

LEMMA ArriveType ==
  ASSUME TypeOK, Requests, NEW r \in Request, Arrive(r)
  PROVE  TypeOK' /\ Requests'
<1> PICK a \in Ask[r] : ask' = [ask EXCEPT ![r] = a]
  BY DEF Arrive
<1>1. ask'[r] \in Ask[r] /\ ask'[r] \in Asked
      /\ \A s \in Request \ {r} : ask'[s] = ask[s]
  BY CommandAssumption DEF Requests, Asked
<1>2. Requests'
  BY <1>1 DEF Requests
<1>3. at' = [at EXCEPT ![r] = "arrived"]
  BY DEF Arrive, Go
<1>4. at' \in [Request -> Stage] /\ \A s \in Request : at'[s] # "none" => ask'[s] \in Ask[s]
  BY <1>1, <1>3 DEF TypeOK, Stage
<1>5. since' \in [Request -> SUBSET Fact]
  BY ObserveType DEF Arrive
<1>6. UNCHANGED <<hostVars, seen, position, result, keyVars, screenVars, acted,
                  events>>
  BY DEF Arrive
<1>. QED
  BY <1>2, <1>4, <1>5, <1>6 DEF TypeOK, hostVars, keyVars, screenVars

LEMMA HandlerType ==
  ASSUME TypeOK, Requests, Progress, NEW r \in Request, Handler(r)
  PROVE  TypeOK' /\ Requests'
<1>1. UNCHANGED <<token, phones, input, power, policy, rotating, resetting, dialog, ask,
                  moved, events>>
  BY HandlerFrame DEF hostVars
<1>2. Requests'
  BY <1>1 DEF Requests
<1>3. at[r] # "none" /\ at' = [at EXCEPT ![r] = at'[r]]
  BY HandlerFrame
<1>4. at'[r] \in Stage
  <2> USE DEF TypeOK, Go, Stage
  <2>1. CASE TakeSnapshot(r)
    BY <2>1 DEF TakeSnapshot
  <2>2. CASE Authorize(r)
    <3>1. Dispatch(r) \in Stage
      BY Zenon DEF Dispatch
    <3>. QED  BY <2>2, <3>1 DEF Authorize
  <2>3. CASE Act(r)
    BY <2>3 DEF Act
  <2>4. CASE Press(r)
    BY <2>4 DEF Press
  <2>5. CASE Release(r)
    BY <2>5 DEF Release
  <2>6. CASE ReadPolicy(r)
    BY <2>6 DEF ReadPolicy
  <2>7. CASE SendSas(r)
    BY <2>7 DEF SendSas
  <2>8. CASE ApplyFallback(r)
    BY <2>8 DEF ApplyFallback
  <2>. QED
    BY <2>1, <2>2, <2>3, <2>4, <2>5, <2>6, <2>7, <2>8 DEF Handler
<1>5. /\ at' \in [Request -> Stage]
      /\ \A s \in Request : at'[s] # "none" => ask'[s] \in Ask[s]
  BY <1>1, <1>3, <1>4 DEF TypeOK
<1>6. seen' \in [Request -> Snapshot]
  <2>1. [token |-> token, input |-> input, power |-> power] \in Snapshot
        /\ NoSnapshot \in Snapshot
    BY DEF TypeOK, Snapshot, NoSnapshot
  <2>2. \/ seen' = [seen EXCEPT ![r] =
                      [token |-> token, input |-> input, power |-> power]]
        \/ seen' = [seen EXCEPT ![r] = NoSnapshot] \/ seen' = seen
    BY DEF Handler, TakeSnapshot, Authorize, Act, Press, Release, ReadPolicy,
           SendSas, ApplyFallback
  <2>. QED  BY <2>1, <2>2 DEF TypeOK
<1>7. /\ position' \in [Request -> Nat] /\ held' \in SUBSET Key
      /\ abandoned' \in SUBSET Key /\ typed' \in SUBSET Request
      /\ bare' \in SUBSET Request /\ shared' \in SUBSET Request
  <2>1. CASE Press(r)
    BY <2>1 DEF Press, Parses, TypeOK
  <2>2. CASE Release(r)
    <3>1. position[r] \in Nat \ {0}
      BY <2>2, RequestParts DEF Release, Progress, TypeOK
    <3>. QED  BY <2>2, <3>1 DEF Release, TypeOK
  <2>3. CASE ~Press(r) /\ ~Release(r)
    BY <2>3, KeyFrame DEF keyVars, TypeOK
  <2>. QED  BY <2>1, <2>2, <2>3
<1>8. /\ result' \in [Request -> Result] /\ acted' \in SUBSET Request
      /\ screens' \in SUBSET Request /\ locks' \in SUBSET Request
      /\ since' \in [Request -> SUBSET Fact]
  <2> USE DEF TypeOK, Result, screenVars
  <2>1. CASE TakeSnapshot(r)
    BY <2>1 DEF TakeSnapshot
  <2>2. CASE Authorize(r)
    BY <2>2 DEF Authorize
  <2>3. CASE Act(r)
    BY <2>3 DEF Act
  <2>4. CASE Press(r)
    BY <2>4 DEF Press
  <2>5. CASE Release(r)
    BY <2>5 DEF Release
  <2>6. CASE ReadPolicy(r)
    BY <2>6 DEF ReadPolicy
  <2>7. CASE SendSas(r)
    BY <2>7 DEF SendSas
  <2>8. CASE ApplyFallback(r)
    BY <2>8 DEF ApplyFallback
  <2>. QED
    BY <2>1, <2>2, <2>3, <2>4, <2>5, <2>6, <2>7, <2>8 DEF Handler
<1>. QED  BY <1>1, <1>2, <1>5, <1>6, <1>7, <1>8 DEF TypeOK

---------------------------------------------------------------------------
(* The keyboard                                                             *)

\* A step of another actor, or of a handler that is not at its keys, leaves the
\* pressed keys of every handler alone.
LEMMA QuietStep ==
  ASSUME TypeOK, Requests, Progress,
         \/ Environment
         \/ \E r \in Request : (Arrive(r) \/ Handler(r)) /\ ~Press(r) /\ ~Release(r)
  PROVE  /\ UNCHANGED <<keyVars, position>> /\ Progress'
         /\ \A s \in Request : /\ Pressed(s)' = Pressed(s)
                               /\ at[s] # "none" => Keys(s)' = Keys(s)
         /\ \A s \in Request : at'[s] = "press" /\ at[s] # "press" => Pressed(s)' = {}
<1>1. CASE Environment
  <2>1. UNCHANGED <<handlerVars, keyVars>>
    BY <1>1, EnvironmentFrame
  <2>2. \A s \in Request : Pressed(s)' = Pressed(s) /\ Keys(s)' = Keys(s)
    BY <2>1 DEF handlerVars, Pressed, Keys
  <2>3. Progress'
    BY <2>1 DEF handlerVars, keyVars, Progress, Keys
  <2>4. UNCHANGED <<at, position>>
    BY <2>1 DEF handlerVars
  <2>. QED  BY <2>1, <2>2, <2>3, <2>4
<1>2. CASE \E r \in Request : Arrive(r)
  <2> PICK r \in Request : Arrive(r)
    BY <1>2
  <2>1. /\ at' = [at EXCEPT ![r] = "arrived"] /\ at[r] = "none"
        /\ \A s \in Request \ {r} : ask'[s] = ask[s]
        /\ UNCHANGED <<keyVars, position>>
    BY DEF Arrive, Go, Requests
  <2>2. at'[r] = "arrived" /\ \A s \in Request \ {r} : at'[s] = at[s]
    BY <2>1 DEF TypeOK
  <2>3. \A s \in Request \ {r} : Pressed(s)' = Pressed(s) /\ Keys(s)' = Keys(s)
    BY <2>1, <2>2 DEF Pressed, Keys
  <2>4. Pressed(r) = {} /\ Pressed(r)' = {}
    BY <2>1, <2>2 DEF Pressed
  <2>5. Progress'
    BY <2>1, <2>2, <2>3 DEF keyVars, Progress
  <2>. QED  BY <2>1, <2>2, <2>3, <2>4, <2>5
<1>3. ASSUME NEW r \in Request, Handler(r), ~Press(r), ~Release(r)
      PROVE  /\ UNCHANGED <<keyVars, position>> /\ Progress'
             /\ \A s \in Request : Pressed(s)' = Pressed(s) /\ Keys(s)' = Keys(s)
             /\ \A s \in Request : at'[s] = "press" /\ at[s] # "press" => Pressed(s)' = {}
  <2>1. /\ UNCHANGED <<ask, keyVars, position>>
        /\ at[r] # "none" /\ at' = [at EXCEPT ![r] = at'[r]]
    BY <1>3, HandlerFrame, KeyFrame
  <2>2. \A s \in Request \ {r} : at'[s] = at[s]
    BY <2>1 DEF TypeOK
  <2>3. \A s \in Request : Keys(s)' = Keys(s)
    BY <2>1 DEF Keys
  <2>4. /\ at[r] \notin {"press", "clicked", "release"}
        /\ at'[r] \notin {"none", "arrived", "clicked", "release"}
        /\ at'[r] = "press" =>
             /\ position[r] = 0 /\ Keys(r) # <<>>
             /\ ~IsSecureAttentionCombo(Keys(r))
        /\ at'[r] = "snapshot" => at[r] = "arrived"
    <3> USE DEF TypeOK, Go
    <3>1. CASE TakeSnapshot(r)
      BY <3>1 DEF TakeSnapshot
    <3>2. CASE Authorize(r)
      <4>1. /\ Dispatch(r) \in {"policy", "act", "done", "press"}
            /\ Dispatch(r) = "press" => /\ Keys(r) # <<>>
                                       /\ ~IsSecureAttentionCombo(Keys(r))
        BY Zenon DEF Dispatch
      <4>2. at[r] = "snapshot" /\ at'[r] \in {Dispatch(r), "done"}
        BY <3>2 DEF Authorize
      <4>3. position[r] = 0
        BY <4>2 DEF Progress
      <4>. QED  BY <4>1, <4>2, <4>3
    <3>3. CASE Act(r)
      BY <3>3 DEF Act
    <3>4. CASE ReadPolicy(r)
      BY <3>4 DEF ReadPolicy
    <3>5. CASE SendSas(r)
      BY <3>5 DEF SendSas
    <3>6. CASE ApplyFallback(r)
      BY <3>6 DEF ApplyFallback
    <3>. QED
      BY <1>3, <3>1, <3>2, <3>3, <3>4, <3>5, <3>6 DEF Handler
  <2>5. Pressed(r) = {} /\ Pressed(r)' = {}
    BY <2>1, <2>4 DEF Pressed
  <2>6. \A s \in Request \ {r} : Pressed(s)' = Pressed(s)
    BY <2>1, <2>2, <2>3 DEF Pressed
  <2>7. Progress'
    <3>1. at[r] = "arrived" => position[r] = 0
      BY DEF Progress
    <3>2. at'[r] = "press" => position[r] < Len(Keys(r))
      BY <2>1, <2>4, RequestParts
    <3>. QED  BY <2>1, <2>2, <2>3, <2>4, <3>1, <3>2 DEF keyVars, Progress
  <2>. QED  BY <2>1, <2>2, <2>3, <2>5, <2>6, <2>7
<1>. QED  BY <1>1, <1>2, <1>3

\* A key press that parses, and one that does not.
LEMMA PressStep ==
  ASSUME TypeOK, Progress, NEW r \in Request, Press(r),
         NEW name, name = Keys(r)[position[r] + 1]
  PROVE  /\ UNCHANGED ask /\ Progress'
         /\ \A s \in Request : Keys(s)' = Keys(s)
         /\ \A s \in Request \ {r} : at'[s] = at[s] /\ Pressed(s)' = Pressed(s)
         /\ name \in Key => Pressed(r)' = Pressed(r) \cup {name}
         /\ name \notin Key => Pressed(r)' = {} /\ at'[r] = "done"
<1>1. /\ UNCHANGED ask /\ at[r] = "press" /\ position[r] \in Nat
      /\ position[r] < Len(Keys(r)) /\ Len(Keys(r)) \in Nat
      /\ ~IsSecureAttentionCombo(Keys(r))
  BY RequestParts DEF Press, Progress, TypeOK
<1>2. \A s \in Request : Keys(s)' = Keys(s)
  BY <1>1 DEF Keys
<1>3. \A s \in Request \ {r} : at'[s] = at[s] /\ position'[s] = position[s]
  BY DEF Press, Go, TypeOK
<1>4. \A s \in Request \ {r} : Pressed(s)' = Pressed(s)
  BY <1>1, <1>2, <1>3 DEF Pressed
<1>5. CASE name \in Key
  <2>1. /\ position'[r] = position[r] + 1
        /\ at'[r] = IF position[r] + 1 = Len(Keys(r)) THEN "clicked" ELSE "press"
    BY <1>5, <1>1 DEF Press, Parses, Go, TypeOK
  <2>2. Pressed(r)' = {Keys(r)[i] : i \in 1..(position[r] + 1)}
    BY <1>1, <1>2, <2>1 DEF Pressed
  <2>3. Pressed(r) = {Keys(r)[i] : i \in 1..position[r]}
    BY <1>1 DEF Pressed
  <2>4. 1..(position[r] + 1) = (1..position[r]) \cup {position[r] + 1}
    BY <1>1
  <2>5. Pressed(r)' = Pressed(r) \cup {name}
    BY <2>2, <2>3, <2>4
  <2>6. Progress'
    <3>1. typed' \subseteq typed \cup {r}
      BY <1>5 DEF Press
    <3>. QED  BY <1>1, <1>2, <1>3, <2>1, <3>1 DEF Progress
  <2>. QED  BY <1>1, <1>2, <1>3, <1>4, <1>5, <2>5, <2>6
<1>6. CASE name \notin Key
  <2>1. at'[r] = "done" /\ UNCHANGED <<position, typed>>
    BY <1>6 DEF Press, Parses, Go, TypeOK
  <2>2. Pressed(r)' = {} /\ Progress'
    BY <1>2, <1>3, <2>1 DEF Pressed, Progress
  <2>. QED  BY <1>1, <1>2, <1>3, <1>4, <1>6, <2>1, <2>2
<1>. QED  BY <1>5, <1>6

LEMMA ReleaseStep ==
  ASSUME TypeOK, Progress, NEW r \in Request, Release(r),
         NEW name, name = Keys(r)[position[r]]
  PROVE  /\ UNCHANGED ask /\ Progress' /\ name \in Pressed(r)
         /\ \A s \in Request : Keys(s)' = Keys(s)
         /\ \A s \in Request \ {r} : at'[s] = at[s] /\ Pressed(s)' = Pressed(s)
         /\ Pressed(r) \subseteq Pressed(r)' \cup {name}
         /\ Pressed(r)' \subseteq Pressed(r)
         /\ at'[r] # "press"
<1>1. /\ UNCHANGED ask /\ at[r] \in {"clicked", "release"}
      /\ position[r] \in Nat \ {0} /\ Len(Keys(r)) \in Nat
      /\ position[r] <= Len(Keys(r))
  BY RequestParts DEF Release, Progress, TypeOK
<1>2. \A s \in Request : Keys(s)' = Keys(s)
  BY <1>1 DEF Keys
<1>3. \A s \in Request \ {r} : at'[s] = at[s] /\ position'[s] = position[s]
  BY DEF Release, Go, TypeOK
<1>4. \A s \in Request \ {r} : Pressed(s)' = Pressed(s)
  BY <1>1, <1>2, <1>3 DEF Pressed
<1>5. /\ position'[r] = position[r] - 1
      /\ at'[r] = IF position[r] = 1 THEN "done" ELSE "release"
  BY <1>1 DEF Release, Go, TypeOK
<1>6. Pressed(r) = {Keys(r)[i] : i \in 1..position[r]}
  BY <1>1 DEF Pressed
<1>7. Pressed(r)' = {Keys(r)[i] : i \in 1..(position[r] - 1)}
  BY <1>1, <1>2, <1>5 DEF Pressed
<1>8. 1..position[r] = (1..(position[r] - 1)) \cup {position[r]}
  BY <1>1
<1>9. Progress'
  <2>1. UNCHANGED typed
    BY DEF Release
  <2>. QED  BY <1>1, <1>2, <1>3, <1>5, <2>1 DEF Progress
<1>. QED  BY <1>1, <1>2, <1>3, <1>4, <1>5, <1>6, <1>7, <1>8, <1>9

KeyInv == HeldKeysAreOwned /\ SharedKeys /\ ComboHasItsModifiers
          /\ SecureComboNeverTyped

LEMMA Distinct == Control # Alt /\ Control # Delete /\ Alt # Delete
<1>1. ASSUME NEW a, NEW b PROVE Cardinality({a, b}) \in {1, 2}
  <2>1. IsFiniteSet({a}) /\ Cardinality({a}) = 1
    BY FS_Singleton
  <2>2. Cardinality({a} \cup {b}) = IF b \in {a} THEN 1 ELSE 1 + 1
    BY <2>1, FS_AddElement
  <2>3. {a} \cup {b} = {a, b}
    OBVIOUS
  <2>. QED  BY <2>2, <2>3
<1>2. CASE Control = Alt
  <2>1. {Control, Alt, Delete} = {Control, Delete}
    BY <1>2
  <2>2. Cardinality({Control, Alt, Delete}) \in {1, 2}
    BY <1>1, <2>1, Zenon
  <2>. QED  BY <2>2, KeyAssumption
<1>3. CASE Control = Delete
  <2>1. {Control, Alt, Delete} = {Control, Alt}
    BY <1>3
  <2>2. Cardinality({Control, Alt, Delete}) \in {1, 2}
    BY <1>1, <2>1, Zenon
  <2>. QED  BY <2>2, KeyAssumption
<1>4. CASE Alt = Delete
  <2>1. {Control, Alt, Delete} = {Control, Alt}
    BY <1>4
  <2>2. Cardinality({Control, Alt, Delete}) \in {1, 2}
    BY <1>1, <2>1, Zenon
  <2>. QED  BY <2>2, KeyAssumption
<1>. QED  BY <1>2, <1>3, <1>4

LEMMA QuietKeys ==
  ASSUME TypeOK, Requests, Progress, KeyInv,
         \/ Environment
         \/ \E r \in Request : (Arrive(r) \/ Handler(r)) /\ ~Press(r) /\ ~Release(r)
  PROVE  KeyInv'
<1>1. UNCHANGED <<held, abandoned, typed, bare, shared>>
  BY QuietStep DEF keyVars
<1>a. \A s \in Request : Pressed(s)' = Pressed(s)
  BY QuietStep
<1>b. \A s \in Request : at[s] # "none" => Keys(s)' = Keys(s)
  BY QuietStep
<1>c. \A s \in Request : at'[s] = "press" /\ at[s] # "press" => Pressed(s)' = {}
  BY QuietStep
<1>2. HeldKeysAreOwned'
  BY <1>1, <1>a DEF KeyInv, HeldKeysAreOwned
<1>3. SharedKeys'
  BY <1>1, <1>a, <1>c DEF KeyInv, SharedKeys
<1>4. ComboHasItsModifiers'
  BY <1>1 DEF KeyInv, ComboHasItsModifiers
<1>5. SecureComboNeverTyped'
  BY <1>1, <1>b DEF KeyInv, SecureComboNeverTyped, Progress, TypeOK
<1>. QED  BY <1>2, <1>3, <1>4, <1>5 DEF KeyInv

LEMMA PressKeys ==
  ASSUME TypeOK, Requests, Progress, KeyInv, NEW r \in Request, Press(r)
  PROVE  KeyInv'
<1> DEFINE name == Keys(r)[position[r] + 1]
           last == position[r] + 1 = Len(Keys(r))
           others == {s \in Request \ {r} : name \in Pressed(s)}
           own == held \ (abandoned \cup UNION {Pressed(s) : s \in Request \ {r}})
<1>1. /\ \A s \in Request : Keys(s)' = Keys(s)
      /\ \A s \in Request \ {r} : at'[s] = at[s] /\ Pressed(s)' = Pressed(s)
      /\ name \in Key => Pressed(r)' = Pressed(r) \cup {name}
      /\ name \notin Key => Pressed(r)' = {} /\ at'[r] = "done"
  BY PressStep
<1>2. at[r] = "press" /\ position[r] < Len(Keys(r)) /\ Len(Keys(r)) \in Nat
      /\ position[r] \in Nat /\ ~IsSecureAttentionCombo(Keys(r))
  BY RequestParts DEF Press, Progress, TypeOK
<1>3. own \subseteq Pressed(r)
  BY DEF KeyInv, HeldKeysAreOwned
<1>4. CASE name \in Key
  <2>1. /\ held' = held \cup {name} /\ abandoned' = abandoned
        /\ typed' = IF name = Delete /\ {Control, Alt} \subseteq own
                    THEN typed \cup {r} ELSE typed
        /\ bare' = IF last /\ ~(Pressed(r) \subseteq held)
                   THEN bare \cup {r} ELSE bare
        /\ shared' = IF others = {} THEN shared ELSE shared \cup {r} \cup others
    BY <1>4 DEF Press, Parses
  <2> HIDE DEF name, last, others, own
  <2>2. HeldKeysAreOwned'
    BY <1>1, <1>4, <2>1 DEF KeyInv, HeldKeysAreOwned
  <2>3. shared \subseteq shared' /\ (others # {} => r \in shared')
        /\ \A s \in Request \ {r} : name \in Pressed(s) => s \in shared'
    BY <2>1 DEF others
  <2>4. SharedKeys'
    <3>1. ASSUME NEW s \in Request, NEW t \in Request \ {s},
                 NEW k, k \in Pressed(s)', k \in Pressed(t)'
          PROVE  s \in shared'
      <4>1. CASE s # r /\ t # r
        BY <1>1, <2>3, <3>1, <4>1 DEF KeyInv, SharedKeys
      <4>2. CASE s = r
        <5>1. CASE k = name
          BY <1>1, <2>1, <2>3, <3>1, <4>2, <5>1 DEF others
        <5>2. CASE k # name
          BY <1>1, <1>4, <2>3, <3>1, <4>2, <5>2 DEF KeyInv, SharedKeys
        <5>. QED  BY <5>1, <5>2
      <4>3. CASE t = r
        <5>1. CASE k = name
          BY <1>1, <2>3, <3>1, <4>3, <5>1
        <5>2. CASE k # name
          BY <1>1, <1>4, <2>3, <3>1, <4>3, <5>2 DEF KeyInv, SharedKeys
        <5>. QED  BY <5>1, <5>2
      <4>. QED  BY <4>1, <4>2, <4>3
    <3>2. ASSUME NEW s \in Request, at'[s] = "press", s \notin shared'
          PROVE  Pressed(s)' \subseteq held'
      <4>1. s \notin shared
        BY <2>3, <3>2
      <4>2. at[s] = "press"
        BY <1>1, <1>2, <3>2
      <4>3. Pressed(s) \subseteq held
        BY <4>1, <4>2 DEF KeyInv, SharedKeys
      <4>. QED  BY <1>1, <1>4, <2>1, <4>3
    <3>. QED  BY <3>1, <3>2 DEF SharedKeys
  <2>5. ComboHasItsModifiers'
    <3>1. r \notin shared => Pressed(r) \subseteq held
      BY <1>2 DEF KeyInv, SharedKeys
    <3>. QED  BY <2>1, <2>3, <3>1 DEF KeyInv, ComboHasItsModifiers
  <2>6. SecureComboNeverTyped'
    <3>1. ASSUME name = Delete, {Control, Alt} \subseteq own
          PROVE  Len(Keys(r)) > 3
      <4>1. {Control, Alt} \subseteq Pressed(r)
        BY <1>3, <3>1
      <4>2. Pressed(r) = {Keys(r)[i] : i \in 1..position[r]}
        BY <1>2, <4>1 DEF Pressed
      <4>3. Control # Alt /\ Control # Delete /\ Alt # Delete
        BY Distinct
      <4>4. PICK i \in 1..position[r] : Keys(r)[i] = Control
        BY <4>1, <4>2
      <4>5. PICK j \in 1..position[r] : Keys(r)[j] = Alt
        BY <4>1, <4>2
      <4>6. i # j /\ Keys(r)[position[r] + 1] = Delete
        BY <3>1, <4>3, <4>4, <4>5 DEF name
      <4>7. Len(Keys(r)) >= 3
        BY <1>2, <4>4, <4>5, <4>6
      <4>8. ASSUME Len(Keys(r)) = 3 PROVE FALSE
        <5>1. position[r] = 2
          BY <1>2, <4>4, <4>5, <4>6, <4>8
        <5>2. {Keys(r)[n] : n \in 1..3} = {Keys(r)[1], Keys(r)[2], Keys(r)[3]}
          BY SMT
        <5>3. \/ i = 1 /\ j = 2
              \/ i = 2 /\ j = 1
          BY <4>4, <4>5, <4>6, <5>1
        <5>4. {Keys(r)[n] : n \in 1..3} = {Control, Alt, Delete}
          BY <4>4, <4>5, <4>6, <5>1, <5>2, <5>3
        <5>. QED  BY <1>2, <4>8, <5>4 DEF IsSecureAttentionCombo
      <4>9. Len(Keys(r)) \in Nat /\ Len(Keys(r)) # 3
        BY <1>2, <4>8
      <4>. QED  BY <4>7, <4>9
    <3>2. \A s \in typed' : s \in typed \/ (s = r /\ Len(Keys(r)) > 3)
      BY <2>1, <3>1
    <3>3. typed \subseteq Request
      BY DEF TypeOK
    <3>. QED  BY <1>1, <3>2, <3>3 DEF KeyInv, SecureComboNeverTyped
  <2>. QED  BY <2>2, <2>4, <2>5, <2>6 DEF KeyInv
<1>5. CASE name \notin Key
  <2>1. /\ abandoned' = abandoned \cup (Pressed(r) \cap held)
        /\ UNCHANGED <<held, typed, bare, shared>>
    BY <1>5 DEF Press, Parses
  <2> HIDE DEF name, last, others, own
  <2>2. HeldKeysAreOwned'
    BY <1>1, <1>5, <2>1 DEF KeyInv, HeldKeysAreOwned
  <2>3. SharedKeys'
    BY <1>1, <1>5, <2>1 DEF KeyInv, SharedKeys
  <2>4. ComboHasItsModifiers'
    BY <2>1 DEF KeyInv, ComboHasItsModifiers
  <2>5. SecureComboNeverTyped'
    BY <1>1, <2>1 DEF KeyInv, SecureComboNeverTyped, TypeOK
  <2>. QED  BY <2>2, <2>3, <2>4, <2>5 DEF KeyInv
<1>. QED  BY <1>4, <1>5

LEMMA ReleaseKeys ==
  ASSUME TypeOK, Requests, Progress, KeyInv, NEW r \in Request, Release(r)
  PROVE  KeyInv'
<1> DEFINE name == Keys(r)[position[r]]
<1>1. /\ name \in Pressed(r)
      /\ \A s \in Request : Keys(s)' = Keys(s)
      /\ \A s \in Request \ {r} : at'[s] = at[s] /\ Pressed(s)' = Pressed(s)
      /\ Pressed(r) \subseteq Pressed(r)' \cup {name}
      /\ Pressed(r)' \subseteq Pressed(r) /\ at'[r] # "press"
  BY ReleaseStep
<1>2. /\ held' = held \ {name} /\ abandoned' = abandoned \ {name}
      /\ UNCHANGED <<typed, bare, shared>>
  BY DEF Release
<1> HIDE DEF name
<1>3. HeldKeysAreOwned'
  BY <1>1, <1>2 DEF KeyInv, HeldKeysAreOwned
<1>4. SharedKeys'
  <2>1. ASSUME NEW s \in Request, NEW t \in Request \ {s},
               Pressed(s)' \cap Pressed(t)' # {}
        PROVE  s \in shared'
    <3>1. Pressed(s)' \subseteq Pressed(s) /\ Pressed(t)' \subseteq Pressed(t)
      BY <1>1
    <3>. QED  BY <1>2, <2>1, <3>1 DEF KeyInv, SharedKeys
  <2>2. ASSUME NEW s \in Request, at'[s] = "press", s \notin shared'
        PROVE  Pressed(s)' \subseteq held'
    <3>1. s # r /\ at[s] = "press" /\ s \notin shared
      BY <1>1, <1>2, <2>2
    <3>2. Pressed(s) \subseteq held /\ name \notin Pressed(s)
      BY <1>1, <3>1 DEF KeyInv, SharedKeys
    <3>. QED  BY <1>1, <1>2, <3>1, <3>2
  <2>. QED  BY <2>1, <2>2 DEF SharedKeys
<1>5. ComboHasItsModifiers'
  BY <1>2 DEF KeyInv, ComboHasItsModifiers
<1>6. SecureComboNeverTyped'
  BY <1>1, <1>2 DEF KeyInv, SecureComboNeverTyped, TypeOK
<1>. QED  BY <1>3, <1>4, <1>5, <1>6 DEF KeyInv

---------------------------------------------------------------------------
(* The answer of security_screen                                            *)

ScreenInv == ScreenStages /\ SecurityScreenHonest

LEMMA EnvironmentScreen ==
  ASSUME TypeOK, ScreenInv, Environment PROVE ScreenInv'
<1>1. /\ UNCHANGED <<at, ask, result, screens, locks>>
      /\ moved' = moved \cup {r \in Request : at[r] = "sas" /\ policy' # policy}
  BY EnvironmentFrame DEF handlerVars
<1>2. ScreenStages'
  BY <1>1 DEF ScreenInv, ScreenStages, Eligible
<1>3. SecurityScreenHonest'
  BY <1>1 DEF ScreenInv, SecurityScreenHonest, Cmd
<1>. QED  BY <1>2, <1>3 DEF ScreenInv

LEMMA ArriveScreen ==
  ASSUME TypeOK, Requests, ScreenInv, NEW r \in Request, Arrive(r)
  PROVE  ScreenInv'
<1>1. /\ UNCHANGED <<result, screens, locks, moved, policy>>
      /\ at' = [at EXCEPT ![r] = "arrived"] /\ at[r] = "none"
      /\ \A s \in Request \ {r} : ask'[s] = ask[s]
  BY DEF Arrive, Go, screenVars, hostVars, Requests
<1>2. at'[r] = "arrived" /\ \A s \in Request \ {r} : at'[s] = at[s]
  BY <1>1 DEF TypeOK
<1>3. ScreenStages'
  BY <1>1, <1>2 DEF ScreenInv, ScreenStages, Eligible
<1>4. SecurityScreenHonest'
  BY <1>1 DEF ScreenInv, ScreenStages, SecurityScreenHonest, Cmd
<1>. QED  BY <1>3, <1>4 DEF ScreenInv

LEMMA HandlerScreen ==
  ASSUME TypeOK, ScreenInv, NEW r \in Request, Handler(r) PROVE ScreenInv'
<1>1. /\ UNCHANGED <<ask, moved, policy>> /\ at' = [at EXCEPT ![r] = at'[r]]
      /\ at[r] # "none"
  BY HandlerFrame DEF hostVars
<1>2. \A s \in Request \ {r} : at'[s] = at[s]
  BY <1>1 DEF TypeOK
<1>3. CASE ~ReadPolicy(r) /\ ~SendSas(r) /\ ~ApplyFallback(r)
  <2>1. UNCHANGED <<result, screens, locks>>
    BY <1>3, ScreenFrame DEF screenVars
  <2>2. /\ at'[r] \notin {"sas", "fallback"} /\ at[r] \notin {"fallback", "done"}
    <3> USE DEF TypeOK, Go
    <3>1. CASE TakeSnapshot(r)
      BY <3>1 DEF TakeSnapshot
    <3>2. CASE Authorize(r)
      <4>1. Dispatch(r) \in {"policy", "act", "done", "press"}
        BY Zenon DEF Dispatch
      <4>. QED  BY <3>2, <4>1 DEF Authorize
    <3>3. CASE Act(r)
      BY <3>3 DEF Act
    <3>4. CASE Press(r)
      BY <3>4 DEF Press
    <3>5. CASE Release(r)
      BY <3>5 DEF Release
    <3>. QED  BY <1>3, <3>1, <3>2, <3>3, <3>4, <3>5 DEF Handler
  <2>3. ScreenStages'
    BY <1>1, <1>2, <2>1, <2>2 DEF ScreenInv, ScreenStages, Eligible
  <2>4. SecurityScreenHonest'
    BY <1>1, <2>1 DEF ScreenInv, SecurityScreenHonest, Cmd
  <2>. QED  BY <2>3, <2>4 DEF ScreenInv
<1>4. CASE ReadPolicy(r)
  <2>1. /\ UNCHANGED <<screens, locks>> /\ at[r] = "policy"
        /\ at'[r] \in {"sas", "fallback"}
        /\ at'[r] = "sas" => Eligible /\ UNCHANGED result
        /\ at'[r] = "fallback" => result'[r] = "permission_required"
        /\ \A s \in Request \ {r} : result'[s] = result[s]
    BY <1>4 DEF ReadPolicy, Go, screenVars, TypeOK
  <2>2. ScreenStages'
    BY <1>1, <1>2, <2>1 DEF ScreenInv, ScreenStages, Eligible
  <2>3. SecurityScreenHonest'
    BY <1>1, <2>1 DEF ScreenInv, ScreenStages, SecurityScreenHonest, Cmd
  <2>. QED  BY <2>2, <2>3 DEF ScreenInv
<1>5. CASE SendSas(r)
  <2>1. /\ UNCHANGED locks /\ at[r] = "sas" /\ at'[r] \in {"done", "fallback"}
        /\ at'[r] = "fallback" =>
             result'[r] = "execution_failed" /\ UNCHANGED screens
        /\ at'[r] = "done" =>
             /\ result'[r] = "sas"
             /\ screens' = IF Eligible THEN screens \cup {r} ELSE screens
        /\ \A s \in Request \ {r} : result'[s] = result[s]
    BY <1>5 DEF SendSas, Go, TypeOK
  <2>2. Eligible \/ r \in moved
    BY <2>1 DEF ScreenInv, ScreenStages
  <2>3. ScreenStages'
    BY <1>1, <1>2, <2>1 DEF ScreenInv, ScreenStages, Eligible
  <2>4. SecurityScreenHonest'
    BY <1>1, <2>1, <2>2 DEF ScreenInv, ScreenStages, SecurityScreenHonest, Cmd
  <2>. QED  BY <2>3, <2>4 DEF ScreenInv
<1>6. CASE ApplyFallback(r)
  <2>1. /\ UNCHANGED screens /\ at[r] = "fallback" /\ at'[r] = "done"
        /\ \/ UNCHANGED <<result, locks>>
           \/ UNCHANGED locks /\ result'[r] = "execution_failed"
           \/ /\ Cmd(r).fallback /\ locks' = locks \cup {r}
              /\ result'[r] = "lock"
        /\ \A s \in Request \ {r} : result'[s] = result[s]
    BY <1>6 DEF ApplyFallback, Go, TypeOK
  <2>2. ScreenStages'
    BY <1>1, <1>2, <2>1 DEF ScreenInv, ScreenStages, Eligible
  <2>3. SecurityScreenHonest'
    BY <1>1, <2>1 DEF ScreenInv, ScreenStages, SecurityScreenHonest, Cmd
  <2>. QED  BY <2>2, <2>3 DEF ScreenInv
<1>. QED  BY <1>3, <1>4, <1>5, <1>6

---------------------------------------------------------------------------
(* Credentials and capabilities                                             *)

LEMMA ObserveHistory ==
  ASSUME TypeOK, Observe
  PROVE  \A r \in Request : since[r] \subseteq since'[r] /\ Now(r)' \subseteq since'[r]
BY DEF TypeOK, Observe

LEMMA EnvironmentHistory ==
  ASSUME TypeOK, History, Environment PROVE History'
<1>1. UNCHANGED <<at, ask, seen, acted>>
  BY EnvironmentFrame DEF handlerVars
<1>2. \A r \in Request : /\ since[r] \subseteq since'[r]
                         /\ Now(r)' \subseteq since'[r]
  <2>1. CASE Observe
    BY <2>1, ObserveHistory
  <2>2. CASE UNCHANGED <<since, token, phones, input, power>>
    <3>1. \A r \in Request : Now(r)' = Now(r)
      BY <1>1, <2>2 DEF Now, Live, Allowed, NeedsInput, NeedsPower, Cmd
    <3>. QED  BY <2>2, <3>1 DEF History
  <2>. QED  BY <2>1, <2>2, EnvironmentFrame
<1>3. \A r \in Request :
        /\ Gate(r)' = Gate(r)
        /\ ask[r].cred.kind = "shared" => Authentic(r)' = Authentic(r)
        /\ OpenInfo(r)' = OpenInfo(r)
  BY <1>1 DEF Gate, Authentic, OpenInfo, NeedsInput, NeedsPower, Cmd
<1>4. \A r \in Request : Authority(r) => Authority(r)'
  BY <1>1, <1>2, <1>3 DEF Authority
<1>. QED  BY <1>1, <1>2, <1>3, <1>4 DEF History

LEMMA ArriveHistory ==
  ASSUME TypeOK, Requests, History, NEW r \in Request, Arrive(r)
  PROVE  History'
<1>1. /\ at' = [at EXCEPT ![r] = "arrived"] /\ at[r] = "none" /\ Observe
      /\ UNCHANGED <<seen, acted, phones>>
      /\ \A s \in Request \ {r} : ask'[s] = ask[s]
  BY DEF Arrive, Go, Requests, hostVars
<1>2. at'[r] = "arrived" /\ \A s \in Request \ {r} : at'[s] = at[s]
  BY <1>1 DEF TypeOK
<1>3. \A s \in Request : /\ since[s] \subseteq since'[s]
                         /\ Now(s)' \subseteq since'[s]
  BY <1>1, ObserveHistory
<1>4. \A s \in Request \ {r} :
        /\ Gate(s)' = Gate(s) /\ Authentic(s)' = Authentic(s)
        /\ OpenInfo(s)' = OpenInfo(s)
  BY <1>1 DEF Gate, Authentic, OpenInfo, NeedsInput, NeedsPower, Cmd
<1>5. \A s \in Request \ {r} : Authority(s) => Authority(s)'
  BY <1>1, <1>3, <1>4 DEF Authority
<1>6. r \notin acted
  BY <1>1 DEF History
<1>. QED  BY <1>1, <1>2, <1>3, <1>4, <1>5, <1>6 DEF History

LEMMA HandlerHistory ==
  ASSUME TypeOK, Requests, History, NEW r \in Request, Handler(r)
  PROVE  History'
<1>1. /\ UNCHANGED <<ask, token, phones, input, power>>
      /\ at' = [at EXCEPT ![r] = at'[r]] /\ at[r] # "none"
  BY HandlerFrame DEF hostVars
<1>2. \A s \in Request \ {r} : at'[s] = at[s]
  BY <1>1 DEF TypeOK
<1>3. \A s \in Request : /\ Live(s)' = Live(s) /\ Allowed(s)' = Allowed(s)
                         /\ OpenInfo(s)' = OpenInfo(s)
  BY <1>1 DEF Live, Allowed, OpenInfo, NeedsInput, NeedsPower, Cmd
<1>4. \A s \in Request \ {r} : Now(s)' = Now(s)
  BY <1>2, <1>3 DEF Now
<1>5. \A s \in Request \ {r} : /\ seen'[s] = seen[s] /\ since'[s] = since[s]
                               /\ s \in acted' <=> s \in acted
  BY DEF Handler, TakeSnapshot, Authorize, Act, Press, Release, ReadPolicy,
         SendSas, ApplyFallback, TypeOK
<1>6. \A s \in Request \ {r} : /\ Gate(s)' = Gate(s)
                               /\ Authentic(s)' = Authentic(s)
                               /\ Authority(s)' = Authority(s)
  BY <1>1, <1>3, <1>5 DEF Gate, Authentic, Authority, NeedsInput, NeedsPower, Cmd
\* What has to hold of the request whose handler moves.
<1> DEFINE Holds ==
      /\ Now(r)' \subseteq since'[r]
      /\ at'[r] = "snapshot" /\ Gate(r)' => "allowed" \in since'[r]
      /\ at'[r] = "snapshot" /\ ask'[r].cred.kind = "shared" /\ Authentic(r)' =>
           /\ "live" \in since'[r]
           /\ Gate(r)' => "both" \in since'[r]
      /\ at'[r] \notin {"none", "arrived", "snapshot", "done"} => Authority(r)'
      /\ r \in acted' =>
           Authority(r)' /\ at'[r] \notin {"none", "arrived", "snapshot"}
<1>7. CASE TakeSnapshot(r)
  <2>1. /\ at[r] = "arrived" /\ at'[r] = "snapshot" /\ UNCHANGED <<since, acted>>
        /\ seen'[r] = [token |-> token, input |-> input, power |-> power]
    BY <1>7 DEF TakeSnapshot, Go, TypeOK
  <2>2. Now(r)' = Now(r) /\ Now(r) \subseteq since[r] /\ r \notin acted
    BY <1>3, <2>1 DEF Now, History
  <2>3. Gate(r)' <=> Allowed(r)
    BY <1>1, <2>1 DEF Gate, Allowed, NeedsInput, NeedsPower, Cmd
  <2>4. ask[r].cred.kind = "shared" => (Authentic(r)' <=> Live(r))
    BY <1>1, <2>1 DEF Authentic, Live
  <2>5. /\ Allowed(r) => "allowed" \in Now(r)
        /\ Live(r) => "live" \in Now(r)
        /\ Live(r) /\ Allowed(r) => "both" \in Now(r)
    BY <2>1 DEF Now, Fact
  <2>. QED
    <3>1. Holds
      BY <1>1, <2>1, <2>2, <2>3, <2>4, <2>5
    <3>. QED  BY <1>2, <1>4, <1>5, <1>6, <3>1, <1>1 DEF History
<1>8. CASE Authorize(r)
  <2>1. at[r] = "snapshot" /\ at'[r] \in {Dispatch(r), "done"} /\ UNCHANGED acted
    BY <1>8 DEF Authorize, Go, TypeOK
  <2>2. at'[r] \notin {"none", "arrived", "snapshot"}
    <3>1. Dispatch(r) \in {"policy", "act", "done", "press"}
      BY Zenon DEF Dispatch
    <3>. QED  BY <2>1, <3>1
  <2>3. Now(r)' = {} /\ r \notin acted
    BY <2>1, <2>2 DEF Now, History
  <2>4. ASSUME at'[r] # "done" PROVE Authority(r)'
    <3>1. /\ UNCHANGED since
          /\ OpenInfo(r) \/ (Authentic(r) /\ Gate(r))
      BY <1>8, <2>4 DEF Authorize, Go, TypeOK
    <3>2. CASE OpenInfo(r)
      BY <1>3, <3>2 DEF Authority
    <3>3. CASE Authentic(r) /\ Gate(r)
      <4>1. "allowed" \in since[r]
        BY <2>1, <3>3 DEF History
      <4>2. CASE ask[r].cred.kind = "shared"
        <5>1. {"live", "both"} \subseteq since[r]
          BY <2>1, <3>3, <4>2 DEF History
        <5>. QED  BY <1>1, <3>1, <4>1, <5>1 DEF Authority
      <4>3. CASE ask[r].cred.kind # "shared"
        <5>1. Live(r)
          BY <3>3, <4>3 DEF Authentic, Live
        <5>2. "live" \in Now(r)
          BY <2>1, <5>1 DEF Now, Fact
        <5>3. "live" \in since[r]
          BY <5>2 DEF History
        <5>. QED  BY <1>1, <3>1, <4>1, <4>3, <5>3 DEF Authority
      <4>. QED  BY <4>2, <4>3
    <3>. QED  BY <3>1, <3>2, <3>3
  <2>5. Holds
    BY <2>1, <2>2, <2>3, <2>4
  <2>. QED  BY <1>1, <1>2, <1>4, <1>5, <1>6, <2>5 DEF History
<1>9. CASE ~TakeSnapshot(r) /\ ~Authorize(r)
  <2>1. /\ at[r] \notin {"none", "arrived", "snapshot", "done"}
        /\ at'[r] \notin {"none", "arrived", "snapshot"} /\ UNCHANGED since
    BY <1>9 DEF Handler, Act, Press, Release, ReadPolicy, SendSas,
                ApplyFallback, Go, TypeOK
  <2>2. Authority(r) /\ Authority(r)'
    BY <1>1, <1>3, <2>1 DEF History, Authority
  <2>3. Now(r)' = {}
    BY <2>1 DEF Now
  <2>4. Holds
    BY <2>1, <2>2, <2>3
  <2>. QED  BY <1>1, <1>2, <1>4, <1>5, <1>6, <2>4 DEF History
<1>. QED  BY <1>7, <1>8, <1>9

---------------------------------------------------------------------------
(* The inductive invariant and the theorems                                 *)

LEMMA InitInv == Init => IInv
<1> SUFFICES ASSUME Init PROVE IInv
  OBVIOUS
<1>1. TypeOK /\ Requests
  BY InitType
<1>2. \A r \in Request : at[r] = "none" /\ Pressed(r) = {} /\ Now(r) = {}
  BY DEF Init, Pressed, Now
<1>3. Progress /\ HeldKeysAreOwned /\ SharedKeys /\ ComboHasItsModifiers
      /\ SecureComboNeverTyped
  BY <1>2 DEF Init, Progress, HeldKeysAreOwned, SharedKeys,
              ComboHasItsModifiers, SecureComboNeverTyped
<1>4. ScreenStages /\ SecurityScreenHonest
  BY DEF Init, ScreenStages, SecurityScreenHonest
<1>5. History
  BY <1>2 DEF Init, History
<1>. QED  BY <1>1, <1>3, <1>4, <1>5 DEF IInv

LEMMA NextInv == IInv /\ [Next]_vars => IInv'
<1> SUFFICES ASSUME IInv, [Next]_vars PROVE IInv'
  OBVIOUS
<1>i. TypeOK /\ Requests /\ Progress /\ KeyInv /\ ScreenInv /\ History
  BY DEF IInv, KeyInv, ScreenInv
<1>1. CASE Environment
  BY <1>1, <1>i, EnvironmentType, QuietStep, QuietKeys, EnvironmentScreen,
     EnvironmentHistory DEF IInv, KeyInv, ScreenInv
<1>2. ASSUME NEW r \in Request, Arrive(r) PROVE IInv'
  <2>1. ~Press(r) /\ ~Release(r)
    BY <1>2 DEF Arrive, Press, Release
  <2>. QED
    BY <1>2, <1>i, <2>1, ArriveType, QuietStep, QuietKeys, ArriveScreen,
       ArriveHistory DEF IInv, KeyInv, ScreenInv
<1>3. ASSUME NEW r \in Request, Handler(r) PROVE IInv'
  <2>1. TypeOK' /\ Requests' /\ ScreenInv' /\ History'
    BY <1>3, <1>i, HandlerType, HandlerScreen, HandlerHistory
  <2>2. Progress' /\ KeyInv'
    <3>1. CASE Press(r)
      BY <1>i, <3>1, PressStep, PressKeys
    <3>2. CASE Release(r)
      BY <1>i, <3>2, ReleaseStep, ReleaseKeys
    <3>3. CASE ~Press(r) /\ ~Release(r)
      BY <1>3, <1>i, <3>3, QuietStep, QuietKeys
    <3>. QED  BY <3>1, <3>2, <3>3
  <2>. QED  BY <2>1, <2>2 DEF IInv, KeyInv, ScreenInv
<1>4. CASE UNCHANGED vars
  <2>1. UNCHANGED <<token, phones, input, power, policy, rotating, resetting, dialog, at, ask,
                    seen, position, result, held, abandoned, typed, bare, shared,
                    screens, locks, moved, since, acted, events>>
    BY <1>4 DEF vars, hostVars, handlerVars, keyVars, screenVars
  <2>2. TypeOK' /\ Requests' /\ Progress'
    BY <1>i, <2>1 DEF TypeOK, Requests, Progress, Keys
  <2>3. KeyInv'
    <3>1. \A r \in Request : Pressed(r)' = Pressed(r) /\ Keys(r)' = Keys(r)
      BY <2>1 DEF Pressed, Keys
    <3>2. HeldKeysAreOwned' /\ ComboHasItsModifiers'
      BY <1>i, <2>1, <3>1 DEF KeyInv, HeldKeysAreOwned, ComboHasItsModifiers
    <3>3. SharedKeys'
      BY <1>i, <2>1, <3>1 DEF KeyInv, SharedKeys
    <3>4. SecureComboNeverTyped'
      BY <1>i, <2>1, <3>1 DEF KeyInv, SecureComboNeverTyped, TypeOK
    <3>. QED  BY <3>2, <3>3, <3>4 DEF KeyInv
  <2>4. ScreenInv'
    BY <1>i, <2>1 DEF ScreenInv, ScreenStages, SecurityScreenHonest, Eligible, Cmd
  <2>5. History'
    BY <1>i, <2>1 DEF History, Now, Live, Allowed, Gate, Authentic, Authority,
       OpenInfo, NeedsInput, NeedsPower, Cmd
  <2>. QED  BY <2>2, <2>3, <2>4, <2>5 DEF IInv, KeyInv, ScreenInv
<1>. QED  BY <1>1, <1>2, <1>3, <1>4 DEF Next

LEMMA Invariance == Spec => []IInv
BY InitInv, NextInv, PTL DEF Spec

\* The types of the module are right: in particular no handler is ever past the
\* end of its combination, or before its beginning (key_press).
THEOREM CommandsTypeCorrect == Spec => []TypeOK
<1>1. IInv => TypeOK
  BY DEF IInv
<1>. QED  BY <1>1, Invariance, PTL

\* However handlers overlap, a key that is down is in a combination that is
\* still being pressed or released, or was left down by a refused one
\* (key_press).
THEOREM NoKeyLeftDown == Spec => []HeldKeysAreOwned
<1>1. IInv => HeldKeysAreOwned
  BY DEF IInv
<1>. QED  BY <1>1, Invariance, PTL

\* Only a handler that shares a key with another can press its last key without
\* its modifiers (key_press).
THEOREM CombosAreComplete == Spec => []ComboHasItsModifiers
<1>1. IInv => ComboHasItsModifiers
  BY DEF IInv
<1>. QED  BY <1>1, Invariance, PTL

\* The secure attention filter is complete for combinations of three names, in
\* every interleaving of handlers (is_secure_attention_combo).
THEOREM FilterHolds == Spec => []SecureComboNeverTyped
<1>1. IInv => SecureComboNeverTyped
  BY DEF IInv
<1>. QED  BY <1>1, Invariance, PTL

\* The answer of security_screen tells what happened, but for a policy that
\* changes between the check and the call (request_secure_attention_sequence).
THEOREM AnswersAreHonest == Spec => []SecurityScreenHonest
<1>1. IInv => SecurityScreenHonest
  BY DEF IInv
<1>. QED  BY <1>1, Invariance, PTL

\* Whatever the tray rotates, revokes or edits meanwhile, a request acts only
\* with a credential and a capability that were good since it arrived
\* (authenticate_inner and the ensure_ gates).
THEOREM ActsWithinAuthority == Spec => []ActedWithinAuthority
<1>1. IInv => ActedWithinAuthority
  BY DEF IInv, History, Authority, ActedWithinAuthority, TypeOK
<1>. QED  BY <1>1, Invariance, PTL
=============================================================================
