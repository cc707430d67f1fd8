---------------------------- MODULE ServingProofs ----------------------------
(* Proofs about Serving, for every set of settings and every number of      *)
(* server runs and of menu choices, edits and failures.                     *)
EXTENDS Serving, TLAPS

Served == {"http", "discovery", "tls", "serving", "draining"}
Building == {"identity", "create"}

\* Server runs are numbered, and the tray counts as stopped only a server whose
\* thread has ended.
Generations ==
  /\ \A g \in Generation : At(g) = "none" <=> g > gen
  /\ ~active => At(gen) = "ended"
  /\ Restarting => gen < MAX_SERVERS

\* A responder runs beside its server only.
Responders ==
  \A g \in Generation : thread[g].udp => At(g) \in {"tls", "serving", "draining"}

\* The event loop builds a popup without doing anything else, for the server
\* that runs, and closes it for a restart or a reset.
Popups ==
  /\ popup.at \in Building => tray = "popup" /\ popup.of = gen
  /\ tray \in {"restart", "resetRestart"} => popup.at = "closed"
  /\ popup.at # "closed" /\ popup.of # gen => restartedBy = "reload"

Errors ==
  startupError /\ active => restartedBy \in {"reload", "resetRestart"}

\* Who creates an identity has a key, and found none; whoever uses one without
\* a race uses the one that is stored.
Identities ==
  /\ \A g \in Generation : At(g) = "create" =>
       thread[g].key # NoKey /\ identity # Unreadable
  /\ popup.at = "create" => popup.key # NoKey /\ identity # Unreadable
  /\ ~raced =>
       /\ \A g \in Generation : At(g) = "create" =>
            identity = NoKey /\ popup.at # "create"
       /\ popup.at = "create" => identity = NoKey
       /\ \A g \in Generation : At(g) \in Served =>
            thread[g].key = identity /\ identity # NoKey
       /\ popup.at = "open" => popup.key = identity /\ identity # NoKey
       /\ advertised.of # 0 => advertised.key = identity /\ identity # NoKey

\* No settings but those of the tray are served outside a restart.
Settings ==
  tray \notin {"restart", "resetRestart", "reload", "exit", "gone"} /\ active
    /\ At(gen) \notin {"settings", "ended"} /\ ~behind
  => thread[gen].settings = config

IInv == TypeOK /\ Generations /\ OneServer /\ Responders /\ Popups /\ Errors
        /\ Identities /\ Settings

---------------------------------------------------------------------------
(* The steps of a server run, field by field                                *)

\* What a step may make of the run it belongs to.
Become(g, at, settings, key, udp) ==
  thread'[g] = [at |-> at, settings |-> settings, key |-> key, udp |-> udp]

LEMMA ThreadFields ==
  ASSUME TypeOK, NEW g \in Generation
  PROVE  /\ thread[g].at \in Stage /\ thread[g].settings \in Setting
         /\ thread[g].key \in Nat /\ thread[g].udp \in BOOLEAN
         /\ thread[g] = [at |-> thread[g].at, settings |-> thread[g].settings,
                         key |-> thread[g].key, udp |-> thread[g].udp]
BY DEF TypeOK, Thread

LEMMA MoveStep ==
  ASSUME TypeOK, NEW g \in Generation, NEW stage \in Stage, Move(g, stage)
  PROVE  /\ Become(g, stage, thread[g].settings, thread[g].key, thread[g].udp)
         /\ thread' \in [Generation -> Thread]
         /\ \A h \in Generation \ {g} : thread'[h] = thread[h]
BY ThreadFields DEF Move, TypeOK, Thread, Become

LEMMA EndStep ==
  ASSUME TypeOK, NEW g \in Generation, End(g)
  PROVE  /\ Become(g, "ended", thread[g].settings, thread[g].key, FALSE)
         /\ thread' \in [Generation -> Thread]
         /\ \A h \in Generation \ {g} : thread'[h] = thread[h]
BY ThreadFields DEF End, TypeOK, Thread, Become, Stage

LEMMA KeyStep ==
  ASSUME TypeOK, NEW g \in Generation, NEW stage \in Stage, NEW k \in Nat,
         thread' = [thread EXCEPT ![g].at = stage, ![g].key = k]
  PROVE  /\ Become(g, stage, thread[g].settings, k, thread[g].udp)
         /\ thread' \in [Generation -> Thread]
         /\ \A h \in Generation \ {g} : thread'[h] = thread[h]
BY ThreadFields DEF TypeOK, Thread, Become

LEMMA SettingsStep ==
  ASSUME TypeOK, NEW g \in Generation,
         thread' = [thread EXCEPT ![g].at = "identity", ![g].settings = config]
  PROVE  /\ Become(g, "identity", config, thread[g].key, thread[g].udp)
         /\ thread' \in [Generation -> Thread]
         /\ \A h \in Generation \ {g} : thread'[h] = thread[h]
BY ThreadFields DEF TypeOK, Thread, Become, Stage

LEMMA UdpStep ==
  ASSUME TypeOK, NEW g \in Generation, NEW b \in BOOLEAN,
         thread' = [thread EXCEPT ![g].at = "tls", ![g].udp = b]
  PROVE  /\ Become(g, "tls", thread[g].settings, thread[g].key, b)
         /\ thread' \in [Generation -> Thread]
         /\ \A h \in Generation \ {g} : thread'[h] = thread[h]
BY ThreadFields DEF TypeOK, Thread, Become, Stage

---------------------------------------------------------------------------
(* The steps of a server run preserve the invariant                         *)

\* What no step of a server run touches.
ThreadFrame(g) ==
  /\ UNCHANGED <<config, disk, unseen, foreign, gen, active, told, popup,
                 startupError, tray, advertised, restartedBy, behind>>
  /\ thread' \in [Generation -> Thread]
  /\ \A h \in Generation \ {g} : thread'[h] = thread[h]

\* A run that moves on, or ends, is the one of the tray.
LEMMA ThreadSteps ==
  ASSUME IInv, NEW g \in Generation, ThreadFrame(g), Live(g),
         At(g)' # "none", thread'[g].udp => At(g)' \in {"tls", "serving", "draining"},
         identity' \in Nat \cup {Unreadable}, keys' \in Nat,
         raced' \in BOOLEAN, events' \in Nat,
         At(g)' \in {"identity", "create"} \cup Served =>
           thread'[g].settings = IF At(g) = "settings" THEN config
                                 ELSE thread[g].settings,
         At(g)' # "settings"
  PROVE  /\ g = gen /\ TypeOK' /\ Generations' /\ OneServer' /\ Responders'
         /\ Popups' /\ Errors' /\ Settings'
<1>1. g = gen
  BY DEF IInv, OneServer
<1>2. TypeOK'
  BY DEF IInv, TypeOK, ThreadFrame
<1>3. Generations'
  BY <1>1 DEF IInv, Generations, ThreadFrame, At, Live, Restarting
<1>4. OneServer'
  BY <1>1 DEF IInv, OneServer, ThreadFrame, At, Live
<1>5. Responders'
  BY DEF IInv, Responders, ThreadFrame, At
<1>6. Popups' /\ Errors'
  BY DEF IInv, Popups, Errors, ThreadFrame, Building
<1>7. Settings'
  <2>1. At(g)' \in Stage
    BY <1>2 DEF TypeOK, At, Thread
  <2>2. At(g)' \in {"identity", "create", "ended"} \cup Served
    BY <2>1 DEF Stage, Served
  <2>. QED  BY <1>1, <2>2 DEF IInv, Settings, ThreadFrame, At, Live
<1>. QED  BY <1>1, <1>2, <1>3, <1>4, <1>5, <1>6, <1>7

LEMMA TakeSettingsInv ==
  ASSUME IInv, NEW g \in Generation, TakeSettings(g) PROVE IInv'
<1>1. /\ At(g) = "settings"
      /\ thread' = [thread EXCEPT ![g].at = "identity", ![g].settings = config]
      /\ UNCHANGED <<config, fileVars, gen, active, told, uiVars, historyVars>>
  BY DEF TakeSettings
<1>2. /\ Become(g, "identity", config, thread[g].key, thread[g].udp)
      /\ thread' \in [Generation -> Thread]
      /\ \A h \in Generation \ {g} : thread'[h] = thread[h]
  BY <1>1, SettingsStep DEF IInv
<1>3. ThreadFrame(g) /\ UNCHANGED <<identity, keys, raced, events>>
  BY <1>1, <1>2 DEF ThreadFrame, fileVars, uiVars, historyVars
<1>4. /\ At(g)' = "identity" /\ thread'[g].settings = config
      /\ thread'[g].udp = thread[g].udp
  BY <1>2 DEF Become, At
<1>5. ~thread[g].udp /\ Live(g)
  BY <1>1 DEF IInv, Responders, Live
<1>6. Identities'
  BY <1>3, <1>4 DEF IInv, Identities, ThreadFrame, At, Served
<1>7. /\ identity' \in Nat \cup {Unreadable} /\ keys' \in Nat
      /\ raced' \in BOOLEAN /\ events' \in Nat
  BY <1>3 DEF IInv, TypeOK
<1>. QED
  BY <1>1, <1>3, <1>4, <1>5, <1>6, <1>7, ThreadSteps DEF IInv

LEMMA LoadIdentityInv ==
  ASSUME IInv, NEW g \in Generation, LoadIdentity(g) PROVE IInv'
<1>1. /\ At(g) = "identity"
      /\ UNCHANGED <<config, disk, unseen, identity, foreign, gen, active, told,
                     uiVars, advertised, restartedBy, behind, events>>
  BY DEF LoadIdentity
<1>2. Live(g) /\ ~thread[g].udp /\ keys \in Nat /\ raced \in BOOLEAN
      /\ identity \in Nat \cup {Unreadable} /\ events \in Nat /\ g = gen
  BY <1>1 DEF IInv, Responders, TypeOK, OneServer, Live
<1>3. CASE identity = NoKey
  <2>1. /\ keys' = keys + 1 /\ raced' = (raced \/ popup.at = "create")
        /\ thread' = [thread EXCEPT ![g].at = "create", ![g].key = keys + 1]
    BY <1>3 DEF LoadIdentity, NoKey, Unreadable
  <2>2. /\ Become(g, "create", thread[g].settings, keys + 1, thread[g].udp)
        /\ thread' \in [Generation -> Thread]
        /\ \A h \in Generation \ {g} : thread'[h] = thread[h]
    <3>1. keys + 1 \in Nat /\ "create" \in Stage
      BY <1>2 DEF Stage
    <3>. QED  BY <2>1, <3>1, KeyStep DEF IInv
  <2>3. ThreadFrame(g)
    BY <1>1, <2>2 DEF ThreadFrame, uiVars
  <2>4. /\ At(g)' = "create" /\ thread'[g].settings = thread[g].settings
        /\ thread'[g].key = keys + 1 /\ thread'[g].udp = thread[g].udp
    BY <2>2 DEF Become, At
  <2>5. Identities'
    <3>1. keys + 1 # NoKey /\ identity # Unreadable
      BY <1>2, <1>3 DEF NoKey, Unreadable
    <3>2. \A h \in Generation \ {g} : At(h) \notin {"create"} \cup Served
      BY <1>2 DEF IInv, OneServer, Live, Served
    <3>. QED
      BY <1>1, <1>3, <2>1, <2>3, <2>4, <3>1, <3>2
         DEF IInv, Identities, ThreadFrame, At, Served
  <2>6. keys' \in Nat /\ raced' \in BOOLEAN
    BY <1>2, <2>1
  <2>. QED
    BY <1>1, <1>2, <2>3, <2>4, <2>5, <2>6, ThreadSteps DEF IInv
<1>4. CASE identity = Unreadable
  <2>1. End(g) /\ UNCHANGED <<keys, raced>>
    BY <1>4 DEF LoadIdentity, NoKey, Unreadable
  <2>2. /\ Become(g, "ended", thread[g].settings, thread[g].key, FALSE)
        /\ thread' \in [Generation -> Thread]
        /\ \A h \in Generation \ {g} : thread'[h] = thread[h]
    BY <2>1, EndStep DEF IInv
  <2>3. ThreadFrame(g)
    BY <1>1, <2>2 DEF ThreadFrame, uiVars
  <2>4. /\ At(g)' = "ended" /\ ~thread'[g].udp
    BY <2>2 DEF Become, At
  <2>5. Identities'
    BY <1>1, <2>1, <2>3, <2>4 DEF IInv, Identities, ThreadFrame, At, Served
  <2>. QED
    BY <1>1, <1>2, <2>1, <2>3, <2>4, <2>5, ThreadSteps DEF IInv, Served
<1>5. CASE identity # NoKey /\ identity # Unreadable
  <2>1. /\ thread' = [thread EXCEPT ![g].at = "http", ![g].key = identity]
        /\ UNCHANGED <<keys, raced>>
    BY <1>5 DEF LoadIdentity
  <2>2. /\ Become(g, "http", thread[g].settings, identity, thread[g].udp)
        /\ thread' \in [Generation -> Thread]
        /\ \A h \in Generation \ {g} : thread'[h] = thread[h]
    BY <1>2, <1>5, <2>1, KeyStep DEF IInv, Stage
  <2>3. ThreadFrame(g)
    BY <1>1, <2>2 DEF ThreadFrame, uiVars
  <2>4. /\ At(g)' = "http" /\ thread'[g].settings = thread[g].settings
        /\ thread'[g].key = identity /\ thread'[g].udp = thread[g].udp
    BY <2>2 DEF Become, At
  <2>5. Identities'
    BY <1>1, <1>5, <2>1, <2>3, <2>4 DEF IInv, Identities, ThreadFrame, At, Served
  <2>. QED
    BY <1>1, <1>2, <2>1, <2>3, <2>4, <2>5, ThreadSteps DEF IInv
<1>. QED  BY <1>3, <1>4, <1>5

LEMMA SaveIdentityInv ==
  ASSUME IInv, NEW g \in Generation, SaveIdentity(g) PROVE IInv'
<1>1. /\ At(g) = "create"
      /\ UNCHANGED <<config, disk, unseen, keys, foreign, gen, active, told,
                     uiVars, advertised, restartedBy, behind, raced>>
  BY DEF SaveIdentity
<1>2. /\ Live(g) /\ ~thread[g].udp /\ keys \in Nat /\ raced \in BOOLEAN
      /\ identity \in Nat /\ events \in Nat /\ g = gen
      /\ thread[g].key \in Nat /\ thread[g].key # NoKey
  <2>1. Live(g) /\ ~thread[g].udp /\ g = gen
    BY <1>1 DEF IInv, Responders, OneServer, Live
  <2>2. thread[g].key # NoKey /\ identity # Unreadable
    BY <1>1 DEF IInv, Identities
  <2>. QED  BY <2>1, <2>2, ThreadFields DEF IInv, TypeOK
<1>3. \A h \in Generation \ {g} : At(h) \notin {"create"} \cup Served
  BY <1>2 DEF IInv, OneServer, Live, Served
<1>4. ASSUME Move(g, "http"), identity' = thread[g].key, UNCHANGED events
      PROVE  IInv'
  <2>1. /\ Become(g, "http", thread[g].settings, thread[g].key, thread[g].udp)
        /\ thread' \in [Generation -> Thread]
        /\ \A h \in Generation \ {g} : thread'[h] = thread[h]
    BY <1>4, MoveStep DEF IInv, Stage
  <2>2. ThreadFrame(g)
    BY <1>1, <2>1 DEF ThreadFrame, uiVars
  <2>3. /\ At(g)' = "http" /\ thread'[g].settings = thread[g].settings
        /\ thread'[g].key = thread[g].key /\ thread'[g].udp = thread[g].udp
    BY <2>1 DEF Become, At
  <2>4. Identities'
    <3>1. ~raced => popup.at \notin {"create", "open"} /\ advertised.of = 0
      BY <1>1 DEF IInv, Identities
    <3>2. identity' # Unreadable
      BY <1>2, <1>4 DEF Unreadable
    <3>. QED
      BY <1>1, <1>2, <1>3, <1>4, <2>2, <2>3, <3>1, <3>2
         DEF IInv, Identities, ThreadFrame, At, Served
  <2>5. identity' \in Nat /\ events' \in Nat /\ keys' \in Nat /\ raced' \in BOOLEAN
    BY <1>1, <1>2, <1>4
  <2>. QED
    BY <1>1, <1>2, <2>2, <2>3, <2>4, <2>5, ThreadSteps DEF IInv
<1>5. ASSUME Event, UNCHANGED identity, identity = NoKey, End(g)
      PROVE  IInv'
  <2>1. /\ Become(g, "ended", thread[g].settings, thread[g].key, FALSE)
        /\ thread' \in [Generation -> Thread]
        /\ \A h \in Generation \ {g} : thread'[h] = thread[h]
    BY <1>5, EndStep DEF IInv
  <2>2. ThreadFrame(g)
    BY <1>1, <2>1 DEF ThreadFrame, uiVars
  <2>3. At(g)' = "ended" /\ ~thread'[g].udp
    BY <2>1 DEF Become, At
  <2>4. Identities'
    BY <1>1, <1>5, <2>2, <2>3 DEF IInv, Identities, ThreadFrame, At, Served
  <2>5. identity' \in Nat /\ events' \in Nat /\ keys' \in Nat /\ raced' \in BOOLEAN
    BY <1>1, <1>2, <1>5 DEF Event
  <2>. QED
    BY <1>1, <1>2, <2>2, <2>3, <2>4, <2>5, ThreadSteps DEF IInv, Served
<1>6. ASSUME Event, UNCHANGED identity, identity # NoKey,
             thread' = [thread EXCEPT ![g].at = "http", ![g].key = identity]
      PROVE  IInv'
  <2>1. /\ Become(g, "http", thread[g].settings, identity, thread[g].udp)
        /\ thread' \in [Generation -> Thread]
        /\ \A h \in Generation \ {g} : thread'[h] = thread[h]
    BY <1>2, <1>6, KeyStep DEF IInv, Stage
  <2>2. ThreadFrame(g)
    BY <1>1, <2>1 DEF ThreadFrame, uiVars
  <2>3. /\ At(g)' = "http" /\ thread'[g].settings = thread[g].settings
        /\ thread'[g].key = identity /\ thread'[g].udp = thread[g].udp
    BY <2>1 DEF Become, At
  <2>4. Identities'
    BY <1>1, <1>6, <2>2, <2>3 DEF IInv, Identities, ThreadFrame, At, Served
  <2>5. identity' \in Nat /\ events' \in Nat /\ keys' \in Nat /\ raced' \in BOOLEAN
    BY <1>1, <1>2, <1>6 DEF Event
  <2>. QED
    BY <1>1, <1>2, <2>2, <2>3, <2>4, <2>5, ThreadSteps DEF IInv
<1>. QED  BY <1>4, <1>5, <1>6 DEF SaveIdentity

\* From the first listener on, a run keeps its identity and its settings.
LEMMA ServingStep ==
  ASSUME IInv, NEW g \in Generation, ThreadFrame(g),
         At(g) \in Served, At(g)' \in Served \cup {"ended"},
         thread'[g].settings = thread[g].settings,
         thread'[g].key = thread[g].key,
         thread'[g].udp => At(g)' \in {"tls", "serving", "draining"},
         UNCHANGED <<identity, keys, raced>>, events' \in Nat
  PROVE  IInv'
<1>1. Live(g) /\ At(g)' \notin {"none", "settings"} /\ At(g) # "settings"
  BY DEF Live, Served
<1>2. Identities'
  BY DEF IInv, Identities, ThreadFrame, At, Served
<1>3. /\ identity' \in Nat \cup {Unreadable} /\ keys' \in Nat
      /\ raced' \in BOOLEAN
  BY DEF IInv, TypeOK
<1>. QED  BY <1>1, <1>2, <1>3, ThreadSteps DEF IInv

LEMMA ListenInv ==
  ASSUME IInv, NEW g \in Generation,
         \/ BindHttp(g) \/ StartDiscovery(g) \/ BindTls(g)
         \/ Drain(g) \/ Drained(g) \/ Fail(g)
  PROVE  IInv'
<1>1. /\ UNCHANGED <<config, fileVars, gen, active, told, uiVars, advertised,
                     restartedBy, behind, raced>>
      /\ events' \in Nat
  BY DEF IInv, TypeOK, BindHttp, StartDiscovery, BindTls, Drain, Drained, Fail,
         historyVars, Event
<1>2. UNCHANGED <<config, disk, unseen, foreign, gen, active, told, popup,
                  startupError, tray, advertised, restartedBy, behind>>
      /\ UNCHANGED <<identity, keys, raced>>
  BY <1>1 DEF fileVars, uiVars
<1>3. ASSUME NEW stage \in Served, Move(g, stage), At(g) \in Served,
             At(g) # "http" \/ stage = "discovery",
             thread[g].udp => stage \in {"tls", "serving", "draining"}
      PROVE  IInv'
  <2>1. stage \in Stage
    BY DEF Served, Stage
  <2>2. /\ Become(g, stage, thread[g].settings, thread[g].key, thread[g].udp)
        /\ thread' \in [Generation -> Thread]
        /\ \A h \in Generation \ {g} : thread'[h] = thread[h]
    BY <1>3, <2>1, MoveStep DEF IInv
  <2>3. ThreadFrame(g)
    BY <1>2, <2>2 DEF ThreadFrame
  <2>4. /\ At(g)' = stage /\ thread'[g].settings = thread[g].settings
        /\ thread'[g].key = thread[g].key /\ thread'[g].udp = thread[g].udp
    BY <2>2 DEF Become, At
  <2>. QED  BY <1>1, <1>2, <1>3, <2>3, <2>4, ServingStep
<1>4. ASSUME End(g), At(g) \in Served PROVE IInv'
  <2>1. /\ Become(g, "ended", thread[g].settings, thread[g].key, FALSE)
        /\ thread' \in [Generation -> Thread]
        /\ \A h \in Generation \ {g} : thread'[h] = thread[h]
    BY <1>4, EndStep DEF IInv
  <2>2. ThreadFrame(g)
    BY <1>2, <2>1 DEF ThreadFrame
  <2>3. /\ At(g)' = "ended" /\ thread'[g].settings = thread[g].settings
        /\ thread'[g].key = thread[g].key /\ ~thread'[g].udp
    BY <2>1 DEF Become, At
  <2>. QED  BY <1>1, <1>2, <1>4, <2>2, <2>3, ServingStep
<1>5. thread[g].udp => At(g) \in {"tls", "serving", "draining"}
  BY DEF IInv, Responders
<1>6. CASE BindHttp(g)
  <2>1. At(g) = "http" /\ (End(g) \/ Move(g, "discovery"))
    BY <1>6 DEF BindHttp
  <2>. QED  BY <1>3, <1>4, <1>5, <2>1 DEF Served
<1>7. CASE StartDiscovery(g)
  <2>1. At(g) = "discovery"
    BY <1>7 DEF StartDiscovery
  <2>2. PICK b \in BOOLEAN :
          thread' = [thread EXCEPT ![g].at = "tls", ![g].udp = b]
    <3> DEFINE b == thread[g].settings.discovery /\ ~Bound("udp")
    <3>1. b \in BOOLEAN
      OBVIOUS
    <3>2. thread' = [thread EXCEPT ![g].at = "tls", ![g].udp = b]
      BY <1>7 DEF StartDiscovery
    <3> HIDE DEF b
    <3>. QED  BY <3>1, <3>2
  <2>3. /\ Become(g, "tls", thread[g].settings, thread[g].key, b)
        /\ thread' \in [Generation -> Thread]
        /\ \A h \in Generation \ {g} : thread'[h] = thread[h]
    BY <2>2, UdpStep DEF IInv
  <2>4. ThreadFrame(g)
    BY <1>2, <2>3 DEF ThreadFrame
  <2>5. /\ At(g)' = "tls" /\ thread'[g].settings = thread[g].settings
        /\ thread'[g].key = thread[g].key
    BY <2>3 DEF Become, At
  <2>. QED  BY <1>1, <1>2, <2>1, <2>4, <2>5, ServingStep DEF Served
<1>8. CASE BindTls(g)
  <2>1. At(g) = "tls" /\ (End(g) \/ Move(g, "serving"))
    BY <1>8 DEF BindTls
  <2>. QED  BY <1>3, <1>4, <2>1 DEF Served
<1>9. CASE Drain(g)
  <2>1. At(g) = "serving" /\ Move(g, "draining")
    BY <1>9 DEF Drain
  <2>. QED  BY <1>3, <2>1 DEF Served
<1>10. CASE Drained(g)
  BY <1>4, <1>10 DEF Drained, Served
<1>11. CASE Fail(g)
  BY <1>4, <1>11 DEF Fail, Served
<1>. QED  BY <1>6, <1>7, <1>8, <1>9, <1>10, <1>11

LEMMA AnswerInv ==
  ASSUME IInv, NEW g \in Generation, AnswerDiscovery(g) PROVE IInv'
<1>1. /\ thread[g].udp
      /\ advertised' = [settings |-> config, of |-> g, key |-> thread[g].key]
      /\ UNCHANGED <<config, disk, unseen, identity, keys, foreign, gen, active,
                     told, thread, popup, startupError, tray, restartedBy,
                     behind, raced, events>>
  BY DEF AnswerDiscovery, fileVars, serverVars, uiVars
<1>2. At(g) \in Served
  BY <1>1 DEF IInv, Responders, Served
<1>3. advertised' \in Answer
  BY <1>1, ThreadFields DEF IInv, TypeOK, Answer, Generation
<1>4. advertised'.of = g /\ advertised'.key = thread[g].key
  BY <1>1
<1>5. TypeOK'
  BY <1>1, <1>3 DEF IInv, TypeOK
<1>6. Identities'
  BY <1>1, <1>2, <1>4 DEF IInv, Identities, At
<1>7. /\ Generations' /\ OneServer' /\ Responders' /\ Popups' /\ Errors'
      /\ Settings'
  BY <1>1 DEF IInv, Generations, OneServer, Responders, Popups, Errors,
     Settings, At, Live, Restarting
<1>. QED  BY <1>5, <1>6, <1>7 DEF IInv

---------------------------------------------------------------------------
(* The steps of the event loop and of the outside world                     *)

\* The parts of the invariant, opened for steps that move no thread.
LEMMA StillThreads ==
  ASSUME IInv, UNCHANGED <<thread, gen>>, ~active' => At(gen) = "ended",
         Restarting' => gen < MAX_SERVERS
  PROVE  Generations' /\ OneServer' /\ Responders'
BY DEF IInv, Generations, OneServer, Responders, At, Live

LEMMA NoticeFailureInv ==
  ASSUME IInv, NoticeFailure PROVE IInv'
<1>1. /\ tray = "idle" /\ active /\ At(gen) = "ended" /\ active' = FALSE
      /\ startupError' = TRUE
      /\ UNCHANGED <<config, disk, unseen, identity, keys, foreign, gen, told,
                     thread, popup, tray, advertised, restartedBy, behind,
                     raced, events>>
  BY DEF NoticeFailure, fileVars, historyVars
<1>2. active' \in BOOLEAN /\ startupError' \in BOOLEAN
  BY <1>1, Zenon
<1>3. TypeOK'
  BY <1>1, <1>2 DEF IInv, TypeOK
<1>4. Generations' /\ OneServer' /\ Responders'
  BY <1>1, StillThreads DEF IInv, Restarting
<1>5. Popups' /\ Errors' /\ Settings'
  BY <1>1 DEF IInv, Popups, Errors, Settings
<1>6. Identities'
  BY <1>1 DEF IInv, Identities, At
<1>. QED  BY <1>3, <1>4, <1>5, <1>6 DEF IInv

LEMMA RespawnInv ==
  ASSUME IInv, Respawn PROVE IInv'
<1>1. /\ Restarting /\ (active => At(gen) = "ended")
      /\ gen' = gen + 1 /\ active' = TRUE
      /\ thread' = [thread EXCEPT ![gen + 1] = NewThread]
      /\ startupError' = (startupError /\ tray # "restart")
      /\ tray' = "idle" /\ restartedBy' = tray /\ behind' = FALSE
      /\ UNCHANGED <<config, disk, unseen, identity, keys, foreign, told, popup,
                     advertised, raced, events>>
  BY DEF Respawn, fileVars
<1>2. gen \in Nat /\ gen + 1 \in Generation /\ At(gen) = "ended"
  BY <1>1, BoundAssumption DEF IInv, Generations, TypeOK, Generation
<1>3. NewThread \in Thread /\ NewThread.at = "settings" /\ ~NewThread.udp
  BY SettingAssumption DEF NewThread, NoThread, Thread, Stage, NoKey
<1>4. /\ thread' \in [Generation -> Thread] /\ thread'[gen + 1] = NewThread
      /\ \A g \in Generation \ {gen + 1} : thread'[g] = thread[g]
  BY <1>1, <1>2, <1>3 DEF IInv, TypeOK
<1>5. TypeOK'
  <2>1. startupError' \in BOOLEAN /\ active' \in BOOLEAN /\ behind' \in BOOLEAN
    BY <1>1, Zenon
  <2>2. restartedBy' \in {"start", "restart", "resetRestart", "reload"}
    BY <1>1 DEF Restarting
  <2>. QED  BY <1>1, <1>2, <1>4, <2>1, <2>2 DEF IInv, TypeOK
<1>6. Generations'
  <2>1. \A g \in Generation : At(g)' = "none" <=> g > gen + 1
    BY <1>2, <1>3, <1>4 DEF IInv, Generations, At, Generation
  <2>. QED  BY <1>1, <2>1 DEF Generations, Restarting
<1>7. OneServer'
  BY <1>1, <1>2, <1>4 DEF IInv, OneServer, At, Live
<1>8. Responders'
  BY <1>3, <1>4 DEF IInv, Responders, At
<1>9. Popups' /\ Errors'
  <2>1. tray # "popup" /\ tray \in {"restart", "resetRestart", "reload"}
    BY <1>1 DEF Restarting
  <2>. QED  BY <1>1, <1>2, <2>1 DEF IInv, Popups, Errors, Building
<1>10. Settings'
  BY <1>1, <1>3, <1>4, <1>2 DEF Settings, At
<1>11. Identities'
  BY <1>1, <1>2, <1>3, <1>4 DEF IInv, Identities, At, Served
<1>. QED  BY <1>5, <1>6, <1>7, <1>8, <1>9, <1>10, <1>11 DEF IInv

LEMMA AskToStopType ==
  ASSUME TypeOK, NEW pc, AskToStop(pc)
  PROVE  told' \in [Generation -> BOOLEAN] /\ tray' = pc
BY DEF TypeOK, AskToStop

LEMMA NoPopupType == NoPopup \in Popup /\ NoPopup.at = "closed"
BY BoundAssumption DEF NoPopup, Popup, NoKey

LEMMA RestartConnectionInv ==
  ASSUME IInv, RestartConnection PROVE IInv'
<1>1. /\ tray = "idle" /\ gen < MAX_SERVERS /\ popup' = NoPopup
      /\ tray' = "restart" /\ told' \in [Generation -> BOOLEAN]
      /\ events' \in Nat
      /\ UNCHANGED <<config, disk, unseen, identity, keys, foreign, gen, active,
                     thread, startupError, advertised, restartedBy, behind,
                     raced>>
  BY AskToStopType DEF RestartConnection, fileVars, IInv, Event, TypeOK
<1>2. TypeOK'
  BY <1>1, NoPopupType DEF IInv, TypeOK
<1>3. Generations' /\ OneServer' /\ Responders'
  BY <1>1, StillThreads DEF IInv, Generations
<1>4. Popups' /\ Errors' /\ Settings'
  BY <1>1, NoPopupType DEF IInv, Popups, Errors, Settings, Building
<1>5. Identities'
  BY <1>1, NoPopupType DEF IInv, Identities, At
<1>. QED  BY <1>2, <1>3, <1>4, <1>5 DEF IInv

LEMMA ResetCompanionInv ==
  ASSUME IInv, ResetCompanion PROVE IInv'
<1>1. /\ tray = "idle" /\ gen < MAX_SERVERS /\ popup' = NoPopup
      /\ config' = Default /\ events' \in Nat
      /\ UNCHANGED <<identity, keys, foreign, gen, active, thread, startupError,
                     advertised, restartedBy, raced>>
  BY DEF ResetCompanion, IInv, Event, TypeOK
<1>2. /\ disk' \in Setting /\ unseen' \in BOOLEAN /\ behind' \in BOOLEAN
      /\ told' \in [Generation -> BOOLEAN] /\ tray' \in {"idle", "resetRestart"}
      /\ tray' = "idle" => behind' \/ config = Default
      /\ behind => behind'
  <2>1. CASE /\ disk' = Default /\ unseen' = TRUE /\ UNCHANGED behind
             /\ IF config = Default THEN UNCHANGED <<told, tray>>
                ELSE AskToStop("resetRestart")
    <3>1. unseen' \in BOOLEAN
      BY <2>1, Zenon
    <3>. QED
      BY <1>1, <2>1, <3>1, AskToStopType, SettingAssumption DEF IInv, TypeOK
  <2>2. CASE /\ behind' = (behind \/ config # Default)
             /\ \/ disk' = Default /\ unseen' = TRUE
                \/ UNCHANGED <<disk, unseen>>
             /\ UNCHANGED <<told, tray>>
    <3>1. behind' \in BOOLEAN
      BY <2>2, Zenon
    <3>2. disk' \in Setting
      BY <2>2, SettingAssumption DEF IInv, TypeOK
    <3>3. unseen' \in BOOLEAN
      BY <2>2, Zenon DEF IInv, TypeOK
    <3>. QED  BY <1>1, <2>2, <3>1, <3>2, <3>3 DEF IInv, TypeOK
  <2>. QED  BY <2>1, <2>2 DEF ResetCompanion
<1>3. TypeOK'
  BY <1>1, <1>2, NoPopupType, SettingAssumption DEF IInv, TypeOK
<1>4. Generations' /\ OneServer' /\ Responders'
  BY <1>1, StillThreads DEF IInv, Generations
<1>5. Popups' /\ Errors'
  BY <1>1, <1>2, NoPopupType DEF IInv, Popups, Errors, Building
<1>6. Settings'
  BY <1>1, <1>2 DEF IInv, Settings, At
<1>7. Identities'
  BY <1>1, NoPopupType DEF IInv, Identities, At
<1>. QED  BY <1>3, <1>4, <1>5, <1>6, <1>7 DEF IInv

LEMMA ReloadConfigInv ==
  ASSUME IInv, ReloadConfig PROVE IInv'
<1>1. /\ tray = "idle" /\ gen < MAX_SERVERS /\ config' = disk
      /\ UNCHANGED <<disk, unseen, identity, keys, foreign, gen, active, thread,
                     popup, startupError, advertised, restartedBy, raced>>
  BY DEF ReloadConfig, fileVars
<1>2. /\ behind' \in BOOLEAN /\ events' \in Nat
      /\ told' \in [Generation -> BOOLEAN] /\ tray' \in {"idle", "reload"}
      /\ tray' = "idle" => behind'
  <2>1. CASE AskToStop("reload") /\ UNCHANGED <<behind, events>>
    BY <2>1, AskToStopType DEF IInv, TypeOK
  <2>2. CASE Event /\ behind' = TRUE /\ UNCHANGED <<told, tray>>
    <3>1. behind' \in BOOLEAN
      BY <2>2, Zenon
    <3>. QED  BY <1>1, <2>2, <3>1 DEF IInv, TypeOK, Event
  <2>. QED  BY <2>1, <2>2 DEF ReloadConfig
<1>3. TypeOK'
  BY <1>1, <1>2 DEF IInv, TypeOK
<1>4. Generations' /\ OneServer' /\ Responders'
  BY <1>1, StillThreads DEF IInv, Generations
<1>5. Popups' /\ Errors'
  BY <1>1, <1>2 DEF IInv, Popups, Errors, Building
<1>6. Settings'
  BY <1>1, <1>2 DEF IInv, Settings, At
<1>7. Identities'
  BY <1>1 DEF IInv, Identities, At
<1>. QED  BY <1>3, <1>4, <1>5, <1>6, <1>7 DEF IInv

LEMMA PopupFields ==
  ASSUME TypeOK
  PROVE  /\ popup.at \in {"closed", "identity", "create", "open"}
         /\ popup.of \in 0..MAX_SERVERS /\ popup.key \in Nat
         /\ \A a \in {"closed", "identity", "create", "open"}, k \in Nat :
              /\ [popup EXCEPT !.at = a, !.key = k] \in Popup
              /\ [popup EXCEPT !.at = a, !.key = k].at = a
              /\ [popup EXCEPT !.at = a, !.key = k].of = popup.of
              /\ [popup EXCEPT !.at = a, !.key = k].key = k
              /\ [popup EXCEPT !.at = a] \in Popup
              /\ [popup EXCEPT !.at = a].at = a
              /\ [popup EXCEPT !.at = a].of = popup.of
              /\ [popup EXCEPT !.at = a].key = popup.key
BY DEF TypeOK, Popup

\* What the popup's steps leave alone, and what they share.
LEMMA PopupStep ==
  ASSUME IInv, popup' \in Popup,
         UNCHANGED <<config, disk, unseen, foreign, gen, active, told, thread,
                     startupError, advertised, restartedBy, behind>>,
         tray \in {"idle", "popup"}, tray' \in {"idle", "popup"},
         identity' \in Nat \cup {Unreadable}, keys' \in Nat,
         raced' \in BOOLEAN, events' \in Nat,
         popup'.at = "closed" \/ popup'.of = gen,
         popup'.at \in Building => tray' = "popup"
  PROVE  /\ TypeOK' /\ Generations' /\ OneServer' /\ Responders' /\ Popups'
         /\ Errors' /\ Settings'
<1>1. TypeOK'
  BY DEF IInv, TypeOK
<1>2. Generations' /\ OneServer' /\ Responders'
  BY StillThreads DEF IInv, Generations, Restarting
<1>3. Popups' /\ Errors'
  BY DEF IInv, Popups, Errors, Building
<1>4. Settings'
  BY DEF IInv, Settings, At
<1>. QED  BY <1>1, <1>2, <1>3, <1>4

LEMMA TogglePopupInv ==
  ASSUME IInv, TogglePopup PROVE IInv'
<1>1. /\ tray = "idle" /\ events' \in Nat
      /\ UNCHANGED <<config, disk, unseen, identity, keys, foreign, gen, active,
                     told, thread, startupError, advertised, restartedBy,
                     behind, raced>>
  BY DEF TogglePopup, IInv, TypeOK, Event, fileVars, serverVars
<1>2. /\ identity' \in Nat \cup {Unreadable} /\ keys' \in Nat /\ raced' \in BOOLEAN
  BY <1>1 DEF IInv, TypeOK
<1>3. CASE popup' = NoPopup /\ UNCHANGED tray
  <2>1. Identities'
    BY <1>1, <1>3, NoPopupType DEF IInv, Identities, At
  <2>. QED
    BY <1>1, <1>2, <1>3, <2>1, NoPopupType, PopupStep DEF IInv, Building
<1>4. CASE /\ popup' = [at |-> "identity", of |-> gen, key |-> NoKey]
           /\ tray' = "popup"
  <2>1. popup' \in Popup /\ popup'.at = "identity" /\ popup'.of = gen
    BY <1>4, BoundAssumption DEF IInv, TypeOK, Generation, Popup, NoKey
  <2>2. Identities'
    BY <1>1, <2>1 DEF IInv, Identities, At
  <2>. QED  BY <1>1, <1>2, <1>4, <2>1, <2>2, PopupStep DEF IInv
<1>. QED  BY <1>3, <1>4 DEF TogglePopup

LEMMA PopupLoadInv ==
  ASSUME IInv, PopupLoad PROVE IInv'
<1>1. /\ popup.at = "identity" /\ tray = "popup" /\ popup.of = gen
      /\ UNCHANGED <<config, disk, unseen, identity, foreign, gen, active, told,
                     thread, startupError, advertised, restartedBy, behind,
                     events>>
  BY DEF PopupLoad, IInv, Popups, Building, serverVars
<1>2. /\ identity \in Nat \cup {Unreadable} /\ keys \in Nat /\ events \in Nat
      /\ raced \in BOOLEAN
  BY DEF IInv, TypeOK
<1>3. CASE identity = NoKey
  <2>1. /\ keys' = keys + 1 /\ UNCHANGED tray
        /\ popup' = [popup EXCEPT !.at = "create", !.key = keys + 1]
        /\ raced' = (raced \/ \E g \in Generation : At(g) = "create")
    BY <1>3 DEF PopupLoad, NoKey, Unreadable
  <2>2. /\ keys' \in Nat /\ keys + 1 # NoKey /\ identity # Unreadable
        /\ raced' \in BOOLEAN
    BY <1>2, <1>3, <2>1 DEF NoKey, Unreadable
  <2>3. /\ popup' \in Popup /\ popup'.at = "create" /\ popup'.of = gen
        /\ popup'.key = keys + 1
    BY <1>1, <2>1, <2>2, PopupFields DEF IInv
  <2>4. Identities'
    BY <1>1, <1>3, <2>1, <2>2, <2>3 DEF IInv, Identities, At
  <2>. QED  BY <1>1, <1>2, <2>1, <2>2, <2>3, <2>4, PopupStep DEF IInv
<1>4. CASE identity = Unreadable
  <2>1. popup' = NoPopup /\ tray' = "idle" /\ UNCHANGED <<keys, raced>>
    BY <1>4 DEF PopupLoad, NoKey, Unreadable
  <2>2. Identities'
    BY <1>1, <2>1, NoPopupType DEF IInv, Identities, At
  <2>. QED
    BY <1>1, <1>2, <2>1, <2>2, NoPopupType, PopupStep DEF IInv, Building
<1>5. CASE identity \notin {NoKey, Unreadable}
  <2>1. /\ popup' = [popup EXCEPT !.at = "open", !.key = identity]
        /\ tray' = "idle" /\ UNCHANGED <<keys, raced>>
    BY <1>5 DEF PopupLoad
  <2>2. /\ popup' \in Popup /\ popup'.at = "open" /\ popup'.of = gen
        /\ popup'.key = identity
    BY <1>1, <1>2, <1>5, <2>1, PopupFields DEF IInv
  <2>3. Identities'
    BY <1>1, <1>5, <2>1, <2>2 DEF IInv, Identities, At
  <2>. QED
    BY <1>1, <1>2, <2>1, <2>2, <2>3, PopupStep DEF IInv, Building
<1>. QED  BY <1>3, <1>4, <1>5

LEMMA PopupSaveInv ==
  ASSUME IInv, PopupSave PROVE IInv'
<1>1. /\ popup.at = "create" /\ tray = "popup" /\ popup.of = gen
      /\ tray' = "idle"
      /\ UNCHANGED <<config, disk, unseen, keys, foreign, gen, active, told,
                     thread, startupError, advertised, restartedBy, behind,
                     raced>>
  BY DEF PopupSave, IInv, Popups, Building, serverVars
<1>2. /\ identity \in Nat /\ keys \in Nat /\ events \in Nat
      /\ raced \in BOOLEAN /\ popup.key \in Nat /\ popup.key # NoKey
      /\ identity # Unreadable
  BY <1>1, PopupFields DEF IInv, TypeOK, Identities
<1>3. CASE /\ identity' = popup.key /\ popup' = [popup EXCEPT !.at = "open"]
           /\ UNCHANGED events
  <2>1. /\ popup' \in Popup /\ popup'.at = "open" /\ popup'.of = gen
        /\ popup'.key = popup.key
    BY <1>1, <1>2, <1>3, PopupFields DEF IInv
  <2>2. identity' # Unreadable
    BY <1>2, <1>3 DEF Unreadable
  <2>3. ~raced => /\ \A g \in Generation : At(g) \notin {"create"} \cup Served
                  /\ advertised.of = 0
    BY <1>1 DEF IInv, Identities
  <2>4. Identities'
    BY <1>1, <1>2, <1>3, <2>1, <2>2, <2>3 DEF IInv, Identities, At
  <2>. QED
    BY <1>1, <1>2, <1>3, <2>1, <2>4, PopupStep DEF IInv, Building
<1>4. ASSUME Event, UNCHANGED identity,
             popup' = IF identity = NoKey THEN NoPopup
                      ELSE [popup EXCEPT !.at = "open", !.key = identity]
      PROVE  IInv'
  <2>1. events' \in Nat
    BY <1>2, <1>4 DEF Event
  <2>2. CASE identity = NoKey
    <3>1. Identities'
      BY <1>1, <1>4, <2>2, NoPopupType DEF IInv, Identities, At
    <3>. QED
      BY <1>1, <1>2, <1>4, <2>1, <2>2, <3>1, NoPopupType, PopupStep
         DEF IInv, Building
  <2>3. CASE identity # NoKey
    <3>1. /\ popup' \in Popup /\ popup'.at = "open" /\ popup'.of = gen
          /\ popup'.key = identity
      BY <1>1, <1>2, <1>4, <2>3, PopupFields DEF IInv
    <3>2. Identities'
      BY <1>1, <1>2, <1>4, <2>3, <3>1 DEF IInv, Identities, At
    <3>. QED
      BY <1>1, <1>2, <1>4, <2>1, <3>1, <3>2, PopupStep DEF IInv, Building
  <2>. QED  BY <2>2, <2>3
<1>. QED  BY <1>3, <1>4 DEF PopupSave

LEMMA DismissPopupInv ==
  ASSUME IInv, DismissPopup PROVE IInv'
<1>1. /\ tray = "idle" /\ popup' = NoPopup
      /\ UNCHANGED <<config, disk, unseen, identity, keys, foreign, gen, active,
                     told, thread, startupError, tray, advertised, restartedBy,
                     behind, raced, events>>
  BY DEF DismissPopup, fileVars, serverVars, historyVars
<1>2. /\ identity' \in Nat \cup {Unreadable} /\ keys' \in Nat
      /\ raced' \in BOOLEAN /\ events' \in Nat
  BY <1>1 DEF IInv, TypeOK
<1>3. Identities'
  BY <1>1, NoPopupType DEF IInv, Identities, At
<1>. QED
  BY <1>1, <1>2, <1>3, NoPopupType, PopupStep DEF IInv, Building

LEMMA QuitInv ==
  ASSUME IInv, Quit PROVE IInv'
<1>1. /\ tray = "idle" /\ popup' = NoPopup /\ tray' = "exit"
      /\ told' \in [Generation -> BOOLEAN]
      /\ UNCHANGED <<config, disk, unseen, identity, keys, foreign, gen, active,
                     thread, startupError, advertised, restartedBy, behind,
                     raced, events>>
  BY AskToStopType DEF Quit, IInv, fileVars, historyVars
<1>2. TypeOK'
  BY <1>1, NoPopupType DEF IInv, TypeOK
<1>3. Generations' /\ OneServer' /\ Responders'
  BY <1>1, StillThreads DEF IInv, Generations, Restarting
<1>4. Popups' /\ Errors' /\ Settings'
  BY <1>1, NoPopupType DEF IInv, Popups, Errors, Settings, Building
<1>5. Identities'
  BY <1>1, NoPopupType DEF IInv, Identities, At
<1>. QED  BY <1>2, <1>3, <1>4, <1>5 DEF IInv

LEMMA ExitInv ==
  ASSUME IInv, Exit PROVE IInv'
<1>1. /\ tray = "exit" /\ tray' = "gone" /\ active' = FALSE
      /\ thread' = [g \in Generation |->
           IF Live(g) THEN [thread[g] EXCEPT !.at = "ended", !.udp = FALSE]
           ELSE thread[g]]
      /\ UNCHANGED <<config, disk, unseen, identity, keys, foreign, gen, told,
                     popup, startupError, advertised, restartedBy, behind,
                     raced, events>>
  BY DEF Exit, fileVars, historyVars
<1>2. /\ thread' \in [Generation -> Thread]
      /\ \A g \in Generation : Live(g) => At(g)' = "ended" /\ ~thread'[g].udp
      /\ \A g \in Generation : ~Live(g) => thread'[g] = thread[g]
  BY <1>1, ThreadFields DEF IInv, TypeOK, Thread, Stage, At
<1>3. active' \in BOOLEAN
  BY <1>1, Zenon
<1>4. TypeOK'
  BY <1>1, <1>2, <1>3 DEF IInv, TypeOK
<1>5. Generations'
  <2>1. gen \in Generation /\ At(gen) # "none"
    <3>1. gen \in Generation /\ ~(gen > gen)
      BY DEF IInv, TypeOK, Generation
    <3>. QED  BY <3>1 DEF IInv, Generations
  <2>2. At(gen)' = "ended"
    BY <1>1, <1>2, <2>1 DEF Live, At
  <2>3. \A g \in Generation : At(g)' = "none" <=> At(g) = "none"
    BY <1>2 DEF Live, At
  <2>. QED  BY <1>1, <2>2, <2>3 DEF IInv, Generations, Restarting, At
<1>6. OneServer' /\ Responders'
  BY <1>1, <1>2 DEF IInv, OneServer, Responders, Live, At
<1>7. Popups' /\ Errors' /\ Settings'
  BY <1>1 DEF IInv, Popups, Errors, Settings, Building
<1>8. Identities'
  <2>1. \A g \in Generation : At(g)' \in {"create"} \cup Served => thread'[g] = thread[g]
    BY <1>2 DEF Served
  <2>. QED  BY <1>1, <2>1 DEF IInv, Identities, At
<1>. QED  BY <1>4, <1>5, <1>6, <1>7, <1>8 DEF IInv

\* An edit of the file, a port that is taken or given back.
LEMMA OutsideInv ==
  ASSUME IInv, EditConfig \/ OccupyPort \/ ReleasePort PROVE IInv'
<1>1. UNCHANGED <<config, identity, keys, gen, active, told, thread, popup,
                  startupError, tray, advertised, restartedBy, behind, raced>>
  BY DEF EditConfig, OccupyPort, ReleasePort, serverVars, uiVars, historyVars
<1>2. /\ disk' \in Setting /\ unseen' \in BOOLEAN /\ foreign' \in SUBSET Ports
      /\ events' \in Nat
  <2>1. CASE EditConfig
    <3>1. unseen' \in BOOLEAN
      BY <2>1, Zenon DEF EditConfig
    <3>. QED  BY <2>1, <3>1 DEF EditConfig, IInv, TypeOK, Event
  <2>2. CASE OccupyPort
    BY <2>2 DEF OccupyPort, IInv, TypeOK, Event
  <2>3. CASE ReleasePort
    BY <2>3 DEF ReleasePort, IInv, TypeOK, historyVars
  <2>. QED  BY <2>1, <2>2, <2>3
<1>3. TypeOK'
  BY <1>1, <1>2 DEF IInv, TypeOK
<1>4. Generations' /\ OneServer' /\ Responders'
  BY <1>1, StillThreads DEF IInv, Generations, Restarting
<1>5. Popups' /\ Errors' /\ Settings' /\ Identities'
  BY <1>1 DEF IInv, Popups, Errors, Settings, Identities, At
<1>. QED  BY <1>3, <1>4, <1>5 DEF IInv

---------------------------------------------------------------------------
(* The theorems                                                             *)

LEMMA InitInv == Init => IInv
<1> SUFFICES ASSUME Init PROVE IInv
  OBVIOUS
<1>1. NewThread \in Thread /\ NoThread \in Thread /\ NewThread.at = "settings"
      /\ NoThread.at = "none" /\ ~NewThread.udp /\ ~NoThread.udp
  BY SettingAssumption DEF NewThread, NoThread, Thread, Stage, NoKey
<1>2. /\ thread \in [Generation -> Thread] /\ 1 \in Generation /\ gen = 1
      /\ \A g \in Generation : At(g) = IF g = 1 THEN "settings" ELSE "none"
      /\ \A g \in Generation : ~thread[g].udp
  BY <1>1, BoundAssumption DEF Init, Generation, At
<1>3. advertised \in Answer /\ advertised.of = 0
  BY SettingAssumption, BoundAssumption DEF Init, Answer, NoKey
<1>4. TypeOK
  <2>1. /\ unseen \in BOOLEAN /\ active \in BOOLEAN /\ startupError \in BOOLEAN
        /\ behind \in BOOLEAN /\ raced \in BOOLEAN
    BY Zenon DEF Init
  <2>2. /\ config \in Setting /\ disk \in Setting /\ foreign \in SUBSET Ports
        /\ identity \in Nat \cup {Unreadable} /\ keys \in Nat /\ events \in Nat
        /\ told \in [Generation -> BOOLEAN]
    BY DEF Init, NoKey
  <2>3. /\ tray = "idle" /\ restartedBy = "start" /\ popup \in Popup
    BY NoPopupType DEF Init
  <2>. QED  BY <1>2, <1>3, <2>1, <2>2, <2>3 DEF TypeOK
<1>5. Generations
  BY <1>2 DEF Init, Generations, Restarting, Generation
<1>6. OneServer /\ Responders
  BY <1>2 DEF OneServer, Responders, Live
<1>7. Popups /\ Errors /\ Settings
  BY <1>2, NoPopupType DEF Init, Popups, Errors, Settings, Building
<1>8. Identities
  BY <1>2, <1>3, NoPopupType DEF Init, Identities, Served
<1>. QED  BY <1>4, <1>5, <1>6, <1>7, <1>8 DEF IInv

LEMMA NextInv == IInv /\ [Next]_vars => IInv'
<1> SUFFICES ASSUME IInv, [Next]_vars PROVE IInv'
  OBVIOUS
<1>1. ASSUME NEW g \in Generation, RunServer(g) \/ Fail(g) \/ AnswerDiscovery(g)
      PROVE  IInv'
  BY <1>1, TakeSettingsInv, LoadIdentityInv, SaveIdentityInv, ListenInv,
     AnswerInv DEF RunServer
<1>2. CASE EventLoop
  BY <1>2, NoticeFailureInv, ReloadConfigInv, RespawnInv, PopupLoadInv,
     PopupSaveInv, ExitInv DEF EventLoop
<1>3. CASE Menu
  BY <1>3, RestartConnectionInv, ResetCompanionInv, TogglePopupInv,
     DismissPopupInv, QuitInv DEF Menu
<1>4. CASE EditConfig \/ OccupyPort \/ ReleasePort
  BY <1>4, OutsideInv
<1>5. CASE UNCHANGED vars
  <2>1. UNCHANGED <<config, disk, unseen, identity, keys, foreign, gen, active,
                    told, thread, popup, startupError, tray, advertised,
                    restartedBy, behind, raced, events>>
    BY <1>5 DEF vars, fileVars, serverVars, uiVars, historyVars
  <2>2. TypeOK'
    BY <2>1 DEF IInv, TypeOK
  <2>3. Generations' /\ OneServer' /\ Responders'
    BY <2>1, StillThreads DEF IInv, Generations, Restarting
  <2>4. Popups' /\ Errors' /\ Settings' /\ Identities'
    BY <2>1 DEF IInv, Popups, Errors, Settings, Identities, At
  <2>. QED  BY <2>2, <2>3, <2>4 DEF IInv
<1>. QED  BY <1>1, <1>2, <1>3, <1>4, <1>5 DEF Next

LEMMA Invariance == Spec => []IInv
BY InitInv, NextInv, PTL DEF Spec

\* The variables of the tray and of its server runs keep their types.
THEOREM ServingTypeCorrect == Spec => []TypeOK
<1>1. IInv => TypeOK
  BY DEF IInv
<1>. QED  BY <1>1, Invariance, PTL

\* However often the tray restarts its server and whatever fails, there is one
\* server thread at most (ServerThread::restart).
THEOREM OneServerThread == Spec => []OneServer
<1>1. IInv => OneServer
  BY DEF IInv
<1>. QED  BY <1>1, Invariance, PTL

\* A running server has the settings of the tray, whatever is edited or reset
\* and whenever (restart after reset_companion and reload_config_if_changed).
THEOREM CurrentSettingsServed == Spec => []ServerRunsCurrentSettings
<1>1. IInv => ServerRunsCurrentSettings
  BY DEF IInv, Settings, ServerRunsCurrentSettings, Live
<1>. QED  BY <1>1, Invariance, PTL

\* The fingerprint on the screen and the one that discovery answers carried
\* are the running server's, but for two creations at once (TlsIdentity).
THEOREM PinIsServed == Spec => []PinShownIsServed
<1>1. IInv => PinShownIsServed
  BY DEF IInv, Identities, PinShownIsServed, Served
<1>. QED  BY <1>1, Invariance, PTL

\* A Restart Connection leaves no error and no QR code of an older server
\* (restart_connection).
THEOREM RestartClearsUp == Spec => []NothingStaleAfterRestart
<1>1. IInv => NothingStaleAfterRestart
  BY DEF IInv, Popups, Errors, NothingStaleAfterRestart
<1>. QED  BY <1>1, Invariance, PTL
=============================================================================
