-------------------------- MODULE PersistenceProofs --------------------------
(* Proofs about Persistence, for every number of processes and devices, of  *)
(* events and of refused accesses.                                          *)
EXTENDS Persistence, TLAPS

Loading(p) == task[p].op \in {"start", "prepare", "reload"}

\* The operations under way, by where the main thread stands.
Placed(p) ==
  /\ At(p) \in {"read", "lock", "registry", "posture", "assign"} => Loading(p)
  /\ At(p) \in {"hydrate", "store", "save"} => Loading(p) \/ task[p].op = "reset"
  /\ At(p) \in {"lock", "registry"} => task[p].op = "start"
  /\ At(p) = "posture" => task[p].op = "prepare"
  /\ At(p) = "assign" => task[p].op = "reload"
  /\ At(p) \in {"rotateSave", "rotateRevoke"} => task[p].op = "rotate"
  /\ At(p) = "resetDelete" => task[p].op = "reset"
  /\ At(p) \in {"off", "idle"} <=> task[p].op = "none"
Places == \A p \in Process : Placed(p) /\ (approving[p] > 0 => Running(p))

\* While the lock works, only its holder runs a tray.
OneTray ==
  "lock" \notin mishap =>
    \A p \in Process : Running(p) \/ At(p) = "registry" => instance = p

Control == TypeOK /\ Places /\ OneTray

\* The capabilities: in the file, in a tray, and in a load that is not stale.
Excused ==
  mishap \cap {"config", "config race", "damage", "missed change", "lock",
               "capability edit"} # {}
GrantsOnDisk ==
  /\ file # Corrupt
  /\ file = Missing => ~granted
  /\ file \in Config => file.granted = granted
GrantsOf(p) ==
  /\ Running(p) => memory[p].granted = granted
  /\ Loading(p) /\ At(p) # "read" /\ ~task[p].stale =>
       task[p].draft.granted = granted
  /\ task[p].op = "reset" => ~task[p].draft.granted
GrantsFollow == Excused \/ (GrantsOnDisk /\ \A p \in Process : GrantsOf(p))

\* The tokens: none is unborn, those of trays and of loads are real ...
StoresBorn ==
  /\ keyring <= minted
  /\ \A t \in retired : 0 < t /\ t <= minted
  /\ file \in Config => file.token <= minted
BornOf(p) ==
  /\ memory[p].token <= minted
  /\ task[p].draft.token <= minted /\ task[p].before.token <= minted
  /\ Running(p) => memory[p].token > 0
  /\ ConfigLocked(p) => task[p].before.token > 0
  /\ At(p) \in {"store", "save", "posture", "lock", "registry", "assign"} =>
       task[p].draft.token > 0
  /\ task[p].op = "reset" /\ At(p) \in {"resetDelete", "hydrate"} =>
       task[p].draft.token = 0
TokensBorn == StoresBorn /\ \A p \in Process : BornOf(p)

\* ... and a retired one is nowhere but in loads that began before.
Pardoned ==
  mishap \cap {"credential", "credential race", "missed change", "lock"} # {}
StoresClean ==
  /\ keyring \notin retired
  /\ retired # {} /\ file \in Config => file.token = 0
CleanOf(p) ==
  /\ Running(p) => memory[p].storage = "keyring" /\ memory[p].token \notin retired
  /\ ConfigLocked(p) => keyring # task[p].before.token
  /\ At(p) = "rotateSave" => memory[p].token # task[p].before.token
  /\ At(p) \in {"save", "posture", "lock", "registry", "assign"} =>
       task[p].draft.storage = "keyring"
  /\ task[p].op \in {"start", "prepare"} /\ task[p].draft.token \in retired =>
       task[p].stale
  /\ task[p].op \in {"reload", "reset"} => task[p].draft.token \notin retired
  /\ task[p].op = "reset" /\ At(p) \in {"store", "save"} =>
       task[p].draft.token # task[p].before.token
RetiredGone == Pardoned \/ (StoresClean /\ \A p \in Process : CleanOf(p))

IInv ==
  Control /\ RegistryIsDurable /\ GrantsFollow /\ TokensBorn /\ RetiredGone

---------------------------------------------------------------------------
(* Records and the steps of a task, field by field                          *)

LEMMA ConfigFields ==
  ASSUME NEW c \in Config
  PROVE  /\ c.token \in Nat /\ c.storage \in {"keyring", "file"}
         /\ c.reachable \in BOOLEAN /\ c.launch \in BOOLEAN /\ c.granted \in BOOLEAN
BY DEF Config

LEMMA ConfigToken ==
  ASSUME NEW c \in Config, NEW t \in Nat, NEW s \in {"keyring", "file"}
  PROVE  LET d == [c EXCEPT !.token = t, !.storage = s]
         IN d \in Config /\ d.token = t /\ d.storage = s /\ d.granted = c.granted
BY DEF Config

LEMMA DefaultFields ==
  /\ Default \in Config /\ Default.token = 0 /\ ~Default.granted
  /\ Default.storage = "file"
BY DEF Default, Config, NoToken

LEMMA PostureFields ==
  ASSUME NEW c \in Config
  PROVE  /\ InstallPosture(c) \in Config /\ InstallPosture(c).token = c.token
         /\ InstallPosture(c).storage = c.storage
         /\ InstallPosture(c).granted = c.granted
BY DEF InstallPosture, Config

LEMMA OnDiskFields ==
  ASSUME NEW c \in Config
  PROVE  /\ OnDisk(c) \in Config /\ OnDisk(c).granted = c.granted
         /\ c.storage = "keyring" => OnDisk(c).token = 0
         /\ OnDisk(c).token \in {0, c.token}
BY DEF OnDisk, Config, NoToken

\* What another process's step leaves of a task: only stale may be set.
Same(q) ==
  /\ task'[q].op = task[q].op /\ task'[q].at = task[q].at
  /\ task'[q].draft = task[q].draft /\ task'[q].before = task[q].before
  /\ task[q].stale => task'[q].stale

LEMMA TaskFields ==
  ASSUME TypeOK, NEW p \in Process
  PROVE  /\ task[p] \in Task
         /\ task[p].op \in {"none", "start", "prepare", "reload", "rotate", "reset"}
         /\ task[p].at \in PC /\ task[p].draft \in Config
         /\ task[p].before \in Config /\ task[p].recovered \in BOOLEAN
         /\ task[p].stale \in BOOLEAN
BY DEF TypeOK, Task

LEMMA TokenTypes ==
  ASSUME TypeOK, NEW p \in Process
  PROVE  /\ task[p].draft.token \in Nat /\ task[p].before.token \in Nat
         /\ memory[p].token \in Nat
<1>1. task[p].draft \in Config /\ task[p].before \in Config /\ memory[p] \in Config
  BY TaskFields DEF TypeOK
<1>. QED  BY <1>1, ConfigFields

LEMMA NewTaskFields ==
  ASSUME NEW o \in {"none", "start", "prepare", "reload", "rotate", "reset"},
         NEW pc \in PC, NEW c \in Config
  PROVE  /\ NewTask(o, pc, c) \in Task
         /\ NewTask(o, pc, c).op = o /\ NewTask(o, pc, c).at = pc
         /\ NewTask(o, pc, c).draft = Default /\ NewTask(o, pc, c).before = c
         /\ ~NewTask(o, pc, c).stale
BY DefaultFields DEF NewTask, Task

LEMMA IdleFields ==
  /\ Idle \in Task /\ Idle.op = "none" /\ Idle.at = "idle" /\ Idle.draft = Default
  /\ Idle.before = Default
  /\ Off \in Task /\ Off.op = "none" /\ Off.at = "off" /\ Off.draft = Default
  /\ Off.before = Default
<1>1. "idle" \in PC /\ "off" \in PC /\ Default \in Config
  BY DefaultFields DEF PC
<1>. QED  BY <1>1, NewTaskFields DEF Idle, Off

LEMMA StepFacts ==
  ASSUME TypeOK, NEW p \in Process, NEW t \in Task, Step(p, t)
  PROVE  /\ task' \in [Process -> Task] /\ task'[p] = t
         /\ \A q \in Process \ {p} : Same(q)
BY DEF TypeOK, Step, Same

LEMMA OutdatedFields ==
  ASSUME NEW t \in Task
  PROVE  /\ Outdated(t) \in Task
         /\ Outdated(t).op = t.op /\ Outdated(t).at = t.at
         /\ Outdated(t).draft = t.draft /\ Outdated(t).before = t.before
         /\ t.stale => Outdated(t).stale
         /\ t.op \in {"start", "prepare", "reload"} => Outdated(t).stale
BY DEF Outdated, Task

LEMMA ChangeFacts ==
  ASSUME TypeOK, NEW p \in Process, NEW t \in Task, ChangeStep(p, t)
  PROVE  /\ task' \in [Process -> Task] /\ task'[p] = t
         /\ \A q \in Process \ {p} : Same(q) /\ (Loading(q) => task'[q].stale)
<1>1. /\ task' = [q \in Process |-> IF q = p THEN t ELSE Outdated(task[q])]
      /\ \A q \in Process : task[q] \in Task
  BY DEF ChangeStep, TypeOK
<1>2. \A q \in Process : Outdated(task[q]) \in Task
  BY <1>1, OutdatedFields
<1>. QED
  BY <1>1, <1>2, OutdatedFields DEF Same, Loading

LEMMA AtFields ==
  ASSUME TypeOK, NEW p \in Process, NEW pc \in PC
  PROVE  LET t == [task[p] EXCEPT !.at = pc]
         IN /\ t \in Task /\ t.op = task[p].op /\ t.at = pc
            /\ t.draft = task[p].draft /\ t.before = task[p].before
            /\ t.stale = task[p].stale
BY DEF TypeOK, Task

LEMMA KeyringFields ==
  ASSUME TypeOK, NEW p \in Process, NEW n \in Nat
  PROVE  LET t == [task[p] EXCEPT !.at = "save", !.draft.token = n,
                                  !.draft.storage = "keyring"]
         IN /\ t \in Task /\ t.op = task[p].op /\ t.at = "save"
            /\ t.draft.token = n /\ t.draft.storage = "keyring"
            /\ t.draft.granted = task[p].draft.granted
            /\ t.before = task[p].before /\ t.stale = task[p].stale
<1> DEFINE d == [task[p].draft EXCEPT !.token = n, !.storage = "keyring"]
           t == [task[p] EXCEPT !.at = "save", !.draft.token = n,
                                  !.draft.storage = "keyring"]
<1>1. d \in Config /\ d.granted = task[p].draft.granted
      /\ d.token = n /\ d.storage = "keyring"
  BY TaskFields DEF Config
<1>2. task[p] \in Task
  BY TaskFields
<1>3. t = [[task[p] EXCEPT !.draft = d] EXCEPT !.at = t.at]
  BY <1>2 DEF Task
<1> HIDE DEF d
<1>4. [task[p] EXCEPT !.draft = d] \in Task
  BY <1>1, <1>2 DEF Task
<1>. QED  BY <1>1, <1>2, <1>3, <1>4 DEF Task, PC, LoadPC

LEMMA MintFields ==
  ASSUME TypeOK, NEW p \in Process, NEW n \in Nat
  PROVE  LET t == [task[p] EXCEPT !.at = "store", !.draft.token = n]
         IN /\ t \in Task /\ t.op = task[p].op /\ t.at = "store"
            /\ t.draft.token = n /\ t.draft.granted = task[p].draft.granted
            /\ t.before = task[p].before /\ t.stale = task[p].stale
<1> DEFINE d == [task[p].draft EXCEPT !.token = n]
           t == [task[p] EXCEPT !.at = "store", !.draft.token = n]
<1>1. d \in Config /\ d.granted = task[p].draft.granted
      /\ d.token = n /\ d.storage = task[p].draft.storage
  BY TaskFields DEF Config
<1>2. task[p] \in Task
  BY TaskFields
<1>3. t = [[task[p] EXCEPT !.draft = d] EXCEPT !.at = t.at]
  BY <1>2 DEF Task
<1> HIDE DEF d
<1>4. [task[p] EXCEPT !.draft = d] \in Task
  BY <1>1, <1>2 DEF Task
<1>. QED  BY <1>1, <1>2, <1>3, <1>4 DEF Task, PC, LoadPC

LEMMA PlaceFields ==
  ASSUME TypeOK, NEW p \in Process, NEW s \in {"keyring", "file"}
  PROVE  LET t == [task[p] EXCEPT !.at = "save", !.draft.storage = s]
         IN /\ t \in Task /\ t.op = task[p].op /\ t.at = "save"
            /\ t.draft.token = task[p].draft.token /\ t.draft.storage = s
            /\ t.draft.granted = task[p].draft.granted
            /\ t.before = task[p].before /\ t.stale = task[p].stale
<1> DEFINE d == [task[p].draft EXCEPT !.storage = s]
           t == [task[p] EXCEPT !.at = "save", !.draft.storage = s]
<1>1. d \in Config /\ d.granted = task[p].draft.granted
      /\ d.token = task[p].draft.token /\ d.storage = s
  BY TaskFields DEF Config
<1>2. task[p] \in Task
  BY TaskFields
<1>3. t = [[task[p] EXCEPT !.draft = d] EXCEPT !.at = t.at]
  BY <1>2 DEF Task
<1> HIDE DEF d
<1>4. [task[p] EXCEPT !.draft = d] \in Task
  BY <1>1, <1>2 DEF Task
<1>. QED  BY <1>1, <1>2, <1>3, <1>4 DEF Task, PC, LoadPC

LEMMA RaceType ==
  ASSUME TypeOK, NEW k \in Mishaps, NEW b, Race(b, k)
  PROVE  /\ faults' \in Nat /\ mishap' \in SUBSET Mishaps
         /\ mishap \subseteq mishap' /\ mishap' \subseteq mishap \cup {k}
         /\ b => k \in mishap'
BY DEF TypeOK, Race

---------------------------------------------------------------------------
(* What each action does, field by field                                    *)

\* The task of p is the only one that moves.
Frame(p) == task' \in [Process -> Task] /\ \A q \in Process \ {p} : Same(q)
\* The loads of the others know that a store has changed.
Aged(p) == \A q \in Process \ {p} : Loading(q) => task'[q].stale
Counted == faults' \in Nat /\ mishap' \in SUBSET Mishaps /\ mishap \subseteq mishap'
Ends(p, pc) ==
  /\ task'[p].op = "none" /\ task'[p].at = pc
  /\ task'[p].draft = Default /\ task'[p].before = Default
Begins(p, o, pc, c) ==
  /\ task'[p].op = o /\ task'[p].at = pc
  /\ task'[p].draft = Default /\ task'[p].before = c
Goes(p, pc) ==
  /\ task'[p].op = task[p].op /\ task'[p].at = pc
  /\ task'[p].before = task[p].before /\ task'[p].stale = task[p].stale
\* A file access: done, or refused.
Saved(c) == file' = OnDisk(c) /\ unseen' \in [Process -> BOOLEAN]
NotSaved == file' = file /\ unseen' = unseen /\ "config" \in mishap'

LEMMA StepEffect ==
  ASSUME TypeOK, NEW p \in Process, NEW t \in Task, Step(p, t)
  PROVE  Frame(p) /\ task'[p] = t
BY StepFacts DEF Frame

LEMMA ChangeEffect ==
  ASSUME TypeOK, NEW p \in Process, NEW t \in Task, ChangeStep(p, t)
  PROVE  Frame(p) /\ Aged(p) /\ task'[p] = t
BY ChangeFacts DEF Frame, Aged

LEMMA BeginEffect ==
  ASSUME TypeOK, NEW p \in Process, NEW pc \in PC, NEW c \in Config,
         NEW o \in {"none", "start", "prepare", "reload", "rotate", "reset"}
  PROVE  /\ Step(p, NewTask(o, pc, c)) => Frame(p) /\ Begins(p, o, pc, c)
         /\ ChangeStep(p, NewTask(o, pc, c)) =>
              Frame(p) /\ Aged(p) /\ Begins(p, o, pc, c)
BY NewTaskFields, StepEffect, ChangeEffect DEF Begins

LEMMA EndEffect ==
  ASSUME TypeOK, NEW p \in Process
  PROVE  /\ Step(p, Idle) => Frame(p) /\ Ends(p, "idle")
         /\ Step(p, Off) => Frame(p) /\ Ends(p, "off")
         /\ ChangeStep(p, Idle) => Frame(p) /\ Aged(p) /\ Ends(p, "idle")
BY IdleFields, StepEffect, ChangeEffect DEF Ends

LEMMA GoEffect ==
  ASSUME TypeOK, NEW p \in Process, NEW pc \in PC
  PROVE  Goto(p, pc) =>
           Frame(p) /\ Goes(p, pc) /\ task'[p].draft = task[p].draft
<1> DEFINE t == [task[p] EXCEPT !.at = pc]
<1>1. /\ t \in Task /\ t.op = task[p].op /\ t.at = pc
      /\ t.draft = task[p].draft /\ t.before = task[p].before
      /\ t.stale = task[p].stale
  BY AtFields
<1>2. Goto(p, pc) => Step(p, t)
  BY DEF Goto
<1> HIDE DEF t
<1>. QED  BY <1>1, <1>2, StepEffect DEF Goes

LEMMA CountEffect ==
  ASSUME TypeOK, NEW k \in Mishaps
  PROVE  /\ Fault(k) => Counted /\ mishap' = mishap \cup {k}
         /\ NoFault => Counted /\ mishap' = mishap
         /\ \A b \in BOOLEAN : Race(b, k) =>
              /\ Counted /\ mishap' \subseteq mishap \cup {k}
              /\ b => k \in mishap'
              /\ ~b => mishap' = mishap
BY DEF TypeOK, Fault, NoFault, Race, Counted

LEMMA SaveEffect ==
  ASSUME TypeOK, NEW c \in Config
  PROVE  /\ ReplaceFile(c) => Saved(c)
         /\ KeepFile /\ Fault("config") => NotSaved /\ Counted
BY CountEffect DEF ReplaceFile, Running, Saved, NotSaved, KeepFile, Mishaps

LEMMA StartEffect ==
  ASSUME TypeOK, NEW p \in Process, Start(p)
  PROVE  /\ Frame(p) /\ At(p) = "off" /\ events' \in Nat
         /\ \E o \in {"start", "prepare"} : Begins(p, o, "read", Default)
         /\ UNCHANGED <<keyring, file, deviceFile, minted, instance, memory,
                        unseen, registry, approving, faults, retired, granted,
                        paired, mishap>>
<1>1. PICK o \in {"start", "prepare"} : Step(p, NewTask(o, "read", Default))
  BY DEF Start
<1>2. Frame(p) /\ Begins(p, o, "read", Default)
  BY <1>1, BeginEffect, DefaultFields DEF PC, LoadPC
<1>. QED
  BY <1>2 DEF Start, Event, TypeOK, storeVars, trayVars, historyVars

LEMMA ReadEffect ==
  ASSUME TypeOK, NEW p \in Process, ReadFile(p)
  PROVE  /\ Frame(p) /\ Counted /\ At(p) = "read" /\ Goes(p, "hydrate")
         /\ UNCHANGED <<keyring, file, deviceFile, minted, instance, memory,
                        unseen, registry, approving, events, retired, granted,
                        paired>>
         /\ \/ file \in Config /\ task'[p].draft = file
            \/ file = Missing /\ task'[p].draft = Default
            \/ /\ file = Corrupt \/ "damage" \in mishap'
               /\ task'[p].draft = InstallPosture(Default)
<1>1. PICK readable \in BOOLEAN :
        /\ IF readable THEN NoFault ELSE file # Missing /\ Fault("damage")
        /\ Step(p, [task[p] EXCEPT !.at = "hydrate",
              !.recovered = ~readable \/ file = Corrupt,
              !.draft = IF ~readable \/ file = Corrupt THEN InstallPosture(Default)
                        ELSE IF file = Missing THEN Default ELSE file])
  BY DEF ReadFile
<1>2. PICK b \in BOOLEAN, c \in Config :
        /\ Step(p, [task[p] EXCEPT !.at = "hydrate", !.recovered = b, !.draft = c])
        /\ ~readable \/ file = Corrupt => c = InstallPosture(Default)
        /\ readable /\ file # Corrupt /\ file # Missing => c = file
        /\ readable /\ file # Corrupt /\ file = Missing => c = Default
  <2>1. CASE ~readable \/ file = Corrupt
    <3>1. Step(p, [task[p] EXCEPT !.at = "hydrate", !.recovered = TRUE,
                                  !.draft = InstallPosture(Default)])
      BY <1>1, <2>1
    <3>. QED  BY <2>1, <3>1, DefaultFields, PostureFields
  <2>2. CASE readable /\ file # Corrupt /\ file = Missing
    <3>1. Step(p, [task[p] EXCEPT !.at = "hydrate", !.recovered = FALSE,
                                  !.draft = Default])
      BY <1>1, <2>2
    <3>. QED  BY <2>2, <3>1, DefaultFields
  <2>3. CASE readable /\ file # Corrupt /\ file # Missing
    <3>1. Step(p, [task[p] EXCEPT !.at = "hydrate", !.recovered = FALSE,
                                  !.draft = file])
      BY <1>1, <2>3
    <3>2. file \in Config
      BY <2>3 DEF TypeOK
    <3>. QED  BY <2>3, <3>1, <3>2
  <2>. QED  BY <2>1, <2>2, <2>3
<1> DEFINE t == [task[p] EXCEPT !.at = "hydrate", !.recovered = b, !.draft = c]
<1>3. /\ t \in Task /\ t.op = task[p].op /\ t.at = "hydrate"
      /\ t.draft = c /\ t.before = task[p].before /\ t.stale = task[p].stale
  BY <1>2, TaskFields DEF Task, PC, LoadPC
<1>4. Step(p, t)
  BY <1>2
<1> HIDE DEF t
<1>5. Frame(p) /\ task'[p] = t
  BY <1>4, <1>3, StepEffect
<1>6. Counted /\ (~readable => "damage" \in mishap')
  BY <1>1, CountEffect DEF Mishaps
<1>. QED
  BY <1>2, <1>3, <1>5, <1>6
  DEF ReadFile, Goes, storeVars, trayVars

LEMMA HydrateLoadEffect ==
  ASSUME TypeOK, NEW p \in Process, HydrateLoad(p)
  PROVE  /\ Frame(p) /\ Counted /\ At(p) = "hydrate" /\ minted' \in Nat
         /\ UNCHANGED <<keyring, file, deviceFile, instance, memory, unseen,
                        registry, approving, events, retired, granted, paired>>
         /\ task'[p].draft.granted = task[p].draft.granted
         /\ \/ /\ keyring # NoToken /\ minted' = minted
               /\ Goes(p, "save") /\ task'[p].draft.token = keyring
               /\ task'[p].draft.storage = "keyring"
            \/ /\ Goes(p, "store")
               /\ keyring = NoToken \/ "credential" \in mishap'
               /\ \/ /\ task[p].draft.token = NoToken
                     /\ minted' = minted + 1
                     /\ task'[p].draft.token = minted + 1
                  \/ /\ task[p].draft.token # NoToken /\ minted' = minted
                     /\ task'[p].draft.token = task[p].draft.token
<1>1. /\ At(p) = "hydrate"
      /\ UNCHANGED <<keyring, file, deviceFile, instance, memory, unseen,
                     registry, approving, events, retired, granted, paired>>
      /\ minted \in Nat /\ keyring \in Nat
  BY DEF HydrateLoad, trayVars, TypeOK
<1> DEFINE tk == [task[p] EXCEPT !.at = "save", !.draft.token = keyring,
                                 !.draft.storage = "keyring"]
           tm == [task[p] EXCEPT !.at = "store", !.draft.token = minted + 1]
<1>2. CASE /\ keyring # NoToken /\ UNCHANGED minted /\ NoFault
           /\ Step(p, tk)
  <2>1. /\ tk \in Task /\ tk.op = task[p].op /\ tk.at = "save"
        /\ tk.draft.token = keyring /\ tk.draft.storage = "keyring"
        /\ tk.draft.granted = task[p].draft.granted
        /\ tk.before = task[p].before /\ tk.stale = task[p].stale
    BY <1>1, KeyringFields
  <2> HIDE DEF tk
  <2>2. Frame(p) /\ task'[p] = tk
    BY <1>2, <2>1, StepEffect
  <2>. QED  BY <1>1, <1>2, <2>1, <2>2, CountEffect DEF Goes, Mishaps
<1>3. CASE /\ IF keyring = NoToken THEN NoFault ELSE Fault("credential")
           /\ IF task[p].draft.token = NoToken
              THEN minted' = minted + 1 /\ Step(p, tm)
              ELSE UNCHANGED minted /\ Goto(p, "store")
  <2>1. /\ tm \in Task /\ tm.op = task[p].op /\ tm.at = "store"
        /\ tm.draft.token = minted + 1
        /\ tm.draft.granted = task[p].draft.granted
        /\ tm.before = task[p].before /\ tm.stale = task[p].stale
    <3>1. minted + 1 \in Nat
    BY <1>1
  <3>. QED  BY <3>1, MintFields, Zenon
  <2> HIDE DEF tm
  <2>2. Counted /\ (keyring = NoToken \/ "credential" \in mishap')
    BY <1>3, CountEffect DEF Mishaps
  <2>3. CASE task[p].draft.token = NoToken
    <3>1. Frame(p) /\ task'[p] = tm /\ minted' = minted + 1
      BY <1>3, <2>1, <2>3, StepEffect
    <3>. QED  BY <1>1, <2>1, <2>2, <2>3, <3>1 DEF Goes
  <2>4. CASE task[p].draft.token # NoToken
    <3>1. /\ Frame(p) /\ Goes(p, "store") /\ minted' = minted
          /\ task'[p].draft = task[p].draft
      BY <1>3, <2>4, GoEffect DEF PC, LoadPC
    <3>. QED  BY <1>1, <2>2, <2>4, <3>1
  <2>. QED  BY <2>3, <2>4
<1>. QED  BY <1>2, <1>3 DEF HydrateLoad

LEMMA HydrateStoreEffect ==
  ASSUME TypeOK, NEW p \in Process, HydrateStore(p)
  PROVE  /\ Frame(p) /\ Counted /\ At(p) = "store" /\ Goes(p, "save")
         /\ UNCHANGED <<file, deviceFile, minted, instance, memory, unseen,
                        registry, approving, events, retired, granted, paired>>
         /\ task'[p].draft.token = task[p].draft.token
         /\ task'[p].draft.granted = task[p].draft.granted
         /\ \/ /\ keyring' = task[p].draft.token
               /\ task'[p].draft.storage = "keyring"
               /\ \/ task[p].stale
                  \/ \E q \in Process : ConfigLocked(q)
                                       /\ task[q].before.token = task[p].draft.token
                  => keyring = task[p].draft.token \/ "credential race" \in mishap'
            \/ keyring' = keyring /\ "credential" \in mishap'
<1> DEFINE t(place) == [task[p] EXCEPT !.at = "save", !.draft.storage = place]
           old == \/ task[p].stale
                  \/ \E q \in Process : ConfigLocked(q)
                                       /\ task[q].before.token = task[p].draft.token
<1>1. \A s \in {"keyring", "file"} :
        /\ t(s) \in Task /\ t(s).op = task[p].op /\ t(s).at = "save"
        /\ t(s).draft.token = task[p].draft.token /\ t(s).draft.storage = s
        /\ t(s).draft.granted = task[p].draft.granted
        /\ t(s).before = task[p].before /\ t(s).stale = task[p].stale
  BY PlaceFields
<1>2. /\ At(p) = "store"
      /\ UNCHANGED <<file, deviceFile, minted, instance, memory, unseen,
                     registry, approving, events, retired, granted, paired>>
  BY DEF HydrateStore, trayVars
<1>3. \/ /\ keyring' = task[p].draft.token
         /\ Race(old /\ keyring # task[p].draft.token, "credential race")
         /\ Step(p, t("keyring"))
      \/ UNCHANGED keyring /\ Fault("credential") /\ Step(p, t("file"))
  BY DEF HydrateStore
<1> HIDE DEF t, old
<1>4. CASE UNCHANGED keyring /\ Fault("credential") /\ Step(p, t("file"))
  <2>1. Frame(p) /\ task'[p] = t("file")
    BY <1>1, <1>4, StepEffect
  <2>. QED  BY <1>1, <1>2, <1>4, <2>1, CountEffect DEF Goes, Mishaps
<1>5. CASE /\ keyring' = task[p].draft.token
           /\ Race(old /\ keyring # task[p].draft.token, "credential race")
           /\ Step(p, t("keyring"))
  <2>1. Frame(p) /\ task'[p] = t("keyring")
    BY <1>1, <1>5, StepEffect
  <2>2. "credential race" \in Mishaps
    BY DEF Mishaps
  <2>3. Counted /\ (old /\ keyring # task[p].draft.token =>
                      "credential race" \in mishap')
    BY <1>5, <2>2, RaceType DEF Counted
  <2>4. Goes(p, "save") /\ task'[p].draft.token = task[p].draft.token
        /\ task'[p].draft.granted = task[p].draft.granted
        /\ task'[p].draft.storage = "keyring"
    BY <1>1, <2>1 DEF Goes
  <2>. QED  BY <1>2, <1>5, <2>1, <2>3, <2>4 DEF old
<1>. QED  BY <1>3, <1>4, <1>5

LEMMA SaveLoadedEffect ==
  ASSUME TypeOK, Places, NEW p \in Process, SaveLoaded(p)
  PROVE  /\ Frame(p) /\ Counted /\ At(p) = "save" /\ Loading(p)
         /\ UNCHANGED <<keyring, deviceFile, minted, instance, memory, registry,
                        approving, events, retired, granted, paired>>
         /\ \/ /\ Saved(task[p].draft)
               /\ task[p].stale /\ file # OnDisk(task[p].draft) =>
                    "config race" \in mishap'
               /\ task'[p].op # "none"
            \/ NotSaved
         /\ \/ Ends(p, "idle") /\ task[p].op = "reload"
            \/ Ends(p, "off") /\ task[p].op # "reload"
            \/ /\ task'[p].draft = task[p].draft
               /\ \/ task[p].op = "start" /\ Goes(p, "lock")
                  \/ task[p].op = "prepare" /\ Goes(p, "posture")
                  \/ task[p].op = "reload" /\ Goes(p, "assign")
<1>1. /\ At(p) = "save" /\ task[p].op \in {"start", "prepare", "reload"}
      /\ UNCHANGED <<keyring, deviceFile, minted, instance, memory, registry,
                     approving, events, retired, granted, paired>>
  BY DEF SaveLoaded, Places, Placed, Loading, At
<1> DEFINE c == task[p].draft
           pc == CASE task[p].op = "start" -> "lock"
                   [] task[p].op = "prepare" -> "posture"
                   [] OTHER -> "assign"
<1>2. /\ task[p].op = "start" => pc = "lock"
      /\ task[p].op = "prepare" => pc = "posture"
      /\ task[p].op = "reload" => pc = "assign"
  BY Zenon
<1>3. AfterSave(task[p], TRUE) = [task[p] EXCEPT !.at = pc]
  BY Zenon DEF AfterSave
<1>4. \/ AfterSave(task[p], FALSE) = [task[p] EXCEPT !.at = pc]
      \/ AfterSave(task[p], FALSE) = Idle /\ task[p].op = "reload"
      \/ AfterSave(task[p], FALSE) = Off /\ task[p].op # "reload"
  BY Zenon DEF AfterSave
<1>5. \/ /\ ReplaceFile(c) /\ Race(task[p].stale /\ file # OnDisk(c), "config race")
         /\ Goto(p, pc)
      \/ /\ KeepFile /\ Fault("config")
         /\ \/ Goto(p, pc)
            \/ Step(p, Idle) /\ task[p].op = "reload"
            \/ Step(p, Off) /\ task[p].op # "reload"
  BY <1>3, <1>4, Zenon DEF SaveLoaded, Goto
<1>6. c \in Config /\ pc \in PC /\ "config race" \in Mishaps
  BY <1>1, <1>2, TaskFields DEF PC, Mishaps
<1> HIDE DEF c, pc
<1>7. ReplaceFile(c) /\ Race(task[p].stale /\ file # OnDisk(c), "config race")
      => /\ Saved(c) /\ Counted
         /\ task[p].stale /\ file # OnDisk(c) => "config race" \in mishap'
  BY <1>6, SaveEffect, RaceType DEF Counted
<1>8. KeepFile /\ Fault("config") => NotSaved /\ Counted
  BY <1>6, SaveEffect
<1>9. Goto(p, pc) => /\ Frame(p) /\ task'[p].draft = task[p].draft
                     /\ Goes(p, pc)
  BY <1>6, GoEffect
<1>10. Goto(p, pc) => \/ task[p].op = "start" /\ Goes(p, "lock")
                      \/ task[p].op = "prepare" /\ Goes(p, "posture")
                      \/ task[p].op = "reload" /\ Goes(p, "assign")
  BY <1>1, <1>2, <1>9
<1>11. Goes(p, pc) => task'[p].op # "none"
  BY <1>1 DEF Goes
<1>12. CASE /\ ReplaceFile(c) /\ Race(task[p].stale /\ file # OnDisk(c), "config race")
            /\ Goto(p, pc)
  BY <1>1, <1>7, <1>9, <1>10, <1>11, <1>12 DEF c, Loading
<1>13. CASE /\ KeepFile /\ Fault("config")
            /\ \/ Goto(p, pc)
               \/ Step(p, Idle) /\ task[p].op = "reload"
               \/ Step(p, Off) /\ task[p].op # "reload"
  BY <1>1, <1>8, <1>9, <1>10, <1>13, EndEffect DEF Loading
<1>. QED  BY <1>5, <1>12, <1>13

LEMMA PrepareEffect ==
  ASSUME TypeOK, NEW p \in Process, PrepareInstall(p)
  PROVE  /\ Frame(p) /\ Counted /\ At(p) = "posture" /\ Ends(p, "off")
         /\ UNCHANGED <<keyring, deviceFile, minted, instance, memory, registry,
                        approving, events, retired, granted, paired>>
         /\ \/ /\ Saved(InstallPosture(task[p].draft))
               /\ task[p].stale /\ file # OnDisk(InstallPosture(task[p].draft)) =>
                    "config race" \in mishap'
            \/ NotSaved
<1> DEFINE c == InstallPosture(task[p].draft)
<1>1. /\ At(p) = "posture" /\ Step(p, Off)
      /\ UNCHANGED <<keyring, deviceFile, minted, instance, memory, registry,
                     approving, events, retired, granted, paired>>
      /\ \/ ReplaceFile(c) /\ Race(task[p].stale /\ file # OnDisk(c), "config race")
         \/ KeepFile /\ Fault("config")
  BY DEF PrepareInstall
<1>2. c \in Config
  BY TaskFields, PostureFields
<1> HIDE DEF c
<1>3. Frame(p) /\ Ends(p, "off")
  BY <1>1, EndEffect
<1>4. "config race" \in Mishaps
  BY DEF Mishaps
<1>5. ReplaceFile(c) /\ Race(task[p].stale /\ file # OnDisk(c), "config race")
      => /\ Saved(c) /\ Counted
         /\ task[p].stale /\ file # OnDisk(c) => "config race" \in mishap'
  BY <1>2, <1>4, SaveEffect, RaceType DEF Counted
<1>6. KeepFile /\ Fault("config") => NotSaved /\ Counted
  BY <1>2, SaveEffect
<1>. QED  BY <1>1, <1>3, <1>5, <1>6 DEF c

LEMMA AcquireEffect ==
  ASSUME TypeOK, NEW p \in Process, AcquireInstance(p)
  PROVE  /\ Frame(p) /\ Counted /\ At(p) = "lock"
         /\ UNCHANGED <<keyring, file, deviceFile, minted, memory, unseen,
                        registry, approving, events, retired, granted, paired>>
         /\ \/ /\ instance = NoProcess /\ instance' = p
               /\ Goes(p, "registry") /\ task'[p].draft = task[p].draft
            \/ instance' = instance /\ Ends(p, "off")
            \/ /\ instance' = instance /\ "lock" \in mishap'
               /\ Goes(p, "registry") /\ task'[p].draft = task[p].draft
<1>1. "registry" \in PC /\ "lock" \in Mishaps
  BY DEF PC, Mishaps
<1>. QED
  BY <1>1, GoEffect, EndEffect, CountEffect
  DEF AcquireInstance, storeVars, trayVars

LEMMA StartTrayEffect ==
  ASSUME TypeOK, NEW p \in Process, StartTray(p)
  PROVE  /\ Frame(p) /\ Counted /\ At(p) = "registry" /\ Ends(p, "idle")
         /\ UNCHANGED <<keyring, file, deviceFile, minted, instance, approving,
                        events, retired, granted, paired>>
         /\ memory' = [memory EXCEPT ![p] = task[p].draft]
         /\ unseen' \in [Process -> BOOLEAN]
         /\ \/ registry' = [registry EXCEPT ![p] = deviceFile]
            \/ registry' = [registry EXCEPT ![p] = {}] /\ "devices" \in mishap'
         /\ \/ "missed change" \in mishap'
            \/ ~task[p].stale /\ file = OnDisk(task[p].draft)
<1>1. PICK readable \in BOOLEAN :
        /\ registry' = [registry EXCEPT ![p] = LoadRegistry(readable)]
        /\ IF readable THEN UNCHANGED faults
           ELSE Room /\ faults < MAX_FAULTS /\ faults' = faults + 1
        /\ mishap' = mishap \cup (IF readable THEN {} ELSE {"devices"})
             \cup (IF task[p].stale \/ file # OnDisk(task[p].draft)
                   THEN {"missed change"} ELSE {})
  BY DEF StartTray
<1>2. /\ At(p) = "registry" /\ Step(p, Idle)
      /\ UNCHANGED <<keyring, file, deviceFile, minted, instance, approving,
                     events, retired, granted, paired>>
      /\ memory' = [memory EXCEPT ![p] = task[p].draft]
      /\ unseen' = [unseen EXCEPT ![p] = FALSE]
  BY DEF StartTray, storeVars
<1>3. Frame(p) /\ Ends(p, "idle")
  BY <1>2, EndEffect
<1>4. unseen' \in [Process -> BOOLEAN]
  BY <1>2 DEF TypeOK
<1>5. Counted
  <2>1. faults' = faults \/ faults' = faults + 1
    BY <1>1
  <2>2. mishap' \in SUBSET Mishaps /\ mishap \subseteq mishap'
    BY <1>1 DEF TypeOK, Mishaps
  <2>3. faults' \in Nat
    BY <2>1 DEF TypeOK
  <2>. QED  BY <2>2, <2>3 DEF Counted
<1>. QED  BY <1>1, <1>2, <1>3, <1>4, <1>5 DEF LoadRegistry

LEMMA ApprovingType ==
  ASSUME TypeOK, NEW p \in Process
  PROVE  /\ approving[p] \in Nat
         /\ \A n \in Nat : [approving EXCEPT ![p] = n] \in [Process -> Nat]
BY DEF TypeOK

LEMMA StopEffect ==
  ASSUME TypeOK, NEW p \in Process, Stop(p)
  PROVE  /\ Frame(p) /\ Ends(p, "off")
         /\ UNCHANGED <<keyring, file, deviceFile, minted, events, faults,
                        retired, granted, paired, mishap>>
         /\ instance' = (IF instance = p THEN NoProcess ELSE instance)
         /\ memory' = [memory EXCEPT ![p] = Default]
         /\ approving' = [approving EXCEPT ![p] = 0]
         /\ registry' = [registry EXCEPT ![p] = {}]
         /\ unseen' = [unseen EXCEPT ![p] = FALSE]
BY EndEffect DEF Stop, storeVars, boundVars, historyVars

LEMMA RotateEffect ==
  ASSUME TypeOK, NEW p \in Process, RotateToken(p)
  PROVE  /\ Frame(p) /\ Aged(p) /\ Counted /\ At(p) = "idle" /\ events' \in Nat
         /\ Begins(p, "rotate", "rotateSave", memory[p])
         /\ UNCHANGED <<file, deviceFile, instance, unseen, registry, approving,
                        retired, granted, paired>>
         /\ minted' = minted + 1
         /\ \A q \in Process \ {p} : memory'[q] = memory[q]
         /\ memory' \in [Process -> Config]
         /\ memory'[p].token = minted + 1
         /\ memory'[p].granted = memory[p].granted
         /\ \/ keyring' = minted + 1 /\ memory'[p].storage = "keyring"
            \/ keyring' = keyring /\ "credential" \in mishap'
<1> DEFINE c(s) == [memory[p] EXCEPT !.token = minted + 1, !.storage = s]
<1>1. /\ At(p) = "idle" /\ minted' = minted + 1
      /\ ChangeStep(p, NewTask("rotate", "rotateSave", memory[p]))
      /\ UNCHANGED <<file, deviceFile, instance, unseen, registry, approving,
                     retired, granted, paired>>
      /\ \/ /\ keyring' = minted + 1 /\ NoFault
            /\ memory' = [memory EXCEPT ![p] = c("keyring")]
         \/ /\ UNCHANGED keyring /\ Fault("credential")
            /\ memory' = [memory EXCEPT ![p] = c("file")]
  BY DEF RotateToken
<1>2. events' \in Nat
  BY DEF RotateToken, Event, TypeOK
<1>3. memory[p] \in Config /\ minted + 1 \in Nat
  BY DEF TypeOK
<1>4. \A s \in {"keyring", "file"} :
        /\ c(s) \in Config /\ c(s).token = minted + 1 /\ c(s).storage = s
        /\ c(s).granted = memory[p].granted
  BY <1>3, ConfigToken, Zenon
<1> HIDE DEF c
<1>5. "rotateSave" \in PC
  BY DEF PC
<1>6. Frame(p) /\ Aged(p) /\ Begins(p, "rotate", "rotateSave", memory[p])
  BY <1>1, <1>3, <1>5, BeginEffect
<1>7. \A s \in {"keyring", "file"} :
        memory' = [memory EXCEPT ![p] = c(s)] =>
          /\ \A q \in Process \ {p} : memory'[q] = memory[q]
          /\ memory' \in [Process -> Config] /\ memory'[p] = c(s)
  BY <1>4 DEF TypeOK
<1>8. "credential" \in Mishaps
  BY DEF Mishaps
<1>9. Counted
  BY <1>1, <1>8, CountEffect
<1>10. Fault("credential") => "credential" \in mishap'
  BY DEF Fault
<1>. QED  BY <1>1, <1>2, <1>4, <1>6, <1>7, <1>9, <1>10

LEMMA SaveRotationEffect ==
  ASSUME TypeOK, NEW p \in Process, SaveRotation(p)
  PROVE  /\ Frame(p) /\ Counted /\ At(p) = "rotateSave"
         /\ UNCHANGED <<keyring, deviceFile, minted, instance, memory, registry,
                        approving, events, granted, paired>>
         /\ \/ /\ Saved(memory[p]) /\ Aged(p) /\ Goes(p, "rotateRevoke")
               /\ retired' = retired \cup {task[p].before.token}
               /\ task'[p].draft = task[p].draft
            \/ NotSaved /\ Ends(p, "idle") /\ retired' = retired
<1> DEFINE t == [task[p] EXCEPT !.at = "rotateRevoke"]
<1>1. /\ At(p) = "rotateSave"
      /\ UNCHANGED <<keyring, deviceFile, minted, instance, memory, registry,
                     approving, events, granted, paired>>
      /\ \/ /\ ReplaceFile(memory[p]) /\ NoFault
            /\ retired' = retired \cup {task[p].before.token}
            /\ ChangeStep(p, t)
         \/ KeepFile /\ Fault("config") /\ UNCHANGED retired /\ Step(p, Idle)
  BY DEF SaveRotation
<1>2. "rotateRevoke" \in PC /\ "config" \in Mishaps /\ memory[p] \in Config
  BY DEF PC, Mishaps, TypeOK
<1>3. /\ t \in Task /\ t.op = task[p].op /\ t.at = "rotateRevoke"
      /\ t.draft = task[p].draft /\ t.before = task[p].before
      /\ t.stale = task[p].stale
  BY <1>2, AtFields
<1> HIDE DEF t
<1>4. ChangeStep(p, t) => /\ Frame(p) /\ Aged(p) /\ Goes(p, "rotateRevoke")
                          /\ task'[p].draft = task[p].draft
  BY <1>3, ChangeEffect DEF Goes
<1>5. ReplaceFile(memory[p]) /\ NoFault => Saved(memory[p]) /\ Counted
  BY <1>2, SaveEffect, CountEffect
<1>6. KeepFile /\ Fault("config") => NotSaved /\ Counted
  BY <1>2, SaveEffect
<1>. QED  BY <1>1, <1>4, <1>5, <1>6, EndEffect

LEMMA SaveRegistryEffect ==
  ASSUME TypeOK, NEW s \in SUBSET Device, SaveRegistry(s)
  PROVE  /\ Counted
         /\ \/ deviceFile' = s /\ mishap' = mishap
            \/ deviceFile' = deviceFile /\ "devices" \in mishap'
<1>1. "devices" \in Mishaps
  BY DEF Mishaps
<1>2. Fault("devices") => Counted /\ "devices" \in mishap'
  BY <1>1, CountEffect
<1>3. NoFault => Counted /\ mishap' = mishap
  BY <1>1, CountEffect
<1>. QED  BY <1>2, <1>3 DEF SaveRegistry

\* A registry replaced in memory, and in the file unless that failed.
Registers(p, s) ==
  /\ registry' = [registry EXCEPT ![p] = s]
  /\ \/ deviceFile' = s
     \/ deviceFile' = deviceFile /\ "devices" \in mishap'
Revokes(p) ==
  /\ registry' = [registry EXCEPT ![p] = {}] /\ paired' = {}
  /\ \/ deviceFile' = {}
     \/ deviceFile' = deviceFile /\ registry[p] = {}
     \/ deviceFile' = deviceFile /\ "devices" \in mishap'

LEMMA RevokeAllEffect ==
  ASSUME TypeOK, NEW p \in Process, RevokeAll(p)
  PROVE  Revokes(p) /\ Counted
<1>1. SaveRegistry({}) => /\ Counted
                          /\ \/ deviceFile' = {}
                             \/ deviceFile' = deviceFile /\ "devices" \in mishap'
  BY SaveRegistryEffect
<1>2. NoFault => Counted
  BY CountEffect DEF Mishaps
<1>. QED  BY <1>1, <1>2 DEF RevokeAll, Revokes

LEMMA RevokeRotatedEffect ==
  ASSUME TypeOK, NEW p \in Process, RevokeRotated(p)
  PROVE  /\ Frame(p) /\ Counted /\ At(p) = "rotateRevoke" /\ Ends(p, "idle")
         /\ UNCHANGED <<keyring, file, minted, instance, memory, unseen,
                        approving, retired, granted, events>>
         /\ Revokes(p)
BY EndEffect, RevokeAllEffect DEF RevokeRotated

LEMMA ResetRegistryEffect ==
  ASSUME TypeOK, NEW p \in Process, ResetRegistry(p)
  PROVE  /\ Frame(p) /\ Counted /\ At(p) = "idle" /\ events' \in Nat
         /\ Begins(p, "reset", "resetDelete", Default)
         /\ UNCHANGED <<keyring, file, minted, instance, memory, unseen,
                        approving, retired, granted>>
         /\ Revokes(p)
<1>1. events' \in Nat
  BY DEF ResetRegistry, Event, TypeOK
<1>2. Frame(p) /\ Begins(p, "reset", "resetDelete", Default)
  BY BeginEffect, DefaultFields DEF ResetRegistry, PC
<1>. QED  BY <1>1, <1>2, RevokeAllEffect DEF ResetRegistry

LEMMA ResetDeleteEffect ==
  ASSUME TypeOK, NEW p \in Process, ResetDelete(p)
  PROVE  /\ Frame(p) /\ Aged(p) /\ Counted /\ At(p) = "resetDelete"
         /\ Begins(p, "reset", "hydrate", memory[p])
         /\ UNCHANGED <<file, deviceFile, minted, instance, memory, unseen,
                        registry, approving, retired, granted, paired, events>>
         /\ \/ keyring' = NoToken
            \/ keyring' = keyring /\ "credential" \in mishap'
<1>1. "credential" \in Mishaps /\ "hydrate" \in PC /\ memory[p] \in Config
  BY DEF Mishaps, PC, LoadPC, TypeOK
<1>2. Frame(p) /\ Aged(p) /\ Begins(p, "reset", "hydrate", memory[p])
  BY <1>1, BeginEffect DEF ResetDelete
<1>3. /\ Counted
      /\ \/ keyring' = NoToken
         \/ keyring' = keyring /\ "credential" \in mishap'
  <2>1. Fault("credential") => Counted /\ "credential" \in mishap'
    BY <1>1, CountEffect
  <2>2. NoFault => Counted
    BY <1>1, CountEffect
  <2>. QED  BY <2>1, <2>2 DEF ResetDelete
<1>. QED  BY <1>2, <1>3 DEF ResetDelete, trayVars

LEMMA SaveResetEffect ==
  ASSUME TypeOK, NEW p \in Process, SaveReset(p)
  PROVE  /\ Frame(p) /\ Aged(p) /\ Counted
         /\ At(p) = "save" /\ task[p].op = "reset" /\ Ends(p, "idle")
         /\ UNCHANGED <<keyring, deviceFile, minted, instance, registry,
                        approving, paired, events>>
         /\ memory' = [memory EXCEPT ![p] = task[p].draft]
         /\ \/ /\ Saved(task[p].draft) /\ granted' = FALSE
               /\ retired' = retired \cup {task[p].before.token}
            \/ NotSaved /\ retired' = retired /\ granted' = granted
<1>1. task[p].draft \in Config /\ "config" \in Mishaps
  BY TaskFields DEF Mishaps
<1>2. ReplaceFile(task[p].draft) /\ NoFault => Saved(task[p].draft) /\ Counted
  BY <1>1, SaveEffect, CountEffect
<1>3. KeepFile /\ Fault("config") => NotSaved /\ Counted
  BY <1>1, SaveEffect
<1>. QED  BY <1>2, <1>3, EndEffect DEF SaveReset, At

LEMMA ToggleEffect ==
  ASSUME TypeOK, NEW p \in Process, ToggleLaunch(p)
  PROVE  /\ Frame(p) /\ Aged(p) /\ Counted /\ events' \in Nat
         /\ At(p) = "idle" /\ Ends(p, "idle")
         /\ UNCHANGED <<keyring, deviceFile, minted, instance, registry,
                        approving, retired, granted, paired>>
         /\ \E c \in Config :
              /\ c.token = memory[p].token /\ c.storage = memory[p].storage
              /\ c.granted = memory[p].granted
              /\ memory' = [memory EXCEPT ![p] = c]
              /\ Saved(c) \/ NotSaved
<1> DEFINE c == [memory[p] EXCEPT !.launch = ~@]
<1>1. /\ c \in Config /\ c.token = memory[p].token
      /\ c.storage = memory[p].storage /\ c.granted = memory[p].granted
  BY DEF TypeOK, Config
<1>2. /\ At(p) = "idle" /\ ChangeStep(p, Idle)
      /\ UNCHANGED <<keyring, deviceFile, minted, instance, registry,
                     approving, retired, granted, paired>>
      /\ memory' = [memory EXCEPT ![p] = c]
      /\ \/ ReplaceFile(c) /\ NoFault
         \/ KeepFile /\ Fault("config")
  BY DEF ToggleLaunch
<1>3. events' \in Nat
  BY DEF ToggleLaunch, Event, TypeOK
<1> HIDE DEF c
<1>4. "config" \in Mishaps
  BY DEF Mishaps
<1>5. Counted /\ (Saved(c) \/ NotSaved)
  BY <1>1, <1>2, <1>4, SaveEffect, CountEffect
<1>. QED  BY <1>1, <1>2, <1>3, <1>5, EndEffect

LEMMA RevokeDeviceEffect ==
  ASSUME TypeOK, NEW p \in Process, NEW d \in Device, RevokeDevice(p, d)
  PROVE  /\ Counted /\ At(p) = "idle" /\ events' \in Nat
         /\ UNCHANGED <<keyring, file, minted, instance, task, memory, unseen,
                        approving, retired, granted>>
         /\ paired' = paired \ {d} /\ Registers(p, registry[p] \ {d})
<1>1. registry[p] \ {d} \in SUBSET Device
  BY DEF TypeOK
<1>2. events' \in Nat
  BY DEF RevokeDevice, Event, TypeOK
<1>. QED  BY <1>1, <1>2, SaveRegistryEffect DEF RevokeDevice, Registers

LEMMA RegisterDeviceEffect ==
  ASSUME TypeOK, NEW p \in Process, NEW d \in Device, RegisterDevice(p, d)
  PROVE  /\ Counted /\ Running(p) /\ events' \in Nat
         /\ UNCHANGED <<keyring, file, minted, instance, task, memory, unseen,
                        retired, granted>>
         /\ paired' = paired \cup {d} /\ Registers(p, registry[p] \cup {d})
         /\ approving' = [approving EXCEPT ![p] = @ + 1]
<1>1. registry[p] \cup {d} \in SUBSET Device
  BY DEF TypeOK
<1>2. events' \in Nat
  BY DEF RegisterDevice, Event, TypeOK
<1>. QED  BY <1>1, <1>2, SaveRegistryEffect DEF RegisterDevice, Registers

LEMMA ApproveNobodyEffect ==
  ASSUME TypeOK, NEW p \in Process, ApproveNobody(p)
  PROVE  /\ Running(p) /\ events' \in Nat
         /\ UNCHANGED <<keyring, file, deviceFile, minted, instance, task,
                        memory, unseen, registry, faults, retired, granted,
                        paired, mishap>>
         /\ approving' \in [Process -> Nat]
         /\ \A q \in Process \ {p} : approving'[q] = approving[q]
BY DEF ApproveNobody, Event, TypeOK, storeVars, historyVars

LEMMA BeginReloadEffect ==
  ASSUME TypeOK, NEW p \in Process, BeginReload(p)
  PROVE  /\ Frame(p) /\ At(p) = "idle" /\ Begins(p, "reload", "read", memory[p])
         /\ UNCHANGED <<keyring, file, deviceFile, minted, instance, memory,
                        registry, approving, events, faults, retired, granted,
                        paired, mishap>>
         /\ unseen' = [unseen EXCEPT ![p] = FALSE]
<1>1. memory[p] \in Config /\ "read" \in PC
  BY DEF TypeOK, PC, LoadPC
<1>2. Frame(p) /\ Begins(p, "reload", "read", memory[p])
  BY <1>1, BeginEffect DEF BeginReload
<1>. QED  BY <1>2 DEF BeginReload, storeVars, boundVars, historyVars

LEMMA AssignEffect ==
  ASSUME TypeOK, NEW p \in Process, AssignReload(p)
  PROVE  /\ Frame(p) /\ Counted /\ At(p) = "assign" /\ Ends(p, "idle")
         /\ UNCHANGED <<keyring, file, deviceFile, minted, instance, unseen,
                        registry, approving, retired, granted, paired, events>>
         /\ \/ memory' = memory /\ task[p].draft = task[p].before
            \/ /\ memory' = [memory EXCEPT ![p] = task[p].draft]
               /\ task[p].stale => "config race" \in mishap'
<1>1. "config race" \in Mishaps
  BY DEF Mishaps
<1>2. /\ Counted
      /\ task[p].stale /\ task[p].draft # task[p].before =>
           "config race" \in mishap'
  BY <1>1, RaceType DEF AssignReload, Counted
<1>. QED  BY <1>2, EndEffect DEF AssignReload, At, storeVars

LEMMA GrantEffect ==
  ASSUME TypeOK, NEW p \in Process, GrantCapabilities(p)
  PROVE  /\ Frame(p) /\ Aged(p) /\ Counted
         /\ approving[p] > 0 /\ ~ConfigLocked(p)
         /\ UNCHANGED <<keyring, deviceFile, minted, instance, registry,
                        retired, paired, events>>
         /\ Same(p) /\ (Loading(p) => task'[p].stale)
         /\ granted' = TRUE /\ approving' = [approving EXCEPT ![p] = @ - 1]
         /\ \E c \in Config :
              /\ c.token = memory[p].token /\ c.storage = memory[p].storage
              /\ c.granted /\ memory' = [memory EXCEPT ![p] = c]
              /\ Saved(c) \/ NotSaved
<1> DEFINE c == [memory[p] EXCEPT !.granted = TRUE]
           t == Outdated(task[p])
<1>1. /\ c \in Config /\ c.token = memory[p].token
      /\ c.storage = memory[p].storage /\ c.granted
  BY DEF TypeOK, Config
<1>2. /\ approving[p] > 0 /\ ~ConfigLocked(p) /\ ChangeStep(p, t)
      /\ UNCHANGED <<keyring, deviceFile, minted, instance, registry,
                     retired, paired, events>>
      /\ granted' = TRUE /\ approving' = [approving EXCEPT ![p] = @ - 1]
      /\ memory' = [memory EXCEPT ![p] = c]
      /\ \/ ReplaceFile(c) /\ NoFault
         \/ KeepFile /\ Fault("config")
  BY DEF GrantCapabilities
<1>3. /\ t \in Task /\ t.op = task[p].op /\ t.at = task[p].at
      /\ t.draft = task[p].draft /\ t.before = task[p].before
      /\ task[p].stale => t.stale
      /\ Loading(p) => t.stale
  BY TaskFields, OutdatedFields DEF Loading
<1> HIDE DEF c, t
<1>4. "config" \in Mishaps
  BY DEF Mishaps
<1>5. Counted /\ (Saved(c) \/ NotSaved)
  BY <1>1, <1>2, <1>4, SaveEffect, CountEffect
<1>6. Frame(p) /\ Aged(p) /\ Same(p) /\ (Loading(p) => task'[p].stale)
  BY <1>2, <1>3, ChangeEffect DEF Same
<1>. QED  BY <1>1, <1>2, <1>5, <1>6

LEMMA EditEffect ==
  ASSUME TypeOK, EditFile
  PROVE  /\ events' \in Nat /\ unseen' \in [Process -> BOOLEAN]
         /\ UNCHANGED <<keyring, deviceFile, minted, instance, task, memory,
                        registry, approving, faults, retired, granted, paired>>
         /\ \/ /\ mishap' = mishap /\ file \in Config /\ file' \in Config
               /\ file'.token = file.token /\ file'.granted = file.granted
            \/ /\ mishap' = mishap \cup {"capability edit"}
               /\ file \in Config /\ file' \in Config
               /\ file'.token = file.token
            \/ file' \in {Missing, Corrupt} /\ mishap' = mishap \cup {"damage"}
<1>1. /\ events' \in Nat
      /\ unseen' = [q \in Process |-> Running(q)]
      /\ UNCHANGED <<keyring, deviceFile, minted, instance, task, memory,
                     registry, approving, faults, retired, granted, paired>>
  <2>1. Event
    BY Zenon DEF EditFile
  <2>2. /\ unseen' = [q \in Process |-> Running(q)]
        /\ UNCHANGED <<keyring, deviceFile, minted, instance, task, memory,
                       registry, approving, faults, retired, granted, paired>>
    BY Zenon DEF EditFile
  <2>3. events' \in Nat
    BY <2>1 DEF Event, TypeOK
  <2>. QED  BY <2>2, <2>3
<1>2. unseen' \in [Process -> BOOLEAN]
  BY <1>1 DEF Running
<1>3. ASSUME file \in Config, file' = [file EXCEPT !.reachable = ~@]
      PROVE  /\ file' \in Config /\ file'.token = file.token
             /\ file'.granted = file.granted
  BY <1>3 DEF Config
<1>4. ASSUME file \in Config, file' = [file EXCEPT !.granted = ~@]
      PROVE  file' \in Config /\ file'.token = file.token
  BY <1>4 DEF Config
<1>5. \/ /\ file \in Config /\ file' = [file EXCEPT !.reachable = ~@]
         /\ mishap' = mishap
      \/ /\ file \in Config /\ file' = [file EXCEPT !.granted = ~@]
         /\ mishap' = mishap \cup {"capability edit"}
      \/ file' \in {Missing, Corrupt} /\ mishap' = mishap \cup {"damage"}
  BY DEF EditFile
<1>. QED  BY <1>1, <1>2, <1>3, <1>4, <1>5

---------------------------------------------------------------------------
(* Types, and where the main threads stand                                  *)

LEMMA SavedType ==
  ASSUME TypeOK, NEW c \in Config, Saved(c) \/ NotSaved
  PROVE  file' \in Config \cup {Missing, Corrupt} /\ unseen' \in [Process -> BOOLEAN]
BY OnDiskFields DEF TypeOK, Saved, NotSaved

LEMMA RevokesType ==
  ASSUME TypeOK, NEW p \in Process, Revokes(p)
  PROVE  /\ registry' \in [Process -> SUBSET Device]
         /\ deviceFile' \in SUBSET Device /\ paired' \in SUBSET Device
BY DEF TypeOK, Revokes

LEMMA TypeStep ==
  ASSUME TypeOK, Places, [Next]_vars
  PROVE  TypeOK'
<1>0. CASE UNCHANGED vars
  BY <1>0 DEF vars, storeVars, trayVars, boundVars, historyVars, TypeOK
<1> SUFFICES ASSUME Next PROVE TypeOK'
  BY <1>0
<1>1. ASSUME NEW p \in Process, Start(p) PROVE TypeOK'
  BY <1>1, StartEffect DEF TypeOK, Frame
<1>2. ASSUME NEW p \in Process, ReadFile(p) PROVE TypeOK'
  BY <1>2, ReadEffect DEF TypeOK, Frame, Counted
<1>3. ASSUME NEW p \in Process, HydrateLoad(p) PROVE TypeOK'
  BY <1>3, HydrateLoadEffect DEF TypeOK, Frame, Counted
<1>4. ASSUME NEW p \in Process, HydrateStore(p) PROVE TypeOK'
  <2>1. keyring' \in Nat
    BY <1>4, HydrateStoreEffect, TokenTypes DEF TypeOK
  <2>. QED  BY <1>4, <2>1, HydrateStoreEffect DEF TypeOK, Frame, Counted
<1>5. ASSUME NEW p \in Process, SaveLoaded(p) PROVE TypeOK'
  <2>1. file' \in Config \cup {Missing, Corrupt} /\ unseen' \in [Process -> BOOLEAN]
    BY <1>5, SaveLoadedEffect, TaskFields, SavedType
  <2>. QED  BY <1>5, <2>1, SaveLoadedEffect DEF TypeOK, Frame, Counted
<1>6. ASSUME NEW p \in Process, PrepareInstall(p) PROVE TypeOK'
  <2>1. file' \in Config \cup {Missing, Corrupt} /\ unseen' \in [Process -> BOOLEAN]
    BY <1>6, PrepareEffect, TaskFields, PostureFields, SavedType
  <2>. QED  BY <1>6, <2>1, PrepareEffect DEF TypeOK, Frame, Counted
<1>7. ASSUME NEW p \in Process, AcquireInstance(p) PROVE TypeOK'
  BY <1>7, AcquireEffect DEF TypeOK, Frame, Counted
<1>8. ASSUME NEW p \in Process, StartTray(p) PROVE TypeOK'
  <2>1. memory' \in [Process -> Config]
    BY <1>8, StartTrayEffect, TaskFields DEF TypeOK
  <2>2. registry' \in [Process -> SUBSET Device]
    BY <1>8, StartTrayEffect DEF TypeOK
  <2>. QED  BY <1>8, <2>1, <2>2, StartTrayEffect DEF TypeOK, Frame, Counted
<1>9. ASSUME NEW p \in Process, BeginReload(p) PROVE TypeOK'
  <2>1. unseen' \in [Process -> BOOLEAN]
    BY <1>9, BeginReloadEffect DEF TypeOK
  <2>. QED  BY <1>9, <2>1, BeginReloadEffect DEF TypeOK, Frame
<1>10. ASSUME NEW p \in Process, AssignReload(p) PROVE TypeOK'
  <2>1. memory' \in [Process -> Config]
    BY <1>10, AssignEffect, TaskFields DEF TypeOK
  <2>. QED  BY <1>10, <2>1, AssignEffect DEF TypeOK, Frame, Counted
<1>11. ASSUME NEW p \in Process, Stop(p) PROVE TypeOK'
  <2>1. memory' \in [Process -> Config] /\ registry' \in [Process -> SUBSET Device]
    BY <1>11, StopEffect, DefaultFields DEF TypeOK
  <2>2. approving' \in [Process -> Nat] /\ unseen' \in [Process -> BOOLEAN]
    <3>1. approving' \in [Process -> Nat]
      BY <1>11, StopEffect, ApprovingType
    <3>2. unseen' \in [Process -> BOOLEAN]
      BY <1>11, StopEffect DEF TypeOK
    <3>. QED  BY <3>1, <3>2
  <2>3. instance' \in Process \cup {NoProcess}
    BY <1>11, StopEffect DEF TypeOK
  <2>. QED  BY <1>11, <2>1, <2>2, <2>3, StopEffect DEF TypeOK, Frame
<1>12. ASSUME NEW p \in Process, RotateToken(p) PROVE TypeOK'
  <2>1. minted' \in Nat /\ keyring' \in Nat
    BY <1>12, RotateEffect DEF TypeOK
  <2>. QED  BY <1>12, <2>1, RotateEffect DEF TypeOK, Frame, Counted
<1>13. ASSUME NEW p \in Process, SaveRotation(p) PROVE TypeOK'
  <2>1. file' \in Config \cup {Missing, Corrupt} /\ unseen' \in [Process -> BOOLEAN]
    <3>1. memory[p] \in Config
      BY DEF TypeOK
    <3>. QED  BY <1>13, <3>1, SaveRotationEffect, SavedType
  <2>2. retired' \in SUBSET Nat
    BY <1>13, SaveRotationEffect, TokenTypes DEF TypeOK
  <2>. QED  BY <1>13, <2>1, <2>2, SaveRotationEffect DEF TypeOK, Frame, Counted
<1>14. ASSUME NEW p \in Process, RevokeRotated(p) PROVE TypeOK'
  BY <1>14, RevokeRotatedEffect, RevokesType DEF TypeOK, Frame, Counted
<1>15. ASSUME NEW p \in Process, ResetRegistry(p) PROVE TypeOK'
  BY <1>15, ResetRegistryEffect, RevokesType DEF TypeOK, Frame, Counted
<1>16. ASSUME NEW p \in Process, ResetDelete(p) PROVE TypeOK'
  <2>1. keyring' \in Nat
    BY <1>16, ResetDeleteEffect DEF TypeOK, NoToken
  <2>. QED  BY <1>16, <2>1, ResetDeleteEffect DEF TypeOK, Frame, Counted
<1>17. ASSUME NEW p \in Process, SaveReset(p) PROVE TypeOK'
  <2>1. file' \in Config \cup {Missing, Corrupt} /\ unseen' \in [Process -> BOOLEAN]
    BY <1>17, SaveResetEffect, TaskFields, SavedType
  <2>2. retired' \in SUBSET Nat
    <3>1. \/ retired' = retired
          \/ retired' = retired \cup {task[p].before.token}
      BY <1>17, SaveResetEffect
    <3>2. task[p].before.token \in Nat
      BY TokenTypes
    <3>. QED  BY <3>1, <3>2 DEF TypeOK
  <2>3. granted' \in BOOLEAN
    BY <1>17, SaveResetEffect DEF TypeOK
  <2>4. memory' \in [Process -> Config]
    BY <1>17, SaveResetEffect, TaskFields DEF TypeOK
  <2>. QED
    BY <1>17, <2>1, <2>2, <2>3, <2>4, SaveResetEffect DEF TypeOK, Frame, Counted
<1>18. ASSUME NEW p \in Process, ToggleLaunch(p) PROVE TypeOK'
  <2>1. PICK c \in Config : memory' = [memory EXCEPT ![p] = c]
                            /\ (Saved(c) \/ NotSaved)
    BY <1>18, ToggleEffect
  <2>2. file' \in Config \cup {Missing, Corrupt} /\ unseen' \in [Process -> BOOLEAN]
    BY <2>1, SavedType
  <2>3. memory' \in [Process -> Config]
    BY <2>1 DEF TypeOK
  <2>. QED  BY <1>18, <2>2, <2>3, ToggleEffect DEF TypeOK, Frame, Counted
<1>19. ASSUME NEW p \in Process, GrantCapabilities(p) PROVE TypeOK'
  <2>1. PICK c \in Config : memory' = [memory EXCEPT ![p] = c]
                            /\ (Saved(c) \/ NotSaved)
    BY <1>19, GrantEffect
  <2>2. file' \in Config \cup {Missing, Corrupt} /\ unseen' \in [Process -> BOOLEAN]
    BY <2>1, SavedType
  <2>3. memory' \in [Process -> Config]
    BY <2>1 DEF TypeOK
  <2>4. granted' \in BOOLEAN /\ approving' \in [Process -> Nat]
    <3>1. approving[p] - 1 \in Nat
      <4>1. approving[p] > 0
        BY <1>19 DEF GrantCapabilities
      <4>2. approving[p] \in Nat
        BY ApprovingType
      <4>. QED  BY <4>1, <4>2
    <3>. QED  BY <1>19, <3>1, GrantEffect, ApprovingType
  <2>. QED  BY <1>19, <2>2, <2>3, <2>4, GrantEffect DEF TypeOK, Frame, Counted
<1>20. ASSUME NEW p \in Process, NEW d \in Device, RegisterDevice(p, d)
       PROVE  TypeOK'
  <2>1. registry' \in [Process -> SUBSET Device] /\ deviceFile' \in SUBSET Device
    BY <1>20, RegisterDeviceEffect DEF TypeOK, Registers
  <2>2. paired' \in SUBSET Device
    BY <1>20, RegisterDeviceEffect DEF TypeOK
  <2>3. approving' \in [Process -> Nat]
    <3>1. approving[p] + 1 \in Nat
      BY ApprovingType
    <3>. QED  BY <1>20, <3>1, RegisterDeviceEffect, ApprovingType
  <2>. QED
    BY <1>20, <2>1, <2>2, <2>3, RegisterDeviceEffect DEF TypeOK, Counted
<1>21. ASSUME NEW p \in Process, NEW d \in Device, RevokeDevice(p, d)
       PROVE  TypeOK'
  <2>1. registry' \in [Process -> SUBSET Device] /\ deviceFile' \in SUBSET Device
    BY <1>21, RevokeDeviceEffect DEF TypeOK, Registers
  <2>2. paired' \in SUBSET Device
    BY <1>21, RevokeDeviceEffect DEF TypeOK
  <2>. QED  BY <1>21, <2>1, <2>2, RevokeDeviceEffect DEF TypeOK, Counted
<1>22. CASE EditFile
  <2>1. mishap' \in SUBSET Mishaps
    BY <1>22, EditEffect DEF TypeOK, Mishaps
  <2>. QED  BY <1>22, <2>1, EditEffect DEF TypeOK
<1>23. CASE DropCredential
  BY <1>23 DEF DropCredential, Event, TypeOK, trayVars, historyVars, NoToken
<1>24. ASSUME NEW p \in Process, ApproveNobody(p) PROVE TypeOK'
  BY <1>24, ApproveNobodyEffect DEF TypeOK
<1>. QED
  BY <1>1, <1>2, <1>3, <1>4, <1>5, <1>6, <1>7, <1>8, <1>9, <1>10, <1>11, <1>12,
     <1>13, <1>14, <1>15, <1>16, <1>17, <1>18, <1>19, <1>20, <1>21, <1>22, <1>23,
     <1>24
  DEF Next, Load, Launch, Reload, Rotate, Reset

\* What a step of p leaves in place: the other processes, and a lock that was
\* not touched while p gains no tray.
LEMMA OthersPlaced ==
  ASSUME Places, NEW p \in Process, Frame(p),
         \A q \in Process \ {p} : approving'[q] = approving[q],
         Placed(p)', approving'[p] > 0 => Running(p)'
  PROVE  Places'
BY DEF Places, Placed, Frame, Same, At, Running, Loading

LEMMA TrayStays ==
  ASSUME TypeOK, OneTray, NEW p \in Process, Frame(p), mishap \subseteq mishap',
         instance' = instance,
         Running(p)' \/ At(p)' = "registry" => Running(p) \/ At(p) = "registry"
  PROVE  OneTray'
BY DEF OneTray, Frame, Same, At, Running

LEMMA EndsPlaced ==
  ASSUME NEW p \in Process
  PROVE  /\ Ends(p, "idle") => Placed(p)' /\ Running(p)'
         /\ Ends(p, "off") => Placed(p)' /\ ~Running(p)' /\ At(p)' # "registry"
BY DEF Ends, Placed, Running, At, Loading

LEMMA PlacesStep ==
  ASSUME TypeOK, Places, [Next]_vars
  PROVE  Places'
<1>0. CASE UNCHANGED vars
  BY <1>0 DEF vars, storeVars, trayVars, Places, Placed, At, Running, Loading
<1> SUFFICES ASSUME Next PROVE Places'
  BY <1>0
<1>1. ASSUME NEW p \in Process, Start(p) PROVE Places'
  <2>1. Placed(p)' /\ ~Running(p)
    BY <1>1, StartEffect DEF Begins, Placed, At, Loading, Running, Places
  <2>2. ~(approving[p] > 0) /\ approving' = approving /\ Frame(p)
    BY <1>1, <2>1, StartEffect DEF Places
  <2>. QED  BY <2>1, <2>2, OthersPlaced
<1>2. ASSUME NEW p \in Process, ReadFile(p) PROVE Places'
  <2>1. Placed(p)' /\ (Running(p) => Running(p)')
    BY <1>2, ReadEffect DEF Goes, Placed, At, Loading, Running, Places
  <2>. QED  BY <1>2, <2>1, ReadEffect, OthersPlaced DEF Places
<1>3. ASSUME NEW p \in Process, HydrateLoad(p) PROVE Places'
  <2>1. Placed(p)' /\ (Running(p) => Running(p)')
    BY <1>3, HydrateLoadEffect DEF Goes, Placed, At, Loading, Running, Places
  <2>. QED  BY <1>3, <2>1, HydrateLoadEffect, OthersPlaced DEF Places
<1>4. ASSUME NEW p \in Process, HydrateStore(p) PROVE Places'
  <2>1. Placed(p)' /\ (Running(p) => Running(p)')
    BY <1>4, HydrateStoreEffect DEF Goes, Placed, At, Loading, Running, Places
  <2>. QED  BY <1>4, <2>1, HydrateStoreEffect, OthersPlaced DEF Places
<1>5. ASSUME NEW p \in Process, SaveLoaded(p) PROVE Places'
  <2>1. Placed(p)' /\ (Running(p) => Running(p)')
    BY <1>5, SaveLoadedEffect, EndsPlaced
    DEF Goes, Placed, At, Loading, Running, Places
  <2>. QED  BY <1>5, <2>1, SaveLoadedEffect, OthersPlaced DEF Places
<1>6. ASSUME NEW p \in Process, PrepareInstall(p) PROVE Places'
  <2>1. Placed(p)' /\ ~Running(p)
    BY <1>6, PrepareEffect, EndsPlaced DEF Placed, At, Loading, Running, Places
  <2>. QED  BY <1>6, <2>1, PrepareEffect, OthersPlaced DEF Places
<1>7. ASSUME NEW p \in Process, AcquireInstance(p) PROVE Places'
  <2>1. Placed(p)' /\ ~Running(p)
    BY <1>7, AcquireEffect, EndsPlaced
    DEF Goes, Placed, At, Loading, Running, Places
  <2>. QED  BY <1>7, <2>1, AcquireEffect, OthersPlaced DEF Places
<1>8. ASSUME NEW p \in Process, StartTray(p) PROVE Places'
  BY <1>8, StartTrayEffect, EndsPlaced, OthersPlaced
<1>9. ASSUME NEW p \in Process, BeginReload(p) PROVE Places'
  <2>1. Placed(p)' /\ Running(p)'
    BY <1>9, BeginReloadEffect DEF Begins, Placed, At, Loading, Running
  <2>. QED  BY <1>9, <2>1, BeginReloadEffect, OthersPlaced
<1>10. ASSUME NEW p \in Process, AssignReload(p) PROVE Places'
  BY <1>10, AssignEffect, EndsPlaced, OthersPlaced
<1>11. ASSUME NEW p \in Process, Stop(p) PROVE Places'
  <2>1. /\ approving'[p] = 0
        /\ \A q \in Process \ {p} : approving'[q] = approving[q]
    BY <1>11, StopEffect DEF TypeOK
  <2>. QED  BY <1>11, <2>1, StopEffect, EndsPlaced, OthersPlaced
<1>12. ASSUME NEW p \in Process, RotateToken(p) PROVE Places'
  <2>1. Placed(p)' /\ Running(p)'
    BY <1>12, RotateEffect DEF Begins, Placed, At, Loading, Running
  <2>. QED  BY <1>12, <2>1, RotateEffect, OthersPlaced
<1>13. ASSUME NEW p \in Process, SaveRotation(p) PROVE Places'
  <2>1. Placed(p)' /\ Running(p)'
    BY <1>13, SaveRotationEffect, EndsPlaced
    DEF Goes, Placed, At, Loading, Running, Places
  <2>. QED  BY <1>13, <2>1, SaveRotationEffect, OthersPlaced
<1>14. ASSUME NEW p \in Process, RevokeRotated(p) PROVE Places'
  BY <1>14, RevokeRotatedEffect, EndsPlaced, OthersPlaced
<1>15. ASSUME NEW p \in Process, ResetRegistry(p) PROVE Places'
  <2>1. Placed(p)' /\ Running(p)'
    BY <1>15, ResetRegistryEffect DEF Begins, Placed, At, Loading, Running
  <2>. QED  BY <1>15, <2>1, ResetRegistryEffect, OthersPlaced
<1>16. ASSUME NEW p \in Process, ResetDelete(p) PROVE Places'
  <2>1. Placed(p)' /\ Running(p)'
    BY <1>16, ResetDeleteEffect DEF Begins, Placed, At, Loading, Running
  <2>. QED  BY <1>16, <2>1, ResetDeleteEffect, OthersPlaced
<1>17. ASSUME NEW p \in Process, SaveReset(p) PROVE Places'
  BY <1>17, SaveResetEffect, EndsPlaced, OthersPlaced
<1>18. ASSUME NEW p \in Process, ToggleLaunch(p) PROVE Places'
  BY <1>18, ToggleEffect, EndsPlaced, OthersPlaced
<1>19. ASSUME NEW p \in Process, GrantCapabilities(p) PROVE Places'
  <2>1. \A q \in Process \ {p} : approving'[q] = approving[q]
    BY <1>19, GrantEffect DEF TypeOK
  <2>2. Placed(p)' /\ Running(p)' /\ Frame(p)
    <3>1. Same(p) /\ Frame(p) /\ Placed(p) /\ Running(p)
      BY <1>19, GrantEffect DEF Places
    <3>. QED  BY <3>1 DEF Same, Placed, At, Loading, Running
  <2>. QED  BY <2>1, <2>2, OthersPlaced
<1>20. ASSUME NEW p \in Process, NEW d \in Device, RegisterDevice(p, d)
       PROVE  Places'
  <2>1. \A q \in Process \ {p} : approving'[q] = approving[q]
    BY <1>20, RegisterDeviceEffect DEF TypeOK
  <2>. QED
    BY <1>20, <2>1, RegisterDeviceEffect
    DEF Places, Placed, At, Running, Loading
<1>21. ASSUME NEW p \in Process, NEW d \in Device, RevokeDevice(p, d)
       PROVE  Places'
  BY <1>21, RevokeDeviceEffect DEF Places, Placed, At, Running, Loading
<1>22. CASE EditFile
  BY <1>22, EditEffect DEF Places, Placed, At, Running, Loading
<1>23. CASE DropCredential
  BY <1>23 DEF DropCredential, trayVars, Places, Placed, At, Running, Loading
<1>24. ASSUME NEW p \in Process, ApproveNobody(p) PROVE Places'
  BY <1>24, ApproveNobodyEffect
  DEF Places, Placed, At, Running, Loading
<1>. QED
  BY <1>1, <1>2, <1>3, <1>4, <1>5, <1>6, <1>7, <1>8, <1>9, <1>10, <1>11, <1>12,
     <1>13, <1>14, <1>15, <1>16, <1>17, <1>18, <1>19, <1>20, <1>21, <1>22, <1>23,
     <1>24
  DEF Next, Load, Launch, Reload, Rotate, Reset

LEMMA OneTrayStep ==
  ASSUME TypeOK, Places, OneTray, [Next]_vars
  PROVE  OneTray'
<1>0. CASE UNCHANGED vars
  BY <1>0 DEF vars, storeVars, historyVars, OneTray, At, Running
<1> SUFFICES ASSUME Next PROVE OneTray'
  BY <1>0
<1>1. ASSUME NEW p \in Process, Start(p) PROVE OneTray'
  BY <1>1, StartEffect, TrayStays DEF Begins, At, Running
<1>2. ASSUME NEW p \in Process, ReadFile(p) PROVE OneTray'
  BY <1>2, ReadEffect, TrayStays DEF Goes, At, Running, Counted
<1>3. ASSUME NEW p \in Process, HydrateLoad(p) PROVE OneTray'
  BY <1>3, HydrateLoadEffect, TrayStays DEF Goes, At, Running, Counted
<1>4. ASSUME NEW p \in Process, HydrateStore(p) PROVE OneTray'
  BY <1>4, HydrateStoreEffect, TrayStays DEF Goes, At, Running, Counted
<1>5. ASSUME NEW p \in Process, SaveLoaded(p) PROVE OneTray'
  <2>1. Running(p)' \/ At(p)' = "registry" => Running(p)
    BY <1>5, SaveLoadedEffect, EndsPlaced DEF Goes, At, Running
  <2>. QED  BY <1>5, <2>1, SaveLoadedEffect, TrayStays DEF Counted
<1>6. ASSUME NEW p \in Process, PrepareInstall(p) PROVE OneTray'
  BY <1>6, PrepareEffect, EndsPlaced, TrayStays DEF Counted
<1>7. ASSUME NEW p \in Process, AcquireInstance(p) PROVE OneTray'
  <2>1. CASE Ends(p, "off") /\ instance' = instance
    BY <1>7, <2>1, AcquireEffect, EndsPlaced, TrayStays DEF Counted
  <2>2. CASE "lock" \in mishap'
    BY <2>2 DEF OneTray
  <2>3. CASE instance = NoProcess /\ instance' = p
    <3>1. "lock" \notin mishap => \A q \in Process : ~Running(q) /\ At(q) # "registry"
      BY <2>3, ProcessAssumption DEF OneTray
    <3>. QED
      BY <1>7, <2>3, <3>1, AcquireEffect
      DEF Counted, OneTray, Frame, Same, At, Running
  <2>. QED  BY <1>7, <2>1, <2>2, <2>3, AcquireEffect
<1>8. ASSUME NEW p \in Process, StartTray(p) PROVE OneTray'
  BY <1>8, StartTrayEffect, TrayStays DEF Counted
<1>9. ASSUME NEW p \in Process, BeginReload(p) PROVE OneTray'
  BY <1>9, BeginReloadEffect, TrayStays DEF Running
<1>10. ASSUME NEW p \in Process, AssignReload(p) PROVE OneTray'
  <2>1. Running(p)
    BY <1>10, AssignEffect DEF Places, Placed, Running
  <2>. QED  BY <1>10, <2>1, AssignEffect, TrayStays DEF Counted
<1>11. ASSUME NEW p \in Process, Stop(p) PROVE OneTray'
  <2>1. \A q \in Process \ {p} :
          instance = q => instance' = q
    BY <1>11, StopEffect
  <2>. QED
    BY <1>11, <2>1, StopEffect, EndsPlaced DEF OneTray, Frame, Same, At, Running
<1>12. ASSUME NEW p \in Process, RotateToken(p) PROVE OneTray'
  BY <1>12, RotateEffect, TrayStays DEF Running, Counted
<1>13. ASSUME NEW p \in Process, SaveRotation(p) PROVE OneTray'
  <2>1. Running(p)
    BY <1>13, SaveRotationEffect DEF Places, Placed, Running
  <2>. QED  BY <1>13, <2>1, SaveRotationEffect, TrayStays DEF Counted
<1>14. ASSUME NEW p \in Process, RevokeRotated(p) PROVE OneTray'
  <2>1. Running(p)
    BY <1>14, RevokeRotatedEffect DEF Places, Placed, Running
  <2>. QED  BY <1>14, <2>1, RevokeRotatedEffect, TrayStays DEF Counted
<1>15. ASSUME NEW p \in Process, ResetRegistry(p) PROVE OneTray'
  BY <1>15, ResetRegistryEffect, TrayStays DEF Running, Counted
<1>16. ASSUME NEW p \in Process, ResetDelete(p) PROVE OneTray'
  <2>1. Running(p)
    BY <1>16, ResetDeleteEffect DEF Places, Placed, Running
  <2>. QED  BY <1>16, <2>1, ResetDeleteEffect, TrayStays DEF Counted
<1>17. ASSUME NEW p \in Process, SaveReset(p) PROVE OneTray'
  BY <1>17, SaveResetEffect, TrayStays DEF Running, Counted
<1>18. ASSUME NEW p \in Process, ToggleLaunch(p) PROVE OneTray'
  BY <1>18, ToggleEffect, TrayStays DEF Running, Counted
<1>19. ASSUME NEW p \in Process, GrantCapabilities(p) PROVE OneTray'
  <2>1. Running(p)
    BY <1>19, GrantEffect DEF Places
  <2>. QED  BY <1>19, <2>1, GrantEffect, TrayStays DEF Counted
<1>20. ASSUME NEW p \in Process, NEW d \in Device, RegisterDevice(p, d)
       PROVE  OneTray'
  BY <1>20, RegisterDeviceEffect DEF OneTray, At, Running, Counted
<1>21. ASSUME NEW p \in Process, NEW d \in Device, RevokeDevice(p, d)
       PROVE  OneTray'
  BY <1>21, RevokeDeviceEffect DEF OneTray, At, Running, Counted
<1>22. CASE EditFile
  BY <1>22, EditEffect DEF OneTray, At, Running
<1>23. CASE DropCredential
  BY <1>23 DEF DropCredential, historyVars, OneTray, At, Running
<1>24. ASSUME NEW p \in Process, ApproveNobody(p) PROVE OneTray'
  BY <1>24, ApproveNobodyEffect DEF OneTray, At, Running
<1>. QED
  BY <1>1, <1>2, <1>3, <1>4, <1>5, <1>6, <1>7, <1>8, <1>9, <1>10, <1>11, <1>12,
     <1>13, <1>14, <1>15, <1>16, <1>17, <1>18, <1>19, <1>20, <1>21, <1>22, <1>23,
     <1>24
  DEF Next, Load, Launch, Reload, Rotate, Reset

LEMMA MishapsStay ==
  ASSUME TypeOK, Places, [Next]_vars
  PROVE  mishap \subseteq mishap'
<1>0. CASE UNCHANGED vars
  BY <1>0 DEF vars, historyVars
<1> SUFFICES ASSUME Next PROVE mishap \subseteq mishap'
  BY <1>0
<1>1. ASSUME NEW p \in Process,
             Start(p) \/ Load(p) \/ Launch(p) \/ Reload(p) \/ Stop(p)
      PROVE  mishap \subseteq mishap'
  BY <1>1, StartEffect, ReadEffect, HydrateLoadEffect, HydrateStoreEffect,
     SaveLoadedEffect, PrepareEffect, AcquireEffect, StartTrayEffect,
     BeginReloadEffect, AssignEffect, StopEffect
  DEF Load, Launch, Reload, Counted
<1>2. ASSUME NEW p \in Process,
             \/ RotateToken(p) \/ Rotate(p) \/ ResetRegistry(p) \/ Reset(p)
             \/ ToggleLaunch(p) \/ ApproveNobody(p) \/ GrantCapabilities(p)
      PROVE  mishap \subseteq mishap'
  BY <1>2, RotateEffect, SaveRotationEffect, RevokeRotatedEffect,
     ResetRegistryEffect, ResetDeleteEffect, SaveResetEffect, ToggleEffect,
     ApproveNobodyEffect, GrantEffect
  DEF Rotate, Reset, Counted
<1>3. ASSUME NEW p \in Process, NEW d \in Device,
             RegisterDevice(p, d) \/ RevokeDevice(p, d)
      PROVE  mishap \subseteq mishap'
  BY <1>3, RegisterDeviceEffect, RevokeDeviceEffect DEF Counted
<1>4. EditFile \/ DropCredential => mishap \subseteq mishap'
  BY EditEffect DEF DropCredential, historyVars
<1>. QED  BY <1>1, <1>2, <1>3, <1>4 DEF Next

---------------------------------------------------------------------------
(* The registry                                                             *)

LEMMA RegistryStays ==
  ASSUME RegistryIsDurable, mishap \subseteq mishap',
         UNCHANGED <<registry, deviceFile, paired>>,
         \A q \in Process : Running(q)' => Running(q)
  PROVE  RegistryIsDurable'
BY DEF RegistryIsDurable

LEMMA OthersRun ==
  ASSUME NEW p \in Process, Frame(p)
  PROVE  \A q \in Process \ {p} : Running(q)' <=> Running(q)
BY DEF Frame, Same, Running, At

LEMMA OnlyTray ==
  ASSUME OneTray, NEW p \in Process, Running(p), "lock" \notin mishap
  PROVE  \A q \in Process \ {p} : ~Running(q)
BY DEF OneTray

LEMMA RevokesDurable ==
  ASSUME TypeOK, OneTray, RegistryIsDurable, mishap \subseteq mishap',
         NEW p \in Process, Frame(p), Running(p), Revokes(p)
  PROVE  RegistryIsDurable'
<1> SUFFICES ASSUME "devices" \notin mishap', "lock" \notin mishap'
             PROVE  RegistryIsDurable'
  BY DEF RegistryIsDurable
<1>1. /\ deviceFile = paired /\ registry[p] = paired
      /\ \A q \in Process \ {p} : ~Running(q)'
  BY OnlyTray, OthersRun DEF RegistryIsDurable
<1>2. registry'[p] = {} /\ paired' = {} /\ deviceFile' = {}
  BY <1>1 DEF Revokes, TypeOK
<1>. QED  BY <1>1, <1>2 DEF RegistryIsDurable

LEMMA RegistersDurable ==
  ASSUME TypeOK, OneTray, RegistryIsDurable, mishap \subseteq mishap',
         NEW p \in Process, UNCHANGED task, Running(p),
         NEW s, Registers(p, s), registry[p] = paired => paired' = s
  PROVE  RegistryIsDurable'
<1> SUFFICES ASSUME "devices" \notin mishap', "lock" \notin mishap'
             PROVE  RegistryIsDurable'
  BY DEF RegistryIsDurable
<1>1. /\ deviceFile = paired /\ registry[p] = paired
      /\ \A q \in Process \ {p} : ~Running(q)'
  BY OnlyTray DEF RegistryIsDurable, Running, At
<1>2. registry'[p] = s /\ paired' = s /\ deviceFile' = s
  BY <1>1 DEF Registers, TypeOK
<1>. QED  BY <1>1, <1>2 DEF RegistryIsDurable

LEMMA RegistryStep ==
  ASSUME Control, RegistryIsDurable, [Next]_vars
  PROVE  RegistryIsDurable'
<1> USE DEF Control
<1>0. CASE UNCHANGED vars
  BY <1>0 DEF vars, storeVars, trayVars, historyVars, RegistryIsDurable, At, Running
<1> SUFFICES ASSUME Next PROVE RegistryIsDurable'
  BY <1>0
<1>a. mishap \subseteq mishap'
  BY MishapsStay
<1>1. ASSUME NEW p \in Process, Start(p) PROVE RegistryIsDurable'
  <2>1. ~Running(p)'
    BY <1>1, StartEffect DEF Begins, At, Running
  <2>. QED  BY <1>a, <1>1, <2>1, StartEffect, OthersRun, RegistryStays
<1>2. ASSUME NEW p \in Process, ReadFile(p) PROVE RegistryIsDurable'
  <2>1. Running(p)' => Running(p)
    BY <1>2, ReadEffect DEF Goes, At, Running
  <2>. QED  BY <1>a, <1>2, <2>1, ReadEffect, OthersRun, RegistryStays
<1>3. ASSUME NEW p \in Process, HydrateLoad(p) PROVE RegistryIsDurable'
  <2>1. Running(p)' => Running(p)
    BY <1>3, HydrateLoadEffect DEF Goes, At, Running
  <2>. QED  BY <1>a, <1>3, <2>1, HydrateLoadEffect, OthersRun, RegistryStays
<1>4. ASSUME NEW p \in Process, HydrateStore(p) PROVE RegistryIsDurable'
  <2>1. Running(p)' => Running(p)
    BY <1>4, HydrateStoreEffect DEF Goes, At, Running
  <2>. QED  BY <1>a, <1>4, <2>1, HydrateStoreEffect, OthersRun, RegistryStays
<1>5. ASSUME NEW p \in Process, SaveLoaded(p) PROVE RegistryIsDurable'
  <2>1. Running(p)' => Running(p)
    BY <1>5, SaveLoadedEffect, EndsPlaced DEF Goes, At, Running
  <2>. QED  BY <1>a, <1>5, <2>1, SaveLoadedEffect, OthersRun, RegistryStays
<1>6. ASSUME NEW p \in Process, PrepareInstall(p) PROVE RegistryIsDurable'
  BY <1>a, <1>6, PrepareEffect, EndsPlaced, OthersRun, RegistryStays
<1>7. ASSUME NEW p \in Process, AcquireInstance(p) PROVE RegistryIsDurable'
  <2>1. Running(p)' => Running(p)
    BY <1>7, AcquireEffect, EndsPlaced DEF Goes, At, Running
  <2>. QED  BY <1>a, <1>7, <2>1, AcquireEffect, OthersRun, RegistryStays
<1>8. ASSUME NEW p \in Process, StartTray(p) PROVE RegistryIsDurable'
  <2>1. CASE "devices" \in mishap'
    BY <2>1 DEF RegistryIsDurable
  <2>2. CASE registry' = [registry EXCEPT ![p] = deviceFile]
    <3>1. /\ registry'[p] = deviceFile
          /\ \A q \in Process \ {p} : registry'[q] = registry[q]
      BY <2>2 DEF TypeOK
    <3>2. UNCHANGED <<deviceFile, paired>>
      BY <1>8, StartTrayEffect
    <3>3. \A q \in Process \ {p} : Running(q)' => Running(q)
      BY <1>8, StartTrayEffect, OthersRun
    <3>. QED  BY <1>a, <3>1, <3>2, <3>3 DEF RegistryIsDurable
  <2>. QED  BY <1>8, <2>1, <2>2, StartTrayEffect
<1>9. ASSUME NEW p \in Process, BeginReload(p) PROVE RegistryIsDurable'
  <2>1. Running(p)
    BY <1>9, BeginReloadEffect DEF Running
  <2>. QED  BY <1>a, <1>9, <2>1, BeginReloadEffect, OthersRun, RegistryStays
<1>10. ASSUME NEW p \in Process, AssignReload(p) PROVE RegistryIsDurable'
  <2>1. Running(p)
    BY <1>10, AssignEffect DEF Places, Placed, Running
  <2>. QED  BY <1>a, <1>10, <2>1, AssignEffect, OthersRun, RegistryStays
<1>11. ASSUME NEW p \in Process, Stop(p) PROVE RegistryIsDurable'
  <2>1. \A q \in Process \ {p} : registry'[q] = registry[q]
    BY <1>11, StopEffect DEF TypeOK
  <2>2. \A q \in Process : Running(q)' => Running(q) /\ q # p
    BY <1>11, StopEffect, EndsPlaced, OthersRun
  <2>3. UNCHANGED <<deviceFile, paired>>
    BY <1>11, StopEffect
  <2>. QED  BY <1>a, <2>1, <2>2, <2>3 DEF RegistryIsDurable
<1>12. ASSUME NEW p \in Process, RotateToken(p) PROVE RegistryIsDurable'
  <2>1. Running(p)
    BY <1>12, RotateEffect DEF Running
  <2>. QED  BY <1>a, <1>12, <2>1, RotateEffect, OthersRun, RegistryStays
<1>13. ASSUME NEW p \in Process, SaveRotation(p) PROVE RegistryIsDurable'
  <2>1. Running(p)
    BY <1>13, SaveRotationEffect DEF Places, Placed, Running
  <2>. QED  BY <1>a, <1>13, <2>1, SaveRotationEffect, OthersRun, RegistryStays
<1>14. ASSUME NEW p \in Process, RevokeRotated(p) PROVE RegistryIsDurable'
  <2>1. Running(p)
    BY <1>14, RevokeRotatedEffect DEF Places, Placed, Running
  <2>. QED  BY <1>a, <1>14, <2>1, RevokeRotatedEffect, RevokesDurable
<1>15. ASSUME NEW p \in Process, ResetRegistry(p) PROVE RegistryIsDurable'
  <2>1. Running(p)
    BY <1>15, ResetRegistryEffect DEF Running
  <2>. QED  BY <1>a, <1>15, <2>1, ResetRegistryEffect, RevokesDurable
<1>16. ASSUME NEW p \in Process, ResetDelete(p) PROVE RegistryIsDurable'
  <2>1. Running(p)
    BY <1>16, ResetDeleteEffect DEF Places, Placed, Running
  <2>. QED  BY <1>a, <1>16, <2>1, ResetDeleteEffect, OthersRun, RegistryStays
<1>17. ASSUME NEW p \in Process, SaveReset(p) PROVE RegistryIsDurable'
  <2>1. Running(p)
    BY <1>17, SaveResetEffect DEF Running
  <2>. QED  BY <1>a, <1>17, <2>1, SaveResetEffect, OthersRun, RegistryStays
<1>18. ASSUME NEW p \in Process, ToggleLaunch(p) PROVE RegistryIsDurable'
  <2>1. Running(p)
    BY <1>18, ToggleEffect DEF Running
  <2>. QED  BY <1>a, <1>18, <2>1, ToggleEffect, OthersRun, RegistryStays
<1>19. ASSUME NEW p \in Process, GrantCapabilities(p) PROVE RegistryIsDurable'
  <2>1. Running(p)
    BY <1>19, GrantEffect DEF Places
  <2>. QED  BY <1>a, <1>19, <2>1, GrantEffect, OthersRun, RegistryStays
<1>20. ASSUME NEW p \in Process, NEW d \in Device, RegisterDevice(p, d)
       PROVE  RegistryIsDurable'
  BY <1>a, <1>20, RegisterDeviceEffect, RegistersDurable
<1>21. ASSUME NEW p \in Process, NEW d \in Device, RevokeDevice(p, d)
       PROVE  RegistryIsDurable'
  <2>1. Running(p)
    BY <1>21, RevokeDeviceEffect DEF Running
  <2>. QED  BY <1>a, <1>21, <2>1, RevokeDeviceEffect, RegistersDurable
<1>22. CASE EditFile
  BY <1>a, <1>22, EditEffect, RegistryStays DEF Running, At
<1>23. CASE DropCredential
  BY <1>a, <1>23, RegistryStays DEF DropCredential, Running, At, trayVars, historyVars
<1>24. ASSUME NEW p \in Process, ApproveNobody(p) PROVE RegistryIsDurable'
  BY <1>a, <1>24, ApproveNobodyEffect, RegistryStays DEF Running, At
<1>. QED
  BY <1>1, <1>2, <1>3, <1>4, <1>5, <1>6, <1>7, <1>8, <1>9, <1>10, <1>11, <1>12,
     <1>13, <1>14, <1>15, <1>16, <1>17, <1>18, <1>19, <1>20, <1>21, <1>22, <1>23,
     <1>24
  DEF Next, Load, Launch, Reload, Rotate, Reset

---------------------------------------------------------------------------
(* The capabilities                                                         *)

LEMMA ExcusesStay ==
  ASSUME mishap \subseteq mishap', ~Excused'
  PROVE  /\ ~Excused /\ "lock" \notin mishap /\ "config" \notin mishap'
         /\ "config race" \notin mishap' /\ "damage" \notin mishap'
         /\ "missed change" \notin mishap' /\ "capability edit" \notin mishap'
BY DEF Excused

LEMMA GrantsOthers ==
  ASSUME NEW p \in Process, Frame(p), \A q \in Process : GrantsOf(q),
         \A q \in Process \ {p} : memory'[q] = memory[q],
         granted' = granted
  PROVE  \A q \in Process \ {p} : GrantsOf(q)'
BY DEF Frame, Same, GrantsOf, Running, Loading, At

\* A decision makes the loads of the others stale, and there is no other tray.
LEMMA GrantsAged ==
  ASSUME OneTray, "lock" \notin mishap, NEW p \in Process, Running(p),
         Frame(p), Aged(p), \A q \in Process : GrantsOf(q)
  PROVE  \A q \in Process \ {p} : GrantsOf(q)'
<1>1. \A q \in Process \ {p} : ~Running(q)
  BY OnlyTray
<1>. QED  BY <1>1 DEF Frame, Aged, Same, GrantsOf, Running, Loading, At

LEMMA EndsGrants ==
  ASSUME NEW p \in Process
  PROVE  /\ Ends(p, "off") => GrantsOf(p)'
         /\ Ends(p, "idle") /\ memory'[p].granted = granted' => GrantsOf(p)'
BY DEF Ends, GrantsOf, Running, Loading, At

LEMMA SavedGrants ==
  ASSUME TypeOK, NEW c \in Config, Saved(c)
  PROVE  file' # Corrupt /\ file' # Missing /\ file'.granted = c.granted
BY OnDiskFields, FileAssumption DEF Saved

LEMMA GrantsStep ==
  ASSUME Control, GrantsFollow, [Next]_vars
  PROVE  GrantsFollow'
<1> USE DEF Control
<1>0. CASE UNCHANGED vars
  BY <1>0 DEF vars, storeVars, trayVars, historyVars, GrantsFollow, Excused,
     GrantsOnDisk, GrantsOf, At, Running, Loading
<1> SUFFICES ASSUME Next, ~Excused'
             PROVE  GrantsOnDisk' /\ \A q \in Process : GrantsOf(q)'
  BY <1>0 DEF GrantsFollow
<1>a. /\ mishap \subseteq mishap' /\ ~Excused /\ "lock" \notin mishap
      /\ "config" \notin mishap' /\ "config race" \notin mishap'
      /\ "damage" \notin mishap' /\ "missed change" \notin mishap'
      /\ "capability edit" \notin mishap'
  BY MishapsStay, ExcusesStay
<1>b. GrantsOnDisk /\ \A q \in Process : GrantsOf(q)
  BY <1>a DEF GrantsFollow
<1>c. ~NotSaved
  BY <1>a DEF NotSaved
<1>d. \A q \in Process : memory[q] \in Config
  BY DEF TypeOK
<1> DEFINE Goal == GrantsOnDisk' /\ \A q \in Process : GrantsOf(q)'
<1>1. ASSUME NEW p \in Process, Start(p) PROVE Goal
  <2>1. GrantsOf(p)'
    BY <1>1, StartEffect DEF Begins, GrantsOf, Running, Loading, At
  <2>2. GrantsOnDisk'
    BY <1>1, <1>b, StartEffect DEF GrantsOnDisk
  <2>. QED  BY <1>1, <1>b, <2>1, <2>2, StartEffect, GrantsOthers
<1>2. ASSUME NEW p \in Process, ReadFile(p) PROVE Goal
  <2>1. task'[p].draft.granted = granted
    <3>1. \/ file \in Config /\ task'[p].draft = file
          \/ file = Missing /\ task'[p].draft = Default
      BY <1>2, <1>a, <1>b, ReadEffect DEF GrantsOnDisk
    <3>2. CASE file = Missing /\ task'[p].draft = Default
      <4>1. granted = FALSE /\ Default.granted = FALSE
        BY <1>b, <3>2 DEF GrantsOnDisk, TypeOK, Default
      <4>. QED  BY <3>2, <4>1
    <3>. QED  BY <1>b, <3>1, <3>2 DEF GrantsOnDisk
  <2>2. Loading(p)
    BY <1>2, ReadEffect DEF Places, Placed
  <2>3. GrantsOf(p)'
    BY <1>2, <1>b, <2>1, <2>2, ReadEffect
    DEF Goes, GrantsOf, Running, Loading, At
  <2>4. GrantsOnDisk'
    BY <1>2, <1>b, ReadEffect DEF GrantsOnDisk
  <2>. QED  BY <1>2, <1>b, <2>3, <2>4, ReadEffect, GrantsOthers
<1>3. ASSUME NEW p \in Process, HydrateLoad(p) PROVE Goal
  <2>1. GrantsOf(p)'
    BY <1>3, <1>b, HydrateLoadEffect DEF Goes, GrantsOf, Running, Loading, At
  <2>2. GrantsOnDisk'
    BY <1>3, <1>b, HydrateLoadEffect DEF GrantsOnDisk
  <2>. QED  BY <1>3, <1>b, <2>1, <2>2, HydrateLoadEffect, GrantsOthers
<1>4. ASSUME NEW p \in Process, HydrateStore(p) PROVE Goal
  <2>1. GrantsOf(p)'
    BY <1>4, <1>b, HydrateStoreEffect DEF Goes, GrantsOf, Running, Loading, At
  <2>2. GrantsOnDisk'
    BY <1>4, <1>b, HydrateStoreEffect DEF GrantsOnDisk
  <2>. QED  BY <1>4, <1>b, <2>1, <2>2, HydrateStoreEffect, GrantsOthers
<1>5. ASSUME NEW p \in Process, SaveLoaded(p) PROVE Goal
  <2>1. /\ Saved(task[p].draft) /\ task'[p].op # "none"
        /\ task[p].stale => file' = file
    BY <1>5, <1>a, <1>c, SaveLoadedEffect DEF Saved
  <2>2. /\ task'[p].draft = task[p].draft /\ task'[p].stale = task[p].stale
        /\ task'[p].op = task[p].op
        /\ Running(p)' <=> Running(p)
        /\ At(p) # "read" /\ At(p)' # "read" /\ Loading(p)
    BY <1>5, <2>1, SaveLoadedEffect DEF Ends, Goes, Running, At
  <2>3. GrantsOf(p)'
    BY <1>5, <1>b, <2>2, SaveLoadedEffect DEF GrantsOf, Loading
  <2>4. GrantsOnDisk'
    <3>1. CASE task[p].stale
      BY <1>5, <1>b, <2>1, <3>1, SaveLoadedEffect DEF GrantsOnDisk
    <3>2. CASE ~task[p].stale
      <4>1. task[p].draft.granted = granted
        BY <1>b, <2>2, <3>2 DEF GrantsOf
      <4>2. file'.granted = granted /\ file' # Missing /\ file' # Corrupt
        BY <2>1, <4>1, TaskFields, SavedGrants
      <4>. QED  BY <1>5, <4>2, SaveLoadedEffect DEF GrantsOnDisk
    <3>. QED  BY <3>1, <3>2
  <2>. QED  BY <1>5, <1>b, <2>3, <2>4, SaveLoadedEffect, GrantsOthers
<1>6. ASSUME NEW p \in Process, PrepareInstall(p) PROVE Goal
  <2>1. /\ Saved(InstallPosture(task[p].draft))
        /\ task[p].stale => file' = file
    BY <1>6, <1>a, <1>c, PrepareEffect DEF Saved
  <2>2. GrantsOnDisk'
    <3>1. CASE task[p].stale
      BY <1>6, <1>b, <2>1, <3>1, PrepareEffect DEF GrantsOnDisk
    <3>2. CASE ~task[p].stale
      <4>1. task[p].draft.granted = granted
        BY <1>6, <1>b, <3>2, PrepareEffect DEF GrantsOf, Places, Placed
      <4>2. file'.granted = granted /\ file' # Missing /\ file' # Corrupt
        BY <2>1, <4>1, TaskFields, PostureFields, SavedGrants
      <4>. QED  BY <1>6, <4>2, PrepareEffect DEF GrantsOnDisk
    <3>. QED  BY <3>1, <3>2
  <2>. QED  BY <1>6, <1>b, <2>2, PrepareEffect, EndsGrants, GrantsOthers
<1>7. ASSUME NEW p \in Process, AcquireInstance(p) PROVE Goal
  <2>1. GrantsOf(p)'
    BY <1>7, <1>b, AcquireEffect, EndsGrants
    DEF Goes, GrantsOf, Running, Loading, At
  <2>2. GrantsOnDisk'
    BY <1>7, <1>b, AcquireEffect DEF GrantsOnDisk
  <2>. QED  BY <1>7, <1>b, <2>1, <2>2, AcquireEffect, GrantsOthers
<1>8. ASSUME NEW p \in Process, StartTray(p) PROVE Goal
  <2>1. ~task[p].stale
    BY <1>8, <1>a, StartTrayEffect
  <2>2. task[p].draft.granted = granted
    BY <1>8, <1>b, <2>1, StartTrayEffect DEF GrantsOf, Places, Placed
  <2>3. /\ memory'[p] = task[p].draft
        /\ \A q \in Process \ {p} : memory'[q] = memory[q]
    BY <1>8, StartTrayEffect DEF TypeOK
  <2>4. GrantsOf(p)'
    BY <1>8, <2>2, <2>3, StartTrayEffect, EndsGrants
  <2>5. GrantsOnDisk'
    BY <1>8, <1>b, StartTrayEffect DEF GrantsOnDisk
  <2>. QED  BY <1>8, <1>b, <2>3, <2>4, <2>5, StartTrayEffect, GrantsOthers
<1>9. ASSUME NEW p \in Process, BeginReload(p) PROVE Goal
  <2>1. GrantsOf(p)'
    BY <1>9, <1>b, BeginReloadEffect
    DEF Begins, GrantsOf, Running, Loading, At
  <2>2. GrantsOnDisk'
    BY <1>9, <1>b, BeginReloadEffect DEF GrantsOnDisk
  <2>. QED  BY <1>9, <1>b, <2>1, <2>2, BeginReloadEffect, GrantsOthers
<1>10. ASSUME NEW p \in Process, AssignReload(p) PROVE Goal
  <2>1. Running(p) /\ Loading(p)
    BY <1>10, AssignEffect DEF Places, Placed, Running, Loading
  <2>2. memory'[p].granted = granted
        /\ \A q \in Process \ {p} : memory'[q] = memory[q]
    BY <1>10, <1>a, <1>b, <2>1, AssignEffect DEF GrantsOf, TypeOK
  <2>3. GrantsOf(p)'
    BY <1>10, <2>2, AssignEffect, EndsGrants
  <2>4. GrantsOnDisk'
    BY <1>10, <1>b, AssignEffect DEF GrantsOnDisk
  <2>. QED  BY <1>10, <1>b, <2>2, <2>3, <2>4, AssignEffect, GrantsOthers
<1>11. ASSUME NEW p \in Process, Stop(p) PROVE Goal
  <2>1. \A q \in Process \ {p} : memory'[q] = memory[q]
    BY <1>11, StopEffect DEF TypeOK
  <2>2. GrantsOnDisk'
    BY <1>11, <1>b, StopEffect DEF GrantsOnDisk
  <2>. QED  BY <1>11, <1>b, <2>1, <2>2, StopEffect, EndsGrants, GrantsOthers
<1>12. ASSUME NEW p \in Process, RotateToken(p) PROVE Goal
  <2>1. Running(p)
    BY <1>12, RotateEffect DEF Running
  <2>2. GrantsOf(p)'
    BY <1>12, <1>b, <2>1, RotateEffect DEF Begins, GrantsOf, Running, Loading, At
  <2>3. GrantsOnDisk'
    BY <1>12, <1>b, RotateEffect DEF GrantsOnDisk
  <2>. QED  BY <1>12, <1>b, <2>2, <2>3, RotateEffect, GrantsOthers
<1>13. ASSUME NEW p \in Process, SaveRotation(p) PROVE Goal
  <2>1. Running(p) /\ task[p].op = "rotate"
    BY <1>13, SaveRotationEffect DEF Places, Placed, Running
  <2>2. Saved(memory[p])
    BY <1>13, <1>c, SaveRotationEffect
  <2>3. file'.granted = granted /\ file' # Missing /\ file' # Corrupt
    BY <1>b, <1>d, <2>1, <2>2, SavedGrants DEF GrantsOf
  <2>4. GrantsOf(p)'
    BY <1>13, <1>b, <1>c, <2>1, SaveRotationEffect
    DEF Goes, GrantsOf, Running, Loading, At
  <2>5. GrantsOnDisk'
    BY <1>13, <2>3, SaveRotationEffect DEF GrantsOnDisk
  <2>. QED  BY <1>13, <1>b, <2>4, <2>5, SaveRotationEffect, GrantsOthers
<1>14. ASSUME NEW p \in Process, RevokeRotated(p) PROVE Goal
  <2>1. Running(p)
    BY <1>14, RevokeRotatedEffect DEF Places, Placed, Running
  <2>2. GrantsOf(p)'
    BY <1>14, <1>b, <2>1, RevokeRotatedEffect, EndsGrants DEF GrantsOf
  <2>3. GrantsOnDisk'
    BY <1>14, <1>b, RevokeRotatedEffect DEF GrantsOnDisk
  <2>. QED  BY <1>14, <1>b, <2>2, <2>3, RevokeRotatedEffect, GrantsOthers
<1>15. ASSUME NEW p \in Process, ResetRegistry(p) PROVE Goal
  <2>1. GrantsOf(p)'
    BY <1>15, <1>b, ResetRegistryEffect, DefaultFields
    DEF Begins, GrantsOf, Running, Loading, At
  <2>2. GrantsOnDisk'
    BY <1>15, <1>b, ResetRegistryEffect DEF GrantsOnDisk
  <2>. QED  BY <1>15, <1>b, <2>1, <2>2, ResetRegistryEffect, GrantsOthers
<1>16. ASSUME NEW p \in Process, ResetDelete(p) PROVE Goal
  <2>1. Running(p)
    BY <1>16, ResetDeleteEffect DEF Places, Placed, Running
  <2>2. GrantsOf(p)'
    BY <1>16, <1>b, <2>1, ResetDeleteEffect, DefaultFields
    DEF Begins, GrantsOf, Running, Loading, At
  <2>3. GrantsOnDisk'
    BY <1>16, <1>b, ResetDeleteEffect DEF GrantsOnDisk
  <2>. QED  BY <1>16, <1>b, <2>2, <2>3, ResetDeleteEffect, GrantsOthers
<1>17. ASSUME NEW p \in Process, SaveReset(p) PROVE Goal
  <2>1. Running(p) /\ task[p].op = "reset" /\ ~task[p].draft.granted
    BY <1>17, <1>b, SaveResetEffect DEF Running, GrantsOf
  <2>2. Saved(task[p].draft) /\ granted' = FALSE
    BY <1>17, <1>c, SaveResetEffect
  <2>3. file' # Missing /\ file' # Corrupt /\ ~file'.granted
    BY <2>1, <2>2, TaskFields, SavedGrants
  <2>4. memory'[p] = task[p].draft
    BY <1>17, SaveResetEffect DEF TypeOK
  <2>5. task[p].draft.granted = FALSE /\ file'.granted = FALSE
    BY <2>1, <2>2, <2>3, OnDiskFields, TaskFields, ConfigFields DEF Saved
  <2>6. GrantsOf(p)'
    BY <1>17, <2>2, <2>4, <2>5, SaveResetEffect, EndsGrants
  <2>7. GrantsOnDisk'
    BY <2>2, <2>3, <2>5 DEF GrantsOnDisk
  <2>8. \A q \in Process \ {p} : GrantsOf(q)'
    BY <1>17, <1>a, <1>b, <2>1, SaveResetEffect, GrantsAged
  <2>. QED  BY <2>6, <2>7, <2>8
<1>18. ASSUME NEW p \in Process, ToggleLaunch(p) PROVE Goal
  <2>1. PICK c \in Config :
          /\ c.granted = memory[p].granted
          /\ memory' = [memory EXCEPT ![p] = c]
          /\ Saved(c) \/ NotSaved
    BY <1>18, ToggleEffect
  <2>2. c.granted = granted
    BY <1>18, <1>b, <2>1, ToggleEffect DEF GrantsOf, Running
  <2>3. file'.granted = granted /\ file' # Missing /\ file' # Corrupt
    BY <1>c, <2>1, <2>2, SavedGrants
  <2>4. memory'[p] = c /\ \A q \in Process \ {p} : memory'[q] = memory[q]
    BY <2>1 DEF TypeOK
  <2>5. GrantsOf(p)'
    BY <1>18, <2>2, <2>4, ToggleEffect, EndsGrants
  <2>6. GrantsOnDisk'
    BY <1>18, <2>3, ToggleEffect DEF GrantsOnDisk
  <2>. QED  BY <1>18, <1>b, <2>4, <2>5, <2>6, ToggleEffect, GrantsOthers
<1>19. ASSUME NEW p \in Process, GrantCapabilities(p) PROVE Goal
  <2>1. Running(p)
    BY <1>19, GrantEffect DEF Places
  <2>2. PICK c \in Config :
          /\ c.granted /\ memory' = [memory EXCEPT ![p] = c]
          /\ Saved(c) \/ NotSaved
    BY <1>19, GrantEffect
  <2>3. c.granted = TRUE /\ granted' = TRUE
    BY <1>19, <2>2, GrantEffect, ConfigFields
  <2>4. file'.granted = TRUE /\ file' # Missing /\ file' # Corrupt
    BY <1>c, <2>2, <2>3, SavedGrants
  <2>5. memory'[p] = c
    BY <2>2 DEF TypeOK
  <2>6. GrantsOf(p)'
    BY <1>19, <1>b, <2>3, <2>5, GrantEffect
    DEF Same, GrantsOf, Running, Loading, At
  <2>7. GrantsOnDisk'
    BY <2>3, <2>4 DEF GrantsOnDisk
  <2>8. \A q \in Process \ {p} : GrantsOf(q)'
    BY <1>19, <1>a, <1>b, <2>1, GrantEffect, GrantsAged
  <2>. QED  BY <2>6, <2>7, <2>8
<1>20. ASSUME NEW p \in Process, NEW d \in Device,
              RegisterDevice(p, d) \/ RevokeDevice(p, d)
       PROVE  Goal
  <2>1. UNCHANGED <<task, memory, file, granted>>
    BY <1>20, RegisterDeviceEffect, RevokeDeviceEffect
  <2>. QED
    BY <1>b, <2>1 DEF GrantsOnDisk, GrantsOf, Running, Loading, At
<1>21. CASE EditFile
  <2>1. file \in Config /\ file' \in Config /\ file'.granted = file.granted
    BY <1>21, <1>a, EditEffect
  <2>2. GrantsOnDisk'
    BY <1>21, <1>b, <2>1, EditEffect, FileAssumption DEF GrantsOnDisk
  <2>. QED
    BY <1>21, <1>b, <2>2, EditEffect DEF GrantsOf, Running, Loading, At
<1>22. CASE DropCredential
  BY <1>22, <1>b
  DEF DropCredential, trayVars, historyVars, GrantsOnDisk, GrantsOf, Running,
      Loading, At
<1>23. ASSUME NEW p \in Process, ApproveNobody(p) PROVE Goal
  <2>1. UNCHANGED <<task, memory, file, granted>>
    BY <1>23, ApproveNobodyEffect
  <2>. QED
    BY <1>b, <2>1 DEF GrantsOnDisk, GrantsOf, Running, Loading, At
<1>. QED
  BY <1>1, <1>2, <1>3, <1>4, <1>5, <1>6, <1>7, <1>8, <1>9, <1>10, <1>11, <1>12,
     <1>13, <1>14, <1>15, <1>16, <1>17, <1>18, <1>19, <1>20, <1>21, <1>22, <1>23
  DEF Next, Load, Launch, Reload, Rotate, Reset

---------------------------------------------------------------------------
(* The tokens: born                                                         *)

LEMMA BornOthers ==
  ASSUME TypeOK, NEW p \in Process, Frame(p), \A q \in Process : BornOf(q),
         minted' \in Nat, minted <= minted',
         \A q \in Process \ {p} : memory'[q] = memory[q]
  PROVE  \A q \in Process \ {p} : BornOf(q)'
<1> SUFFICES ASSUME NEW q \in Process \ {p} PROVE BornOf(q)'
  OBVIOUS
<1>1. /\ task[q].draft.token \in Nat /\ task[q].before.token \in Nat
      /\ memory[q].token \in Nat /\ minted \in Nat
  BY TokenTypes DEF TypeOK
<1>2. BornOf(q) /\ Same(q) /\ memory'[q] = memory[q]
  BY DEF Frame
<1>. QED  BY <1>1, <1>2 DEF Same, BornOf, Running, ConfigLocked, At

LEMMA EndsBorn ==
  ASSUME TypeOK', NEW p \in Process, memory'[p].token <= minted'
  PROVE  /\ Ends(p, "off") => BornOf(p)'
         /\ Ends(p, "idle") /\ memory'[p].token > 0 => BornOf(p)'
<1>1. minted' \in Nat
  BY DEF TypeOK
<1>. QED
  BY <1>1, DefaultFields DEF Ends, BornOf, Running, ConfigLocked, At

LEMMA SavedToken ==
  ASSUME NEW c \in Config, Saved(c)
  PROVE  /\ file' \in Config /\ file'.token \in {0, c.token}
         /\ c.storage = "keyring" => file'.token = 0
BY OnDiskFields DEF Saved

LEMMA StoresBornStay ==
  ASSUME TypeOK, StoresBorn, minted' \in Nat, minted <= minted',
         UNCHANGED <<file, retired>>, keyring' \in Nat, keyring' <= minted'
  PROVE  StoresBorn'
<1>1. minted \in Nat /\ retired \in SUBSET Nat
  BY DEF TypeOK
<1>2. \A t \in retired : t \in Nat /\ t <= minted
  BY <1>1 DEF StoresBorn
<1>3. \A t \in retired : t <= minted'
  BY <1>1, <1>2
<1>4. file \in Config => file.token \in Nat /\ file.token <= minted'
  BY <1>1, ConfigFields DEF StoresBorn
<1>. QED  BY <1>3, <1>4 DEF StoresBorn

LEMMA BornStep ==
  ASSUME Control, TokensBorn, [Next]_vars
  PROVE  TokensBorn'
<1> USE DEF Control
<1>0. CASE UNCHANGED vars
  BY <1>0 DEF vars, storeVars, trayVars, historyVars, TokensBorn, StoresBorn,
     BornOf, At, Running, ConfigLocked
<1> SUFFICES ASSUME Next PROVE TokensBorn'
  BY <1>0
<1>a. TypeOK'
  BY TypeStep
<1>b. /\ StoresBorn /\ \A q \in Process : BornOf(q)
      /\ minted \in Nat /\ keyring \in Nat /\ keyring <= minted
  BY DEF TokensBorn, StoresBorn, TypeOK
<1>c. \A q \in Process : /\ task[q].draft.token \in Nat
                         /\ task[q].before.token \in Nat
                         /\ memory[q].token \in Nat /\ memory[q].token <= minted
  BY <1>b, TokenTypes DEF BornOf
<1>1. ASSUME NEW p \in Process, Start(p) PROVE TokensBorn'
  <2>1. BornOf(p)'
    BY <1>1, <1>b, <1>c, StartEffect, DefaultFields
    DEF Begins, BornOf, Running, ConfigLocked, At
  <2>2. StoresBorn'
    BY <1>1, <1>b, StartEffect DEF StoresBorn
  <2>. QED  BY <1>1, <1>b, <2>1, <2>2, StartEffect, BornOthers DEF TokensBorn
<1>2. ASSUME NEW p \in Process, ReadFile(p) PROVE TokensBorn'
  <2>1. task'[p].draft.token <= minted
    BY <1>2, <1>b, ReadEffect, DefaultFields, PostureFields DEF StoresBorn
  <2>2. Loading(p)
    BY <1>2, ReadEffect DEF Places, Placed
  <2>3. BornOf(p)'
    BY <1>2, <1>b, <1>c, <2>1, <2>2, ReadEffect
    DEF Goes, BornOf, Running, ConfigLocked, At, Loading
  <2>4. StoresBorn'
    BY <1>2, <1>b, ReadEffect DEF StoresBorn
  <2>. QED  BY <1>2, <1>b, <2>3, <2>4, ReadEffect, BornOthers DEF TokensBorn
<1>3. ASSUME NEW p \in Process, HydrateLoad(p) PROVE TokensBorn'
  <2>1. /\ task'[p].draft.token <= minted' /\ task'[p].draft.token > 0
        /\ minted' \in Nat /\ minted <= minted'
    BY <1>3, <1>b, <1>c, HydrateLoadEffect DEF NoToken, BornOf
  <2>2. At(p) = "hydrate" /\ At(p)' \in {"save", "store"} /\ Goes(p, At(p)')
    BY <1>3, HydrateLoadEffect DEF Goes, At
  <2>3. BornOf(p)'
    BY <1>3, <1>b, <1>c, <2>1, <2>2, HydrateLoadEffect
    DEF Goes, BornOf, Running, ConfigLocked, At
  <2>4. StoresBorn'
    BY <1>3, <1>b, <2>1, HydrateLoadEffect, StoresBornStay
  <2>. QED
    BY <1>3, <1>b, <2>1, <2>3, <2>4, HydrateLoadEffect, BornOthers DEF TokensBorn
<1>4. ASSUME NEW p \in Process, HydrateStore(p) PROVE TokensBorn'
  <2>1. BornOf(p)'
    BY <1>4, <1>b, <1>c, HydrateStoreEffect
    DEF Goes, BornOf, Running, ConfigLocked, At
  <2>2. keyring' \in Nat /\ keyring' <= minted
    BY <1>4, <1>b, <1>c, HydrateStoreEffect DEF BornOf
  <2>3. Frame(p) /\ UNCHANGED <<file, minted, memory, retired>>
    BY <1>4, HydrateStoreEffect
  <2>4. StoresBorn'
    BY <1>b, <2>2, <2>3, StoresBornStay
  <2>. QED  BY <1>b, <2>1, <2>3, <2>4, BornOthers DEF TokensBorn
<1>5. ASSUME NEW p \in Process, SaveLoaded(p) PROVE TokensBorn'
  <2>1. UNCHANGED <<keyring, minted, memory, retired>> /\ Frame(p)
    BY <1>5, SaveLoadedEffect
  <2>2. BornOf(p)'
    <3>1. CASE Ends(p, "idle") /\ task[p].op = "reload"
      BY <1>a, <1>b, <1>c, <2>1, <3>1, EndsBorn DEF BornOf, Running
    <3>2. CASE Ends(p, "off")
      BY <1>a, <1>c, <2>1, <3>2, EndsBorn
    <3>3. CASE /\ task'[p].draft = task[p].draft /\ At(p) = "save" /\ Loading(p)
               /\ \E pc \in {"lock", "posture", "assign"} : Goes(p, pc)
      BY <1>b, <1>c, <2>1, <3>3
      DEF Goes, BornOf, Running, ConfigLocked, At, Loading
    <3>. QED  BY <1>5, <3>1, <3>2, <3>3, SaveLoadedEffect
  <2>3. StoresBorn'
    <3>1. CASE Saved(task[p].draft)
      BY <1>b, <1>c, <2>1, <3>1, TaskFields, SavedToken DEF StoresBorn, BornOf
    <3>2. CASE NotSaved
      BY <1>b, <2>1, <3>2 DEF StoresBorn, NotSaved
    <3>. QED  BY <1>5, <3>1, <3>2, SaveLoadedEffect
  <2>. QED  BY <1>b, <2>1, <2>2, <2>3, BornOthers DEF TokensBorn
<1>6. ASSUME NEW p \in Process, PrepareInstall(p) PROVE TokensBorn'
  <2>1. Frame(p) /\ UNCHANGED <<keyring, minted, memory, retired>>
    BY <1>6, PrepareEffect
  <2>2. BornOf(p)'
    BY <1>6, <1>a, <1>b, <1>c, PrepareEffect, EndsBorn
  <2>3. StoresBorn'
    <3>1. InstallPosture(task[p].draft) \in Config
          /\ InstallPosture(task[p].draft).token = task[p].draft.token
      BY TaskFields, PostureFields
    <3>2. CASE Saved(InstallPosture(task[p].draft))
      BY <1>b, <1>c, <2>1, <3>1, <3>2, SavedToken DEF StoresBorn, BornOf
    <3>3. CASE NotSaved
      BY <1>b, <2>1, <3>3 DEF StoresBorn, NotSaved
    <3>. QED  BY <1>6, <3>2, <3>3, PrepareEffect
  <2>. QED  BY <1>b, <2>1, <2>2, <2>3, BornOthers DEF TokensBorn
<1>7. ASSUME NEW p \in Process, AcquireInstance(p) PROVE TokensBorn'
  <2>1. Frame(p) /\ UNCHANGED <<keyring, file, minted, memory, retired>>
    BY <1>7, AcquireEffect
  <2>2. BornOf(p)'
    <3>1. CASE Ends(p, "off")
      BY <1>a, <1>c, <2>1, <3>1, EndsBorn
    <3>2. CASE /\ Goes(p, "registry") /\ task'[p].draft = task[p].draft
               /\ At(p) = "lock" /\ task[p].op = "start"
      BY <1>b, <1>c, <2>1, <3>2 DEF Goes, BornOf, Running, ConfigLocked, At
    <3>. QED  BY <1>7, <3>1, <3>2, AcquireEffect DEF Places, Placed
  <2>3. StoresBorn'
    BY <1>b, <2>1 DEF StoresBorn
  <2>. QED  BY <1>b, <2>1, <2>2, <2>3, BornOthers DEF TokensBorn
<1>8. ASSUME NEW p \in Process, StartTray(p) PROVE TokensBorn'
  <2>1. /\ memory'[p] = task[p].draft
        /\ \A q \in Process \ {p} : memory'[q] = memory[q]
    BY <1>8, StartTrayEffect DEF TypeOK
  <2>2. BornOf(p)'
    BY <1>8, <1>a, <1>b, <1>c, <2>1, StartTrayEffect, EndsBorn DEF BornOf
  <2>3. StoresBorn'
    BY <1>8, <1>b, StartTrayEffect DEF StoresBorn
  <2>. QED
    <3>1. Frame(p) /\ minted' = minted
      BY <1>8, StartTrayEffect
    <3>. QED  BY <1>b, <2>1, <2>2, <2>3, <3>1, BornOthers DEF TokensBorn
<1>9. ASSUME NEW p \in Process, BeginReload(p) PROVE TokensBorn'
  <2>1. BornOf(p)'
    BY <1>9, <1>b, <1>c, BeginReloadEffect, DefaultFields
    DEF Begins, BornOf, Running, ConfigLocked, At
  <2>2. StoresBorn'
    BY <1>9, <1>b, BeginReloadEffect DEF StoresBorn
  <2>. QED
    BY <1>9, <1>b, <2>1, <2>2, BeginReloadEffect, BornOthers DEF TokensBorn
<1>10. ASSUME NEW p \in Process, AssignReload(p) PROVE TokensBorn'
  <2>1. Running(p)
    BY <1>10, AssignEffect DEF Places, Placed, Running
  <2>2. /\ memory'[p].token > 0 /\ memory'[p].token <= minted
        /\ \A q \in Process \ {p} : memory'[q] = memory[q]
    BY <1>10, <1>b, <2>1, AssignEffect DEF BornOf, TypeOK
  <2>3. BornOf(p)'
    BY <1>10, <1>a, <1>b, <2>2, AssignEffect, EndsBorn
  <2>4. StoresBorn'
    BY <1>10, <1>b, AssignEffect DEF StoresBorn
  <2>. QED
    <3>1. Frame(p) /\ minted' = minted
      BY <1>10, AssignEffect
    <3>. QED  BY <1>b, <2>2, <2>3, <2>4, <3>1, BornOthers DEF TokensBorn
<1>11. ASSUME NEW p \in Process, Stop(p) PROVE TokensBorn'
  <2>1. /\ memory'[p] = Default
        /\ \A q \in Process \ {p} : memory'[q] = memory[q]
    BY <1>11, StopEffect DEF TypeOK
  <2>2. BornOf(p)'
    BY <1>11, <1>a, <1>b, <2>1, StopEffect, EndsBorn, DefaultFields
  <2>3. StoresBorn'
    BY <1>11, <1>b, StopEffect DEF StoresBorn
  <2>. QED
    BY <1>11, <1>b, <2>1, <2>2, <2>3, StopEffect, BornOthers DEF TokensBorn
<1>12. ASSUME NEW p \in Process, RotateToken(p) PROVE TokensBorn'
  <2>1. /\ minted' \in Nat /\ minted <= minted' /\ Running(p)
        /\ keyring' \in Nat /\ keyring' <= minted'
    BY <1>12, <1>b, RotateEffect DEF Running
  <2>2. BornOf(p)'
    BY <1>12, <1>b, <1>c, <2>1, RotateEffect, DefaultFields
    DEF Begins, BornOf, Running, ConfigLocked, At
  <2>3. StoresBorn'
    BY <1>12, <1>b, <2>1, RotateEffect, StoresBornStay
  <2>. QED
    BY <1>12, <1>b, <2>1, <2>2, <2>3, RotateEffect, BornOthers DEF TokensBorn
<1>13. ASSUME NEW p \in Process, SaveRotation(p) PROVE TokensBorn'
  <2>1. /\ Running(p) /\ ConfigLocked(p) /\ task[p].op = "rotate"
        /\ memory[p] \in Config /\ memory[p].token > 0
        /\ task[p].before.token > 0 /\ task[p].before.token <= minted
    BY <1>13, <1>b, SaveRotationEffect
    DEF Places, Placed, Running, ConfigLocked, TypeOK, BornOf
  <2>2. Frame(p) /\ UNCHANGED <<keyring, minted, memory>>
    BY <1>13, SaveRotationEffect
  <2>3. BornOf(p)'
    <3>1. CASE Ends(p, "idle")
      BY <1>a, <1>c, <2>1, <2>2, <3>1, EndsBorn
    <3>2. CASE Goes(p, "rotateRevoke") /\ task'[p].draft = task[p].draft
      BY <1>b, <1>c, <2>1, <2>2, <3>2
      DEF Goes, BornOf, Running, ConfigLocked, At
    <3>. QED  BY <1>13, <3>1, <3>2, SaveRotationEffect
  <2>4. StoresBorn'
    BY <1>13, <1>b, <1>c, <2>1, SaveRotationEffect, SavedToken
    DEF StoresBorn, NotSaved
  <2>. QED
    BY <1>b, <2>2, <2>3, <2>4, BornOthers DEF TokensBorn
<1>14. ASSUME NEW p \in Process, RevokeRotated(p) PROVE TokensBorn'
  <2>1. Running(p)
    BY <1>14, RevokeRotatedEffect DEF Places, Placed, Running
  <2>2. BornOf(p)'
    BY <1>14, <1>a, <1>b, <1>c, <2>1, RevokeRotatedEffect, EndsBorn DEF BornOf
  <2>3. StoresBorn'
    BY <1>14, <1>b, RevokeRotatedEffect DEF StoresBorn
  <2>. QED
    BY <1>14, <1>b, <2>2, <2>3, RevokeRotatedEffect, BornOthers DEF TokensBorn
<1>15. ASSUME NEW p \in Process, ResetRegistry(p) PROVE TokensBorn'
  <2>1. BornOf(p)'
    BY <1>15, <1>b, <1>c, ResetRegistryEffect, DefaultFields
    DEF Begins, BornOf, Running, ConfigLocked, At
  <2>2. StoresBorn'
    BY <1>15, <1>b, ResetRegistryEffect DEF StoresBorn
  <2>. QED
    BY <1>15, <1>b, <2>1, <2>2, ResetRegistryEffect, BornOthers DEF TokensBorn
<1>16. ASSUME NEW p \in Process, ResetDelete(p) PROVE TokensBorn'
  <2>1. Running(p) /\ keyring' \in Nat /\ keyring' <= minted
    BY <1>16, <1>b, ResetDeleteEffect DEF Places, Placed, Running, NoToken
  <2>2. BornOf(p)'
    BY <1>16, <1>b, <1>c, <2>1, ResetDeleteEffect, DefaultFields
    DEF Begins, BornOf, Running, ConfigLocked, At
  <2>3. StoresBorn'
    BY <1>16, <1>b, <2>1, ResetDeleteEffect, StoresBornStay
  <2>. QED
    BY <1>16, <1>b, <2>2, <2>3, ResetDeleteEffect, BornOthers DEF TokensBorn
<1>17. ASSUME NEW p \in Process, SaveReset(p) PROVE TokensBorn'
  <2>1. /\ task[p].draft \in Config /\ task[p].draft.token > 0
        /\ task[p].before.token > 0 /\ task[p].before.token <= minted
        /\ task[p].draft.token <= minted
    BY <1>17, <1>b, SaveResetEffect, TaskFields DEF BornOf, ConfigLocked
  <2>2. /\ memory'[p] = task[p].draft
        /\ \A q \in Process \ {p} : memory'[q] = memory[q]
    BY <1>17, SaveResetEffect DEF TypeOK
  <2>3. Frame(p) /\ UNCHANGED <<keyring, minted>>
    BY <1>17, SaveResetEffect
  <2>4. BornOf(p)'
    BY <1>17, <1>a, <1>b, <2>1, <2>2, SaveResetEffect, EndsBorn
  <2>5. StoresBorn'
    <3>1. CASE /\ Saved(task[p].draft)
               /\ retired' = retired \cup {task[p].before.token}
      BY <1>b, <1>c, <2>1, <2>3, <3>1, SavedToken DEF StoresBorn
    <3>2. CASE NotSaved /\ retired' = retired
      BY <1>b, <2>3, <3>2 DEF StoresBorn, NotSaved
    <3>. QED  BY <1>17, <3>1, <3>2, SaveResetEffect
  <2>. QED  BY <1>b, <2>2, <2>4, <2>5, <2>3, BornOthers DEF TokensBorn
<1>18. ASSUME NEW p \in Process, ToggleLaunch(p) PROVE TokensBorn'
  <2>1. PICK c \in Config :
          /\ c.token = memory[p].token
          /\ memory' = [memory EXCEPT ![p] = c]
          /\ Saved(c) \/ NotSaved
    BY <1>18, ToggleEffect
  <2>2. memory'[p] = c /\ \A q \in Process \ {p} : memory'[q] = memory[q]
    BY <2>1 DEF TypeOK
  <2>3. BornOf(p)'
    BY <1>18, <1>a, <1>b, <1>c, <2>1, <2>2, ToggleEffect, EndsBorn
    DEF BornOf, Running
  <2>4. StoresBorn'
    BY <1>18, <1>b, <1>c, <2>1, ToggleEffect, SavedToken DEF StoresBorn, NotSaved
  <2>. QED
    BY <1>18, <1>b, <2>2, <2>3, <2>4, ToggleEffect, BornOthers DEF TokensBorn
<1>19. ASSUME NEW p \in Process, GrantCapabilities(p) PROVE TokensBorn'
  <2>1. PICK c \in Config :
          /\ c.token = memory[p].token
          /\ memory' = [memory EXCEPT ![p] = c]
          /\ Saved(c) \/ NotSaved
    BY <1>19, GrantEffect
  <2>2. memory'[p] = c /\ \A q \in Process \ {p} : memory'[q] = memory[q]
    BY <2>1 DEF TypeOK
  <2>3. Same(p) /\ Frame(p) /\ UNCHANGED <<keyring, minted, retired>>
    BY <1>19, GrantEffect
  <2>4. BornOf(p)'
    BY <1>b, <2>1, <2>2, <2>3 DEF Same, BornOf, Running, ConfigLocked, At
  <2>5. StoresBorn'
    <3>1. CASE Saved(c)
      BY <1>b, <1>c, <2>1, <2>3, <3>1, SavedToken DEF StoresBorn
    <3>2. CASE NotSaved
      BY <1>b, <2>3, <3>2 DEF StoresBorn, NotSaved
    <3>. QED  BY <2>1, <3>1, <3>2
  <2>. QED  BY <1>b, <2>2, <2>3, <2>4, <2>5, BornOthers DEF TokensBorn
<1>20. ASSUME NEW p \in Process, NEW d \in Device,
              RegisterDevice(p, d) \/ RevokeDevice(p, d)
       PROVE  TokensBorn'
  <2>1. UNCHANGED <<task, memory, file, keyring, minted, retired>>
    BY <1>20, RegisterDeviceEffect, RevokeDeviceEffect
  <2>. QED
    BY <1>b, <2>1 DEF TokensBorn, StoresBorn, BornOf, Running, ConfigLocked, At
<1>21. CASE EditFile
  <2>1. /\ file' \in Config => file \in Config /\ file'.token = file.token
        /\ UNCHANGED <<task, memory, keyring, minted, retired>>
    BY <1>21, EditEffect, FileAssumption
  <2>. QED
    BY <1>b, <2>1 DEF TokensBorn, StoresBorn, BornOf, Running, ConfigLocked, At
<1>22. CASE DropCredential
  BY <1>22, <1>b
  DEF DropCredential, trayVars, historyVars, NoToken, TokensBorn, StoresBorn,
      BornOf, Running, ConfigLocked, At
<1>23. ASSUME NEW p \in Process, ApproveNobody(p) PROVE TokensBorn'
  <2>1. UNCHANGED <<task, memory, file, keyring, minted, retired>>
    BY <1>23, ApproveNobodyEffect
  <2>. QED
    BY <1>b, <2>1 DEF TokensBorn, StoresBorn, BornOf, Running, ConfigLocked, At
<1>. QED
  BY <1>1, <1>2, <1>3, <1>4, <1>5, <1>6, <1>7, <1>8, <1>9, <1>10, <1>11, <1>12,
     <1>13, <1>14, <1>15, <1>16, <1>17, <1>18, <1>19, <1>20, <1>21, <1>22, <1>23
  DEF Next, Load, Launch, Reload, Rotate, Reset

---------------------------------------------------------------------------
(* The tokens: retired                                                      *)

LEMMA PardonsStay ==
  ASSUME mishap \subseteq mishap', ~Pardoned'
  PROVE  /\ ~Pardoned /\ "lock" \notin mishap /\ "credential" \notin mishap'
         /\ "credential race" \notin mishap' /\ "missed change" \notin mishap'
BY DEF Pardoned

LEMMA CleanOthers ==
  ASSUME NEW p \in Process, Frame(p), \A q \in Process : CleanOf(q),
         \A q \in Process \ {p} : memory'[q] = memory[q], retired' = retired,
         \A q \in Process \ {p} : ConfigLocked(q) =>
            keyring' = keyring \/ keyring' # task[q].before.token
  PROVE  \A q \in Process \ {p} : CleanOf(q)'
<1> SUFFICES ASSUME NEW q \in Process \ {p} PROVE CleanOf(q)'
  OBVIOUS
<1>1. /\ CleanOf(q) /\ Same(q) /\ memory'[q] = memory[q]
      /\ ConfigLocked(q) => keyring' = keyring \/ keyring' # task[q].before.token
  BY DEF Frame
<1>. QED  BY <1>1 DEF Same, CleanOf, Running, ConfigLocked, At

\* A retirement makes the loads of the others stale, and there is no other tray.
LEMMA CleanAged ==
  ASSUME OneTray, "lock" \notin mishap, NEW p \in Process, Running(p), Places,
         Frame(p), Aged(p), \A q \in Process : CleanOf(q)
  PROVE  \A q \in Process \ {p} : CleanOf(q)'
<1> SUFFICES ASSUME NEW q \in Process \ {p} PROVE CleanOf(q)'
  OBVIOUS
<1>1. ~Running(q) /\ CleanOf(q) /\ Same(q) /\ Placed(q)
      /\ (Loading(q) => task'[q].stale)
  BY OnlyTray DEF Frame, Aged, Places
<1>2. /\ task[q].op \notin {"reload", "rotate", "reset"}
      /\ At(q) # "idle" /\ At(q) # "rotateSave"
  BY <1>1 DEF Running, Placed
<1>. QED
  BY <1>1, <1>2 DEF Same, CleanOf, Running, ConfigLocked, At, Loading

LEMMA EndsClean ==
  ASSUME NEW p \in Process, 0 \notin retired'
  PROVE  /\ Ends(p, "off") => CleanOf(p)'
         /\ /\ Ends(p, "idle") /\ memory'[p].storage = "keyring"
            /\ memory'[p].token \notin retired'
            => CleanOf(p)'
BY DefaultFields DEF Ends, CleanOf, Running, ConfigLocked, At

LEMMA RetiredStep ==
  ASSUME Control, TokensBorn, RetiredGone, [Next]_vars
  PROVE  RetiredGone'
<1> USE DEF Control
<1>0. CASE UNCHANGED vars
  BY <1>0 DEF vars, storeVars, trayVars, historyVars, RetiredGone, Pardoned,
     StoresClean, CleanOf, At, Running, ConfigLocked
<1> DEFINE Goal == StoresClean' /\ \A q \in Process : CleanOf(q)'
<1> SUFFICES ASSUME Next, ~Pardoned' PROVE Goal
  BY <1>0 DEF RetiredGone
<1>a. /\ mishap \subseteq mishap' /\ ~Pardoned /\ "lock" \notin mishap
      /\ "credential" \notin mishap' /\ "credential race" \notin mishap'
      /\ "missed change" \notin mishap'
  BY MishapsStay, PardonsStay
<1>b. StoresClean /\ \A q \in Process : CleanOf(q) /\ BornOf(q)
  BY <1>a DEF RetiredGone, TokensBorn
<1>c. /\ minted \in Nat /\ keyring \in Nat /\ keyring <= minted
      /\ 0 \notin retired /\ minted + 1 \notin retired
  <2>1. minted \in Nat /\ keyring \in Nat /\ retired \in SUBSET Nat
    BY DEF TypeOK
  <2>2. \A t \in retired : 0 < t /\ t <= minted
    BY DEF TokensBorn, StoresBorn
  <2>3. keyring <= minted
    BY DEF TokensBorn, StoresBorn
  <2>. QED  BY <2>1, <2>2, <2>3
<1>d. \A q \in Process : /\ task[q].draft.token \in Nat
                         /\ task[q].before.token \in Nat
                         /\ memory[q].token \in Nat
  BY TokenTypes
<1>1. ASSUME NEW p \in Process, Start(p) PROVE Goal
  <2>1. Frame(p) /\ UNCHANGED <<keyring, file, memory, retired>>
    BY <1>1, StartEffect
  <2>2. CleanOf(p)'
    BY <1>1, <1>c, <2>1, StartEffect, DefaultFields
    DEF Begins, CleanOf, Running, ConfigLocked, At
  <2>3. StoresClean'
    BY <1>b, <2>1 DEF StoresClean
  <2>. QED  BY <1>b, <2>1, <2>2, <2>3, CleanOthers
<1>2. ASSUME NEW p \in Process, ReadFile(p) PROVE Goal
  <2>1. Frame(p) /\ UNCHANGED <<keyring, file, memory, retired>>
    BY <1>2, ReadEffect
  <2>2. task'[p].draft.token \notin retired
    <3>1. InstallPosture(Default).token = 0 /\ Default.token = 0
      BY DefaultFields, PostureFields
    <3>2. file \in Config => retired = {} \/ file.token = 0
      BY <1>b DEF StoresClean
    <3>. QED  BY <1>2, <1>c, <3>1, <3>2, ReadEffect
  <2>3. Loading(p) /\ Goes(p, "hydrate")
    BY <1>2, ReadEffect DEF Places, Placed
  <2>4. CleanOf(p)'
    BY <1>b, <2>1, <2>2, <2>3
    DEF Goes, CleanOf, Running, ConfigLocked, At, Loading
  <2>5. StoresClean'
    BY <1>b, <2>1 DEF StoresClean
  <2>. QED  BY <1>b, <2>1, <2>4, <2>5, CleanOthers
<1>3. ASSUME NEW p \in Process, HydrateLoad(p) PROVE Goal
  <2>1. /\ Frame(p) /\ UNCHANGED <<keyring, file, memory, retired>>
        /\ At(p) = "hydrate"
    BY <1>3, HydrateLoadEffect
  <2>2. /\ task[p].op = "reset" =>
             /\ task[p].before.token <= minted /\ ConfigLocked(p)
             /\ task[p].draft.token = 0
    BY <1>b, <2>1 DEF BornOf, ConfigLocked
  <2>3. CleanOf(p)'
    <3>1. CASE /\ Goes(p, "save") /\ task'[p].draft.token = keyring
               /\ task'[p].draft.storage = "keyring"
      BY <1>b, <2>1, <2>2, <3>1
      DEF Goes, StoresClean, CleanOf, Running, ConfigLocked, At
    <3>2. CASE Goes(p, "store") /\ task'[p].draft.token = minted + 1
      BY <1>b, <1>c, <1>d, <2>1, <2>2, <3>2
      DEF Goes, CleanOf, Running, ConfigLocked, At
    <3>3. CASE /\ Goes(p, "store") /\ task[p].draft.token # 0
               /\ task'[p].draft.token = task[p].draft.token
      BY <1>b, <2>1, <2>2, <3>3 DEF Goes, CleanOf, Running, ConfigLocked, At
    <3>. QED  BY <1>3, <3>1, <3>2, <3>3, HydrateLoadEffect DEF NoToken
  <2>4. StoresClean'
    BY <1>b, <2>1 DEF StoresClean
  <2>. QED  BY <1>b, <2>1, <2>3, <2>4, CleanOthers
<1>4. ASSUME NEW p \in Process, HydrateStore(p) PROVE Goal
  <2>1. /\ Frame(p) /\ UNCHANGED <<file, memory, retired>>
        /\ At(p) = "store" /\ Goes(p, "save")
        /\ task'[p].draft.token = task[p].draft.token
        /\ task'[p].draft.storage = "keyring"
        /\ keyring' = task[p].draft.token
    BY <1>4, <1>a, HydrateStoreEffect
  <2>2. \/ task[p].stale
        \/ \E q \in Process : ConfigLocked(q)
                              /\ task[q].before.token = task[p].draft.token
        => keyring' = keyring
    BY <1>4, <1>a, <2>1, HydrateStoreEffect
  <2>3. CleanOf(p)'
    BY <1>b, <2>1 DEF Goes, CleanOf, Running, ConfigLocked, At, Places, Placed
  <2>4. keyring' \notin retired
    BY <1>b, <2>1, <2>2 DEF CleanOf, StoresClean, Places, Placed, Loading
  <2>5. StoresClean'
    BY <1>b, <2>1, <2>4 DEF StoresClean
  <2>6. \A q \in Process : ConfigLocked(q) =>
          keyring' = keyring \/ keyring' # task[q].before.token
    BY <2>1, <2>2
  <2>. QED  BY <1>b, <2>1, <2>3, <2>5, <2>6, CleanOthers
<1>5. ASSUME NEW p \in Process, SaveLoaded(p) PROVE Goal
  <2>1. /\ Frame(p) /\ UNCHANGED <<keyring, memory, retired>>
        /\ At(p) = "save" /\ Loading(p)
    BY <1>5, SaveLoadedEffect
  <2>2. CleanOf(p)'
    <3>1. CASE Ends(p, "idle") /\ task[p].op = "reload"
      BY <1>b, <1>c, <2>1, <3>1, EndsClean DEF CleanOf, Running
    <3>2. CASE Ends(p, "off")
      BY <1>c, <2>1, <3>2, EndsClean
    <3>3. CASE /\ task'[p].draft = task[p].draft
               /\ \E pc \in {"lock", "posture", "assign"} : Goes(p, pc)
      BY <1>b, <2>1, <3>3
      DEF Goes, CleanOf, Running, ConfigLocked, At, Loading
    <3>. QED  BY <1>5, <3>1, <3>2, <3>3, SaveLoadedEffect
  <2>3. task[p].draft.storage = "keyring"
    BY <1>b, <2>1 DEF CleanOf
  <2>4. file' = file \/ file'.token = 0
    BY <1>5, <2>3, TaskFields, SaveLoadedEffect, SavedToken DEF NotSaved
  <2>5. StoresClean'
    BY <1>b, <2>1, <2>4 DEF StoresClean
  <2>. QED  BY <1>b, <2>1, <2>2, <2>5, CleanOthers
<1>6. ASSUME NEW p \in Process, PrepareInstall(p) PROVE Goal
  <2>1. /\ Frame(p) /\ UNCHANGED <<keyring, memory, retired>>
        /\ At(p) = "posture" /\ Ends(p, "off")
    BY <1>6, PrepareEffect
  <2>2. CleanOf(p)'
    BY <1>c, <2>1, EndsClean
  <2>3. /\ InstallPosture(task[p].draft) \in Config
        /\ InstallPosture(task[p].draft).storage = "keyring"
    BY <1>b, <2>1, TaskFields, PostureFields DEF CleanOf
  <2>4. file' = file \/ file'.token = 0
    BY <1>6, <2>3, PrepareEffect, SavedToken DEF NotSaved
  <2>5. StoresClean'
    BY <1>b, <2>1, <2>4 DEF StoresClean
  <2>. QED  BY <1>b, <2>1, <2>2, <2>5, CleanOthers
<1>7. ASSUME NEW p \in Process, AcquireInstance(p) PROVE Goal
  <2>1. /\ Frame(p) /\ UNCHANGED <<keyring, file, memory, retired>>
        /\ At(p) = "lock" /\ task[p].op = "start"
    BY <1>7, AcquireEffect DEF Places, Placed
  <2>2. CleanOf(p)'
    <3>1. CASE Ends(p, "off")
      BY <1>c, <2>1, <3>1, EndsClean
    <3>2. CASE Goes(p, "registry") /\ task'[p].draft = task[p].draft
      BY <1>b, <2>1, <3>2 DEF Goes, CleanOf, Running, ConfigLocked, At
    <3>. QED  BY <1>7, <3>1, <3>2, AcquireEffect
  <2>3. StoresClean'
    BY <1>b, <2>1 DEF StoresClean
  <2>. QED  BY <1>b, <2>1, <2>2, <2>3, CleanOthers
<1>8. ASSUME NEW p \in Process, StartTray(p) PROVE Goal
  <2>1. /\ Frame(p) /\ UNCHANGED <<keyring, file, retired>>
        /\ At(p) = "registry" /\ Ends(p, "idle") /\ ~task[p].stale
        /\ memory' = [memory EXCEPT ![p] = task[p].draft]
    BY <1>8, <1>a, StartTrayEffect
  <2>2. /\ memory'[p] = task[p].draft
        /\ \A q \in Process \ {p} : memory'[q] = memory[q]
    BY <2>1 DEF TypeOK
  <2>3. task[p].draft.storage = "keyring" /\ task[p].draft.token \notin retired
    BY <1>b, <2>1 DEF CleanOf, Places, Placed
  <2>4. CleanOf(p)'
    BY <1>c, <2>1, <2>2, <2>3, EndsClean
  <2>5. StoresClean'
    BY <1>b, <2>1 DEF StoresClean
  <2>. QED  BY <1>b, <2>1, <2>2, <2>4, <2>5, CleanOthers
<1>9. ASSUME NEW p \in Process, BeginReload(p) PROVE Goal
  <2>1. /\ Frame(p) /\ UNCHANGED <<keyring, file, memory, retired>>
        /\ Begins(p, "reload", "read", memory[p]) /\ Running(p)
    BY <1>9, BeginReloadEffect DEF Running
  <2>2. CleanOf(p)'
    BY <1>b, <1>c, <2>1, DefaultFields
    DEF Begins, CleanOf, Running, ConfigLocked, At
  <2>3. StoresClean'
    BY <1>b, <2>1 DEF StoresClean
  <2>. QED  BY <1>b, <2>1, <2>2, <2>3, CleanOthers
<1>10. ASSUME NEW p \in Process, AssignReload(p) PROVE Goal
  <2>1. /\ Frame(p) /\ UNCHANGED <<keyring, file, retired>>
        /\ At(p) = "assign" /\ task[p].op = "reload" /\ Ends(p, "idle")
    BY <1>10, AssignEffect DEF Places, Placed
  <2>2. /\ \A q \in Process \ {p} : memory'[q] = memory[q]
        /\ memory'[p] \in {memory[p], task[p].draft}
    BY <1>10, AssignEffect DEF TypeOK
  <2>3. /\ memory[p].storage = "keyring" /\ memory[p].token \notin retired
        /\ task[p].draft.storage = "keyring" /\ task[p].draft.token \notin retired
    BY <1>b, <2>1 DEF CleanOf, Running
  <2>4. CleanOf(p)'
    BY <1>c, <2>1, <2>2, <2>3, EndsClean
  <2>5. StoresClean'
    BY <1>b, <2>1 DEF StoresClean
  <2>. QED  BY <1>b, <2>1, <2>2, <2>4, <2>5, CleanOthers
<1>11. ASSUME NEW p \in Process, Stop(p) PROVE Goal
  <2>1. /\ Frame(p) /\ UNCHANGED <<keyring, file, retired>> /\ Ends(p, "off")
        /\ \A q \in Process \ {p} : memory'[q] = memory[q]
    BY <1>11, StopEffect DEF TypeOK
  <2>2. CleanOf(p)'
    BY <1>c, <2>1, EndsClean
  <2>3. StoresClean'
    BY <1>b, <2>1 DEF StoresClean
  <2>. QED  BY <1>b, <2>1, <2>2, <2>3, CleanOthers
<1>12. ASSUME NEW p \in Process, RotateToken(p) PROVE Goal
  <2>1. /\ Frame(p) /\ UNCHANGED <<file, retired>> /\ Running(p)
        /\ Begins(p, "rotate", "rotateSave", memory[p])
        /\ \A q \in Process \ {p} : memory'[q] = memory[q]
        /\ memory'[p].token = minted + 1 /\ memory'[p].storage = "keyring"
        /\ keyring' = minted + 1
    BY <1>12, <1>a, RotateEffect DEF Running
  <2>2. \A q \in Process : ConfigLocked(q) => keyring' # task[q].before.token
    BY <1>b, <1>c, <1>d, <2>1 DEF BornOf
  <2>3. memory[p].token # minted + 1
    BY <1>b, <1>c, <1>d DEF BornOf
  <2>4. CleanOf(p)'
    BY <1>c, <2>1, <2>3 DEF Begins, CleanOf, Running, ConfigLocked, At
  <2>5. StoresClean'
    BY <1>b, <1>c, <2>1 DEF StoresClean
  <2>. QED  BY <1>b, <2>1, <2>2, <2>4, <2>5, CleanOthers
<1>13. ASSUME NEW p \in Process, SaveRotation(p) PROVE Goal
  <2>1. /\ Frame(p) /\ UNCHANGED <<keyring, memory>> /\ Running(p)
        /\ At(p) = "rotateSave" /\ task[p].op = "rotate" /\ ConfigLocked(p)
        /\ memory[p] \in Config
    BY <1>13, SaveRotationEffect
    DEF Places, Placed, Running, ConfigLocked, TypeOK
  <2>2. /\ memory[p].storage = "keyring" /\ memory[p].token \notin retired
        /\ memory[p].token # task[p].before.token
        /\ keyring # task[p].before.token
    BY <1>b, <2>1 DEF CleanOf
  <2>3. CASE NotSaved /\ Ends(p, "idle") /\ retired' = retired
    <3>1. CleanOf(p)'
      BY <1>c, <2>1, <2>2, <2>3, EndsClean
    <3>2. StoresClean'
      BY <1>b, <2>1, <2>3 DEF StoresClean, NotSaved
    <3>. QED  BY <1>b, <2>1, <2>3, <3>1, <3>2, CleanOthers
  <2>4. CASE /\ Saved(memory[p]) /\ Aged(p) /\ Goes(p, "rotateRevoke")
             /\ retired' = retired \cup {task[p].before.token}
             /\ task'[p].draft = task[p].draft
    <3>1. CleanOf(p)'
      BY <2>1, <2>2, <2>4 DEF Goes, CleanOf, Running, ConfigLocked, At
    <3>2. file'.token = 0
      BY <2>1, <2>2, <2>4, SavedToken
    <3>3. StoresClean'
      BY <1>b, <2>1, <2>2, <2>4, <3>2 DEF StoresClean
    <3>4. \A q \in Process \ {p} : CleanOf(q)'
      BY <1>a, <1>b, <2>1, <2>4, CleanAged
    <3>. QED  BY <3>1, <3>3, <3>4
  <2>. QED  BY <1>13, <2>3, <2>4, SaveRotationEffect
<1>14. ASSUME NEW p \in Process, RevokeRotated(p) PROVE Goal
  <2>1. /\ Frame(p) /\ UNCHANGED <<keyring, file, memory, retired>>
        /\ Running(p) /\ Ends(p, "idle")
    BY <1>14, RevokeRotatedEffect DEF Places, Placed, Running
  <2>2. CleanOf(p)'
    BY <1>b, <1>c, <2>1, EndsClean DEF CleanOf
  <2>3. StoresClean'
    BY <1>b, <2>1 DEF StoresClean
  <2>. QED  BY <1>b, <2>1, <2>2, <2>3, CleanOthers
<1>15. ASSUME NEW p \in Process, ResetRegistry(p) PROVE Goal
  <2>1. /\ Frame(p) /\ UNCHANGED <<keyring, file, memory, retired>>
        /\ Running(p) /\ Begins(p, "reset", "resetDelete", Default)
    BY <1>15, ResetRegistryEffect DEF Running
  <2>2. CleanOf(p)'
    BY <1>b, <1>c, <2>1, DefaultFields
    DEF Begins, CleanOf, Running, ConfigLocked, At
  <2>3. StoresClean'
    BY <1>b, <2>1 DEF StoresClean
  <2>. QED  BY <1>b, <2>1, <2>2, <2>3, CleanOthers
<1>16. ASSUME NEW p \in Process, ResetDelete(p) PROVE Goal
  <2>1. /\ Frame(p) /\ UNCHANGED <<file, memory, retired>> /\ keyring' = 0
        /\ Running(p) /\ Begins(p, "reset", "hydrate", memory[p])
    BY <1>16, <1>a, ResetDeleteEffect DEF Places, Placed, Running, NoToken
  <2>2. \A q \in Process : ConfigLocked(q) => keyring' # task[q].before.token
    BY <1>b, <2>1 DEF BornOf
  <2>3. memory[p].token # 0
    BY <1>b, <2>1 DEF BornOf
  <2>4. CleanOf(p)'
    BY <1>b, <1>c, <2>1, <2>3, DefaultFields
    DEF Begins, CleanOf, Running, ConfigLocked, At
  <2>5. StoresClean'
    BY <1>b, <1>c, <2>1 DEF StoresClean
  <2>. QED  BY <1>b, <2>1, <2>2, <2>4, <2>5, CleanOthers
<1>17. ASSUME NEW p \in Process, SaveReset(p) PROVE Goal
  <2>1. /\ Frame(p) /\ Aged(p) /\ keyring' = keyring /\ Running(p)
        /\ At(p) = "save" /\ task[p].op = "reset" /\ Ends(p, "idle")
        /\ ConfigLocked(p) /\ task[p].draft \in Config
    BY <1>17, SaveResetEffect, TaskFields DEF Running, ConfigLocked
  <2>2. /\ task[p].draft.storage = "keyring" /\ task[p].draft.token \notin retired
        /\ task[p].draft.token # task[p].before.token
        /\ keyring # task[p].before.token
    BY <1>b, <2>1 DEF CleanOf
  <2>3. /\ memory'[p] = task[p].draft
        /\ \A q \in Process \ {p} : memory'[q] = memory[q]
    BY <1>17, SaveResetEffect DEF TypeOK
  <2>4. task[p].before.token # 0
    BY <1>b, <2>1 DEF BornOf
  <2>5. CASE NotSaved /\ retired' = retired
    <3>1. CleanOf(p)'
      BY <1>c, <2>1, <2>2, <2>3, <2>5, EndsClean
    <3>2. StoresClean'
      BY <1>b, <2>1, <2>5 DEF StoresClean, NotSaved
    <3>. QED  BY <1>b, <2>1, <2>3, <2>5, <3>1, <3>2, CleanOthers
  <2>6. CASE /\ Saved(task[p].draft)
             /\ retired' = retired \cup {task[p].before.token}
    <3>1. CleanOf(p)'
      BY <1>c, <2>1, <2>2, <2>3, <2>4, <2>6, EndsClean
    <3>2. file'.token = 0
      BY <2>1, <2>2, <2>6, SavedToken
    <3>3. StoresClean'
      BY <1>b, <2>1, <2>2, <2>6, <3>2 DEF StoresClean
    <3>4. \A q \in Process \ {p} : CleanOf(q)'
      BY <1>a, <1>b, <2>1, CleanAged
    <3>. QED  BY <3>1, <3>3, <3>4
  <2>. QED  BY <1>17, <2>5, <2>6, SaveResetEffect
<1>18. ASSUME NEW p \in Process, ToggleLaunch(p) PROVE Goal
  <2>1. PICK c \in Config :
          /\ c.token = memory[p].token /\ c.storage = memory[p].storage
          /\ memory' = [memory EXCEPT ![p] = c]
          /\ Saved(c) \/ NotSaved
    BY <1>18, ToggleEffect
  <2>2. /\ Frame(p) /\ UNCHANGED <<keyring, retired>>
        /\ Running(p) /\ Ends(p, "idle")
    BY <1>18, ToggleEffect DEF Running
  <2>3. memory'[p] = c /\ \A q \in Process \ {p} : memory'[q] = memory[q]
    BY <2>1 DEF TypeOK
  <2>4. c.storage = "keyring" /\ c.token \notin retired
    BY <1>b, <2>1, <2>2 DEF CleanOf
  <2>5. file' = file \/ file'.token = 0
    BY <2>1, <2>4, SavedToken DEF NotSaved
  <2>6. CleanOf(p)'
    BY <1>c, <2>2, <2>3, <2>4, EndsClean
  <2>7. StoresClean'
    BY <1>b, <2>2, <2>5 DEF StoresClean
  <2>. QED  BY <1>b, <2>2, <2>3, <2>6, <2>7, CleanOthers
<1>19. ASSUME NEW p \in Process, GrantCapabilities(p) PROVE Goal
  <2>1. PICK c \in Config :
          /\ c.token = memory[p].token /\ c.storage = memory[p].storage
          /\ memory' = [memory EXCEPT ![p] = c]
          /\ Saved(c) \/ NotSaved
    BY <1>19, GrantEffect
  <2>2. /\ Frame(p) /\ UNCHANGED <<keyring, retired>> /\ Same(p) /\ Running(p)
    BY <1>19, GrantEffect DEF Places
  <2>3. memory'[p] = c /\ \A q \in Process \ {p} : memory'[q] = memory[q]
    BY <2>1 DEF TypeOK
  <2>4. c.storage = "keyring" /\ c.token \notin retired
    BY <1>b, <2>1, <2>2 DEF CleanOf
  <2>5. file' = file \/ file'.token = 0
    BY <2>1, <2>4, SavedToken DEF NotSaved
  <2>6. CleanOf(p)'
    BY <1>b, <2>1, <2>2, <2>3 DEF Same, CleanOf, Running, ConfigLocked, At
  <2>7. StoresClean'
    BY <1>b, <2>2, <2>5 DEF StoresClean
  <2>. QED  BY <1>b, <2>2, <2>3, <2>6, <2>7, CleanOthers
<1>20. ASSUME NEW p \in Process, NEW d \in Device,
              RegisterDevice(p, d) \/ RevokeDevice(p, d)
       PROVE  Goal
  <2>1. UNCHANGED <<task, memory, file, keyring, retired>>
    BY <1>20, RegisterDeviceEffect, RevokeDeviceEffect
  <2>. QED
    BY <1>b, <2>1 DEF StoresClean, CleanOf, Running, ConfigLocked, At
<1>21. CASE EditFile
  <2>1. /\ file' \in Config => file \in Config /\ file'.token = file.token
        /\ UNCHANGED <<task, memory, keyring, retired>>
    BY <1>21, EditEffect, FileAssumption
  <2>. QED
    BY <1>b, <2>1 DEF StoresClean, CleanOf, Running, ConfigLocked, At
<1>22. CASE DropCredential
  <2>1. /\ keyring' = 0 /\ UNCHANGED <<task, memory, file, retired>>
    BY <1>22 DEF DropCredential, trayVars, historyVars, NoToken
  <2>2. \A q \in Process : ConfigLocked(q) => task[q].before.token # 0
    BY <1>b DEF BornOf
  <2>. QED
    BY <1>b, <1>c, <2>1, <2>2 DEF StoresClean, CleanOf, Running, ConfigLocked, At
<1>23. ASSUME NEW p \in Process, ApproveNobody(p) PROVE Goal
  <2>1. UNCHANGED <<task, memory, file, keyring, retired>>
    BY <1>23, ApproveNobodyEffect
  <2>. QED
    BY <1>b, <2>1 DEF StoresClean, CleanOf, Running, ConfigLocked, At
<1>. QED
  BY <1>1, <1>2, <1>3, <1>4, <1>5, <1>6, <1>7, <1>8, <1>9, <1>10, <1>11, <1>12,
     <1>13, <1>14, <1>15, <1>16, <1>17, <1>18, <1>19, <1>20, <1>21, <1>22, <1>23
  DEF Next, Load, Launch, Reload, Rotate, Reset

---------------------------------------------------------------------------
(* The theorems                                                             *)

LEMMA FirstFiles ==
  /\ [Default EXCEPT !.token = 1] \in Config
  /\ [Default EXCEPT !.token = 1].granted = FALSE
  /\ [Default EXCEPT !.token = 1].token = 1
  /\ [Default EXCEPT !.storage = "keyring"] \in Config
  /\ [Default EXCEPT !.storage = "keyring"].granted = FALSE
  /\ [Default EXCEPT !.storage = "keyring"].token = 0
  /\ [Default EXCEPT !.storage = "keyring"].storage = "keyring"
<1>1. Default \in Config /\ Default.granted = FALSE /\ Default.token = 0
  BY DefaultFields DEF Default
<1> HIDE DEF Default
<1>. QED  BY <1>1 DEF Config

\* What the tray that runs at first has loaded.
LEMMA FirstMemory ==
  ASSUME Init, instance # NoProcess
  PROVE  LET c == [file EXCEPT !.token = keyring]
         IN /\ c \in Config /\ c.token = 1 /\ c.storage = "keyring"
            /\ c.granted = FALSE /\ minted = 1
<1>1. /\ file = [Default EXCEPT !.storage = "keyring"]
      /\ keyring = 1 /\ minted = 1
  BY DEF Init, NoToken
<1>2. file \in Config /\ file.storage = "keyring" /\ file.granted = FALSE
  BY <1>1, FirstFiles
<1>. QED  BY <1>1, <1>2 DEF Config

LEMMA InitIInv == ASSUME Init PROVE IInv
<1>1. /\ file \in {Missing, [Default EXCEPT !.token = 1],
                   [Default EXCEPT !.storage = "keyring"]}
      /\ keyring \in {0, 1} /\ minted \in {0, 1} /\ keyring <= minted
      /\ file \in Config => file.token <= minted
  <2>1. Missing \notin Config
    BY FileAssumption
  <2> DEFINE InFile == [Default EXCEPT !.token = 1]
             InStore == [Default EXCEPT !.storage = "keyring"]
  <2>2. \/ file = Missing /\ keyring = 0 /\ minted = 0
        \/ file = InFile /\ keyring = 0 /\ minted = 1
        \/ file = InStore /\ keyring = 1 /\ minted = 1
    BY Zenon DEF Init, NoToken
  <2>3. InFile.token = 1 /\ InStore.token = 0
    BY FirstFiles
  <2> HIDE DEF InFile, InStore
  <2>4. /\ file \in {Missing, InFile, InStore} /\ keyring \in {0, 1}
        /\ minted \in {0, 1} /\ keyring <= minted
        /\ file \in Config => file.token <= minted
    BY <2>1, <2>2, <2>3
  <2>. QED  BY <2>4 DEF InFile, InStore
<1>2. /\ instance \in Process \cup {NoProcess}
      /\ \A p \in Process :
           /\ task[p] = IF p = instance THEN Idle ELSE Off
           /\ memory[p] = IF p = instance THEN [file EXCEPT !.token = keyring]
                          ELSE Default
           /\ registry[p] = {} /\ unseen[p] = FALSE /\ approving[p] = 0
  BY DEF Init
<1>3. \A p \in Process :
        /\ memory[p] \in Config /\ memory[p].granted = FALSE
        /\ memory[p].token \in {0, 1} /\ memory[p].token <= minted
        /\ p = instance => memory[p].token = 1 /\ memory[p].storage = "keyring"
  <2> SUFFICES ASSUME NEW p \in Process
               PROVE  /\ memory[p] \in Config /\ memory[p].granted = FALSE
                      /\ memory[p].token \in {0, 1} /\ memory[p].token <= minted
                      /\ p = instance =>
                           memory[p].token = 1 /\ memory[p].storage = "keyring"
    OBVIOUS
  <2>1. CASE p = instance
    <3> DEFINE c == [file EXCEPT !.token = keyring]
    <3>1. instance # NoProcess
      BY <2>1, ProcessAssumption
    <3>2. memory[p] = c
      BY <1>2, <2>1
    <3>3. /\ c \in Config /\ c.token = 1 /\ c.storage = "keyring"
          /\ c.granted = FALSE /\ minted = 1
      BY <3>1, FirstMemory
    <3> HIDE DEF c
    <3>. QED  BY <3>2, <3>3
  <2>2. CASE p # instance
    BY <1>1, <1>2, <2>2, DefaultFields
  <2>. QED  BY <2>1, <2>2
<1>4. \A p \in Process :
        /\ task[p] \in Task
        /\ task[p].op = "none" /\ At(p) = (IF p = instance THEN "idle" ELSE "off")
        /\ task[p].draft = Default /\ task[p].before = Default
        /\ Running(p) => p = instance
        /\ ~Loading(p) /\ ~ConfigLocked(p)
  BY <1>2, IdleFields DEF At, Running, Loading, ConfigLocked
<1>5. TypeOK
  <2>1. file \in Config \cup {Missing, Corrupt}
    BY <1>1, FirstFiles
  <2>2. keyring \in Nat /\ minted \in Nat
    BY <1>1
  <2>3. task \in [Process -> Task] /\ memory \in [Process -> Config]
    BY <1>3, <1>4 DEF Init
  <2>. QED  BY <1>2, <2>1, <2>2, <2>3 DEF TypeOK, Init
<1>6. Control
  BY <1>2, <1>4, <1>5 DEF Control, Places, Placed, OneTray
<1>7. RegistryIsDurable
  BY <1>2 DEF RegistryIsDurable, Init
<1>8. GrantsFollow
  <2>1. GrantsOnDisk
    BY <1>1, FileAssumption, FirstFiles DEF GrantsOnDisk, Init
  <2>2. \A p \in Process : GrantsOf(p)
    BY <1>3, <1>4 DEF GrantsOf, Init
  <2>. QED  BY <2>1, <2>2 DEF GrantsFollow
<1>9. TokensBorn
  <2>1. StoresBorn
    BY <1>1 DEF StoresBorn, Init
  <2>2. \A p \in Process : BornOf(p)
    BY <1>1, <1>3, <1>4, DefaultFields DEF BornOf
  <2>. QED  BY <2>1, <2>2 DEF TokensBorn
<1>10. RetiredGone
  BY <1>3, <1>4, DefaultFields DEF RetiredGone, StoresClean, CleanOf, Init
<1>. QED  BY <1>6, <1>7, <1>8, <1>9, <1>10 DEF IInv

LEMMA NextIInv == ASSUME IInv, [Next]_vars PROVE IInv'
<1>1. Control'
  BY TypeStep, PlacesStep, OneTrayStep DEF IInv, Control
<1>. QED
  BY <1>1, RegistryStep, GrantsStep, BornStep, RetiredStep DEF IInv

\* IInv is inductive: what follows are consequences.
THEOREM StoresInvariant == Spec => []IInv
BY InitIInv, NextIInv, PTL DEF Spec

\* Every value the stores, the trays and the main threads hold is of its kind.
THEOREM StoresTypeCorrect == Spec => []TypeOK
<1>1. IInv => TypeOK
  BY DEF IInv, Control
<1>. QED  BY <1>1, StoresInvariant, PTL

\* A tray lets in the phones that were approved and not revoked, and a restart
\* finds the same ones (src/devices.rs), with the excuses that
\* RegistryIsDurable names.
THEOREM RegistryDurable == Spec => []RegistryIsDurable
<1>1. IInv => RegistryIsDurable
  BY DEF IInv
<1>. QED  BY <1>1, StoresInvariant, PTL

\* As long as nobody edits the capabilities in the file, those of a tray are
\* those of the last approval or reset (windows_pairing_notifier and
\* reset_companion in src/tray.rs), with the other excuses that
\* CapabilitiesFollowDecisions names.
THEOREM CapabilitiesFollow == Spec => []CapabilitiesFollowDecisions
<1>1. IInv => CapabilitiesFollowDecisions
  BY DEF IInv, GrantsFollow, Excused, GrantsOf, CapabilitiesFollowDecisions
<1>. QED  BY <1>1, StoresInvariant, PTL

\* A token that a rotation or a reset has replaced is never again the token of
\* a tray (rotate_pairing_token and reset_companion in src/tray.rs), with the
\* excuses that RetiredTokenStaysDead names.
THEOREM RetiredStaysDead == Spec => []RetiredTokenStaysDead
<1>1. IInv => RetiredTokenStaysDead
  BY DEF IInv, RetiredGone, Pardoned, CleanOf, RetiredTokenStaysDead
<1>. QED  BY <1>1, StoresInvariant, PTL

=============================================================================
