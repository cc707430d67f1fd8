------------------------------ MODULE Serving ------------------------------
(***************************************************************************)
(* The tray and its server thread (src/tray.rs, run_server in src/main.rs, *)
(* src/tls.rs, src/discovery.rs).  The tray's event loop starts a server   *)
(* thread, stops it by a oneshot channel and a join, and polls whether it  *)
(* has ended on its own.  The thread takes the settings and the TLS        *)
(* identity, binds its ports and serves until it is told to stop or fails. *)
(* Both create the identity when there is none: the thread to serve it,    *)
(* the QR popup to print its fingerprint.                                  *)
(*                                                                         *)
(* Each server run is a generation.  The event loop blocks in a join, so   *)
(* nothing of the tray happens until the thread has ended.                 *)
(***************************************************************************)
EXTENDS Integers, FiniteSets

CONSTANTS
  Setting,              \* values of ServerRuntimeConfig
  Default,              \* the one of AppConfig::default(): local only
  MAX_SERVERS,          \* bound on server runs: at the last one the tray
                        \* accepts no more restart, reset or reload
  MAX_EVENTS            \* bound on menu choices, edits, and what fails

ASSUME SettingAssumption ==
  /\ Setting \subseteq [http: BOOLEAN, discovery: BOOLEAN]
  /\ Default \in Setting /\ ~Default.discovery
ASSUME BoundAssumption == MAX_SERVERS \in Nat \ {0} /\ MAX_EVENTS \in Nat

VARIABLES
  config,       \* the server settings in the SharedConfig
  disk,         \* the server settings in the configuration file
  unseen,       \* the file's time differs from last_config_modified
  foreign,      \* ports that another program holds
  identity,     \* wakemate.tls.json: a key, none, or something unreadable
  keys,         \* how many keys were generated
  gen,          \* the generation of the tray's ServerThread
  active,       \* ServerThread.active; pairing is Some exactly then
  told,         \* the shutdown message was sent to this generation
  thread,       \* the server threads
  popup,        \* the QR popup, or what it has come to while it is built
  startupError, \* TrayApp.startup_error is set
  tray,         \* where the event loop stands
  advertised,   \* history: the last answer of a discovery responder
  restartedBy,  \* history: what started the current generation
  behind,       \* history: the config changed, and an error prevented a restart
  raced,        \* history: two loads found no identity at the same time
  events        \* what the bound counts

fileVars == <<disk, unseen, identity, keys, foreign>>
serverVars == <<gen, active, told, thread>>
uiVars == <<popup, startupError, tray>>
historyVars == <<advertised, restartedBy, behind, raced, events>>
vars == <<config, fileVars, serverVars, uiVars, historyVars>>

Generation == 1..MAX_SERVERS
Ports == {"http", "tls", "udp"}
NoKey == 0
Unreadable == -1

Stage == {"none", "settings", "identity", "create", "http", "discovery", "tls",
          "serving", "draining", "ended"}
Thread == [at: Stage, settings: Setting, key: Nat, udp: BOOLEAN]
NoThread == [at |-> "none", settings |-> Default, key |-> NoKey, udp |-> FALSE]
NewThread == [NoThread EXCEPT !.at = "settings"]

Popup == [at: {"closed", "identity", "create", "open"}, of: 0..MAX_SERVERS,
          key: Nat]
NoPopup == [at |-> "closed", of |-> 0, key |-> NoKey]

Answer == [settings: Setting, of: 0..MAX_SERVERS, key: Nat]

TypeOK ==
  /\ config \in Setting /\ disk \in Setting /\ unseen \in BOOLEAN
  /\ foreign \in SUBSET Ports
  /\ identity \in Nat \cup {Unreadable} /\ keys \in Nat
  /\ gen \in Generation /\ active \in BOOLEAN
  /\ told \in [Generation -> BOOLEAN] /\ thread \in [Generation -> Thread]
  /\ popup \in Popup /\ startupError \in BOOLEAN
  /\ tray \in {"idle", "popup", "restart", "resetRestart", "reload", "exit",
               "gone"}
  /\ advertised \in Answer
  /\ restartedBy \in {"start", "restart", "resetRestart", "reload"}
  /\ behind \in BOOLEAN /\ raced \in BOOLEAN /\ events \in Nat

At(g) == thread[g].at
Live(g) == At(g) \notin {"none", "ended"}
Restarting == tray \in {"restart", "resetRestart", "reload"}
Bound(port) ==
  port \in foreign \/ \E g \in Generation :
    CASE port = "http" -> thread[g].settings.http /\
                          At(g) \in {"discovery", "tls", "serving", "draining"}
      [] port = "tls" -> At(g) \in {"serving", "draining"}
      [] OTHER -> thread[g].udp

Init ==
  /\ config \in Setting /\ disk = config /\ unseen = FALSE
  /\ foreign = {}
  /\ identity \in {Unreadable, NoKey, 1} /\ keys = 1
  /\ gen = 1 /\ active = TRUE
  /\ told = [g \in Generation |-> FALSE]
  /\ thread = [g \in Generation |-> IF g = 1 THEN NewThread ELSE NoThread]
  /\ popup = NoPopup /\ startupError = FALSE /\ tray = "idle"
  /\ advertised = [settings |-> Default, of |-> 0, key |-> NoKey]
  /\ restartedBy = "start" /\ behind = FALSE /\ raced = FALSE /\ events = 0

Event == events < MAX_EVENTS /\ events' = events + 1
Move(g, stage) == thread' = [thread EXCEPT ![g].at = stage]
End(g) == thread' = [thread EXCEPT ![g].at = "ended", ![g].udp = FALSE]

---------------------------------------------------------------------------
(* run_server, on the thread of a generation *)

TakeSettings(g) ==
  /\ At(g) = "settings"
  /\ thread' = [thread EXCEPT ![g].at = "identity", ![g].settings = config]
  /\ UNCHANGED <<config, fileVars, gen, active, told, uiVars, historyVars>>

\* Mutant: the stored identity is not parsed before it is used.
BugLoadIdentity(g) ==
  /\ At(g) = "identity"
  /\ IF identity = NoKey
     THEN /\ keys' = keys + 1
          /\ thread' = [thread EXCEPT ![g].at = "create", ![g].key = keys + 1]
          /\ raced' = (raced \/ popup.at = "create")
     ELSE /\ thread' = [thread EXCEPT ![g].at = "http", ![g].key = identity]
          /\ UNCHANGED <<keys, raced>>
  /\ UNCHANGED <<config, disk, unseen, identity, foreign, gen, active, told,
                 uiVars, advertised, restartedBy, behind, events>>

\* TlsIdentity::load_or_create_at, the read: an identity that is there is used
\* or refused, never replaced.
LoadIdentity(g) ==
  /\ At(g) = "identity"
  /\ \/ /\ identity = NoKey
        /\ keys' = keys + 1
        /\ thread' = [thread EXCEPT ![g].at = "create", ![g].key = keys + 1]
        /\ raced' = (raced \/ popup.at = "create")
     \/ /\ identity = Unreadable
        /\ End(g) /\ UNCHANGED <<keys, raced>>
     \/ /\ identity \notin {NoKey, Unreadable}
        /\ thread' = [thread EXCEPT ![g].at = "http", ![g].key = identity]
        /\ UNCHANGED <<keys, raced>>
  /\ UNCHANGED <<config, disk, unseen, identity, foreign, gen, active, told,
                 uiVars, advertised, restartedBy, behind, events>>

\* Mutant: a write that fails is ignored.
BugSaveIdentity(g) ==
  /\ At(g) = "create"
  /\ Move(g, "http")
  /\ \/ identity' = thread[g].key /\ UNCHANGED events
     \/ Event /\ UNCHANGED identity
  /\ UNCHANGED <<config, disk, unseen, keys, foreign, gen, active, told,
                 uiVars, advertised, restartedBy, behind, raced>>

\* The write: the new file is renamed over whatever is there by now.  When
\* the write fails, the file that is there by now is read, if there is one.
SaveIdentity(g) ==
  /\ At(g) = "create"
  /\ \/ /\ identity' = thread[g].key /\ Move(g, "http")
        /\ UNCHANGED events
     \/ /\ Event /\ UNCHANGED identity
        /\ IF identity = NoKey THEN End(g)
           ELSE thread' = [thread EXCEPT ![g].at = "http", ![g].key = identity]
  /\ UNCHANGED <<config, disk, unseen, keys, foreign, gen, active, told,
                 uiVars, advertised, restartedBy, behind, raced>>

\* An address that does not parse, or a key that makes no TLS configuration,
\* ends the run; then the HTTP listener is bound if the settings ask for it.
BindHttp(g) ==
  /\ At(g) = "http"
  /\ \/ /\ IF thread[g].settings.http /\ Bound("http") THEN End(g)
           ELSE Move(g, "discovery")
        /\ UNCHANGED events
     \/ Event /\ End(g)
  /\ UNCHANGED <<config, fileVars, gen, active, told, uiVars, advertised,
                 restartedBy, behind, raced>>

\* discovery::run: a port that is taken ends the responder, and it alone.
StartDiscovery(g) ==
  /\ At(g) = "discovery"
  /\ thread' = [thread EXCEPT ![g].at = "tls",
                  ![g].udp = thread[g].settings.discovery /\ ~Bound("udp")]
  /\ UNCHANGED <<config, fileVars, gen, active, told, uiVars, historyVars>>

BindTls(g) ==
  /\ At(g) = "tls"
  /\ IF Bound("tls") THEN End(g) ELSE Move(g, "serving")
  /\ UNCHANGED <<config, fileVars, gen, active, told, uiVars, historyVars>>

\* Told to stop, the listeners drain for at most five seconds.
Drain(g) ==
  /\ At(g) = "serving" /\ told[g]
  /\ Move(g, "draining")
  /\ UNCHANGED <<config, fileVars, gen, active, told, uiVars, historyVars>>
Drained(g) ==
  /\ At(g) = "draining"
  /\ End(g)
  /\ UNCHANGED <<config, fileVars, gen, active, told, uiVars, historyVars>>

\* A listener fails, or a panic ends the thread.
Fail(g) ==
  /\ At(g) = "serving" /\ Event
  /\ End(g)
  /\ UNCHANGED <<config, fileVars, gen, active, told, uiVars, advertised,
                 restartedBy, behind, raced>>

\* The responder answers from the configuration as it is now, with the
\* fingerprint its server was started with.
AnswerDiscovery(g) ==
  /\ thread[g].udp /\ config.discovery
  /\ advertised' = [settings |-> config, of |-> g, key |-> thread[g].key]
  /\ UNCHANGED <<config, fileVars, serverVars, uiVars, restartedBy, behind,
                 raced, events>>

---------------------------------------------------------------------------
(* The tray's event loop *)

\* Mutant: only the first failure is reported.
BugNoticeFailure ==
  /\ tray = "idle" /\ active /\ ~startupError /\ At(gen) = "ended"
  /\ active' = FALSE /\ startupError' = TRUE
  /\ UNCHANGED <<config, fileVars, gen, told, thread, popup, tray, historyVars>>

\* refresh_server_health
NoticeFailure ==
  /\ tray = "idle" /\ active /\ At(gen) = "ended"
  /\ active' = FALSE /\ startupError' = TRUE
  /\ UNCHANGED <<config, fileVars, gen, told, thread, popup, tray, historyVars>>

\* Mutant: the thread is joined without the message.
BugAskToStop(pc) == tray' = pc /\ told' = told

\* ServerThread::finish sends the message and joins; a server that was found
\* dead is not joined again.
AskToStop(pc) ==
  /\ tray' = pc
  /\ told' = IF active THEN [told EXCEPT ![gen] = TRUE] ELSE told

\* Mutant: the old thread is not joined.
BugRespawn ==
  /\ Restarting
  /\ gen' = gen + 1 /\ active' = TRUE
  /\ thread' = [thread EXCEPT ![gen + 1] = NewThread]
  /\ startupError' = (startupError /\ tray # "restart")
  /\ tray' = "idle" /\ restartedBy' = tray /\ behind' = FALSE
  /\ UNCHANGED <<config, fileVars, told, popup, advertised, raced, events>>

\* ServerThread::restart, once the old thread has ended.
Respawn ==
  /\ Restarting /\ (active => At(gen) = "ended")
  /\ gen' = gen + 1 /\ active' = TRUE
  /\ thread' = [thread EXCEPT ![gen + 1] = NewThread]
  /\ startupError' = (startupError /\ tray # "restart")
  /\ tray' = "idle" /\ restartedBy' = tray /\ behind' = FALSE
  /\ UNCHANGED <<config, fileVars, told, popup, advertised, raced, events>>

\* Mutant: the QR popup stays open.
BugRestartConnection ==
  /\ tray = "idle" /\ Event /\ gen < MAX_SERVERS
  /\ AskToStop("restart")
  /\ UNCHANGED <<config, fileVars, gen, active, thread, popup, startupError,
                 advertised, restartedBy, behind, raced>>

RestartConnection ==
  /\ tray = "idle" /\ Event /\ gen < MAX_SERVERS
  /\ popup' = NoPopup
  /\ AskToStop("restart")
  /\ UNCHANGED <<config, fileVars, gen, active, thread, startupError,
                 advertised, restartedBy, behind, raced>>

\* reset_companion: an error of the save, or one of refresh_tray_state and
\* refresh_paired_devices_menu after it, returns before the restart.
ResetCompanion ==
  /\ tray = "idle" /\ Event /\ gen < MAX_SERVERS
  /\ popup' = NoPopup
  /\ config' = Default
  /\ \/ /\ disk' = Default /\ unseen' = TRUE /\ UNCHANGED behind
        /\ IF config = Default THEN UNCHANGED <<told, tray>>
           ELSE AskToStop("resetRestart")
     \/ /\ behind' = (behind \/ config # Default)
        /\ \/ disk' = Default /\ unseen' = TRUE
           \/ UNCHANGED <<disk, unseen>>
        /\ UNCHANGED <<told, tray>>
  /\ UNCHANGED <<identity, keys, foreign, gen, active, thread, startupError,
                 advertised, restartedBy, raced>>

\* Mutant: the reload does not restart the server.
BugReloadConfig ==
  /\ tray = "idle" /\ unseen /\ disk # config /\ gen < MAX_SERVERS
  /\ config' = disk
  /\ UNCHANGED <<fileVars, serverVars, uiVars, historyVars>>

\* reload_config_if_changed: an error of sync_launch_on_startup or of
\* refresh_tray_state returns before the restart, and the next reload finds
\* nothing changed.
ReloadConfig ==
  /\ tray = "idle" /\ unseen /\ disk # config /\ gen < MAX_SERVERS
  /\ config' = disk
  /\ \/ AskToStop("reload") /\ UNCHANGED <<behind, events>>
     \/ Event /\ behind' = TRUE /\ UNCHANGED <<told, tray>>
  /\ UNCHANGED <<fileVars, gen, active, thread, popup, startupError,
                 advertised, restartedBy, raced>>

\* toggle_pairing_qr_popup: closes the popup, or builds one for the running
\* server's coordinator.
TogglePopup ==
  /\ tray = "idle" /\ Event
  /\ IF popup.at = "open" THEN popup' = NoPopup /\ UNCHANGED tray
     ELSE /\ active
          /\ popup' = [at |-> "identity", of |-> gen, key |-> NoKey]
          /\ tray' = "popup"
  /\ UNCHANGED <<config, fileVars, serverVars, startupError, advertised,
                 restartedBy, behind, raced>>

\* The popup reads the identity, and creates it if there is none.
PopupLoad ==
  /\ popup.at = "identity"
  /\ \/ /\ identity = NoKey
        /\ keys' = keys + 1
        /\ popup' = [popup EXCEPT !.at = "create", !.key = keys + 1]
        /\ raced' = (raced \/ \E g \in Generation : At(g) = "create")
        /\ UNCHANGED tray
     \/ /\ identity = Unreadable
        /\ popup' = NoPopup /\ tray' = "idle" /\ UNCHANGED <<keys, raced>>
     \/ /\ identity \notin {NoKey, Unreadable}
        /\ popup' = [popup EXCEPT !.at = "open", !.key = identity]
        /\ tray' = "idle" /\ UNCHANGED <<keys, raced>>
  /\ UNCHANGED <<config, disk, unseen, identity, foreign, serverVars,
                 startupError, advertised, restartedBy, behind, events>>

PopupSave ==
  /\ popup.at = "create"
  /\ \/ /\ identity' = popup.key /\ popup' = [popup EXCEPT !.at = "open"]
        /\ UNCHANGED events
     \/ /\ Event /\ UNCHANGED identity
        /\ popup' = IF identity = NoKey THEN NoPopup
                    ELSE [popup EXCEPT !.at = "open", !.key = identity]
  /\ tray' = "idle"
  /\ UNCHANGED <<config, disk, unseen, keys, foreign, serverVars, startupError,
                 advertised, restartedBy, behind, raced>>

\* A click outside, Escape, or the loss of the focus.
DismissPopup ==
  /\ tray = "idle" /\ popup.at = "open"
  /\ popup' = NoPopup
  /\ UNCHANGED <<config, fileVars, serverVars, startupError, tray, historyVars>>

\* Quit: exiting closes the popup and sends the message; finish joins the
\* thread, unless an error is reported instead.
Quit ==
  /\ tray = "idle"
  /\ popup' = NoPopup
  /\ AskToStop("exit")
  /\ UNCHANGED <<config, fileVars, gen, active, thread, startupError,
                 historyVars>>
Exit ==
  /\ tray = "exit"
  /\ startupError \/ ~active \/ At(gen) = "ended"
  /\ tray' = "gone" /\ active' = FALSE
  /\ thread' = [g \in Generation |->
       IF Live(g) THEN [thread[g] EXCEPT !.at = "ended", !.udp = FALSE]
       ELSE thread[g]]
  /\ UNCHANGED <<config, fileVars, gen, told, popup, startupError, historyVars>>

---------------------------------------------------------------------------
(* The outside world *)

EditConfig ==
  /\ Event
  /\ disk' \in Setting \ {disk} /\ unseen' = TRUE
  /\ UNCHANGED <<config, identity, keys, foreign, serverVars, uiVars,
                 advertised, restartedBy, behind, raced>>

OccupyPort ==
  /\ Event
  /\ \E port \in Ports : ~Bound(port) /\ foreign' = foreign \cup {port}
  /\ UNCHANGED <<config, disk, unseen, identity, keys, serverVars, uiVars,
                 advertised, restartedBy, behind, raced>>

ReleasePort ==
  /\ \E port \in foreign : foreign' = foreign \ {port}
  /\ UNCHANGED <<config, disk, unseen, identity, keys, serverVars, uiVars,
                 historyVars>>

---------------------------------------------------------------------------

RunServer(g) ==
  \/ TakeSettings(g) \/ LoadIdentity(g) \/ SaveIdentity(g) \/ BindHttp(g)
  \/ StartDiscovery(g) \/ BindTls(g) \/ Drain(g) \/ Drained(g)
EventLoop ==
  NoticeFailure \/ ReloadConfig \/ Respawn \/ PopupLoad \/ PopupSave \/ Exit
Menu == RestartConnection \/ ResetCompanion \/ TogglePopup \/ DismissPopup \/ Quit

Next ==
  \/ \E g \in Generation : RunServer(g) \/ Fail(g) \/ AnswerDiscovery(g)
  \/ EventLoop \/ Menu
  \/ EditConfig \/ OccupyPort \/ ReleasePort

Spec == Init /\ [][Next]_vars

\* Threads are scheduled: a server run goes on, the event loop polls once a
\* second and returns from its join.  Nobody has to choose a menu item, and a
\* server does not have to fail.
Fairness ==
  /\ \A g \in Generation : WF_vars(RunServer(g))
  /\ WF_vars(EventLoop)

FairSpec == Spec /\ Fairness

---------------------------------------------------------------------------
(* Properties *)

\* There is one server thread at most, and it is the tray's
\* (ServerThread::restart in src/tray.rs): a restart never starts a thread
\* beside one that still holds ports.
OneServer == \A g \in Generation : Live(g) => g = gen

\* A server runs the settings the tray shows (restart after reset_companion
\* and reload_config_if_changed in src/tray.rs), unless an error of the save,
\* of the startup registration or of the tray's own menu and tooltip made the
\* reset or the reload return before the restart.
ServerRunsCurrentSettings ==
  tray \notin {"restart", "resetRestart", "reload", "exit", "gone"} /\ active
    /\ Live(gen) /\ At(gen) # "settings" /\ ~behind
  => thread[gen].settings = config

\* The fingerprint in the QR popup is the one the running server presents, and
\* so is the one a discovery answer carried (PairingPopup::new in src/tray.rs,
\* load_or_create_at in src/tls.rs), unless both created the identity at once.
PinShownIsServed ==
  /\ popup.at = "open" /\ ~raced =>
       \A g \in Generation :
         At(g) \in {"http", "discovery", "tls", "serving", "draining"}
         => thread[g].key = popup.key
  /\ advertised.of # 0 /\ ~raced =>
       \A g \in Generation :
         At(g) \in {"http", "discovery", "tls", "serving", "draining"}
         => thread[g].key = advertised.key

\* After the tray's own Restart Connection nothing of an older server is left
\* (restart_connection in src/tray.rs): no error that is over and no QR code
\* of a replaced coordinator.  A restart after a reload leaves both, and one
\* after a reset leaves the error.
NothingStaleAfterRestart ==
  tray = "idle" =>
    /\ startupError /\ active => restartedBy \in {"reload", "resetRestart"}
    /\ popup.at = "open" /\ popup.of # gen => restartedBy = "reload"

\* A server that ends on its own is noticed (take_unexpected_failure in
\* src/tray.rs), unless the tray was about to stop it anyway.
FailureIsNoticed ==
  active /\ At(gen) = "ended" ~> ~active \/ At(gen) # "ended"

\* The event loop comes back from every join and from the popup, and a quit
\* ends the program (ServerThread::finish in src/tray.rs): no server run
\* holds up the tray for good.
TrayNeverHangs ==
  tray \notin {"idle", "gone"} ~> tray \in {"idle", "gone"}
=============================================================================
