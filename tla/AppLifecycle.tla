---------------------------- MODULE AppLifecycle ----------------------------
(***************************************************************************)
(* electron/lib/app-lifecycle-service.ts on top of the node supervisor:    *)
(* the ordered shutdown, the close and minimise handlers of the window in  *)
(* menu-bar mode, and the exit of the application (main.ts, before-quit).  *)
(*                                                                         *)
(* The shutdown and every close handler are sequences of awaits (renderer  *)
(* context, status, dialogs, cancel, stop) between which the supervisor,   *)
(* its clients and the backup service go on.  The shutdown stops the node  *)
(* as the supervisor's client Quit.  Once the application has exited only  *)
(* the processes it spawned are left.                                      *)
(***************************************************************************)
EXTENDS MonolithSupervisor

CONSTANTS
  Quit,        \* the shutdown flow as a client of the supervisor
  Closes,      \* close requests of the window that may be in flight together
  MenuBarMode  \* keepRunningInMenuBar on macOS

ASSUME QuitStops == Quit \in Stoppers
ASSUME MenuBarModeIsBoolean == MenuBarMode \in BOOLEAN

VARIABLES
  app,         \* "running"; "quitting": windows are closing; "exited"
  approved,    \* appShutdownApproved
  inProgress,  \* appShutdownInProgress
  window,      \* "shown" or "hidden" in the menu bar
  quitting,    \* the await requestOrderedAppShutdown stands at
  closing,     \* the await each requestCloseToMenuBar stands at
  ran,         \* status.runningServices > 0 of each close request's status
  backup       \* the backup or restore process: "none", "active", "cancelled"
               \* (told to stop, not gone yet)

appVars == <<app, approved, inProgress, window, quitting, closing, ran, backup>>
allVars == <<vars, appVars>>

QuitLabels == {"none", "context", "askBackup", "cancel", "cancelFailed", "status", "ask", "stop"}
CloseLabels == {"none", "setup", "status", "ask"}

AppTypeOK ==
  /\ app \in {"running", "quitting", "exited"}
  /\ approved \in BOOLEAN
  /\ inProgress \in BOOLEAN
  /\ window \in {"shown", "hidden"}
  /\ quitting \in QuitLabels
  /\ closing \in [Closes -> CloseLabels]
  /\ ran \in [Closes -> BOOLEAN]
  /\ backup \in {"none", "active", "cancelled"}
  /\ app # "running" => approved

-----------------------------------------------------------------------------
\* requestOrderedAppShutdown

QuitAt(at) == quitting' = at /\ UNCHANGED <<app, approved, inProgress>>

\* Two requests, or one after the approval, are one.
RequestShutdown ==
  IF approved \/ inProgress
    THEN UNCHANGED <<app, approved, inProgress, quitting>>
    ELSE inProgress' = TRUE /\ quitting' = "context" /\ UNCHANGED <<app, approved>>

\* The finally block: a shutdown that was declined or failed can be asked again.
GiveUp ==
  /\ quitting' = "none"
  /\ inProgress' = FALSE
  /\ UNCHANGED <<app, approved>>

\* Mutant: only a declined shutdown resets the flag, a failed one does not.
QuitFailsStuck ==
  /\ quitting \in {"context", "status", "stop"}
  /\ quitting = "stop" => pc[Quit] = "idle"
  /\ quitting' = "none"
  /\ UNCHANGED <<vars, app, approved, inProgress, window, closing, ran, backup>>

\* An await of the shutdown rejects, or telenoNodeAction throws.
QuitFails ==
  /\ quitting \in {"context", "status", "stop"}
  /\ quitting = "stop" => pc[Quit] = "idle"
  /\ GiveUp
  /\ UNCHANGED <<vars, window, closing, ran, backup>>

\* cleanupAppRuntimeResources: SIGTERM to whatever nativeServiceProcesses holds.
Cleanup == IF Open(tracked) THEN Send("term", tracked) ELSE UNCHANGED signal

\* Mutant: the exit relies on the stop of the shutdown alone.
ApproveWithoutCleanup ==
  /\ approved' = TRUE
  /\ app' = "quitting"
  /\ quitting' = "none"
  /\ UNCHANGED <<inProgress, signal>>

\* setAppShutdownApproved(true), quitApp(): before-quit runs in the same chunk.
Approve ==
  /\ approved' = TRUE
  /\ app' = "quitting"
  /\ quitting' = "none"
  /\ Cleanup
  /\ UNCHANGED inProgress

\* Cmd+Q, Quit in a menu, or the tray's Quit.
UserQuits ==
  /\ app = "running"
  /\ RequestShutdown
  /\ UNCHANGED <<vars, window, closing, ran, backup>>

\* The renderer's settings are loaded; hasActiveBackupOperation is read once.
QuitContext ==
  /\ quitting = "context"
  /\ QuitAt(IF backup # "none" THEN "askBackup" ELSE "status")
  /\ UNCHANGED <<vars, window, closing, ran, backup>>

\* cancelCreateBackup: a local process is signalled at once and may go on for a
\* while, an operation of the node's admin API needs a request.
QuitBackupAnswered ==
  /\ quitting = "askBackup"
  /\ \/ GiveUp /\ UNCHANGED backup
     \/ QuitAt("status") /\ backup' = IF backup = "active" THEN "cancelled" ELSE backup
     \/ QuitAt("cancel") /\ UNCHANGED backup
  /\ UNCHANGED <<vars, window, closing, ran>>

QuitCancelled ==
  /\ quitting = "cancel"
  /\ \/ QuitAt("cancelFailed") /\ UNCHANGED backup
     \/ QuitAt("status") /\ backup' = IF backup = "active" THEN "cancelled" ELSE backup
  /\ UNCHANGED <<vars, window, closing, ran>>

QuitCancelFailed ==
  /\ quitting = "cancelFailed"
  /\ GiveUp
  /\ UNCHANGED <<vars, window, closing, ran, backup>>

\* status.runningServices > 0 only ever holds when nativeServiceProcesses, from
\* which nothing is removed, has an entry: the size decides.
NeedsManagedShutdown == tracked # None

QuitStatus ==
  /\ quitting = "status"
  /\ \/ NeedsManagedShutdown /\ QuitAt("ask") /\ UNCHANGED signal
     \/ ~NeedsManagedShutdown /\ Approve
  /\ UNCHANGED <<tracked, child, flags, config, ext, reqVars, window, closing, ran, backup>>

QuitDeclined ==
  /\ quitting = "ask"
  /\ GiveUp
  /\ UNCHANGED <<vars, window, closing, ran, backup>>

QuitConfirmed ==
  /\ quitting = "ask"
  /\ RequestStop(Quit)
  /\ QuitAt("stop")
  /\ UNCHANGED <<window, closing, ran, backup>>

\* The stop has answered, and so has the status read after it.
QuitStopped ==
  /\ quitting = "stop"
  /\ pc[Quit] = "idle"
  /\ Approve
  /\ UNCHANGED <<tracked, child, flags, config, ext, reqVars, window, closing, ran, backup>>

-----------------------------------------------------------------------------
\* The window

CloseAt(f, at) == closing' = [closing EXCEPT ![f] = at]

\* The close event before an approval: prevented, and turned into a request.
UserCloses ==
  /\ app = "running"
  /\ window = "shown"
  /\ IF MenuBarMode /\ ~inProgress
       THEN /\ \E f \in Closes : closing[f] = "none" /\ CloseAt(f, "setup")
            /\ UNCHANGED <<app, approved, inProgress, quitting>>
       ELSE RequestShutdown /\ UNCHANGED closing
  /\ UNCHANGED <<vars, window, ran, backup>>

\* isFirstRunSetupActive, then the renderer's settings; telenoNodeStatus reads the
\* tracked process when it is called.
CloseSetup(f) ==
  /\ closing[f] = "setup"
  /\ \/ /\ RequestShutdown
        /\ CloseAt(f, "none")
        /\ UNCHANGED ran
     \/ /\ CloseAt(f, "status")
        /\ ran' = [ran EXCEPT ![f] = Open(tracked)]
        /\ UNCHANGED <<app, approved, inProgress, quitting>>
  /\ UNCHANGED <<vars, window, backup>>

\* Mutant: the window is closed instead of hidden.
HideByClosing(f) ==
  /\ window' = "closed"
  /\ CloseAt(f, "none")
  /\ ran' = [ran EXCEPT ![f] = FALSE]
  /\ UNCHANGED <<app, approved, inProgress, quitting>>

Hide(f) ==
  /\ window' = "hidden"
  /\ CloseAt(f, "none")
  /\ ran' = [ran EXCEPT ![f] = FALSE]
  /\ UNCHANGED <<app, approved, inProgress, quitting>>

\* Mutant: the status alone decides, not what was spawned while it was computed.
CloseStatusOnly(f) ==
  /\ closing[f] = "status"
  /\ \/ /\ ran[f] \/ backup # "none"
        /\ CloseAt(f, "ask")
        /\ UNCHANGED <<app, approved, inProgress, window, quitting, ran>>
     \/ ~ran[f] /\ backup = "none" /\ Hide(f)
  /\ UNCHANGED <<vars, backup>>

\* The status has answered (or failed: null).
CloseStatus(f) ==
  /\ closing[f] = "status"
  /\ \/ /\ ran[f] \/ NeedsManagedShutdown \/ backup # "none"
        /\ CloseAt(f, "ask")
        /\ UNCHANGED <<app, approved, inProgress, window, quitting, ran>>
     \/ ~ran[f] /\ ~NeedsManagedShutdown /\ backup = "none" /\ Hide(f)
  /\ UNCHANGED <<vars, backup>>

\* Keep running in the menu bar, stop and quit, or cancel.
CloseAnswered(f) ==
  /\ closing[f] = "ask"
  /\ \/ Hide(f)
     \/ /\ RequestShutdown \/ UNCHANGED <<app, approved, inProgress, quitting>>
        /\ CloseAt(f, "none")
        /\ ran' = [ran EXCEPT ![f] = FALSE]
        /\ UNCHANGED window
  /\ UNCHANGED <<vars, backup>>

UserMinimizes ==
  /\ app = "running"
  /\ MenuBarMode /\ ~inProgress
  /\ window = "shown"
  /\ window' = "hidden"
  /\ UNCHANGED <<vars, app, approved, inProgress, quitting, closing, ran, backup>>

ShowMainWindow ==
  /\ app = "running"
  /\ window = "hidden"
  /\ window' = "shown"
  /\ UNCHANGED <<vars, app, approved, inProgress, quitting, closing, ran, backup>>

\* app.quit() closes the windows, whose close handler lets an approved shutdown
\* pass, and the process exits.
WindowsClose ==
  /\ app = "quitting"
  /\ approved
  /\ app' = "exited"
  /\ UNCHANGED <<vars, approved, inProgress, window, quitting, closing, ran, backup>>

-----------------------------------------------------------------------------
\* The rest of the application

BackupStarts ==
  /\ app # "exited"
  /\ backup = "none"
  /\ backup' = "active"
  /\ UNCHANGED <<vars, app, approved, inProgress, window, quitting, closing, ran>>

BackupEnds ==
  /\ backup # "none"
  /\ backup' = "none"
  /\ UNCHANGED <<vars, app, approved, inProgress, window, quitting, closing, ran>>

SupervisorClient(c) ==
  /\ app # "exited"
  /\ (c # Quit /\ Request(c)) \/ Continue(c)
  /\ UNCHANGED appVars

SupervisorClose(p) ==
  /\ app # "exited"
  /\ ChildClosed(p)
  /\ UNCHANGED appVars

NodeProcess ==
  /\ \/ \E p \in Children : ChildOpensDb(p) \/ ChildExits(p)
     \/ \E e \in Externals : External(e)
  /\ UNCHANGED appVars

AppInit ==
  /\ Init
  /\ app = "running"
  /\ approved = FALSE
  /\ inProgress = FALSE
  /\ window = "shown"
  /\ quitting = "none"
  /\ closing = [f \in Closes |-> "none"]
  /\ ran = [f \in Closes |-> FALSE]
  /\ backup = "none"

QuitFlow ==
  \/ QuitContext \/ QuitBackupAnswered \/ QuitCancelled \/ QuitCancelFailed
  \/ QuitStatus \/ QuitDeclined \/ QuitConfirmed \/ QuitStopped \/ QuitFails

CloseFlow(f) ==
  /\ app # "exited"
  /\ CloseSetup(f) \/ CloseStatus(f) \/ CloseAnswered(f)

User == UserQuits \/ UserCloses \/ UserMinimizes \/ ShowMainWindow

AppNext ==
  \/ User \/ QuitFlow \/ WindowsClose
  \/ \E f \in Closes : CloseFlow(f)
  \/ BackupStarts \/ BackupEnds
  \/ \E c \in Clients : SupervisorClient(c)
  \/ \E p \in Children : SupervisorClose(p)
  \/ NodeProcess

AppSpec == AppInit /\ [][AppNext]_allVars

\* The event loop runs what is ready, stops time out, the user answers a dialog,
\* and closing windows close.
AppFairness ==
  /\ WF_allVars(QuitFlow)
  /\ WF_allVars(WindowsClose)
  /\ \A c \in Clients : WF_allVars(app # "exited" /\ Continue(c) /\ UNCHANGED appVars)
  /\ \A p \in Children : WF_allVars(SupervisorClose(p))

FairAppSpec == AppSpec /\ AppFairness

-----------------------------------------------------------------------------
\* Properties

\* appShutdownInProgress says exactly that a shutdown runs or was approved: a
\* declined or failed shutdown never leaves an application that cannot be quit.
ShutdownFlagTruthful == inProgress = (quitting # "none" \/ approved)

\* At the moment a shutdown is approved every managed node that runs was asked to
\* stop, even one that a request started after the shutdown had stopped the node.
ApprovalAsksNode ==
  [][~approved /\ approved' =>
       \A p \in Children : ProcessRuns(p) => "term" \in signal'[p]]_allVars

\* The window close never hides a node it did not tell the user about: when the
\* flow hides without asking, no process of a node is left, not even one that was
\* spawned after the status it decides by was read, or one that has just exited.
HidesOnlyIdle ==
  [][\A f \in Closes :
       closing[f] = "status" /\ closing'[f] = "none"
         => \A p \in Children : child[p] = "closed"]_allVars

\* Every shutdown is approved or given up.
QuitDecides == quitting # "none" ~> quitting = "none"

\* The questions and calls a shutdown still has before it, from the await it stands at.
ShutdownRemaining ==
  [context |-> 6, askBackup |-> 5, cancel |-> 4, cancelFailed |-> 1, status |-> 3, ask |-> 2,
   stop |-> 1, none |-> 0]

\* A shutdown asks each of its questions at most once: it never returns to the status or to a
\* dialog it has passed, whatever backups and requests begin meanwhile, so that QuitDecides
\* asks no more than that the user answers and the calls return.
ShutdownProgress ==
  [][quitting # "none" => \/ quitting' = quitting
                          \/ ShutdownRemaining[quitting'] < ShutdownRemaining[quitting]]_allVars

\* What the code does not keep.

\* docs/backlog/operations/MACOS_MENU_BAR_BACKGROUND_MODE_PLAN.md:261: "Cmd+Q stops
\* managed services before quitting".
QuitStopsNode ==
  app = "exited" => \A p \in Children : ProcessRuns(p) => "term" \in signal[p]

=============================================================================
