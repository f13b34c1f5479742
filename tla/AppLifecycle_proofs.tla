------------------------- MODULE AppLifecycle_proofs -------------------------
(***************************************************************************)
(* The shutdown and the window over the supervisor, for any number of      *)
(* clients, processes and close requests.                                  *)
(*                                                                         *)
(* A step of the application is a step of the supervisor, or leaves it     *)
(* alone, or sends SIGTERM to the tracked process on the way out: what     *)
(* MonolithSupervisor_proofs shows of the supervisor holds under the       *)
(* application too.                                                        *)
(***************************************************************************)
EXTENDS AppLifecycle, MonolithSupervisor_proofs

\* A shutdown that still waits has not been approved.
WaitsUnapproved == quitting # "none" => approved = FALSE

\* What the exit does to the supervisor.
CleanupStep == Cleanup /\ UNCHANGED <<tracked, child, flags, config, ext, reqVars>>

LEMMA QuitIsClient == Quit \in Clients
BY QuitStops DEF Clients

LEMMA QuitFlowOnSupervisor ==
  ASSUME QuitFlow PROVE [Next]_vars \/ CleanupStep
<1>1. CASE QuitContext \/ QuitBackupAnswered \/ QuitCancelled \/ QuitCancelFailed
           \/ QuitDeclined \/ QuitFails
  BY <1>1 DEF QuitContext, QuitBackupAnswered, QuitCancelled, QuitCancelFailed, QuitDeclined,
              QuitFails
<1>2. CASE QuitConfirmed
  BY <1>2, QuitIsClient DEF QuitConfirmed, Next, Request
<1>3. CASE QuitStatus \/ QuitStopped
  BY <1>3 DEF QuitStatus, QuitStopped, Approve, CleanupStep, vars, procVars
<1> QED BY <1>1, <1>2, <1>3 DEF QuitFlow

LEMMA SupervisorSteps ==
  ASSUME AppNext PROVE [Next]_vars \/ CleanupStep
<1>1. CASE User
  BY <1>1 DEF User, UserQuits, UserCloses, UserMinimizes, ShowMainWindow
<1>2. CASE QuitFlow
  BY <1>2, QuitFlowOnSupervisor
<1>3. CASE WindowsClose \/ BackupStarts \/ BackupEnds
  BY <1>3 DEF WindowsClose, BackupStarts, BackupEnds
<1>4. ASSUME NEW f \in Closes, CloseFlow(f) PROVE UNCHANGED vars
  BY <1>4 DEF CloseFlow, CloseSetup, CloseStatus, CloseAnswered
<1>5. ASSUME NEW c \in Clients, SupervisorClient(c) PROVE Next
  BY <1>5 DEF SupervisorClient, Next
<1>6. ASSUME NEW p \in Children, SupervisorClose(p) PROVE Next
  BY <1>6 DEF SupervisorClose, Next, Process
<1>7. CASE NodeProcess
  BY <1>7 DEF NodeProcess, Next, Process
<1> QED BY <1>1, <1>2, <1>3, <1>4, <1>5, <1>6, <1>7 DEF AppNext

\* The SIGTERM of the exit is one a stop might have sent.
LEMMA CleanupKeeps ==
  ASSUME Invariant, CleanupStep PROVE Invariant'
<1>1. TypeOK
  BY DEF Invariant
<1>2. CASE ~Open(tracked)
  BY <1>1, <1>2, InvariantStep DEF CleanupStep, Cleanup, vars, procVars
<1>3. CASE Open(tracked)
  <2>1. tracked \in Children /\ Send("term", tracked)
    BY <1>1, <1>3 DEF TypeOK, Open, CleanupStep, Cleanup
  <2>2. signal' \in [Children -> SUBSET {"term", "kill"}]
    BY <1>1, <2>1, SendType
  <2>3. TypeOK'
    BY <1>1, <2>2 DEF TypeOK, CleanupStep, reqVars
  <2>4. \A p \in Children : /\ signal[p] \subseteq signal'[p]
                            /\ "kill" \in signal'[p] => "kill" \in signal[p]
    BY <1>1, <2>1 DEF Send, TypeOK
  <2>5. ASSUME Safe PROVE Safe'
    BY <1>1, <2>4, <2>5 DEF CleanupStep, reqVars, Safe, NoOrphan, KillFollowsTerm, StopperStops,
       StartAlone, StopsTracked, ScanSpares, Open, ProcessRuns, TypeOK
  <2> QED BY <2>3, <2>5 DEF Invariant
<1> QED BY <1>2, <1>3

LEMMA SupervisorKeeps ==
  ASSUME Invariant, [AppNext]_allVars PROVE Invariant'
BY SupervisorSteps, CleanupKeeps, InvariantStep DEF allVars

-----------------------------------------------------------------------------
(* The shutdown and the window *)

FlowTypeOK ==
  /\ app \in {"running", "quitting", "exited"}
  /\ approved \in BOOLEAN
  /\ inProgress \in BOOLEAN
  /\ window \in {"shown", "hidden"}
  /\ quitting \in QuitLabels
  /\ closing \in [Closes -> CloseLabels]
  /\ ran \in [Closes -> BOOLEAN]
  /\ backup \in {"none", "active", "cancelled"}
  /\ app # "running" => approved = TRUE

\* The flag, said so that it can be compared.
FlagOK == inProgress = TRUE <=> quitting # "none" \/ approved = TRUE

FlowOK == FlowTypeOK /\ FlagOK /\ WaitsUnapproved

AppIInv == Invariant /\ FlowOK

LEMMA FlowMeans == FlowOK <=> AppTypeOK /\ ShutdownFlagTruthful /\ WaitsUnapproved
<1>1. ASSUME approved \in BOOLEAN, inProgress \in BOOLEAN
      PROVE  FlagOK <=> ShutdownFlagTruthful
  BY <1>1, Zenon DEF FlagOK, ShutdownFlagTruthful
<1>2. FlowTypeOK <=> AppTypeOK
  BY DEF FlowTypeOK, AppTypeOK
<1> QED BY <1>1, <1>2 DEF FlowOK, FlowTypeOK

LEMMA RequestKeeps ==
  ASSUME FlowOK, RequestShutdown,
         window' \in {"shown", "hidden"}, closing' \in [Closes -> CloseLabels],
         ran' \in [Closes -> BOOLEAN], UNCHANGED backup
  PROVE  FlowOK'
BY DEF FlowOK, FlowTypeOK, FlagOK, WaitsUnapproved, RequestShutdown, QuitLabels

LEMMA UserKeeps ==
  ASSUME FlowOK, User PROVE FlowOK'
<1>1. window \in {"shown", "hidden"} /\ closing \in [Closes -> CloseLabels] /\ ran \in [Closes -> BOOLEAN]
  BY DEF FlowOK, FlowTypeOK
<1>2. CASE UserQuits
  BY <1>1, <1>2, RequestKeeps DEF UserQuits
<1>3. CASE UserCloses
  <2>1. CASE MenuBarMode /\ ~inProgress
    BY <1>1, <1>3, <2>1 DEF UserCloses, CloseAt, CloseLabels, FlowOK, FlowTypeOK,
                            FlagOK, WaitsUnapproved
  <2>2. CASE ~(MenuBarMode /\ ~inProgress)
    BY <1>1, <1>3, <2>2, RequestKeeps DEF UserCloses
  <2> QED BY <2>1, <2>2
<1>4. CASE UserMinimizes \/ ShowMainWindow
  BY <1>4 DEF UserMinimizes, ShowMainWindow, FlowOK, FlowTypeOK, FlagOK, WaitsUnapproved
<1> QED BY <1>2, <1>3, <1>4 DEF User

LEMMA QuitFlowKeeps ==
  ASSUME FlowOK, QuitFlow PROVE FlowOK'
<1> USE DEF FlowOK, FlowTypeOK, FlagOK, WaitsUnapproved, QuitLabels, QuitAt, GiveUp, Approve
<1>1. CASE QuitContext
  BY <1>1 DEF QuitContext
<1>2. CASE QuitBackupAnswered
  BY <1>2 DEF QuitBackupAnswered
<1>3. CASE QuitCancelled \/ QuitCancelFailed
  BY <1>3 DEF QuitCancelled, QuitCancelFailed
<1>4. CASE QuitStatus
  BY <1>4 DEF QuitStatus
<1>5. CASE QuitDeclined \/ QuitFails
  BY <1>5 DEF QuitDeclined, QuitFails
<1>6. CASE QuitConfirmed
  BY <1>6 DEF QuitConfirmed
<1>7. CASE QuitStopped
  BY <1>7 DEF QuitStopped
<1> QED BY <1>1, <1>2, <1>3, <1>4, <1>5, <1>6, <1>7 DEF QuitFlow

LEMMA CloseFlowKeeps ==
  ASSUME FlowOK, NEW f \in Closes, CloseFlow(f) PROVE FlowOK'
<1>1. window \in {"shown", "hidden"} /\ closing \in [Closes -> CloseLabels] /\ ran \in [Closes -> BOOLEAN]
  BY DEF FlowOK, FlowTypeOK
<1> USE DEF CloseAt, CloseLabels
<1>2. ASSUME Hide(f), UNCHANGED backup PROVE FlowOK'
  BY <1>1, <1>2 DEF Hide, FlowOK, FlowTypeOK, FlagOK, WaitsUnapproved
<1>3. ASSUME UNCHANGED <<app, approved, inProgress, quitting, window, backup>>,
             closing' \in [Closes -> CloseLabels], ran' \in [Closes -> BOOLEAN]
      PROVE  FlowOK'
  BY <1>3 DEF FlowOK, FlowTypeOK, FlagOK, WaitsUnapproved
<1>4. CASE CloseSetup(f)
  <2>1. closing' \in [Closes -> CloseLabels] /\ ran' \in [Closes -> BOOLEAN]
    BY <1>1, <1>4 DEF CloseSetup, Open
  <2> QED BY <1>1, <1>3, <1>4, <2>1, RequestKeeps DEF CloseSetup
<1>5. CASE CloseStatus(f)
  <2>1. closing' \in [Closes -> CloseLabels] \/ Hide(f)
    BY <1>1, <1>5 DEF CloseStatus
  <2> QED BY <1>1, <1>2, <1>3, <1>5, <2>1 DEF CloseStatus
<1>6. CASE CloseAnswered(f)
  <2>1. CASE Hide(f)
    BY <1>2, <1>6, <2>1 DEF CloseAnswered
  <2>2. CASE ~Hide(f)
    <3>1. closing' \in [Closes -> CloseLabels] /\ ran' \in [Closes -> BOOLEAN]
      BY <1>1, <1>6, <2>2 DEF CloseAnswered
    <3> QED BY <1>1, <1>3, <1>6, <2>2, <3>1, RequestKeeps DEF CloseAnswered
  <2> QED BY <2>1, <2>2
<1> QED BY <1>4, <1>5, <1>6 DEF CloseFlow

LEMMA FlowKeeps ==
  ASSUME FlowOK, [AppNext]_allVars PROVE FlowOK'
<1> USE DEF FlowOK, FlowTypeOK, FlagOK, WaitsUnapproved
<1>1. CASE WindowsClose \/ BackupStarts \/ BackupEnds
  BY <1>1 DEF WindowsClose, BackupStarts, BackupEnds
<1>2. CASE UNCHANGED appVars
  BY <1>2 DEF appVars
<1>3. CASE \E c \in Clients : SupervisorClient(c)
  BY <1>2, <1>3 DEF SupervisorClient
<1>4. CASE (\E p \in Children : SupervisorClose(p)) \/ NodeProcess
  BY <1>2, <1>4 DEF SupervisorClose, NodeProcess
<1> HIDE DEF FlowOK
<1> QED BY <1>1, <1>2, <1>3, <1>4, UserKeeps, QuitFlowKeeps, CloseFlowKeeps DEF AppNext, allVars

LEMMA AppInitIInv == AppInit => AppIInv
<1> SUFFICES ASSUME AppInit PROVE AppIInv
  OBVIOUS
<1>1. Invariant
  BY InitType, InitSafe DEF AppInit, Invariant
<1>2. AppTypeOK /\ ShutdownFlagTruthful /\ WaitsUnapproved
  BY DEF AppInit, AppTypeOK, ShutdownFlagTruthful, WaitsUnapproved, QuitLabels, CloseLabels
<1> QED BY <1>1, <1>2, FlowMeans DEF AppIInv

LEMMA AppStepIInv == AppIInv /\ [AppNext]_allVars => AppIInv'
BY SupervisorKeeps, FlowKeeps DEF AppIInv

LEMMA AppInvariant == AppSpec => []AppIInv
BY AppInitIInv, AppStepIInv, PTL DEF AppSpec

-----------------------------------------------------------------------------
(* The theorems *)

\* Type correctness of the application, and of the supervisor under it: requestOrderedAppShutdown,
\* the close handlers and before-quit keep what main.ts keeps.
THEOREM AppTypes == AppSpec => [](TypeOK /\ AppTypeOK)
<1>1. AppIInv => TypeOK /\ AppTypeOK
  BY FlowMeans DEF AppIInv, Invariant
<1> QED BY <1>1, AppInvariant, PTL

\* appShutdownInProgress is reset on every way out of requestOrderedAppShutdown: however the
\* shutdown, the close requests and the supervisor interleave, the application can be quit again.
THEOREM ShutdownFlagIsTruthful == AppSpec => []ShutdownFlagTruthful
<1>1. AppIInv => ShutdownFlagTruthful
  BY FlowMeans DEF AppIInv
<1> QED BY <1>1, AppInvariant, PTL

\* With one client that starts nodes, every node that runs when the shutdown is approved is sent
\* SIGTERM by then: by its own stop or by cleanupAppRuntimeResources.
THEOREM OneControllerApprovalAsksNode == OneController => (AppSpec => ApprovalAsksNode)
<1> SUFFICES ASSUME OneController PROVE AppSpec => ApprovalAsksNode
  OBVIOUS
<1>1. ASSUME AppIInv, [AppNext]_allVars
      PROVE  [~approved /\ approved' =>
                \A p \in Children : ProcessRuns(p) => "term" \in signal'[p]]_allVars
  <2> SUFFICES ASSUME ~approved, approved', NEW p \in Children, ProcessRuns(p)
               PROVE  "term" \in signal'[p]
    OBVIOUS
  <2>1. TypeOK /\ NoOrphan /\ Open(p)
    BY <1>1, NoneIsNoChild DEF AppIInv, Invariant, Safe, Open, ProcessRuns
  <2>2. p = tracked /\ tracked # None
    BY <2>1, NoneIsNoChild DEF NoOrphan
  <2>3. Cleanup
    <3>1. CASE User
      BY <3>1 DEF User, UserQuits, UserCloses, UserMinimizes, ShowMainWindow, RequestShutdown
    <3>2. CASE QuitFlow
      BY <2>2, <3>2 DEF QuitFlow, QuitContext, QuitBackupAnswered, QuitCancelled, QuitCancelFailed,
         QuitStatus, QuitDeclined, QuitConfirmed, QuitStopped, QuitFails, QuitAt, GiveUp, Approve,
         NeedsManagedShutdown
    <3>3. CASE WindowsClose \/ BackupStarts \/ BackupEnds
      BY <3>3 DEF WindowsClose, BackupStarts, BackupEnds
    <3>4. ASSUME NEW f \in Closes, CloseFlow(f) PROVE FALSE
      BY <3>4 DEF CloseFlow, CloseSetup, CloseStatus, CloseAnswered, Hide, RequestShutdown
    <3>5. UNCHANGED appVars => FALSE
      BY DEF appVars
    <3>6. (\E c \in Clients : SupervisorClient(c)) \/ (\E q \in Children : SupervisorClose(q))
            \/ NodeProcess => FALSE
      BY <3>5 DEF SupervisorClient, SupervisorClose, NodeProcess
    <3> QED BY <1>1, <3>1, <3>2, <3>3, <3>4, <3>5, <3>6 DEF AppNext, allVars
  <2> QED BY <2>1, <2>2, <2>3 DEF Cleanup, Send, TypeOK
<1> QED BY <1>1, AppInvariant, PTL DEF AppSpec, ApprovalAsksNode

\* With one client that starts nodes, requestCloseToMenuBar hides the window without a question
\* only over a supervisor without any process, for any number of close requests in flight.
THEOREM OneControllerHidesOnlyIdle == OneController => (AppSpec => HidesOnlyIdle)
<1> SUFFICES ASSUME OneController PROVE AppSpec => HidesOnlyIdle
  OBVIOUS
<1>1. ASSUME AppIInv, [AppNext]_allVars
      PROVE  [\A f \in Closes : closing[f] = "status" /\ closing'[f] = "none"
                 => \A p \in Children : child[p] = "closed"]_allVars
  <2> SUFFICES ASSUME NEW f \in Closes, closing[f] = "status", closing'[f] = "none",
                      NEW p \in Children
               PROVE  child[p] = "closed"
    OBVIOUS
  <2>1. NoOrphan /\ closing \in [Closes -> CloseLabels]
    BY <1>1 DEF AppIInv, Invariant, Safe, FlowOK, FlowTypeOK
  <2>2. tracked = None
    <3>1. CASE User
      BY <2>1, <3>1 DEF User, UserQuits, UserCloses, UserMinimizes, ShowMainWindow, CloseAt
    <3>2. QuitFlow => FALSE
      BY DEF QuitFlow, QuitContext, QuitBackupAnswered, QuitCancelled, QuitCancelFailed,
         QuitStatus, QuitDeclined, QuitConfirmed, QuitStopped, QuitFails
    <3>3. CASE WindowsClose \/ BackupStarts \/ BackupEnds
      BY <3>3 DEF WindowsClose, BackupStarts, BackupEnds
    <3>4. ASSUME NEW g \in Closes, CloseFlow(g) PROVE tracked = None
      BY <2>1, <3>4 DEF CloseFlow, CloseSetup, CloseStatus, CloseAnswered, Hide, CloseAt,
         NeedsManagedShutdown
    <3>5. UNCHANGED appVars => FALSE
      BY DEF appVars
    <3>6. (\E c \in Clients : SupervisorClient(c)) \/ (\E q \in Children : SupervisorClose(q))
            \/ NodeProcess => FALSE
      BY <3>5 DEF SupervisorClient, SupervisorClose, NodeProcess
    <3> QED BY <1>1, <3>1, <3>2, <3>3, <3>4, <3>5, <3>6 DEF AppNext, allVars
  <2> QED BY <2>1, <2>2, NoneIsNoChild DEF NoOrphan, Open
<1> QED BY <1>1, AppInvariant, PTL DEF AppSpec, HidesOnlyIdle

\* requestOrderedAppShutdown passes each of its awaits at most once, however many clients, close
\* requests and backups go on beside it.
THEOREM ShutdownsMakeProgress == AppSpec => ShutdownProgress
<1>1. ASSUME AppIInv, [AppNext]_allVars
      PROVE  [quitting # "none" =>
                \/ quitting' = quitting
                \/ ShutdownRemaining[quitting'] < ShutdownRemaining[quitting]]_allVars
  <2> SUFFICES ASSUME quitting # "none", quitting' # quitting
               PROVE  ShutdownRemaining[quitting'] < ShutdownRemaining[quitting]
    OBVIOUS
  <2>1. approved = FALSE /\ inProgress = TRUE
    BY <1>1 DEF AppIInv, FlowOK, FlagOK, WaitsUnapproved
  <2>2. ~RequestShutdown
    BY <2>1 DEF RequestShutdown
  <2>3. QuitFlow
    <3>1. CASE User
      BY <2>2, <3>1 DEF User, UserQuits, UserCloses, UserMinimizes, ShowMainWindow
    <3>2. CASE WindowsClose \/ BackupStarts \/ BackupEnds
      BY <3>2 DEF WindowsClose, BackupStarts, BackupEnds
    <3>3. ASSUME NEW f \in Closes, CloseFlow(f) PROVE FALSE
      BY <2>2, <3>3 DEF CloseFlow, CloseSetup, CloseStatus, CloseAnswered, Hide
    <3>4. UNCHANGED appVars => FALSE
      BY DEF appVars
    <3>5. (\E c \in Clients : SupervisorClient(c)) \/ (\E q \in Children : SupervisorClose(q))
            \/ NodeProcess => FALSE
      BY <3>4 DEF SupervisorClient, SupervisorClose, NodeProcess
    <3> QED BY <1>1, <3>1, <3>2, <3>3, <3>4, <3>5 DEF AppNext, allVars
  <2> USE DEF ShutdownRemaining, QuitAt, GiveUp, Approve
  <2>4. CASE QuitContext \/ QuitBackupAnswered
    BY <2>4 DEF QuitContext, QuitBackupAnswered
  <2>5. CASE QuitCancelled \/ QuitCancelFailed
    BY <2>5 DEF QuitCancelled, QuitCancelFailed
  <2>6. CASE QuitStatus \/ QuitDeclined
    BY <2>6 DEF QuitStatus, QuitDeclined
  <2>7. CASE QuitConfirmed \/ QuitStopped \/ QuitFails
    BY <2>7 DEF QuitConfirmed, QuitStopped, QuitFails
  <2> QED BY <2>3, <2>4, <2>5, <2>6, <2>7 DEF QuitFlow
<1> QED BY <1>1, AppInvariant, PTL DEF AppSpec, ShutdownProgress

-----------------------------------------------------------------------------
(***************************************************************************)
(* What the supervisor promises, kept by the whole application.  The only  *)
(* step of the application that is not one of the supervisor is the        *)
(* SIGTERM of before-quit: it gives no answer, and the abstract node only  *)
(* sees it end.                                                            *)
(***************************************************************************)

\* With one client that starts nodes, and the shutdown among the clients that stop them, the
\* application never loses a process it spawned, never kills a node it has not asked to end, and
\* never runs two nodes.
THEOREM AppKeepsOneNode ==
  OneController => (AppSpec => [](NoOrphan /\ KillFollowsTerm /\ NoSecondNode))
<1> SUFFICES ASSUME OneController PROVE AppSpec => [](NoOrphan /\ KillFollowsTerm /\ NoSecondNode)
  OBVIOUS
<1>1. AppIInv => NoOrphan /\ KillFollowsTerm /\ NoSecondNode
  BY AtMostOneRuns DEF AppIInv, Invariant, Safe
<1> QED BY <1>1, AppInvariant, PTL

LEMMA CleanupAnswersNothing == CleanupStep => UNCHANGED <<answer, pc, op>>
BY DEF CleanupStep, reqVars

\* A stop that answers "stopped" or "already stopped" leaves no process of the supervisor, also
\* when it is the stop of the shutdown.
THEOREM AppStopMeansNoNode == OneController => (AppSpec => StopMeansNoNode)
<1> SUFFICES ASSUME OneController PROVE AppSpec => StopMeansNoNode
  OBVIOUS
<1>1. ASSUME AppIInv, [AppNext]_allVars
      PROVE  [\A c \in Clients, r \in {"stopped", "alreadyStopped"} :
                Answers(c, "stop", r) => \A p \in Children : child[p] = "closed"]_vars
  <2>1. CASE CleanupStep
    BY <2>1, CleanupAnswersNothing DEF Answers
  <2>2. CASE [Next]_vars
    BY <1>1, <2>2, StopMeansNoNodeStep DEF AppIInv, NoNodeResults
  <2> QED BY <1>1, <2>1, <2>2, SupervisorSteps DEF allVars
<1> QED BY <1>1, AppInvariant, PTL DEF AppSpec, StopMeansNoNode

LEMMA AppConfiguredStep ==
  ASSUME OneController, AppIInv, AllConfigured, [AppNext]_allVars
  PROVE  AllConfigured'
<1>1. CASE CleanupStep
  BY <1>1 DEF CleanupStep, reqVars, AllConfigured, Configured, Matches
<1>2. CASE [Next]_vars
  BY <1>2, AllConfiguredStep DEF AppIInv
<1> QED BY <1>1, <1>2, SupervisorSteps DEF allVars

\* A start that answers "started" speaks of the tracked process, and that process runs with the
\* features config.yml holds, whatever the shutdown and the window do meanwhile.
THEOREM AppStartedAsConfigured == OneController => (AppSpec => StartedAsConfigured)
<1> SUFFICES ASSUME OneController PROVE AppSpec => StartedAsConfigured
  OBVIOUS
<1>1. AppInit => AllConfigured
  BY InitConfigured DEF AppInit
<1>2. AppIInv /\ AllConfigured /\ [AppNext]_allVars => AllConfigured'
  BY AppConfiguredStep
<1>3. ASSUME AppIInv, AllConfigured, [AppNext]_allVars
      PROVE  [\A c \in Clients, o \in Ops : Answers(c, o, "started")
                => target[c] = tracked /\ flags[tracked] = config]_vars
  <2>1. CASE CleanupStep
    BY <2>1, CleanupAnswersNothing DEF Answers
  <2>2. CASE [Next]_vars
    BY <1>3, <2>2, StartedAsConfiguredStep DEF AppIInv
  <2> QED BY <1>3, <2>1, <2>2, SupervisorSteps DEF allVars
<1> QED BY <1>1, <1>2, <1>3, AppInvariant, PTL DEF AppSpec, StartedAsConfigured

\* A restart goes on to start over no process at all, and never overtakes the process it killed.
THEOREM AppRestartAwaitsClose == OneController => (AppSpec => RestartAwaitsClose)
<1> SUFFICES ASSUME OneController PROVE AppSpec => RestartAwaitsClose
  OBVIOUS
<1>1. ASSUME AppIInv, [AppNext]_allVars
      PROVE  [\A c \in Clients : pc[c] = "close" =>
                /\ pc'[c] = "lsof" => \A p \in Children : child[p] = "closed"
                /\ \A o \in Ops : Answers(c, o, "alreadyActive") /\ ProcessRuns(target[c])
                                    => "kill" \in signal'[target[c]]]_vars
  <2>1. CASE CleanupStep
    BY <2>1, CleanupAnswersNothing DEF Answers
  <2>2. CASE [Next]_vars
    BY <1>1, <2>2, RestartAwaitsCloseStep DEF AppIInv
  <2> QED BY <1>1, <2>1, <2>2, SupervisorSteps DEF allVars
<1> QED BY <1>1, AppInvariant, PTL DEF AppSpec, RestartAwaitsClose

LEMMA AppNodeStep ==
  ASSUME OneController, AppIInv, [AppNext]_allVars
  PROVE  [Node!Next]_<<tracked, Phase>>
<1>1. CASE CleanupStep
  <2>1. CASE ~Open(tracked)
    BY <1>1, <2>1 DEF CleanupStep, Cleanup, Phase, Open
  <2>2. CASE Open(tracked)
    <3>1. tracked \in Children /\ Send("term", tracked) /\ UNCHANGED <<tracked, child>>
      BY <1>1, <2>2 DEF CleanupStep, Cleanup, AppIInv, Invariant, TypeOK, Open
    <3>2. \/ signal'[tracked] = signal[tracked]
          \/ ProcessRuns(tracked) /\ signal'[tracked] # {}
      BY <3>1 DEF Send, AppIInv, Invariant, TypeOK
    <3> QED BY <3>1, <3>2 DEF Phase, Open, ProcessRuns, Node!Next, Node!End
  <2> QED BY <2>1, <2>2
<1>2. CASE [Next]_vars
  BY <1>2, NodeStep DEF AppIInv
<1> QED BY <1>1, <1>2, SupervisorSteps DEF allVars

\* The application, its shutdown and its exit included, implements the abstract managed node.
THEOREM AppImplementsManagedNode == OneController => (AppSpec => ImplementsManagedNode)
<1> SUFFICES ASSUME OneController PROVE AppSpec => ImplementsManagedNode
  OBVIOUS
<1>1. AppInit => Node!Init
  BY DEF AppInit, Init, Node!Init, Phase, Open
<1>2. AppIInv /\ [AppNext]_allVars => [Node!Next]_<<tracked, Phase>>
  BY AppNodeStep
<1> QED BY <1>1, <1>2, AppInvariant, PTL DEF AppSpec, ImplementsManagedNode, Node!Spec

\* With any number of clients that start nodes, and tools that tell the truth, the application
\* runs at most as many nodes as there are such clients.
THEOREM AppNodesAreBounded ==
  IsFiniteSet(Controllers) /\ ToolsMayFail = FALSE => (AppSpec => []NodesBounded)
<1> SUFFICES ASSUME IsFiniteSet(Controllers), ToolsMayFail = FALSE PROVE AppSpec => []NodesBounded
  OBVIOUS
<1>1. AppInit => Counted
  BY InitCounted DEF AppInit
<1>2. ASSUME AppIInv, AppIInv', Counted, [AppNext]_allVars PROVE Counted'
  <2>1. CASE CleanupStep
    <3>1. UNCHANGED <<child, pc, op, seen>>
      BY <2>1 DEF CleanupStep, reqVars
    <3>2. StopperStops'
      BY <1>2, <3>1 DEF Counted, StopperStops
    <3>3. ToolsMayFail = FALSE => Accounted'
      BY <1>2, <3>1, FewerAccounted DEF Counted, Running, ProcessRuns, MaySpawn
    <3> QED BY <1>2, <3>2, <3>3 DEF Counted, AppIInv, Invariant
  <2>2. CASE [Next]_vars
    BY <1>2, <2>2, CountedStep
  <2> QED BY <1>2, <2>1, <2>2, SupervisorSteps DEF allVars
<1>3. Counted => NodesBounded
  BY CountedIsBounded
<1> QED BY <1>1, <1>2, <1>3, AppInvariant, PTL DEF AppSpec
=============================================================================
