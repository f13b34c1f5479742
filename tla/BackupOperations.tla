-------------------------- MODULE BackupOperations --------------------------
(***************************************************************************)
(* electron/lib/backup-service.ts: creating, restoring and cancelling a    *)
(* native backup, through the admin API of a running node or through       *)
(* teleno_node commands while the node is stopped.                         *)
(*                                                                         *)
(* createLocalBackup and restoreNativeBackup are sequences of awaits; an   *)
(* action is one chunk between two of them.  The renderer runs one         *)
(* operation at a time (nodeBusy disables the buttons) but a cancel may    *)
(* come at any moment, also after its operation has answered.  The node,   *)
(* the commands and the disk are external: a stage is written to           *)
(* restore-staging.partial and renamed when complete, an activation is a   *)
(* request that the next start of the node carries out.                    *)
(***************************************************************************)
EXTENDS Naturals, FiniteSets

CONSTANTS
  NodeOperations,  \* operation ids of the node's backup admin
  None,
  Kinds,           \* operations the user asks for: "create", "local" (restore of
                   \* a local snapshot), "fetched" (of a remote or public one)
  MaxTimers        \* bound: pending SIGKILL timeouts

ASSUME NoneIsNoOperation == None \notin NodeOperations
ASSUME KindsAreKnown == Kinds \subseteq {"create", "local", "fetched"}
ASSUME MaxTimersIsNat == MaxTimers \in Nat

VARIABLES
  pc, kind,     \* the await the operation stands at, and what it does
  admin,        \* settings.backup.adminEnabled, in the settings of the operation
  answer,       \* status of the last result: "none", "complete", "cancelled", "error"
  seen,         \* the managed node runs, as the pending status read it
  running,      \* nodeRunning of createLocalBackup
  cancelled,    \* activeBackupCancelled
  active,       \* activeBackupProcess # null
  adminOp,      \* operationId of activeBackupAdminOperation
  timers,       \* SIGKILL timeouts armed by cancels
  command,      \* the command spawned by spawnTrackedBackupCommand
  signal,       \* the signal it was sent
  node, shown,  \* the node, and nodeRunningCount > 0 in the renderer
  nodeOps,      \* the node's operations
  asked,        \* those it was asked to cancel
  staging,      \* the node writes a stage
  partial,      \* restore-staging.partial exists
  stage,        \* restore-staging
  activation,   \* an activation request awaits the next start
  touched       \* this operation requested an activation or replaced the database

opVars == <<pc, kind, admin, answer, seen, running>>
serviceVars == <<cancelled, active, adminOp, timers>>
commandVars == <<command, signal>>
nodeVars == <<node, shown, nodeOps, asked, staging>>
diskVars == <<partial, stage, activation, touched>>
vars == <<opVars, serviceVars, commandVars, nodeVars, diskVars>>

CommandAwaits == {"createCommand", "localStage", "fetchedRestore"}
PollAwaits == {"createPoll", "fetchPoll"}
Awaits ==
  CommandAwaits \cup PollAwaits \cup
  {"idle", "status", "adminStatus", "createPost", "restoreStatus", "fetchPost", "preflight",
   "stagePost", "stageWait", "activatePost", "stop", "localPreflight", "localActivate"}

BackupTypeOK ==
  /\ pc \in Awaits
  /\ kind \in Kinds
  /\ answer \in {"none", "complete", "cancelled", "error"}
  /\ {admin, seen, running, cancelled, active, shown, staging, partial, activation, touched}
       \subseteq BOOLEAN
  /\ adminOp \in NodeOperations \cup {None}
  /\ timers \in 0..MaxTimers
  /\ command \in {"none", "running", "staged", "activated", "succeeded", "failed"}
  /\ signal \in {"none", "term", "kill"}
  /\ node \in {"up", "down"}
  /\ nodeOps \in [NodeOperations -> {"none", "running", "succeeded", "failed"}]
  /\ asked \subseteq NodeOperations
  /\ stage \in {"absent", "empty", "complete"}

Restoring == pc # "idle" /\ kind # "create"

-----------------------------------------------------------------------------
\* What several chunks share

\* pc moves on; the operation has not answered.
Await(at) == pc' = at /\ UNCHANGED <<kind, answer>>

Return(result) == pc' = "idle" /\ answer' = result /\ UNCHANGED kind

\* cleanupOnCancel, cleanupRestoreOnCancel
ReturnCancelled ==
  /\ Return("cancelled")
  /\ active' = FALSE
  /\ adminOp' = None

\* A result other than cancelled; the finally blocks forget the admin operation.
ReturnDone(result) ==
  /\ Return(result)
  /\ adminOp' = None
  /\ UNCHANGED active

\* The catch block of restoreNativeBackup.
Caught == IF cancelled THEN ReturnCancelled ELSE ReturnDone("error")

\* spawnTrackedBackupCommand
Spawn(at) ==
  /\ Await(at)
  /\ active' = TRUE
  /\ command' = "running"
  /\ signal' = "none"
  /\ UNCHANGED adminOp

\* clearStaleRestorePartialStaging, rmSync(stagingDir), mkdirSync(stagingDir); then on.
\* A stage the node is still writing loses its files.
ClearStage(at) ==
  IF partial /\ active
    THEN Caught /\ UNCHANGED <<partial, stage, staging>>
    ELSE /\ Await(at)
         /\ partial' = FALSE
         /\ stage' = "empty"
         /\ staging' = FALSE
         /\ UNCHANGED <<active, adminOp>>

\* The node starts an admin operation and the request is answered; or the request or
\* its answer is lost.
Posted(o) == nodeOps[o] = "none" /\ nodeOps' = [nodeOps EXCEPT ![o] = "running"]

-----------------------------------------------------------------------------
\* createLocalBackup

BeginCreate ==
  /\ pc = "idle"
  /\ "create" \in Kinds
  /\ pc' = "status" /\ kind' = "create" /\ answer' = "none"
  /\ admin' \in BOOLEAN
  /\ cancelled' = FALSE
  /\ touched' = FALSE
  /\ seen' = (node = "up")
  /\ UNCHANGED <<running, active, adminOp, timers, commandVars, nodeVars, partial, stage, activation>>

\* An offline backup of a node that does not run, if the binary is there.
CreateOffline(up) ==
  \/ ReturnDone("error") /\ UNCHANGED commandVars
  \/ ~up /\ Spawn("createCommand")

CreateStatus ==
  /\ pc = "status"
  /\ running' = seen
  /\ IF admin
       THEN /\ Await("adminStatus")
            /\ seen' = (node = "up")
            /\ UNCHANGED <<active, adminOp, commandVars>>
       ELSE CreateOffline(seen) /\ UNCHANGED seen
  /\ UNCHANGED <<cancelled, timers, nodeVars, diskVars>>

CreateAdminStatus ==
  /\ pc = "adminStatus"
  /\ \/ seen /\ Await("createPost") /\ UNCHANGED <<active, adminOp, commandVars>>
     \/ seen /\ ReturnDone("error") /\ UNCHANGED commandVars  \* no token
     \/ ~seen /\ CreateOffline(running)
  /\ UNCHANGED <<seen, running, cancelled, timers, nodeVars, diskVars>>

\* Mutant: an answer without an operation id is polled all the same.
CreatePostUnchecked ==
  /\ pc = "createPost"
  /\ \/ /\ node = "up"
        /\ \E o \in NodeOperations : Posted(o)
        /\ IF cancelled
             THEN ReturnCancelled
             ELSE Await("createPoll") /\ adminOp' = "no id" /\ UNCHANGED active
     \/ ReturnDone("error") /\ UNCHANGED nodeOps
  /\ UNCHANGED <<seen, running, cancelled, timers, commandVars, node, shown, asked, staging, diskVars>>

\* Mutant: the flag is not looked at when the id has come.
CreatePostEager ==
  /\ pc = "createPost"
  /\ \/ /\ node = "up"
        /\ \E o \in NodeOperations :
             Posted(o) /\ Await("createPoll") /\ adminOp' = o /\ UNCHANGED active
     \/ ReturnDone("error") /\ UNCHANGED nodeOps
  /\ UNCHANGED <<seen, running, cancelled, timers, commandVars, node, shown, asked, staging, diskVars>>

CreatePost ==
  /\ pc = "createPost"
  /\ \/ /\ node = "up"
        /\ \E o \in NodeOperations :
             /\ Posted(o)
             /\ \/ IF cancelled
                     THEN ReturnCancelled
                     ELSE Await("createPoll") /\ adminOp' = o /\ UNCHANGED active
                \/ ReturnDone("error")
     \/ ReturnDone("error") /\ UNCHANGED nodeOps
  /\ UNCHANGED <<seen, running, cancelled, timers, commandVars, node, shown, asked, staging, diskVars>>

\* Mutant: polling goes on for as long as the node answers.
CreatePollForever ==
  /\ pc = "createPoll"
  /\ \/ node = "down" /\ ReturnDone("error")
     \/ /\ node = "up" /\ cancelled
        /\ ReturnCancelled
     \/ /\ node = "up" /\ ~cancelled
        /\ \/ nodeOps[adminOp] = "succeeded" /\ ReturnDone("complete")
           \/ nodeOps[adminOp] \in {"failed", "none"} /\ ReturnDone("error")
  /\ UNCHANGED <<seen, running, cancelled, timers, commandVars, nodeVars, diskVars>>

\* Mutant: the operation is forgotten only when it succeeded (no finally).
CreatePollLeaking ==
  /\ pc = "createPoll"
  /\ \/ Return("error") /\ UNCHANGED <<active, adminOp>>
     \/ /\ node = "up" /\ nodeOps[adminOp] # "none"
        /\ IF cancelled THEN ReturnCancelled
           ELSE /\ nodeOps[adminOp] = "succeeded"
                /\ ReturnDone("complete")
  /\ UNCHANGED <<seen, running, cancelled, timers, commandVars, nodeVars, diskVars>>

\* A status request fails (the node is gone, the reply is lost) or the six hours of
\* the loop are over; or its answer says that the operation has ended.
CreatePoll ==
  /\ pc = "createPoll"
  /\ \/ ReturnDone("error")
     \/ /\ node = "up" /\ nodeOps[adminOp] # "none"
        /\ IF cancelled THEN ReturnCancelled
           ELSE \/ nodeOps[adminOp] = "succeeded" /\ ReturnDone("complete")
                \/ nodeOps[adminOp] = "failed" /\ ReturnDone("error")
  /\ UNCHANGED <<seen, running, cancelled, timers, commandVars, nodeVars, diskVars>>

-----------------------------------------------------------------------------
\* restoreNativeBackup, running node

RestoreOffline ==
  \/ ReturnDone("error") /\ UNCHANGED <<partial, stage, staging>>  \* no binary
  \/ IF cancelled
       THEN ReturnCancelled /\ UNCHANGED <<partial, stage, staging>>
       ELSE ClearStage("stop")

\* With the admin API disabled no status is asked for: the offline path follows at once.
BeginRestore(k) ==
  /\ pc = "idle"
  /\ k \in Kinds \ {"create"}
  /\ kind' = k
  /\ cancelled' = FALSE
  /\ touched' = FALSE
  /\ admin' \in BOOLEAN
  /\ IF admin'
       THEN /\ pc' = "restoreStatus" /\ answer' = "none"
            /\ seen' = (node = "up")
            /\ UNCHANGED <<active, partial, stage, staging>>
       ELSE /\ \/ pc' = "idle" /\ answer' = "error" /\ UNCHANGED <<partial, stage, staging>>
               \/ IF partial /\ active
                    THEN pc' = "idle" /\ answer' = "error" /\ UNCHANGED <<partial, stage, staging>>
                    ELSE /\ pc' = "stop" /\ answer' = "none"
                         /\ partial' = FALSE /\ stage' = "empty" /\ staging' = FALSE
            /\ UNCHANGED <<seen, active>>
  /\ UNCHANGED <<running, adminOp, timers, commandVars, node, shown, nodeOps, asked, activation>>

RestoreStatus ==
  /\ pc = "restoreStatus"
  /\ \/ /\ seen
        /\ IF kind = "fetched"
             THEN Await("fetchPost") /\ UNCHANGED <<active, adminOp>>
             ELSE IF cancelled THEN ReturnCancelled
             ELSE Await("preflight") /\ UNCHANGED <<active, adminOp>>
        /\ UNCHANGED <<partial, stage, staging>>
     \/ seen /\ Caught /\ UNCHANGED <<partial, stage, staging>>  \* no token
     \/ ~seen /\ RestoreOffline
  /\ UNCHANGED <<seen, running, cancelled, timers, commandVars, node, shown, nodeOps, asked, activation, touched>>

FetchPost ==
  /\ pc = "fetchPost"
  /\ \/ /\ node = "up"
        /\ \E o \in NodeOperations :
             /\ Posted(o)
             /\ \/ IF cancelled
                     THEN ReturnCancelled
                     ELSE Await("fetchPoll") /\ adminOp' = o /\ UNCHANGED active
                \/ Caught
     \/ Caught /\ UNCHANGED nodeOps
  /\ UNCHANGED <<seen, running, cancelled, timers, commandVars, node, shown, asked, staging, diskVars>>

FetchPoll ==
  /\ pc = "fetchPoll"
  /\ \/ Caught
     \/ /\ node = "up" /\ nodeOps[adminOp] # "none"
        /\ IF cancelled THEN ReturnCancelled
           ELSE \/ /\ nodeOps[adminOp] = "succeeded"
                   /\ \/ Await("preflight") /\ adminOp' = None /\ UNCHANGED active
                      \/ ReturnDone("error")
                \/ nodeOps[adminOp] = "failed" /\ ReturnDone("error")
     \/ IF cancelled THEN ReturnCancelled  \* six hours: the loop ends, and the restore goes on
        ELSE Await("preflight") /\ adminOp' = None /\ UNCHANGED active
  /\ UNCHANGED <<seen, running, cancelled, timers, commandVars, nodeVars, diskVars>>

Preflight ==
  /\ pc = "preflight"
  /\ \/ Caught /\ UNCHANGED <<partial, stage, staging>>
     \/ node = "up" /\ ReturnDone("error") /\ UNCHANGED <<partial, stage, staging>>
     \/ /\ node = "up"
        /\ IF cancelled
             THEN ReturnCancelled /\ UNCHANGED <<partial, stage, staging>>
             ELSE ClearStage("stagePost")
  /\ UNCHANGED <<seen, running, cancelled, timers, commandVars, node, shown, nodeOps, asked, activation, touched>>

\* The stage is complete: the check before the activation.
Staged ==
  IF cancelled THEN ReturnCancelled
  ELSE Await("activatePost") /\ UNCHANGED <<active, adminOp>>

\* Mutant: a headers timeout is taken for the end of the stage.
StagePostTimeoutDone ==
  /\ pc = "stagePost"
  /\ \/ stage = "complete" /\ Staged
     \/ Caught
     \/ staging /\ Staged
  /\ UNCHANGED <<seen, running, cancelled, timers, commandVars, nodeVars, diskVars>>

\* Answered, failed, or out of time for the response headers while the node works on.
StagePost ==
  /\ pc = "stagePost"
  /\ \/ stage = "complete" /\ Staged
     \/ Caught
     \/ /\ staging
        /\ IF cancelled THEN ReturnCancelled
           ELSE Await("stageWait") /\ UNCHANGED <<active, adminOp>>
  /\ UNCHANGED <<seen, running, cancelled, timers, commandVars, nodeVars, diskVars>>

\* waitForNativeRestoreStageCompletion: the markers are there; or the directories are
\* gone, empty, or six hours have passed.
StageWait ==
  /\ pc = "stageWait"
  /\ IF stage = "complete" THEN Staged ELSE Caught
  /\ UNCHANGED <<seen, running, cancelled, timers, commandVars, nodeVars, diskVars>>

ActivatePost ==
  /\ pc = "activatePost"
  /\ \/ /\ node = "up"
        /\ activation' = TRUE /\ touched' = TRUE
        /\ ReturnDone("complete") \/ Caught
     \/ Caught /\ UNCHANGED <<activation, touched>>
  /\ UNCHANGED <<seen, running, cancelled, timers, commandVars, nodeVars, partial, stage>>

-----------------------------------------------------------------------------
\* restoreNativeBackup, stopped node

\* The stop has answered.  A fetched restore spawns its command at once.
Stopped ==
  /\ pc = "stop"
  /\ \/ /\ node' = "down"
        /\ IF kind = "fetched" THEN Spawn("fetchedRestore")
           ELSE /\ IF cancelled
                     THEN ReturnCancelled
                     ELSE Await("localPreflight") /\ UNCHANGED <<active, adminOp>>
                /\ UNCHANGED commandVars
        /\ nodeOps' = [o \in NodeOperations |-> "none"]
        /\ staging' = FALSE
     \/ ReturnDone("error") /\ UNCHANGED <<commandVars, node, nodeOps, staging>>
     \/ Caught /\ UNCHANGED <<commandVars, node, nodeOps, staging>>
  /\ UNCHANGED <<seen, running, cancelled, timers, shown, asked, diskVars>>

LocalPreflight ==
  /\ pc = "localPreflight"
  /\ \/ ReturnDone("error") /\ UNCHANGED commandVars
     \/ cancelled /\ ReturnCancelled /\ UNCHANGED commandVars
     \/ ~cancelled /\ Spawn("localStage")
  /\ UNCHANGED <<seen, running, cancelled, timers, nodeVars, diskVars>>

\* Mutant: close resolves the promise and leaves activeBackupProcess.
CommandClosedKept ==
  /\ pc \in CommandAwaits
  /\ command \in {"succeeded", "failed"}
  /\ command' = "none"
  /\ IF cancelled THEN ReturnCancelled
     ELSE /\ UNCHANGED <<active, adminOp>>
          /\ IF command = "failed" THEN Return("error")
             ELSE IF pc = "localStage" THEN Await("localActivate")
             ELSE Return("complete")
  /\ UNCHANGED <<signal, seen, running, cancelled, timers, nodeVars, diskVars>>

\* The close event of the command, and the chunk that follows it.
CommandClosed ==
  /\ pc \in CommandAwaits
  /\ command \in {"succeeded", "failed"}
  /\ command' = "none"
  /\ active' = FALSE
  /\ adminOp' = IF cancelled THEN None ELSE adminOp
  /\ IF cancelled THEN Return("cancelled")
     ELSE IF command = "failed" THEN Return("error")
     ELSE IF pc = "localStage" THEN Await("localActivate")
     ELSE Return("complete")
  /\ UNCHANGED <<signal, seen, running, cancelled, timers, nodeVars, diskVars>>

\* Mutant: the flag is looked at after the activation, too.
LocalActivateChecked ==
  /\ pc = "localActivate"
  /\ \/ /\ activation' = TRUE /\ touched' = TRUE
        /\ IF cancelled THEN ReturnCancelled ELSE ReturnDone("complete")
     \/ ReturnDone("error") /\ UNCHANGED <<activation, touched>>
  /\ UNCHANGED <<seen, running, cancelled, timers, commandVars, nodeVars, partial, stage>>

LocalActivate ==
  /\ pc = "localActivate"
  /\ \/ activation' = TRUE /\ touched' = TRUE /\ ReturnDone("complete")
     \/ ReturnDone("error") /\ UNCHANGED <<activation, touched>>
  /\ UNCHANGED <<seen, running, cancelled, timers, commandVars, nodeVars, partial, stage>>

-----------------------------------------------------------------------------
\* cancelCreateBackup

\* Mutant: SIGTERM only.
CancelPolitely ==
  /\ cancelled' = TRUE
  /\ IF adminOp # None
       THEN asked' = asked \cup {adminOp} /\ UNCHANGED <<signal, timers>>
       ELSE /\ signal' = IF active /\ signal = "none" THEN "term" ELSE signal
            /\ UNCHANGED <<asked, timers>>
  /\ UNCHANGED <<opVars, active, adminOp, command, node, shown, nodeOps, staging, diskVars>>

\* An admin operation is cancelled by a request (which may be lost); a command by
\* SIGTERM now and SIGKILL two seconds later; anything else by the flag alone.
Cancel ==
  /\ cancelled' = TRUE
  /\ IF adminOp # None
       THEN asked' = asked \cup {adminOp} /\ UNCHANGED <<signal, timers>>
       ELSE IF active
       THEN /\ timers < MaxTimers
            /\ timers' = timers + 1
            /\ signal' = IF signal = "none" THEN "term" ELSE signal
            /\ UNCHANGED asked
       ELSE UNCHANGED <<asked, signal, timers>>
  /\ UNCHANGED <<opVars, active, adminOp, command, node, shown, nodeOps, staging, diskVars>>

\* The timeout kills whatever activeBackupProcess is by now.
KillTimer ==
  /\ timers > 0
  /\ timers' = timers - 1
  /\ signal' = IF active THEN "kill" ELSE signal
  /\ UNCHANGED <<opVars, cancelled, active, adminOp, command, nodeVars, diskVars>>

-----------------------------------------------------------------------------
\* The command (external): a stage is written and renamed, then a fetched restore
\* replaces the database, which it can only do while the node is stopped.

Live == {"running", "staged", "activated"}

CommandStages ==
  /\ pc \in {"localStage", "fetchedRestore"}
  /\ command = "running"
  /\ \/ ~partial /\ partial' = TRUE /\ UNCHANGED <<stage, command>>
     \/ partial /\ partial' = FALSE /\ stage' = "complete" /\ command' = "staged"
  /\ UNCHANGED <<opVars, serviceVars, signal, nodeVars, activation, touched>>

CommandActivates ==
  /\ pc = "fetchedRestore"
  /\ command = "staged"
  /\ node = "down"
  /\ command' = "activated"
  /\ touched' = TRUE
  /\ stage' = "absent"
  /\ UNCHANGED <<opVars, serviceVars, signal, nodeVars, partial, activation>>

CommandFinished ==
  command = CASE pc = "createCommand" -> "running"
              [] pc = "localStage" -> "staged"
              [] OTHER -> "activated"

CommandExits ==
  /\ pc \in CommandAwaits
  /\ \/ command \in Live /\ command' = "failed"
     \/ CommandFinished /\ command' = "succeeded"
  /\ UNCHANGED <<opVars, serviceVars, signal, nodeVars, diskVars>>

KilledDies ==
  /\ signal = "kill"
  /\ command \in Live
  /\ command' = "failed"
  /\ UNCHANGED <<opVars, serviceVars, signal, nodeVars, diskVars>>

-----------------------------------------------------------------------------
\* The node (external), and who starts and stops it

NodeStops ==
  /\ node = "up"
  /\ node' = "down"
  /\ nodeOps' = [o \in NodeOperations |-> "none"]
  /\ staging' = FALSE
  /\ UNCHANGED <<opVars, serviceVars, commandVars, shown, asked, diskVars>>

\* Buttons are disabled while an operation runs.  The watchdog is silent during a
\* backup but not during a restore; it runs while the renderer shows a running node,
\* which it does all through a restore of a node that ran (the polling pauses).
MayStart == pc = "idle" \/ (Restoring /\ shown)

\* A pending activation whose stage is complete replaces the database.
NodeStarts ==
  /\ node = "down"
  /\ MayStart
  /\ node' = "up"
  /\ activation' = FALSE
  /\ stage' = IF activation /\ stage = "complete" THEN "absent" ELSE stage
  /\ UNCHANGED <<opVars, serviceVars, commandVars, shown, nodeOps, asked, staging, partial, touched>>

RendererPolls ==
  /\ ~Restoring
  /\ shown' = (node = "up")
  /\ UNCHANGED <<opVars, serviceVars, commandVars, node, nodeOps, asked, staging, diskVars>>

\* An operation ends, or obeys a cancel; ended ones no one polls are forgotten.
NodeOperationEnds(o) ==
  /\ nodeOps[o] = "running"
  /\ nodeOps' = [nodeOps EXCEPT ![o] = IF o \in asked THEN "failed" ELSE "succeeded"]
  /\ UNCHANGED <<opVars, serviceVars, commandVars, node, shown, asked, staging, diskVars>>

NodeOperationFails(o) ==
  /\ nodeOps[o] = "running"
  /\ nodeOps' = [nodeOps EXCEPT ![o] = "failed"]
  /\ UNCHANGED <<opVars, serviceVars, commandVars, node, shown, asked, staging, diskVars>>

NodeForgets(o) ==
  /\ adminOp # o
  /\ nodeOps[o] # "running"
  /\ nodeOps[o] # "none" \/ o \in asked
  /\ nodeOps' = [nodeOps EXCEPT ![o] = "none"]
  /\ asked' = asked \ {o}
  /\ UNCHANGED <<opVars, serviceVars, commandVars, node, shown, staging, diskVars>>

\* The node begins the requested stage, completes it, or leaves a partial one.
NodeStages ==
  /\ node = "up"
  /\ \/ /\ pc = "stagePost" /\ stage = "empty" /\ ~partial
        /\ staging' = TRUE /\ partial' = TRUE
        /\ UNCHANGED stage
     \/ staging /\ staging' = FALSE /\ partial' = FALSE /\ stage' = "complete"
     \/ staging /\ staging' = FALSE /\ UNCHANGED <<partial, stage>>
  /\ UNCHANGED <<opVars, serviceVars, commandVars, node, shown, nodeOps, asked, activation, touched>>

-----------------------------------------------------------------------------
BackupInit ==
  /\ pc = "idle" /\ kind \in Kinds /\ answer = "none" /\ admin \in BOOLEAN
  /\ seen = FALSE /\ running = FALSE
  /\ cancelled = FALSE /\ active = FALSE /\ adminOp = None /\ timers = 0
  /\ command = "none" /\ signal = "none"
  /\ node \in {"up", "down"} /\ shown = (node = "up")
  /\ nodeOps = [o \in NodeOperations |-> "none"] /\ asked = {}
  /\ staging = FALSE
  /\ partial \in BOOLEAN  \* an interrupted restore of an earlier session
  /\ stage = "absent" /\ activation = FALSE /\ touched = FALSE

Begin == BeginCreate \/ \E k \in Kinds : BeginRestore(k)

\* The chunks of an operation that the event loop runs once their await has ended.
Operation ==
  /\ \/ CreateStatus \/ CreateAdminStatus \/ CreatePost \/ CreatePoll
     \/ RestoreStatus \/ FetchPost \/ FetchPoll \/ Preflight
     \/ StagePost \/ StageWait \/ ActivatePost
     \/ Stopped \/ LocalPreflight \/ CommandClosed \/ LocalActivate
  /\ UNCHANGED admin

External ==
  \/ CommandStages \/ CommandActivates \/ CommandExits \/ KilledDies
  \/ NodeStops \/ NodeStarts \/ NodeStages
  \/ \E o \in NodeOperations : NodeOperationEnds(o) \/ NodeOperationFails(o) \/ NodeForgets(o)

BackupNext == Begin \/ Operation \/ Cancel \/ KillTimer \/ RendererPolls \/ External

BackupSpec == BackupInit /\ [][BackupNext]_vars

\* Every await ends by an answer or a timeout, timers fire, a killed process dies.
\* A command that is not killed need not end.
BackupFairness ==
  /\ WF_vars(Operation)
  /\ WF_vars(KillTimer)
  /\ WF_vars(KilledDies)

FairBackupSpec == BackupSpec /\ BackupFairness

-----------------------------------------------------------------------------
\* Properties

\* What isBackupOperationActive and cancel rely on: a command is tracked from its spawn
\* to its close, and an admin operation is remembered only while it is being polled, so
\* the quit flow never waits for a backup that is over nor misses a command.
ActivityTruthful ==
  /\ active = (command # "none")
  /\ adminOp # None => pc \in PollAwaits

\* A running node is only asked to activate a stage that is complete, also when the wait
\* for it went by the files on disk; a fetched restore of a stopped node answers complete
\* only when the database was replaced.
CompleteMeansRestored ==
  [][/\ pc # "activatePost" /\ pc' = "activatePost" => stage' = "complete"
     /\ pc = "fetchedRestore" /\ answer # "complete" /\ answer' = "complete" => touched']_vars

\* An operation of the node that was being polled is given up as cancelled only after the
\* node was asked to stop it: a cancel that came before its id was known never leads to
\* a poll, whatever operations earlier cancels left in the node.
PolledCancelAsks ==
  [][adminOp # None /\ answer # "cancelled" /\ answer' = "cancelled" => adminOp \in asked]_vars

\* A restore of a local snapshot that answers cancelled has requested no activation
\* (offline): the flag is read after the stage and not after the activation.
CancelledLocalTouchesNothing ==
  answer = "cancelled" /\ kind = "local" /\ ~admin => ~touched

\* Every operation answers or stands at a command, whatever the node and the admin API
\* do: polls, requests and the wait for a stage are all bounded in time.
OperationReturns == pc # "idle" ~> pc \in {"idle"} \cup CommandAwaits

\* A command that was told to stop ends, even one that ignores SIGTERM.
CancelKills == signal = "term" /\ command # "none" ~> command = "none"

\* How many more awaits an operation that stands at one can pass, at most.
AwaitsLeft(at) ==
  CASE at = "idle" -> 0
    [] at \in {"createCommand", "createPoll", "fetchedRestore", "activatePost", "localActivate"} -> 1
    [] at \in {"createPost", "stageWait", "localStage"} -> 2
    [] at \in {"adminStatus", "stagePost", "localPreflight"} -> 3
    [] at \in {"status", "preflight", "stop"} -> 4
    [] at = "fetchPoll" -> 5
    [] at = "fetchPost" -> 6
    [] at = "restoreStatus" -> 7

\* An operation only goes forward, whatever is cancelled, lost or timed out beside it: no
\* fallback from one path to another passes an await again, and it is answered once, when it
\* ends.
OperationProgress ==
  [][pc # "idle" =>
       \/ pc' = pc /\ answer' = answer
       \/ pc' # "idle" /\ AwaitsLeft(pc') < AwaitsLeft(pc) /\ answer' = "none"
       \/ pc' = "idle" /\ answer' # "none"]_vars

\* What the code does not keep.

\* src/src/i18n.ts, node.cancelRestoreTooltip: "Partial restore staging data stays on
\* disk so the existing database is not replaced"; a command that was told to stop and
\* finished all the same is left out.
CancelledTouchesNothing == answer = "cancelled" /\ signal = "none" => ~touched

=============================================================================
