----------------------- MODULE BackupOperations_proofs -----------------------
(***************************************************************************)
(* Theorems of BackupOperations for every set of admin operations, every   *)
(* choice of operations and both settings of the admin API.                *)
(*                                                                         *)
(* ActivityTruthful is not inductive: a chunk that returns forgets the     *)
(* command only because none runs at its await.  Bookkeeping adds that a   *)
(* command runs exactly at the three awaits of a command.                  *)
(***************************************************************************)
EXTENDS BackupOperations, TLAPS

Bookkeeping ==
  /\ pc \in CommandAwaits => active = TRUE /\ command # "none"
  /\ pc \notin CommandAwaits => active = FALSE /\ command = "none"
  /\ adminOp # None => pc \in PollAwaits

\* Nothing runs in the initial states.
LEMMA BookkeepingInit == BackupInit => Bookkeeping
BY DEF BackupInit, Bookkeeping, CommandAwaits, PollAwaits

\* Beginning an operation changes the await only.
LEMMA BookkeepingBegin == Bookkeeping /\ Begin => Bookkeeping'
<1> SUFFICES ASSUME Bookkeeping, Begin PROVE Bookkeeping'
  OBVIOUS
<1> USE DEF Bookkeeping, CommandAwaits, PollAwaits, commandVars
<1>1. CASE BeginCreate
  BY <1>1 DEF BeginCreate
<1>2. ASSUME NEW k \in Kinds, BeginRestore(k) PROVE Bookkeeping'
  BY <1>2 DEF BeginRestore
<1> QED BY <1>1, <1>2 DEF Begin

\* The chunks of a backup: only the spawn and the close event concern a command.
LEMMA BookkeepingCreate ==
  Bookkeeping /\ (CreateStatus \/ CreateAdminStatus \/ CreatePost \/ CreatePoll) => Bookkeeping'
<1> SUFFICES ASSUME Bookkeeping, CreateStatus \/ CreateAdminStatus \/ CreatePost \/ CreatePoll
             PROVE Bookkeeping'
  OBVIOUS
<1> USE DEF Bookkeeping, CommandAwaits, PollAwaits, commandVars, Await, Return,
            ReturnDone, ReturnCancelled
<1>1. CASE CreateStatus
  BY <1>1 DEF CreateStatus, CreateOffline, Spawn
<1>2. CASE CreateAdminStatus
  BY <1>2 DEF CreateAdminStatus, CreateOffline, Spawn
<1>3. CASE CreatePost
  BY <1>3 DEF CreatePost
<1>4. CASE CreatePoll
  BY <1>4 DEF CreatePoll
<1> QED BY <1>1, <1>2, <1>3, <1>4

\* The chunks of a restore through the admin API: no command at all.
LEMMA BookkeepingAdminRestore ==
  Bookkeeping /\ (RestoreStatus \/ FetchPost \/ FetchPoll \/ Preflight \/ StagePost \/ StageWait \/ ActivatePost)
    => Bookkeeping'
<1> SUFFICES ASSUME Bookkeeping,
                    RestoreStatus \/ FetchPost \/ FetchPoll \/ Preflight \/ StagePost \/ StageWait
                      \/ ActivatePost
             PROVE Bookkeeping'
  OBVIOUS
<1> USE DEF Bookkeeping, CommandAwaits, PollAwaits, commandVars, Await, Return,
            ReturnDone, ReturnCancelled, Caught
<1>1. CASE RestoreStatus
  BY <1>1 DEF RestoreStatus, RestoreOffline, ClearStage
<1>2. CASE FetchPost
  BY <1>2 DEF FetchPost
<1>3. CASE FetchPoll
  BY <1>3 DEF FetchPoll
<1>4. CASE Preflight
  BY <1>4 DEF Preflight, ClearStage
<1>5. CASE StagePost
  BY <1>5 DEF StagePost, Staged
<1>6. CASE StageWait
  BY <1>6 DEF StageWait, Staged
<1>7. CASE ActivatePost
  BY <1>7 DEF ActivatePost
<1> QED BY <1>1, <1>2, <1>3, <1>4, <1>5, <1>6, <1>7

\* The chunks of a restore of a stopped node, and the close event of a command.
LEMMA BookkeepingOfflineRestore ==
  Bookkeeping /\ (Stopped \/ LocalPreflight \/ CommandClosed \/ LocalActivate) => Bookkeeping'
<1> SUFFICES ASSUME Bookkeeping, Stopped \/ LocalPreflight \/ CommandClosed \/ LocalActivate
             PROVE Bookkeeping'
  OBVIOUS
<1> USE DEF Bookkeeping, CommandAwaits, PollAwaits, commandVars, Await, Return,
            ReturnDone, ReturnCancelled, Caught
<1>1. CASE Stopped
  BY <1>1 DEF Stopped, Spawn
<1>2. CASE LocalPreflight
  BY <1>2 DEF LocalPreflight, Spawn
<1>3. CASE CommandClosed
  BY <1>3 DEF CommandClosed
<1>4. CASE LocalActivate
  BY <1>4 DEF LocalActivate
<1> QED BY <1>1, <1>2, <1>3, <1>4

\* A cancel, its timeout and the renderer send signals and read; they start and end
\* nothing.
LEMMA BookkeepingCancel == Bookkeeping /\ (Cancel \/ KillTimer \/ RendererPolls) => Bookkeeping'
BY DEF Bookkeeping, CommandAwaits, PollAwaits, Cancel, KillTimer, RendererPolls, opVars,
       serviceVars, commandVars

\* A command that works or exits is still a command; the node changes nothing here.
LEMMA BookkeepingExternal == Bookkeeping /\ External => Bookkeeping'
<1> SUFFICES ASSUME Bookkeeping, External PROVE Bookkeeping'
  OBVIOUS
<1> USE DEF Bookkeeping, CommandAwaits, PollAwaits, opVars, serviceVars, commandVars
<1>1. CASE CommandStages
  BY <1>1 DEF CommandStages
<1>2. CASE CommandActivates
  BY <1>2 DEF CommandActivates
<1>3. CASE CommandExits
  BY <1>3 DEF CommandExits
<1>4. CASE KilledDies
  BY <1>4 DEF KilledDies, Live
<1>5. CASE NodeStops \/ NodeStarts \/ NodeStages
  BY <1>5 DEF NodeStops, NodeStarts, NodeStages
<1>6. ASSUME NEW o \in NodeOperations, NodeOperationEnds(o) \/ NodeOperationFails(o) \/ NodeForgets(o)
      PROVE Bookkeeping'
  BY <1>6 DEF NodeOperationEnds, NodeOperationFails, NodeForgets
<1> QED BY <1>1, <1>2, <1>3, <1>4, <1>5, <1>6 DEF External

LEMMA BookkeepingStep == Bookkeeping /\ [BackupNext]_vars => Bookkeeping'
<1> SUFFICES ASSUME Bookkeeping, [BackupNext]_vars PROVE Bookkeeping'
  OBVIOUS
<1>1. CASE Begin
  BY <1>1, BookkeepingBegin
<1>2. CASE Operation
  BY <1>2, BookkeepingCreate, BookkeepingAdminRestore, BookkeepingOfflineRestore DEF Operation
<1>3. CASE Cancel \/ KillTimer \/ RendererPolls
  BY <1>3, BookkeepingCancel
<1>4. CASE External
  BY <1>4, BookkeepingExternal
<1>5. CASE UNCHANGED vars
  BY <1>5 DEF vars, opVars, serviceVars, commandVars, Bookkeeping, CommandAwaits, PollAwaits
<1> QED BY <1>1, <1>2, <1>3, <1>4, <1>5 DEF BackupNext

\* A command is tracked from its spawn to its close, and an admin operation only while
\* it is polled: what isBackupOperationActive, the quit flow and a cancel rely on.
THEOREM ActivityIsTruthful == BackupSpec => []ActivityTruthful
<1>1. Bookkeeping => ActivityTruthful
  BY DEF Bookkeeping, ActivityTruthful
<1> QED BY BookkeepingInit, BookkeepingStep, <1>1, PTL DEF BackupSpec

-----------------------------------------------------------------------------
\* A cancelled operation whose id is remembered is one the node was asked to stop: the
\* id is remembered only where the flag was just seen down.

Asked ==
  /\ cancelled \in BOOLEAN
  /\ adminOp # None /\ cancelled = TRUE => adminOp \in asked

LEMMA AskedOperation == Bookkeeping /\ Asked /\ Operation => Asked'
<1> SUFFICES ASSUME Bookkeeping, Asked, Operation PROVE Asked'
  OBVIOUS
<1> USE DEF Asked, Bookkeeping, PollAwaits, nodeVars, Await, Return, ReturnDone,
            ReturnCancelled, Caught
<1>1. CASE CreateStatus \/ CreateAdminStatus
  BY <1>1 DEF CreateStatus, CreateAdminStatus, CreateOffline, Spawn
<1>2. CASE CreatePost \/ FetchPost
  BY <1>2 DEF CreatePost, FetchPost
<1>3. CASE CreatePoll \/ FetchPoll
  BY <1>3 DEF CreatePoll, FetchPoll
<1>4. CASE RestoreStatus \/ Preflight
  BY <1>4 DEF RestoreStatus, RestoreOffline, Preflight, ClearStage
<1>5. CASE StagePost \/ StageWait \/ ActivatePost
  BY <1>5 DEF StagePost, StageWait, ActivatePost, Staged
<1>6. CASE Stopped \/ LocalPreflight \/ CommandClosed \/ LocalActivate
  BY <1>6 DEF Stopped, LocalPreflight, CommandClosed, LocalActivate, Spawn, CommandAwaits
<1> QED BY <1>1, <1>2, <1>3, <1>4, <1>5, <1>6 DEF Operation

LEMMA AskedElse ==
  Bookkeeping /\ Asked /\ (Begin \/ Cancel \/ KillTimer \/ RendererPolls \/ External) => Asked'
<1> SUFFICES ASSUME Bookkeeping, Asked, Begin \/ Cancel \/ KillTimer \/ RendererPolls \/ External
             PROVE Asked'
  OBVIOUS
<1> USE DEF Asked, serviceVars, nodeVars
<1>1. CASE Begin
  BY <1>1 DEF Begin, BeginCreate, BeginRestore
<1>2. CASE Cancel \/ KillTimer \/ RendererPolls
  BY <1>2 DEF Cancel, KillTimer, RendererPolls
<1>3. CASE CommandStages \/ CommandActivates \/ CommandExits \/ KilledDies
  BY <1>3 DEF CommandStages, CommandActivates, CommandExits, KilledDies
<1>4. CASE NodeStops \/ NodeStarts \/ NodeStages
  BY <1>4 DEF NodeStops, NodeStarts, NodeStages
<1>5. ASSUME NEW o \in NodeOperations, NodeOperationEnds(o) \/ NodeOperationFails(o) \/ NodeForgets(o)
      PROVE Asked'
  BY <1>5 DEF NodeOperationEnds, NodeOperationFails, NodeForgets
<1> QED BY <1>1, <1>2, <1>3, <1>4, <1>5 DEF External

\* An operation that was being polled answers cancelled only after the node was asked to
\* stop it.
THEOREM PolledCancelIsAsked == BackupSpec => PolledCancelAsks
<1>1. BackupInit => Bookkeeping /\ Asked
  BY BookkeepingInit DEF BackupInit, Asked
<1>2. Bookkeeping /\ Asked /\ [BackupNext]_vars => (Bookkeeping /\ Asked)'
  BY BookkeepingStep, AskedOperation, AskedElse DEF BackupNext, vars, serviceVars, nodeVars, Asked
<1>3. ASSUME Bookkeeping, Asked, [BackupNext]_vars
      PROVE  [adminOp # None /\ answer # "cancelled" /\ answer' = "cancelled"
                => adminOp \in asked]_vars
  <2> SUFFICES ASSUME adminOp # None, answer # "cancelled", answer' = "cancelled"
               PROVE  adminOp \in asked
    OBVIOUS
  <2>1. pc \in PollAwaits
    BY <1>3 DEF Bookkeeping
  <2>2. cancelled
    <3> USE DEF PollAwaits, opVars, vars
    <3>1. CASE CreatePoll
      BY <2>1, <3>1 DEF CreatePoll, ReturnDone, Return
    <3>2. CASE FetchPoll
      BY <2>1, <3>2 DEF FetchPoll, Caught, ReturnDone, Return, Await
    <3>3. ~CreatePoll /\ ~FetchPoll => ~Operation
      BY <2>1 DEF Operation, CreateStatus, CreateAdminStatus, CreatePost, RestoreStatus, FetchPost,
         Preflight, StagePost, StageWait, ActivatePost, Stopped, LocalPreflight, CommandClosed,
         CommandAwaits, LocalActivate
    <3>4. CASE Begin
      BY <2>1, <3>4 DEF Begin, BeginCreate, BeginRestore
    <3>5. CASE Cancel \/ KillTimer \/ RendererPolls
      BY <3>5 DEF Cancel, KillTimer, RendererPolls
    <3>6. CASE External
      BY <3>6 DEF External, CommandStages, CommandActivates, CommandExits, KilledDies, NodeStops,
         NodeStarts, NodeStages, NodeOperationEnds, NodeOperationFails, NodeForgets
    <3> QED BY <1>3, <3>1, <3>2, <3>3, <3>4, <3>5, <3>6 DEF BackupNext
  <2> QED BY <2>2, <1>3 DEF Asked
<1> QED BY <1>1, <1>2, <1>3, PTL DEF BackupSpec, PolledCancelAsks

-----------------------------------------------------------------------------
\* With the admin API disabled an operation stays on the offline path, where a local
\* restore requests its activation in the chunk that answers complete.

OfflineAwaits(k) ==
  CASE k = "create" -> {"idle", "status", "createCommand"}
    [] k = "local" -> {"idle", "stop", "localPreflight", "localStage", "localActivate"}
    [] OTHER -> {"idle", "stop", "fetchedRestore"}

Offline ==
  /\ kind \in {"create", "local", "fetched"}
  /\ admin \in BOOLEAN
  /\ ~admin => /\ pc \in OfflineAwaits(kind)
               /\ kind = "local" /\ touched => pc = "idle" /\ answer = "complete"

\* The chunks of the offline path keep to it; those of the admin path are out of reach.
LEMMA OfflineOperation == Offline /\ Operation => Offline'
<1> SUFFICES ASSUME Offline, Operation PROVE Offline'
  OBVIOUS
<1> USE DEF Offline, OfflineAwaits, Await, Return, ReturnDone, ReturnCancelled, Caught, diskVars
<1>0. admin' = admin
  BY DEF Operation
<1>1. CASE CreateStatus
  BY <1>0, <1>1 DEF CreateStatus, CreateOffline, Spawn
<1>2. CASE Stopped
  BY <1>0, <1>2 DEF Stopped, Spawn
<1>3. CASE LocalPreflight
  BY <1>0, <1>3 DEF LocalPreflight, Spawn
<1>4. CASE CommandClosed
  BY <1>0, <1>4 DEF CommandClosed, CommandAwaits
<1>5. CASE LocalActivate
  BY <1>0, <1>5 DEF LocalActivate
<1>6. CASE \/ CreateAdminStatus \/ CreatePost \/ CreatePoll \/ RestoreStatus \/ FetchPost
           \/ FetchPoll \/ Preflight \/ StagePost \/ StageWait \/ ActivatePost
  <2> USE <1>6 DEF CreateAdminStatus, CreatePost, CreatePoll, RestoreStatus, FetchPost,
                  FetchPoll, Preflight, StagePost, StageWait, ActivatePost
  <2>1. CASE ~admin
    <3>1. pc \in {"adminStatus", "createPost", "createPoll", "restoreStatus", "fetchPost",
                  "fetchPoll", "preflight", "stagePost", "stageWait", "activatePost"}
      OBVIOUS
    <3> QED BY <2>1, <3>1
  <2>2. CASE admin
    <3>1. kind' = kind
      BY DEF CreateOffline, Spawn, RestoreOffline, ClearStage, Staged
    <3> QED BY <1>0, <2>2, <3>1
  <2> QED BY <2>1, <2>2
<1> QED BY <1>1, <1>2, <1>3, <1>4, <1>5, <1>6 DEF Operation

\* Nothing outside the operation activates for a local restore.
LEMMA OfflineElse ==
  Offline /\ (Begin \/ Cancel \/ KillTimer \/ RendererPolls \/ External) => Offline'
<1> SUFFICES ASSUME Offline, Begin \/ Cancel \/ KillTimer \/ RendererPolls \/ External
             PROVE Offline'
  OBVIOUS
<1> USE DEF Offline, OfflineAwaits, opVars, diskVars
<1>1. CASE BeginCreate
  BY <1>1 DEF BeginCreate
<1>2. ASSUME NEW k \in Kinds, BeginRestore(k) PROVE Offline'
  BY <1>2, KindsAreKnown DEF BeginRestore
<1>3. CASE Cancel \/ KillTimer \/ RendererPolls
  BY <1>3 DEF Cancel, KillTimer, RendererPolls
<1>4. CASE CommandStages \/ CommandActivates \/ CommandExits \/ KilledDies
  BY <1>4 DEF CommandStages, CommandActivates, CommandExits, KilledDies
<1>5. CASE NodeStops \/ NodeStarts \/ NodeStages
  BY <1>5 DEF NodeStops, NodeStarts, NodeStages
<1>6. ASSUME NEW o \in NodeOperations, NodeOperationEnds(o) \/ NodeOperationFails(o) \/ NodeForgets(o)
      PROVE Offline'
  BY <1>6 DEF NodeOperationEnds, NodeOperationFails, NodeForgets
<1> QED BY <1>1, <1>2, <1>3, <1>4, <1>5, <1>6 DEF Begin, External

\* Without the admin API a local restore that answers cancelled has requested no
\* activation and replaced nothing.
THEOREM OfflineCancelTouchesNothing == BackupSpec => []CancelledLocalTouchesNothing
<1>1. BackupInit => Offline
  BY KindsAreKnown DEF BackupInit, Offline, OfflineAwaits
<1>2. Offline /\ [BackupNext]_vars => Offline'
  <2> SUFFICES ASSUME Offline, [BackupNext]_vars PROVE Offline'
    OBVIOUS
  <2>1. CASE Operation
    BY <2>1, OfflineOperation
  <2>2. CASE Begin \/ Cancel \/ KillTimer \/ RendererPolls \/ External
    BY <2>2, OfflineElse
  <2>3. CASE UNCHANGED vars
    BY <2>3 DEF vars, opVars, diskVars, Offline, OfflineAwaits
  <2> QED BY <2>1, <2>2, <2>3 DEF BackupNext
<1>3. Offline => CancelledLocalTouchesNothing
  BY DEF Offline, CancelledLocalTouchesNothing
<1> QED BY <1>1, <1>2, <1>3, PTL DEF BackupSpec

-----------------------------------------------------------------------------
\* Types, group by group.

OpTypes ==
  /\ pc \in Awaits
  /\ kind \in Kinds
  /\ answer \in {"none", "complete", "cancelled", "error"}
  /\ admin \in BOOLEAN /\ seen \in BOOLEAN /\ running \in BOOLEAN

ServiceTypes ==
  /\ cancelled \in BOOLEAN /\ active \in BOOLEAN
  /\ adminOp \in NodeOperations \cup {None}
  /\ timers \in 0..MaxTimers

CommandTypes ==
  /\ command \in {"none", "running", "staged", "activated", "succeeded", "failed"}
  /\ signal \in {"none", "term", "kill"}

NodeTypes ==
  /\ node \in {"up", "down"}
  /\ shown \in BOOLEAN /\ staging \in BOOLEAN
  /\ nodeOps \in [NodeOperations -> {"none", "running", "succeeded", "failed"}]
  /\ asked \subseteq NodeOperations

DiskTypes ==
  /\ partial \in BOOLEAN /\ activation \in BOOLEAN /\ touched \in BOOLEAN
  /\ stage \in {"absent", "empty", "complete"}

FlatTypes == OpTypes /\ ServiceTypes /\ CommandTypes /\ NodeTypes /\ DiskTypes

LEMMA FlatTypesAreTypes == FlatTypes => BackupTypeOK
<1> SUFFICES ASSUME FlatTypes PROVE BackupTypeOK
  OBVIOUS
<1>1. {admin, seen, running, cancelled, active, shown, staging, partial, activation, touched}
        \subseteq BOOLEAN
  BY Zenon DEF FlatTypes, OpTypes, ServiceTypes, NodeTypes, DiskTypes
<1> QED BY <1>1 DEF FlatTypes, OpTypes, ServiceTypes, CommandTypes, NodeTypes, DiskTypes, BackupTypeOK

LEMMA TypesInit == BackupInit => FlatTypes
<1> SUFFICES ASSUME BackupInit PROVE FlatTypes
  OBVIOUS
<1> USE DEF BackupInit
<1>1. OpTypes
  BY DEF OpTypes, Awaits
<1>2. ServiceTypes
  <2>1. 0 \in 0..MaxTimers
    BY MaxTimersIsNat
  <2> QED BY <2>1, Zenon DEF ServiceTypes
<1>3. CommandTypes
  BY DEF CommandTypes
<1>4. NodeTypes
  BY DEF NodeTypes
<1>5. DiskTypes
  BY DEF DiskTypes
<1> QED BY <1>1, <1>2, <1>3, <1>4, <1>5 DEF FlatTypes

\* Where the operation stands and what it answers.
LEMMA OpTypesOperation == FlatTypes /\ Operation => OpTypes'
<1> SUFFICES ASSUME FlatTypes, Operation PROVE OpTypes'
  OBVIOUS
<1> USE DEF FlatTypes, OpTypes, Awaits, CommandAwaits, PollAwaits, Await, Return, ReturnDone, ReturnCancelled, Caught
<1>0. admin' = admin
  BY DEF Operation
<1>1. CASE CreateStatus
  BY <1>0, <1>1 DEF CreateStatus, CreateOffline, Spawn
<1>2. CASE CreateAdminStatus
  BY <1>0, <1>2 DEF CreateAdminStatus, CreateOffline, Spawn
<1>3. CASE CreatePost
  BY <1>0, <1>3 DEF CreatePost, Posted
<1>4. CASE CreatePoll
  BY <1>0, <1>4 DEF CreatePoll
<1>5. CASE RestoreStatus
  BY <1>0, <1>5 DEF RestoreStatus, RestoreOffline, ClearStage
<1>6. CASE FetchPost
  BY <1>0, <1>6 DEF FetchPost, Posted
<1>7. CASE FetchPoll
  BY <1>0, <1>7 DEF FetchPoll
<1>8. CASE Preflight
  BY <1>0, <1>8 DEF Preflight, ClearStage
<1>9. CASE StagePost
  BY <1>0, <1>9 DEF StagePost, Staged
<1>10. CASE StageWait
  BY <1>0, <1>10 DEF StageWait, Staged
<1>11. CASE ActivatePost
  BY <1>0, <1>11 DEF ActivatePost
<1>12. CASE Stopped
  BY <1>0, <1>12 DEF Stopped, Spawn
<1>13. CASE LocalPreflight
  BY <1>0, <1>13 DEF LocalPreflight, Spawn
<1>14. CASE CommandClosed
  BY <1>0, <1>14 DEF CommandClosed
<1>15. CASE LocalActivate
  BY <1>0, <1>15 DEF LocalActivate
<1> QED BY <1>1, <1>2, <1>3, <1>4, <1>5, <1>6, <1>7, <1>8, <1>9, <1>10, <1>11, <1>12, <1>13, <1>14, <1>15 DEF Operation

\* What cancelCreateBackup and isBackupOperationActive read.
LEMMA ServiceTypesOperation == FlatTypes /\ Operation => ServiceTypes'
<1> SUFFICES ASSUME FlatTypes, Operation PROVE ServiceTypes'
  OBVIOUS
<1> USE DEF FlatTypes, ServiceTypes, NodeTypes, Await, Return, ReturnDone, ReturnCancelled, Caught
<1>1. CASE CreateStatus
  BY <1>1 DEF CreateStatus, CreateOffline, Spawn
<1>2. CASE CreateAdminStatus
  BY <1>2 DEF CreateAdminStatus, CreateOffline, Spawn
<1>3. CASE CreatePost
  BY <1>3 DEF CreatePost, Posted
<1>4. CASE CreatePoll
  BY <1>4 DEF CreatePoll
<1>5. CASE RestoreStatus
  BY <1>5 DEF RestoreStatus, RestoreOffline, ClearStage
<1>6. CASE FetchPost
  BY <1>6 DEF FetchPost, Posted
<1>7. CASE FetchPoll
  BY <1>7 DEF FetchPoll
<1>8. CASE Preflight
  BY <1>8 DEF Preflight, ClearStage
<1>9. CASE StagePost
  BY <1>9 DEF StagePost, Staged
<1>10. CASE StageWait
  BY <1>10 DEF StageWait, Staged
<1>11. CASE ActivatePost
  BY <1>11 DEF ActivatePost
<1>12. CASE Stopped
  BY <1>12 DEF Stopped, Spawn
<1>13. CASE LocalPreflight
  BY <1>13 DEF LocalPreflight, Spawn
<1>14. CASE CommandClosed
  BY <1>14 DEF CommandClosed, CommandAwaits
<1>15. CASE LocalActivate
  BY <1>15 DEF LocalActivate
<1> QED BY <1>1, <1>2, <1>3, <1>4, <1>5, <1>6, <1>7, <1>8, <1>9, <1>10, <1>11, <1>12, <1>13, <1>14, <1>15 DEF Operation

\* The command and its signal.
LEMMA CommandTypesOperation == FlatTypes /\ Operation => CommandTypes'
<1> SUFFICES ASSUME FlatTypes, Operation PROVE CommandTypes'
  OBVIOUS
<1> USE DEF FlatTypes, CommandTypes, commandVars, Await, Return, ReturnDone, ReturnCancelled, Caught
<1>1. CASE CreateStatus
  BY <1>1 DEF CreateStatus, CreateOffline, Spawn
<1>2. CASE CreateAdminStatus
  BY <1>2 DEF CreateAdminStatus, CreateOffline, Spawn
<1>3. CASE CreatePost
  BY <1>3 DEF CreatePost, Posted
<1>4. CASE CreatePoll
  BY <1>4 DEF CreatePoll
<1>5. CASE RestoreStatus
  BY <1>5 DEF RestoreStatus, RestoreOffline, ClearStage
<1>6. CASE FetchPost
  BY <1>6 DEF FetchPost, Posted
<1>7. CASE FetchPoll
  BY <1>7 DEF FetchPoll
<1>8. CASE Preflight
  BY <1>8 DEF Preflight, ClearStage
<1>9. CASE StagePost
  BY <1>9 DEF StagePost, Staged
<1>10. CASE StageWait
  BY <1>10 DEF StageWait, Staged
<1>11. CASE ActivatePost
  BY <1>11 DEF ActivatePost
<1>12. CASE Stopped
  BY <1>12 DEF Stopped, Spawn
<1>13. CASE LocalPreflight
  BY <1>13 DEF LocalPreflight, Spawn
<1>14. CASE CommandClosed
  BY <1>14 DEF CommandClosed, CommandAwaits
<1>15. CASE LocalActivate
  BY <1>15 DEF LocalActivate
<1> QED BY <1>1, <1>2, <1>3, <1>4, <1>5, <1>6, <1>7, <1>8, <1>9, <1>10, <1>11, <1>12, <1>13, <1>14, <1>15 DEF Operation

\* The node and its operations.
LEMMA NodeTypesOperation == FlatTypes /\ Operation => NodeTypes'
<1> SUFFICES ASSUME FlatTypes, Operation PROVE NodeTypes'
  OBVIOUS
<1> USE DEF FlatTypes, NodeTypes, nodeVars, Await, Return, ReturnDone, ReturnCancelled, Caught
<1>1. CASE CreateStatus
  BY <1>1 DEF CreateStatus, CreateOffline, Spawn
<1>2. CASE CreateAdminStatus
  BY <1>2 DEF CreateAdminStatus, CreateOffline, Spawn
<1>3. CASE CreatePost
  BY <1>3 DEF CreatePost, Posted
<1>4. CASE CreatePoll
  BY <1>4 DEF CreatePoll
<1>5. CASE RestoreStatus
  BY <1>5 DEF RestoreStatus, RestoreOffline, ClearStage
<1>6. CASE FetchPost
  BY <1>6 DEF FetchPost, Posted
<1>7. CASE FetchPoll
  BY <1>7 DEF FetchPoll
<1>8. CASE Preflight
  BY <1>8 DEF Preflight, ClearStage
<1>9. CASE StagePost
  BY <1>9 DEF StagePost, Staged
<1>10. CASE StageWait
  BY <1>10 DEF StageWait, Staged
<1>11. CASE ActivatePost
  BY <1>11 DEF ActivatePost
<1>12. CASE Stopped
  BY <1>12 DEF Stopped, Spawn
<1>13. CASE LocalPreflight
  BY <1>13 DEF LocalPreflight, Spawn
<1>14. CASE CommandClosed
  BY <1>14 DEF CommandClosed, CommandAwaits
<1>15. CASE LocalActivate
  BY <1>15 DEF LocalActivate
<1> QED BY <1>1, <1>2, <1>3, <1>4, <1>5, <1>6, <1>7, <1>8, <1>9, <1>10, <1>11, <1>12, <1>13, <1>14, <1>15 DEF Operation

\* The disk.
LEMMA DiskTypesOperation == FlatTypes /\ Operation => DiskTypes'
<1> SUFFICES ASSUME FlatTypes, Operation PROVE DiskTypes'
  OBVIOUS
<1> USE DEF FlatTypes, DiskTypes, diskVars, Await, Return, ReturnDone, ReturnCancelled, Caught
<1>1. CASE CreateStatus
  BY <1>1 DEF CreateStatus, CreateOffline, Spawn
<1>2. CASE CreateAdminStatus
  BY <1>2 DEF CreateAdminStatus, CreateOffline, Spawn
<1>3. CASE CreatePost
  BY <1>3 DEF CreatePost, Posted
<1>4. CASE CreatePoll
  BY <1>4 DEF CreatePoll
<1>5. CASE RestoreStatus
  BY <1>5 DEF RestoreStatus, RestoreOffline, ClearStage
<1>6. CASE FetchPost
  BY <1>6 DEF FetchPost, Posted
<1>7. CASE FetchPoll
  BY <1>7 DEF FetchPoll
<1>8. CASE Preflight
  BY <1>8 DEF Preflight, ClearStage
<1>9. CASE StagePost
  BY <1>9 DEF StagePost, Staged
<1>10. CASE StageWait
  BY <1>10 DEF StageWait, Staged
<1>11. CASE ActivatePost
  BY <1>11 DEF ActivatePost
<1>12. CASE Stopped
  BY <1>12 DEF Stopped, Spawn
<1>13. CASE LocalPreflight
  BY <1>13 DEF LocalPreflight, Spawn
<1>14. CASE CommandClosed
  BY <1>14 DEF CommandClosed, CommandAwaits
<1>15. CASE LocalActivate
  BY <1>15 DEF LocalActivate
<1> QED BY <1>1, <1>2, <1>3, <1>4, <1>5, <1>6, <1>7, <1>8, <1>9, <1>10, <1>11, <1>12, <1>13, <1>14, <1>15 DEF Operation

\* Requests of the user, the command and the node.
LEMMA TypesElse ==
  FlatTypes /\ (Begin \/ Cancel \/ KillTimer \/ RendererPolls \/ External) => FlatTypes'
<1> SUFFICES ASSUME FlatTypes, Begin \/ Cancel \/ KillTimer \/ RendererPolls \/ External
             PROVE FlatTypes'
  OBVIOUS
<1> USE DEF FlatTypes, OpTypes, ServiceTypes, CommandTypes, NodeTypes, DiskTypes, opVars, serviceVars,
            commandVars, nodeVars, diskVars
<1>1. CASE BeginCreate
  <2>1. OpTypes'
    BY <1>1 DEF BeginCreate, Awaits
  <2>2. ServiceTypes'
    BY <1>1 DEF BeginCreate, Awaits
  <2>3. CommandTypes'
    BY <1>1 DEF BeginCreate, Awaits
  <2>4. NodeTypes'
    BY <1>1 DEF BeginCreate, Awaits
  <2>5. DiskTypes'
    BY <1>1 DEF BeginCreate, Awaits
  <2> QED BY <2>1, <2>2, <2>3, <2>4, <2>5 DEF FlatTypes
<1>2. ASSUME NEW k \in Kinds, BeginRestore(k) PROVE FlatTypes'
  <2>1. OpTypes'
    BY <1>2 DEF BeginRestore, Awaits
  <2>2. ServiceTypes'
    BY <1>2 DEF BeginRestore, Awaits
  <2>3. CommandTypes'
    BY <1>2 DEF BeginRestore, Awaits
  <2>4. NodeTypes'
    BY <1>2 DEF BeginRestore, Awaits
  <2>5. DiskTypes'
    BY <1>2 DEF BeginRestore, Awaits
  <2> QED BY <2>1, <2>2, <2>3, <2>4, <2>5 DEF FlatTypes
<1>3. CASE Cancel
  BY <1>3, MaxTimersIsNat DEF Cancel
<1>4. CASE KillTimer
  BY <1>4, MaxTimersIsNat DEF KillTimer
<1>5. CASE RendererPolls
  BY <1>5 DEF RendererPolls
<1>6. CASE CommandStages \/ CommandActivates
  <2>1. OpTypes'
    BY <1>6 DEF CommandStages, CommandActivates
  <2>2. ServiceTypes'
    BY <1>6 DEF CommandStages, CommandActivates
  <2>3. CommandTypes'
    BY <1>6 DEF CommandStages, CommandActivates
  <2>4. NodeTypes'
    BY <1>6 DEF CommandStages, CommandActivates
  <2>5. DiskTypes'
    BY <1>6 DEF CommandStages, CommandActivates
  <2> QED BY <2>1, <2>2, <2>3, <2>4, <2>5 DEF FlatTypes
<1>7. CASE CommandExits \/ KilledDies
  <2>1. OpTypes'
    BY <1>7 DEF CommandExits, KilledDies
  <2>2. ServiceTypes'
    BY <1>7 DEF CommandExits, KilledDies
  <2>3. CommandTypes'
    BY <1>7 DEF CommandExits, KilledDies
  <2>4. NodeTypes'
    BY <1>7 DEF CommandExits, KilledDies
  <2>5. DiskTypes'
    BY <1>7 DEF CommandExits, KilledDies
  <2> QED BY <2>1, <2>2, <2>3, <2>4, <2>5 DEF FlatTypes
<1>8. CASE NodeStops \/ NodeStarts
  <2>1. OpTypes'
    BY <1>8 DEF NodeStops, NodeStarts
  <2>2. ServiceTypes'
    BY <1>8 DEF NodeStops, NodeStarts
  <2>3. CommandTypes'
    BY <1>8 DEF NodeStops, NodeStarts
  <2>4. NodeTypes'
    BY <1>8 DEF NodeStops, NodeStarts
  <2>5. DiskTypes'
    BY <1>8 DEF NodeStops, NodeStarts
  <2> QED BY <2>1, <2>2, <2>3, <2>4, <2>5 DEF FlatTypes
<1>9. CASE NodeStages
  <2>1. OpTypes'
    BY <1>9 DEF NodeStages
  <2>2. ServiceTypes'
    BY <1>9 DEF NodeStages
  <2>3. CommandTypes'
    BY <1>9 DEF NodeStages
  <2>4. NodeTypes'
    BY <1>9 DEF NodeStages
  <2>5. DiskTypes'
    BY <1>9 DEF NodeStages
  <2> QED BY <2>1, <2>2, <2>3, <2>4, <2>5 DEF FlatTypes
<1>10. ASSUME NEW o \in NodeOperations, NodeOperationEnds(o) \/ NodeOperationFails(o) \/ NodeForgets(o)
      PROVE FlatTypes'
  BY <1>10 DEF NodeOperationEnds, NodeOperationFails, NodeForgets
<1> QED BY <1>1, <1>2, <1>3, <1>4, <1>5, <1>6, <1>7, <1>8, <1>9, <1>10 DEF Begin, External

LEMMA TypesStep == FlatTypes /\ [BackupNext]_vars => FlatTypes'
<1> SUFFICES ASSUME FlatTypes, [BackupNext]_vars PROVE FlatTypes'
  OBVIOUS
<1>1. CASE Operation
  BY <1>1, OpTypesOperation, ServiceTypesOperation, CommandTypesOperation, NodeTypesOperation,
     DiskTypesOperation DEF FlatTypes
<1>2. CASE Begin \/ Cancel \/ KillTimer \/ RendererPolls \/ External
  BY <1>2, TypesElse
<1>3. CASE UNCHANGED vars
  BY <1>3 DEF vars, opVars, serviceVars, commandVars, nodeVars, diskVars, FlatTypes, OpTypes,
     ServiceTypes, CommandTypes, NodeTypes, DiskTypes
<1> QED BY <1>1, <1>2, <1>3 DEF BackupNext

\* Every variable of createLocalBackup, restoreNativeBackup and cancelCreateBackup keeps its type;
\* in particular only operations that the node was asked for are polled.
THEOREM BackupTypes == BackupSpec => []BackupTypeOK
<1>1. FlatTypes => BackupTypeOK
  BY FlatTypesAreTypes
<1> QED BY TypesInit, TypesStep, <1>1, PTL DEF BackupSpec

-----------------------------------------------------------------------------
\* A fetched restore whose command got as far as replacing the database has touched it.

FetchedTouched ==
  pc = "fetchedRestore" /\ command \in {"activated", "succeeded"} => touched = TRUE

LEMMA FetchedTouchedStep ==
  FlatTypes /\ Bookkeeping /\ FetchedTouched /\ [BackupNext]_vars => FetchedTouched'
<1> SUFFICES ASSUME FlatTypes, Bookkeeping, FetchedTouched, [BackupNext]_vars PROVE FetchedTouched'
  OBVIOUS
<1> USE DEF FetchedTouched
<1>1. CASE Operation
  <2> USE DEF Await, Return, ReturnDone, ReturnCancelled, Caught
  <2>1. CASE Stopped
    BY <2>1 DEF Stopped, Spawn, diskVars
  <2>2. CASE LocalPreflight \/ CommandClosed \/ LocalActivate
    BY <2>2 DEF LocalPreflight, CommandClosed, LocalActivate, Spawn, diskVars
  <2>3. CASE CreateStatus \/ CreateAdminStatus \/ CreatePost \/ CreatePoll
    BY <2>3 DEF CreateStatus, CreateAdminStatus, CreateOffline, CreatePost, CreatePoll, Spawn, diskVars
  <2>4. CASE \/ RestoreStatus \/ FetchPost \/ FetchPoll \/ Preflight \/ StagePost \/ StageWait
             \/ ActivatePost
    BY <2>4 DEF RestoreStatus, RestoreOffline, ClearStage, FetchPost, FetchPoll, Preflight, StagePost,
                StageWait, Staged, ActivatePost
  <2> QED BY <1>1, <2>1, <2>2, <2>3, <2>4 DEF Operation
<1>2. CASE Begin
  BY <1>2 DEF Begin, BeginCreate, BeginRestore
<1>3. CASE Cancel \/ KillTimer \/ RendererPolls
  BY <1>3 DEF Cancel, KillTimer, RendererPolls, opVars, commandVars, diskVars
<1>4. CASE CommandStages \/ CommandActivates \/ CommandExits \/ KilledDies
  BY <1>4 DEF CommandStages, CommandActivates, CommandExits, CommandFinished, KilledDies, opVars, diskVars
<1>5. CASE NodeStops \/ NodeStarts \/ NodeStages
  BY <1>5 DEF NodeStops, NodeStarts, NodeStages, opVars, commandVars, diskVars
<1>6. ASSUME NEW o \in NodeOperations, NodeOperationEnds(o) \/ NodeOperationFails(o) \/ NodeForgets(o)
      PROVE FetchedTouched'
  BY <1>6 DEF NodeOperationEnds, NodeOperationFails, NodeForgets, opVars, commandVars, diskVars
<1>7. CASE UNCHANGED vars
  BY <1>7 DEF vars, opVars, commandVars, diskVars
<1> QED BY <1>1, <1>2, <1>3, <1>4, <1>5, <1>6, <1>7 DEF BackupNext, External

\* restoreNativeBackup asks the node to activate complete stages only, and a fetched restore of a
\* stopped node that answers complete has replaced the database.
THEOREM CompleteIsRestored == BackupSpec => CompleteMeansRestored
<1> DEFINE I == FlatTypes /\ Bookkeeping /\ FetchedTouched
<1>1. BackupInit => I
  BY TypesInit, BookkeepingInit DEF BackupInit, FetchedTouched
<1>2. I /\ [BackupNext]_vars => I'
  BY TypesStep, BookkeepingStep, FetchedTouchedStep
<1>3. ASSUME I, [BackupNext]_vars
      PROVE  [/\ pc # "activatePost" /\ pc' = "activatePost" => stage' = "complete"
              /\ pc = "fetchedRestore" /\ answer # "complete" /\ answer' = "complete" => touched']_vars
  <2>1. ASSUME pc # "activatePost", pc' = "activatePost" PROVE stage' = "complete"
    <3>1. CASE StagePost \/ StageWait
      BY <2>1, <3>1 DEF StagePost, StageWait, Staged, Caught, Await, Return, ReturnDone,
                        ReturnCancelled, diskVars
    <3>2. CASE Operation /\ ~StagePost /\ ~StageWait
      BY <2>1, <3>2 DEF Operation, CreateStatus, CreateAdminStatus, CreateOffline, CreatePost,
         CreatePoll, RestoreStatus, RestoreOffline, ClearStage, FetchPost, FetchPoll, Preflight,
         ActivatePost, Stopped, LocalPreflight, CommandClosed, LocalActivate, Spawn, Await, Return,
         ReturnDone, ReturnCancelled, Caught
    <3>3. CASE Begin
      BY <2>1, <3>3 DEF Begin, BeginCreate, BeginRestore
    <3>4. CASE Cancel \/ KillTimer \/ RendererPolls \/ External \/ UNCHANGED vars
      BY <2>1, <3>4 DEF Cancel, KillTimer, RendererPolls, External, CommandStages, CommandActivates,
         CommandExits, KilledDies, NodeStops, NodeStarts, NodeStages, NodeOperationEnds,
         NodeOperationFails, NodeForgets, opVars, vars
    <3> QED BY <1>3, <3>1, <3>2, <3>3, <3>4 DEF BackupNext
  <2>2. ASSUME pc = "fetchedRestore", answer # "complete", answer' = "complete" PROVE touched'
    <3>1. CASE CommandClosed
      BY <1>3, <2>2, <3>1 DEF CommandClosed, Return, Await, FetchedTouched, diskVars
    <3>2. CASE Operation /\ ~CommandClosed
      BY <2>2, <3>2 DEF Operation, CreateStatus, CreateAdminStatus, CreatePost, CreatePoll,
         RestoreStatus, FetchPost, FetchPoll, Preflight, StagePost, StageWait, ActivatePost, Stopped,
         LocalPreflight, LocalActivate
    <3>3. CASE Begin
      BY <2>2, <3>3 DEF Begin, BeginCreate, BeginRestore
    <3>4. CASE Cancel \/ KillTimer \/ RendererPolls \/ External \/ UNCHANGED vars
      BY <2>2, <3>4 DEF Cancel, KillTimer, RendererPolls, External, CommandStages, CommandActivates,
         CommandExits, KilledDies, NodeStops, NodeStarts, NodeStages, NodeOperationEnds,
         NodeOperationFails, NodeForgets, opVars, vars
    <3> QED BY <1>3, <3>1, <3>2, <3>3, <3>4 DEF BackupNext
  <2> QED BY <2>1, <2>2
<1> QED BY <1>1, <1>2, <1>3, PTL DEF BackupSpec, CompleteMeansRestored
-----------------------------------------------------------------------------
\* An operation is answered when it ends, and not before.

Unanswered == pc \in Awaits /\ (pc # "idle" => answer = "none")

\* What a step may do to an operation under way.
Forward ==
  \/ pc' = pc /\ answer' = answer
  \/ pc' \in Awaits \ {"idle"} /\ AwaitsLeft(pc') < AwaitsLeft(pc) /\ answer' = "none"
  \/ pc' = "idle" /\ answer' # "none"

LEMMA OperationForward == Unanswered /\ Operation => Forward
<1> SUFFICES ASSUME Unanswered, Operation PROVE Forward
  OBVIOUS
<1> USE DEF Unanswered, Forward, AwaitsLeft, Await, Return, ReturnDone, ReturnCancelled, Caught,
            Awaits, CommandAwaits, PollAwaits
<1>1. CASE CreateStatus
  BY <1>1 DEF CreateStatus, CreateOffline, Spawn
<1>2. CASE CreateAdminStatus
  BY <1>2 DEF CreateAdminStatus, CreateOffline, Spawn
<1>3. CASE CreatePost
  BY <1>3 DEF CreatePost
<1>4. CASE CreatePoll
  BY <1>4 DEF CreatePoll
<1>5. CASE RestoreStatus
  BY <1>5 DEF RestoreStatus, RestoreOffline, ClearStage
<1>6. CASE FetchPost
  BY <1>6 DEF FetchPost
<1>7. CASE FetchPoll
  BY <1>7 DEF FetchPoll
<1>8. CASE Preflight
  BY <1>8 DEF Preflight, ClearStage
<1>9. CASE StagePost
  BY <1>9 DEF StagePost, Staged
<1>10. CASE StageWait
  BY <1>10 DEF StageWait, Staged
<1>11. CASE ActivatePost
  BY <1>11 DEF ActivatePost
<1>12. CASE Stopped
  BY <1>12 DEF Stopped, Spawn
<1>13. CASE LocalPreflight
  BY <1>13 DEF LocalPreflight, Spawn
<1>14. CASE CommandClosed
  BY <1>14 DEF CommandClosed
<1>15. CASE LocalActivate
  BY <1>15 DEF LocalActivate
<1> QED BY <1>1, <1>2, <1>3, <1>4, <1>5, <1>6, <1>7, <1>8, <1>9, <1>10, <1>11, <1>12, <1>13, <1>14,
           <1>15 DEF Operation

\* A cancel, its timeout, the renderer and everything external leave the operation where it is.
LEMMA ElseKeepsOperation ==
  Cancel \/ KillTimer \/ RendererPolls \/ External \/ UNCHANGED vars => UNCHANGED <<pc, answer>>
BY DEF Cancel, KillTimer, RendererPolls, External, CommandStages, CommandActivates, CommandExits,
   KilledDies, NodeStops, NodeStarts, NodeStages, NodeOperationEnds, NodeOperationFails,
   NodeForgets, opVars, vars

\* No operation passes an await twice, falls back behind an await it has passed, or is answered
\* before it ends; so each answers after at most seven awaits, if those end.
THEOREM OperationsProgress == BackupSpec => OperationProgress
<1>1. BackupInit => Unanswered
  BY DEF BackupInit, Unanswered, Awaits
<1>2. Unanswered /\ [BackupNext]_vars => (pc # "idle" => Forward) /\ Unanswered'
  <2> SUFFICES ASSUME Unanswered, [BackupNext]_vars
               PROVE  (pc # "idle" => Forward) /\ Unanswered'
    OBVIOUS
  <2>1. CASE Operation
    <3>1. Forward
      BY <2>1, OperationForward
    <3> QED BY <3>1 DEF Forward, Unanswered, Awaits
  <2>2. CASE Begin
    <3> USE DEF Unanswered, Awaits
    <3>1. pc = "idle"
      BY <2>2 DEF Begin, BeginCreate, BeginRestore
    <3> QED BY <2>2, <3>1 DEF Begin, BeginCreate, BeginRestore
  <2>3. CASE Cancel \/ KillTimer \/ RendererPolls \/ External \/ UNCHANGED vars
    BY <2>3, ElseKeepsOperation DEF Forward, Unanswered
  <2> QED BY <2>1, <2>2, <2>3 DEF BackupNext
<1>3. Unanswered /\ [BackupNext]_vars => Unanswered'
  BY <1>2
<1>4. Unanswered /\ [BackupNext]_vars =>
        [pc # "idle" =>
           \/ pc' = pc /\ answer' = answer
           \/ pc' # "idle" /\ AwaitsLeft(pc') < AwaitsLeft(pc) /\ answer' = "none"
           \/ pc' = "idle" /\ answer' # "none"]_vars
  BY <1>2 DEF Forward
<1> QED BY <1>1, <1>3, <1>4, PTL DEF BackupSpec, OperationProgress
=============================================================================
