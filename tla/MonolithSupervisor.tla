------------------------- MODULE MonolithSupervisor -------------------------
(***************************************************************************)
(* The supervisor of the one native node process, electron/main.ts:        *)
(* startMonolithProcess, stopMonolithProcess, the actions, the component   *)
(* toggle and the preset reconciliation built from them, and               *)
(* killMonolithConflictProcesses.                                          *)
(*                                                                         *)
(* The main process runs JavaScript on one thread: a handler is cut into   *)
(* atomic chunks at its awaits, and the chunks of several handlers         *)
(* interleave with each other, with the child processes and with processes *)
(* the application did not start.  A client is one place that can have a   *)
(* request in flight: the renderer's node controls, its watchdog timer,    *)
(* the menu bar item, the quit flow.  No lock in the main process orders   *)
(* two clients.                                                            *)
(***************************************************************************)
EXTENDS Naturals, FiniteSets

CONSTANTS
  Controllers,  \* clients that may issue any request
  Stoppers,     \* clients that may only stop the node (menu bar, quit flow)
  Children,     \* identities (pid) of the node processes the supervisor spawns
  Externals,    \* node processes started by somebody else on the same BASEDIR
  Features,     \* components with an entry under "features:" in config.yml
  Plans,        \* the feature flags of the selectable profiles
  None,         \* monolithProcessState === null
  ToolsMayFail  \* lsof and ps may fail or time out (5 s), and then report nobody

Clients == Controllers \cup Stoppers
FlagSet == [Features -> BOOLEAN]
Overrides == UNION {[S -> BOOLEAN] : S \in SUBSET Features}
NoOverride == [f \in {} |-> TRUE]
Pids == Children \cup Externals

ASSUME PlansAreFlags == Plans \subseteq FlagSet
ASSUME NoneIsNoChild == None \notin Children
ASSUME PidsDiffer == Children \cap Externals = {}
ASSUME ToolsMayFailIsBoolean == ToolsMayFail \in BOOLEAN
ASSUME RolesDiffer == Controllers \cap Stoppers = {}

VARIABLES
  tracked,  \* monolithProcessState, also the only entry of nativeServiceProcesses
  child,    \* life cycle of each child; "closed" once its close event was handled
  signal,   \* signals sent to each child since it was spawned
  flags,    \* the feature flags each child was given on its command line
  config,   \* the features: section of config.yml
  ext,      \* is the external process alive (it then holds db/LOCK)
  op,       \* the request each client has in flight
  pc,       \* the await each client's handler stands at
  target,   \* the process state object a handler captured
  seen,     \* the pids the last lsof or ps of a handler reported
  spare,    \* killMonolithConflictProcesses: trackedPid
  over,     \* the feature overrides a handler captured
  answer    \* the result of the last request, with the request it answers

procVars == <<tracked, child, signal, flags>>
reqVars == <<op, pc, target, seen, spare, over, answer>>
vars == <<procVars, config, ext, reqVars>>

Ops == {"none", "start", "stop", "restart", "toggle", "reconcile", "kill-conflict"}
\* A scan of killMonolithConflictProcesses, while lsof and ps run and once they
\* have answered.
Scanned == [scan1 |-> "scanned1", scan2 |-> "scanned2", scan3 |-> "scanned3"]
StartWindow == {"lsof", "lsofDone", "ps", "psDone"}
KillWindow == {"scan1", "scan2", "scan3", "scanned1", "scanned2", "scanned3"}
Labels == {"idle", "listen", "close"} \cup StartWindow \cup KillWindow
Results == {"none", "started", "alreadyActive", "conflict", "startFailed",
            "configured", "stopped", "alreadyStopped", "forceStopped",
            "noConflict", "conflictGone", "conflictStays"}

TypeOK ==
  /\ tracked \in Children \cup {None}
  /\ child \in [Children -> {"closed", "starting", "up", "exited"}]
  /\ signal \in [Children -> SUBSET {"term", "kill"}]
  /\ flags \in [Children -> FlagSet]
  /\ config \in FlagSet
  /\ ext \in [Externals -> BOOLEAN]
  /\ op \in [Clients -> Ops]
  /\ pc \in [Clients -> Labels]
  /\ target \in [Clients -> Children \cup {None}]
  /\ seen \in [Clients -> SUBSET Pids]
  /\ spare \in [Clients -> SUBSET Children]
  /\ over \in [Clients -> Overrides]
  /\ answer \in [Clients -> Ops \X Results]
  /\ \A c \in Clients : op[c] = "restart" /\ pc[c] = "close" => over[c] \in FlagSet

-----------------------------------------------------------------------------
\* Helpers

\* state && !state.closed: closed is only set by the close handler, so an exited
\* child still counts as open until its close event was delivered.
Open(p) == p # None /\ child[p] # "closed"

ProcessRuns(p) == child[p] \in {"starting", "up"}

LockOwners == {p \in Children : child[p] = "up"} \cup {e \in Externals : ext[e]}

NodeProcesses == {p \in Children : ProcessRuns(p)} \cup {e \in Externals : ext[e]}

\* config.yml flags overridden by the flags the caller passed.
Merged(ov) == [f \in Features |-> IF f \in DOMAIN ov THEN ov[f] ELSE config[f]]

\* Continuations of promises settled by a close event run before any other event
\* of the loop.
NoMicrotask == \A c \in Clients : pc[c] = "close" => Open(target[c])

\* A handler returns: its captured values are dropped.
Answer(c, o, r) ==
  /\ op' = [op EXCEPT ![c] = "none"]
  /\ pc' = [pc EXCEPT ![c] = "idle"]
  /\ target' = [target EXCEPT ![c] = None]
  /\ seen' = [seen EXCEPT ![c] = {}]
  /\ spare' = [spare EXCEPT ![c] = {}]
  /\ over' = [over EXCEPT ![c] = NoOverride]
  /\ answer' = [answer EXCEPT ![c] = <<o, r>>]

\* A handler reaches an await.
Await(c, o, at, p, ov) ==
  /\ op' = [op EXCEPT ![c] = o]
  /\ pc' = [pc EXCEPT ![c] = at]
  /\ target' = [target EXCEPT ![c] = p]
  /\ over' = [over EXCEPT ![c] = ov]
  /\ answer' = [answer EXCEPT ![c] = <<"none", "none">>]
  /\ UNCHANGED <<seen, spare>>

-----------------------------------------------------------------------------
\* startMonolithProcess and stopMonolithProcess up to their first await

\* Mutant: no look at monolithProcessState.
BeginStartUnguarded(c, o, ov) ==
  Answer(c, o, "startFailed") \/ Await(c, o, "lsof", None, ov)

\* Mutant: a process that exited counts as gone before its close event.
BeginStartOnExit(c, o, ov) ==
  \/ tracked # None /\ ProcessRuns(tracked) /\ Answer(c, o, "alreadyActive")
  \/ (tracked # None => ~ProcessRuns(tracked)) /\ Await(c, o, "lsof", None, ov)

\* "startFailed": the binary is missing or the config files cannot be written.
BeginStart(c, o, ov) ==
  \/ Open(tracked) /\ Answer(c, o, "alreadyActive")
  \/ ~Open(tracked) /\ Answer(c, o, "startFailed")
  \/ ~Open(tracked) /\ Await(c, o, "lsof", None, ov)

\* prepareMonolithStartProfileConfig, then startMonolithProcess.  The producer
\* preflight may refuse, before config.yml is written.
BeginProfileStart(c, o, plan) ==
  \/ Answer(c, o, "startFailed") /\ UNCHANGED config
  \/ config' = plan /\ BeginStart(c, o, plan)

\* Signals to a process that has exited already are no-ops.
Send(sig, p) == signal' = IF ProcessRuns(p) THEN [signal EXCEPT ![p] = @ \cup {sig}]
                                            ELSE signal

BeginStop(c, o, ov) ==
  /\ Open(tracked)
  /\ Send("term", tracked)
  /\ Await(c, o, "close", tracked, ov)

\* What a request does, in the same chunk, once its stop has returned.
AfterStop(c, stopResult) ==
  \/ op[c] = "stop" /\ Answer(c, "stop", stopResult) /\ UNCHANGED config
  \/ op[c] = "restart" /\ BeginProfileStart(c, "restart", over[c])
  \/ op[c] \in {"toggle", "reconcile"} /\ BeginStart(c, op[c], over[c]) /\ UNCHANGED config

-----------------------------------------------------------------------------
\* Requests

MayRequest(c) == pc[c] = "idle" /\ NoMicrotask

RequestStart(c) ==
  /\ MayRequest(c)
  /\ \E plan \in Plans : BeginProfileStart(c, "start", plan)
  /\ UNCHANGED <<procVars, ext>>

\* Mutant: a process that exited is not waited for.
RequestStopOnExit(c) ==
  /\ MayRequest(c)
  /\ \/ BeginStop(c, "stop", NoOverride)
     \/ /\ tracked # None => ~ProcessRuns(tracked)
        /\ Answer(c, "stop", "alreadyStopped")
        /\ UNCHANGED signal
  /\ UNCHANGED <<tracked, child, flags, ext, config>>

RequestStop(c) ==
  /\ MayRequest(c)
  /\ \/ BeginStop(c, "stop", NoOverride)
     \/ ~Open(tracked) /\ Answer(c, "stop", "alreadyStopped") /\ UNCHANGED signal
  /\ UNCHANGED <<tracked, child, flags, ext, config>>

RequestRestart(c) ==
  /\ MayRequest(c)
  /\ \E plan \in Plans :
       \/ BeginStop(c, "restart", plan) /\ UNCHANGED config
       \/ ~Open(tracked) /\ BeginProfileStart(c, "restart", plan) /\ UNCHANGED signal
  /\ UNCHANGED <<tracked, child, flags, ext>>

\* Mutant: a running node is restarted with the feature, config.yml is not written.
RequestToggleUnwritten(c) ==
  /\ MayRequest(c)
  /\ \E f \in Features, b \in BOOLEAN : BeginStop(c, "toggle", [x \in {f} |-> b])
  /\ UNCHANGED <<tracked, child, flags, config, ext>>

\* telenoNodeComponentToggle: the feature is written first, and the node is
\* restarted only if it runs.
RequestToggle(c) ==
  /\ MayRequest(c)
  /\ \E f \in Features, b \in BOOLEAN :
       \/ Answer(c, "toggle", "startFailed") /\ UNCHANGED <<signal, config>>
       \/ /\ config' = [config EXCEPT ![f] = b]
          /\ \/ BeginStop(c, "toggle", [x \in {f} |-> b])
             \/ ~Open(tracked) /\ Answer(c, "toggle", "configured") /\ UNCHANGED signal
  /\ UNCHANGED <<tracked, child, flags, ext>>

\* telenoNodePresetReconcile: the preset is written, the node is stopped if it
\* runs, and started in both cases.
RequestReconcile(c) ==
  /\ MayRequest(c)
  /\ \E plan \in Plans :
       \/ Answer(c, "reconcile", "startFailed") /\ UNCHANGED <<signal, config>>
       \/ /\ config' = plan
          /\ \/ BeginStop(c, "reconcile", plan)
             \/ ~Open(tracked) /\ BeginStart(c, "reconcile", plan) /\ UNCHANGED signal
  /\ UNCHANGED <<tracked, child, flags, ext>>

\* Mutant: the pid of monolithProcessState without the null check.
RequestKillConflictUnchecked(c) ==
  /\ MayRequest(c)
  /\ op' = [op EXCEPT ![c] = "kill-conflict"]
  /\ pc' = [pc EXCEPT ![c] = "scan1"]
  /\ spare' = [spare EXCEPT ![c] = {tracked}]
  /\ answer' = [answer EXCEPT ![c] = <<"none", "none">>]
  /\ UNCHANGED <<procVars, config, ext, target, seen, over>>

\* killMonolithConflictProcesses reads the pid it spares once, here.
RequestKillConflict(c) ==
  /\ MayRequest(c)
  /\ op' = [op EXCEPT ![c] = "kill-conflict"]
  /\ pc' = [pc EXCEPT ![c] = "scan1"]
  /\ spare' = [spare EXCEPT ![c] = IF Open(tracked) THEN {tracked} ELSE {}]
  /\ answer' = [answer EXCEPT ![c] = <<"none", "none">>]
  /\ UNCHANGED <<procVars, config, ext, target, seen, over>>

-----------------------------------------------------------------------------
\* stopMonolithProcess after its await

\* waitForChildClose resolved by the close event.
CloseSeen(c) ==
  /\ pc[c] = "close"
  /\ ~Open(target[c])
  /\ AfterStop(c, "stopped")
  /\ UNCHANGED <<procVars, ext>>

\* Mutant: waitForChildClose without its timer.
CloseTimeoutUnarmed(c) == FALSE /\ pc[c] = "close" /\ UNCHANGED vars

\* 15 s went by: SIGKILL, and the call returns without waiting for the close.
CloseTimeout(c) ==
  /\ pc[c] = "close"
  /\ NoMicrotask
  /\ Send("kill", target[c])
  /\ AfterStop(c, "forceStopped")
  /\ UNCHANGED <<tracked, child, flags, ext>>

-----------------------------------------------------------------------------
\* startMonolithProcess after its awaits

\* lsof and ps read the system while the handler waits.
Reads(c, pids) ==
  \/ seen' = [seen EXCEPT ![c] = pids]
  \/ ToolsMayFail /\ seen' = [seen EXCEPT ![c] = {}]

LsofAnswers(c) ==
  /\ pc[c] = "lsof"
  /\ Reads(c, LockOwners)
  /\ pc' = [pc EXCEPT ![c] = "lsofDone"]
  /\ UNCHANGED <<procVars, config, ext, op, target, spare, over, answer>>

PsAnswers(c) ==
  /\ pc[c] = "ps"
  /\ Reads(c, NodeProcesses)
  /\ pc' = [pc EXCEPT ![c] = "psDone"]
  /\ UNCHANGED <<procVars, config, ext, op, target, spare, over, answer>>

AfterLsof(c) ==
  /\ pc[c] = "lsofDone"
  /\ NoMicrotask
  /\ \/ seen[c] # {} /\ Answer(c, op[c], "conflict")
     \/ seen[c] = {} /\ Await(c, op[c], "ps", None, over[c])
  /\ UNCHANGED <<procVars, config, ext>>

\* A pid no handler remembers and no live process has.
Fresh(p) ==
  /\ child[p] = "closed"
  /\ p # tracked
  /\ \A c \in Clients : p # target[c] /\ p \notin seen[c] \cup spare[c]

\* The chunk that spawns: config.yml is read now, the overrides are the ones
\* captured when the request was made.  monolithProcessState is overwritten
\* without a second look at it.
Spawn(c) ==
  /\ pc[c] = "psDone"
  /\ NoMicrotask
  /\ seen[c] = {}
  /\ \E p \in Children :
       /\ Fresh(p)
       /\ child' = [child EXCEPT ![p] = "starting"]
       /\ signal' = [signal EXCEPT ![p] = {}]
       /\ flags' = [flags EXCEPT ![p] = Merged(over[c])]
       /\ tracked' = p
       /\ Await(c, op[c], "listen", p, NoOverride)
  /\ UNCHANGED <<config, ext>>

\* A conflicting process, or a producer preflight that fails.
SpawnRefused(c) ==
  /\ pc[c] = "psDone"
  /\ NoMicrotask
  /\ \/ seen[c] # {} /\ Answer(c, op[c], "conflict")
     \/ seen[c] = {} /\ Answer(c, op[c], "startFailed")
  /\ UNCHANGED <<procVars, config, ext>>

\* waitForTcpListener returns: somebody answers on the port, or 30 s went by.
\* Only the closed flag of the captured state decides the result.
ListenDone(c) ==
  /\ pc[c] = "listen"
  /\ NoMicrotask
  /\ Answer(c, op[c], IF Open(target[c]) THEN "started" ELSE "startFailed")
  /\ UNCHANGED <<procVars, config, ext>>

-----------------------------------------------------------------------------
\* killMonolithConflictProcesses after its awaits

\* Mutant: only the first scan leaves the tracked process out.
ScanAnswersSparingOnce(c) ==
  /\ pc[c] \in DOMAIN Scanned
  /\ Reads(c, (LockOwners \cup NodeProcesses) \ (IF pc[c] = "scan1" THEN spare[c] ELSE {}))
  /\ pc' = [pc EXCEPT ![c] = Scanned[pc[c]]]
  /\ UNCHANGED <<procVars, config, ext, op, target, spare, over, answer>>

\* detectMonolithConflictProcesses; the delay before it is part of the await.
ScanAnswers(c) ==
  /\ pc[c] \in DOMAIN Scanned
  /\ Reads(c, (LockOwners \cup NodeProcesses) \ spare[c])
  /\ pc' = [pc EXCEPT ![c] = Scanned[pc[c]]]
  /\ UNCHANGED <<procVars, config, ext, op, target, spare, over, answer>>

\* process.kill on every pid of the scan: SIGTERM may be ignored, SIGKILL not.
SendAll(sig, pids) ==
  /\ signal' = [p \in Children |-> IF p \in pids /\ ProcessRuns(p)
                                     THEN signal[p] \cup {sig} ELSE signal[p]]
  /\ ext' = IF sig = "kill" THEN [e \in Externals |-> ext[e] /\ e \notin pids] ELSE ext

NextScan(c, at) ==
  /\ pc' = [pc EXCEPT ![c] = at]
  /\ seen' = [seen EXCEPT ![c] = {}]
  /\ UNCHANGED <<op, target, spare, over, answer>>

AfterScan1(c) ==
  /\ pc[c] = "scanned1"
  /\ NoMicrotask
  /\ \/ /\ seen[c] = {}
        /\ Answer(c, "kill-conflict", "noConflict")
        /\ UNCHANGED <<signal, ext>>
     \/ seen[c] # {} /\ SendAll("term", seen[c]) /\ NextScan(c, "scan2")
  /\ UNCHANGED <<tracked, child, flags, config>>

AfterScan2(c) ==
  /\ pc[c] = "scanned2"
  /\ NoMicrotask
  /\ SendAll("kill", seen[c])
  /\ NextScan(c, "scan3")
  /\ UNCHANGED <<tracked, child, flags, config>>

AfterScan3(c) ==
  /\ pc[c] = "scanned3"
  /\ NoMicrotask
  /\ Answer(c, "kill-conflict", IF seen[c] = {} THEN "conflictGone" ELSE "conflictStays")
  /\ UNCHANGED <<procVars, config, ext>>

-----------------------------------------------------------------------------
\* The processes themselves

\* The node opens RocksDB: at most one process holds db/LOCK.
ChildOpensDb(p) ==
  /\ child[p] = "starting"
  /\ LockOwners = {}
  /\ child' = [child EXCEPT ![p] = "up"]
  /\ UNCHANGED <<tracked, signal, flags, config, ext, reqVars>>

\* A crash, a refusal to run without the lock, or the answer to a signal.
ChildExits(p) ==
  /\ ProcessRuns(p)
  /\ child' = [child EXCEPT ![p] = "exited"]
  /\ UNCHANGED <<tracked, signal, flags, config, ext, reqVars>>

\* child.on('close'): the handler of this very state object marks it closed.
ChildClosed(p) ==
  /\ child[p] = "exited"
  /\ NoMicrotask
  /\ child' = [child EXCEPT ![p] = "closed"]
  /\ UNCHANGED <<tracked, signal, flags, config, ext, reqVars>>

ExternalStarts(e) ==
  /\ LockOwners = {}
  /\ ext' = [ext EXCEPT ![e] = TRUE]
  /\ UNCHANGED <<procVars, config, reqVars>>

ExternalExits(e) ==
  /\ ext[e]
  /\ ext' = [ext EXCEPT ![e] = FALSE]
  /\ UNCHANGED <<procVars, config, reqVars>>

-----------------------------------------------------------------------------

Init ==
  /\ tracked = None
  /\ child = [p \in Children |-> "closed"]
  /\ signal = [p \in Children |-> {}]
  /\ flags = [p \in Children |-> [f \in Features |-> FALSE]]
  /\ config \in FlagSet
  /\ ext = [e \in Externals |-> FALSE]
  /\ op = [c \in Clients |-> "none"]
  /\ pc = [c \in Clients |-> "idle"]
  /\ target = [c \in Clients |-> None]
  /\ seen = [c \in Clients |-> {}]
  /\ spare = [c \in Clients |-> {}]
  /\ over = [c \in Clients |-> NoOverride]
  /\ answer = [c \in Clients |-> <<"none", "none">>]

Request(c) ==
  \/ RequestStop(c)
  \/ /\ c \in Controllers
     /\ \/ RequestStart(c) \/ RequestRestart(c) \/ RequestToggle(c)
        \/ RequestReconcile(c) \/ RequestKillConflict(c)

Continue(c) ==
  \/ CloseSeen(c) \/ CloseTimeout(c)
  \/ LsofAnswers(c) \/ AfterLsof(c) \/ PsAnswers(c)
  \/ Spawn(c) \/ SpawnRefused(c) \/ ListenDone(c)
  \/ ScanAnswers(c) \/ AfterScan1(c) \/ AfterScan2(c) \/ AfterScan3(c)

Process(p) == ChildOpensDb(p) \/ ChildExits(p) \/ ChildClosed(p)

External(e) == ExternalStarts(e) \/ ExternalExits(e)

Next ==
  \/ \E c \in Clients : Request(c) \/ Continue(c)
  \/ \E p \in Children : Process(p)
  \/ \E e \in Externals : External(e)

Spec == Init /\ [][Next]_vars

\* The event loop runs whatever is ready, every wait of the code has a timeout,
\* the operating system delivers SIGKILL and reports an exit.
Fairness ==
  /\ \A c \in Clients : WF_vars(Continue(c))
  /\ \A p \in Children : WF_vars(ChildClosed(p)) /\ WF_vars("kill" \in signal[p] /\ ChildExits(p))

FairSpec == Spec /\ Fairness

-----------------------------------------------------------------------------
\* Properties

\* Every process the supervisor spawned and has not seen closing is the one it
\* tracks: none is left that Stop, the quit flow or the status cannot reach
\* ("Koinos One manages one local teleno_node process", README.md).
NoOrphan == \A p \in Children : Open(p) => p = tracked

\* A managed node is always asked to end (SIGTERM) before it is killed, so that
\* RocksDB can be closed: neither an escalated stop nor the scans of
\* killMonolithConflictProcesses kill it unasked.
KillFollowsTerm == \A p \in Children : "kill" \in signal[p] => "term" \in signal[p]

Answers(c, o, r) == answer'[c] = <<o, r>> /\ answer[c] # answer'[c]

\* A stop that says the node is stopped, or was, leaves no managed process: not
\* the one it waited for, and not one another request started meanwhile.
StopMeansNoNode ==
  [][\A c \in Clients, r \in {"stopped", "alreadyStopped"} :
       Answers(c, "stop", r) => \A p \in Children : child[p] = "closed"]_vars

\* A request that says it started the node speaks of the tracked process, and
\* that process was given the features config.yml holds at that moment: no write
\* of config.yml is lost between reading it and starting.
StartedAsConfigured ==
  [][\A c \in Clients, o \in Ops :
       Answers(c, o, "started") => target[c] = tracked /\ flags[tracked] = config]_vars

\* Every request is answered: each await of a handler ends by an event or by its
\* timeout.
RequestsReturn == \A c \in Clients : pc[c] # "idle" ~> pc[c] = "idle"

\* The awaits a request still has before it, from the label it stands at.
Remaining ==
  [close |-> 6, lsof |-> 5, lsofDone |-> 4, ps |-> 3, psDone |-> 2, listen |-> 1,
   scan1 |-> 6, scanned1 |-> 5, scan2 |-> 4, scanned2 |-> 3, scan3 |-> 2, scanned3 |-> 1,
   idle |-> 0]

\* No request stands at the same await twice, whatever the other requests and the processes
\* do: a handler that goes on comes closer to its answer, so that RequestsReturn asks no
\* more of the event loop than that it runs what is ready.
RequestsProgress ==
  [][\A c \in Clients : pc[c] # "idle" =>
       \/ pc'[c] = pc[c] /\ op'[c] = op[c]
       \/ Remaining[pc'[c]] < Remaining[pc[c]]]_vars

\* A request that stops the node before it starts one (restart, toggle, reconcile) goes on to
\* start only when no managed process is left.  A stop that was escalated to SIGKILL does not
\* wait for the close event: the start behind it then finds the process it has just killed
\* still open and answers "already active" instead of running next to it.
RestartAwaitsClose ==
  [][\A c \in Clients : pc[c] = "close" =>
       /\ pc'[c] = "lsof" => \A p \in Children : child[p] = "closed"
       /\ \A o \in Ops : Answers(c, o, "alreadyActive") /\ ProcessRuns(target[c])
                           => "kill" \in signal'[target[c]]]_vars

\* How far NoSecondNode can fail: while lsof and ps tell the truth, each place that can start
\* nodes adds at most one.  It spawns only after a ps that saw no node, and until it asks again
\* the node it spawned is the only one it answers for.
NodesBounded == Cardinality({p \in Children : ProcessRuns(p)}) <= Cardinality(Controllers)

\* The supervisor as the abstract managed node.
Phase ==
  IF ~Open(tracked) THEN "down"
  ELSE IF ProcessRuns(tracked) /\ signal[tracked] = {} THEN "running"
  ELSE "ending"

Node == INSTANCE ManagedNode WITH Ids <- Children, current <- tracked, phase <- Phase

\* The supervisor implements one managed node.
ImplementsManagedNode == Node!Spec

\* What the code does not keep.

\* main.ts, describeBaseDirLockConflict: "Koinos One will not start a second node
\* against the same RocksDB database".
NoSecondNode == Cardinality({p \in Children : ProcessRuns(p)}) <= 1

=============================================================================
