---------------------- MODULE MonolithSupervisor_proofs ----------------------
(***************************************************************************)
(* Proofs about MonolithSupervisor for any number of clients, processes,   *)
(* features and profiles.                                                  *)
(***************************************************************************)
EXTENDS MonolithSupervisor, FiniteSetTheorems, TLAPS

ReqTypeOK ==
  /\ op \in [Clients -> Ops]
  /\ pc \in [Clients -> Labels]
  /\ target \in [Clients -> Children \cup {None}]
  /\ seen \in [Clients -> SUBSET Pids]
  /\ spare \in [Clients -> SUBSET Children]
  /\ over \in [Clients -> Overrides]
  /\ answer \in [Clients -> Ops \X Results]
  /\ \A c \in Clients : op[c] = "restart" /\ pc[c] = "close" => over[c] \in FlagSet

\* The overrides a handler can capture, and the command line made from them.
LEMMA OverrideTypes ==
  /\ NoOverride \in Overrides
  /\ FlagSet \subseteq Overrides
  /\ \A f \in Features, b \in BOOLEAN : [x \in {f} |-> b] \in Overrides
<1>1. NoOverride \in Overrides
  <2>1. NoOverride \in [{} -> BOOLEAN]
    BY DEF NoOverride
  <2> QED BY <2>1 DEF Overrides
<1>2. FlagSet \subseteq Overrides
  BY DEF FlagSet, Overrides
<1>3. ASSUME NEW f \in Features, NEW b \in BOOLEAN PROVE [x \in {f} |-> b] \in Overrides
  <2>1. [x \in {f} |-> b] \in [{f} -> BOOLEAN]
    OBVIOUS
  <2>2. {f} \in SUBSET Features
    OBVIOUS
  <2> QED BY <2>1, <2>2 DEF Overrides
<1> QED BY <1>1, <1>2, <1>3

LEMMA MergedType ==
  ASSUME config \in FlagSet, NEW ov \in Overrides PROVE Merged(ov) \in FlagSet
BY DEF Merged, FlagSet, Overrides

LEMMA AnswerType ==
  ASSUME ReqTypeOK, NEW c \in Clients, NEW o \in Ops, NEW r \in Results, Answer(c, o, r)
  PROVE  ReqTypeOK'
BY OverrideTypes DEF ReqTypeOK, Answer, Ops, Labels

LEMMA AwaitType ==
  ASSUME ReqTypeOK, NEW c \in Clients, NEW o \in Ops, NEW at \in Labels,
         NEW p \in Children \cup {None}, NEW ov \in Overrides,
         o = "restart" /\ at = "close" => ov \in FlagSet, Await(c, o, at, p, ov)
  PROVE  ReqTypeOK'
BY DEF ReqTypeOK, Await, Ops, Results

LEMMA BeginStartType ==
  ASSUME ReqTypeOK, NEW c \in Clients, NEW o \in Ops, NEW ov \in Overrides,
         BeginStart(c, o, ov)
  PROVE  ReqTypeOK'
<1>1. CASE Answer(c, o, "alreadyActive")
  BY <1>1, AnswerType DEF Results
<1>2. CASE Answer(c, o, "startFailed")
  BY <1>2, AnswerType DEF Results
<1>3. CASE Await(c, o, "lsof", None, ov)
  BY <1>3, AwaitType DEF Labels, StartWindow
<1> QED BY <1>1, <1>2, <1>3 DEF BeginStart

LEMMA BeginProfileStartType ==
  ASSUME ReqTypeOK, config \in FlagSet, NEW c \in Clients, NEW o \in Ops,
         NEW plan \in FlagSet, BeginProfileStart(c, o, plan)
  PROVE  ReqTypeOK' /\ config' \in FlagSet
<1>1. CASE Answer(c, o, "startFailed") /\ UNCHANGED config
  BY <1>1, AnswerType DEF Results
<1>2. CASE config' = plan /\ BeginStart(c, o, plan)
  BY <1>2, BeginStartType, OverrideTypes
<1> QED BY <1>1, <1>2 DEF BeginProfileStart

LEMMA SendType ==
  ASSUME TypeOK, NEW sig \in {"term", "kill"}, NEW p \in Children, Send(sig, p)
  PROVE  signal' \in [Children -> SUBSET {"term", "kill"}]
BY DEF Send, TypeOK

LEMMA BeginStopType ==
  ASSUME TypeOK, NEW c \in Clients, NEW o \in Ops, NEW ov \in Overrides,
         o = "restart" => ov \in FlagSet, BeginStop(c, o, ov)
  PROVE  ReqTypeOK' /\ signal' \in [Children -> SUBSET {"term", "kill"}]
<1>1. ReqTypeOK
  BY DEF TypeOK, ReqTypeOK
<1>2. tracked \in Children
  BY DEF TypeOK, BeginStop, Open
<1>3. ReqTypeOK'
  BY <1>1, <1>2, AwaitType DEF BeginStop, Labels
<1> QED BY <1>2, <1>3, SendType DEF BeginStop

LEMMA AfterStopType ==
  ASSUME TypeOK, NEW c \in Clients, NEW r \in Results, pc[c] = "close",
         AfterStop(c, r)
  PROVE  ReqTypeOK' /\ config' \in FlagSet
<1> ReqTypeOK /\ config \in FlagSet
  BY DEF TypeOK, ReqTypeOK
<1>1. CASE op[c] = "stop" /\ Answer(c, "stop", r) /\ UNCHANGED config
  BY <1>1, AnswerType DEF Ops
<1>2. CASE op[c] = "restart" /\ BeginProfileStart(c, "restart", over[c])
  <2>1. over[c] \in FlagSet
    BY <1>2 DEF ReqTypeOK
  <2> QED BY <1>2, <2>1, BeginProfileStartType DEF Ops
<1>3. CASE op[c] \in {"toggle", "reconcile"} /\ BeginStart(c, op[c], over[c]) /\ UNCHANGED config
  BY <1>3, BeginStartType DEF Ops, ReqTypeOK
<1> QED BY <1>1, <1>2, <1>3 DEF AfterStop

LEMMA RequestType ==
  ASSUME TypeOK, NEW c \in Clients, Request(c)
  PROVE  TypeOK'
<1> USE PlansAreFlags
<1>0. ReqTypeOK
  BY DEF TypeOK, ReqTypeOK
<1> SUFFICES ReqTypeOK' /\ config' \in FlagSet
             /\ signal' \in [Children -> SUBSET {"term", "kill"}]
             /\ UNCHANGED <<tracked, child, flags, ext>>
  BY DEF TypeOK, ReqTypeOK
<1>1. CASE RequestStop(c)
  <2>1. CASE BeginStop(c, "stop", NoOverride)
    BY <1>1, <2>1, BeginStopType, OverrideTypes DEF RequestStop, Ops, TypeOK
  <2>2. CASE Answer(c, "stop", "alreadyStopped") /\ UNCHANGED signal
    BY <1>0, <1>1, <2>2, AnswerType DEF RequestStop, Ops, Results, TypeOK
  <2> QED BY <1>1, <2>1, <2>2 DEF RequestStop
<1>2. CASE RequestStart(c)
  <2>1. PICK plan \in Plans : BeginProfileStart(c, "start", plan)
    BY <1>2 DEF RequestStart
  <2> QED BY <1>0, <1>2, <2>1, BeginProfileStartType DEF RequestStart, procVars, Ops, TypeOK
<1>3. CASE RequestRestart(c)
  <2>1. PICK plan \in Plans :
           \/ BeginStop(c, "restart", plan) /\ UNCHANGED config
           \/ ~Open(tracked) /\ BeginProfileStart(c, "restart", plan) /\ UNCHANGED signal
    BY <1>3 DEF RequestRestart
  <2>2. CASE BeginStop(c, "restart", plan) /\ UNCHANGED config
    BY <1>3, <2>2, BeginStopType, OverrideTypes DEF RequestRestart, Ops, TypeOK
  <2>3. CASE BeginProfileStart(c, "restart", plan) /\ UNCHANGED signal
    BY <1>0, <1>3, <2>3, BeginProfileStartType DEF RequestRestart, Ops, TypeOK
  <2> QED BY <2>1, <2>2, <2>3
<1>4. CASE RequestToggle(c)
  <2>1. PICK f \in Features, b \in BOOLEAN :
           \/ Answer(c, "toggle", "startFailed") /\ UNCHANGED <<signal, config>>
           \/ /\ config' = [config EXCEPT ![f] = b]
              /\ \/ BeginStop(c, "toggle", [x \in {f} |-> b])
                 \/ ~Open(tracked) /\ Answer(c, "toggle", "configured") /\ UNCHANGED signal
    BY <1>4 DEF RequestToggle
  <2>2. [config EXCEPT ![f] = b] \in FlagSet
    BY DEF TypeOK, FlagSet
  <2>3. CASE Answer(c, "toggle", "startFailed") /\ UNCHANGED <<signal, config>>
    BY <1>0, <1>4, <2>3, AnswerType DEF RequestToggle, Ops, Results, TypeOK
  <2>4. CASE config' = [config EXCEPT ![f] = b] /\ BeginStop(c, "toggle", [x \in {f} |-> b])
    BY <1>4, <2>2, <2>4, BeginStopType, OverrideTypes DEF RequestToggle, Ops
  <2>5. CASE /\ config' = [config EXCEPT ![f] = b]
             /\ Answer(c, "toggle", "configured") /\ UNCHANGED signal
    BY <1>0, <1>4, <2>2, <2>5, AnswerType DEF RequestToggle, Ops, Results, TypeOK
  <2> QED BY <2>1, <2>3, <2>4, <2>5
<1>5. CASE RequestReconcile(c)
  <2>1. PICK plan \in Plans :
           \/ Answer(c, "reconcile", "startFailed") /\ UNCHANGED <<signal, config>>
           \/ /\ config' = plan
              /\ \/ BeginStop(c, "reconcile", plan)
                 \/ ~Open(tracked) /\ BeginStart(c, "reconcile", plan) /\ UNCHANGED signal
    BY <1>5 DEF RequestReconcile
  <2>2. CASE Answer(c, "reconcile", "startFailed") /\ UNCHANGED <<signal, config>>
    BY <1>0, <1>5, <2>2, AnswerType DEF RequestReconcile, Ops, Results, TypeOK
  <2>3. CASE config' = plan /\ BeginStop(c, "reconcile", plan)
    BY <1>5, <2>3, BeginStopType, OverrideTypes DEF RequestReconcile, Ops
  <2>4. CASE config' = plan /\ BeginStart(c, "reconcile", plan) /\ UNCHANGED signal
    BY <1>0, <1>5, <2>4, BeginStartType, OverrideTypes DEF RequestReconcile, Ops, TypeOK
  <2> QED BY <2>1, <2>2, <2>3, <2>4
<1>6. CASE RequestKillConflict(c)
  <2>1. (IF Open(tracked) THEN {tracked} ELSE {}) \in SUBSET Children
    BY DEF TypeOK, Open
  <2> QED BY <1>0, <1>6, <2>1
          DEF RequestKillConflict, ReqTypeOK, TypeOK, procVars, Ops, Labels, KillWindow, Results
<1> QED BY <1>1, <1>2, <1>3, <1>4, <1>5, <1>6 DEF Request
LEMMA ReadsType ==
  ASSUME TypeOK, NEW c \in Clients, NEW pids \in SUBSET Pids, Reads(c, pids)
  PROVE  seen' \in [Clients -> SUBSET Pids]
BY DEF Reads, TypeOK

LEMMA ProcessSets == TypeOK => LockOwners \in SUBSET Pids /\ NodeProcesses \in SUBSET Pids
BY DEF LockOwners, NodeProcesses, Pids

LEMMA ContinueType ==
  ASSUME TypeOK, NEW c \in Clients, Continue(c)
  PROVE  TypeOK'
<1>0. ReqTypeOK
  BY DEF TypeOK, ReqTypeOK
<1>a. op[c] \in Ops /\ target[c] \in Children \cup {None} /\ over[c] \in Overrides
  BY DEF TypeOK
<1>1. CASE CloseSeen(c)
  <2>1. ReqTypeOK' /\ config' \in FlagSet
    BY <1>1, AfterStopType DEF CloseSeen, Results
  <2> QED BY <1>1, <2>1 DEF CloseSeen, procVars, TypeOK, ReqTypeOK
<1>2. CASE CloseTimeout(c)
  <2>1. ReqTypeOK' /\ config' \in FlagSet
    BY <1>2, AfterStopType DEF CloseTimeout, Results
  <2>2. target[c] \in Children
    BY <1>2 DEF CloseTimeout, NoMicrotask, Open, TypeOK
  <2>3. signal' \in [Children -> SUBSET {"term", "kill"}]
    BY <1>2, <2>2, SendType DEF CloseTimeout
  <2> QED BY <1>2, <2>1, <2>3 DEF CloseTimeout, TypeOK, ReqTypeOK
<1>3. CASE LsofAnswers(c) \/ PsAnswers(c)
  <2>1. seen' \in [Clients -> SUBSET Pids]
    BY <1>3, ReadsType, ProcessSets DEF LsofAnswers, PsAnswers
  <2> QED BY <1>3, <2>1 DEF LsofAnswers, PsAnswers, TypeOK, procVars, Labels, StartWindow
<1>4. CASE ScanAnswers(c)
  <2>1. seen' \in [Clients -> SUBSET Pids]
    BY <1>4, ReadsType, ProcessSets DEF ScanAnswers
  <2>2. Scanned[pc[c]] \in Labels \ {"close"}
    BY <1>4 DEF ScanAnswers, Scanned, Labels, KillWindow
  <2> QED BY <1>4, <2>1, <2>2 DEF ScanAnswers, TypeOK, procVars
<1>5. CASE AfterLsof(c)
  <2>1. ReqTypeOK'
    <3>1. CASE Answer(c, op[c], "conflict")
      BY <1>0, <1>a, <3>1, AnswerType DEF Results
    <3>2. CASE Await(c, op[c], "ps", None, over[c])
      BY <1>0, <1>a, <3>2, AwaitType DEF Labels, StartWindow
    <3> QED BY <1>5, <3>1, <3>2 DEF AfterLsof
  <2> QED BY <1>5, <2>1 DEF AfterLsof, TypeOK, ReqTypeOK, procVars
<1>6. CASE Spawn(c)
  <2>1. PICK p \in Children :
           /\ child' = [child EXCEPT ![p] = "starting"]
           /\ signal' = [signal EXCEPT ![p] = {}]
           /\ flags' = [flags EXCEPT ![p] = Merged(over[c])]
           /\ tracked' = p
           /\ Await(c, op[c], "listen", p, NoOverride)
    BY <1>6 DEF Spawn
  <2>2. ReqTypeOK'
    BY <1>0, <1>a, <2>1, AwaitType, OverrideTypes DEF Labels
  <2>3. Merged(over[c]) \in FlagSet
    BY <1>a, MergedType DEF TypeOK
  <2> QED BY <1>6, <2>1, <2>2, <2>3 DEF Spawn, TypeOK, ReqTypeOK
<1>7. CASE SpawnRefused(c)
  <2>1. ReqTypeOK'
    BY <1>0, <1>a, <1>7, AnswerType DEF SpawnRefused, Results
  <2> QED BY <1>7, <2>1 DEF SpawnRefused, TypeOK, ReqTypeOK, procVars
<1>8. CASE ListenDone(c)
  <2>1. ReqTypeOK'
    BY <1>0, <1>a, <1>8, AnswerType DEF ListenDone, Results
  <2> QED BY <1>8, <2>1 DEF ListenDone, TypeOK, ReqTypeOK, procVars
<1>9. CASE AfterScan1(c) \/ AfterScan2(c) \/ AfterScan3(c)
  <2>1. ReqTypeOK'
    <3>1. ASSUME NEW r \in Results, Answer(c, "kill-conflict", r) PROVE ReqTypeOK'
      BY <1>0, <3>1, AnswerType DEF Ops
    <3>2. ASSUME NEW at \in {"scan2", "scan3"}, NextScan(c, at) PROVE ReqTypeOK'
      BY <1>0, <3>2 DEF NextScan, ReqTypeOK, Labels, KillWindow
    <3> QED BY <1>9, <3>1, <3>2 DEF AfterScan1, AfterScan2, AfterScan3, Results
  <2>2. /\ signal' \in [Children -> SUBSET {"term", "kill"}]
        /\ ext' \in [Externals -> BOOLEAN]
    <3>1. ASSUME NEW sig \in {"term", "kill"}, SendAll(sig, seen[c])
          PROVE  /\ signal' \in [Children -> SUBSET {"term", "kill"}]
                 /\ ext' \in [Externals -> BOOLEAN]
      <4>1. signal' \in [Children -> SUBSET {"term", "kill"}]
        BY <3>1 DEF SendAll, TypeOK
      <4>2. \A e \in Externals : (ext[e] /\ e \notin seen[c]) \in BOOLEAN
        OBVIOUS
      <4>3. CASE sig = "kill"
        BY <3>1, <4>1, <4>2, <4>3, Zenon DEF SendAll
      <4>4. CASE sig # "kill"
        BY <3>1, <4>1, <4>4 DEF SendAll, TypeOK
      <4> QED BY <4>3, <4>4
    <3> QED BY <1>9, <3>1 DEF AfterScan1, AfterScan2, AfterScan3, TypeOK, procVars
  <2> QED BY <1>9, <2>1, <2>2 DEF AfterScan1, AfterScan2, AfterScan3, TypeOK, ReqTypeOK, procVars
<1> QED BY <1>1, <1>2, <1>3, <1>4, <1>5, <1>6, <1>7, <1>8, <1>9 DEF Continue

LEMMA ProcessType ==
  ASSUME TypeOK,
         (\E p \in Children : Process(p)) \/ (\E e \in Externals : External(e))
  PROVE  TypeOK'
<1>1. ASSUME NEW p \in Children, Process(p) PROVE TypeOK'
  <2>1. \E state \in {"up", "exited", "closed"} : child' = [child EXCEPT ![p] = state]
    BY <1>1 DEF Process, ChildOpensDb, ChildExits, ChildClosed
  <2>2. UNCHANGED <<tracked, signal, flags, config, ext, reqVars>>
    BY <1>1 DEF Process, ChildOpensDb, ChildExits, ChildClosed
  <2>3. child' \in [Children -> {"closed", "starting", "up", "exited"}]
    BY <2>1 DEF TypeOK
  <2> QED BY <2>2, <2>3 DEF TypeOK, reqVars
<1>2. ASSUME NEW e \in Externals, External(e) PROVE TypeOK'
  <2>1. ext' = [ext EXCEPT ![e] = TRUE] \/ ext' = [ext EXCEPT ![e] = FALSE]
    BY <1>2 DEF External, ExternalStarts, ExternalExits
  <2>2. UNCHANGED <<procVars, config, reqVars>>
    BY <1>2 DEF External, ExternalStarts, ExternalExits
  <2>3. ext' \in [Externals -> BOOLEAN]
    BY <2>1 DEF TypeOK
  <2> QED BY <2>2, <2>3 DEF TypeOK, reqVars, procVars
<1> QED BY <1>1, <1>2

LEMMA InitType == Init => TypeOK
<1> SUFFICES ASSUME Init PROVE TypeOK
  OBVIOUS
<1>1. [f \in Features |-> FALSE] \in FlagSet
  BY DEF FlagSet
<1> QED BY <1>1, OverrideTypes DEF Init, TypeOK, Ops, Labels, Results

\* Every variable keeps its type, and a restart waiting for the old process holds
\* a complete set of feature flags.
THEOREM TypeCorrect == Spec => []TypeOK
<1>1. TypeOK /\ [Next]_vars => TypeOK'
  <2> SUFFICES ASSUME TypeOK, [Next]_vars PROVE TypeOK'
    OBVIOUS
  <2>1. CASE UNCHANGED vars
    BY <2>1 DEF vars, procVars, reqVars, TypeOK
  <2>2. CASE Next
    BY <2>2, RequestType, ContinueType, ProcessType DEF Next
  <2> QED BY <2>1, <2>2
<1> QED BY <1>1, InitType, PTL DEF Spec
-----------------------------------------------------------------------------
(***************************************************************************)
(* One client that starts nodes, and any number that stop them.  Then the  *)
(* requests cannot overlap in the way that loses a process: whoever is     *)
(* about to start finds no open process, whoever waits for a close waits   *)
(* for the tracked process, and a conflict scan spares the tracked one.    *)
(***************************************************************************)
OneController == \A a, b \in Controllers : a = b

StopperStops ==
  \A c \in Stoppers : pc[c] \in {"idle", "close"} /\ (pc[c] = "close" => op[c] = "stop")

StartAlone == \A c \in Clients : pc[c] \in StartWindow => ~Open(tracked)

StopsTracked ==
  \A c \in Clients : pc[c] = "close" =>
    /\ target[c] = tracked
    /\ tracked # None
    /\ ProcessRuns(tracked) => "term" \in signal[tracked]

ScanSpares ==
  \A c \in Clients :
    /\ pc[c] \in KillWindow /\ Open(tracked) => tracked \in spare[c]
    /\ pc[c] \in {"scanned1", "scanned2", "scanned3"} => seen[c] \cap spare[c] = {}

Safe == NoOrphan /\ KillFollowsTerm /\ StopperStops /\ StartAlone /\ StopsTracked /\ ScanSpares

\* A step of client c leaves the other clients where they are.
Others(c) ==
  \A d \in Clients \ {c} :
    /\ pc'[d] = pc[d]
    /\ op'[d] = op[d]
    /\ target'[d] = target[d]
    /\ seen'[d] = seen[d]
    /\ spare'[d] = spare[d]

LEMMA AnswerFrame ==
  ASSUME TypeOK, NEW c \in Clients, NEW o, NEW r, Answer(c, o, r)
  PROVE  Others(c) /\ pc'[c] = "idle"
BY DEF Answer, Others, TypeOK

LEMMA AwaitFrame ==
  ASSUME TypeOK, NEW c \in Clients, NEW o, NEW at, NEW p, NEW ov, Await(c, o, at, p, ov)
  PROVE  Others(c) /\ pc'[c] = at /\ op'[c] = o /\ target'[c] = p
BY DEF Await, Others, TypeOK

LEMMA BeginStartFrame ==
  ASSUME TypeOK, NEW c \in Clients, NEW o, NEW ov, BeginStart(c, o, ov)
  PROVE  Others(c) /\ (pc'[c] = "idle" \/ (pc'[c] = "lsof" /\ ~Open(tracked)))
BY AnswerFrame, AwaitFrame DEF BeginStart

LEMMA BeginProfileStartFrame ==
  ASSUME TypeOK, NEW c \in Clients, NEW o, NEW plan, BeginProfileStart(c, o, plan)
  PROVE  Others(c) /\ (pc'[c] = "idle" \/ (pc'[c] = "lsof" /\ ~Open(tracked)))
BY AnswerFrame, BeginStartFrame DEF BeginProfileStart

LEMMA AfterStopFrame ==
  ASSUME TypeOK, StopperStops, NEW c \in Clients, pc[c] = "close", NEW r, AfterStop(c, r)
  PROVE  /\ Others(c)
         /\ \/ pc'[c] = "idle"
            \/ c \in Controllers /\ pc'[c] = "lsof" /\ ~Open(tracked)
<1>1. CASE op[c] = "stop" /\ Answer(c, "stop", r)
  BY <1>1, AnswerFrame
<1>2. CASE op[c] = "restart" /\ BeginProfileStart(c, "restart", over[c])
  <2>1. Others(c) /\ (pc'[c] = "idle" \/ (pc'[c] = "lsof" /\ ~Open(tracked)))
    BY <1>2, BeginProfileStartFrame
  <2> QED BY <1>2, <2>1 DEF StopperStops, Clients
<1>3. CASE op[c] \in {"toggle", "reconcile"} /\ BeginStart(c, op[c], over[c])
  <2>1. Others(c) /\ (pc'[c] = "idle" \/ (pc'[c] = "lsof" /\ ~Open(tracked)))
    BY <1>3, BeginStartFrame
  <2> QED BY <1>3, <2>1 DEF StopperStops, Clients
<1> QED BY <1>1, <1>2, <1>3 DEF AfterStop

LEMMA SendFacts ==
  ASSUME TypeOK, NEW sig \in {"term", "kill"}, NEW p \in Children, Send(sig, p)
  PROVE  /\ \A q \in Children : signal[q] \subseteq signal'[q]
         /\ \A q \in Children \ {p} : signal'[q] = signal[q]
         /\ ProcessRuns(p) => sig \in signal'[p]
         /\ signal'[p] \subseteq signal[p] \cup {sig}
         /\ ~ProcessRuns(p) => signal'[p] = signal[p]
BY DEF Send, TypeOK

\* A step of a client that spawns nothing keeps the invariant when it leaves the
\* client in one of these positions.
LEMMA ClientStep ==
  ASSUME TypeOK, Safe, NEW c \in Clients, Others(c), UNCHANGED <<tracked, child>>,
         \A p \in Children : signal[p] \subseteq signal'[p],
         KillFollowsTerm',
         \/ pc'[c] = "idle"
         \/ c \in Controllers /\ pc'[c] \in StartWindow /\ ~Open(tracked)
         \/ /\ pc'[c] = "close" /\ target'[c] = tracked /\ tracked \in Children
            /\ ProcessRuns(tracked) => "term" \in signal'[tracked]
            /\ c \in Controllers \/ op'[c] = "stop"
         \/ /\ c \in Controllers /\ pc'[c] \in KillWindow
            /\ Open(tracked) => tracked \in spare'[c]
            /\ pc'[c] \in {"scanned1", "scanned2", "scanned3"} => seen'[c] \cap spare'[c] = {}
  PROVE  Safe'
<1> USE RolesDiffer DEF Clients
<1>1. NoOrphan' BY DEF Safe, NoOrphan, Open
<1>2. StopperStops' BY DEF Safe, StopperStops, Others, StartWindow, KillWindow
<1>3. StartAlone' BY DEF Safe, StartAlone, Others, Open, StartWindow, KillWindow
<1>4. StopsTracked'
  BY NoneIsNoChild DEF Safe, StopsTracked, Others, ProcessRuns, StartWindow, KillWindow, TypeOK
<1>5. ScanSpares' BY DEF Safe, ScanSpares, Others, Open, StartWindow, KillWindow
<1> QED BY <1>1, <1>2, <1>3, <1>4, <1>5 DEF Safe

\* A step of a client that touches no process.
LEMMA QuietStep ==
  ASSUME TypeOK, Safe, NEW c \in Clients, Others(c), UNCHANGED <<tracked, child, signal>>,
         \/ pc'[c] = "idle"
         \/ c \in Controllers /\ pc'[c] \in StartWindow /\ ~Open(tracked)
         \/ /\ c \in Controllers /\ pc'[c] \in KillWindow
            /\ Open(tracked) => tracked \in spare'[c]
            /\ pc'[c] \in {"scanned1", "scanned2", "scanned3"} => seen'[c] \cap spare'[c] = {}
  PROVE  Safe'
<1>1. KillFollowsTerm'
  BY DEF Safe, KillFollowsTerm
<1> QED BY <1>1, ClientStep

LEMMA BeginStopSafe ==
  ASSUME TypeOK, Safe, NEW c \in Clients, NEW o, NEW ov, BeginStop(c, o, ov),
         c \in Controllers \/ o = "stop", UNCHANGED <<tracked, child>>
  PROVE  Safe'
<1>1. tracked \in Children
  BY DEF TypeOK, BeginStop, Open
<1>2. Others(c) /\ pc'[c] = "close" /\ op'[c] = o /\ target'[c] = tracked
  BY AwaitFrame DEF BeginStop
<1>3. /\ \A p \in Children : signal[p] \subseteq signal'[p]
      /\ \A p \in Children \ {tracked} : signal'[p] = signal[p]
      /\ ProcessRuns(tracked) => "term" \in signal'[tracked]
      /\ signal'[tracked] \subseteq signal[tracked] \cup {"term"}
  BY <1>1, SendFacts DEF BeginStop
<1>4. KillFollowsTerm'
  BY <1>1, <1>3 DEF Safe, KillFollowsTerm
<1> QED BY <1>1, <1>2, <1>3, <1>4, ClientStep

LEMMA RequestSafe ==
  ASSUME TypeOK, Safe, NEW c \in Clients, Request(c)
  PROVE  Safe'
<1>1. CASE RequestStop(c)
  <2>1. CASE BeginStop(c, "stop", NoOverride)
    BY <1>1, <2>1, BeginStopSafe DEF RequestStop
  <2>2. CASE Answer(c, "stop", "alreadyStopped") /\ UNCHANGED signal
    BY <1>1, <2>2, AnswerFrame, QuietStep DEF RequestStop
  <2> QED BY <1>1, <2>1, <2>2 DEF RequestStop
<1>2. CASE c \in Controllers /\ RequestStart(c)
  <2>1. PICK plan \in Plans : BeginProfileStart(c, "start", plan)
    BY <1>2 DEF RequestStart
  <2> QED BY <1>2, <2>1, BeginProfileStartFrame, QuietStep
          DEF RequestStart, procVars, StartWindow
<1>3. CASE c \in Controllers /\ RequestRestart(c)
  <2>1. PICK plan \in Plans :
           \/ BeginStop(c, "restart", plan)
           \/ BeginProfileStart(c, "restart", plan) /\ UNCHANGED signal
    BY <1>3 DEF RequestRestart
  <2>2. CASE BeginStop(c, "restart", plan)
    BY <1>3, <2>2, BeginStopSafe DEF RequestRestart
  <2>3. CASE BeginProfileStart(c, "restart", plan) /\ UNCHANGED signal
    BY <1>3, <2>3, BeginProfileStartFrame, QuietStep DEF RequestRestart, StartWindow
  <2> QED BY <2>1, <2>2, <2>3
<1>4. CASE c \in Controllers /\ RequestToggle(c)
  <2>1. PICK f \in Features, b \in BOOLEAN :
           \/ Answer(c, "toggle", "startFailed") /\ UNCHANGED signal
           \/ BeginStop(c, "toggle", [x \in {f} |-> b])
           \/ Answer(c, "toggle", "configured") /\ UNCHANGED signal
    BY <1>4 DEF RequestToggle
  <2>2. CASE BeginStop(c, "toggle", [x \in {f} |-> b])
    BY <1>4, <2>2, BeginStopSafe DEF RequestToggle
  <2>3. ASSUME NEW r, Answer(c, "toggle", r), UNCHANGED signal PROVE Safe'
    BY <1>4, <2>3, AnswerFrame, QuietStep DEF RequestToggle
  <2> QED BY <2>1, <2>2, <2>3
<1>5. CASE c \in Controllers /\ RequestReconcile(c)
  <2>1. PICK plan \in Plans :
           \/ Answer(c, "reconcile", "startFailed") /\ UNCHANGED signal
           \/ BeginStop(c, "reconcile", plan)
           \/ BeginStart(c, "reconcile", plan) /\ UNCHANGED signal
    BY <1>5 DEF RequestReconcile
  <2>2. CASE BeginStop(c, "reconcile", plan)
    BY <1>5, <2>2, BeginStopSafe DEF RequestReconcile
  <2>3. CASE Answer(c, "reconcile", "startFailed") /\ UNCHANGED signal
    BY <1>5, <2>3, AnswerFrame, QuietStep DEF RequestReconcile
  <2>4. CASE BeginStart(c, "reconcile", plan) /\ UNCHANGED signal
    BY <1>5, <2>4, BeginStartFrame, QuietStep DEF RequestReconcile, StartWindow
  <2> QED BY <2>1, <2>2, <2>3, <2>4
<1>6. CASE c \in Controllers /\ RequestKillConflict(c)
  <2>1. Others(c) /\ pc'[c] = "scan1"
    BY <1>6 DEF RequestKillConflict, Others, TypeOK
  <2>2. Open(tracked) => tracked \in spare'[c]
    BY <1>6 DEF RequestKillConflict, TypeOK
  <2> QED BY <1>6, <2>1, <2>2, QuietStep DEF RequestKillConflict, procVars, KillWindow
<1> QED BY <1>1, <1>2, <1>3, <1>4, <1>5, <1>6 DEF Request

\* The scans of killMonolithConflictProcesses signal no managed process.
LEMMA ScanHarmless ==
  ASSUME TypeOK, Safe, NEW c \in Clients, pc[c] \in {"scanned1", "scanned2", "scanned3"},
         NEW sig, SendAll(sig, seen[c])
  PROVE  signal' = signal
<1>1. \A p \in Children : ~(p \in seen[c] /\ ProcessRuns(p))
  <2> SUFFICES ASSUME NEW p \in Children, p \in seen[c], ProcessRuns(p) PROVE FALSE
    OBVIOUS
  <2>1. Open(p)
    BY NoneIsNoChild DEF Open, ProcessRuns
  <2>2. p = tracked /\ tracked \in spare[c]
    BY <2>1 DEF Safe, NoOrphan, ScanSpares, KillWindow
  <2> QED BY <2>2 DEF Safe, ScanSpares
<1> QED BY <1>1 DEF SendAll, TypeOK

\* With one starting client nobody waits for a close, and nobody scans, while the
\* start window ends in a spawn.
LEMMA SpawnSafe ==
  ASSUME TypeOK, Safe, OneController, NEW c \in Clients, Spawn(c)
  PROVE  Safe'
<1> USE RolesDiffer DEF Clients
<1>1. c \in Controllers /\ ~Open(tracked)
  BY DEF Spawn, Safe, StopperStops, StartAlone, StartWindow
<1>2. PICK p \in Children :
         /\ child' = [child EXCEPT ![p] = "starting"]
         /\ signal' = [signal EXCEPT ![p] = {}]
         /\ tracked' = p
         /\ Await(c, op[c], "listen", p, NoOverride)
  BY DEF Spawn
<1>3. Others(c) /\ pc'[c] = "listen"
  BY <1>2, AwaitFrame
<1>4. \A q \in Children : child[q] = "closed"
  BY <1>1, NoneIsNoChild DEF Safe, NoOrphan, Open
<1>5. \A d \in Clients : pc[d] # "close"
  BY <1>1 DEF Spawn, NoMicrotask, Safe, StopsTracked
<1>6. \A d \in Clients \ {c} : d \in Stoppers /\ pc'[d] = "idle"
  BY <1>1, <1>3, <1>5 DEF OneController, Safe, StopperStops, Others
<1>7. NoOrphan'
  BY <1>2, <1>4 DEF NoOrphan, Open, TypeOK
<1>8. KillFollowsTerm'
  BY <1>2 DEF Safe, KillFollowsTerm, TypeOK
<1> QED BY <1>1, <1>3, <1>6, <1>7, <1>8
        DEF Safe, StopperStops, StartAlone, StopsTracked, ScanSpares, StartWindow, KillWindow

LEMMA ContinueSafe ==
  ASSUME TypeOK, Safe, OneController, NEW c \in Clients, Continue(c)
  PROVE  Safe'
<1>a. pc[c] \in StartWindow => c \in Controllers /\ ~Open(tracked)
  BY DEF Safe, StopperStops, StartAlone, StartWindow, Clients
<1>b. pc[c] \in KillWindow => c \in Controllers /\ (Open(tracked) => tracked \in spare[c])
  BY DEF Safe, StopperStops, ScanSpares, KillWindow, Clients
<1>1. CASE CloseSeen(c)
  BY <1>1, AfterStopFrame, QuietStep DEF CloseSeen, procVars, Safe, StartWindow
<1>2. CASE CloseTimeout(c)
  <2>1. target[c] = tracked /\ tracked \in Children
    BY <1>2 DEF CloseTimeout, Safe, StopsTracked, TypeOK
  <2>2. Others(c) /\ \/ pc'[c] = "idle"
                     \/ c \in Controllers /\ pc'[c] = "lsof" /\ ~Open(tracked)
    BY <1>2, AfterStopFrame DEF CloseTimeout, Safe
  <2>3. /\ \A p \in Children : signal[p] \subseteq signal'[p]
        /\ \A p \in Children \ {tracked} : signal'[p] = signal[p]
        /\ ~ProcessRuns(tracked) => signal'[tracked] = signal[tracked]
    BY <1>2, <2>1, SendFacts DEF CloseTimeout
  <2>4. KillFollowsTerm'
    BY <1>2, <2>1, <2>3 DEF CloseTimeout, Safe, KillFollowsTerm, StopsTracked
  <2> QED BY <1>2, <2>2, <2>3, <2>4, ClientStep DEF CloseTimeout, StartWindow
<1>3. CASE LsofAnswers(c) \/ PsAnswers(c)
  <2>1. Others(c) /\ pc'[c] \in StartWindow /\ pc[c] \in StartWindow
    BY <1>3 DEF LsofAnswers, PsAnswers, Reads, Others, TypeOK, StartWindow
  <2> QED BY <1>3, <1>a, <2>1, QuietStep DEF LsofAnswers, PsAnswers, procVars
<1>4. CASE AfterLsof(c)
  <2>1. CASE Answer(c, op[c], "conflict")
    BY <1>4, <2>1, AnswerFrame, QuietStep DEF AfterLsof, procVars
  <2>2. CASE Await(c, op[c], "ps", None, over[c])
    BY <1>4, <1>a, <2>2, AwaitFrame, QuietStep DEF AfterLsof, procVars, StartWindow
  <2> QED BY <1>4, <2>1, <2>2 DEF AfterLsof
<1>5. CASE Spawn(c)
  BY <1>5, SpawnSafe
<1>6. CASE SpawnRefused(c) \/ ListenDone(c) \/ AfterScan3(c)
  <2>1. Others(c) /\ pc'[c] = "idle"
    BY <1>6, AnswerFrame DEF SpawnRefused, ListenDone, AfterScan3
  <2> QED BY <1>6, <2>1, QuietStep DEF SpawnRefused, ListenDone, AfterScan3, procVars
<1>7. CASE ScanAnswers(c)
  <2>1. Others(c) /\ spare' = spare
    BY <1>7 DEF ScanAnswers, Reads, Others, TypeOK
  <2>2. pc[c] \in KillWindow /\ pc'[c] \in {"scanned1", "scanned2", "scanned3"}
    BY <1>7 DEF ScanAnswers, Scanned, KillWindow, TypeOK
  <2>3. seen'[c] \cap spare'[c] = {}
    BY <1>7, <2>1 DEF ScanAnswers, Reads, TypeOK
  <2> QED BY <1>7, <1>b, <2>1, <2>2, <2>3, QuietStep DEF ScanAnswers, procVars, KillWindow
<1>8. CASE AfterScan1(c) \/ AfterScan2(c)
  <2>1. CASE Answer(c, "kill-conflict", "noConflict") /\ UNCHANGED signal
    BY <1>8, <2>1, AnswerFrame, QuietStep DEF AfterScan1, AfterScan2
  <2>2. ASSUME NEW sig, SendAll(sig, seen[c]), NEW at \in {"scan2", "scan3"}, NextScan(c, at)
        PROVE  Safe'
    <3>1. pc[c] \in {"scanned1", "scanned2", "scanned3"} /\ pc[c] \in KillWindow
      BY <1>8 DEF AfterScan1, AfterScan2, KillWindow
    <3>2. UNCHANGED <<tracked, child, signal>>
      BY <1>8, <2>2, <3>1, ScanHarmless DEF AfterScan1, AfterScan2
    <3>3. Others(c) /\ pc'[c] = at /\ spare' = spare
      BY <2>2 DEF NextScan, Others, TypeOK
    <3> QED BY <1>b, <3>1, <3>2, <3>3, QuietStep DEF KillWindow
  <2> QED BY <1>8, <2>1, <2>2 DEF AfterScan1, AfterScan2
<1> QED BY <1>1, <1>2, <1>3, <1>4, <1>5, <1>6, <1>7, <1>8 DEF Continue

LEMMA ProcessSafe ==
  ASSUME TypeOK, Safe,
         (\E p \in Children : Process(p)) \/ (\E e \in Externals : External(e))
  PROVE  Safe'
<1>1. ASSUME NEW p \in Children, Process(p) PROVE Safe'
  <2>1. /\ UNCHANGED <<tracked, signal, reqVars>>
        /\ \A q \in Children : /\ Open(q)' => Open(q)
                               /\ ProcessRuns(q)' => ProcessRuns(q)
    BY <1>1 DEF Process, ChildOpensDb, ChildExits, ChildClosed, Open, ProcessRuns, TypeOK
  <2>2. Open(tracked)' => Open(tracked)
    BY <2>1, NoneIsNoChild DEF Open, TypeOK
  <2> QED BY <2>1, <2>2
          DEF Safe, NoOrphan, KillFollowsTerm, StopperStops, StartAlone, StopsTracked,
              ScanSpares, reqVars, TypeOK
<1>2. ASSUME NEW e \in Externals, External(e) PROVE Safe'
  BY <1>2 DEF External, ExternalStarts, ExternalExits, procVars, reqVars, Safe, NoOrphan,
              KillFollowsTerm, StopperStops, StartAlone, StopsTracked, ScanSpares, Open,
              ProcessRuns
<1> QED BY <1>1, <1>2

LEMMA InitSafe == Init => Safe
BY DEF Init, Safe, NoOrphan, KillFollowsTerm, StopperStops, StartAlone, StopsTracked, ScanSpares,
       StartWindow, KillWindow, Open, Clients

-----------------------------------------------------------------------------
(* The theorems *)

Invariant == TypeOK /\ (OneController => Safe)

LEMMA InvariantStep == Invariant /\ [Next]_vars => Invariant'
<1> SUFFICES ASSUME Invariant, [Next]_vars PROVE TypeOK' /\ (OneController => Safe')
  BY DEF Invariant
<1>1. TypeOK
  BY DEF Invariant
<1>2. CASE UNCHANGED vars
  BY <1>1, <1>2 DEF Invariant, vars, procVars, reqVars, TypeOK, Safe, NoOrphan,
     KillFollowsTerm, StopperStops, StartAlone, StopsTracked, ScanSpares, Open, ProcessRuns
<1>3. CASE Next
  <2>1. TypeOK'
    BY <1>1, <1>3, RequestType, ContinueType, ProcessType DEF Next
  <2>2. ASSUME OneController PROVE Safe'
    BY <1>1, <1>3, <2>2, RequestSafe, ContinueSafe, ProcessSafe DEF Next, Invariant
  <2> QED BY <2>1, <2>2
<1> QED BY <1>2, <1>3

LEMMA InvariantHolds == Spec => []Invariant
<1>1. Init => Invariant
  BY InitType, InitSafe DEF Invariant
<1> QED BY <1>1, InvariantStep, PTL DEF Spec

\* With one client that starts nodes, no spawned process is ever lost: whatever is
\* not closed is the process the supervisor tracks.
THEOREM OneControllerNoOrphan == OneController => (Spec => []NoOrphan)
<1> SUFFICES ASSUME OneController PROVE Spec => []NoOrphan
  OBVIOUS
<1>1. Invariant => NoOrphan
  BY DEF Invariant, Safe
<1> QED BY <1>1, InvariantHolds, PTL

\* With one client that starts nodes, a managed node is asked to end before it is
\* killed, whoever stops it and whatever the conflict scans find.
THEOREM OneControllerKillFollowsTerm == OneController => (Spec => []KillFollowsTerm)
<1> SUFFICES ASSUME OneController PROVE Spec => []KillFollowsTerm
  OBVIOUS
<1>1. Invariant => KillFollowsTerm
  BY DEF Invariant, Safe
<1> QED BY <1>1, InvariantHolds, PTL

LEMMA ClientKeeps ==
  ASSUME TypeOK, NEW c \in Clients, Request(c) \/ Continue(c), ~Spawn(c)
  PROVE  UNCHANGED <<tracked, child>> /\ \A p \in Children : signal[p] \subseteq signal'[p]
<1>1. ASSUME NEW o, NEW ov, BeginStop(c, o, ov)
      PROVE  \A p \in Children : signal[p] \subseteq signal'[p]
  BY <1>1, SendFacts DEF BeginStop, Open, TypeOK
<1>2. CASE Request(c)
  BY <1>1, <1>2 DEF Request, RequestStop, RequestStart, RequestRestart, RequestToggle,
                    RequestReconcile, RequestKillConflict, procVars
<1>3. CASE CloseTimeout(c)
  BY <1>3, SendFacts DEF CloseTimeout, NoMicrotask, Open, TypeOK
<1>4. CASE AfterScan1(c) \/ AfterScan2(c)
  BY <1>4 DEF AfterScan1, AfterScan2, SendAll, TypeOK
<1>5. CASE Continue(c) /\ ~CloseTimeout(c) /\ ~AfterScan1(c) /\ ~AfterScan2(c)
  BY <1>5 DEF Continue, CloseSeen, LsofAnswers, PsAnswers, AfterLsof, SpawnRefused, ListenDone,
              ScanAnswers, AfterScan3, procVars
<1> QED BY <1>2, <1>3, <1>4, <1>5

LEMMA NodeStep ==
  ASSUME Invariant, OneController, [Next]_vars
  PROVE  [Node!Next]_<<tracked, Phase>>
<1> USE NoneIsNoChild DEF Node!Next, Node!Start, Node!End, Node!Close
<1>1. TypeOK /\ Safe
  BY DEF Invariant
<1>2. CASE UNCHANGED vars
  BY <1>2 DEF vars, procVars, Phase, Open, ProcessRuns
<1>3. ASSUME NEW c \in Clients, Request(c) \/ Continue(c), ~Spawn(c)
      PROVE  [Node!Next]_<<tracked, Phase>>
  BY <1>1, <1>3, ClientKeeps DEF Phase, Open, ProcessRuns, TypeOK
<1>4. ASSUME NEW c \in Clients, Spawn(c)
      PROVE  [Node!Next]_<<tracked, Phase>>
  <2>1. ~Open(tracked)
    BY <1>1, <1>4 DEF Spawn, Safe, StartAlone, StartWindow
  <2>2. PICK p \in Children : p # tracked /\ tracked' = p
                              /\ child'[p] = "starting" /\ signal'[p] = {}
    BY <1>1, <1>4 DEF Spawn, Fresh, TypeOK
  <2> QED BY <2>1, <2>2 DEF Phase, Open, ProcessRuns
<1>5. ASSUME NEW p \in Children, Process(p)
      PROVE  [Node!Next]_<<tracked, Phase>>
  BY <1>1, <1>5 DEF Process, ChildOpensDb, ChildExits, ChildClosed, Phase, Open, ProcessRuns,
                    TypeOK
<1>6. ASSUME NEW e \in Externals, External(e)
      PROVE  [Node!Next]_<<tracked, Phase>>
  BY <1>6 DEF External, ExternalStarts, ExternalExits, procVars, Phase, Open, ProcessRuns
<1> QED BY <1>2, <1>3, <1>4, <1>5, <1>6 DEF Next

\* With one client that starts nodes, the supervisor implements the abstract managed
\* node: the next process starts only after the previous one was seen to close, and a
\* process told to stop never counts as running again.
THEOREM OneControllerImplementsManagedNode == OneController => (Spec => ImplementsManagedNode)
<1> SUFFICES ASSUME OneController PROVE Spec => ImplementsManagedNode
  OBVIOUS
<1>1. Init => Node!Init
  BY DEF Init, Node!Init, Phase, Open
<1>2. Invariant /\ [Next]_vars => [Node!Next]_<<tracked, Phase>>
  BY NodeStep
<1> QED BY <1>1, <1>2, InvariantHolds, PTL DEF Spec, ImplementsManagedNode, Node!Spec
-----------------------------------------------------------------------------
(* What a stop and a start answer *)

\* A step of c gives c an answer with one of the results R, and nobody else one.
Says(c, R) ==
  /\ answer'[c][2] \in R
  /\ \A d \in Clients \ {c} : answer'[d] = answer[d]

NoNodeResults == {"stopped", "alreadyStopped"}
OtherResults == Results \ (NoNodeResults \cup {"started"})

LEMMA AnswerSays ==
  ASSUME TypeOK, NEW c \in Clients, NEW o, NEW r, Answer(c, o, r)
  PROVE  Says(c, {r})
BY DEF Answer, Says, TypeOK

LEMMA AwaitSays ==
  ASSUME TypeOK, NEW c \in Clients, NEW o, NEW at, NEW p, NEW ov, Await(c, o, at, p, ov)
  PROVE  Says(c, {"none"})
BY DEF Await, Says, TypeOK

LEMMA BeginStartSays ==
  ASSUME TypeOK, NEW c \in Clients, NEW o, NEW ov, BeginStart(c, o, ov)
  PROVE  Says(c, OtherResults)
<1>1. Says(c, {"alreadyActive"}) \/ Says(c, {"startFailed"}) \/ Says(c, {"none"})
  BY AnswerSays, AwaitSays DEF BeginStart
<1> QED BY <1>1 DEF Says, OtherResults, NoNodeResults, Results

LEMMA BeginProfileStartSays ==
  ASSUME TypeOK, NEW c \in Clients, NEW o, NEW plan, BeginProfileStart(c, o, plan)
  PROVE  Says(c, OtherResults)
<1>1. Says(c, {"startFailed"}) \/ Says(c, OtherResults)
  BY AnswerSays, BeginStartSays DEF BeginProfileStart
<1> QED BY <1>1 DEF Says, OtherResults, NoNodeResults, Results

LEMMA AfterStopSays ==
  ASSUME TypeOK, NEW c \in Clients, NEW r \in Results, AfterStop(c, r)
  PROVE  Says(c, {r}) \/ Says(c, OtherResults)
BY AnswerSays, BeginStartSays, BeginProfileStartSays DEF AfterStop

\* A client that is told the node is stopped, or was, is told so while the tracked
\* process is closed.
LEMMA RequestSays ==
  ASSUME TypeOK, NEW c \in Clients, Request(c)
  PROVE  Says(c, OtherResults) \/ (Says(c, NoNodeResults) /\ ~Open(tracked))
<1> USE DEF OtherResults, NoNodeResults, Results
<1>1. ASSUME NEW o, NEW ov, BeginStop(c, o, ov) PROVE Says(c, OtherResults)
  BY <1>1, AwaitSays DEF BeginStop, Says
<1>2. CASE RequestStop(c)
  <2>1. CASE BeginStop(c, "stop", NoOverride)
    BY <2>1, <1>1
  <2>2. CASE ~Open(tracked) /\ Answer(c, "stop", "alreadyStopped")
    BY <2>2, AnswerSays DEF Says
  <2> QED BY <1>2, <2>1, <2>2 DEF RequestStop
<1>3. CASE RequestStart(c) \/ RequestRestart(c)
  BY <1>1, <1>3, BeginProfileStartSays DEF RequestStart, RequestRestart
<1>4. CASE RequestToggle(c)
  <2>1. ASSUME NEW r \in {"startFailed", "configured"}, Answer(c, "toggle", r)
        PROVE  Says(c, OtherResults)
    BY <2>1, AnswerSays DEF Says
  <2> QED BY <1>1, <1>4, <2>1 DEF RequestToggle
<1>5. CASE RequestReconcile(c)
  <2>1. ASSUME Answer(c, "reconcile", "startFailed") PROVE Says(c, OtherResults)
    BY <2>1, AnswerSays DEF Says
  <2> QED BY <1>1, <1>5, <2>1, BeginStartSays DEF RequestReconcile
<1>6. CASE RequestKillConflict(c)
  BY <1>6 DEF RequestKillConflict, Says, TypeOK
<1> QED BY <1>2, <1>3, <1>4, <1>5, <1>6 DEF Request

LEMMA ContinueSays ==
  ASSUME TypeOK, Safe, NEW c \in Clients, Continue(c)
  PROVE  \/ Says(c, OtherResults)
         \/ Says(c, NoNodeResults) /\ ~Open(tracked)
         \/ Says(c, {"started", "startFailed"}) /\ ListenDone(c)
         \/ answer' = answer
<1> USE DEF OtherResults, NoNodeResults, Results
<1>1. CASE CloseSeen(c)
  <2>1. ~Open(tracked)
    BY <1>1 DEF CloseSeen, Safe, StopsTracked
  <2> QED BY <1>1, <2>1, AfterStopSays DEF CloseSeen, Says
<1>2. CASE CloseTimeout(c)
  BY <1>2, AfterStopSays DEF CloseTimeout, Says
<1>3. ASSUME NEW o, NEW r \in OtherResults, Answer(c, o, r) PROVE Says(c, OtherResults)
  BY <1>3, AnswerSays DEF Says
<1>4. ASSUME NEW o, NEW at, NEW p, NEW ov, Await(c, o, at, p, ov) PROVE Says(c, OtherResults)
  BY <1>4, AwaitSays DEF Says
<1>5. CASE AfterLsof(c) \/ Spawn(c) \/ SpawnRefused(c)
  BY <1>3, <1>4, <1>5 DEF AfterLsof, Spawn, SpawnRefused
<1>6. CASE AfterScan1(c) \/ AfterScan3(c)
  BY <1>3, <1>6 DEF AfterScan1, AfterScan3, NextScan
<1>8. CASE ListenDone(c)
  BY <1>8, AnswerSays DEF ListenDone, Says
<1>7. CASE LsofAnswers(c) \/ PsAnswers(c) \/ ScanAnswers(c) \/ AfterScan2(c)
  BY <1>7 DEF LsofAnswers, PsAnswers, ScanAnswers, AfterScan2, NextScan
<1> QED BY <1>1, <1>2, <1>5, <1>6, <1>7, <1>8 DEF Continue

\* Who answers.
LEMMA AnswerIsByClient ==
  ASSUME [Next]_vars, answer' # answer
  PROVE  \E d \in Clients : Request(d) \/ Continue(d)
<1>1. ASSUME NEW p \in Children, Process(p) PROVE answer' = answer
  BY <1>1 DEF Process, ChildOpensDb, ChildExits, ChildClosed, reqVars
<1>2. ASSUME NEW e \in Externals, External(e) PROVE answer' = answer
  BY <1>2 DEF External, ExternalStarts, ExternalExits, reqVars
<1>3. UNCHANGED vars => answer' = answer
  BY DEF vars, reqVars
<1> QED BY <1>1, <1>2, <1>3 DEF Next

LEMMA StopMeansNoNodeStep ==
  ASSUME OneController, Invariant, [Next]_vars,
         NEW c \in Clients, NEW r \in NoNodeResults, Answers(c, "stop", r)
  PROVE  \A p \in Children : child[p] = "closed"
<1>1. TypeOK /\ Safe
  BY DEF Invariant
<1>2. answer'[c][2] \in NoNodeResults /\ answer'[c] # answer[c]
  BY DEF Answers
<1>3. PICK d \in Clients : Request(d) \/ Continue(d)
  BY <1>2, AnswerIsByClient
<1>4. ~Open(tracked)
  <2>1. \/ Says(d, OtherResults) \/ Says(d, {"started", "startFailed"}) \/ answer' = answer
        \/ ~Open(tracked)
    BY <1>1, <1>3, RequestSays, ContinueSays
  <2> QED BY <1>2, <2>1 DEF Says, OtherResults, NoNodeResults
<1> QED BY <1>1, <1>4, NoneIsNoChild DEF Safe, NoOrphan, Open, TypeOK

\* With one client that starts nodes, a stop that answers that the node is stopped, or
\* was, leaves no process of the supervisor, not even one that exits.
THEOREM OneControllerStopMeansNoNode == OneController => (Spec => StopMeansNoNode)
<1> SUFFICES ASSUME OneController PROVE Spec => StopMeansNoNode
  OBVIOUS
<1>1. ASSUME Invariant, [Next]_vars
      PROVE  [\A c \in Clients, r \in {"stopped", "alreadyStopped"} :
                Answers(c, "stop", r) => \A p \in Children : child[p] = "closed"]_vars
  BY <1>1, StopMeansNoNodeStep DEF NoNodeResults
<1> QED BY <1>1, InvariantHolds, PTL DEF Spec, StopMeansNoNode
-----------------------------------------------------------------------------
(***************************************************************************)
(* What a start answers.  From the moment a request of the controller has  *)
(* written config.yml until its start has answered, the overrides it       *)
(* captured are what config.yml says, and nobody else writes it.           *)
(***************************************************************************)
Matches(ov) == \A f \in DOMAIN ov : ov[f] = config[f]

Configured(c) ==
  /\ pc[c] \in StartWindow => Matches(over[c])
  /\ pc[c] = "close" /\ op[c] \in {"toggle", "reconcile"} => Matches(over[c])
  /\ pc[c] = "listen" => target[c] = tracked /\ flags[tracked] = config

AllConfigured == \A c \in Controllers : Configured(c)

LEMMA AnswerConfigured ==
  ASSUME TypeOK, NEW c \in Clients, NEW o, NEW r, Answer(c, o, r)
  PROVE  Configured(c)'
BY DEF Answer, Configured, TypeOK, StartWindow

LEMMA AwaitPosition ==
  ASSUME TypeOK, NEW c \in Clients, NEW o, NEW at, NEW p, NEW ov, Await(c, o, at, p, ov)
  PROVE  pc'[c] = at /\ op'[c] = o /\ target'[c] = p /\ over'[c] = ov
BY DEF Await, TypeOK

LEMMA BeginStartConfigured ==
  ASSUME TypeOK, NEW c \in Clients, NEW o, NEW ov, BeginStart(c, o, ov), Matches(ov)'
  PROVE  Configured(c)'
<1>1. CASE Await(c, o, "lsof", None, ov)
  BY <1>1, AwaitPosition DEF Configured, Matches, StartWindow
<1> QED BY <1>1, AnswerConfigured DEF BeginStart

LEMMA BeginProfileStartConfigured ==
  ASSUME TypeOK, NEW c \in Clients, NEW o, NEW plan, BeginProfileStart(c, o, plan)
  PROVE  Configured(c)'
<1>1. CASE Answer(c, o, "startFailed")
  BY <1>1, AnswerConfigured
<1>2. CASE config' = plan /\ BeginStart(c, o, plan)
  <2>1. Matches(plan)'
    BY <1>2 DEF Matches
  <2> QED BY <1>2, <2>1, BeginStartConfigured
<1> QED BY <1>1, <1>2 DEF BeginProfileStart

LEMMA BeginStopConfigured ==
  ASSUME TypeOK, NEW c \in Clients, NEW o, NEW ov, BeginStop(c, o, ov),
         o \in {"toggle", "reconcile"} => Matches(ov)'
  PROVE  Configured(c)'
<1>1. pc'[c] = "close" /\ op'[c] = o /\ over'[c] = ov
  BY AwaitPosition DEF BeginStop
<1> QED BY <1>1 DEF Configured, Matches, StartWindow

LEMMA AfterStopConfigured ==
  ASSUME TypeOK, NEW c \in Clients, pc[c] = "close", Configured(c), NEW r, AfterStop(c, r)
  PROVE  Configured(c)'
<1>1. CASE op[c] = "stop" /\ Answer(c, "stop", r)
  BY <1>1, AnswerConfigured
<1>2. CASE op[c] = "restart" /\ BeginProfileStart(c, "restart", over[c])
  BY <1>2, BeginProfileStartConfigured
<1>3. CASE op[c] \in {"toggle", "reconcile"} /\ BeginStart(c, op[c], over[c]) /\ UNCHANGED config
  <2>1. \A f \in DOMAIN over[c] : over[c][f] = config'[f]
    BY <1>3 DEF Configured, Matches
  <2> DEFINE ov == over[c]
  <2> HIDE DEF ov
  <2>2. BeginStart(c, op[c], ov) /\ \A f \in DOMAIN ov : ov[f] = config'[f]
    BY <1>3, <2>1 DEF ov
  <2>3. CASE Await(c, op[c], "lsof", None, over[c])
    <3>1. pc'[c] = "lsof" /\ over'[c] = over[c]
      BY <2>3, AwaitPosition
    <3> QED BY <2>1, <3>1 DEF Configured, Matches, StartWindow
  <2> QED BY <1>3, <2>3, AnswerConfigured DEF BeginStart
<1> QED BY <1>1, <1>2, <1>3 DEF AfterStop

LEMMA RequestConfigured ==
  ASSUME TypeOK, NEW c \in Clients, Request(c)
  PROVE  Configured(c)'
<1>1. CASE RequestStop(c)
  BY <1>1, AnswerConfigured, BeginStopConfigured DEF RequestStop
<1>2. CASE RequestStart(c) \/ RequestRestart(c)
  BY <1>2, BeginProfileStartConfigured, BeginStopConfigured DEF RequestStart, RequestRestart
<1>3. CASE RequestToggle(c)
  <2>1. PICK f \in Features, b \in BOOLEAN :
          \/ Answer(c, "toggle", "startFailed")
          \/ /\ config' = [config EXCEPT ![f] = b]
             /\ \/ BeginStop(c, "toggle", [x \in {f} |-> b])
                \/ Answer(c, "toggle", "configured")
    BY <1>3 DEF RequestToggle
  <2>2. CASE config' = [config EXCEPT ![f] = b] /\ BeginStop(c, "toggle", [x \in {f} |-> b])
    <3>1. over'[c] = [x \in {f} |-> b] /\ pc'[c] = "close"
      BY <2>2, AwaitPosition DEF BeginStop
    <3>2. config'[f] = b
      BY <2>2 DEF TypeOK, FlagSet
    <3> QED BY <3>1, <3>2 DEF Configured, Matches, StartWindow
  <2> QED BY <2>1, <2>2, AnswerConfigured
<1>4. CASE RequestReconcile(c)
  <2>1. PICK plan \in Plans :
          \/ Answer(c, "reconcile", "startFailed")
          \/ config' = plan /\ (BeginStop(c, "reconcile", plan) \/ BeginStart(c, "reconcile", plan))
    BY <1>4 DEF RequestReconcile
  <2>2. CASE config' = plan
    <3>1. Matches(plan)'
      BY <2>2 DEF Matches
    <3> QED BY <2>1, <3>1, AnswerConfigured, BeginStopConfigured, BeginStartConfigured
  <2> QED BY <2>1, <2>2, AnswerConfigured
<1>5. CASE RequestKillConflict(c)
  BY <1>5 DEF RequestKillConflict, Configured, StartWindow, TypeOK
<1> QED BY <1>1, <1>2, <1>3, <1>4, <1>5 DEF Request

\* What is spawned gets config.yml: the overrides add nothing to it.
LEMMA SpawnConfigured ==
  ASSUME TypeOK, NEW c \in Clients, Configured(c), Spawn(c)
  PROVE  Configured(c)'
<1>1. Merged(over[c]) = config
  BY DEF Spawn, Configured, Matches, Merged, StartWindow, TypeOK, FlagSet
<1>2. PICK p \in Children : /\ flags' = [flags EXCEPT ![p] = Merged(over[c])]
                            /\ tracked' = p
                            /\ Await(c, op[c], "listen", p, NoOverride)
  BY DEF Spawn
<1>3. flags'[p] = config /\ config' = config
  BY <1>1, <1>2 DEF Spawn, TypeOK
<1>4. pc'[c] = "listen" /\ target'[c] = p
  BY <1>2, AwaitPosition
<1> QED BY <1>2, <1>3, <1>4 DEF Configured, StartWindow

LEMMA ContinueConfigured ==
  ASSUME TypeOK, NEW c \in Clients, Configured(c), Continue(c)
  PROVE  Configured(c)'
<1>1. CASE CloseSeen(c) \/ CloseTimeout(c)
  BY <1>1, AfterStopConfigured DEF CloseSeen, CloseTimeout
<1>2. CASE LsofAnswers(c) \/ PsAnswers(c) \/ ScanAnswers(c)
  BY <1>2 DEF LsofAnswers, PsAnswers, ScanAnswers, Scanned, Configured, Matches, StartWindow, TypeOK
<1>3. CASE AfterLsof(c)
  <2>1. CASE Await(c, op[c], "ps", None, over[c])
    <3>1. pc'[c] = "ps" /\ over'[c] = over[c] /\ config' = config
      BY <1>3, <2>1, AwaitPosition DEF AfterLsof
    <3> QED BY <1>3, <3>1 DEF AfterLsof, Configured, Matches, StartWindow
  <2> QED BY <1>3, <2>1, AnswerConfigured DEF AfterLsof
<1>4. CASE Spawn(c)
  BY <1>4, SpawnConfigured
<1>5. CASE SpawnRefused(c) \/ ListenDone(c) \/ AfterScan3(c)
  BY <1>5, AnswerConfigured DEF SpawnRefused, ListenDone, AfterScan3
<1>6. CASE AfterScan1(c) \/ AfterScan2(c)
  BY <1>6, AnswerConfigured DEF AfterScan1, AfterScan2, NextScan, Configured, StartWindow, TypeOK
<1> QED BY <1>1, <1>2, <1>3, <1>4, <1>5, <1>6 DEF Continue

\* A client that only stops the node changes nothing a start relies on.
LEMMA StopperConfigured ==
  ASSUME TypeOK, Safe, NEW c \in Controllers, Configured(c), NEW d \in Stoppers,
         Request(d) \/ Continue(d)
  PROVE  Configured(c)'
<1>0. c # d /\ d \notin Controllers /\ c \in Clients /\ d \in Clients
  BY RolesDiffer DEF Clients
<1>1. /\ UNCHANGED <<tracked, flags, config>>
      /\ \/ \E r : Answer(d, "stop", r)
         \/ BeginStop(d, "stop", NoOverride)
  <2>1. CASE Request(d)
    BY <1>0, <2>1 DEF Request, RequestStop
  <2>2. CASE Continue(d)
    <3>1. pc[d] = "close" /\ op[d] = "stop"
      <4>1. pc[d] # "idle"
        BY <2>2 DEF Continue, CloseSeen, CloseTimeout, LsofAnswers, AfterLsof, PsAnswers, Spawn,
           SpawnRefused, ListenDone, ScanAnswers, Scanned, AfterScan1, AfterScan2, AfterScan3
      <4> QED BY <4>1 DEF Safe, StopperStops
    <3>2. CloseSeen(d) \/ CloseTimeout(d)
      BY <2>2, <3>1 DEF Continue, LsofAnswers, AfterLsof, PsAnswers, Spawn,
         SpawnRefused, ListenDone, ScanAnswers, Scanned, AfterScan1, AfterScan2, AfterScan3
    <3> QED BY <3>1, <3>2 DEF CloseSeen, CloseTimeout, AfterStop, procVars
  <2> QED BY <2>1, <2>2
<1>2. pc'[c] = pc[c] /\ op'[c] = op[c] /\ target'[c] = target[c] /\ over'[c] = over[c]
  BY <1>0, <1>1 DEF Answer, BeginStop, Await, TypeOK
<1> QED BY <1>1, <1>2 DEF Configured, Matches

LEMMA AllConfiguredStep ==
  ASSUME OneController, Invariant, AllConfigured, [Next]_vars
  PROVE  AllConfigured'
<1>1. TypeOK /\ Safe
  BY DEF Invariant
<1> SUFFICES ASSUME NEW c \in Controllers PROVE Configured(c)'
  BY DEF AllConfigured
<1>2. Configured(c) /\ c \in Clients
  BY DEF AllConfigured, Clients
<1>3. ASSUME NEW d \in Clients, Request(d) \/ Continue(d) PROVE Configured(c)'
  <2>1. CASE d \in Controllers
    BY <1>1, <1>2, <1>3, <2>1, RequestConfigured, ContinueConfigured DEF OneController
  <2>2. CASE d \in Stoppers
    BY <1>1, <1>2, <1>3, <2>2, StopperConfigured
  <2> QED BY <2>1, <2>2 DEF Clients
<1>4. ASSUME UNCHANGED <<tracked, flags, config, op, pc, target, over>> PROVE Configured(c)'
  BY <1>2, <1>4 DEF Configured, Matches
<1>5. ASSUME NEW p \in Children, Process(p) PROVE Configured(c)'
  BY <1>4, <1>5 DEF Process, ChildOpensDb, ChildExits, ChildClosed, reqVars
<1>6. ASSUME NEW e \in Externals, External(e) PROVE Configured(c)'
  BY <1>4, <1>6 DEF External, ExternalStarts, ExternalExits, procVars, reqVars
<1>7. CASE UNCHANGED vars
  BY <1>4, <1>7 DEF vars, procVars, reqVars
<1> QED BY <1>3, <1>5, <1>6, <1>7 DEF Next

LEMMA InitConfigured == Init => AllConfigured
BY DEF Init, AllConfigured, Configured, Clients, StartWindow

LEMMA StartedAsConfiguredStep ==
  ASSUME OneController, Invariant, AllConfigured, [Next]_vars, NEW c \in Clients, NEW o \in Ops,
         Answers(c, o, "started")
  PROVE  target[c] = tracked /\ flags[tracked] = config
<1>1. TypeOK /\ Safe
  BY DEF Invariant
<1>2. answer'[c][2] = "started" /\ answer'[c] # answer[c]
  BY DEF Answers
<1>3. PICK d \in Clients : Request(d) \/ Continue(d)
  BY <1>2, AnswerIsByClient
<1>4. d = c /\ ListenDone(c)
  <2>1. \/ Says(d, OtherResults) \/ Says(d, NoNodeResults) \/ answer' = answer
        \/ Says(d, {"started", "startFailed"}) /\ ListenDone(d)
    BY <1>1, <1>3, RequestSays, ContinueSays
  <2> QED BY <1>2, <2>1 DEF Says, OtherResults, NoNodeResults
<1>5. c \in Controllers
  BY <1>1, <1>4 DEF ListenDone, Safe, StopperStops, Clients
<1> QED BY <1>4, <1>5 DEF AllConfigured, Configured, ListenDone

\* With one client that starts nodes, a request that says it started the node speaks of
\* the tracked process, and that process was given the features config.yml holds.
THEOREM OneControllerStartedAsConfigured == OneController => (Spec => StartedAsConfigured)
<1> SUFFICES ASSUME OneController PROVE Spec => StartedAsConfigured
  OBVIOUS
<1>1. Invariant /\ AllConfigured /\ [Next]_vars => AllConfigured'
  BY AllConfiguredStep
<1>2. ASSUME Invariant, AllConfigured, [Next]_vars
      PROVE  [\A c \in Clients, o \in Ops : Answers(c, o, "started")
                => target[c] = tracked /\ flags[tracked] = config]_vars
  BY <1>2, StartedAsConfiguredStep
<1> QED BY <1>1, <1>2, InitConfigured, InvariantHolds, PTL DEF Spec, StartedAsConfigured
-----------------------------------------------------------------------------
(***************************************************************************)
(* How a request moves.  Whatever the number of clients, each of them      *)
(* follows the awaits of one handler, and never goes back.                 *)
(***************************************************************************)
LEMMA RequestMoves ==
  ASSUME TypeOK, NEW c \in Clients, Request(c)
  PROVE  Others(c) /\ pc[c] = "idle" /\ pc'[c] \in {"idle", "close", "lsof", "scan1"}
<1>1. pc[c] = "idle"
  BY DEF Request, RequestStop, RequestStart, RequestRestart, RequestToggle, RequestReconcile,
         RequestKillConflict, MayRequest
<1>2. ASSUME NEW o, NEW ov, BeginStop(c, o, ov) PROVE Others(c) /\ pc'[c] = "close"
  BY <1>2, AwaitFrame DEF BeginStop
<1>3. CASE RequestStop(c) \/ RequestToggle(c)
  BY <1>1, <1>2, <1>3, AnswerFrame DEF RequestStop, RequestToggle
<1>4. CASE RequestStart(c) \/ RequestRestart(c)
  BY <1>1, <1>2, <1>4, BeginProfileStartFrame DEF RequestStart, RequestRestart
<1>5. CASE RequestReconcile(c)
  BY <1>1, <1>2, <1>5, AnswerFrame, BeginStartFrame DEF RequestReconcile
<1>6. CASE RequestKillConflict(c)
  BY <1>1, <1>6 DEF RequestKillConflict, Others, TypeOK
<1> QED BY <1>3, <1>4, <1>5, <1>6 DEF Request

LEMMA AfterStopMoves ==
  ASSUME TypeOK, NEW c \in Clients, NEW r, AfterStop(c, r)
  PROVE  Others(c) /\ (pc'[c] = "idle" \/ (pc'[c] = "lsof" /\ op[c] # "stop" /\ ~Open(tracked)))
BY AnswerFrame, BeginStartFrame, BeginProfileStartFrame DEF AfterStop

LEMMA ContinueMoves ==
  ASSUME TypeOK, NEW c \in Clients, Continue(c)
  PROVE  /\ Others(c)
         /\ Remaining[pc'[c]] < Remaining[pc[c]]
         /\ pc'[c] = "psDone" => PsAnswers(c)
         /\ pc[c] = "close" => pc'[c] \in {"idle", "lsof"} /\ (pc'[c] = "lsof" => op[c] # "stop")
<1> USE DEF Remaining
<1>1. CASE CloseSeen(c) \/ CloseTimeout(c)
  BY <1>1, AfterStopMoves DEF CloseSeen, CloseTimeout
<1>2. CASE LsofAnswers(c) \/ PsAnswers(c)
  <2>1. Others(c)
    BY <1>2 DEF LsofAnswers, PsAnswers, Reads, Others, TypeOK
  <2>2. \/ LsofAnswers(c) /\ pc[c] = "lsof" /\ pc'[c] = "lsofDone"
        \/ PsAnswers(c) /\ pc[c] = "ps" /\ pc'[c] = "psDone"
    BY <1>2 DEF LsofAnswers, PsAnswers, TypeOK
  <2> QED BY <2>1, <2>2
<1>3. CASE AfterLsof(c)
  BY <1>3, AnswerFrame, AwaitFrame DEF AfterLsof
<1>4. CASE Spawn(c)
  BY <1>4, AwaitFrame DEF Spawn
<1>5. CASE SpawnRefused(c) \/ ListenDone(c) \/ AfterScan3(c)
  BY <1>5, AnswerFrame DEF SpawnRefused, ListenDone, AfterScan3
<1>6. CASE ScanAnswers(c)
  <2>1. Others(c)
    BY <1>6 DEF ScanAnswers, Reads, Others, TypeOK
  <2>2. \/ pc[c] = "scan1" /\ pc'[c] = "scanned1"
        \/ pc[c] = "scan2" /\ pc'[c] = "scanned2"
        \/ pc[c] = "scan3" /\ pc'[c] = "scanned3"
    BY <1>6 DEF ScanAnswers, Scanned, TypeOK
  <2> QED BY <2>1, <2>2
<1>7. CASE AfterScan1(c) \/ AfterScan2(c)
  <2>1. ASSUME NEW at, NextScan(c, at) PROVE Others(c) /\ pc'[c] = at
    BY <2>1 DEF NextScan, Others, TypeOK
  <2> QED BY <1>7, <2>1, AnswerFrame DEF AfterScan1, AfterScan2
<1> QED BY <1>1, <1>2, <1>3, <1>4, <1>5, <1>6, <1>7 DEF Continue

\* A step that is no client's leaves every client where it is.
LEMMA ElseMoves ==
  ASSUME [Next]_vars, \A c \in Clients : ~(Request(c) \/ Continue(c))
  PROVE  /\ UNCHANGED <<reqVars, tracked, signal>>
         /\ \A p \in Children : ProcessRuns(p)' => ProcessRuns(p)
<1>1. ASSUME NEW p \in Children, Process(p)
      PROVE  UNCHANGED <<reqVars, tracked, signal>> /\ \A q \in Children : ProcessRuns(q)' => ProcessRuns(q)
  <2>1. CASE ChildOpensDb(p)
    BY <2>1 DEF ChildOpensDb, ProcessRuns
  <2>2. CASE ChildExits(p)
    BY <2>2 DEF ChildExits, ProcessRuns
  <2>3. CASE ChildClosed(p)
    BY <2>3 DEF ChildClosed, ProcessRuns
  <2> QED BY <1>1, <2>1, <2>2, <2>3 DEF Process
<1>2. ASSUME NEW e \in Externals, External(e)
      PROVE  UNCHANGED <<reqVars, tracked, signal, child>>
  BY <1>2 DEF External, ExternalStarts, ExternalExits, procVars
<1>3. UNCHANGED vars => UNCHANGED <<reqVars, tracked, signal, child>>
  BY DEF vars, procVars
<1> QED BY <1>1, <1>2, <1>3 DEF Next, ProcessRuns

\* Each request passes each of its awaits at most once, for any number of clients.
THEOREM RequestsMakeProgress == Spec => RequestsProgress
<1>1. ASSUME TypeOK, [Next]_vars, NEW c \in Clients, pc[c] # "idle"
      PROVE  \/ pc'[c] = pc[c] /\ op'[c] = op[c]
             \/ Remaining[pc'[c]] < Remaining[pc[c]]
  <2>1. ASSUME NEW d \in Clients, Request(d)
        PROVE  pc'[c] = pc[c] /\ op'[c] = op[c]
    BY <1>1, <2>1, RequestMoves DEF Others
  <2>2. ASSUME NEW d \in Clients, Continue(d)
        PROVE  \/ pc'[c] = pc[c] /\ op'[c] = op[c]
               \/ Remaining[pc'[c]] < Remaining[pc[c]]
    BY <1>1, <2>2, ContinueMoves DEF Others
  <2>3. CASE \A d \in Clients : ~(Request(d) \/ Continue(d))
    BY <1>1, <2>3, ElseMoves DEF reqVars
  <2> QED BY <2>1, <2>2, <2>3
<1>2. ASSUME TypeOK, [Next]_vars
      PROVE  [\A c \in Clients : pc[c] # "idle" =>
                \/ pc'[c] = pc[c] /\ op'[c] = op[c]
                \/ Remaining[pc'[c]] < Remaining[pc[c]]]_vars
  BY <1>1, <1>2
<1> QED BY <1>2, TypeCorrect, PTL DEF Spec, RequestsProgress

LEMMA AfterStopAnswers ==
  ASSUME TypeOK, NEW c \in Clients, NEW r \in Results \ {"alreadyActive"}, AfterStop(c, r)
  PROVE  answer'[c][2] = "alreadyActive" => Open(tracked)
<1>1. ASSUME NEW o, NEW q, Answer(c, o, q) PROVE answer'[c][2] = q
  BY <1>1 DEF Answer, TypeOK
<1>2. ASSUME NEW o, NEW ov, BeginStart(c, o, ov)
      PROVE  answer'[c][2] = "alreadyActive" => Open(tracked)
  BY <1>1, <1>2, AwaitSays DEF BeginStart, Says
<1> QED BY <1>1, <1>2 DEF AfterStop, BeginProfileStart

LEMMA RestartAwaitsCloseStep ==
  ASSUME Invariant, OneController, [Next]_vars, NEW c \in Clients, pc[c] = "close"
  PROVE  /\ pc'[c] = "lsof" => \A p \in Children : child[p] = "closed"
         /\ \A o \in Ops : Answers(c, o, "alreadyActive") /\ ProcessRuns(target[c])
                           => "kill" \in signal'[target[c]]
<1>1. TypeOK /\ Safe
  BY DEF Invariant
<1>2. target[c] = tracked /\ tracked \in Children
  BY <1>1 DEF Safe, StopsTracked, TypeOK
<1>3. ASSUME pc'[c] = "lsof" \/ answer'[c] # answer[c]
      PROVE  CloseSeen(c) \/ CloseTimeout(c)
  <2>1. PICK d \in Clients : Request(d) \/ Continue(d)
    BY <1>3, ElseMoves DEF reqVars
  <2>2. CASE d # c
    <3>1. pc'[c] = pc[c]
      BY <1>1, <2>1, <2>2, RequestMoves, ContinueMoves DEF Others
    <3>2. answer'[c] = answer[c]
      BY <1>1, <2>1, <2>2, RequestSays, ContinueSays DEF Says
    <3> QED BY <1>3, <3>1, <3>2
  <2>3. CASE d = c
    BY <1>1, <2>1, <2>3, RequestMoves
       DEF Continue, LsofAnswers, PsAnswers, AfterLsof, Spawn, SpawnRefused, ListenDone, ScanAnswers,
           Scanned, AfterScan1, AfterScan2, AfterScan3
  <2> QED BY <2>2, <2>3
<1>4. ASSUME pc'[c] = "lsof" PROVE \A p \in Children : child[p] = "closed"
  <2>1. ~Open(tracked)
    BY <1>1, <1>3, <1>4, AfterStopMoves DEF CloseSeen, CloseTimeout
  <2> QED BY <1>1, <2>1, NoneIsNoChild DEF Safe, NoOrphan, Open
<1>5. ASSUME NEW o \in Ops, Answers(c, o, "alreadyActive"), ProcessRuns(target[c])
      PROVE  "kill" \in signal'[target[c]]
  <2>1. answer'[c] # answer[c] /\ Open(tracked)
    BY <1>2, <1>5, NoneIsNoChild DEF Answers, Open, ProcessRuns
  <2>2. CloseTimeout(c)
    BY <1>2, <1>3, <2>1 DEF CloseSeen
  <2> QED BY <1>1, <1>2, <1>5, <2>2, SendFacts DEF CloseTimeout
<1> QED BY <1>4, <1>5

\* With one client that starts nodes, a restart, a toggle or a reconciliation starts the next
\* node over no process at all: behind a stop that was escalated it answers "already active",
\* and then its target has been sent SIGKILL.
THEOREM OneControllerRestartAwaitsClose == OneController => (Spec => RestartAwaitsClose)
<1> SUFFICES ASSUME OneController PROVE Spec => RestartAwaitsClose
  OBVIOUS
<1>1. ASSUME Invariant, [Next]_vars
      PROVE  [\A c \in Clients : pc[c] = "close" =>
                /\ pc'[c] = "lsof" => \A p \in Children : child[p] = "closed"
                /\ \A o \in Ops : Answers(c, o, "alreadyActive") /\ ProcessRuns(target[c])
                                    => "kill" \in signal'[target[c]]]_vars
  BY <1>1, RestartAwaitsCloseStep
<1> QED BY <1>1, InvariantHolds, PTL DEF Spec, RestartAwaitsClose
-----------------------------------------------------------------------------
(***************************************************************************)
(* How many nodes run.  With one client that starts nodes, no more than    *)
(* one.  With several, and tools that tell the truth, no more than         *)
(* clients: the running nodes can be given different clients, each the one *)
(* that spawned it, none of whom stands before another spawn.              *)
(***************************************************************************)
Running == {p \in Children : ProcessRuns(p)}

LEMMA AtMostOneRuns == OneController /\ Invariant => NoSecondNode
<1> SUFFICES ASSUME OneController, Invariant PROVE NoSecondNode
  OBVIOUS
<1>1. Running \subseteq {tracked}
  BY NoneIsNoChild DEF Running, Invariant, Safe, NoOrphan, Open, ProcessRuns
<1>2. IsFiniteSet({tracked}) /\ Cardinality({tracked}) = 1
  BY FS_Singleton
<1>3. Cardinality(Running) <= 1
  BY <1>1, <1>2, FS_Subset
<1> QED BY <1>3 DEF NoSecondNode, Running

\* With one client that starts nodes, no second node is started against the database, even if
\* lsof and ps fail.
THEOREM OneControllerNoSecondNode == OneController => (Spec => []NoSecondNode)
<1> SUFFICES ASSUME OneController PROVE Spec => []NoSecondNode
  OBVIOUS
<1>1. Invariant => NoSecondNode
  BY AtMostOneRuns
<1> QED BY <1>1, InvariantHolds, PTL

\* The next step of the client may spawn.
MaySpawn(c) == pc[c] = "psDone" /\ seen[c] = {}

\* f gives every running node a client of its own that may not spawn now.
Accounts(f) ==
  /\ f \in [Running -> Controllers]
  /\ \A p, q \in Running : f[p] = f[q] => p = q
  /\ \A p \in Running : ~MaySpawn(f[p])

Accounted == \E f : Accounts(f)

Counted == TypeOK /\ StopperStops /\ (ToolsMayFail = FALSE => Accounted)

LEMMA StopperStopsStep ==
  ASSUME TypeOK, StopperStops, [Next]_vars
  PROVE  StopperStops'
<1> SUFFICES ASSUME NEW s \in Stoppers
             PROVE  pc'[s] \in {"idle", "close"} /\ (pc'[s] = "close" => op'[s] = "stop")
  BY DEF StopperStops
<1>1. s \in Clients /\ s \notin Controllers
  BY RolesDiffer DEF Clients
<1>2. ASSUME NEW d \in Clients, Request(d) \/ Continue(d), d # s
      PROVE  pc'[s] = pc[s] /\ op'[s] = op[s]
  BY <1>1, <1>2, RequestMoves, ContinueMoves DEF Others
<1>3. CASE Request(s)
  <2>1. RequestStop(s)
    BY <1>1, <1>3 DEF Request
  <2> QED BY <2>1, <1>1, AnswerFrame, AwaitFrame DEF RequestStop, BeginStop
<1>4. CASE Continue(s)
  <2>1. pc'[s] \in Labels
    BY <1>1, <1>4, ContinueType DEF TypeOK
  <2>2. Remaining[pc'[s]] \in Nat
    BY <2>1 DEF Remaining, Labels, StartWindow, KillWindow
  <2>3. Remaining["idle"] = 0
    BY DEF Remaining
  <2>4. pc[s] # "idle"
    BY <1>1, <1>4, <2>2, <2>3, ContinueMoves
  <2> QED BY <1>1, <1>4, <2>4, ContinueMoves DEF StopperStops
<1>5. CASE \A d \in Clients : ~(Request(d) \/ Continue(d))
  BY <1>1, <1>5, ElseMoves DEF reqVars, StopperStops
<1> QED BY <1>2, <1>3, <1>4, <1>5 DEF StopperStops

\* A step that starts no node, and after which no client is about to spawn that was not before.
LEMMA FewerAccounted ==
  ASSUME Accounted, Running' \subseteq Running, \A c \in Controllers : MaySpawn(c)' => MaySpawn(c)
  PROVE  Accounted'
<1>1. PICK f : Accounts(f)
  BY DEF Accounted
<1>0. PICK g : g = [p \in Running' |-> f[p]]
  OBVIOUS
<1>2. g \in [Running' -> Controllers]
  BY <1>0, <1>1 DEF Accounts
<1>3. \A p, q \in Running' : g[p] = g[q] => p = q
  BY <1>0, <1>1 DEF Accounts
<1>4. \A p \in Running' : ~MaySpawn(g[p])'
  BY <1>0, <1>1, <1>2 DEF Accounts
<1>5. Accounts(g)'
  BY <1>2, <1>3, <1>4 DEF Accounts
<1> QED BY <1>5 DEF Accounted

LEMMA PsAccounted ==
  ASSUME TypeOK, ToolsMayFail = FALSE, Accounted, NEW c \in Clients, PsAnswers(c)
  PROVE  Accounted'
<1>1. Running' = Running
  BY DEF PsAnswers, procVars, Running, ProcessRuns
<1>2. CASE Running = {}
  <2>0. PICK g : g = [p \in Running' |-> c]
    OBVIOUS
  <2>1. g \in [Running' -> Controllers] /\ Running' = {}
    BY <1>1, <1>2, <2>0
  <2>2. Accounts(g)'
    BY <2>1 DEF Accounts
  <2> QED BY <2>2 DEF Accounted
<1>3. CASE Running # {}
  <2>1. NodeProcesses # {}
    BY <1>3 DEF NodeProcesses, Running
  <2>2. seen' = [seen EXCEPT ![c] = NodeProcesses] /\ pc' = [pc EXCEPT ![c] = "psDone"]
    BY DEF PsAnswers, Reads
  <2>3. \A d \in Clients : MaySpawn(d)' => MaySpawn(d)
    BY <2>1, <2>2 DEF MaySpawn, TypeOK
  <2> QED BY <1>1, <2>3, FewerAccounted DEF Clients
<1> QED BY <1>2, <1>3

LEMMA SpawnAccounted ==
  ASSUME TypeOK, StopperStops, Accounted, NEW c \in Clients, Spawn(c)
  PROVE  Accounted'
<1>1. PICK f : Accounts(f)
  BY DEF Accounted
<1>2. PICK p \in Children : /\ child[p] = "closed"
                            /\ child' = [child EXCEPT ![p] = "starting"]
                            /\ Await(c, op[c], "listen", p, NoOverride)
  BY DEF Spawn, Fresh
<1>3. Running' = Running \cup {p} /\ p \notin Running
  BY <1>2 DEF Running, ProcessRuns, TypeOK
<1>4. c \in Controllers /\ MaySpawn(c)
  BY DEF Spawn, StopperStops, Clients, MaySpawn
<1>5. \A d \in Clients : MaySpawn(d)' => MaySpawn(d) /\ d # c
  BY <1>2, AwaitFrame DEF Others, MaySpawn
<1>0. PICK g : g = [q \in Running' |-> IF q = p THEN c ELSE f[q]]
  OBVIOUS
<1>6. g \in [Running' -> Controllers]
  BY <1>0, <1>1, <1>3, <1>4 DEF Accounts
<1>7. \A q, r \in Running' : g[q] = g[r] => q = r
  BY <1>0, <1>1, <1>3, <1>4 DEF Accounts
<1>8. \A q \in Running' : ~MaySpawn(g[q])'
  BY <1>0, <1>1, <1>3, <1>4, <1>5, <1>6 DEF Accounts, Clients
<1>9. Accounts(g)'
  BY <1>6, <1>7, <1>8 DEF Accounts
<1> QED BY <1>9 DEF Accounted

LEMMA AccountedStep ==
  ASSUME TypeOK, StopperStops, ToolsMayFail = FALSE, Accounted, [Next]_vars
  PROVE  Accounted'
<1>1. ASSUME NEW c \in Clients, Request(c) PROVE Accounted'
  <2>1. UNCHANGED child
    BY <1>1 DEF Request, RequestStop, RequestStart, RequestRestart, RequestToggle, RequestReconcile,
                RequestKillConflict, procVars
  <2>2. \A d \in Clients : MaySpawn(d)' => MaySpawn(d)
    BY <1>1, RequestMoves DEF Others, MaySpawn
  <2> QED BY <2>1, <2>2, FewerAccounted DEF Running, ProcessRuns, Clients
<1>2. ASSUME NEW c \in Clients, Continue(c), ~Spawn(c), ~PsAnswers(c) PROVE Accounted'
  <2>1. UNCHANGED child
    BY <1>2, ClientKeeps
  <2>2. \A d \in Clients : MaySpawn(d)' => MaySpawn(d)
    BY <1>2, ContinueMoves DEF Others, MaySpawn
  <2> QED BY <2>1, <2>2, FewerAccounted DEF Running, ProcessRuns, Clients
<1>3. CASE \A c \in Clients : ~(Request(c) \/ Continue(c))
  <2>1. UNCHANGED <<pc, seen>> /\ Running' \subseteq Running
    BY <1>3, ElseMoves DEF reqVars, Running
  <2> QED BY <2>1, FewerAccounted DEF MaySpawn
<1> QED BY <1>1, <1>2, <1>3, PsAccounted, SpawnAccounted

LEMMA InitCounted == Init => Counted
<1> SUFFICES ASSUME Init PROVE Counted
  OBVIOUS
<1>1. TypeOK /\ StopperStops
  BY InitType, InitSafe DEF Safe
<1>2. Running = {}
  BY DEF Init, Running, ProcessRuns
<1>3. PICK g : g = [p \in Running |-> None]
  OBVIOUS
<1>4. g \in [Running -> Controllers]
  BY <1>2, <1>3
<1>5. Accounts(g)
  BY <1>2, <1>4 DEF Accounts
<1> QED BY <1>1, <1>5 DEF Counted, Accounted

LEMMA CountedStep == Counted /\ [Next]_vars => Counted'
<1> SUFFICES ASSUME Counted, [Next]_vars PROVE Counted'
  OBVIOUS
<1>1. TypeOK'
  BY RequestType, ContinueType, ProcessType DEF Counted, Next, vars, procVars, reqVars, TypeOK
<1>2. StopperStops'
  BY StopperStopsStep DEF Counted
<1>3. ToolsMayFail = FALSE => Accounted'
  BY AccountedStep DEF Counted
<1> QED BY <1>1, <1>2, <1>3 DEF Counted

LEMMA CountedIsBounded ==
  ASSUME IsFiniteSet(Controllers), ToolsMayFail = FALSE, Counted
  PROVE  NodesBounded
<1>1. PICK f : Accounts(f)
  BY DEF Counted, Accounted
<1>2. f \in Injection(Running, Controllers)
  BY <1>1 DEF Accounts, Injection, IsInjective
<1>3. Cardinality(Running) <= Cardinality(Controllers)
  BY <1>2, FS_Injection
<1> QED BY <1>3 DEF NodesBounded, Running

\* While lsof and ps tell the truth, at most as many nodes run as clients can start one: each
\* of the start requests that race past the same empty ps adds one node, and none of their
\* clients adds another before it has seen that a node runs.
THEOREM NodesAreBounded ==
  IsFiniteSet(Controllers) /\ ToolsMayFail = FALSE => (Spec => []NodesBounded)
<1> SUFFICES ASSUME IsFiniteSet(Controllers), ToolsMayFail = FALSE PROVE Spec => []NodesBounded
  OBVIOUS
<1>1. Counted => NodesBounded
  BY CountedIsBounded
<1> QED BY <1>1, InitCounted, CountedStep, PTL DEF Spec
=============================================================================
