------------------------ MODULE ChainWatchdog_proofs ------------------------
(***************************************************************************)
(* Proofs about ChainWatchdog for all thresholds, cooldowns and heights.   *)
(*                                                                         *)
(* Tracks relates each restart state to what was observed, OneSide keeps   *)
(* the auto-disable apart from the recoveries of a tick, and Armed relates *)
(* config.yml to the flag that stops the auto-disable.                     *)
(***************************************************************************)
EXTENDS ChainWatchdog, TLAPS

\* The constants, one by one, and the states that start over.
LEMMA Bounds ==
  /\ MaxHeight \in Nat /\ Slack \in Nat /\ MinStall \in Nat /\ MinNoPeers \in Nat
  /\ Cooldown \in Nat
  /\ Null \notin Nat
  /\ NewChain \in [count : 0..MinStall, seen : Heads, age : 0..Cooldown]
  /\ NewP2p \in [count : 0..MinNoPeers, age : 0..Cooldown]
<1>1. /\ MaxHeight \in Nat /\ Slack \in Nat /\ MinStall \in Nat /\ MinNoPeers \in Nat
      /\ Cooldown \in Nat
      /\ Null \notin Nat
  BY BoundsAreNat, NullIsNoHeight
<1>2. 0 \in 0..MinStall /\ 0 \in 0..MinNoPeers /\ Cooldown \in 0..Cooldown
  BY <1>1
<1> QED BY <1>1, <1>2 DEF NewChain, NewP2p, Heads

\* Ages stay in range.
LEMMA OlderInRange ==
  ASSUME NEW age \in 0..Cooldown PROVE Older(age) \in 0..Cooldown
BY Bounds DEF Older, AtMost

-----------------------------------------------------------------------------
\* Types

\* What the decisions of chain-sync.ts return.
LEMMA EvaluationTypes ==
  ASSUME NEW s \in [count : 0..MinStall, seen : Heads, age : 0..Cooldown],
         NEW l \in Heads, NEW p \in Heads
  PROVE  /\ EvaluateAutoRestart(s, l, p) \in [count : 0..MinStall, seen : Heads, age : 0..Cooldown]
         /\ Stalls(s, l) \in 0..MinStall
         /\ HeightOf(l) \in Heights
BY Bounds
   DEF EvaluateAutoRestart, Stalls, AtMost, HeightOf, Heads, Heights

LEMMA PeerEvaluationTypes ==
  ASSUME NEW s \in [count : 0..MinNoPeers, age : 0..Cooldown], NEW none \in BOOLEAN
  PROVE  EvaluateP2pRestart(s, none) \in [count : 0..MinNoPeers, age : 0..Cooldown]
BY Bounds DEF EvaluateP2pRestart, AtMost

LEMMA TypesTick ==
  ASSUME WatchdogTypeOK, NEW l \in Heads, NEW p \in Heads, NEW healthy \in BOOLEAN,
         Tick(l, p, healthy)
  PROVE  WatchdogTypeOK'
<1> DEFINE aged == [chain EXCEPT !.age = Older(@)]
<1>1. aged \in [count : 0..MinStall, seen : Heads, age : 0..Cooldown]
  BY OlderInRange DEF WatchdogTypeOK
<1>2. /\ chain' = EvaluateAutoRestart(aged, l, p)
      /\ stall' \in {"idle", "asked"}
      /\ sinceStall' \in {0, Older(sinceStall)}
  BY DEF Tick
<1>3. chain' \in [count : 0..MinStall, seen : Heads, age : 0..Cooldown]
  BY <1>1, <1>2, EvaluationTypes
<1>4. p2p' \in [count : 0..MinNoPeers, age : 0..Cooldown] /\ zeroSeen' \in 0..MinNoPeers
  <2>1. NewP2p \in [count : 0..MinNoPeers, age : 0..Cooldown] /\ 0 \in 0..MinNoPeers
    BY Bounds DEF NewP2p
  <2>2. [p2p EXCEPT !.age = Older(@)] \in [count : 0..MinNoPeers, age : 0..Cooldown]
    BY OlderInRange DEF WatchdogTypeOK
  <2> QED BY <2>1, <2>2 DEF Tick, WatchdogTypeOK
<1>5. sinceStall' \in 0..Cooldown
  BY <1>2, OlderInRange, Bounds DEF Tick, WatchdogTypeOK
<1>6. head' \in Heads /\ steady' \in 0..MinStall /\ caughtUp' \in BOOLEAN
  BY Bounds DEF Tick, Observe, WatchdogTypeOK, AtMost, WithinVerifyGap
<1>7. /\ disable' \in {"idle", "asked", "synced"} /\ merkle' \in {"idle", "logs"}
      /\ peers' \in {"idle", "asked"} /\ requested' = {} /\ UNCHANGED <<verify, done, restored>>
  BY DEF Tick
<1> QED BY <1>2, <1>3, <1>4, <1>5, <1>6, <1>7 DEF WatchdogTypeOK

LEMMA TypesTasks == WatchdogTypeOK /\ Tasks => WatchdogTypeOK'
<1> SUFFICES ASSUME WatchdogTypeOK, Tasks PROVE WatchdogTypeOK'
  OBVIOUS
<1> USE DEF WatchdogTypeOK, refs, observed, Request, Causes
<1>1. CASE DisableGet
  BY <1>1 DEF DisableGet
<1>2. CASE DisableSet \/ DisableWritten
  BY <1>2 DEF DisableSet, DisableWritten
<1>3. CASE MerkleLogs \/ MerkleGet
  BY <1>3 DEF MerkleLogs, MerkleGet
<1>4. CASE MerkleSet
  BY <1>4 DEF MerkleSet
<1>5. CASE MerkleWritten
  <2>1. /\ chain' \in [count : 0..MinStall, seen : Heads, age : 0..Cooldown]
        /\ p2p' \in [count : 0..MinNoPeers, age : 0..Cooldown]
        /\ sinceStall' \in 0..Cooldown
    BY <1>5, Bounds DEF MerkleWritten
  <2> QED BY <1>5, <2>1 DEF MerkleWritten
<1>6. ASSUME NEW answer \in {"some", "none", "failed"}, PeersAnswer(answer) PROVE WatchdogTypeOK'
  <2>1. p2p' \in [count : 0..MinNoPeers, age : 0..Cooldown]
    BY <1>6, PeerEvaluationTypes DEF PeersAnswer
  <2>2. zeroSeen' \in 0..MinNoPeers
    BY <1>6, Bounds DEF PeersAnswer, AtMost
  <2>3. requested' \in {requested, requested \cup {"peers"}}
    BY <1>6 DEF PeersAnswer
  <2>4. requested' \subseteq Causes
    BY <2>3
  <2> QED BY <1>6, <2>1, <2>2, <2>4 DEF PeersAnswer
<1>7. CASE StallGet \/ StallSet \/ StallWritten
  BY <1>7 DEF StallGet, StallSet, StallWritten
<1> QED BY <1>1, <1>2, <1>3, <1>4, <1>5, <1>6, <1>7 DEF Tasks

LEMMA TypesStep == WatchdogTypeOK /\ [WatchdogNext]_vars => WatchdogTypeOK'
<1> SUFFICES ASSUME WatchdogTypeOK, [WatchdogNext]_vars PROVE WatchdogTypeOK'
  OBVIOUS
<1>1. CASE Ticks
  BY <1>1, TypesTick DEF Ticks
<1>2. CASE Pause
  <2>1. /\ chain' \in [count : 0..MinStall, seen : Heads, age : 0..Cooldown]
        /\ p2p' \in [count : 0..MinNoPeers, age : 0..Cooldown]
        /\ sinceStall' \in 0..Cooldown
    BY <1>2, OlderInRange DEF Pause, WatchdogTypeOK
  <2> QED BY <1>2, <2>1 DEF Pause, WatchdogTypeOK, tasks
<1>3. CASE Tasks
  BY <1>3, TypesTasks
<1>4. CASE RestoreEnables
  BY <1>4 DEF RestoreEnables, WatchdogTypeOK, tasks, observed
<1>5. CASE UNCHANGED vars
  BY <1>5 DEF vars, refs, tasks, observed, WatchdogTypeOK
<1> QED BY <1>1, <1>2, <1>3, <1>4, <1>5 DEF WatchdogNext

LEMMA TypesInit == WatchdogInit => WatchdogTypeOK
<1> SUFFICES ASSUME WatchdogInit PROVE WatchdogTypeOK
  OBVIOUS
<1>1. /\ chain \in [count : 0..MinStall, seen : Heads, age : 0..Cooldown]
      /\ p2p \in [count : 0..MinNoPeers, age : 0..Cooldown]
  BY Bounds DEF WatchdogInit
<1>2. /\ sinceStall \in 0..Cooldown
      /\ head \in Heads /\ steady \in 0..MinStall /\ zeroSeen \in 0..MinNoPeers
  BY Bounds DEF WatchdogInit, Heads
<1> QED BY <1>1, <1>2 DEF WatchdogInit, WatchdogTypeOK

\* Every variable keeps its type.
THEOREM WatchdogTypes == WatchdogSpec => []WatchdogTypeOK
BY TypesInit, TypesStep, PTL DEF WatchdogSpec

-----------------------------------------------------------------------------
\* The restart state of the chain and what was observed of it.

Tracks ==
  /\ chain.age <= sinceStall
  /\ chain.count <= steady
  /\ chain.seen = Null \/ chain.seen = HeightOf(head)
  /\ stall = "asked" => steady >= MinStall

LEMMA TracksTick ==
  ASSUME WatchdogTypeOK, Tracks,
         NEW l \in Heads, NEW p \in Heads, NEW healthy \in BOOLEAN, Tick(l, p, healthy)
  PROVE  /\ Tracks'
         /\ stall' = "asked" => Older(sinceStall) >= Cooldown
<1> DEFINE aged == [chain EXCEPT !.age = Older(@)]
<1>1. aged.age <= Older(sinceStall) /\ aged.count = chain.count /\ aged.seen = chain.seen
  BY Bounds DEF Tracks, WatchdogTypeOK, Older, AtMost
<1>2. /\ chain' = EvaluateAutoRestart(aged, l, p)
      /\ stall' = IF ChainRestarts(aged, l, p) THEN "asked" ELSE "idle"
      /\ sinceStall' = IF ChainRestarts(aged, l, p) THEN 0 ELSE Older(sinceStall)
      /\ head' = l
      /\ steady' = IF l # Null /\ head # Null /\ l > head + Slack THEN 0
                   ELSE AtMost(steady + 1, MinStall)
  BY DEF Tick, Observe
<1>3. l # Null => Stalls(aged, l) <= steady'
  BY <1>1, <1>2, Bounds
     DEF Stalls, Tracks, HeightOf, AtMost, WatchdogTypeOK, Heads, Heights
<1>4. chain'.age <= sinceStall' /\ (stall' = "asked" => Older(sinceStall) >= Cooldown)
  BY <1>1, <1>2, OlderInRange, Bounds
     DEF EvaluateAutoRestart, ChainRestarts, WatchdogTypeOK, Older, AtMost
<1>5. chain'.count <= steady' /\ (stall' = "asked" => steady' >= MinStall)
  <2>0. aged \in [count : 0..MinStall, seen : Heads, age : 0..Cooldown]
    BY OlderInRange DEF WatchdogTypeOK
  <2>1. steady' \in 0..MinStall
    BY <1>2, Bounds DEF WatchdogTypeOK, AtMost
  <2>2. CASE ChainLags(l, p)
    <3>1. Stalls(aged, l) <= steady'
      BY <1>3, <2>2 DEF ChainLags
    <3>2. Stalls(aged, l) \in 0..MinStall
      BY <2>0, EvaluationTypes
    <3>3. CASE ChainRestarts(aged, l, p)
      BY <1>2, <2>1, <3>1, <3>2, <3>3, Bounds DEF ChainRestarts, EvaluateAutoRestart
    <3>4. CASE ~ChainRestarts(aged, l, p)
      BY <1>2, <2>1, <2>2, <3>1, <3>4 DEF EvaluateAutoRestart
    <3> QED BY <3>3, <3>4
  <2>3. CASE ~ChainLags(l, p)
    BY <1>2, <2>1, <2>3, Bounds DEF ChainRestarts, EvaluateAutoRestart
  <2> QED BY <2>2, <2>3
<1>6. chain'.seen = HeightOf(head')
  BY <1>2 DEF EvaluateAutoRestart
<1> QED BY <1>4, <1>5, <1>6 DEF Tracks

LEMMA TracksStep == WatchdogTypeOK /\ Tracks /\ [WatchdogNext]_vars => Tracks'
<1> SUFFICES ASSUME WatchdogTypeOK, Tracks, [WatchdogNext]_vars PROVE Tracks'
  OBVIOUS
<1> USE DEF refs, tasks, observed
<1>1. CASE Ticks
  BY <1>1, TracksTick DEF Ticks
<1>2. CASE Pause
  BY <1>2, Bounds DEF Pause, Tracks, WatchdogTypeOK, Older, AtMost, TasksDone
<1>3. CASE DisableGet \/ DisableSet \/ DisableWritten
  BY <1>3 DEF DisableGet, DisableSet, DisableWritten, Tracks
<1>4. CASE MerkleLogs \/ MerkleGet \/ MerkleSet
  BY <1>4 DEF MerkleLogs, MerkleGet, MerkleSet, Tracks
<1>5. CASE MerkleWritten
  BY <1>5, Bounds DEF MerkleWritten, NewChain, Tracks, WatchdogTypeOK
<1>6. ASSUME NEW answer \in {"some", "none", "failed"}, PeersAnswer(answer) PROVE Tracks'
  BY <1>6 DEF PeersAnswer, Tracks
<1>7. CASE StallGet \/ StallSet \/ StallWritten
  BY <1>7 DEF StallGet, StallSet, StallWritten, Tracks
<1>8. CASE RestoreEnables \/ UNCHANGED vars
  BY <1>8 DEF RestoreEnables, vars, Tracks
<1> QED BY <1>1, <1>2, <1>3, <1>4, <1>5, <1>6, <1>7, <1>8 DEF WatchdogNext, Tasks

LEMMA TracksInit == WatchdogInit => WatchdogTypeOK /\ Tracks
<1> SUFFICES ASSUME WatchdogInit PROVE WatchdogTypeOK /\ Tracks
  OBVIOUS
<1>1. WatchdogTypeOK
  BY TypesInit
<1>2. Tracks
  BY Bounds DEF WatchdogInit, Tracks, NewChain
<1> QED BY <1>1, <1>2

\* A growing chain is never restarted as stalled: the stall count never exceeds the
\* number of ticks without growth, whatever heads are missing in between.
THEOREM AdvancingChainLeftAlone == WatchdogSpec => []AdvancingLeftAlone
<1>1. Tracks => AdvancingLeftAlone
  BY DEF Tracks, AdvancingLeftAlone
<1> QED BY TracksInit, TypesStep, TracksStep, <1>1, PTL DEF WatchdogSpec

\* Two restarts of a stalled chain are a cooldown apart.
THEOREM StallRestartsAreSpaced == WatchdogSpec => StallRestartsSpaced
<1>1. ASSUME WatchdogTypeOK, Tracks, [WatchdogNext]_vars
      PROVE  [stall # "asked" /\ stall' = "asked" => Older(sinceStall) >= Cooldown]_vars
  <2>1. CASE Ticks
    BY <1>1, <2>1, TracksTick DEF Ticks
  <2>2. CASE Pause \/ Tasks \/ RestoreEnables \/ UNCHANGED vars
    BY <2>2 DEF Pause, Tasks, RestoreEnables, vars, refs, tasks, DisableGet, DisableSet,
                DisableWritten, MerkleLogs, MerkleGet, MerkleSet, MerkleWritten, PeersAnswer,
                StallGet, StallSet, StallWritten
  <2> QED BY <1>1, <2>1, <2>2 DEF WatchdogNext
<1> QED BY TracksInit, TypesStep, TracksStep, <1>1, PTL DEF WatchdogSpec, StallRestartsSpaced

-----------------------------------------------------------------------------
\* The restart state of the network layer and the answers it comes from.

TracksPeers ==
  /\ p2p.count <= zeroSeen
  /\ peers = "asked" => "peers" \notin requested
  /\ "peers" \in requested => zeroSeen >= MinNoPeers

LEMMA TracksPeersAnswer ==
  ASSUME WatchdogTypeOK, TracksPeers,
         NEW answer \in {"some", "none", "failed"}, PeersAnswer(answer)
  PROVE  TracksPeers'
<1> DEFINE none == answer # "some"
<1>1. /\ peers = "asked" /\ peers' = "idle"
      /\ p2p' = EvaluateP2pRestart(p2p, none)
      /\ zeroSeen' = IF none THEN AtMost(zeroSeen + 1, MinNoPeers) ELSE 0
      /\ requested' = IF P2pRestarts(p2p, none) THEN requested \cup {"peers"} ELSE requested
  BY DEF PeersAnswer, Request
<1>2. p2p.count \in 0..MinNoPeers /\ zeroSeen \in 0..MinNoPeers
  BY DEF WatchdogTypeOK
<1>3. CASE none
  <2>1. zeroSeen' = AtMost(zeroSeen + 1, MinNoPeers) /\ zeroSeen' >= zeroSeen
    BY <1>1, <1>2, <1>3, Bounds DEF AtMost
  <2>2. P2pRestarts(p2p, none) => zeroSeen' >= MinNoPeers
    BY <1>2, <2>1, Bounds DEF P2pRestarts, AtMost, TracksPeers
  <2>3. p2p'.count <= zeroSeen'
    BY <1>1, <1>2, <2>1, Bounds DEF EvaluateP2pRestart, AtMost, TracksPeers
  <2>4. "peers" \in requested' => zeroSeen' >= MinNoPeers
    BY <1>1, <1>2, <2>1, <2>2, Bounds DEF TracksPeers
  <2> QED BY <1>1, <2>3, <2>4 DEF TracksPeers
<1>4. CASE ~none
  BY <1>1, <1>4 DEF EvaluateP2pRestart, P2pRestarts, TracksPeers
<1> QED BY <1>3, <1>4

LEMMA TracksPeersStep ==
  WatchdogTypeOK /\ TracksPeers /\ [WatchdogNext]_vars => TracksPeers'
<1> SUFFICES ASSUME WatchdogTypeOK, TracksPeers, [WatchdogNext]_vars PROVE TracksPeers'
  OBVIOUS
<1> USE DEF refs, tasks, observed, Request
<1>1. CASE Ticks
  BY <1>1, Bounds DEF Ticks, Tick, NewP2p, TracksPeers, WatchdogTypeOK
<1>2. CASE Pause
  BY <1>2 DEF Pause, TracksPeers, WatchdogTypeOK
<1>3. CASE DisableGet \/ DisableSet \/ DisableWritten
  BY <1>3 DEF DisableGet, DisableSet, DisableWritten, TracksPeers
<1>4. CASE MerkleLogs \/ MerkleGet \/ MerkleSet
  BY <1>4 DEF MerkleLogs, MerkleGet, MerkleSet, TracksPeers
<1>5. CASE MerkleWritten
  BY <1>5, Bounds DEF MerkleWritten, NewP2p, TracksPeers, WatchdogTypeOK
<1>6. ASSUME NEW answer \in {"some", "none", "failed"}, PeersAnswer(answer) PROVE TracksPeers'
  BY <1>6, TracksPeersAnswer
<1>7. CASE StallGet \/ StallSet \/ StallWritten
  BY <1>7 DEF StallGet, StallSet, StallWritten, TracksPeers
<1>8. CASE RestoreEnables \/ UNCHANGED vars
  BY <1>8 DEF RestoreEnables, vars, TracksPeers
<1> QED BY <1>1, <1>2, <1>3, <1>4, <1>5, <1>6, <1>7, <1>8 DEF WatchdogNext, Tasks

\* A network layer that reports peers is left alone: the count of evaluateP2pRestart
\* never exceeds the number of answers in a row that listed none.
THEOREM PeersAreLeftAlone == WatchdogSpec => []PeersLeftAlone
<1>1. WatchdogInit => WatchdogTypeOK /\ TracksPeers
  BY TypesInit, Bounds DEF WatchdogInit, NewP2p, TracksPeers
<1>2. TracksPeers => PeersLeftAlone
  BY DEF TracksPeers, PeersLeftAlone
<1> QED BY <1>1, TypesStep, TracksPeersStep, <1>2, PTL DEF WatchdogSpec

-----------------------------------------------------------------------------
\* The auto-disable and the recoveries of a tick exclude each other: a gap that lets
\* verify-blocks go off is no gap for any of them.

Disabling == disable \in {"synced", "setting", "written"} \/ "disable" \in requested
Recovering == merkle # "idle" \/ peers # "idle" \/ stall # "idle"

OneSide ==
  /\ Disabling => ~Recovering /\ requested \subseteq {"disable"}
  /\ disable \in {"idle", "asked", "synced", "setting", "written"}

LEMMA CaughtUpIsNoGap ==
  ASSUME NEW l \in Heads, NEW p \in Heads, WithinVerifyGap(l, p)
  PROVE  ~SyncGapExists(l, p) /\ ~ChainLags(l, p)
BY Bounds, GapsAreOrdered
   DEF WithinVerifyGap, SyncGapExists, ChainLags, HeightOf, Heads, Heights

LEMMA OneSideStep == OneSide /\ [WatchdogNext]_vars => OneSide'
<1> SUFFICES ASSUME OneSide, [WatchdogNext]_vars PROVE OneSide'
  OBVIOUS
<1> USE DEF OneSide, Disabling, Recovering, refs, tasks, observed, Request
<1>1. ASSUME NEW l \in Heads, NEW p \in Heads, NEW healthy \in BOOLEAN, Tick(l, p, healthy)
      PROVE  OneSide'
  <2>1. CASE WithinVerifyGap(l, p)
    BY <1>1, <2>1, CaughtUpIsNoGap DEF Tick, ChainRestarts
  <2>2. CASE ~WithinVerifyGap(l, p)
    BY <1>1, <2>2 DEF Tick
  <2> QED BY <2>1, <2>2
<1>2. CASE Pause
  BY <1>2 DEF Pause, TasksDone
<1>3. CASE DisableGet \/ DisableSet \/ DisableWritten
  BY <1>3 DEF DisableGet, DisableSet, DisableWritten
<1>4. CASE MerkleLogs \/ MerkleGet \/ MerkleSet \/ MerkleWritten
  BY <1>4 DEF MerkleLogs, MerkleGet, MerkleSet, MerkleWritten
<1>5. ASSUME NEW answer \in {"some", "none", "failed"}, PeersAnswer(answer) PROVE OneSide'
  BY <1>5 DEF PeersAnswer
<1>6. CASE StallGet \/ StallSet \/ StallWritten
  BY <1>6 DEF StallGet, StallSet, StallWritten
<1>7. CASE RestoreEnables \/ UNCHANGED vars
  BY <1>7 DEF RestoreEnables, vars
<1> QED BY <1>1, <1>2, <1>3, <1>4, <1>5, <1>6, <1>7 DEF WatchdogNext, Ticks, Tasks

\* No tick restarts the node both to switch verify-blocks off and to recover.
THEOREM DisableIsAlone == WatchdogSpec => []DisableAlone
<1>1. WatchdogInit => OneSide
  BY DEF WatchdogInit, OneSide, Disabling, Recovering
<1>2. OneSide => DisableAlone
  BY DEF OneSide, Disabling, DisableAlone
<1> QED BY <1>1, OneSideStep, <1>2, PTL DEF WatchdogSpec

-----------------------------------------------------------------------------
\* The flag and config.yml: what switches verify-blocks on arms the auto-disable again.

Armed ==
  /\ done /\ verify = "on" /\ ~restored => merkle = "written" \/ stall = "written"
  /\ disable = "written" /\ ~restored => verify = "off"

LEMMA ArmedStep == OneSide /\ Armed /\ [WatchdogNext]_vars => Armed'
<1> SUFFICES ASSUME OneSide, Armed, [WatchdogNext]_vars PROVE Armed'
  OBVIOUS
<1> USE DEF Armed, refs, tasks, observed
<1>1. CASE Ticks \/ Pause
  BY <1>1 DEF Ticks, Tick, Pause, TasksDone
<1>2. CASE DisableGet
  <2>1. done' => done \/ verify = "off"
    BY <1>2, Zenon DEF DisableGet
  <2>2. disable' # "written"
    BY <1>2 DEF DisableGet
  <2> QED BY <1>2, <2>1, <2>2 DEF DisableGet
<1>7. CASE DisableSet \/ DisableWritten
  BY <1>7 DEF DisableSet, DisableWritten
<1>3. CASE MerkleLogs \/ MerkleGet \/ MerkleSet \/ MerkleWritten
  BY <1>3 DEF MerkleLogs, MerkleGet, MerkleSet, MerkleWritten, OneSide, Disabling, Recovering
<1>4. ASSUME NEW answer \in {"some", "none", "failed"}, PeersAnswer(answer) PROVE Armed'
  BY <1>4 DEF PeersAnswer
<1>5. CASE StallGet \/ StallSet \/ StallWritten
  BY <1>5 DEF StallGet, StallSet, StallWritten, OneSide, Disabling, Recovering
<1>6. CASE RestoreEnables
  BY <1>6 DEF RestoreEnables
<1>8. CASE UNCHANGED vars
  BY <1>8 DEF vars
<1> QED BY <1>1, <1>2, <1>3, <1>4, <1>5, <1>6, <1>7, <1>8 DEF WatchdogNext, Tasks

\* As long as no restore but only the watchdog switches verify-blocks on, it stays armed to
\* switch it off again.
THEOREM DoneIsOff == WatchdogSpec => []DoneMeansOff
<1>1. WatchdogInit => OneSide /\ Armed
  BY DEF WatchdogInit, OneSide, Disabling, Recovering, Armed
<1>2. OneSide /\ Armed /\ [WatchdogNext]_vars => (OneSide /\ Armed)'
  BY OneSideStep, ArmedStep
<1>3. OneSide /\ Armed => DoneMeansOff
  BY DEF Armed, DoneMeansOff
<1> QED BY <1>1, <1>2, <1>3, PTL DEF WatchdogSpec
-----------------------------------------------------------------------------
\* What the tasks of a tick do to verify-blocks is what that tick decided from the gap.

Decided ==
  /\ caughtUp = TRUE => ~Recovering
  /\ disable \in {"synced", "setting", "written"} => caughtUp = TRUE

LEMMA DecidedStep ==
  WatchdogTypeOK /\ Decided /\ [WatchdogNext]_vars => Decided'
<1> SUFFICES ASSUME WatchdogTypeOK, Decided, [WatchdogNext]_vars PROVE Decided'
  OBVIOUS
<1> USE DEF Decided, Recovering, refs, tasks, observed, Request
<1>1. ASSUME NEW l \in Heads, NEW p \in Heads, NEW healthy \in BOOLEAN, Tick(l, p, healthy)
      PROVE  Decided'
  <2>1. CASE WithinVerifyGap(l, p)
    <3>1. ~SyncGapExists(l, p) /\ \A s : ~ChainRestarts(s, l, p)
      BY <2>1, CaughtUpIsNoGap DEF ChainRestarts
    <3>2. merkle' = "idle" /\ peers' = "idle" /\ stall' = "idle"
      BY <1>1, <3>1 DEF Tick
    <3>3. caughtUp' = TRUE
      BY <1>1, <2>1 DEF Tick, Observe, WithinVerifyGap
    <3> QED BY <3>2, <3>3
  <2>2. CASE ~WithinVerifyGap(l, p)
    <3>1. disable' \in {"idle", "asked"}
      BY <1>1, <2>2 DEF Tick
    <3>2. caughtUp' = FALSE
      BY <1>1, <2>2, Zenon DEF Tick, Observe, WithinVerifyGap
    <3> QED BY <3>1, <3>2
  <2> QED BY <2>1, <2>2
<1>2. CASE Pause
  BY <1>2 DEF Pause
<1>3. CASE DisableGet \/ DisableSet \/ DisableWritten
  BY <1>3 DEF DisableGet, DisableSet, DisableWritten
<1>4. CASE MerkleLogs \/ MerkleGet \/ MerkleSet \/ MerkleWritten
  BY <1>4 DEF MerkleLogs, MerkleGet, MerkleSet, MerkleWritten
<1>5. ASSUME NEW answer \in {"some", "none", "failed"}, PeersAnswer(answer) PROVE Decided'
  BY <1>5 DEF PeersAnswer
<1>6. CASE StallGet \/ StallSet \/ StallWritten
  BY <1>6 DEF StallGet, StallSet, StallWritten
<1>7. CASE RestoreEnables \/ UNCHANGED vars
  BY <1>7 DEF RestoreEnables, vars
<1> QED BY <1>1, <1>2, <1>3, <1>4, <1>5, <1>6, <1>7 DEF WatchdogNext, Ticks, Tasks

\* The auto-disable writes only for a chain within its gap, the recoveries only for one beyond it,
\* because a tick that is caught up leaves neither of them a gap: the order of the three
\* thresholds is what it takes.
THEOREM VerifyFollowsTheChain == WatchdogSpec => VerifyFollowsChain
<1>1. WatchdogInit => Decided
  BY DEF WatchdogInit, Decided, Recovering
<1>2. ASSUME Decided, [WatchdogNext]_vars, verify' # verify
      PROVE  IF verify' = "on" THEN RestoreEnables \/ ~caughtUp ELSE caughtUp
  <2>1. \/ DisableSet \/ MerkleSet \/ StallSet \/ RestoreEnables
    BY <1>2 DEF WatchdogNext, Ticks, Tick, Pause, Tasks, DisableGet, DisableWritten, MerkleLogs,
       MerkleGet, MerkleWritten, PeersAnswer, StallGet, StallWritten, refs, vars
  <2>2. CASE DisableSet
    BY <1>2, <2>2 DEF DisableSet, Decided
  <2>3. CASE MerkleSet \/ StallSet
    BY <1>2, <2>3 DEF MerkleSet, StallSet, Decided, Recovering
  <2>4. CASE RestoreEnables
    BY <2>4 DEF RestoreEnables
  <2> QED BY <2>1, <2>2, <2>3, <2>4
<1>3. Decided /\ [WatchdogNext]_vars =>
        [verify' # verify => IF verify' = "on" THEN RestoreEnables \/ ~caughtUp ELSE caughtUp]_vars
  BY <1>2
<1> QED BY <1>1, <1>3, TypesInit, TypesStep, DecidedStep, PTL DEF WatchdogSpec, VerifyFollowsChain
=============================================================================
