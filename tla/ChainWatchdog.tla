---------------------------- MODULE ChainWatchdog ----------------------------
(***************************************************************************)
(* src/App.tsx, the 60 s timer that watches a running node, with the       *)
(* decisions of src/app/chain-sync.ts: restart a stalled chain, restart    *)
(* when there are no peers, enable verify-blocks after a merkle mismatch   *)
(* and disable it when the chain has caught up.                            *)
(*                                                                         *)
(* A tick looks at the chain heads of the last poll and starts up to four  *)
(* asynchronous tasks that nothing orders.  Each is modelled from one IPC  *)
(* reply to the next.  The replies of the reads and of the writes of       *)
(* config.yml come before the next tick; how long the restarts take does   *)
(* not matter here.  Time is counted in ticks.                             *)
(***************************************************************************)
EXTENDS Integers

CONSTANTS
  MaxHeight, Null,
  SyncGap,     \* SYNC_GAP_BLOCK_THRESHOLD
  ChainGap,    \* AUTO_RESTART_CHAIN_GAP_THRESHOLD
  VerifyGap,   \* VERIFY_BLOCKS_SYNC_THRESHOLD
  Slack,       \* growth that still counts as a stall
  MinStall,    \* AUTO_RESTART_CHAIN_MIN_STALL_CHECKS
  MinNoPeers,  \* AUTO_RESTART_P2P_MIN_NO_PEERS_CHECKS
  Cooldown,    \* the two cooldowns, in ticks
  Restores,    \* a restore or the user may switch verify-blocks on
  ConfigFails  \* reading or writing config.yml may fail

ASSUME BoundsAreNat == {MaxHeight, Slack, MinStall, MinNoPeers, Cooldown} \subseteq Nat
ASSUME GapsAreOrdered ==
  /\ {VerifyGap, SyncGap, ChainGap} \subseteq Nat
  /\ VerifyGap <= SyncGap /\ SyncGap <= ChainGap
ASSUME NullIsNoHeight == Null \notin Nat
ASSUME FlagsAreBoolean == {Restores, ConfigFails} \subseteq BOOLEAN

Heights == 0..MaxHeight
Heads == Heights \cup {Null}
Causes == {"disable", "merkle", "peers", "stall"}

VARIABLES
  verify,     \* chain.verify-blocks of config.yml
  done,       \* verifyBlocksCheckDoneRef
  chain,      \* autoRestartStateRef: stallCount, lastSeenHeight, ticks since lastRestartAt
  p2p,        \* p2pRestartStateRef: noPeersCount, ticks since lastRestartAt
  disable, merkle, peers, stall,  \* the tasks of the last tick
  requested,  \* causes of the restarts requested since the last tick
  \* what was observed, for the properties
  sinceStall,              \* ticks since the last restart of a stalled chain
  head, steady,            \* the last local head, ticks without growth
  zeroSeen,                \* answers in a row, failed ones included, that listed no peer
  caughtUp,                \* the last tick saw the chain within VerifyGap
  restored                 \* a restore has switched verify-blocks on

refs == <<verify, done, chain, p2p>>
tasks == <<disable, merkle, peers, stall>>
observed == <<sinceStall, head, steady, zeroSeen, caughtUp, restored>>
vars == <<refs, tasks, requested, observed>>

AtMost(n, m) == IF n <= m THEN n ELSE m

\* The counters saturate where the code only compares them with a threshold.
WatchdogTypeOK ==
  /\ verify \in {"on", "off", "unset"}
  /\ {done, caughtUp, restored} \subseteq BOOLEAN
  /\ chain \in [count : 0..MinStall, seen : Heads, age : 0..Cooldown]
  /\ p2p \in [count : 0..MinNoPeers, age : 0..Cooldown]
  /\ disable \in {"idle", "asked", "synced", "setting", "written"}
  /\ merkle \in {"idle", "logs", "asked", "setting", "written"}
  /\ peers \in {"idle", "asked"}
  /\ stall \in {"idle", "asked", "setting", "written"}
  /\ requested \subseteq Causes
  /\ sinceStall \in 0..Cooldown
  /\ head \in Heads /\ steady \in 0..MinStall /\ zeroSeen \in 0..MinNoPeers

-----------------------------------------------------------------------------
\* chain-sync.ts.  A restart that never happened and one a cooldown ago are alike.

NewChain == [count |-> 0, seen |-> Null, age |-> Cooldown]
NewP2p == [count |-> 0, age |-> Cooldown]

\* Mutant: a missing height is -1.
HeightOrMinusOne(h) == IF h = Null THEN -1 ELSE h

HeightOf(h) == IF h = Null THEN 0 ELSE h

\* evaluateAutoRestart: no gap is known when a head is missing.
ChainLags(l, p) == l # Null /\ p # Null /\ p - l > ChainGap

\* Mutant: a chain that grows keeps its stall count.
StallsSticky(s, l) ==
  IF s.seen # Null /\ HeightOf(l) <= s.seen + Slack
    THEN AtMost(s.count + 1, MinStall)
    ELSE s.count

Stalls(s, l) ==
  IF s.seen # Null /\ HeightOf(l) <= s.seen + Slack
    THEN AtMost(s.count + 1, MinStall)
    ELSE 0

\* Mutant: the cooldown is not looked at.
ChainRestartsHot(s, l, p) == ChainLags(l, p) /\ Stalls(s, l) >= MinStall

ChainRestarts(s, l, p) ==
  /\ ChainLags(l, p)
  /\ Stalls(s, l) >= MinStall
  /\ s.age >= Cooldown

EvaluateAutoRestart(s, l, p) ==
  [count |-> IF ChainLags(l, p) /\ ~ChainRestarts(s, l, p) THEN Stalls(s, l) ELSE 0,
   seen |-> HeightOf(l),
   age |-> IF ChainRestarts(s, l, p) THEN 0 ELSE s.age]

\* Mutant: verify-blocks goes off where the chain no longer counts as stalled.
WithinChainGap(l, p) == l # Null /\ p # Null /\ p - l <= ChainGap

\* shouldDisableVerifyBlocks
WithinVerifyGap(l, p) == l # Null /\ p # Null /\ p - l <= VerifyGap

\* evaluateP2pRestart, for a running p2p and a sync gap.
P2pRestarts(s, none) == none /\ s.count + 1 >= MinNoPeers /\ s.age >= Cooldown

\* Mutant: an answer with peers keeps the count.
EvaluateP2pRestartSticky(s, none) ==
  [count |-> IF P2pRestarts(s, none) THEN 0
             ELSE IF none THEN AtMost(s.count + 1, MinNoPeers) ELSE s.count,
   age |-> IF P2pRestarts(s, none) THEN 0 ELSE s.age]

EvaluateP2pRestart(s, none) ==
  [count |-> IF none /\ ~P2pRestarts(s, none) THEN AtMost(s.count + 1, MinNoPeers) ELSE 0,
   age |-> IF P2pRestarts(s, none) THEN 0 ELSE s.age]

-----------------------------------------------------------------------------
\* The timer.  Its gap, unlike that of evaluateAutoRestart, takes a missing head for 0.

SyncGapExists(l, p) == HeightOf(p) - HeightOf(l) > SyncGap

Older(age) == AtMost(age + 1, Cooldown)

TasksDone == disable = "idle" /\ merkle = "idle" /\ peers = "idle" /\ stall = "idle"

\* What a tick at which the heads are l and p sees of the local chain.
Observe(l, p) ==
  /\ head' = l
  /\ steady' = IF l # Null /\ head # Null /\ l > head + Slack THEN 0
               ELSE AtMost(steady + 1, MinStall)
  /\ caughtUp' = WithinVerifyGap(l, p)

\* One tick: l and p are the heads of the last poll, healthy the p2p component's state.
Tick(l, p, healthy) ==
  /\ TasksDone
  /\ disable' = IF done THEN "idle" ELSE IF WithinVerifyGap(l, p) THEN "synced" ELSE "asked"
  /\ merkle' = IF SyncGapExists(l, p) THEN "logs" ELSE "idle"
  /\ IF healthy /\ SyncGapExists(l, p)
       THEN peers' = "asked" /\ p2p' = [p2p EXCEPT !.age = Older(@)]
       ELSE peers' = "idle" /\ p2p' = NewP2p
  /\ LET aged == [chain EXCEPT !.age = Older(@)] IN
       /\ chain' = EvaluateAutoRestart(aged, l, p)
       /\ stall' = IF ChainRestarts(aged, l, p) THEN "asked" ELSE "idle"
       /\ sinceStall' = IF ChainRestarts(aged, l, p) THEN 0 ELSE Older(sinceStall)
  /\ requested' = {}
  /\ Observe(l, p)
  /\ UNCHANGED <<verify, done, zeroSeen, restored>>

\* A minute without a tick: a backup runs, or the node does not.
Pause ==
  /\ TasksDone
  /\ chain' = [chain EXCEPT !.age = Older(@)]
  /\ p2p' = [p2p EXCEPT !.age = Older(@)]
  /\ sinceStall' = Older(sinceStall)
  /\ requested' = {}
  /\ UNCHANGED <<verify, done, tasks, head, steady, zeroSeen, caughtUp, restored>>

Request(cause) == requested' = requested \cup {cause}

-----------------------------------------------------------------------------
\* Auto-disable.  The read and what follows from it are one chunk: a write that another
\* task asks for is answered after this read is.

DisableGet ==
  /\ disable \in {"asked", "synced"}
  /\ \/ /\ disable' = IF disable = "synced" /\ verify = "on" THEN "setting" ELSE "idle"
        /\ done' = (done \/ verify = "off")
     \/ ConfigFails /\ disable' = "idle" /\ UNCHANGED done
  /\ UNCHANGED <<verify, chain, p2p, merkle, peers, stall, requested, observed>>

DisableSet ==
  /\ disable = "setting"
  /\ \/ verify' = "off" /\ disable' = "written"
     \/ ConfigFails /\ disable' = "idle" /\ UNCHANGED verify
  /\ UNCHANGED <<done, chain, p2p, merkle, peers, stall, requested, observed>>

DisableWritten ==
  /\ disable = "written"
  /\ disable' = "idle"
  /\ done' = TRUE
  /\ Request("disable")
  /\ UNCHANGED <<verify, chain, p2p, merkle, peers, stall, observed>>

-----------------------------------------------------------------------------
\* Recovery from a merkle mismatch in the last 400 log lines.

MerkleLogs ==
  /\ merkle = "logs"
  /\ merkle' \in {"idle", "asked"}
  /\ UNCHANGED <<refs, disable, peers, stall, requested, observed>>

MerkleGet ==
  /\ merkle = "asked"
  /\ \/ merkle' = IF verify = "off" THEN "setting" ELSE "idle"
     \/ ConfigFails /\ merkle' = "idle"
  /\ UNCHANGED <<refs, disable, peers, stall, requested, observed>>

MerkleSet ==
  /\ merkle = "setting"
  /\ \/ verify' = "on" /\ merkle' = "written"
     \/ ConfigFails /\ merkle' = "idle" /\ UNCHANGED verify
  /\ UNCHANGED <<done, chain, p2p, disable, peers, stall, requested, observed>>

\* Both restart states start over, and with them what StallRestartsSpaced observes.
MerkleWritten ==
  /\ merkle = "written"
  /\ merkle' = "idle"
  /\ done' = FALSE
  /\ chain' = NewChain
  /\ p2p' = NewP2p
  /\ Request("merkle")
  /\ sinceStall' = Cooldown
  /\ UNCHANGED <<verify, disable, peers, stall, head, steady, zeroSeen, caughtUp, restored>>

-----------------------------------------------------------------------------
\* No peers

\* An answer that is not ok counts as no peers.
PeersAnswer(answer) ==
  /\ peers = "asked"
  /\ peers' = "idle"
  /\ LET none == answer # "some" IN
       /\ p2p' = EvaluateP2pRestart(p2p, none)
       /\ IF P2pRestarts(p2p, none)
            THEN Request("peers")
            ELSE UNCHANGED requested
       /\ zeroSeen' = IF none THEN AtMost(zeroSeen + 1, MinNoPeers) ELSE 0
  /\ UNCHANGED <<verify, done, chain, disable, merkle, stall, sinceStall, head, steady, caughtUp, restored>>

-----------------------------------------------------------------------------
\* A stalled chain

StallGet ==
  /\ stall = "asked"
  /\ \/ verify = "off" /\ stall' = "setting" /\ UNCHANGED requested
     \/ (verify # "off" \/ ConfigFails) /\ stall' = "idle" /\ Request("stall")
  /\ UNCHANGED <<refs, disable, merkle, peers, observed>>

StallSet ==
  /\ stall = "setting"
  /\ stall' = "written"
  /\ \/ verify' = "on"
     \/ ConfigFails /\ UNCHANGED verify
  /\ UNCHANGED <<done, chain, p2p, disable, merkle, peers, requested, observed>>

\* Mutant: the auto-disable is not re-armed.
StallWrittenUnarmed ==
  /\ stall = "written"
  /\ stall' = "idle"
  /\ Request("stall")
  /\ UNCHANGED <<refs, disable, merkle, peers, observed>>

StallWritten ==
  /\ stall = "written"
  /\ stall' = "idle"
  /\ done' = FALSE
  /\ Request("stall")
  /\ UNCHANGED <<verify, chain, p2p, disable, merkle, peers, observed>>

-----------------------------------------------------------------------------
\* telenoNodeRestoreBackup ends with setConfigVerifyBlocks(baseDir, true).
RestoreEnables ==
  /\ Restores
  /\ verify' = "on"
  /\ restored' = TRUE
  /\ UNCHANGED <<done, chain, p2p, tasks, requested, sinceStall, head, steady, zeroSeen, caughtUp>>

WatchdogInit ==
  /\ verify \in {"on", "off", "unset"}
  /\ done = FALSE
  /\ chain = NewChain /\ p2p = NewP2p
  /\ disable = "idle" /\ merkle = "idle" /\ peers = "idle" /\ stall = "idle"
  /\ requested = {}
  /\ sinceStall = Cooldown
  /\ head = Null /\ steady = 0 /\ zeroSeen = 0 /\ caughtUp = FALSE
  /\ restored = FALSE

Ticks == \E l, p \in Heads, healthy \in BOOLEAN : Tick(l, p, healthy)

Tasks ==
  \/ DisableGet \/ DisableSet \/ DisableWritten
  \/ MerkleLogs \/ MerkleGet \/ MerkleSet \/ MerkleWritten
  \/ \E answer \in {"some", "none", "failed"} : PeersAnswer(answer)
  \/ StallGet \/ StallSet \/ StallWritten

WatchdogNext == Ticks \/ Pause \/ Tasks \/ RestoreEnables

WatchdogSpec == WatchdogInit /\ [][WatchdogNext]_vars

\* The read and the write that switch verify-blocks off, when they succeed.
DisableReads == DisableGet /\ (disable' = "setting" \/ done')
DisableWrites == DisableSet /\ disable' = "written"

\* Replies arrive, and the timer keeps firing while the node runs and no backup does;
\* config.yml can be read and written again and again, if not every time.
FairWatchdogSpec ==
  /\ WatchdogSpec
  /\ WF_vars(Tasks) /\ WF_vars(Ticks)
  /\ SF_vars(DisableReads) /\ SF_vars(DisableWrites)

-----------------------------------------------------------------------------
\* Properties

\* Restarts of a stalled chain are a cooldown apart, unless a merkle recovery, which
\* means to start over, came between.
StallRestartsSpaced ==
  [][stall # "asked" /\ stall' = "asked" => Older(sinceStall) >= Cooldown]_vars

\* A chain is only restarted as stalled after MinStall ticks in a row without growth,
\* however heads come and go in between.
AdvancingLeftAlone == stall = "asked" => steady >= MinStall

\* The network layer is only restarted after MinNoPeers answers in a row without a peer,
\* however gaps, pauses and restarts come and go in between.
PeersLeftAlone == "peers" \in requested => zeroSeen >= MinNoPeers

\* One tick never asks for a restart to switch verify-blocks off and for one to recover.
DisableAlone == "disable" \in requested => requested = {"disable"}

\* While verify-blocks is on, the auto-disable is armed, or about to be: the write that
\* switched it on has not been answered.  A restore arms nothing.
DoneMeansOff ==
  done /\ verify = "on" /\ ~restored => merkle = "written" \/ stall = "written"

\* verify-blocks goes off only while the last tick saw the chain caught up, and but for a
\* restore it goes on only while it did not, whatever the tasks of earlier ticks still do.
VerifyFollowsChain ==
  [][verify' # verify => IF verify' = "on" THEN RestoreEnables \/ ~caughtUp ELSE caughtUp]_vars

\* A chain that stays caught up does not keep verifying, whoever of the two recoveries
\* switched verify-blocks on and however often config.yml could not be read.
RecoveryTurnedOff == []~restored /\ <>[]caughtUp => []<>(verify # "on")

\* src/src/app/chain-sync.ts, shouldDisableVerifyBlocks: "After a restore, verify-blocks
\* is enabled for safe re-sync.  Once chain catches up (gap below threshold), it can be
\* safely disabled": a chain that stays caught up does not keep verifying.
VerifyTurnedOff == <>[]caughtUp => []<>(verify # "on")

=============================================================================
