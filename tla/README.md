# A TLA+ development of Koinos One

Koinos One is an Electron application that installs, starts, supervises, backs
up and restores one native `teleno_node` process. This directory holds
specifications of the parts where steps of several actors can meet, the TLC
configurations that check them on small instances, and proofs checked by TLAPS.

## 1. The system

| Component | State it keeps | Operations | Hard behaviour |
|---|---|---|---|
| Node supervisor (`electron/main.ts`) | `monolithProcessState`, `nativeServiceProcesses`, the `features:` section of `config.yml` | start, stop, restart, component toggle, preset reconcile, kill-conflict | no lock between requests; awaits (`lsof`, `ps`, the close event, a TCP wait) between a check and its use; timeouts; processes of others |
| App lifecycle (`app-lifecycle-service.ts`, `menu-bar-service.ts`) | `appShutdownInProgress`, `appShutdownApproved`, the window, the tray | quit, close to menu bar, minimise, cleanup | several dialogs and status reads between a decision and its effect; quit while a start is in flight |
| Native backups (`backup-service.ts`) | `activeBackupProcess`, `activeBackupAdminOperation`, the cancel flag, staged directories | create, cancel, restore, fetch, activate, progress polling | cancel races with completion; restore needs a stopped node; a stage outlives the request for it |
| Archive restores (`backup-service.ts`) | a workspace for each archive: the download, `archive-state.json`, `extract-state.json`, extracted directories | restore from a URL, restore and verify, restore from a file | resumption of what a failure or the end of the application interrupted; a server that publishes in between; a copy that breaks |
| Renderer watchdog (`App.tsx`, `chain-sync.ts`) | stall and no-peer counters, cooldowns, `verifyBlocksCheckDone` | one tick a minute: up to four independent restarts | stale inputs, restarts that overlap each other and backups |
| Node status (`nativeComposeStatus`) | none | merge of the tracked process, `lsof` and `ps` | reads the tracked process before and after awaits |
| Logs service | follow sessions, ring buffer per service | append, follow, stop | sessions of an old child ended by its late close |
| Wallet (`wallet-service.ts`, `teleno-storage.ts`) | an encrypted wallet file for each network, one unlocked wallet in memory | import, derive, select, remove, delete, unlock; burn and transfer | eight handlers keep file and session in step by hand; a transaction awaits the node many times while the wallet changes |
| Producer (`producer-service.ts`, `producer-keys.ts`) | `block_producer.producer` in `config.yml`, the producer profile, key files | register, delete, create a key, check at a start | a registration waits a minute before it writes; two BASEDIRs are searched for a key; each write may fail alone |
| Producer activity (`producer-service.ts`) | a cached count of the blocks of a day | overview: answer from the cache, extend it, or scan | overviews overlap; the node answers short, late, from another server, or not |
| Remote nodes | validated plans, receipts | validate, execute with stop criteria | not reachable from the user interface |
| Storage, workspace, first run, IPC, build tooling, UI, backend | files, caches | reads and writes | mostly sequential |
| `teleno_node` | its database under BASEDIR | external | crash, slow stop, refusal to open a locked database |

The main process runs JavaScript on one thread. A handler runs without
interruption from one `await` to the next; between two awaits the chunks of any
other handler, timer or event may run. That is the grain of every module here:
an action is one chunk.

The renderer reaches the main process by IPC calls; the menu bar and the quit
flow call the same functions directly. Nothing in the main process orders two
such calls.

What makes each part correct:

- Supervisor: one process on a BASEDIR; the process it tracks is the one it
  spawned; a stop or start answers what happened; a node is asked to end before
  it is killed; every request ends; what runs is what `config.yml` says.
- App lifecycle: a shutdown leaves no node behind, always either ends the
  application or can be asked again, and the window is not hidden over a node
  the user was not told about.
- Backup: what the quit flow and Cancel read about the running operation is
  true; a cancelled restore leaves the database alone; only a complete stage is
  activated; every operation answers and every cancelled command ends.
- Watchdog: it restarts only what is really stuck, not too often, never works
  against itself, and switches verify-blocks off again.
- Archives: `ok` means that the wanted archive is in the database, and no
  failure loses a verified download or an extracted directory.
- Wallet: the unlocked wallet is the stored one; a transaction is signed with a
  key of its own network, sent as it was tried, and its answer is true.
- Producer: mainnet produces for an address the user chose, and the key that is
  registered for it is the one its node signs with.
- Producer activity: every block of the day is counted, once.
- Node status: its rows describe one moment, not a mix of two.
- Logs: a follower sees the lines of the process it followed, in order.

## 2. Modules

| Module | Models | Composes |
|---|---|---|
| `ManagedNode` | what the supervisor promises to the rest of the application: one node, started only when the last one was seen to close | |
| `MonolithSupervisor` | `startMonolithProcess`, `stopMonolithProcess`, `telenoNodeAction`, `telenoNodeServiceAction`, `telenoNodeComponentToggle`, `telenoNodePresetReconcile`, `killMonolithConflictProcesses` | refines `ManagedNode` |
| `AppLifecycle` | `requestOrderedAppShutdown`, `requestCloseToMenuBar`, minimise, cleanup, exit | extends `MonolithSupervisor` |
| `BackupOperations` | `createLocalBackup`, `restoreNativeBackup`, `cancelCreateBackup` | the node as an external part |
| `DatabaseRestore` | what restoring an archive promises about the node's database | |
| `ArchiveRestore` | `telenoNodeRestoreBackup`, `telenoNodeRestoreBackupAndVerify`, `restoreFromLocalFile` | refines `DatabaseRestore` |
| `ChainWatchdog` | the 60 s timer of `App.tsx` and the decisions of `chain-sync.ts` | the supervisor as the target of its restart requests |
| `WalletVault` | the wallet handlers that change a wallet, the session or the producer address | |
| `WalletTransactions` | `walletBurn`, `walletTransferVhp`, `walletTransferKoin` | extends `WalletVault` and keeps its specification |
| `ProducerSetup` | registration, deletion, key files, the check of a producing start | extends `WalletVault` |
| `ProducerActivity` | the cached count of `telenoNodeProducerOverview` | |
| `MonolithSupervisor_proofs`, `AppLifecycle_proofs`, `BackupOperations_proofs`, `ArchiveRestore_proofs`, `ChainWatchdog_proofs`, `Wallet_proofs`, `ProducerSetup_proofs`, `ProducerActivity_proofs` | the theorems | extend their component; `AppLifecycle_proofs` builds on the supervisor's, `ProducerSetup_proofs` on the wallet's |
| `MC...` | the instances for TLC | extend their component |

They were written in this order, the supervisor first: it is what most other parts
call, and its requests are what the others get wrong.

### 2.1 MonolithSupervisor

State. `tracked` is `monolithProcessState` and at the same time the one entry of
`nativeServiceProcesses`: both are assigned in the chunk that spawns and neither
is ever removed, so a tracked process that has closed stays tracked. `child` is
the life of each spawned process as the operating system (`starting`, `up`,
`exited`) and the main process (`closed`: its close event was handled) see it;
`signal` what it was sent; `flags` the features on its command line. `config` is
the `features:` section of `config.yml`. `ext` are node processes started by
somebody else. For each client `op`, `pc`, `target`, `seen`, `spare`, `over` are
the request in flight, the await it stands at and the values its closure
captured; `answer` is its last result.

Actions. `RequestStart`, `RequestStop`, `RequestRestart`, `RequestToggle`,
`RequestReconcile`, `RequestKillConflict` are the chunk from the call to the
first await. `CloseSeen` and `CloseTimeout` are the two ways out of
`waitForChildClose` (15 s, then SIGKILL without waiting again), each with what
the caller does next in the same chunk (`AfterStop`). `LsofAnswers` and
`PsAnswers` are the moment at which the tool reads the system; `AfterLsof`,
`Spawn`, `SpawnRefused` the chunk that sees its result. `ListenDone` is the end
of `waitForTcpListener`. `ScanAnswers`, `AfterScan1..3` are the three scans of
`killMonolithConflictProcesses`. `ChildOpensDb`, `ChildExits`, `ChildClosed`,
`ExternalStarts`, `ExternalExits` are the processes. A promise settled by a
close event continues before any other event (`NoMicrotask`).

A client is a place with one request in flight. Controllers (renderer,
watchdog) may issue any request, stoppers (menu bar, quit flow) only stops. The
status that a request reads after its work (`nativeComposeStatus`) changes
nothing, so the answer is given before it.

Left out: the path of a stop where sending SIGKILL throws (it answers an error
and changes nothing), the producer preflight of a start (it is in
`ProducerSetup`), the text of results.

### 2.2 AppLifecycle

Adds the application (`app`), the two flags of the shutdown, the window, the
await of the shutdown (`quitting`) and of each close request (`closing`), and
whether a backup runs. The shutdown stops the node as the supervisor's client
`Quit`, so all of 2.1 may happen between any two of its steps. `Approve` is the
chunk `setAppShutdownApproved(true); quitApp()`, in which `before-quit` runs
`cleanupAppRuntimeResources`. Once `app = "exited"` only processes are left.
Left out: the wording of the dialogs, the "force close" answer (it leads to the
same approval), navigation and the development server.

### 2.3 BackupOperations

`pc` is the await the operation stands at; `cancelled`, `active`, `adminOp`,
`timers` are `activeBackupCancelled`, `activeBackupProcess # null`, the
operation id in `activeBackupAdminOperation` and the SIGKILL timeouts of earlier
cancels. One operation runs at a time, because `nodeBusy` disables the buttons
(`App.tsx`); `Cancel` may come at any moment, also after the operation has
answered, and up to `MaxTimers` of its timeouts may be pending. A poll is one
action: the delay and the request are one wait. The node, its admin operations,
the commands and the directories `restore-staging` and `restore-staging.partial`
are external; they do what `backup-service.ts` relies on: a stage is written to
`.partial` and renamed when complete, an activation is a request the next start
of the node carries out if the stage is complete, an offline restore command
replaces the database only while the node is stopped. Requests and answers may
be lost, the node may stop and restart at any time, and a stage may outlive the
time the client waits for response headers.

`admin` is `settings.backup.adminEnabled` and is chosen for each operation.

Left out: list, purge, preflight and dry run, which change nothing here; a restart
that the watchdog has requested just before an operation begins.

### 2.4 ChainWatchdog

Time is counted in ticks of 60 s. `chain` and `p2p` are the two restart states of
`chain-sync.ts`, with the age of the last restart instead of its time and with
counters that saturate at the threshold they are compared with. `disable`,
`merkle`, `peers`, `stall` are the four tasks of a tick, each modelled from one
IPC reply to the next; `requested` are the causes of the restarts requested since
the tick. `sinceStall`, `head`, `steady`, `zeroSeen`, `caughtUp` only observe.

Replies of reads and writes of `config.yml` come before the next tick; they take
milliseconds. How long a restart takes does not matter: the task has finished its
work on the shared references when it requests it. IPC replies of one window come
in the order of the requests, which makes a read and what follows it one chunk.
A tick may request up to three concurrent restarts; what those do to each other
is the supervisor's part (run `double_start`).

### 2.5 ArchiveRestore and DatabaseRestore

An archive is its checksum. Each has a workspace with the downloaded `file`, the
`stamp` of `archive-state.json` (size and modification time of a file that was
verified), `planned` and `completed` of `extract-state.json`, and what was really
`extracted`. A file picked on the disk has the workspace `"local"`, which is
emptied first. `pc` is the await of the one request; `base` is the database. The
chunks are those between two awaits, some split further, because `Crash` (the end
of the application) may come before any of them and, as `PlaceBreaks`, inside the
synchronous copy. A later request finds whatever was left. `Fetch` may answer with
a checksum of one publication and the list of directories of another, `Download`
with any body.

`DatabaseRestore` knows the database, the archive that is wanted and how far the
request is. It allows a copy that breaks (`Tear`) but not that it is answered `ok`.

Left out: the progress events; preflight of free space (a failure like another);
the writes of the small state files, taken as atomic; the partial archive that a
`tar` still running after the application's end may write; the node itself (a stop
or start succeeds or fails). One request at a time: the renderer's `nodeBusy`
disables the buttons (`App.tsx:1516`).

### 2.6 WalletVault and WalletTransactions

`vault` is the wallet file of each network, `session` is `unlockedWallet` with
`unlockedWalletNetwork`, `config` and `profile` are `block_producer.producer` and
`burnAccountId`. The handlers have no await, so each is an action, made of the
operator of `teleno-storage.ts` it calls (`ImportWalletAccount`,
`RemoveWalletAccount`, ...) and of what `wallet-service.ts` does around it. An
account is its address; a secret is known by the password it is encrypted with; a
session holds the address that each key really signs for, or `None`.

`tx` is the latest transaction: its step, the signer it took from the session when
it began, the header it has prepared and the one its last dry run `tried`. With
free mana the limit is estimated with the meter as payer and then raised from dry
run to dry run. `sent` is what really happened at the node, also if its answer was
lost. Amounts and balances are left out: what they refuse is a refusal (`Refused`).
So are names (`walletRenameAccount`) and the seed phrase's display.

### 2.7 ProducerSetup

Adds to `WalletVault` the key files of each BASEDIR (`key`, `published`), the key
the profile remembers (`registered`), and the registration in flight (`reg`). The
registration fixes signer and key before its first await, waits for the chain and
then writes `config.yml` and the profile, each of which may fail (`Persist`).
`StartChecks` is what `ensureMonolithProducerRuntimeConfig` adds to `config.yml`
when block production is to start, `NodeStarts` the node writing the key files it
lacks. `LocalKey` is the search of `producer-keys.ts` in this BASEDIR and in the
default one. `named` only observes: the mainnet addresses the user set as producer
or registered since the last complete deletion.

Left out: the burn account of a delegated signer and the flags that keep
`config.yml` or the profile unwritten, which the panel never passes
(`ProducerPanel.tsx:225`); `clearProducerSetup`, which has no button.

### 2.8 ProducerActivity

`cache` is the entry of `producerActivityCache`, `entries` all entries a running
overview may still hold. `BeginOverview` is the chunk that reads the head and the
cache and decides between the cached answer, an extension and a scan; `Fetched` the
one that merges the blocks into the entry it has read, whatever the cache holds by
then. The node may answer with fewer blocks than asked for (`shortened`), with an
older head (`Lag`), or fail. `overlapped` observes that two overviews have extended
one entry at the same time. Blocks are told apart by height and not by producer.

## 3. What the runs check

| Run | Instance | Shows |
|---|---|---|
| `one_controller` | 1 controller, 1 stopper, 2 node identities, 1 external node, 1 feature, 2 profiles, tools may fail | no process is lost, none is killed unasked, stops and starts answer truthfully, the features are the written ones, `ManagedNode` is implemented, every request returns |
| `double_start` | 2 controllers, 3 identities | fails: two starts spawn two nodes on one BASEDIR |
| `app_shutdown` | 1 controller, the shutdown, 1 close request, menu-bar mode, 2 identities | the shutdown flag is truthful, approval asks every running node to stop, nothing is hidden silently, a shutdown is approved or given up |
| `quit_start_race` | the same | fails: a start in flight spawns a node while the windows close |
| `backup_admin` | 2 admin operations, all kinds, admin API on and off, 1 pending kill timer | bookkeeping, complete stages only, polled operations are asked to stop, an offline local restore that answers cancelled has touched nothing, operations return, cancelled commands end |
| `backup_cancelled_restore` | 1 admin operation, 2 timers | fails: a fetched restore cancelled during the stop replaces the database |
| `archive_restore` | 2 archives, of which one lacks a required directory; 3 directories, 2 required, 1 reset; 4 metadata lists | `ok` means the wanted archive is in the database, verified work is kept, `DatabaseRestore` is implemented |
| `watchdog` | heights 0..5 or missing, cooldown 5 ticks, thresholds 2, restores, `config.yml` failing | restarts need an uninterrupted run of bad readings, are spaced, and do not contradict each other; the auto-disable stays armed and switches verify-blocks off |
| `watchdog_restore` | heights 0..3, cooldown 1 | fails: after a restore verify-blocks may stay on for ever |
| `wallet` | mainnet with 2 addresses and up to 2 added accounts, a testnet with 1; one phrase with 2 indexes, 1 password, 1 protected address, 2 sponsored attempts | file and session agree, transactions are signed in their network, sent as tried and answered truthfully |
| `producer_setup` | mainnet with 2 addresses, 1 of them protected, a testnet with 1; 3 keys | mainnet's producer was named by the user and its key is the node's |
| `activity` | 2 overviews, 3 entries, 2 blocks a day, 4 blocks, cached 1 tick fresh and 2 extendable, servers 1 block apart | blocks are counted, and once |

Bounds. Two node identities are enough for one controller: a start needs a
process that is closed and that no handler remembers, so the second exists while
the first is still being waited for. With two controllers a third is needed,
or a start could not happen while two nodes run. One feature and two profiles that
differ in it distinguish every mixture of a written and a captured flag. Two admin
operations let one that was given up go on beside the one being polled. One pending
kill timer outlives the operation that was cancelled and meets the next command;
the failing run has two. The watchdog instance has the code's numbers of checks (2)
and cooldown (5 minutes, 5 ticks; `constants.ts:90-100`). Its gaps (50, 50 and 100
blocks in the code) only enter through their order and are 1, 1 and 2, with heights
that reach beyond every gap. `MaxTimers`, `MaxHeight` and the saturating counters
are the only caps.

Two archives are a wanted one and one that earlier requests or a publication in
between have left; the metadata lists are none, the right one, one that leaves a
directory out and one of the other archive. In the wallet, mainnet has an account
derived from the phrase and one that is not, the testnet shares an address with it,
so that a session of the wrong network could sign; one password suffices as the
password of a secret only decides whether it opens, and the two attempts stand for
the five of the code. `MaxAdded`, `MaxIndex` are caps. Three producer keys are one
for each BASEDIR and one that a registration still holds. The activity instance has
a day shorter than the chain, so that the window moves, and one more entry than
overviews, so that an entry may be replaced while both are at work. `MaxHead` caps
the chain and with it the counts.

A `VIEW` leaves out what no action reads and no property of the run mentions:
answers already given (`WithoutAnswers`), entries nobody holds (`WithoutGarbage`),
what an ended request left in its variables (`LiveState`), and the signer of a
request that has begun (`WithoutSigner`; the property about it is one of the step
that begins). Symmetry is used for process identities in `double_start` and for keys
in `producer_setup`, never with liveness.

Deadlock is checked for the supervisor and the watchdog. It is not for the
application, which really exits, nor for the backups, whose last await may be a
command that never ends, nor for the others, whose bounded data are used up.

### Fairness

- Supervisor: each client's continuation is weakly fair, because the event loop
  runs what is ready and every wait has a timer (5 s for `lsof` and `ps`, 15 s
  for the close, 30 s for the port). Closing an exited process, and the exit of a
  process that was sent SIGKILL, are weakly fair: the operating system does both.
  Nothing says that a node ever opens its database, exits on SIGTERM, or that
  anybody makes a request.
- App lifecycle: continuations and close events as above (nothing is assumed of a
  killed process, as stops time out), and the shutdown's awaits end: the user answers a
  dialog, the windows of an approved shutdown close. Close requests are not
  assumed to be answered.
- Backup: the chunks of an operation (each await ends by an answer, an error or
  a time limit), the kill timers, and the death of a process that was killed.
  Commands need not end by themselves, nor need the node answer or run.
- Watchdog: replies arrive and the timer goes on firing, as it does while the
  node runs and no backup does; a `config.yml` that can be read or written again and
  again is read and written at last (strong fairness of the two steps that do it).
- Archive restores, wallet, producer, activity: none; nothing is claimed to happen.

## 4. What is proved

All theorems are checked by TLAPS for every value of the constants. Every safety
property of the passing runs, action properties and both refinements included, is
a theorem. So are some properties that no listed run states, because the proof says
all there is to say of them: `RequestsProgress`, `RestartAwaitsClose`,
`NodesBounded`, `ShutdownProgress`, `OperationProgress`, `ExtractedFirst`,
`VerifyFollowsChain`, `PasswordKept`, `PasswordOpens`, `ProducerAddressOwned` and
`RunCounted`. Adding them to the configuration of their component's run checks them
on its instance too.

Supervisor (`MonolithSupervisor_proofs`). `TypeCorrect` holds for any clients.
The others assume `OneController`: at most one client that starts nodes, and any
number that stop it. The assumption is necessary, as `double_start` shows, and it
is what the renderer's disabled buttons give as long as the watchdog is quiet.
`NoOrphan` is not inductive. `Safe` adds: a stopper stands at nothing but a stop
(`StopperStops`), whoever is about to start finds no open process
(`StartAlone`), whoever waits for a close waits for the tracked process, which
has been sent SIGTERM (`StopsTracked`), and a conflict scan never holds the
tracked process in its list (`ScanSpares`). The last is why the second SIGKILL
round of `killMonolithConflictProcesses` is harmless: the only client that could
start another node is the one that is scanning. `OneControllerNoOrphan` and
`OneControllerKillFollowsTerm` are parts of `Safe`.
`OneControllerImplementsManagedNode` maps each action to `Start`, `End`, `Close`
or a stutter. `OneControllerStopMeansNoNode` follows from what each action can
answer (the lemmas `...Says`) and `Safe`. `OneControllerStartedAsConfigured`
needs `Configured` besides: the flags a start has captured still agree with
`config.yml` at each await, and those of a spawned node when its request answers.
`OneControllerNoSecondNode` is the statement `double_start` refutes, for one
controller: `NoOrphan` leaves no process but the tracked one, so it holds even if
`lsof` and `ps` fail. `OneControllerRestartAwaitsClose`: behind a stop, a restart
goes on to `lsof` only over closed processes.

Two results need no `OneController`. `RequestsMakeProgress`: `Remaining` ranks the
awaits and every action of a client lowers its rank, so `RequestsReturn` asks nothing
of the event loop but that it runs what is ready. `NodesAreBounded` says how far the
race of `double_start` can go while the tools tell the truth: never more running
nodes than controllers. By the invariant `Counted` there is an injection from the
running nodes into the controllers, each of which answers for the node it spawned
and may not spawn another (`MaySpawn`) before it has asked `ps` again; a `ps` that
saw no node leaves the injection empty, and a spawn adds its own client to it. It is
assumed that the controllers are finitely many and that no tool fails.

App lifecycle (`AppLifecycle_proofs`). Every step is a step of the supervisor, the
cleanup's SIGTERM, or leaves the supervisor alone, so the supervisor's invariant is
kept (`SupervisorKeeps`) and `AppIInv` adds the types, the flag, and that no
shutdown waits once one is approved. `OneControllerApprovalAsksNode` and
`OneControllerHidesOnlyIdle` need `NoOrphan`: both flows look at the one tracked
process, which speaks for all only if no other can be open. The supervisor's results
are proved again for `AppSpec`, which is not a refinement of the supervisor's
specification: the cleanup of `before-quit` sends SIGTERM in a step that is none of
the supervisor's requests (`CleanupStep`). `AppKeepsOneNode`,
`AppStopMeansNoNode`, `AppStartedAsConfigured`, `AppRestartAwaitsClose`,
`AppImplementsManagedNode` and `AppNodesAreBounded` show that this step breaks none
of them. `ShutdownsMakeProgress` ranks the awaits of the shutdown as `Remaining`
does those of a request.

Backups (`BackupOperations_proofs`). `BackupTypes` groups the types by who writes
them. `ActivityIsTruthful`: by `Bookkeeping`, a command runs exactly at the three
awaits of a command and an operation id is only remembered while polled.
`PolledCancelIsAsked`: by `Asked`, if the flag is set while an operation is polled
then the node was asked to cancel that very operation.
`OfflineCancelTouchesNothing`: by `Offline`, without the admin API a restore only
reaches the awaits of the offline path, and a local one that touched something
stands at none from which it could answer cancelled. `CompleteIsRestored`: by
`FetchedTouched`, the command of a fetched restore succeeds only after it has
replaced the database. `OperationsProgress`: all paths and fallbacks of a create and
of a restore, such as the one from a lost response to the stage on disk, lead forward
in `AwaitsLeft`, so that an operation ends after at most seven awaits, if those end.

Archives (`ArchiveRestore_proofs`). The copy looks at nothing but the names of
directories. That it copies the wanted archive rests on `ArchiveIInv`: what
outlives requests (`CacheSound`: a stamped file and a completed directory are those
of the workspace's archive), what each step has established (`StepSound`,
`WorkspaceSound`), and what an `ok` stands for (`DoneSound`). `OkRestores`,
`WorkIsKept` and `ArchiveImplementsDatabaseRestore` follow. So does
`DatabaseReplacedWhole`: only the copy changes the database, once in a request, and
it finds every directory complete, so that until then whatever fails leaves the node
with the database it had.

Watchdog (`ChainWatchdog_proofs`). `WatchdogTypes`; `AdvancingChainLeftAlone`
and `StallRestartsAreSpaced` by `Tracks` (the stall count is at most the number of
ticks without growth, the age of the last restart at most the one observed);
`PeersAreLeftAlone` by `TracksPeers`; `DisableIsAlone` by `OneSide`: a tick that
sees the chain caught up starts no recovery, which needs
`VerifyGap <= SyncGap <= ChainGap` (`GapsAreOrdered`), which the code's 50, 50 and
100 satisfy; `DoneIsOff` by `Armed`, as long as no restore has switched
verify-blocks on. `VerifyFollowsTheChain` takes the same order of the gaps: by
`Decided`, no recovery is under way once a tick has seen the chain caught up, and the
auto-disable goes on to its write only after such a tick. It is the safety half of
`RecoveryTurnedOff`.

Wallet (`Wallet_proofs`). `WalletIInv` adds to the types and to
`SessionMirrorsVault` that the key of every account can be had from the secrets of
its wallet (`Derivable`, `Sound`): without it an unlock could give a session without
a key the file has. `TransactionsKeepWallets`: a request does to the wallets only
what an unlock does, so these results hold for `TransactionSpec` as well, and
`SignersAreOfTheNetwork` follows from them. No handler compares the password it is
given with the wallet's; `PasswordsAreKept` goes through them all to show that a
password stops opening a wallet only by an import under another one, and
`OnePasswordOpensAll` that with one password nobody is locked out (it assumes that
the set of passwords has one element; with two, `PasswordOpens` fails).
`ProducerAddressesAreOwned` goes through the handlers that write `config.yml`: each
writes the address of an account that it has just stored, or found with a key.
`TransactionIInv` says for each step what can
have been sent by then; `TransactionTypes`, `SentIsTried` and
`TransactionAnswersAreTrue` are parts of it.

Producer (`ProducerSetup_proofs`). `SetupIInv` takes `WalletIInv` over and adds
`NamedLater` (what a registration in flight and a profile will write was named) and
`PublishedHaveKeys`, without which a key that is registered could be replaced.

Activity (`ProducerActivity_proofs`). `BlocksCountedOnce` by `AtMostOnce`: nothing is
counted above the height of an entry, and each extension begins right above it.
`WholeDayCounted` by `AtLeastOnce`: the day below an extension is counted already.
`OneRunIsCounted` joins the two and adds (`Runs`) that an extension leaves no gap
between what was counted and what it adds. The run may be longer than the day, since
an extension never drops a block; that is how far the renewed age goes wrong.

Only model-checked: the liveness properties `RequestsReturn`, `QuitDecides`,
`OperationReturns`, `CancelKills` and `RecoveryTurnedOff`, which need fairness and
ENABLED and are out of the prover's reach; their safety halves are proved, but for
`CancelKills`. The four statements the code does not keep are refuted by runs, and
one of them, `NoSecondNode`, is proved for one controller.

## 5. Divergences

Four runs end in a counterexample to a statement of the repository.

- `double_start`: `main.ts:662`, against `main.ts:2314` ("Koinos One will not
  start a second node against the same RocksDB database").
- `quit_start_race`: `app-lifecycle-service.ts:379`, against "`Cmd+Q` stops
  managed services before quitting" in the menu bar plan.
- `backup_cancelled_restore`: `backup-service.ts:3621`, against the tooltip of
  Stop restore (`i18n.ts:1193`).
- `watchdog_restore`: `App.tsx:2231`, against the comments of the timer and of
  `shouldDisableVerifyBlocks`.

The models reproduce the following as well. No run is devoted to them; each says
where a property above stops short.

- A restart, toggle or reconcile whose stop is escalated to SIGKILL goes on at
  once, finds the dying process still open (`main.ts:745`, `:554`), and answers
  `alreadyActive`, a success: the node dies and nothing is started.
- The quit flow asks once whether a backup runs (`app-lifecycle-service.ts:257`),
  before several awaits; a backup that begins during them is killed by the exit
  without a question, against the comment at `:154`.
- A stopped node stays in `nativeServiceProcesses` (`main.ts:664`), so quit and
  close ask about services that do not run (`app-lifecycle-service.ts:286`).
- The SIGKILL timeout of a cancel (`backup-service.ts:2660`) acts on whatever
  `activeBackupProcess` is two seconds later, which may be the next command.
- A cancel that comes before the operation id is known
  (`backup-service.ts:2771`, `:3386`) gives up the operation without asking the
  node to stop it: it goes on in the node.
- After six hours the poll of a fetch ends without a result and the restore goes
  on to the preflight (`backup-service.ts:3386`), whereas a create fails.
- A restore that waits for activation loses its stage when another restore begins
  (`backup-service.ts:3460`); its activation request stays.
- `clearStaleRestorePartialStaging` (`backup-service.ts:2602`) knows of commands,
  not of a stage the node is writing.
- The watchdog is silent during a backup but not during a restore
  (`App.tsx:2212`): it may start the node under the restore command.
- A tick at which p2p is not running, or without a gap, resets the whole state of
  the no-peers restart, its cooldown included (`App.tsx:2328`).
- A failed answer counts as no peers (`App.tsx:2305`), and a missing head as
  height 0 for the gap of the timer (`App.tsx:2223`) but not for the one of
  `evaluateAutoRestart` (`chain-sync.ts:62`).
- An archive's list of directories sticks in `extract-state.json`
  (`backup-service.ts:1435`): with one of another publication later restores of that
  checksum fail or leave a directory out, and a directory that is not listed keeps
  its old content.
- After a failed restore `restoreFromLocalFile` starts the node again, also when the
  copy broke and verify-blocks is off (`backup-service.ts:2253`); the two downloading
  restores leave it stopped. That `config.yml` could not be written is not noticed.
- The node is stopped long before the copy; nothing keeps others from starting it.
- An account imported with another password (`teleno-storage.ts:1080`) makes the
  wallet unopenable (`:424`): every secret is decrypted with the one password.
- A stale account id is signed for by the active account
  (`wallet-service.ts:216`).
- A burn whose balances cannot be reread (`wallet-service.ts:1305`) answers failed
  although it was sent; `AnswersTruthful` states that as its only exception.
- A registration writes `config.yml` without the check of protected addresses
  (`producer-service.ts:1812`), which only `walletSetProducerAccount` makes
  (`wallet-service.ts:410`), against
  `docs/manual/reference/environment-variables.md:10`.
- A testnet BASEDIR without a `public.key` is given the one of the default BASEDIR
  (`producer-keys.ts:48`), so the key that is registered there is not the one its
  node signs with; `OwnKeyRegistered` speaks of mainnet.
- A `private.key` that cannot be read or parsed is overwritten
  (`producer-keys.ts:94`).
- A registration in flight writes the profile back after the wallet was deleted,
  and its own address over one that was set meanwhile. It answers failed when
  `config.yml` was written and the profile was not, and ok when the confirmation
  timed out.
- A watch-only active account may become a testnet's producer at a start
  (`main.ts:471`).
- Two overviews that extend one entry at the same time count its new blocks twice
  (`producer-service.ts:1047`); `CountedOnce` speaks of the rest.
- Every extension renews the age of an entry (`producer-service.ts:1051`), so a
  window that is polled is never scanned again, against `CHANGELOG.md:139`.

## 6. Not modelled

`PROJECT.json` lists every component. Not modelled because there is nothing to
interleave: profile tables, path resolution, IPC forwarding, rendering, the
read-only backend, build scripts, dashboards and balance queries. The legacy
multi-service runtime is unreachable (`shouldUseMonolithMode` returns true). The
panel of the remote nodes is mounted nowhere; the manual calls it transitional code
of a separate product. The node itself is not in this repository; the modules
describe what the application relies on.

Not modelled although there is: `nativeComposeStatus` (`main.ts:3683`), whose
readings of the tracked process, `lsof` and `ps` are of three moments; it keeps
nothing, and whoever acts on it looks at the tracked process again. Follow sessions
of the logs, which only the log panel shows. Saving settings and changing or
copying the BASEDIR (`App.tsx:4782`, `:5022`): the supervisor modules have one
BASEDIR, and a start with another one while a node is tracked answers
`alreadyActive`.

Most of the remaining lines of the implementation are rendering, translations,
parsing and formatting, of which no property here speaks.

## 7. What could follow

1. A BASEDIR for each request of `MonolithSupervisor`, with `saveCurrentSettings`
   and the restart after a BASEDIR change as its client.
2. `nativeComposeStatus` with the status of one moment as its abstract
   specification, for one controller.
3. The follow sessions of `logs-service.ts`, the bounded log and the close of an
   older process (`main.ts:689`), with a stream of lines as their specification.
