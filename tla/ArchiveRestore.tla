--------------------------- MODULE ArchiveRestore ---------------------------
(***************************************************************************)
(* electron/lib/backup-service.ts: restoring the blockchain database from  *)
(* a tar.gz archive, downloaded (with or without a verification of the     *)
(* started node) or picked on the disk.                                    *)
(*                                                                         *)
(* A download is kept, with the directories extracted from it, in a        *)
(* workspace named after its checksum, so that a later restore resumes     *)
(* what a failure or the end of the application interrupted.  An action is *)
(* one chunk between two awaits, or a shorter one: the application may end *)
(* before any of them, and inside the copy, which is synchronous.  The     *)
(* small state files are written atomically.  The server may serve a       *)
(* checksum, a metadata file and an archive of different publications.     *)
(***************************************************************************)
EXTENDS FiniteSets

CONSTANTS
  Archives,   \* archives that were ever published, or lie on the disk
  Dirs,       \* top-level directories of a payload
  Required,   \* BLOCKCHAIN_BACKUP_REQUIRED_DIRS
  Reset,      \* BLOCKCHAIN_BACKUP_RESET_DIRS
  Holds,      \* Holds[a]: the directories of archive a
  Listings,   \* directory lists a metadata file may have
  None

ASSUME RequiredAreDirs == Required \subseteq Dirs /\ Required # {} /\ Reset \subseteq Dirs
ASSUME HoldsDirs == Holds \in [Archives -> SUBSET Dirs]
ASSUME ListingsAreDirs == Listings \subseteq SUBSET Dirs
ASSUME ArchivesAreNamed == Archives \cap {None, "own", "absent", "partial", "local"} = {}
ASSUME NoneIsNoDir == None \notin Dirs

Downloads == {"url", "verify"}     \* telenoNodeRestoreBackup, ...AndVerify
Kinds == Downloads \cup {"local"}  \* restoreFromLocalFile
Workspaces == Archives \cup {"local"}
Contents == Archives \cup {"absent", "partial"}

VARIABLES
  pc, kind,       \* where the request stands, and which handler serves it
  answer,         \* how it was answered: "none" while it runs, "lost" with the application
  wanted,         \* the archive of the checksum that was fetched, or the one picked
  listed,         \* metadataResult.directories
  dirs,           \* restoreDirectories
  dir,            \* the directory tar extracts
  copied,         \* what restoreBlockchainBackupPayload did: "nothing", "all", "part"
  file, stamp,    \* backup.tar.gz of each workspace; the file archive-state.json tells of
  planned,        \* restoreDirectories of each extract-state.json, {}: none
  completed,      \* its completedDirectories
  extracted,      \* what each workspace has of each directory
  base,           \* what BASEDIR has of it; "own": the node's own database
  verifyBlocks,   \* chain.verify-blocks of config.yml
  configWritable

requestVars == <<pc, kind, answer, wanted, listed, dirs, dir, copied>>
cacheVars == <<file, stamp>>
extractVars == <<planned, completed, extracted>>
nodeVars == <<base, verifyBlocks, configWritable>>
vars == <<requestVars, cacheVars, extractVars, nodeVars>>

Steps == {"idle", "choosing", "stopping", "fetching", "caching", "downloading", "planning",
          "extracting", "untarring", "starting", "probing", "recovering"}

ArchiveTypeOK ==
  /\ pc \in Steps
  /\ kind \in Kinds
  /\ answer \in {"none", "ok", "failed", "cancelled", "lost"}
  /\ wanted \in Archives \cup {None}
  /\ listed \in SUBSET Dirs /\ dirs \in SUBSET Dirs
  /\ dir \in Dirs \cup {None}
  /\ copied \in {"nothing", "all", "part"}
  /\ file \in [Archives -> Contents] /\ stamp \in [Archives -> Contents]
  /\ planned \in [Workspaces -> SUBSET Dirs]
  /\ completed \in [Workspaces -> SUBSET Dirs]
  /\ \A w \in Workspaces : completed[w] \subseteq planned[w]
  /\ extracted \in [Workspaces -> [Dirs -> Contents]]
  /\ base \in [Dirs -> Contents \cup {"own"}]
  /\ {verifyBlocks, configWritable} \subseteq BOOLEAN

Busy == pc # "idle"
Workspace == IF kind = "local" THEN "local" ELSE wanted

\* The archive tar reads.
Source == IF kind = "local" THEN wanted ELSE file[wanted]

-----------------------------------------------------------------------------
\* Beginning and ending a request

Await(at) == pc' = at /\ UNCHANGED <<kind, answer>>
Return(result) == pc' = "idle" /\ answer' = result /\ UNCHANGED kind

\* A failure after the node was stopped: the local restore starts it again first.
Fail == IF kind = "local" THEN Await("recovering") ELSE Return("failed")

\* The settings, or for "verify" the profile, are refused, or the restore begins.
Begin(k) ==
  /\ ~Busy
  /\ kind' = k
  /\ \/ pc' = (IF k = "local" THEN "choosing" ELSE "stopping") /\ answer' = "none"
     \/ k \in Downloads /\ pc' = "idle" /\ answer' = "failed"
  /\ wanted' = None
  /\ listed' = {}
  /\ dirs' = {}
  /\ dir' = None
  /\ copied' = "nothing"
  /\ UNCHANGED <<cacheVars, extractVars, nodeVars>>

Choose(a) ==
  /\ pc = "choosing"
  /\ wanted' = a
  /\ Await("stopping")
  /\ UNCHANGED <<listed, dirs, dir, copied, cacheVars, extractVars, nodeVars>>

\* The dialog is cancelled, or the file is missing or empty.
ChooseNone ==
  /\ pc = "choosing"
  /\ \E result \in {"cancelled", "failed"} : Return(result)
  /\ UNCHANGED <<wanted, listed, dirs, dir, copied, cacheVars, extractVars, nodeVars>>

NodeStopped ==
  /\ pc = "stopping"
  /\ \/ Await(IF kind = "local" THEN "planning" ELSE "fetching")
     \/ Return("failed")
  /\ UNCHANGED <<wanted, listed, dirs, dir, copied, cacheVars, extractVars, nodeVars>>

\* The application ends: a download leaves any content, and what tar was writing
\* is already taken for partial.
Crash ==
  /\ Busy
  /\ Return("lost")
  /\ IF pc = "downloading"
       THEN \E left \in Contents : file' = [file EXCEPT ![wanted] = left]
       ELSE UNCHANGED file
  /\ UNCHANGED <<wanted, listed, dirs, dir, copied, stamp, extractVars, nodeVars>>

-----------------------------------------------------------------------------
\* The archive in the cache

\* fetchBlockchainBackupChecksum and fetchBlockchainBackupMetadata; the latter may fail.
Fetch(a, list) ==
  /\ pc = "fetching"
  /\ wanted' = a
  /\ listed' = list
  /\ Await("caching")
  /\ UNCHANGED <<dirs, dir, copied, cacheVars, extractVars, nodeVars>>

FetchFails ==
  /\ pc = "fetching"
  /\ Return("failed")
  /\ UNCHANGED <<wanted, listed, dirs, dir, copied, cacheVars, extractVars, nodeVars>>

\* archiveStateMatchesFile: size and modification time are those of the stamp.
StampMatches(a) == file[a] # "absent" /\ stamp[a] = file[a]

\* verifyBlockchainBackupArchiveFile: the checksum of the file names its workspace.
HashMatches(a) == file[a] = a

\* ensureBlockchainBackupArchiveCached: a stamped file is used as it is, another one
\* is hashed, and removed when it is not the archive of the checksum.
UseCached ==
  /\ pc = "caching"
  /\ file[wanted] # "absent"
  /\ \/ /\ StampMatches(wanted)
        /\ Await("planning")
        /\ UNCHANGED cacheVars
     \/ /\ ~StampMatches(wanted)
        /\ HashMatches(wanted)
        /\ Await("planning")
        /\ stamp' = [stamp EXCEPT ![wanted] = file[wanted]]
        /\ UNCHANGED file
     \/ /\ ~StampMatches(wanted)
        /\ ~HashMatches(wanted)
        /\ Await("downloading")
        /\ file' = [file EXCEPT ![wanted] = "absent"]
        /\ stamp' = [stamp EXCEPT ![wanted] = "absent"]
  /\ UNCHANGED <<wanted, listed, dirs, dir, copied, extractVars, nodeVars>>

BeginDownload ==
  /\ pc = "caching"
  /\ file[wanted] = "absent"
  /\ Await("downloading")
  /\ UNCHANGED <<wanted, listed, dirs, dir, copied, cacheVars, extractVars, nodeVars>>

\* Mutant: the state file is written before the checksum is compared.
DownloadStampedFirst(body) ==
  /\ pc = "downloading"
  /\ file' = [file EXCEPT ![wanted] = body]
  /\ stamp' = [stamp EXCEPT ![wanted] = body]
  /\ IF body = wanted THEN Await("planning") ELSE Return("failed")
  /\ UNCHANGED <<wanted, listed, dirs, dir, copied, extractVars, nodeVars>>

\* downloadBlockchainBackupArchive ends with this body, whole or not.
Download(body) ==
  /\ pc = "downloading"
  /\ \/ /\ body = wanted
        /\ Await("planning")
        /\ file' = [file EXCEPT ![wanted] = body]
        /\ stamp' = [stamp EXCEPT ![wanted] = body]
     \/ /\ body # wanted
        /\ Return("failed")
        /\ file' = [file EXCEPT ![wanted] = "absent"]
        /\ UNCHANGED stamp
  /\ UNCHANGED <<wanted, listed, dirs, dir, copied, extractVars, nodeVars>>

-----------------------------------------------------------------------------
\* Extracting its directories

\* restoreDirectories: those of the extract state, else of the metadata, else of the
\* archive; a local archive is taken to have the required ones.
Restorable ==
  IF kind = "local" THEN Required
  ELSE IF planned[wanted] # {} THEN planned[wanted]
  ELSE IF listed # {} THEN listed ELSE Holds[Source]

\* The directories the workspace has from an earlier extraction of no other ones.
Resumed(w) ==
  IF planned[w] \subseteq Restorable
    THEN {d \in completed[w] \cap Restorable : extracted[w][d] # "absent"}
    ELSE {}

\* Mutant: the extract state survives the directories it tells of.
EmptiedNotRecorded(w) ==
  /\ planned' = [planned EXCEPT ![w] = {}]
  /\ extracted' = [extracted EXCEPT ![w] = [d \in Dirs |-> "absent"]]
  /\ UNCHANGED completed

Emptied(w) ==
  /\ planned' = [planned EXCEPT ![w] = {}]
  /\ completed' = [completed EXCEPT ![w] = {}]
  /\ extracted' = [extracted EXCEPT ![w] = [d \in Dirs |-> "absent"]]

\* Mutant: a local restore resumes what an earlier one left in the workspace.
PlanResumed ==
  /\ pc = "planning"
  /\ Source \in Archives /\ Holds[Source] \cap Required # {}
  /\ Await("extracting")
  /\ dirs' = Restorable
  /\ planned' = [planned EXCEPT ![Workspace] = Restorable]
  /\ completed' = [completed EXCEPT ![Workspace] = Resumed(Workspace)]
  /\ UNCHANGED <<wanted, listed, dir, copied, extracted, cacheVars, nodeVars>>

\* The payload root was found, by one of the required directories; a local restore
\* begins with an empty workspace, a download with what is there.
Plan ==
  /\ pc = "planning"
  /\ Source \in Archives /\ Holds[Source] \cap Required # {}
  /\ Await("extracting")
  /\ dirs' = Restorable
  /\ planned' = [planned EXCEPT ![Workspace] = Restorable]
  /\ IF kind = "local"
       THEN /\ completed' = [completed EXCEPT ![Workspace] = {}]
            /\ extracted' = [extracted EXCEPT ![Workspace] = [d \in Dirs |-> "absent"]]
       ELSE /\ completed' = [completed EXCEPT ![Workspace] = Resumed(Workspace)]
            /\ UNCHANGED extracted
  /\ UNCHANGED <<wanted, listed, dir, copied, cacheVars, nodeVars>>

\* tar cannot list the archive, or it has none of the required directories.
PlanFails ==
  /\ pc = "planning"
  /\ Fail
  /\ UNCHANGED <<wanted, listed, dirs, dir, copied, cacheVars, extractVars, nodeVars>>

Pending == dirs \ completed[Workspace]

\* The target is removed; until tar ends it has some of the files.
BeginExtraction(d) ==
  /\ pc = "extracting"
  /\ d \in Pending
  /\ dir' = d
  /\ extracted' = [extracted EXCEPT ![Workspace][d] = "partial"]
  /\ Await("untarring")
  /\ UNCHANGED <<wanted, listed, dirs, copied, cacheVars, planned, completed, nodeVars>>

Extracted ==
  /\ pc = "untarring"
  /\ Source \in Archives
  /\ dir \in Holds[Source]
  /\ extracted' = [extracted EXCEPT ![Workspace][dir] = Source]
  /\ completed' = [completed EXCEPT ![Workspace] = @ \cup {dir}]
  /\ dir' = None
  /\ Await("extracting")
  /\ UNCHANGED <<wanted, listed, dirs, copied, cacheVars, planned, nodeVars>>

\* Mutant: a download removes its workspace too.
ExtractionFailsEmptied ==
  /\ pc = "untarring"
  /\ Fail
  /\ Emptied(Workspace)
  /\ UNCHANGED <<wanted, listed, dirs, dir, copied, cacheVars, nodeVars>>

\* The archive has no such directory, or tar failed on the way; a local restore
\* removes its workspace.
ExtractionFails ==
  /\ pc = "untarring"
  /\ Fail
  /\ IF kind = "local" THEN Emptied("local") ELSE UNCHANGED extractVars
  /\ UNCHANGED <<wanted, listed, dirs, dir, copied, cacheVars, nodeVars>>

-----------------------------------------------------------------------------
\* Replacing the database

\* restoreBlockchainBackupPayload up to its n-th directory: these are replaced.
Placed(replaced) ==
  [d \in Dirs |-> IF d \in replaced THEN extracted[Workspace][d]
                  ELSE IF d \in Reset THEN "absent" ELSE base[d]]

\* The copy is complete.  Preparing the runtime files may throw, setting
\* verify-blocks may fail unnoticed; a download without verification is answered.
Place ==
  /\ pc = "extracting"
  /\ Pending = {}
  /\ base' = Placed(dirs)
  /\ copied' = "all"
  /\ IF kind = "local" THEN Emptied("local") ELSE UNCHANGED extractVars
  /\ \/ Fail /\ UNCHANGED verifyBlocks
     \/ /\ verifyBlocks' = (verifyBlocks \/ configWritable)
        /\ IF kind = "url" THEN Return("ok") ELSE Await("starting")
  /\ UNCHANGED <<wanted, listed, dirs, dir, cacheVars, configWritable>>

\* The copy breaks in one directory, by an error that is caught or with the application;
\* "partial": some of its files, perhaps none.
PlaceBreaks ==
  /\ pc = "extracting"
  /\ Pending = {}
  /\ \E replaced \in SUBSET dirs, broken \in dirs :
       /\ broken \notin replaced
       /\ base' = [Placed(replaced) EXCEPT ![broken] = "partial"]
  /\ copied' = "part"
  /\ Fail \/ Return("lost")
  /\ UNCHANGED <<wanted, listed, dirs, dir, cacheVars, extractVars, verifyBlocks, configWritable>>

\* The node is started: a local restore does not look at the result.
NodeStarted ==
  /\ pc = "starting"
  /\ \/ kind = "local" /\ Return("ok")
     \/ kind = "verify" /\ (Await("probing") \/ Return("failed"))
  /\ UNCHANGED <<wanted, listed, dirs, dir, copied, cacheVars, extractVars, nodeVars>>

\* waitForLocalNodeJsonRpcVerification: chain.get_head_info answers in time, or not.
Probed ==
  /\ pc = "probing"
  /\ \E result \in {"ok", "failed"} : Return(result)
  /\ UNCHANGED <<wanted, listed, dirs, dir, copied, cacheVars, extractVars, nodeVars>>

Recovered ==
  /\ pc = "recovering"
  /\ Return("failed")
  /\ UNCHANGED <<wanted, listed, dirs, dir, copied, cacheVars, extractVars, nodeVars>>

-----------------------------------------------------------------------------
ArchiveInit ==
  /\ pc = "idle"
  /\ kind \in Kinds
  /\ answer = "none"
  /\ wanted = None
  /\ listed = {} /\ dirs = {} /\ dir = None
  /\ copied = "nothing"
  /\ file = [a \in Archives |-> "absent"] /\ stamp = file
  /\ planned = [w \in Workspaces |-> {}] /\ completed = planned
  /\ extracted = [w \in Workspaces |-> [d \in Dirs |-> "absent"]]
  /\ base = [d \in Dirs |-> "own"]
  /\ verifyBlocks = FALSE
  /\ configWritable \in BOOLEAN

ArchiveNext ==
  \/ \E k \in Kinds : Begin(k)
  \/ \E a \in Archives : Choose(a)
  \/ ChooseNone
  \/ NodeStopped
  \/ \E a \in Archives, list \in Listings : Fetch(a, list)
  \/ FetchFails
  \/ UseCached
  \/ BeginDownload
  \/ \E body \in Contents : Download(body)
  \/ Plan
  \/ PlanFails
  \/ \E d \in Dirs : BeginExtraction(d)
  \/ Extracted
  \/ ExtractionFails
  \/ Place
  \/ PlaceBreaks
  \/ NodeStarted
  \/ Probed
  \/ Recovered
  \/ Crash

ArchiveSpec == ArchiveInit /\ [][ArchiveNext]_vars

-----------------------------------------------------------------------------
\* Properties

\* An answer "ok" means that every directory it names has the content of the archive
\* whose checksum was fetched, or that was picked, whatever earlier restores left in
\* the workspace when they failed or the application ended; the mempool is reset and
\* verify-blocks is on where config.yml could be written.
OkMeansRestored ==
  answer = "ok" =>
    /\ wanted \in Archives
    /\ dirs # {}
    /\ \A d \in dirs : base[d] = wanted
    /\ \A d \in Reset \ dirs : base[d] = "absent"
    /\ configWritable => verifyBlocks

\* No failure, later request or end of the application loses work: a verified
\* download stays verified and an extracted directory stays extracted.
KeepsWork ==
  \A a \in Archives :
    /\ stamp[a] = a /\ file[a] = a => stamp'[a] = a /\ file'[a] = a
    /\ \A d \in completed[a] : d \in completed'[a] /\ extracted'[a][d] = a

WorkKept == [][KeepsWork]_vars

\* The database is touched once in a request, and only when everything that will replace
\* it lies complete in the workspace: whatever a download or tar does, and wherever the
\* application ends before the copy, the node still has the database it had.
ExtractedFirst ==
  [][base' # base =>
       /\ copied = "nothing" /\ copied' # "nothing"
       /\ wanted \in Archives /\ dirs # {} /\ dirs' = dirs
       /\ \A d \in dirs : extracted[Workspace][d] = wanted]_vars

\* The handlers implement the restore of a database: what is copied is the wanted
\* archive, nothing is copied before one is wanted, and a copy that broke is never
\* answered "ok".
Phase ==
  IF answer = "cancelled" THEN "failed"
  ELSE IF answer # "none" THEN answer
  ELSE IF ~Busy THEN "idle"
  ELSE IF copied = "nothing" THEN "asked"
  ELSE IF copied = "all" THEN "replaced" ELSE "torn"

Restore == INSTANCE DatabaseRestore WITH database <- base, phase <- Phase
ImplementsDatabaseRestore == Restore!RestoreSpec
=============================================================================
