------------------------ MODULE ArchiveRestore_proofs ------------------------
(***************************************************************************)
(* Proofs about ArchiveRestore for every set of archives and directories,  *)
(* every content of the archives and every metadata.                       *)
(*                                                                         *)
(* CacheSound is what outlives a request: whatever the workspaces have     *)
(* recorded, a stamped file is the archive of its workspace and so is a    *)
(* completed directory.  StepSound and WorkspaceSound tie the step of the  *)
(* request to what it has established, so that the copy, which looks at    *)
(* nothing but names, copies the archive that was wanted.                  *)
(***************************************************************************)
EXTENDS ArchiveRestore, TLAPS

CacheSound ==
  \A a \in Archives :
    /\ stamp[a] \in {"absent", a}
    /\ \A d \in completed[a] : extracted[a][d] = a

Restored ==
  /\ copied = "all"
  /\ wanted \in Archives
  /\ dirs # {}
  /\ \A d \in dirs : base[d] = wanted
  /\ \A d \in Reset \ dirs : base[d] = "absent"
  /\ configWritable => verifyBlocks

Wanting == {"caching", "downloading", "planning", "extracting", "untarring", "starting",
            "probing", "recovering"}
Copying == {"extracting", "untarring"}

\* Which handler stands where, and what it wants there.
StepSound ==
  /\ pc \in {"fetching", "caching", "downloading"} => kind \in Downloads
  /\ pc \in {"choosing", "recovering"} => kind = "local"
  /\ pc = "starting" => kind \in {"local", "verify"}
  /\ pc = "probing" => kind = "verify"
  /\ Busy => answer = "none"
  /\ pc \in Wanting => wanted \in Archives
  /\ pc = "stopping" /\ kind = "local" => wanted \in Archives
  /\ pc = "stopping" /\ kind \in Downloads => wanted = None
  /\ pc \in {"choosing", "fetching"} => wanted = None
  /\ Busy /\ pc \notin {"starting", "probing", "recovering"} => copied = "nothing"

\* What the chunks before have made of the workspace.
WorkspaceSound ==
  /\ pc = "downloading" => file[wanted] = "absent"
  /\ pc \in {"planning"} \cup Copying /\ kind \in Downloads => file[wanted] = wanted
  /\ pc \in Copying => dirs # {} /\ planned[Workspace] = dirs
  /\ pc \in Copying /\ kind = "local" =>
       \A d \in completed["local"] : extracted["local"][d] = wanted
  /\ pc = "untarring" => dir \in dirs \ completed[Workspace]

DoneSound == pc \in {"starting", "probing"} \/ answer = "ok" => Restored

ArchiveIInv == ArchiveTypeOK /\ CacheSound /\ StepSound /\ WorkspaceSound /\ DoneSound

-----------------------------------------------------------------------------
LEMMA Names ==
  /\ None \notin Archives /\ "own" \notin Archives /\ "absent" \notin Archives
  /\ "partial" \notin Archives /\ "local" \notin Archives
  /\ Required \subseteq Dirs /\ Required # {} /\ Reset \subseteq Dirs
  /\ Holds \in [Archives -> SUBSET Dirs]
  /\ Listings \subseteq SUBSET Dirs
  /\ None \notin Dirs
BY RequiredAreDirs, HoldsDirs, ListingsAreDirs, ArchivesAreNamed, NoneIsNoDir

LEMMA InitSound == ArchiveInit => ArchiveIInv
<1> SUFFICES ASSUME ArchiveInit PROVE ArchiveIInv
  OBVIOUS
<1>1. ArchiveTypeOK
  BY Names DEF ArchiveInit, ArchiveTypeOK, Steps, Contents, Workspaces
<1>2. CacheSound
  BY Names DEF ArchiveInit, CacheSound, Workspaces
<1>3. StepSound /\ WorkspaceSound /\ DoneSound
  BY DEF ArchiveInit, StepSound, WorkspaceSound, DoneSound, Busy, Wanting, Copying
<1> QED BY <1>1, <1>2, <1>3 DEF ArchiveIInv

\* The steps that touch neither the disk nor what is recorded of it.
Quiet == UNCHANGED <<cacheVars, extractVars, nodeVars>>

LEMMA QuietKeeps ==
  ASSUME ArchiveIInv, Quiet,
         pc' \in Steps, kind' \in Kinds,
         answer' \in {"none", "ok", "failed", "cancelled", "lost"},
         wanted' \in Archives \cup {None}, listed' \in SUBSET Dirs, dirs' \in SUBSET Dirs,
         dir' \in Dirs \cup {None}, copied' \in {"nothing", "all", "part"}
  PROVE  ArchiveTypeOK' /\ CacheSound'
BY DEF ArchiveIInv, Quiet, ArchiveTypeOK, CacheSound, cacheVars, extractVars, nodeVars

LEMMA QuietSteps ==
  ASSUME ArchiveIInv,
         \/ \E k \in Kinds : Begin(k)
         \/ \E a \in Archives : Choose(a)
         \/ ChooseNone \/ NodeStopped
         \/ \E a \in Archives, list \in Listings : Fetch(a, list)
         \/ FetchFails \/ BeginDownload \/ PlanFails \/ NodeStarted \/ Probed \/ Recovered
  PROVE  ArchiveIInv'
<1> USE Names
<1> DEFINE Sound == StepSound' /\ WorkspaceSound' /\ DoneSound'
<1>1. CASE \E k \in Kinds : Begin(k)
  <2> PICK k \in Kinds : Begin(k)
    BY <1>1
  <2>1. ArchiveTypeOK' /\ CacheSound'
    BY QuietKeeps DEF Begin, Quiet, Steps, Kinds
  <2>2. Sound
    BY DEF Begin, StepSound, WorkspaceSound, DoneSound, Busy, Wanting, Copying, Kinds, Downloads
  <2> QED BY <2>1, <2>2 DEF ArchiveIInv
<1>2. CASE \E a \in Archives : Choose(a)
  <2> PICK a \in Archives : Choose(a)
    BY <1>2
  <2>1. ArchiveTypeOK' /\ CacheSound'
    BY QuietKeeps DEF Choose, Quiet, Steps, Await, ArchiveIInv, ArchiveTypeOK
  <2>2. Sound
    BY DEF Choose, Await, ArchiveIInv, StepSound, WorkspaceSound, DoneSound, Busy, Wanting,
           Copying, Kinds, Downloads
  <2> QED BY <2>1, <2>2 DEF ArchiveIInv
<1>3. CASE ChooseNone \/ FetchFails \/ Recovered
  <2>1. ArchiveTypeOK' /\ CacheSound'
    BY <1>3, QuietKeeps DEF ChooseNone, FetchFails, Recovered, Quiet, Steps, Return,
       ArchiveIInv, ArchiveTypeOK
  <2>2. Sound
    BY <1>3 DEF ChooseNone, FetchFails, Recovered, Return, ArchiveIInv, StepSound,
       WorkspaceSound, DoneSound, Busy, Wanting, Copying
  <2> QED BY <2>1, <2>2 DEF ArchiveIInv
<1>4. CASE NodeStopped
  <2>1. ArchiveTypeOK' /\ CacheSound'
    BY <1>4, QuietKeeps DEF NodeStopped, Quiet, Steps, Await, Return, ArchiveIInv, ArchiveTypeOK
  <2>2. Sound
    BY <1>4 DEF NodeStopped, Await, Return, ArchiveIInv, ArchiveTypeOK, StepSound,
       WorkspaceSound, DoneSound, Busy, Wanting, Copying, Kinds, Downloads
  <2> QED BY <2>1, <2>2 DEF ArchiveIInv
<1>5. CASE \E a \in Archives, list \in Listings : Fetch(a, list)
  <2> PICK a \in Archives, list \in Listings : Fetch(a, list)
    BY <1>5
  <2>1. ArchiveTypeOK' /\ CacheSound'
    BY QuietKeeps DEF Fetch, Quiet, Steps, Await, ArchiveIInv, ArchiveTypeOK
  <2>2. Sound
    BY DEF Fetch, Await, ArchiveIInv, StepSound, WorkspaceSound, DoneSound, Busy, Wanting,
           Copying, Kinds, Downloads
  <2> QED BY <2>1, <2>2 DEF ArchiveIInv
<1>6. CASE BeginDownload
  <2>1. ArchiveTypeOK' /\ CacheSound'
    BY <1>6, QuietKeeps DEF BeginDownload, Quiet, Steps, Await, ArchiveIInv, ArchiveTypeOK
  <2>2. Sound
    BY <1>6 DEF BeginDownload, Await, cacheVars, ArchiveIInv, StepSound, WorkspaceSound,
       DoneSound, Busy, Wanting, Copying
  <2> QED BY <2>1, <2>2 DEF ArchiveIInv
<1>7. CASE PlanFails
  <2>1. ArchiveTypeOK' /\ CacheSound'
    BY <1>7, QuietKeeps DEF PlanFails, Fail, Quiet, Steps, Await, Return, ArchiveIInv,
       ArchiveTypeOK
  <2>2. Sound
    BY <1>7 DEF PlanFails, Fail, Await, Return, ArchiveIInv, StepSound, WorkspaceSound,
       DoneSound, Busy, Wanting, Copying
  <2> QED BY <2>1, <2>2 DEF ArchiveIInv
<1>8. CASE NodeStarted \/ Probed
  <2>1. ArchiveTypeOK' /\ CacheSound'
    BY <1>8, QuietKeeps DEF NodeStarted, Probed, Quiet, Steps, Await, Return, ArchiveIInv,
       ArchiveTypeOK
  <2>2. Sound
    BY <1>8 DEF NodeStarted, Probed, Await, Return, nodeVars, ArchiveIInv, StepSound,
       WorkspaceSound, DoneSound, Restored, Busy, Wanting, Copying
  <2> QED BY <2>1, <2>2 DEF ArchiveIInv
<1> QED BY <1>1, <1>2, <1>3, <1>4, <1>5, <1>6, <1>7, <1>8

-----------------------------------------------------------------------------
\* The cache

LEMMA CacheSteps ==
  ASSUME ArchiveIInv,
         UseCached \/ \E body \in Contents : Download(body)
  PROVE  ArchiveIInv'
<1> USE Names
<1> wanted \in Archives
  BY DEF ArchiveIInv, StepSound, Wanting, UseCached, Download
<1> DEFINE Sound == StepSound' /\ WorkspaceSound' /\ DoneSound'
<1>1. CASE UseCached
  <2>1. ArchiveTypeOK'
    BY <1>1 DEF UseCached, Await, ArchiveIInv, ArchiveTypeOK, Steps, Contents, extractVars, nodeVars, cacheVars
  <2>2. CacheSound'
    BY <1>1 DEF UseCached, ArchiveIInv, ArchiveTypeOK, CacheSound, StampMatches, HashMatches, extractVars, cacheVars
  <2>3. Sound
    BY <1>1 DEF UseCached, Await, StampMatches, HashMatches, extractVars, cacheVars, nodeVars, ArchiveIInv,
       ArchiveTypeOK, CacheSound, StepSound, WorkspaceSound, DoneSound, Busy, Wanting, Copying
  <2> QED BY <2>1, <2>2, <2>3 DEF ArchiveIInv
<1>2. CASE \E body \in Contents : Download(body)
  <2> PICK body \in Contents : Download(body)
    BY <1>2
  <2>1. ArchiveTypeOK'
    <3>1. file' \in [Archives -> Contents] /\ stamp' \in [Archives -> Contents]
      <4>1. file \in [Archives -> Contents] /\ stamp \in [Archives -> Contents]
        BY DEF ArchiveIInv, ArchiveTypeOK
      <4>2. "absent" \in Contents
        BY DEF Contents
      <4>3. /\ file' = [file EXCEPT ![wanted] = IF body = wanted THEN body ELSE "absent"]
            /\ stamp' = IF body = wanted THEN [stamp EXCEPT ![wanted] = body] ELSE stamp
        BY DEF Download
      <4> QED BY <4>1, <4>2, <4>3
    <3> QED
      BY <3>1 DEF Download, Await, Return, ArchiveIInv, ArchiveTypeOK, Steps, extractVars, nodeVars
  <2>2. CacheSound'
    BY DEF Download, ArchiveIInv, ArchiveTypeOK, CacheSound, extractVars
  <2>3. Sound
    BY DEF Download, Await, Return, extractVars, nodeVars, ArchiveIInv,
       ArchiveTypeOK, CacheSound, StepSound, WorkspaceSound, DoneSound, Busy, Wanting, Copying
  <2> QED BY <2>1, <2>2, <2>3 DEF ArchiveIInv
<1> QED BY <1>1, <1>2

LEMMA CrashKeeps == ASSUME ArchiveIInv, Crash PROVE ArchiveIInv'
<1> USE Names
<1>1. ArchiveTypeOK'
  BY DEF Crash, Return, ArchiveIInv, ArchiveTypeOK, StepSound, Wanting, Steps, extractVars, nodeVars
<1>2. CacheSound'
  BY DEF Crash, ArchiveIInv, CacheSound, extractVars
<1>3. StepSound' /\ WorkspaceSound' /\ DoneSound'
  BY DEF Crash, Return, StepSound, WorkspaceSound, DoneSound, Busy, Wanting, Copying
<1> QED BY <1>1, <1>2, <1>3 DEF ArchiveIInv

-----------------------------------------------------------------------------
\* The workspaces

LEMMA WorkspaceIs ==
  ASSUME ArchiveIInv, pc \in {"planning"} \cup Copying
  PROVE  /\ wanted \in Archives
         /\ Workspace \in Workspaces
         /\ kind \in Downloads => Workspace = wanted /\ wanted # "local"
         /\ kind \notin Downloads => kind = "local" /\ Workspace = "local"
         /\ Source = wanted
BY Names DEF ArchiveIInv, ArchiveTypeOK, Kinds, Downloads, StepSound, WorkspaceSound, Wanting,
   Copying, Workspace, Workspaces, Source

LEMMA PlanSteps == ASSUME ArchiveIInv, Plan PROVE ArchiveIInv'
<1> USE Names
<1> DEFINE w == Workspace
<1>1. /\ pc = "planning" /\ wanted \in Archives /\ w \in Workspaces /\ Source = wanted
      /\ kind \in Downloads => w = wanted /\ wanted # "local"
      /\ kind \notin Downloads => kind = "local" /\ w = "local"
  BY WorkspaceIs DEF Plan
<1>2. Restorable \in SUBSET Dirs /\ Restorable # {}
  <2>1. Holds[Source] \in SUBSET Dirs /\ Holds[Source] # {}
    BY <1>1 DEF Plan
  <2>2. planned[wanted] \in SUBSET Dirs /\ listed \in SUBSET Dirs
    BY <1>1 DEF ArchiveIInv, ArchiveTypeOK, Workspaces
  <2> QED BY <2>1, <2>2 DEF Restorable
<1>3. Resumed(w) \in SUBSET Restorable /\ Resumed(w) \subseteq completed[w]
  BY DEF Resumed
<1>4. \E c \in SUBSET Restorable :
        /\ completed' = [completed EXCEPT ![w] = c]
        /\ kind \in Downloads => c \subseteq completed[w] /\ UNCHANGED extracted
        /\ kind = "local" => c = {} /\ extracted' = [extracted EXCEPT ![w] = [d \in Dirs |-> "absent"]]
  <2>1. CASE kind = "local"
    BY <2>1 DEF Plan, Downloads
  <2>2. CASE kind # "local"
    BY <2>2, <1>3 DEF Plan
  <2> QED BY <2>1, <2>2
<1> PICK c \in SUBSET Restorable :
        /\ completed' = [completed EXCEPT ![w] = c]
        /\ kind \in Downloads => c \subseteq completed[w] /\ UNCHANGED extracted
        /\ kind = "local" => c = {} /\ extracted' = [extracted EXCEPT ![w] = [d \in Dirs |-> "absent"]]
  BY <1>4
<1>5. /\ planned' = [planned EXCEPT ![w] = Restorable] /\ dirs' = Restorable
      /\ pc' = "extracting"
      /\ UNCHANGED <<kind, answer, wanted, listed, dir, copied, file, stamp, nodeVars>>
  BY DEF Plan, Await, cacheVars
<1> HIDE DEF w
<1>6. /\ planned' \in [Workspaces -> SUBSET Dirs]
      /\ completed' \in [Workspaces -> SUBSET Dirs]
      /\ \A v \in Workspaces : completed'[v] \subseteq planned'[v]
      /\ extracted' \in [Workspaces -> [Dirs -> Contents]]
  <2>1. planned' \in [Workspaces -> SUBSET Dirs] /\ completed' \in [Workspaces -> SUBSET Dirs]
    BY <1>2, <1>5 DEF ArchiveIInv, ArchiveTypeOK
  <2>2. \A v \in Workspaces : completed'[v] \subseteq planned'[v]
    BY <1>1, <1>5 DEF ArchiveIInv, ArchiveTypeOK
  <2>3. extracted' \in [Workspaces -> [Dirs -> Contents]]
    <3>1. CASE kind \in Downloads
      BY <3>1 DEF ArchiveIInv, ArchiveTypeOK
    <3>2. CASE kind \notin Downloads
      BY <1>1, <3>2 DEF ArchiveIInv, ArchiveTypeOK, Contents
    <3> QED BY <3>1, <3>2
  <2> QED BY <2>1, <2>2, <2>3
<1>7. ArchiveTypeOK'
  BY <1>2, <1>5, <1>6 DEF ArchiveIInv, ArchiveTypeOK, Steps, nodeVars
<1>8. CacheSound'
  BY <1>1, <1>5 DEF ArchiveIInv, ArchiveTypeOK, CacheSound, Workspaces, Kinds
<1>9. StepSound' /\ DoneSound'
  BY <1>1, <1>5 DEF ArchiveIInv, StepSound, DoneSound, Busy, Wanting
<1>10. WorkspaceSound'
  <2>1. Workspace' = w /\ planned'[w] = dirs'
    BY <1>1, <1>5 DEF w, Workspace, ArchiveIInv, ArchiveTypeOK
  <2>2. kind \in Downloads => file'[wanted'] = wanted'
    BY <1>1, <1>5 DEF ArchiveIInv, WorkspaceSound
  <2>3. kind = "local" => completed'["local"] = {}
    BY <1>1 DEF ArchiveIInv, ArchiveTypeOK, Workspaces, Downloads
  <2> QED BY <1>2, <1>5, <2>1, <2>2, <2>3 DEF WorkspaceSound, Copying
<1> QED BY <1>7, <1>8, <1>9, <1>10 DEF ArchiveIInv

LEMMA BeginExtractionKeeps ==
  ASSUME ArchiveIInv, NEW d \in Dirs, BeginExtraction(d) PROVE ArchiveIInv'
<1> USE Names
<1>1. /\ pc = "extracting" /\ Workspace \in Workspaces
      /\ kind \in Downloads => Workspace = wanted /\ wanted # "local"
      /\ kind \notin Downloads => kind = "local" /\ Workspace = "local"
  BY WorkspaceIs DEF BeginExtraction, Copying
<1>2. /\ pc' = "untarring" /\ dir' = d /\ d \in dirs /\ d \notin completed[Workspace]
      /\ extracted' = [extracted EXCEPT ![Workspace][d] = "partial"]
      /\ UNCHANGED <<kind, answer, wanted, listed, dirs, copied, file, stamp, planned, completed, nodeVars>>
  BY DEF BeginExtraction, Pending, Await, cacheVars
<1>3. Workspace' = Workspace
  BY <1>2 DEF Workspace
<1>4. extracted' \in [Workspaces -> [Dirs -> Contents]]
  BY <1>1, <1>2 DEF ArchiveIInv, ArchiveTypeOK, Contents
<1>5. ArchiveTypeOK'
  BY <1>2, <1>4 DEF ArchiveIInv, ArchiveTypeOK, Steps, nodeVars
<1>6. \A v \in Workspaces : \A e \in completed[v] : extracted'[v][e] = extracted[v][e]
  BY <1>1, <1>2 DEF ArchiveIInv, ArchiveTypeOK
<1>7. CacheSound'
  BY <1>2, <1>6 DEF ArchiveIInv, CacheSound, Workspaces
<1>8. StepSound' /\ DoneSound'
  BY <1>1, <1>2 DEF ArchiveIInv, StepSound, DoneSound, Busy, Wanting
<1>9. WorkspaceSound'
  BY <1>1, <1>2, <1>3, <1>6 DEF ArchiveIInv, WorkspaceSound, Copying, Workspaces
<1> QED BY <1>5, <1>7, <1>8, <1>9 DEF ArchiveIInv

LEMMA ExtractedKeeps == ASSUME ArchiveIInv, Extracted PROVE ArchiveIInv'
<1> USE Names
<1>1. /\ pc = "untarring" /\ Workspace \in Workspaces /\ wanted \in Archives /\ Source = wanted
      /\ kind \in Downloads => Workspace = wanted /\ wanted # "local"
      /\ kind \notin Downloads => kind = "local" /\ Workspace = "local"
  BY WorkspaceIs DEF Extracted, Copying
<1>2. dir \in Dirs /\ dir \in dirs /\ planned[Workspace] = dirs /\ dirs # {}
  BY <1>1 DEF ArchiveIInv, ArchiveTypeOK, WorkspaceSound, Copying
<1>3. /\ pc' = "extracting" /\ dir' = None
      /\ extracted' = [extracted EXCEPT ![Workspace][dir] = wanted]
      /\ completed' = [completed EXCEPT ![Workspace] = completed[Workspace] \cup {dir}]
      /\ UNCHANGED <<kind, answer, wanted, listed, dirs, copied, file, stamp, planned, nodeVars>>
  BY <1>1 DEF Extracted, Await, cacheVars
<1>4. Workspace' = Workspace
  BY <1>3 DEF Workspace
<1>5. /\ extracted' \in [Workspaces -> [Dirs -> Contents]]
      /\ completed' \in [Workspaces -> SUBSET Dirs]
  BY <1>1, <1>2, <1>3 DEF ArchiveIInv, ArchiveTypeOK, Contents
<1>6. \A v \in Workspaces : completed'[v] \subseteq planned'[v]
  BY <1>1, <1>2, <1>3 DEF ArchiveIInv, ArchiveTypeOK
<1>7. ArchiveTypeOK'
  BY <1>3, <1>5, <1>6 DEF ArchiveIInv, ArchiveTypeOK, Steps, nodeVars
<1>8. \A v \in Workspaces : \A e \in completed'[v] :
        \/ v = Workspace /\ e = dir /\ extracted'[v][e] = wanted
        \/ e \in completed[v] /\ extracted'[v][e] \in {extracted[v][e], wanted} /\ v = Workspace
        \/ e \in completed[v] /\ extracted'[v][e] = extracted[v][e]
  BY <1>1, <1>2, <1>3 DEF ArchiveIInv, ArchiveTypeOK
<1>9. CacheSound'
  BY <1>1, <1>3, <1>8 DEF ArchiveIInv, ArchiveTypeOK, CacheSound, Workspaces
<1>10. StepSound' /\ DoneSound'
  BY <1>1, <1>3 DEF ArchiveIInv, StepSound, DoneSound, Busy, Wanting
<1>11. WorkspaceSound'
  BY <1>1, <1>2, <1>3, <1>4, <1>8 DEF ArchiveIInv, WorkspaceSound, Copying, Workspaces
<1> QED BY <1>7, <1>9, <1>10, <1>11 DEF ArchiveIInv

\* A local restore that removes its workspace.
LEMMA EmptiedKeeps ==
  ASSUME ArchiveIInv, Emptied("local")
  PROVE  /\ planned' \in [Workspaces -> SUBSET Dirs] /\ completed' \in [Workspaces -> SUBSET Dirs]
         /\ \A w \in Workspaces : completed'[w] \subseteq planned'[w]
         /\ extracted' \in [Workspaces -> [Dirs -> Contents]]
         /\ \A a \in Archives : completed'[a] = completed[a] /\ extracted'[a] = extracted[a]
<1> USE Names
<1>1. [d \in Dirs |-> "absent"] \in [Dirs -> Contents]
  BY DEF Contents
<1> QED BY <1>1 DEF ArchiveIInv, ArchiveTypeOK, Emptied, Workspaces

LEMMA ExtractionFailsKeeps == ASSUME ArchiveIInv, ExtractionFails PROVE ArchiveIInv'
<1> USE Names
<1>1. pc = "untarring" /\ wanted \in Archives
  BY DEF ExtractionFails, ArchiveIInv, StepSound, Wanting
<1>2. \/ pc' = "recovering" /\ kind = "local" /\ UNCHANGED <<kind, answer>>
      \/ pc' = "idle" /\ answer' = "failed" /\ UNCHANGED kind
  BY DEF ExtractionFails, Fail, Await, Return
<1>3. UNCHANGED <<wanted, listed, dirs, dir, copied, file, stamp, nodeVars>>
  BY DEF ExtractionFails, cacheVars
<1>4. /\ planned' \in [Workspaces -> SUBSET Dirs] /\ completed' \in [Workspaces -> SUBSET Dirs]
      /\ \A w \in Workspaces : completed'[w] \subseteq planned'[w]
      /\ extracted' \in [Workspaces -> [Dirs -> Contents]]
      /\ \A a \in Archives : completed'[a] = completed[a] /\ extracted'[a] = extracted[a]
  <2>1. CASE kind = "local"
    BY <2>1, EmptiedKeeps DEF ExtractionFails
  <2>2. CASE kind # "local"
    BY <2>2 DEF ExtractionFails, extractVars, ArchiveIInv, ArchiveTypeOK
  <2> QED BY <2>1, <2>2
<1>5. ArchiveTypeOK'
  BY <1>2, <1>3, <1>4 DEF ArchiveIInv, ArchiveTypeOK, Steps, nodeVars
<1>6. CacheSound'
  BY <1>3, <1>4 DEF ArchiveIInv, CacheSound
<1>7. answer = "none" /\ copied = "nothing"
  BY <1>1 DEF ArchiveIInv, StepSound, Busy
<1>8. StepSound' /\ WorkspaceSound' /\ DoneSound'
  BY <1>1, <1>2, <1>3, <1>7 DEF StepSound, WorkspaceSound, DoneSound, Busy, Wanting, Copying
<1> QED BY <1>5, <1>6, <1>8 DEF ArchiveIInv

-----------------------------------------------------------------------------
\* The copy

\* What is copied is the wanted archive.
LEMMA PlacedIsWanted ==
  ASSUME ArchiveIInv, pc = "extracting", Pending = {}
  PROVE  /\ wanted \in Archives /\ dirs # {} /\ dirs \in SUBSET Dirs
         /\ \A replaced \in SUBSET dirs :
              Placed(replaced) = [d \in Dirs |-> IF d \in replaced THEN wanted
                                   ELSE IF d \in Reset THEN "absent" ELSE base[d]]
<1> USE Names
<1>1. /\ wanted \in Archives /\ Workspace \in Workspaces
      /\ kind \in Downloads => Workspace = wanted
      /\ kind \notin Downloads => kind = "local" /\ Workspace = "local"
  BY WorkspaceIs DEF Copying
<1>2. \A d \in dirs : extracted[Workspace][d] = wanted
  BY <1>1 DEF Pending, ArchiveIInv, CacheSound, WorkspaceSound, Copying
<1>3. dirs # {} /\ dirs \in SUBSET Dirs
  BY DEF ArchiveIInv, ArchiveTypeOK, WorkspaceSound, Copying
<1> QED BY <1>1, <1>2, <1>3 DEF Placed

LEMMA PlaceKeeps == ASSUME ArchiveIInv, Place PROVE ArchiveIInv'
<1> USE Names
<1>1. /\ wanted \in Archives /\ dirs # {} /\ dirs \in SUBSET Dirs
      /\ base' = [d \in Dirs |-> IF d \in dirs THEN wanted
                                 ELSE IF d \in Reset THEN "absent" ELSE base[d]]
  BY PlacedIsWanted DEF Place
<1>2. /\ pc = "extracting" /\ copied' = "all"
      /\ UNCHANGED <<kind, wanted, listed, dirs, dir, file, stamp, configWritable>>
  BY DEF Place, cacheVars, Fail, Await, Return
<1>3. \/ /\ \/ pc' = "recovering" /\ kind = "local" /\ UNCHANGED answer
            \/ pc' = "idle" /\ answer' = "failed"
         /\ UNCHANGED verifyBlocks
      \/ /\ verifyBlocks' = (verifyBlocks \/ configWritable)
         /\ \/ kind = "url" /\ pc' = "idle" /\ answer' = "ok"
            \/ kind # "url" /\ pc' = "starting" /\ UNCHANGED answer
  BY DEF Place, Fail, Await, Return
<1>4. /\ planned' \in [Workspaces -> SUBSET Dirs] /\ completed' \in [Workspaces -> SUBSET Dirs]
      /\ \A w \in Workspaces : completed'[w] \subseteq planned'[w]
      /\ extracted' \in [Workspaces -> [Dirs -> Contents]]
      /\ \A a \in Archives : completed'[a] = completed[a] /\ extracted'[a] = extracted[a]
  <2>1. CASE kind = "local"
    BY <2>1, EmptiedKeeps DEF Place
  <2>2. CASE kind # "local"
    BY <2>2 DEF Place, extractVars, ArchiveIInv, ArchiveTypeOK
  <2> QED BY <2>1, <2>2
<1>5. base' \in [Dirs -> Contents \cup {"own"}]
  BY <1>1 DEF ArchiveIInv, ArchiveTypeOK, Contents
<1>6. verifyBlocks \in BOOLEAN /\ configWritable \in BOOLEAN /\ verifyBlocks' \in BOOLEAN
  BY <1>3 DEF ArchiveIInv, ArchiveTypeOK
<1>7. ArchiveTypeOK'
  BY <1>2, <1>3, <1>4, <1>5, <1>6 DEF ArchiveIInv, ArchiveTypeOK, Steps
<1>8. CacheSound'
  BY <1>2, <1>4 DEF ArchiveIInv, CacheSound
<1>9. StepSound' /\ WorkspaceSound'
  BY <1>1, <1>2, <1>3 DEF ArchiveIInv, ArchiveTypeOK, StepSound, WorkspaceSound, Busy, Wanting,
     Copying, Kinds, Downloads
<1>10. DoneSound'
  <2>1. (pc' \in {"starting", "probing"} \/ answer' = "ok") => verifyBlocks' = (verifyBlocks \/ configWritable)
    BY <1>2, <1>3 DEF ArchiveIInv, StepSound, Busy
  <2> QED BY <1>1, <1>2, <1>6, <2>1 DEF DoneSound, Restored
<1> QED BY <1>7, <1>8, <1>9, <1>10 DEF ArchiveIInv

LEMMA PlaceBreaksKeeps == ASSUME ArchiveIInv, PlaceBreaks PROVE ArchiveIInv'
<1> USE Names
<1>1. PICK replaced \in SUBSET dirs, broken \in dirs :
        base' = [Placed(replaced) EXCEPT ![broken] = "partial"]
  BY DEF PlaceBreaks
<1>2. /\ wanted \in Archives /\ dirs \in SUBSET Dirs
      /\ Placed(replaced) = [d \in Dirs |-> IF d \in replaced THEN wanted
                                           ELSE IF d \in Reset THEN "absent" ELSE base[d]]
  BY <1>1, PlacedIsWanted DEF PlaceBreaks
<1>3. base' \in [Dirs -> Contents \cup {"own"}]
  BY <1>1, <1>2 DEF ArchiveIInv, ArchiveTypeOK, Contents
<1>4. /\ pc = "extracting" /\ copied' = "part"
      /\ UNCHANGED <<kind, wanted, listed, dirs, dir, file, stamp, extractVars, verifyBlocks, configWritable>>
      /\ \/ pc' = "recovering" /\ kind = "local" /\ UNCHANGED answer
         \/ pc' = "idle" /\ answer' \in {"failed", "lost"}
  BY DEF PlaceBreaks, cacheVars, Fail, Await, Return
<1>5. ArchiveTypeOK'
  BY <1>3, <1>4 DEF ArchiveIInv, ArchiveTypeOK, Steps, extractVars
<1>6. CacheSound'
  BY <1>4 DEF ArchiveIInv, CacheSound, extractVars
<1>7. StepSound' /\ WorkspaceSound' /\ DoneSound'
  BY <1>2, <1>4 DEF ArchiveIInv, StepSound, WorkspaceSound, DoneSound, Busy, Wanting, Copying
<1> QED BY <1>5, <1>6, <1>7 DEF ArchiveIInv

-----------------------------------------------------------------------------
\* The theorems

LEMMA StepKeeps == ASSUME ArchiveIInv, [ArchiveNext]_vars PROVE ArchiveIInv'
<1>1. CASE ArchiveNext
  BY <1>1, QuietSteps, CacheSteps, CrashKeeps, PlanSteps, BeginExtractionKeeps, ExtractedKeeps,
     ExtractionFailsKeeps, PlaceKeeps, PlaceBreaksKeeps DEF ArchiveNext
<1>2. CASE UNCHANGED vars
  BY <1>2 DEF ArchiveIInv, ArchiveTypeOK, CacheSound, StepSound, WorkspaceSound, DoneSound,
     Restored, Busy, Workspace, vars, requestVars, cacheVars, extractVars, nodeVars
<1> QED BY <1>1, <1>2

LEMMA AlwaysSound == ArchiveSpec => []ArchiveIInv
BY InitSound, StepKeeps, PTL DEF ArchiveSpec

\* Type correctness; a workspace records as completed only directories that it plans.
THEOREM ArchiveTypes == ArchiveSpec => []ArchiveTypeOK
<1>1. ArchiveIInv => ArchiveTypeOK
  BY DEF ArchiveIInv
<1> QED BY <1>1, AlwaysSound, PTL

\* An answer "ok" is true of the database: whatever the server published meanwhile and
\* earlier requests left behind, its directories are those of the wanted archive.
THEOREM OkRestores == ArchiveSpec => []OkMeansRestored
<1>1. ArchiveIInv => OkMeansRestored
  BY DEF ArchiveIInv, DoneSound, Restored, OkMeansRestored
<1> QED BY <1>1, AlwaysSound, PTL

LEMMA StepKeepsWork == ASSUME ArchiveIInv, ArchiveNext PROVE KeepsWork
<1> USE Names
<1>1. CASE UNCHANGED <<cacheVars, extractVars>>
  BY <1>1 DEF KeepsWork, ArchiveIInv, CacheSound, cacheVars, extractVars
<1>2. CASE \/ \E k \in Kinds : Begin(k)
           \/ \E a \in Archives : Choose(a)
           \/ ChooseNone \/ NodeStopped
           \/ \E a \in Archives, list \in Listings : Fetch(a, list)
           \/ FetchFails \/ BeginDownload \/ PlanFails \/ NodeStarted \/ Probed \/ Recovered
           \/ PlaceBreaks
  <2>1. UNCHANGED cacheVars /\ UNCHANGED extractVars
    BY <1>2 DEF Begin, Choose, ChooseNone, NodeStopped, Fetch, FetchFails, BeginDownload,
       PlanFails, NodeStarted, Probed, Recovered, PlaceBreaks
  <2> QED BY <1>1, <2>1
<1>3. CASE UseCached \/ Crash \/ \E body \in Contents : Download(body)
  <2>1. CASE Crash /\ pc # "downloading"
    BY <1>1, <2>1 DEF Crash, cacheVars
  <2> SUFFICES ASSUME ~(Crash /\ pc # "downloading") PROVE KeepsWork
    BY <2>1
  <2>2. wanted \in Archives /\ (pc = "downloading" => file[wanted] = "absent")
    BY <1>3 DEF UseCached, Crash, Download, ArchiveIInv, StepSound, WorkspaceSound, Wanting
  <2>3. UNCHANGED extractVars
    BY <1>3 DEF UseCached, Crash, Download
  <2>4. \A a \in Archives : stamp[a] = a /\ file[a] = a => stamp'[a] = a /\ file'[a] = a
    BY <1>3, <2>2 DEF UseCached, Crash, Download, StampMatches, HashMatches, cacheVars, ArchiveIInv, ArchiveTypeOK
  <2> QED BY <2>3, <2>4 DEF KeepsWork, ArchiveIInv, CacheSound, extractVars
<1>4. CASE Plan
  <2>1. UNCHANGED cacheVars
    BY <1>4 DEF Plan
  <2>2. /\ wanted \in Archives /\ Workspace \in Workspaces
        /\ kind = "local" => Workspace = "local"
        /\ kind # "local" => Workspace = wanted
    BY <1>4, WorkspaceIs DEF Plan, Workspace
  <2>3. CASE kind = "local"
    <3>1. \A a \in Archives : a # "local" /\ a \in Workspaces
      BY DEF Workspaces
    <3>2. \A a \in Archives : completed'[a] = completed[a] /\ extracted'[a] = extracted[a]
      BY <1>4, <2>2, <2>3, <3>1 DEF Plan, ArchiveIInv, ArchiveTypeOK
    <3> QED BY <2>1, <3>2 DEF KeepsWork, ArchiveIInv, CacheSound, cacheVars
  <2>4. CASE kind # "local"
    <3>1. \A d \in completed[wanted] : d \in planned[wanted] /\ extracted[wanted][d] = wanted
      BY <2>2 DEF ArchiveIInv, ArchiveTypeOK, CacheSound, Workspaces
    <3>2. completed[wanted] # {} => Restorable = planned[wanted]
      BY <2>4, <3>1 DEF Restorable
    <3>3. Resumed(wanted) = completed[wanted]
      BY <2>2, <3>1, <3>2 DEF Resumed
    <3>4. completed' = [completed EXCEPT ![wanted] = completed[wanted]] /\ UNCHANGED extracted
      BY <1>4, <2>2, <2>4, <3>3 DEF Plan
    <3>5. UNCHANGED completed
      BY <2>2, <3>4 DEF ArchiveIInv, ArchiveTypeOK
    <3> QED BY <2>1, <3>4, <3>5 DEF KeepsWork, ArchiveIInv, CacheSound, cacheVars
  <2> QED BY <2>3, <2>4
<1>5. CASE (\E d \in Dirs : BeginExtraction(d)) \/ Extracted
  <2>1. UNCHANGED cacheVars
    BY <1>5 DEF BeginExtraction, Extracted
  <2>2. ArchiveIInv'
    BY <1>5, BeginExtractionKeeps, ExtractedKeeps
  <2>3. Workspace \in Workspaces
    BY <1>5, WorkspaceIs DEF BeginExtraction, Extracted, Copying
  <2>4. \A a \in Archives : completed[a] \subseteq completed'[a]
    BY <1>5, <2>3 DEF BeginExtraction, Extracted, ArchiveIInv, ArchiveTypeOK, Workspaces
  <2> QED BY <2>1, <2>2, <2>4 DEF KeepsWork, ArchiveIInv, CacheSound, cacheVars
<1>6. CASE ExtractionFails \/ Place
  <2>1. UNCHANGED cacheVars
    BY <1>6 DEF ExtractionFails, Place
  <2>2. CASE kind = "local"
    BY <1>6, <2>1, <2>2, EmptiedKeeps DEF ExtractionFails, Place, KeepsWork, ArchiveIInv, CacheSound,
       cacheVars
  <2>3. CASE kind # "local"
    BY <1>1, <1>6, <2>1, <2>3 DEF ExtractionFails, Place
  <2> QED BY <2>2, <2>3
<1> QED BY <1>2, <1>3, <1>4, <1>5, <1>6 DEF ArchiveNext

\* Failures, later requests and the end of the application leave the verified downloads
\* and the completed extractions as they are.
THEOREM WorkIsKept == ArchiveSpec => WorkKept
<1>1. ArchiveIInv /\ [ArchiveNext]_vars => [KeepsWork]_vars
  BY StepKeepsWork
<1> QED BY <1>1, AlwaysSound, PTL DEF ArchiveSpec, WorkKept

\* No step but the copy changes the database, and the copy finds every directory it
\* restores complete and from the wanted archive.
LEMMA CopyFollowsExtraction ==
  ASSUME ArchiveIInv, ArchiveNext, base' # base
  PROVE  /\ copied = "nothing" /\ copied' # "nothing"
         /\ wanted \in Archives /\ dirs # {} /\ dirs' = dirs
         /\ \A d \in dirs : extracted[Workspace][d] = wanted
<1>1. Place \/ PlaceBreaks
  BY DEF ArchiveNext, Begin, Choose, ChooseNone, NodeStopped, Fetch, FetchFails, UseCached,
     BeginDownload, Download, Plan, PlanFails, BeginExtraction, Extracted, ExtractionFails,
     NodeStarted, Probed, Recovered, Crash, nodeVars
<1>2. pc = "extracting" /\ Pending = {}
  BY <1>1 DEF Place, PlaceBreaks
<1>3. copied' # "nothing" /\ dirs' = dirs
  BY <1>1 DEF Place, PlaceBreaks
<1>4. copied = "nothing" /\ wanted \in Archives /\ dirs # {}
  BY <1>2 DEF ArchiveIInv, StepSound, WorkspaceSound, Busy, Wanting, Copying
<1>5. \A d \in dirs : d \in completed[Workspace]
  BY <1>2 DEF Pending
<1>6. \A d \in completed[Workspace] : extracted[Workspace][d] = wanted
  BY <1>2, WorkspaceIs DEF ArchiveIInv, CacheSound, WorkspaceSound, Copying
<1> QED BY <1>3, <1>4, <1>5, <1>6

\* The node keeps the database it has until the one that replaces it is complete.
THEOREM DatabaseReplacedWhole == ArchiveSpec => ExtractedFirst
<1>1. ArchiveIInv /\ [ArchiveNext]_vars =>
        [base' # base =>
           /\ copied = "nothing" /\ copied' # "nothing"
           /\ wanted \in Archives /\ dirs # {} /\ dirs' = dirs
           /\ \A d \in dirs : extracted[Workspace][d] = wanted]_vars
  BY CopyFollowsExtraction
<1> QED BY <1>1, AlwaysSound, PTL DEF ArchiveSpec, ExtractedFirst

-----------------------------------------------------------------------------
\* The refinement

LEMMA InitImplements == ArchiveInit => Restore!Init
BY DEF ArchiveInit, Restore!Init, Phase, Busy

LEMMA StepImplements ==
  ASSUME ArchiveIInv, ArchiveNext PROVE Restore!Next \/ UNCHANGED <<base, wanted, Phase>>
<1> USE Names
<1>1. CASE \E k \in Kinds : Begin(k)
  <2>1. Restore!Request
    BY <1>1 DEF Begin, Phase, Busy, nodeVars, Restore!Request, Restore!Answered, ArchiveIInv,
       ArchiveTypeOK
  <2> QED BY <2>1 DEF Restore!Next
<1>2. CASE (\E a \in Archives : Choose(a)) \/ \E a \in Archives, list \in Listings : Fetch(a, list)
  <2>1. Restore!Want
    BY <1>2 DEF Choose, Fetch, Await, Phase, Busy, nodeVars, Restore!Want, ArchiveIInv, StepSound
  <2> QED BY <2>1 DEF Restore!Next
<1>3. CASE Crash
  <2>1. Restore!Lose
    BY <1>3 DEF Crash, Return, Phase, Busy, nodeVars, Restore!Lose, Restore!Answered, ArchiveIInv,
       StepSound
  <2> QED BY <2>1 DEF Restore!Next
<1>4. CASE Place
  <2>1. /\ wanted \in Archives /\ dirs # {} /\ dirs \in SUBSET Dirs
        /\ base' = [d \in Dirs |-> IF d \in dirs THEN wanted
                                   ELSE IF d \in Reset THEN "absent" ELSE base[d]]
    BY <1>4, PlacedIsWanted DEF Place
  <2>2. Phase = "asked" /\ Phase' \in {"replaced", "ok", "failed"}
    BY <1>4 DEF Place, Fail, Await, Return, Phase, Busy, ArchiveIInv, StepSound
  <2>3. UNCHANGED wanted
    BY <1>4 DEF Place
  <2>4. Restore!Replace
    BY <2>1, <2>2, <2>3 DEF Restore!Replace
  <2> QED BY <2>4 DEF Restore!Next
<1>5. CASE PlaceBreaks
  <2>1. PICK replaced \in SUBSET dirs, broken \in dirs :
          base' = [Placed(replaced) EXCEPT ![broken] = "partial"]
    BY <1>5 DEF PlaceBreaks
  <2>2. /\ wanted \in Archives
        /\ Placed(replaced) = [d \in Dirs |-> IF d \in replaced THEN wanted
                                             ELSE IF d \in Reset THEN "absent" ELSE base[d]]
    BY <1>5, <2>1, PlacedIsWanted DEF PlaceBreaks
  <2>3. Phase = "asked" /\ Phase' \in {"torn", "failed", "lost"}
    BY <1>5 DEF PlaceBreaks, Fail, Await, Return, Phase, Busy, ArchiveIInv, StepSound
  <2>4. UNCHANGED wanted
    BY <1>5 DEF PlaceBreaks
  <2>5. base' \in [Dirs -> Archives \cup {"own", "absent", "partial"}]
    BY <2>1, <2>2 DEF ArchiveIInv, ArchiveTypeOK, Contents
  <2>6. \A d \in Dirs : base'[d] \in {base[d], "absent", "partial", wanted}
    BY <2>1, <2>2 DEF ArchiveIInv, ArchiveTypeOK
  <2>7. Restore!Tear
    BY <2>2, <2>3, <2>4, <2>5, <2>6 DEF Restore!Tear
  <2> QED BY <2>7 DEF Restore!Next
<1>6. CASE NodeStarted \/ Probed
  <2>1. Phase = "replaced" /\ Phase' \in {"replaced", "ok", "failed"}
    BY <1>6 DEF NodeStarted, Probed, Await, Return, Phase, Busy, ArchiveIInv, StepSound, DoneSound,
       Restored
  <2>2. UNCHANGED <<base, wanted>>
    BY <1>6 DEF NodeStarted, Probed, nodeVars
  <2> QED BY <2>1, <2>2 DEF Restore!Next, Restore!Answer
<1>7. CASE ChooseNone \/ NodeStopped \/ FetchFails \/ PlanFails \/ Recovered \/ ExtractionFails
           \/ \E body \in Contents : Download(body)
  <2> DEFINE Fails == /\ copied' = copied /\ pc # "idle"
                      /\ \/ pc' # "idle" /\ answer' = answer
                         \/ pc' = "idle" /\ answer' \in {"failed", "cancelled"}
  <2>1. ASSUME ChooseNone \/ NodeStopped \/ FetchFails \/ Recovered PROVE Fails
    BY <2>1 DEF ChooseNone, NodeStopped, FetchFails, Recovered, Await, Return
  <2>2. ASSUME PlanFails \/ ExtractionFails PROVE Fails
    BY <2>2 DEF PlanFails, ExtractionFails, Fail, Await, Return
  <2>3. ASSUME NEW body \in Contents, Download(body) PROVE Fails
    BY <2>3 DEF Download, Await, Return
  <2>4. Fails
    BY <1>7, <2>1, <2>2, <2>3
  <2>5. Phase \in {"asked", "replaced", "torn"} /\ (Phase' = Phase \/ Phase' = "failed")
    BY <2>4 DEF Phase, Busy, ArchiveIInv, ArchiveTypeOK, StepSound
  <2>6. UNCHANGED <<base, wanted>>
    BY <1>7 DEF ChooseNone, NodeStopped, FetchFails, PlanFails, Recovered, ExtractionFails, Download,
       nodeVars
  <2> QED BY <2>5, <2>6 DEF Restore!Next, Restore!Answer
<1>8. CASE UseCached \/ BeginDownload \/ Plan \/ (\E d \in Dirs : BeginExtraction(d)) \/ Extracted
  <2>1. UNCHANGED <<base, wanted>>
    BY <1>8 DEF UseCached, BeginDownload, Plan, BeginExtraction, Extracted, nodeVars
  <2>2. UNCHANGED Phase
    BY <1>8 DEF UseCached, BeginDownload, Plan, BeginExtraction, Extracted, Await, Phase, Busy
  <2> QED BY <2>1, <2>2
<1> QED BY <1>1, <1>2, <1>3, <1>4, <1>5, <1>6, <1>7, <1>8 DEF ArchiveNext

\* Every restore of an archive is a restore of the database as DatabaseRestore states it.
THEOREM ArchiveImplementsDatabaseRestore == ArchiveSpec => ImplementsDatabaseRestore
<1>1. ArchiveIInv /\ [ArchiveNext]_vars => [Restore!Next]_<<base, wanted, Phase>>
  BY StepImplements DEF vars, requestVars, nodeVars, Phase, Busy
<1> QED BY <1>1, InitImplements, AlwaysSound, PTL
        DEF ArchiveSpec, ImplementsDatabaseRestore, Restore!RestoreSpec, Restore!vars
=============================================================================
