--------------------------- MODULE MCArchiveRestore ---------------------------
(* Instances of ArchiveRestore for TLC. *)
EXTENDS ArchiveRestore, TLC

CONSTANTS a1, a2

Directories == {"chain", "block_store", "mempool"}
RequiredDirectories == {"chain", "block_store"}
ResetDirectories == {"mempool"}

\* a2 lacks a required directory and has one that is reset.
Contained == a1 :> RequiredDirectories @@ a2 :> {"chain", "mempool"}

\* No metadata, a full listing, one that leaves a directory out, and one of a2.
MetadataLists == {{}, RequiredDirectories, {"chain"}, {"chain", "mempool"}}

\* No guard reads what an unfinished request leaves in its own variables, nor what
\* a workspace has of a directory that is not recorded as completed.
LiveState ==
  << IF answer \in {"failed", "cancelled", "lost"} THEN <<answer>> ELSE requestVars,
     cacheVars, planned, completed,
     [w \in Workspaces |-> [d \in completed[w] |-> extracted[w][d]]], nodeVars >>
=============================================================================
