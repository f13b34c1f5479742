------------------------ MODULE MCBackupOperations ------------------------
(* Instances of BackupOperations for TLC. *)
EXTENDS BackupOperations

AllKinds == {"create", "local", "fetched"}
=============================================================================
