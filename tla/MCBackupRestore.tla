-------------------------- MODULE MCBackupRestore --------------------------
(* One root, two backups and one loss: a backup restored, interrupted, and *)
(* restored from the other one.                                            *)
EXTENDS BackupRestore, TLC

=============================================================================
