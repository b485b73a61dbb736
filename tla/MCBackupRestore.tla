-------------------------- MODULE MCBackupRestore --------------------------
(* The operations are interchangeable. *)
EXTENDS BackupRestore, TLC

OpSymmetry == Permutations(Ops)
=============================================================================
