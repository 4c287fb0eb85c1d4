---------------------------- MODULE MCVMRecords ----------------------------
(* Small instances of VMRecords for TLC.                                   *)
EXTENDS VMRecords, TLC

Symmetry == Permutations(Procs) \cup Permutations(VMs)
=============================================================================
