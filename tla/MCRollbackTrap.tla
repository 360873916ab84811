----------------------------- MODULE MCRollbackTrap -----------------------------
(***************************************************************************)
(* Three Pods, the first of them below the partition, a bad template to    *)
(* roll out and to take back, and a third one that repairs it.             *)
(***************************************************************************)
EXTENDS RollbackTrap

CONSTANTS first, bad, fixed

MCRevisions == {first, bad, fixed}
MCGood      == {first, fixed}
=============================================================================
