-------------------------- MODULE MCMasterElection --------------------------
(* MasterElection for TLC.  The masters are interchangeable: nothing in the *)
(* specification names one, so the safety runs may be reduced by symmetry.  *)
EXTENDS MasterElection, TLC

MastersSymmetry == Permutations(Masters)
=============================================================================
