----------------------------- MODULE MCLogInstr -----------------------------
(***************************************************************************)
(* Model-checking instance of LogInstr: the empty startup filter list    *)
(* and the symmetry of the CPUs, which nothing in the controller tells    *)
(* apart.                                                                 *)
(***************************************************************************)
EXTENDS LogInstr, TLC

MCNoStartupFilters == <<>>

CPUSymmetry == Permutations(CPUs)
=============================================================================
