-------------------------- MODULE MCThreadRunLease --------------------------
(* The instance of ThreadRunLease for TLC: the values of the constants are *)
(* model values given in the .cfg.  No symmetry: the run checks liveness.  *)
EXTENDS ThreadRunLease, TLC
=============================================================================
