----------------------------- MODULE MCDbEngine -----------------------------
(* Model values and symmetry for the runs of DbEngine.                      *)
EXTENDS DbEngine
=============================================================================
