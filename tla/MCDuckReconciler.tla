-------------------------- MODULE MCDuckReconciler --------------------------
(* The instance of DuckReconciler that TLC checks (Duck.cfg).              *)
EXTENDS DuckReconciler

=============================================================================
