----------------------- MODULE MCSubManagerReconciler -----------------------
(* The instances of SubManagerReconciler that TLC checks.                  *)
EXTENDS SubManagerReconciler

=============================================================================
