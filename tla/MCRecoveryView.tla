--------------------------- MODULE MCRecoveryView ---------------------------
(* Values for model checking RecoveryView.                                 *)
EXTENDS RecoveryView

MCPolicies == {[window |-> 1, margin |-> 2, uncertainty |-> 1]}
=============================================================================
