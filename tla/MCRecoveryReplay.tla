-------------------------- MODULE MCRecoveryReplay --------------------------
(* Values for model checking RecoveryReplay.                               *)
EXTENDS RecoveryReplay

MCPolicies == {[window |-> 3, margin |-> 2, uncertainty |-> 1],
               [window |-> 1, margin |-> 2, uncertainty |-> 1]}
=============================================================================
