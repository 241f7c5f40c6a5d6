------------------------- MODULE MCRecoveryCoverage -------------------------
(* Values for model checking RecoveryCoverage.                             *)
EXTENDS RecoveryCoverage

MCPolicies == {[window |-> 3, margin |-> 2, uncertainty |-> 1],
               [window |-> 1, margin |-> 2, uncertainty |-> 1]}
=============================================================================
