------------------------- MODULE MCWorkspaceRetention -------------------------
(* Instances of WorkspaceRetention for TLC. *)
EXTENDS WorkspaceRetention, TLC

Rounds == 1..1

(* The server alone, with failing writes and crashes; the server and the   *)
(* prune command; both, and either may die.                                *)
Environments ==
    {[cli |-> FALSE, crash |-> TRUE,  io |-> TRUE,  maxCount |-> 1],
     [cli |-> TRUE,  crash |-> FALSE, io |-> TRUE,  maxCount |-> 2],
     [cli |-> TRUE,  crash |-> TRUE,  io |-> FALSE, maxCount |-> 2]}

Symmetry == Permutations(Workspace) \cup Permutations(Mission)
=============================================================================
