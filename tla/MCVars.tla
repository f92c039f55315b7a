-------------------------------- MODULE MCVars --------------------------------
(* All device paths of at most two nodes, with two partitions.               *)
EXTENDS Vars

MCPaths == UNION { [1 .. n -> Node] : n \in 0 .. 2 }
=============================================================================
