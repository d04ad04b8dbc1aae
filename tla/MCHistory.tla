----------------------------- MODULE MCHistory -----------------------------
(***************************************************************************)
(* The history of changes to two nodes.                                     *)
(***************************************************************************)
EXTENDS MCTopology, TopologyHistory
=============================================================================
