------------------------- MODULE MCRaftReplication -------------------------
(* Instances of RaftReplication for TLC.                                   *)
EXTENDS RaftReplication, TLC

=============================================================================
