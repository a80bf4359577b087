----------------------------- MODULE MCReplica -----------------------------
(* A small instance of Replica: the configurations name the remote ids as *)
(* model values.                                                          *)
EXTENDS Replica
=============================================================================
