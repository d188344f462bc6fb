------------------------------ MODULE MCListener ------------------------------
(* Small servers: a few addresses, a few tasks, and small address pools.   *)
EXTENDS Listener, TLC

PeerTaskSymmetry == Permutations(Peers) \union Permutations(Tasks)
=============================================================================
