--------------------------- MODULE MCContentRelay ---------------------------
(* ContentRelay on two clients and a channel of one message.  No definition *)
(* tells the clients apart, so the safety run may swap them.                *)
EXTENDS ContentRelay, TLC

Symmetry == Permutations(Clients)
=============================================================================
