--------------------------- MODULE MCSharedMemory ---------------------------
(***************************************************************************)
(* Model checking of SharedMemory: the server, two clients and two values, *)
(* so that two readers can overlap with each other and with a write that   *)
(* changes the board; one of the clients may end at any line.              *)
(***************************************************************************)
EXTENDS SharedMemory

CONSTANTS c1, c2, srv, old, new

MCClients == {c1, c2}
MCData    == {old, new}
OneQuitter == {c1}
=============================================================================
