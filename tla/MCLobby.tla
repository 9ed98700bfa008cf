------------------------------ MODULE MCLobby ------------------------------
(***************************************************************************)
(* Model checking of Lobby: three connections for three seats, the size of *)
(* players[] in the code.  One of the users asks for the scores; two, on   *)
(* whichever seats they come to sit, may leave at any moment.  Sockets are *)
(* not interchangeable.                                                    *)
(***************************************************************************)
EXTENDS Lobby

CONSTANTS k1, k2, k3, none

ThreeSockets == {k1, k2, k3}
OneTalker    == {k1}
TwoQuitters  == {k1, k2}
=============================================================================
