---------------------------- MODULE MCEcartInput ----------------------------
(***************************************************************************)
(* Model checking of EcartInput: three cards of five, and integers of the  *)
(* heap that are, or are not, the position of a card.                      *)
(***************************************************************************)
EXTENDS EcartInput

MCNumbers == 0..DeckSize + 1
MCMemory  == {-7, 0}
=============================================================================
