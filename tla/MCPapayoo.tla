------------------------------ MODULE MCPapayoo ------------------------------
(***************************************************************************)
(* Small instances of Papayoo: two or three clients and decks of two to    *)
(* six cards.                                                              *)
(***************************************************************************)
EXTENDS PapayooGame

CONSTANTS c1, c2, c3

TwoClients   == {c1, c2}
ThreeClients == {c1, c2, c3}
Nobody       == {}

\* A deal of six cards that mixes the suits.
OneShuffle == {<<1, 6, 3, 4, 2, 5>>}

\* The clients are alike: for the runs that check no liveness property.
Symmetry == Permutations(Clients)

OnlyC1     == {c1}
TypeScores == {"s"}
TypeOther  == {"other"}

\* Decks of four, three and two cards.
OneShuffle4 == {<<1, 4, 3, 2>>}
OneShuffle3 == {<<1, 3, 2>>}
OneShuffle2 == {<<2, 1>>}
=============================================================================
