------------------------------- MODULE Cards -------------------------------
(***************************************************************************)
(* cards.h and the functions of serveur.c and joueur.c that compute with   *)
(* cards: the new deck, the loser of a trick and the points of a pile.     *)
(* card_const is an enumeration, so a suit is its number: 0 to NSuits - 1  *)
(* for the ordinary suits and NSuits for the Payoos.                       *)
(***************************************************************************)
EXTENDS Naturals, Sequences, SequencesExt

CONSTANTS NSuits,         \* ordinary suits (4)
          SuitSize,       \* cards of an ordinary suit (10)
          PayooSize,      \* Payoo cards (20)
          PapayooNumber,  \* the number of the papayoo in its suit (7)
          PapayooPoints,  \* what the papayoo costs (40)
          EcartSize       \* cards of an ecart (5)

ASSUME CardsAssumption ==
  /\ NSuits \in Nat \ {0} /\ SuitSize \in Nat \ {0} /\ PayooSize \in Nat
  /\ PapayooNumber \in 1..SuitSize /\ PapayooPoints \in Nat /\ EcartSize \in Nat \ {0}

DeckSize == NSuits * SuitSize + PayooSize
Payoo    == NSuits
Suits    == 0..NSuits - 1

Card == [type : Suits, number : 1..SuitSize] \cup [type : {Payoo}, number : 1..PayooSize]

\* A zeroed card, the contents of memory nobody has written.
NoCard == [type |-> 0, number |-> 0]

\* The new deck: every suit in increasing order, then the Payoos.
InitDeck ==
  [k \in 1..DeckSize |->
     IF k <= NSuits * SuitSize
     THEN [type |-> (k - 1) \div SuitSize, number |-> ((k - 1) % SuitSize) + 1]
     ELSE [type |-> Payoo, number |-> k - NSuits * SuitSize]]

\* shuffle_deck only swaps cards, so its outcome is a permutation of the deck.
Shuffled(perm) == [k \in 1..DeckSize |-> InitDeck[perm[k]]]

\* The cards of the i-th of n players: DeckSize \div n consecutive ones.
Dealt(deck, n, i) == SubSeq(deck, i * (DeckSize \div n) + 1, (i + 1) * (DeckSize \div n))

\* Mutant: the suit that was led does not bind.
LoserAnySuit(pli, n) ==
  LET best[i \in 0..n - 1] ==
        IF i = 0 THEN 0
        ELSE IF pli[i].card.number > pli[best[i - 1]].card.number THEN i ELSE best[i - 1]
  IN pli[best[n - 1]].last_played

\* Who takes the trick of n cards: the highest card of the suit that was led.
Loser(pli, n) ==
  LET best[i \in 0..n - 1] ==
        IF i = 0 THEN 0
        ELSE IF /\ pli[i].card.type = pli[0].card.type
                /\ pli[i].card.number > pli[best[i - 1]].card.number
             THEN i
             ELSE best[i - 1]
  IN pli[best[n - 1]].last_played

CardPoints(card, papayoo) ==
  (IF card.type = Payoo THEN card.number ELSE 0)
  + (IF card.type = papayoo /\ card.number = PapayooNumber THEN PapayooPoints ELSE 0)

\* The sum of a sequence of numbers.
SumOf(numbers) ==
  LET sum[k \in 0..Len(numbers)] == IF k = 0 THEN 0 ELSE sum[k - 1] + numbers[k]
  IN sum[Len(numbers)]

Points(cards, papayoo) == SumOf([k \in DOMAIN cards |-> CardPoints(cards[k], papayoo)])
=============================================================================
