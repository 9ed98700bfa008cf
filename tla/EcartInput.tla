----------------------------- MODULE EcartInput -----------------------------
(***************************************************************************)
(* send_ecart of joueur.c: the user types a line with the numbers of the   *)
(* cards to give away, again and again until convert_input_to_integer_-    *)
(* array accepts one.  The array of integers is allocated once, is never   *)
(* initialised, and keeps what the rejected lines have left in it.         *)
(*                                                                         *)
(* A line is a sequence of numbers, as strtok and atoi find them; a word   *)
(* is the number 0.  A card is known by its position in the deck.          *)
(***************************************************************************)
EXTENDS Integers, Sequences, FiniteSets, SequencesExt

CONSTANTS EcartSize,     \* the cards to give away (5)
          DeckSize,      \* deck_logical_size when the ecart is asked for
          Numbers,       \* what users type
          Memory         \* what malloc() may leave in an int

ASSUME EcartInputAssumption ==
         /\ EcartSize \in Nat \ {0} /\ DeckSize \in Nat /\ EcartSize <= DeckSize
         /\ Numbers \subseteq Int /\ Memory \subseteq Int

VARIABLES pc,               \* "read", "more" in the while loop of convert, "sent", "crashed"
          array,            \* the integers; the last one lies behind the malloc()
          number_typed_in,
          deck, sent        \* the cards of the user, and the ecart

VARIABLES line,             \* history: the numbers that convert has looked at
          garbage           \* history: the array as malloc() returned it

vars == <<pc, array, number_typed_in, deck, sent, line, garbage>>

Positions == 0..DeckSize - 1
Slots     == 0..EcartSize - 1

Init == /\ pc = "read"
        /\ array \in [0..EcartSize -> Memory]
        /\ number_typed_in = 0
        /\ deck = [p \in 1..DeckSize |-> p - 1]
        /\ sent = <<>>
        /\ line = <<>>
        /\ garbage = array

-----------------------------------------------------------------------------
(* convert_input_to_integer_array, one number at a time.                   *)

InDeck(number) == number \in 1..DeckSize

\* The loop of send_ecart: the user is asked again.  The rest of the line is lost.
Reject == pc' = "read" /\ UNCHANGED <<deck, sent, garbage>>

\* strtok finds nothing, and atoi(NULL) ends the client.
EmptyLine == /\ pc = "read"
             /\ pc' = "crashed"
             /\ line' = <<>>
             /\ UNCHANGED <<array, number_typed_in, deck, sent, garbage>>

\* Mutant: the first number is stored and not counted.
FirstNumberUncounted(n) ==
  /\ pc = "read"
  /\ line' = <<n>>
  /\ \/ /\ InDeck(n)
        /\ array' = [array EXCEPT ![0] = n - 1]
        /\ number_typed_in' = 0
        /\ pc' = "more" /\ UNCHANGED <<deck, sent, garbage>>
     \/ ~InDeck(n) /\ Reject /\ UNCHANGED <<array, number_typed_in>>

FirstNumber(n) ==
  /\ pc = "read"
  /\ line' = <<n>>
  /\ \/ /\ InDeck(n)
        /\ array' = [array EXCEPT ![0] = n - 1]
        /\ number_typed_in' = 1
        /\ pc' = "more" /\ UNCHANGED <<deck, sent, garbage>>
     \/ ~InDeck(n) /\ Reject /\ UNCHANGED <<array, number_typed_in>>

\* Mutants of the test that follows the write: it comes a number too late, or
\* a number too early.
TooManyLate  == number_typed_in + 1 > EcartSize + 1
TooManyEarly == number_typed_in + 1 >= EcartSize

TooMany == number_typed_in + 1 > EcartSize

\* The number is stored before it is counted: the first one too many goes
\* behind the array.
NextNumber(n) ==
  /\ pc = "more"
  /\ line' = Append(line, n)
  /\ \/ /\ InDeck(n)
        /\ array' = [array EXCEPT ![number_typed_in] = n - 1]
        /\ number_typed_in' = number_typed_in + 1
        /\ IF TooMany THEN Reject ELSE UNCHANGED <<pc, deck, sent, garbage>>
     \/ ~InDeck(n) /\ Reject /\ UNCHANGED <<array, number_typed_in>>

\* Mutant: only neighbours are compared.
NeighbourTwice == \E i \in Slots \ {0} : array[i] = array[i - 1]

\* "seek doublons": in the whole array, whatever the line has filled of it.
Doublons == \E i, j \in Slots : i # j /\ array[i] = array[j]

EndOfLineRejected == /\ pc = "more" /\ Doublons
                     /\ Reject
                     /\ UNCHANGED <<array, number_typed_in, line>>

\* remove_ecart: the cards that stay, each moved to the index idx that the loop
\* has come to, and the deck is cut by EcartSize.
Kept   == {i \in Positions : \A j \in Slots : array[j] # i}
idx(i) == Cardinality({p \in Kept : p < i})

remove_ecart(cards) ==
  [n \in 1..DeckSize - EcartSize |-> cards[(CHOOSE i \in Kept : idx(i) = n - 1) + 1]]

EndOfLineAccepted == /\ pc = "more" /\ ~Doublons
                     /\ pc' = "sent"
                     /\ sent' = [k \in 1..EcartSize |-> array[k - 1]]
                     /\ deck' = remove_ecart(deck)
                     /\ UNCHANGED <<array, number_typed_in, line, garbage>>

Next == \/ EmptyLine
        \/ \E n \in Numbers : FirstNumber(n) \/ NextNumber(n)
        \/ EndOfLineRejected \/ EndOfLineAccepted

Spec == Init /\ [][Next]_vars

-----------------------------------------------------------------------------
(* Properties.                                                             *)

\* No line is so long that it writes further than one integer behind the array,
\* which is inside what malloc(20) takes from the heap.
TypeOK ==
  /\ pc \in {"read", "more", "sent", "crashed"}
  /\ array \in [0..EcartSize -> Memory \cup Positions]
  /\ number_typed_in \in 0..EcartSize + 1
  /\ deck \in Seq(Positions) /\ sent \in Seq(Memory \cup Positions)
  /\ line \in Seq(Numbers)
  /\ garbage \in [0..EcartSize -> Memory]

\* What is given away is the line that was accepted, card by card: nothing of
\* the lines rejected before remains, unless the line is too short.  No line that
\* is too long is accepted.
GivesWhatWasTyped ==
  pc = "sent" => \/ Len(line) < EcartSize
                 \/ line = [k \in 1..EcartSize |-> sent[k] + 1]

\* The cards that were dealt are those the user keeps and those on their way,
\* each once, also after a line that was too short and that the numbers of older
\* lines completed; unless an integer no line has written took part.
NoCardLost ==
  pc = "sent" =>
    \/ /\ ToSet(deck) \cup ToSet(sent) = Positions
       /\ Len(deck) + Len(sent) = DeckSize
    \/ \E i \in Slots : array[i] = garbage[i] /\ array[i] \notin Positions

\* "TRUE: if the char * contains 5 integers betwen 1 and the deck size",
\* joueur.c:291: a line is refused for a number that is none of a card, for one
\* too many, or for one that comes twice, and never for what is in the memory;
\* a line that is too short may be refused or not.
Bad(numbers) == \/ \E k \in DOMAIN numbers : ~InDeck(numbers[k])
                \/ Len(numbers) # EcartSize
                \/ ~IsInjective(numbers)

RejectsOnlyBadLines == [][pc' = "read" => Bad(line')]_vars
=============================================================================
