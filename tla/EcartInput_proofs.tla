-------------------------- MODULE EcartInput_proofs --------------------------
(***************************************************************************)
(* For every size of the ecart and of the deck: what is given away is what *)
(* was typed, a line is rejected only for what is wrong with it, nothing   *)
(* is written behind the array but its one integer, and no card is lost.   *)
(***************************************************************************)
EXTENDS EcartInput, FiniteSetTheorems, TLAPS

\* While a line is read, the array begins with its numbers.
Filled == /\ number_typed_in = Len(line)
          /\ Len(line) \in 1..EcartSize
          /\ \A k \in 1..Len(line) : InDeck(line[k]) /\ array[k - 1] = line[k] - 1

IInv == /\ array \in [0..EcartSize -> Int]
        /\ number_typed_in \in Nat
        /\ line \in Seq(Int)
        /\ pc = "more" => Filled
        /\ GivesWhatWasTyped

-----------------------------------------------------------------------------

\* A line that fills the array is rejected at its end only when it has a number
\* twice.
LEMMA DoublonsAreTyped ==
  ASSUME array \in [0..EcartSize -> Int], line \in Seq(Int), Filled,
         Len(line) = EcartSize, Doublons
  PROVE  ~IsInjective(line)
<1>1. PICK i, j \in Slots : i # j /\ array[i] = array[j]  BY DEF Doublons
<1>2. i + 1 \in 1..Len(line) /\ j + 1 \in 1..Len(line)
  BY EcartInputAssumption DEF Slots
<1>3. line[i + 1] = line[j + 1]
  <2>1. \A k \in 1..Len(line) : line[k] = array[k - 1] + 1
    BY DEF Filled, InDeck
  <2>2. (i + 1) - 1 = i /\ (j + 1) - 1 = j  BY DEF Slots
  <2>3. line[i + 1] = array[i] + 1 /\ line[j + 1] = array[j] + 1
    BY <1>2, <2>1, <2>2
  <2> QED  BY <1>1, <2>3
<1>4. i + 1 # j + 1  BY <1>1 DEF Slots
<1> QED  BY <1>2, <1>3, <1>4 DEF IsInjective

LEMMA InitIInv == Init => IInv
<1> SUFFICES ASSUME Init PROVE IInv  OBVIOUS
<1>1. array \in [0..EcartSize -> Int]  BY EcartInputAssumption DEF Init
<1> QED  BY <1>1 DEF Init, IInv, GivesWhatWasTyped

\* Every step keeps the array beginning with the numbers of the line.
LEMMA NextIInv == IInv /\ [Next]_vars => IInv'
<1> SUFFICES ASSUME IInv, [Next]_vars PROVE IInv'  OBVIOUS
<1> USE EcartInputAssumption
<1>1. CASE EmptyLine
  BY <1>1 DEF EmptyLine, IInv, GivesWhatWasTyped
<1>2. ASSUME NEW n \in Numbers, FirstNumber(n)  PROVE IInv'
  <2>1. n \in Int /\ line' = <<n>> /\ line' \in Seq(Int) /\ Len(line') = 1 /\ line'[1] = n
    BY <1>2 DEF FirstNumber
  <2>2. CASE InDeck(n) /\ pc' = "more"
    <3>1. array' = [array EXCEPT ![0] = n - 1] /\ number_typed_in' = 1
      BY <1>2, <2>2 DEF FirstNumber
    <3>2. array' \in [0..EcartSize -> Int] /\ array'[0] = n - 1
      BY <2>1, <3>1 DEF IInv
    <3>3. Filled'
      BY <2>1, <2>2, <3>1, <3>2 DEF Filled, InDeck
    <3> QED  BY <2>1, <2>2, <3>1, <3>2, <3>3 DEF IInv, GivesWhatWasTyped
  <2>3. CASE ~InDeck(n) /\ Reject /\ UNCHANGED <<array, number_typed_in>>
    BY <2>1, <2>3 DEF Reject, IInv, GivesWhatWasTyped
  <2> QED  BY <1>2, <2>2, <2>3 DEF FirstNumber
<1>3. ASSUME NEW n \in Numbers, NextNumber(n)  PROVE IInv'
  <2>1. /\ n \in Int /\ line' = Append(line, n) /\ line' \in Seq(Int)
        /\ Len(line') = Len(line) + 1 /\ line'[Len(line) + 1] = n
        /\ \A k \in 1..Len(line) : line'[k] = line[k]
    BY <1>3 DEF NextNumber, IInv
  <2>2. Filled  BY <1>3 DEF NextNumber, IInv
  <2>3. CASE InDeck(n) /\ ~TooMany /\ UNCHANGED pc
    <3>1. /\ array' = [array EXCEPT ![number_typed_in] = n - 1]
          /\ number_typed_in' = number_typed_in + 1
      BY <1>3, <2>3 DEF NextNumber
    <3>2. Len(line) < EcartSize  BY <2>2, <2>3 DEF TooMany, Filled
    <3>3. /\ array' \in [0..EcartSize -> Int]
          /\ array'[Len(line)] = n - 1
          /\ \A k \in 1..Len(line) : array'[k - 1] = array[k - 1]
      BY <2>1, <2>2, <3>1, <3>2 DEF IInv, Filled
    <3>4. \A k \in 1..Len(line') : InDeck(line'[k]) /\ array'[k - 1] = line'[k] - 1
      <4> TAKE k \in 1..Len(line')
      <4>1. CASE k = Len(line) + 1
        BY <2>1, <2>2, <2>3, <3>3, <4>1 DEF Filled
      <4>2. CASE k \in 1..Len(line)
        BY <2>1, <2>2, <3>3, <4>2 DEF Filled
      <4> QED  BY <2>1, <2>2, <4>1, <4>2 DEF Filled
    <3>5. Filled'
      BY <2>1, <2>2, <3>1, <3>2, <3>4 DEF Filled, InDeck
    <3> QED  BY <1>3, <2>1, <2>3, <3>1, <3>3, <3>5 DEF IInv, GivesWhatWasTyped, NextNumber
  <2>4. CASE InDeck(n) /\ TooMany /\ Reject
    <3>1. /\ array' = [array EXCEPT ![number_typed_in] = n - 1]
          /\ number_typed_in' = number_typed_in + 1
      BY <1>3, <2>4 DEF NextNumber
    <3>2. array' \in [0..EcartSize -> Int] /\ number_typed_in' \in Nat
      <4>1. n - 1 \in Int  BY <2>1
      <4>2. array \in [0..EcartSize -> Int] /\ number_typed_in \in Nat  BY DEF IInv
      <4>3. array' \in [0..EcartSize -> Int]  BY <3>1, <4>1, <4>2
      <4> QED  BY <3>1, <4>2, <4>3
    <3> QED  BY <2>1, <2>4, <3>2 DEF IInv, GivesWhatWasTyped, Reject
  <2>5. CASE ~InDeck(n) /\ Reject /\ UNCHANGED <<array, number_typed_in>>
    BY <2>1, <2>5 DEF Reject, IInv, GivesWhatWasTyped
  <2> QED  BY <1>3, <2>3, <2>4, <2>5 DEF NextNumber
<1>4. CASE EndOfLineRejected
  BY <1>4 DEF EndOfLineRejected, Reject, IInv, GivesWhatWasTyped
<1>5. CASE EndOfLineAccepted
  <2>1. Filled  BY <1>5 DEF EndOfLineAccepted, IInv
  <2>2. ASSUME Len(line) = EcartSize PROVE line' = [k \in 1..EcartSize |-> sent'[k] + 1]
    <3>1. line' = line /\ sent' = [k \in 1..EcartSize |-> array[k - 1]]
      BY <1>5 DEF EndOfLineAccepted
    <3>2. \A k \in 1..EcartSize : sent'[k] + 1 = line[k]
      <4> TAKE k \in 1..EcartSize
      <4>1. sent'[k] = array[k - 1]  BY <3>1
      <4>2. array[k - 1] = line[k] - 1 /\ line[k] \in Int
        BY <2>1, <2>2 DEF Filled, IInv
      <4> QED  BY <4>1, <4>2
    <3>3. line = [k \in 1..EcartSize |-> line[k]]  BY <2>2 DEF IInv
    <3> QED  BY <3>1, <3>2, <3>3
  <2>3. GivesWhatWasTyped'
    BY <1>5, <2>1, <2>2 DEF GivesWhatWasTyped, EndOfLineAccepted, Filled
  <2> QED  BY <1>5, <2>3 DEF EndOfLineAccepted, IInv
<1>6. CASE UNCHANGED vars
  BY <1>6 DEF vars, IInv, GivesWhatWasTyped, Filled
<1> QED  BY <1>1, <1>2, <1>3, <1>4, <1>5, <1>6 DEF Next

LEMMA Invariance == Spec => []IInv
<1> QED  BY InitIInv, NextIInv, PTL DEF Spec

\* The ecart that leaves the client is the line the user typed last, card by
\* card, whatever was typed and rejected before and whatever malloc() returned.
THEOREM GivesWhatWasTypedThm == Spec => []GivesWhatWasTyped
<1>1. IInv => GivesWhatWasTyped  BY DEF IInv
<1> QED  BY <1>1, Invariance, PTL

\* A line of EcartSize different numbers of cards is never refused.
THEOREM RejectsOnlyBadLinesThm == Spec => RejectsOnlyBadLines
<1>1. IInv /\ [Next]_vars => [pc' = "read" => Bad(line')]_vars
  <2> SUFFICES ASSUME IInv, Next, pc' = "read" PROVE Bad(line')
    BY DEF vars
  <2> USE EcartInputAssumption
  <2>1. ASSUME NEW n \in Numbers, FirstNumber(n)  PROVE Bad(line')
    BY <2>1 DEF FirstNumber, Bad
  <2>2. ASSUME NEW n \in Numbers, NextNumber(n)  PROVE Bad(line')
    <3>1. /\ Filled /\ line \in Seq(Int)
          /\ line' = Append(line, n) /\ Len(line') = Len(line) + 1
          /\ Len(line') \in DOMAIN line' /\ line'[Len(line')] = n
      BY <2>2 DEF NextNumber, IInv
    <3>2. CASE ~InDeck(n)  BY <3>1, <3>2 DEF Bad
    <3>3. CASE TooMany  BY <3>1, <3>3 DEF Bad, TooMany, Filled
    <3> QED  BY <2>2, <3>2, <3>3 DEF NextNumber
  <2>3. CASE EndOfLineRejected
    <3>1. Filled /\ Doublons /\ line' = line
      BY <2>3 DEF EndOfLineRejected, IInv
    <3>2. CASE Len(line) = EcartSize
      BY <3>1, <3>2, DoublonsAreTyped DEF IInv, Bad
    <3>3. CASE Len(line) # EcartSize  BY <3>1, <3>3 DEF Bad
    <3> QED  BY <3>2, <3>3
  <2> QED  BY <2>1, <2>2, <2>3 DEF Next, EmptyLine, EndOfLineAccepted
<1> QED  BY <1>1, Invariance, PTL DEF Spec, RejectsOnlyBadLines

-----------------------------------------------------------------------------
(* remove_ecart.                                                           *)

LEMMA KeptIsFinite ==
  /\ Kept \subseteq Positions
  /\ IsFiniteSet(Kept) /\ Cardinality(Kept) \in Nat
  /\ \A i \in Kept : IsFiniteSet({p \in Kept : p < i}) /\ idx(i) \in Nat
<1>1. Kept \subseteq Positions  BY DEF Kept
<1>2. IsFiniteSet(Positions)  BY EcartInputAssumption, FS_Interval DEF Positions
<1>3. IsFiniteSet(Kept)  BY <1>1, <1>2, FS_Subset
<1>4. ASSUME NEW i \in Kept
      PROVE  IsFiniteSet({p \in Kept : p < i}) /\ idx(i) \in Nat
  <2>1. {p \in Kept : p < i} \subseteq Kept  OBVIOUS
  <2>2. IsFiniteSet({p \in Kept : p < i})  BY <1>3, <2>1, FS_Subset
  <2> QED  BY <2>2, FS_CardinalityType DEF idx
<1> QED  BY <1>1, <1>3, <1>4, FS_CardinalityType

\* The loop gives every card that stays an index of its own, below their number.
LEMMA IdxIsInjective ==
  /\ \A i \in Kept : idx(i) \in 0..Cardinality(Kept) - 1
  /\ \A i, j \in Kept : idx(i) = idx(j) => i = j
<1> DEFINE Before(i) == {p \in Kept : p < i}
<1>1. ASSUME NEW i \in Kept  PROVE idx(i) \in 0..Cardinality(Kept) - 1
  <2>1. Before(i) \subseteq Kept /\ Before(i) # Kept
    BY KeptIsFinite DEF Positions
  <2>2. Cardinality(Before(i)) <= Cardinality(Kept) /\ Cardinality(Kept) # Cardinality(Before(i))
    <3> HIDE DEF Before
    <3> QED  BY <2>1, KeptIsFinite, FS_Subset
  <2>3. idx(i) = Cardinality(Before(i))  BY DEF idx
  <2>4. idx(i) \in Nat /\ Cardinality(Kept) \in Nat  BY KeptIsFinite
  <2> QED  BY <2>2, <2>3, <2>4
<1>2. ASSUME NEW i \in Kept, NEW j \in Kept, i < j  PROVE idx(i) # idx(j)
  <2>1. i \in Int /\ j \in Int  BY KeptIsFinite DEF Positions
  <2>2. Before(i) \subseteq Before(j)
    <3> SUFFICES ASSUME NEW p \in Kept, p < i PROVE p < j  OBVIOUS
    <3>1. p \in Int  BY KeptIsFinite DEF Positions
    <3> QED  BY <1>2, <2>1, <3>1
  <2>3. i \in Before(j) /\ i \notin Before(i)  BY <1>2, <2>1
  <2>4. IsFiniteSet(Before(j))  BY KeptIsFinite
  <2>5. Cardinality(Before(j)) # Cardinality(Before(i))
    <3> HIDE DEF Before
    <3> QED  BY <2>2, <2>3, <2>4, FS_Subset
  <2> QED  BY <2>5 DEF idx
<1>3. ASSUME NEW i \in Kept, NEW j \in Kept, idx(i) = idx(j)  PROVE i = j
  <2>1. i \in Int /\ j \in Int  BY KeptIsFinite DEF Positions
  <2>2. ~(i < j) /\ ~(j < i)  BY <1>2, <1>3
  <2> QED  BY <2>1, <2>2
<1> QED  BY <1>1, <1>3

\* No index below their number is left free.
LEMMA IdxIsSurjective ==
  \A n \in 0..Cardinality(Kept) - 1 : \E i \in Kept : idx(i) = n
<1> DEFINE T == 0..Cardinality(Kept) - 1
           f == [i \in Kept |-> idx(i)]
<1>1. f \in Injection(Kept, T)
  BY IdxIsInjective DEF Injection, IsInjective
<1>2. IsFiniteSet(T) /\ Cardinality(T) = Cardinality(Kept)
  BY KeptIsFinite, FS_Interval
<1>3. f \in Surjection(Kept, T)
  <2> HIDE DEF f, T
  <2> QED  BY <1>1, <1>2, FS_Injection
<1> QED  BY <1>3 DEF Surjection

\* At most EcartSize cards leave, and exactly so many when the array holds as many
\* different positions.
LEMMA KeptSize ==
  /\ Cardinality(Kept) >= DeckSize - EcartSize
  /\ ~Doublons /\ (\A i \in Slots : array[i] \in Positions)
        => Cardinality(Kept) = DeckSize - EcartSize
<1> DEFINE G == {array[i] : i \in Slots}
           f == [i \in Slots |-> array[i]]
<1> USE EcartInputAssumption
<1>1. IsFiniteSet(Positions) /\ Cardinality(Positions) = DeckSize
  BY FS_Interval DEF Positions
<1>2. IsFiniteSet(Slots) /\ Cardinality(Slots) = EcartSize
  BY FS_Interval DEF Slots
<1>3. f \in Surjection(Slots, G)  BY DEF Surjection
<1>4. /\ IsFiniteSet(G) /\ Cardinality(G) \in Nat
      /\ Cardinality(G) <= EcartSize
      /\ f \in Injection(Slots, G) => Cardinality(G) = EcartSize
  <2> HIDE DEF f, G
  <2> QED  BY <1>2, <1>3, FS_Surjection, FS_CardinalityType
<1>5. Kept = Positions \ G  BY DEF Kept
<1>6. /\ Cardinality(Kept) = DeckSize - Cardinality(Positions \cap G)
      /\ Cardinality(Positions \cap G) <= Cardinality(G)
      /\ Cardinality(Positions \cap G) \in Nat
  <2> HIDE DEF G
  <2>1. Cardinality(Kept) = DeckSize - Cardinality(Positions \cap G)
    BY <1>1, <1>5, FS_Difference
  <2>2. IsFiniteSet(Positions \cap G) /\ Cardinality(Positions \cap G) <= Cardinality(G)
    BY <1>4, FS_Intersection
  <2> QED  BY <2>1, <2>2, FS_CardinalityType
<1>7. Cardinality(Kept) >= DeckSize - EcartSize  BY <1>4, <1>6
<1>8. ASSUME ~Doublons, \A i \in Slots : array[i] \in Positions
      PROVE  Cardinality(Kept) = DeckSize - EcartSize
  <2>1. Positions \cap G = G  BY <1>8
  <2>2. f \in Injection(Slots, G)
    BY <1>8 DEF Doublons, Injection, IsInjective
  <2> QED  BY <2>1, <2>2, <1>4, <1>6
<1> QED  BY <1>7, <1>8

\* What remove_ecart leaves of the cards as they were dealt: cards that stay, and
\* all of them when the array holds EcartSize different positions.
LEMMA RemoveEcart ==
  ASSUME NEW cards, cards = [p \in 1..DeckSize |-> p - 1]
  PROVE  /\ remove_ecart(cards) \in Seq(Positions)
         /\ Len(remove_ecart(cards)) = DeckSize - EcartSize
         /\ Cardinality(Kept) = DeckSize - EcartSize
               => ToSet(remove_ecart(cards)) = Kept
<1> USE EcartInputAssumption
<1> DEFINE at(n) == CHOOSE i \in Kept : idx(i) = n - 1
           left == remove_ecart(cards)
           size == DeckSize - EcartSize
<1>1. size \in Nat  OBVIOUS
<1>2. ASSUME NEW n \in 1..size  PROVE at(n) \in Kept /\ idx(at(n)) = n - 1
  <2>1. n - 1 \in 0..Cardinality(Kept) - 1
    BY <1>1, KeptSize, KeptIsFinite
  <2>2. \E i \in Kept : idx(i) = n - 1  BY <2>1, IdxIsSurjective
  <2> QED  BY <2>2
<1>3. left = [n \in 1..size |-> cards[at(n) + 1]]  BY DEF remove_ecart
<1> HIDE DEF at, left
<1>4. ASSUME NEW n \in 1..size  PROVE left[n] = at(n) /\ left[n] \in Kept
  <2>1. at(n) \in Positions  BY <1>2, KeptIsFinite
  <2>2. at(n) + 1 \in 1..DeckSize /\ (at(n) + 1) - 1 = at(n)  BY <2>1 DEF Positions
  <2>3. cards[at(n) + 1] = at(n)  BY <2>2
  <2> QED  BY <1>2, <1>3, <2>3
<1>5. left \in Seq(Positions) /\ Len(left) = size /\ DOMAIN left = 1..size
  <2>1. left = [n \in 1..size |-> left[n]]  BY <1>3
  <2>2. \A n \in 1..size : left[n] \in Positions  BY <1>4, KeptIsFinite
  <2>3. left \in [1..size -> Positions]  BY <2>1, <2>2
  <2> HIDE DEF size
  <2> QED  BY <1>1, <2>3
<1>6. ASSUME Cardinality(Kept) = size  PROVE ToSet(left) = Kept
  <2>1. ToSet(left) \subseteq Kept  BY <1>4, <1>5 DEF ToSet
  <2>2. ASSUME NEW i \in Kept  PROVE i \in ToSet(left)
    <3>1. idx(i) \in 0..size - 1  BY <1>6, IdxIsInjective
    <3>2. PICK n : n = idx(i) + 1  OBVIOUS
    <3>3. n \in 1..size /\ n - 1 = idx(i)  BY <1>1, <3>1, <3>2
    <3>4. at(n) = i  BY <1>2, <3>3, IdxIsInjective
    <3> QED  BY <1>4, <1>5, <3>3, <3>4 DEF ToSet
  <2> QED  BY <2>1, <2>2
<1> QED  BY <1>5, <1>6 DEF left

-----------------------------------------------------------------------------
(* The types, and the cards.                                               *)

\* Every integer of the array is the position of a card, or what malloc() left
\* there.
Sources == \A i \in 0..EcartSize : array[i] \in Positions \/ array[i] = garbage[i]

DInv == /\ TypeOK
        /\ Sources
        /\ pc # "sent" => deck = [p \in 1..DeckSize |-> p - 1]
        /\ NoCardLost

LEMMA InitDInv == Init => DInv
<1> SUFFICES ASSUME Init PROVE DInv  OBVIOUS
<1> USE EcartInputAssumption DEF Init
<1>1. deck \in Seq(Positions)
  <2>1. deck \in [1..DeckSize -> Positions]  BY DEF Positions
  <2> QED  BY <2>1
<1>2. array \in [0..EcartSize -> Memory \cup Positions]
  BY DEF Positions
<1> QED  BY <1>1, <1>2 DEF DInv, TypeOK, Sources, NoCardLost

\* A number that is stored is the position of a card.
LEMMA Stored ==
  ASSUME DInv, NEW k \in 0..EcartSize, NEW n, InDeck(n),
         array' = [array EXCEPT ![k] = n - 1], garbage' = garbage
  PROVE  array' \in [0..EcartSize -> Memory \cup Positions] /\ Sources'
<1>1. n - 1 \in Positions  BY EcartInputAssumption DEF InDeck, Positions
<1>2. array \in [0..EcartSize -> Memory \cup Positions]  BY DEF DInv, TypeOK
<1>3. \A i \in 0..EcartSize : array'[i] = IF i = k THEN n - 1 ELSE array[i]
  BY <1>2
<1>4. array' \in [0..EcartSize -> Memory \cup Positions]  BY <1>1, <1>2
<1>5. \A i \in 0..EcartSize : array'[i] \in Positions \/ array'[i] = garbage[i]
  BY <1>1, <1>3 DEF DInv, Sources
<1>6. Sources'  BY <1>5 DEF Sources
<1> QED  BY <1>4, <1>6

\* A step that sends nothing keeps the cards as they were dealt.
LEMMA NothingSent ==
  ASSUME DInv, pc # "sent", pc' \in {"read", "more", "crashed"},
         UNCHANGED <<deck, sent, garbage>>,
         array' \in [0..EcartSize -> Memory \cup Positions], Sources',
         number_typed_in' \in 0..EcartSize + 1, line' \in Seq(Numbers)
  PROVE  DInv'
BY DEF DInv, TypeOK, Sources, NoCardLost

LEMMA NextDInv == IInv /\ DInv /\ [Next]_vars => DInv'
<1> SUFFICES ASSUME IInv, DInv, [Next]_vars PROVE DInv'  OBVIOUS
<1> USE EcartInputAssumption
<1>1. CASE EmptyLine
  <2>1. pc' = "crashed" /\ line' = <<>> /\ UNCHANGED <<array, number_typed_in, deck, sent, garbage>>
    BY <1>1 DEF EmptyLine
  <2> QED  BY <1>1, <2>1, NothingSent DEF EmptyLine, DInv, TypeOK, Sources
<1>2. ASSUME NEW n \in Numbers, FirstNumber(n)  PROVE DInv'
  <2>1. line' \in Seq(Numbers) /\ pc # "sent" /\ pc' \in {"read", "more", "crashed"}
        /\ UNCHANGED <<deck, sent, garbage>>
    BY <1>2 DEF FirstNumber, Reject
  <2>2. CASE InDeck(n) /\ array' = [array EXCEPT ![0] = n - 1] /\ number_typed_in' = 1
    <3>1. array' \in [0..EcartSize -> Memory \cup Positions] /\ Sources'
      <4>1. 0 \in 0..EcartSize  OBVIOUS
      <4>2. garbage' = garbage /\ InDeck(n) /\ array' = [array EXCEPT ![0] = n - 1]
        BY <2>1, <2>2
      <4> QED  BY <4>1, <4>2, Stored
    <3> QED  BY <2>1, <2>2, <3>1, NothingSent
  <2>3. CASE UNCHANGED <<array, number_typed_in>>
    BY <2>1, <2>3, NothingSent DEF DInv, TypeOK, Sources
  <2> QED  BY <1>2, <2>2, <2>3 DEF FirstNumber
<1>3. ASSUME NEW n \in Numbers, NextNumber(n)  PROVE DInv'
  <2>1. line' \in Seq(Numbers) /\ pc # "sent" /\ pc' \in {"read", "more", "crashed"}
        /\ UNCHANGED <<deck, sent, garbage>>
    BY <1>3 DEF NextNumber, Reject, DInv, TypeOK
  <2>2. number_typed_in \in 0..EcartSize
    BY <1>3 DEF NextNumber, IInv, Filled
  <2>3. CASE /\ InDeck(n) /\ array' = [array EXCEPT ![number_typed_in] = n - 1]
             /\ number_typed_in' = number_typed_in + 1
    <3>1. array' \in [0..EcartSize -> Memory \cup Positions] /\ Sources'
      BY <2>1, <2>2, <2>3, Stored
    <3>2. number_typed_in' \in 0..EcartSize + 1  BY <2>2, <2>3
    <3> QED  BY <2>1, <3>1, <3>2, NothingSent
  <2>4. CASE UNCHANGED <<array, number_typed_in>>
    BY <2>1, <2>4, NothingSent DEF DInv, TypeOK, Sources
  <2> QED  BY <1>3, <2>3, <2>4 DEF NextNumber
<1>4. CASE EndOfLineRejected
  BY <1>4, NothingSent DEF EndOfLineRejected, Reject, DInv, TypeOK, Sources
<1>5. CASE EndOfLineAccepted
  <2>1. /\ pc' = "sent" /\ ~Doublons /\ deck' = remove_ecart(deck)
        /\ sent' = [k \in 1..EcartSize |-> array[k - 1]]
        /\ UNCHANGED <<array, number_typed_in, line, garbage>>
    BY <1>5 DEF EndOfLineAccepted
  <2>2. deck = [p \in 1..DeckSize |-> p - 1]
    BY <1>5 DEF EndOfLineAccepted, DInv
  <2>3. /\ deck' \in Seq(Positions) /\ Len(deck') = DeckSize - EcartSize
        /\ Cardinality(Kept) = DeckSize - EcartSize => ToSet(deck') = Kept
    BY <2>1, <2>2, RemoveEcart
  <2>4. array \in [0..EcartSize -> Memory \cup Positions]  BY DEF DInv, TypeOK
  <2>5. \A k \in 1..EcartSize : k - 1 \in Slots /\ k - 1 \in 0..EcartSize
    BY DEF Slots
  <2>6. /\ sent' \in [1..EcartSize -> Memory \cup Positions]
        /\ sent' \in Seq(Memory \cup Positions)
        /\ Len(sent') = EcartSize /\ DOMAIN sent' = 1..EcartSize
    <3>1. sent' \in [1..EcartSize -> Memory \cup Positions]  BY <2>1, <2>4, <2>5
    <3> QED  BY <3>1
  <2>7. TypeOK' /\ Sources'
    BY <2>1, <2>3, <2>6 DEF DInv, TypeOK, Sources
  <2>8. ASSUME \A i \in Slots : array[i] \in Positions
        PROVE  /\ ToSet(deck') \cup ToSet(sent') = Positions
               /\ Len(deck') + Len(sent') = DeckSize
    <3>1. ToSet(deck') = Kept  BY <2>1, <2>3, <2>8, KeptSize
    <3>2. ToSet(sent') = {array[i] : i \in Slots}
      <4>1. \A i \in Slots : i + 1 \in 1..EcartSize /\ (i + 1) - 1 = i  BY DEF Slots
      <4>2. \A i \in Slots : sent'[i + 1] = array[i]  BY <2>1, <4>1
      <4>3. \A k \in 1..EcartSize : sent'[k] = array[k - 1]  BY <2>1
      <4> QED  BY <2>5, <2>6, <4>1, <4>2, <4>3 DEF ToSet
    <3>3. Kept \cup {array[i] : i \in Slots} = Positions  BY <2>8 DEF Kept
    <3> QED  BY <2>3, <2>6, <3>1, <3>2, <3>3
  <2>9. ASSUME NEW i \in Slots, array[i] \notin Positions
        PROVE  array[i] = garbage[i]
    <3>1. i \in 0..EcartSize  BY DEF Slots
    <3> QED  BY <2>9, <3>1 DEF DInv, Sources
  <2>10. NoCardLost'
    <3>1. CASE \A i \in Slots : array[i] \in Positions
      BY <2>8, <3>1 DEF NoCardLost
    <3>2. CASE \E i \in Slots : array[i] \notin Positions
      BY <2>1, <2>9, <3>2 DEF NoCardLost
    <3> QED  BY <3>1, <3>2
  <2> QED  BY <2>1, <2>7, <2>10 DEF DInv
<1>6. CASE UNCHANGED vars
  BY <1>6 DEF vars, DInv, TypeOK, Sources, NoCardLost
<1> QED  BY <1>1, <1>2, <1>3, <1>4, <1>5, <1>6 DEF Next

LEMMA CardsInvariance == Spec => []DInv
<1> QED  BY Invariance, InitDInv, NextDInv, PTL DEF Spec

\* Every variable stays in its type: convert_input_to_integer_array never writes
\* further than one integer behind the array, however long the lines are.
THEOREM EcartTypeOKThm == Spec => []TypeOK
<1>1. DInv => TypeOK  BY DEF DInv
<1> QED  BY <1>1, CardsInvariance, PTL

\* When an ecart leaves, the cards that were dealt are those in the deck and those
\* in the ecart, each once, unless what malloc() left took part that is no position.
THEOREM NoCardLostThm == Spec => []NoCardLost
<1>1. DInv => NoCardLost  BY DEF DInv
<1> QED  BY <1>1, CardsInvariance, PTL
=============================================================================
