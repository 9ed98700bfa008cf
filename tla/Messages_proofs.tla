--------------------------- MODULE Messages_proofs ---------------------------
(***************************************************************************)
(* Proofs about the messages of a game of Papayoo that nobody leaves: what *)
(* they carry, in what order they come, and what every step of a client    *)
(* and of the server changes.  The invariants of the cards and of the      *)
(* points, which Hands_proofs shows to hold, are stated here as well.      *)
(***************************************************************************)
EXTENDS Papayoo_proofs

-----------------------------------------------------------------------------
(* Types of what the processes hold and of what the messages carry.        *)

PlayedCard == [card : AnyCard, last_played : Seats]

ToClientType(m) == /\ m.code \in {"INIT_DECK", "ECARTS", "ADD_PLI"} => m.deck \in CardSeq
                   /\ m.code = "BASIC_INFO" => m.info \in Info

ToServerType(m) == /\ m.code = "ECART" => m.deck \in CardSeq
                   /\ m.code = "PLAY_CARD" => m.played \in PlayedCard
                   /\ m.code = "UPDATE_SCORE" => m.score \in Nat

ServerTypes ==
  /\ alarm \in BOOLEAN
  /\ srv.papayoo \in Suits
  /\ srv.current_round \in 0..MaxRound /\ srv.amount_turn \in 0..AMOUNT_PLI - 1
  /\ srv.ecarts_received \in [Seats -> CardSeq]
  /\ board.scores \in [Seats -> Nat]
  /\ board.names \in [Seats -> Clients \cup {NoName}]
  /\ board.pli \in [Seats -> PlayedCard]
  /\ loop.pc \in {"select", "accept", "serve", "sleep", "scores"}
  /\ hist.earned \in [Seats -> Nat]

VariableTypes(r) == /\ r.pc \in ClientLabels
                    /\ r.info \in Info
                    /\ r.deck \in CardSeq /\ r.plis \in CardSeq

QueueTypes(c) ==
  /\ \A k \in 1..Len(toClient[c]) : ToClientType(toClient[c][k])
  /\ \A k \in 1..Len(toServer[c]) : ToServerType(toServer[c][k])

TInv == ServerTypes /\ \A c \in Clients : VariableTypes(cl[c]) /\ QueueTypes(c)

-----------------------------------------------------------------------------
(* The order of the messages of a round.                                   *)

\* No message of kind x is behind one of kind y.
NoneBehind(q, x, y) ==
  \A j, k \in 1..Len(q) : q[j].code = y /\ q[k].code = x => k < j

\* A card of the player lies on the board.
OnBoard(c) == \E k \in 0..board.pli_size - 1 : board.pli[k].last_played = SeatOf(c)

ScoreDue(c) == Count(toClient[c], "ADD_SCORE") + Count(toServer[c], "UPDATE_SCORE")

\* Who is not yet in the lobby has nothing from an earlier game.
Newcomer(c) ==
  /\ conn[c] = "backlog" => At(c, "greet")
  /\ cl[c].pc \in {"connect", "greet", "signup"} => cl[c].plis = <<>>
  /\ c \notin Playing => toServer[c] = <<>>

\* The piles are empty until the first trick, and again from when a player has
\* been asked for its score.
NoPile(c) == IF srv.updating_score
             THEN ~Asleep /\ Count(toClient[c], "ADD_SCORE") = 0
             ELSE ~InTricks

Piles(c) ==
  c \in Playing =>
    /\ ~srv.updating_score => ScoreDue(c) = 0
    /\ srv.updating_score /\ ~Asleep => ScoreDue(c) \in {0, 1}
    /\ NoPile(c) => cl[c].plis = <<>> /\ Count(toClient[c], "ADD_PLI") = 0
    /\ NoneBehind(toClient[c], "ADD_PLI", "ADD_SCORE")

\* A player who still waits for the ecart has played no card of the round.
Late(c) ==
  c \in Playing =>
    /\ NoneBehind(toClient[c], "ECARTS", "ASK_FOR_CARD")
    /\ InTricks /\ cl[c].waiting_for_ecart => Count(toClient[c], "ECARTS") # 0
    /\ Count(toClient[c], "ECARTS") # 0 =>
         /\ InTricks /\ srv.amount_turn = 0
         /\ Count(toClient[c], "ECARTS") = 1
         /\ Count(toServer[c], "PLAY_CARD") = 0 /\ ~At(c, "play")
         /\ ~OnBoard(c)

\* The cards on the board are in the order of the turns.
Counters ==
  /\ ~InTricks => srv.amount_turn = 0
  /\ InTricks => \A k \in 0..board.pli_size - 1 :
       board.pli[k].last_played = (srv.current_player_turn + k) % amount_players
  /\ srv.amount_scores_updated =
       IF ~srv.updating_score THEN 0
       ELSE IF Asleep THEN srv.amount_scores_updated
       ELSE Cardinality({c \in Playing : ScoreDue(c) = 0})

RInv == Counters /\ \A c \in Clients : Newcomer(c) /\ Piles(c) /\ Late(c)

-----------------------------------------------------------------------------
(* How many cards a player has.                                            *)

HandSize == DeckSize \div amount_players

Chosen(c) == ~NotDealtYet(c) /\ ~At(c, "ecart")

Lengths(c) ==
  c \in Playing =>
    /\ InEcarts => /\ Len(HandOf(c)) = HandSize - (IF Chosen(c) THEN EcartSize ELSE 0)
                   /\ Len(EcartOf(c)) = IF Chosen(c) THEN EcartSize ELSE 0
    /\ InTricks => Len(HandOf(c)) + srv.amount_turn + Count(toServer[c], "PLAY_CARD")
                     + (IF OnBoard(c) THEN 1 ELSE 0) = HandSize

\* There are cards for as many tricks as a round has.
EnoughCards == \A n \in 2..MAX_PLAYERS : AMOUNT_PLI <= DeckSize \div n

LInv == \A c \in Clients : Lengths(c)
-----------------------------------------------------------------------------
(* What a player has earned.                                               *)

Earned(i) == board.scores[i] + ReportedByNow(Player(i)) + EarnedThisRound(Player(i))
               = hist.earned[i]

EInv == srv.game_running /\ ~Asleep => \A i \in Present : Earned(i)

-----------------------------------------------------------------------------
(* Types: queues.                                                          *)

LEMMA ToClientTail ==
  ASSUME NEW q, IsQueue(q), q # <<>>, \A k \in 1..Len(q) : ToClientType(q[k])
  PROVE  ToClientType(Head(q)) /\ \A k \in 1..Len(Tail(q)) : ToClientType(Tail(q)[k])
<1>1. /\ Len(q) \in Nat \ {0} /\ Len(Tail(q)) = Len(q) - 1 /\ Head(q) = q[1]
      /\ \A k \in 1..Len(q) - 1 : Tail(q)[k] = q[k + 1]
  BY QueueTail
<1>2. \A k \in 1..Len(q) - 1 : k + 1 \in 1..Len(q)
  BY <1>1
<1>3. 1 \in 1..Len(q)
  BY <1>1
<1>4. QED
  BY <1>1, <1>2, <1>3

LEMMA ToServerTail ==
  ASSUME NEW q, IsQueue(q), q # <<>>, \A k \in 1..Len(q) : ToServerType(q[k])
  PROVE  ToServerType(Head(q)) /\ \A k \in 1..Len(Tail(q)) : ToServerType(Tail(q)[k])
<1>1. /\ Len(q) \in Nat \ {0} /\ Len(Tail(q)) = Len(q) - 1 /\ Head(q) = q[1]
      /\ \A k \in 1..Len(q) - 1 : Tail(q)[k] = q[k + 1]
  BY QueueTail
<1>2. \A k \in 1..Len(q) - 1 : k + 1 \in 1..Len(q)
  BY <1>1
<1>3. 1 \in 1..Len(q)
  BY <1>1
<1>4. QED
  BY <1>1, <1>2, <1>3

\* What lies in a queue to which another has been appended.
LEMMA Within ==
  ASSUME NEW q, NEW r, IsQueue(q), IsQueue(r), NEW k \in 1..Len(q \o r)
  PROVE  \/ k \in 1..Len(q) /\ (q \o r)[k] = q[k]
         \/ \E j \in 1..Len(r) : k = j + Len(q) /\ (q \o r)[k] = r[j]
<1>1. /\ Len(q) \in Nat /\ Len(r) \in Nat /\ Len(q \o r) = Len(q) + Len(r)
      /\ \A j \in 1..Len(q) : (q \o r)[j] = q[j]
      /\ \A j \in 1..Len(r) : (q \o r)[j + Len(q)] = r[j]
  BY QueueCat, QueueLen
<1>2. k <= Len(q) => k \in 1..Len(q)
  BY <1>1
<1>3. k > Len(q) => k - Len(q) \in 1..Len(r) /\ k = (k - Len(q)) + Len(q)
  BY <1>1
<1>4. k <= Len(q) \/ k > Len(q)
  BY <1>1
<1>5. QED
  BY <1>1, <1>2, <1>3, <1>4

LEMMA ToClientCat ==
  ASSUME NEW q, NEW r, IsQueue(q), IsQueue(r), NEW s, s = q \o r,
         \A k \in 1..Len(q) : ToClientType(q[k]), \A k \in 1..Len(r) : ToClientType(r[k])
  PROVE  \A k \in 1..Len(s) : ToClientType(s[k])
<1> SUFFICES ASSUME NEW k \in 1..Len(s) PROVE ToClientType(s[k])
  OBVIOUS
<1>1. (k \in 1..Len(q) /\ s[k] = q[k]) \/ \E j \in 1..Len(r) : s[k] = r[j]
  BY Within
<1>2. QED
  BY <1>1

LEMMA ToServerAppend ==
  ASSUME NEW q, IsQueue(q), NEW m, ToServerType(m), \A k \in 1..Len(q) : ToServerType(q[k])
  PROVE  \A k \in 1..Len(Append(q, m)) : ToServerType(Append(q, m)[k])
<1> SUFFICES ASSUME NEW k \in 1..Len(Append(q, m)) PROVE ToServerType(Append(q, m)[k])
  OBVIOUS
<1>1. IsQueue(<<m>>) /\ Append(q, m) = q \o <<m>>
  BY QueueAppend, ShortQueues
<1>2. (k \in 1..Len(q) /\ Append(q, m)[k] = q[k]) \/ \E j \in 1..Len(<<m>>) : Append(q, m)[k] = <<m>>[j]
  BY <1>1, Within
<1>3. \A j \in 1..Len(<<m>>) : <<m>>[j] = m
  OBVIOUS
<1>4. QED
  BY <1>2, <1>3

-----------------------------------------------------------------------------
(* Types: cards.                                                           *)

Rank(I, i) == Cardinality({j \in I : j < i})

\* The elements of a finite set of numbers are numbered by their ranks.
LEMMA Ranks ==
  ASSUME NEW n \in Nat, NEW I \in SUBSET (1..n)
  PROVE  /\ IsFiniteSet(I) /\ Cardinality(I) \in Nat
         /\ \A i \in I : Rank(I, i) \in 0..Cardinality(I) - 1
         /\ \A i, j \in I : Rank(I, i) = Rank(I, j) => i = j
         /\ \A k \in 1..Cardinality(I) : \E i \in I : Rank(I, i) = k - 1
<1>1. IsFiniteSet(I) /\ Cardinality(I) \in Nat
  <2>1. IsFiniteSet(1..n)
    BY FS_Interval
  <2>2. QED
    BY <2>1, FS_Subset, FS_CardinalityType
<1> DEFINE Below(i) == {j \in I : j < i}
<1>2. \A i : IsFiniteSet(Below(i)) /\ Cardinality(Below(i)) \in Nat
  <2>1. \A i : Below(i) \in SUBSET I
    OBVIOUS
  <2> HIDE DEF Below
  <2>2. QED
    BY <1>1, <2>1, FS_Subset, FS_CardinalityType
<1>3. \A i : Rank(I, i) = Cardinality(Below(i))
  BY DEF Rank
<1>4. ASSUME NEW i \in I PROVE Rank(I, i) \in 0..Cardinality(I) - 1
  <2>1. Below(i) \in SUBSET I /\ Below(i) # I
    OBVIOUS
  <2>2. Cardinality(Below(i)) <= Cardinality(I) /\ Cardinality(I) # Cardinality(Below(i))
    <3> HIDE DEF Below
    <3>1. QED
      BY <1>1, <2>1, FS_Subset
  <2> HIDE DEF Below
  <2>3. QED
    BY <1>1, <1>2, <1>3, <2>2
<1>5. ASSUME NEW i \in I, NEW j \in I, i < j PROVE Rank(I, i) < Rank(I, j)
  <2>1. Below(i) \in SUBSET Below(j) /\ Below(i) # Below(j)
    <3>1. i \in Below(j) /\ i \notin Below(i)
      BY <1>5
    <3>2. \A k \in Below(i) : k \in Below(j)
      BY <1>5
    <3>3. QED
      BY <3>1, <3>2
  <2> HIDE DEF Below
  <2>2. Cardinality(Below(i)) <= Cardinality(Below(j)) /\ Cardinality(Below(j)) # Cardinality(Below(i))
    BY <1>2, <2>1, FS_Subset
  <2>3. QED
    BY <1>2, <1>3, <2>2
<1>6. \A i, j \in I : Rank(I, i) = Rank(I, j) => i = j
  <2> SUFFICES ASSUME NEW i \in I, NEW j \in I, Rank(I, i) = Rank(I, j), i # j PROVE FALSE
    OBVIOUS
  <2>1. i < j \/ j < i
    OBVIOUS
  <2>2. Rank(I, i) \in Nat
    BY <1>1, <1>4
  <2>3. QED
    BY <1>5, <2>1, <2>2
<1>7. \A k \in 1..Cardinality(I) : \E i \in I : Rank(I, i) = k - 1
  <2> DEFINE T == 0..Cardinality(I) - 1
             f == [i \in I |-> Rank(I, i)]
  <2>1. IsFiniteSet(T) /\ Cardinality(T) = Cardinality(I)
    <3>1. Cardinality(I) - 1 \in Int /\ (Cardinality(I) - 1) - 0 + 1 = Cardinality(I)
          /\ (0 > Cardinality(I) - 1 => Cardinality(I) = 0)
      BY <1>1
    <3>2. QED
      BY <3>1, FS_Interval
  <2>2. f \in Injection(I, T)
    BY <1>4, <1>6 DEF Injection, IsInjective
  <2> HIDE DEF T, f
  <2>3. f \in Surjection(I, T)
    BY <2>1, <2>2, FS_Injection
  <2>4. ASSUME NEW k \in 1..Cardinality(I) PROVE \E i \in I : Rank(I, i) = k - 1
    <3>1. k - 1 \in T
      BY <1>1 DEF T
    <3>2. PICK i \in I : f[i] = k - 1
      BY <2>3, <3>1 DEF Surjection
    <3>3. QED
      BY <3>2 DEF f
  <2>5. QED
    BY <2>4
<1>8. QED
  BY <1>1, <1>4, <1>6, <1>7

\* The cards at some positions of a deck, in the order of the deck.
LEMMA CardsAtPositions ==
  ASSUME NEW deck \in CardSeq, NEW I \in SUBSET (1..Len(deck))
  PROVE  /\ CardsAt(deck, I) \in CardSeq /\ Len(CardsAt(deck, I)) = Cardinality(I)
         /\ ToSet(CardsAt(deck, I)) = {deck[i] : i \in I}
         /\ IsInjective(deck) => IsInjective(CardsAt(deck, I))
<1> DEFINE n == Cardinality(I)
           nth == [k \in 1..n |-> CHOOSE i \in I : Rank(I, i) = k - 1]
           s == [k \in 1..n |-> deck[nth[k]]]
<1>1. Len(deck) \in Nat /\ DOMAIN deck = 1..Len(deck) /\ \A k \in 1..Len(deck) : deck[k] \in AnyCard
  BY ElementOfSeq DEF CardSeq
<1>2. /\ n \in Nat
      /\ \A i \in I : Rank(I, i) \in 0..n - 1
      /\ \A i, j \in I : Rank(I, i) = Rank(I, j) => i = j
      /\ \A k \in 1..n : \E i \in I : Rank(I, i) = k - 1
  BY <1>1, Ranks
<1>3. CardsAt(deck, I) = s
  BY DEF CardsAt, Rank
<1>4. \A k \in 1..n : nth[k] \in I /\ Rank(I, nth[k]) = k - 1
  BY <1>2
<1> HIDE DEF nth
<1>5. \A j, k \in 1..n : nth[j] = nth[k] => j = k
  <2> SUFFICES ASSUME NEW j \in 1..n, NEW k \in 1..n, nth[j] = nth[k] PROVE j = k
    OBVIOUS
  <2>1. j - 1 = k - 1
    BY <1>4
  <2>2. QED
    BY <1>2, <2>1
<1>6. ASSUME NEW i \in I PROVE \E k \in 1..n : nth[k] = i
  <2>1. Rank(I, i) + 1 \in 1..n /\ (Rank(I, i) + 1) - 1 = Rank(I, i)
    BY <1>2
  <2>2. nth[Rank(I, i) + 1] = i
    BY <1>2, <1>4, <2>1
  <2>3. QED
    BY <2>1, <2>2
<1> HIDE DEF n
<1>7. s \in CardSeq /\ Len(s) = n /\ DOMAIN s = 1..n
  <2>1. \A k \in 1..n : nth[k] \in 1..Len(deck)
    BY <1>4
  <2>2. \A k \in 1..n : s[k] \in AnyCard
    BY <1>1, <2>1
  <2>3. DOMAIN s = 1..n /\ s = [k \in 1..n |-> s[k]]
    OBVIOUS
  <2> HIDE DEF s
  <2>4. QED
    BY <1>2, <2>2, <2>3, SeqDef DEF CardSeq
<1>8. ToSet(s) = {deck[i] : i \in I}
  <2>1. ToSet(s) = {s[k] : k \in 1..n}
    BY <1>7 DEF ToSet
  <2>2. \A k \in 1..n : s[k] = deck[nth[k]]
    OBVIOUS
  <2> HIDE DEF s
  <2>3. ASSUME NEW x \in ToSet(s) PROVE x \in {deck[i] : i \in I}
    <3>1. PICK k \in 1..n : x = s[k]
      BY <2>1
    <3>2. nth[k] \in I /\ x = deck[nth[k]]
      BY <1>4, <2>2, <3>1
    <3>3. QED
      BY <3>2
  <2>4. ASSUME NEW i \in I PROVE deck[i] \in ToSet(s)
    <3>1. PICK k \in 1..n : nth[k] = i
      BY <1>6
    <3>2. QED
      BY <2>1, <2>2, <3>1
  <2>5. QED
    BY <2>3, <2>4
<1>9. ASSUME IsInjective(deck) PROVE IsInjective(s)
  <2>1. \A i, j \in 1..Len(deck) : deck[i] = deck[j] => i = j
    BY <1>1, <1>9 DEF IsInjective
  <2>2. \A k \in 1..n : s[k] = deck[nth[k]] /\ nth[k] \in 1..Len(deck)
    BY <1>4
  <2> HIDE DEF s
  <2>3. \A j, k \in 1..n : s[j] = s[k] => j = k
    BY <1>5, <2>1, <2>2
  <2>4. QED
    BY <1>7, <2>3 DEF IsInjective
<1> HIDE DEF s
<1>10. QED
  BY <1>3, <1>7, <1>8, <1>9 DEF n

-----------------------------------------------------------------------------
(* The new deck and the deal.                                              *)

LEMMA DivMod == ASSUME NEW a \in Nat, NEW b \in Nat \ {0}
                PROVE  /\ a \div b \in Nat /\ a % b \in 0..b - 1
                       /\ a = b * (a \div b) + (a % b)
<1>1. a = b * (a \div b) + (a % b)
  BY SMT
<1>2. a % b \in 0..b - 1
  OBVIOUS
<1>3. a \div b \in Nat
  OBVIOUS
<1>4. QED
  BY <1>1, <1>2, <1>3

LEMMA DivBound == ASSUME NEW b \in Nat \ {0}, NEW q \in Nat, NEW c \in Nat, NEW r \in 0..b - 1,
                         b * q + r < c * b
                  PROVE  q < c
<1> SUFFICES ASSUME q >= c PROVE FALSE
  OBVIOUS
<1>1. b * q >= b * c
  OBVIOUS
<1>2. QED
  BY <1>1

\* The new deck has every card once.
LEMMA NewDeck ==
  /\ DeckSize \in Nat
  /\ \A k \in 1..DeckSize : InitDeck[k] \in Card
  /\ \A j, k \in 1..DeckSize : InitDeck[j] = InitDeck[k] => j = k
<1> DEFINE m == NSuits * SuitSize
<1>1. m \in Nat /\ DeckSize = m + PayooSize /\ DeckSize \in Nat /\ PayooSize \in Nat
  <2>1. NSuits * SuitSize \in Nat
    BY CardsAssumption
  <2>2. QED
    BY <2>1, CardsAssumption DEF DeckSize
<1> DEFINE q(k) == (k - 1) \div SuitSize
           r(k) == (k - 1) % SuitSize
<1>2. ASSUME NEW k \in 1..DeckSize, k <= m
      PROVE  /\ InitDeck[k] = [type |-> q(k), number |-> r(k) + 1]
             /\ InitDeck[k] \in Card
             /\ InitDeck[k].type = q(k) /\ InitDeck[k].number = r(k) + 1
             /\ q(k) \in Suits /\ r(k) \in Nat
             /\ k = SuitSize * q(k) + r(k) + 1
  <2>1. k - 1 \in Nat /\ SuitSize \in Nat \ {0} /\ NSuits \in Nat
    BY CardsAssumption
  <2>2. q(k) \in Nat /\ r(k) \in 0..SuitSize - 1 /\ k - 1 = SuitSize * q(k) + r(k)
    BY <2>1, DivMod
  <2>3. k - 1 < m
    BY <1>1, <1>2
  <2> HIDE DEF q, r
  <2>4. q(k) < NSuits
    BY <2>1, <2>2, <2>3, DivBound
  <2>5. q(k) \in Suits /\ r(k) + 1 \in 1..SuitSize
    BY <2>1, <2>2, <2>4 DEF Suits
  <2>6. InitDeck[k] = [type |-> q(k), number |-> r(k) + 1]
    BY <1>2 DEF InitDeck, q, r
  <2>7. k = SuitSize * q(k) + r(k) + 1
    <3>1. SuitSize * q(k) \in Nat
      BY <2>1, <2>2
    <3>2. QED
      BY <2>2, <3>1
  <2>8. InitDeck[k] \in Card
    BY <2>5, <2>6 DEF Card
  <2>9. QED
    BY <2>2, <2>5, <2>6, <2>7, <2>8
<1>3. ASSUME NEW k \in 1..DeckSize, ~(k <= m)
      PROVE  /\ InitDeck[k] \in Card
             /\ InitDeck[k].type = Payoo /\ InitDeck[k].number = k - m
  <2>1. InitDeck[k] = [type |-> Payoo, number |-> k - m] /\ k - m \in 1..PayooSize
    BY <1>1, <1>3 DEF InitDeck
  <2>2. QED
    BY <2>1 DEF Card
<1> HIDE DEF q, r, m
<1>4. Payoo \notin Suits
  BY CardsAssumption DEF Payoo, Suits
<1>5. ASSUME NEW k \in 1..DeckSize PROVE InitDeck[k] \in Card
  BY <1>2, <1>3
<1>8. ASSUME NEW k \in 1..DeckSize, k <= m PROVE InitDeck[k].type \in Suits
  BY <1>2, <1>8
<1>6. ASSUME NEW j \in 1..DeckSize, NEW k \in 1..DeckSize, InitDeck[j] = InitDeck[k]
      PROVE  j = k
  <2>1. CASE j <= m /\ k <= m
    <3>1. q(j) = q(k) /\ r(j) + 1 = r(k) + 1
      BY <1>2, <1>6, <2>1
    <3>2. r(j) \in Nat /\ r(k) \in Nat
      BY <1>2, <2>1
    <3>3. r(j) = r(k)
      BY <3>1, <3>2
    <3>4. /\ j = SuitSize * q(j) + r(j) + 1
          /\ k = SuitSize * q(k) + r(k) + 1
      BY <1>2, <2>1
    <3>5. QED
      BY <3>1, <3>3, <3>4
  <2>2. CASE ~(j <= m) /\ ~(k <= m)
    <3>1. j - m = k - m
      BY <1>3, <1>6, <2>2
    <3>2. QED
      BY <1>1, <3>1
  <2>3. CASE j <= m /\ ~(k <= m)
    <3>1. InitDeck[j].type \in Suits /\ InitDeck[k].type = Payoo
      BY <1>3, <1>8, <2>3
    <3>2. QED
      BY <1>4, <1>6, <3>1
  <2>4. CASE ~(j <= m) /\ k <= m
    <3>1. InitDeck[k].type \in Suits /\ InitDeck[j].type = Payoo
      BY <1>3, <1>8, <2>4
    <3>2. QED
      BY <1>4, <1>6, <3>1
  <2>5. QED
    BY <2>1, <2>2, <2>3, <2>4
<1>7. QED
  BY <1>1, <1>5, <1>6

LEMMA ShuffledDeck ==
  ASSUME NEW perm \in Shuffles
  PROVE  /\ \A k \in 1..DeckSize : Shuffled(perm)[k] \in Card
         /\ \A j, k \in 1..DeckSize : Shuffled(perm)[j] = Shuffled(perm)[k] => j = k
<1>1. perm \in [1..DeckSize -> 1..DeckSize] /\ IsInjective(perm)
  BY ServerAssumption
<1>2. \A k \in 1..DeckSize : perm[k] \in 1..DeckSize /\ Shuffled(perm)[k] = InitDeck[perm[k]]
  BY <1>1 DEF Shuffled
<1>3. \A j, k \in 1..DeckSize : perm[j] = perm[k] => j = k
  BY <1>1 DEF IsInjective
<1>4. QED
  BY <1>2, <1>3, NewDeck

\* Every player is dealt as many cards, and no two players the same card.
LEMMA DealtHands ==
  ASSUME NEW perm \in Shuffles, NEW n \in Nat \ {0}, NEW i \in 0..n - 1
  PROVE  /\ DeckSize \div n \in Nat
         /\ Dealt(Shuffled(perm), n, i) \in CardSeq
         /\ Len(Dealt(Shuffled(perm), n, i)) = DeckSize \div n
         /\ \A k \in 1..DeckSize \div n :
              /\ i * (DeckSize \div n) + k \in 1..DeckSize
              /\ Dealt(Shuffled(perm), n, i)[k] = Shuffled(perm)[i * (DeckSize \div n) + k]
<1> PICK deck : deck = Shuffled(perm)
  OBVIOUS
<1> PICK h : h = DeckSize \div n
  OBVIOUS
<1> PICK a : a = i * h
  OBVIOUS
<1>1. h \in Nat /\ n * h <= DeckSize /\ DeckSize \in Nat
  <2>1. DeckSize \in Nat
    BY NewDeck
  <2>2. h \in Nat /\ DeckSize % n \in 0..n - 1 /\ DeckSize = n * h + (DeckSize % n)
    BY <2>1, DivMod
  <2>6. n * h \in Nat
    BY <2>2
  <2> PICK p : p = n * h
    OBVIOUS
  <2> PICK r : r = DeckSize % n
    OBVIOUS
  <2>3. p \in Nat
    BY <2>6
  <2>4. r \in Nat /\ DeckSize = p + r
    BY <2>2
  <2>5. p <= DeckSize
    BY <2>3, <2>4
  <2>7. QED
    BY <2>1, <2>2, <2>5
<1>2. a \in Nat /\ (i + 1) * h = a + h /\ a + h <= DeckSize
  <2>1. i \in Nat /\ i + 1 <= n
    OBVIOUS
  <2>2. a \in Nat /\ (i + 1) * h = a + h
    BY <1>1, <2>1
  <2>3. (i + 1) * h <= n * h
    BY <1>1, <2>1
  <2>4. QED
    BY <1>1, <2>2, <2>3
<1> PICK s : s = Dealt(deck, n, i)
  OBVIOUS
<1>3. s = SubSeq(deck, a + 1, a + h)
  BY <1>2 DEF Dealt
<1>4. DOMAIN deck = 1..DeckSize /\ \A k \in 1..DeckSize : deck[k] \in AnyCard
  BY ShuffledDeck DEF Shuffled, AnyCard
<1>5. deck \in Seq(AnyCard)
  <2>1. deck = [k \in 1..DeckSize |-> deck[k]]
    BY DEF Shuffled
  <2>2. deck \in [1..DeckSize -> AnyCard]
    BY <1>4, <2>1
  <2>3. QED
    BY <1>1, <2>2, SeqDef
<1>6. Len(deck) = DeckSize
  BY <1>1, <1>4, <1>5
<1>7. /\ s \in Seq(AnyCard) /\ Len(s) = h
      /\ \A k \in 1..h : s[k] = deck[a + k]
  <2>1. \A k \in a + 1..a + h : deck[k] \in AnyCard
    BY <1>1, <1>2, <1>4
  <2>2. a + 1 \in 1..Len(deck) + 1 /\ a + h \in a..Len(deck)
    BY <1>1, <1>2, <1>6
  <2>3. s \in Seq(AnyCard) /\ Len(s) = IF a + 1 <= a + h THEN (a + h) - (a + 1) + 1 ELSE 0
    <3> PICK b, e : b = a + 1 /\ e = a + h
      OBVIOUS
    <3>1. b \in Int /\ e \in Int /\ \A k \in b..e : deck[k] \in AnyCard
      BY <1>1, <1>2, <2>1
    <3>2. SubSeq(deck, b, e) \in Seq(AnyCard)
      BY <3>1, SubSeqProperties
    <3>3. Len(SubSeq(deck, b, e)) = IF b <= e THEN e - b + 1 ELSE 0
      BY <3>1, SubSeqProperties
    <3>4. QED
      BY <1>3, <3>2, <3>3
  <2>4. Len(s) = h
    BY <1>1, <1>2, <2>3
  <2>5. \A k \in 1..h : s[k] = deck[(a + 1) + k - 1]
    BY <1>1, <1>2, <1>3, <2>1, <2>4, SubSeqProperties
  <2>6. \A k \in 1..h : (a + 1) + k - 1 = a + k
    BY <1>1, <1>2
  <2>7. QED
    BY <2>3, <2>4, <2>5, <2>6
<1>8. \A k \in 1..h : a + k \in 1..DeckSize
  BY <1>1, <1>2
<1>9. QED
  BY <1>1, <1>7, <1>8 DEF CardSeq


-----------------------------------------------------------------------------
(* What a step of a client does, variable by variable.                     *)

Alone(c) ==
  /\ UNCHANGED <<listening, serverVars>>
  /\ \A d \in Clients \ {c} : /\ toClient'[d] = toClient[d] /\ toServer'[d] = toServer[d]
                              /\ conn'[d] = conn[d] /\ cl'[d] = cl[d]

\* It takes note of a message.
Notes(c, code) ==
  /\ At(c, IF code \in {"OK", "REFUSE"} THEN "greet" ELSE "main")
  /\ toClient[c] # <<>> /\ Head(toClient[c]).code = code
  /\ toClient'[c] = Tail(toClient[c])
  /\ toServer'[c] = toServer[c] /\ conn'[c] = conn[c]
  /\ cl'[c].pc = AfterNote(code)
  /\ cl'[c].info = IF code = "BASIC_INFO" THEN Head(toClient[c]).info ELSE cl[c].info
  /\ cl'[c].deck = IF code = "INIT_DECK" THEN Head(toClient[c]).deck
                   ELSE IF code = "ECARTS" THEN Glue(cl[c].deck, Head(toClient[c]).deck)
                   ELSE cl[c].deck
  /\ cl'[c].plis = IF code = "ADD_PLI" THEN Glue(cl[c].plis, Head(toClient[c]).deck)
                   ELSE cl[c].plis
  /\ cl'[c].waiting_for_ecart = IF code = "ECARTS" THEN FALSE ELSE cl[c].waiting_for_ecart

\* It says something.
Tells(c, m) ==
  /\ toServer'[c] = IF conn[c] = "open" THEN Append(toServer[c], m) ELSE toServer[c]
  /\ cl'[c].pc \in {"main", "exited"}
  /\ cl'[c].info = cl[c].info
  /\ conn'[c] = "backlog" => conn[c] = "backlog"

GivesEcart(c) ==
  /\ At(c, "ecart") /\ toClient'[c] = toClient[c]
  /\ \E I \in SUBSET DOMAIN cl[c].deck : \E m :
       /\ Cardinality(I) = EcartSize
       /\ m.code = "ECART" /\ m.deck = CardsAt(cl[c].deck, I) /\ Tells(c, m)
       /\ cl'[c].deck = CardsAt(cl[c].deck, DOMAIN cl[c].deck \ I)
  /\ cl'[c].plis = cl[c].plis /\ cl'[c].waiting_for_ecart = TRUE

PlaysCard(c) ==
  /\ At(c, "play") /\ toClient'[c] = toClient[c]
  /\ \E k \in DOMAIN cl[c].deck : \E m :
       /\ m.code = "PLAY_CARD" /\ Tells(c, m)
       /\ m.played = [card |-> cl[c].deck[k], last_played |-> cl[c].info.player_index]
       /\ cl'[c].deck = RemoveAt(cl[c].deck, k)
  /\ cl'[c].plis = cl[c].plis /\ cl'[c].waiting_for_ecart = cl[c].waiting_for_ecart

Reports(c) ==
  /\ At(c, "main")
  /\ toClient[c] # <<>> /\ Head(toClient[c]).code = "ADD_SCORE"
  /\ toClient'[c] = Tail(toClient[c])
  /\ \E m : /\ m.code = "UPDATE_SCORE" /\ m.score = Points(cl[c].plis, cl[c].info.papayoo)
            /\ Tells(c, m)
  /\ cl'[c].plis = <<>> /\ cl'[c].deck = cl[c].deck
  /\ cl'[c].waiting_for_ecart = cl[c].waiting_for_ecart

\* It signs up, or asks for the scores.
Talks(c) ==
  /\ cl[c].pc \in {"signup", "main"} /\ toClient'[c] = toClient[c]
  /\ \E m : m.code \in {"ADD_PLAYER", "ASK_BASIC_INFO"} /\ Tells(c, m)
  /\ cl'[c].deck = cl[c].deck /\ cl'[c].plis = cl[c].plis
  /\ cl'[c].waiting_for_ecart = cl[c].waiting_for_ecart

\* It connects, or is no longer connected.
Leaves(c) ==
  /\ c \notin Playing \/ Asleep
  /\ \/ At(c, "connect") /\ cl'[c].pc = "greet" /\ toClient'[c] = <<>> /\ toServer'[c] = <<>>
     \/ /\ At(c, "greet") /\ cl'[c].pc = "connect"
        /\ toClient'[c] = toClient[c] /\ toServer'[c] = toServer[c]
     \/ /\ At(c, "main") /\ cl'[c].pc = "exited" /\ conn'[c] # "backlog"
        /\ toClient'[c] = <<>> /\ toServer'[c] = toServer[c]
  /\ cl'[c].deck = cl[c].deck /\ cl'[c].plis = cl[c].plis /\ cl'[c].info = cl[c].info
  /\ cl'[c].waiting_for_ecart = cl[c].waiting_for_ecart

Moves(c) == \/ \E code \in NotedCodes : Notes(c, code)
            \/ GivesEcart(c) \/ PlaysCard(c) \/ Reports(c) \/ Talks(c) \/ Leaves(c)

\* A client after some of its variables have been assigned.
Rec(pc, deck, plis, info, mSent, waiting) ==
  [pc |-> pc, deck |-> deck, plis |-> plis, info |-> info, mSent |-> mSent,
   waiting_for_ecart |-> waiting]

LEMMA DealtRec ==
  ASSUME NEW r, IsClient(r), NEW x, NEW y, NEW s, s = [r EXCEPT !.deck = x, !.pc = y]
  PROVE  s = Rec(y, x, r.plis, r.info, r.mSent, r.waiting_for_ecart)
  BY DEF IsClient, Rec

LEMMA ServedRec ==
  ASSUME NEW r, IsClient(r), NEW x, NEW y, NEW s,
         s = [r EXCEPT !.deck = x, !.waiting_for_ecart = y]
  PROVE  s = Rec(r.pc, x, r.plis, r.info, r.mSent, y)
  BY DEF IsClient, Rec

LEMMA NoteMoves ==
  ASSUME UInv, NEW c \in Clients, NEW code, ClientReceive(c), FromServer(c).code = code,
         UNCHANGED <<listening, conn, toServer, serverVars>>,
         NEW r, cl' = [cl EXCEPT ![c] = r]
  PROVE  /\ Alone(c) /\ cl'[c] = r
         /\ toClient[c] # <<>> /\ Head(toClient[c]).code = code
         /\ toClient'[c] = Tail(toClient[c])
         /\ toServer'[c] = toServer[c] /\ conn'[c] = conn[c]
<1>1. /\ toClient = [d \in Clients |-> toClient[d]] /\ cl = [d \in Clients |-> cl[d]]
      /\ toClient[c] # <<>> /\ toClient' = [toClient EXCEPT ![c] = Tail(@)]
  BY DEF UInv, Functions, ClientReceive
<1>2. toClient'[c] = Tail(toClient[c]) /\ \A d \in Clients \ {c} : toClient'[d] = toClient[d]
  BY <1>1
<1>3. cl'[c] = r /\ \A d \in Clients \ {c} : cl'[d] = cl[d]
  BY <1>1
<1>4. QED
  BY <1>1, <1>2, <1>3 DEF Alone, FromServer

LEMMA GreetMoves ==
  ASSUME UInv, NEW c \in Clients, Welcomed(c) \/ Refused(c)
  PROVE  Alone(c) /\ \E code \in NotedCodes : Notes(c, code)
<1>1. cl = [d \in Clients |-> cl[d]] /\ IsClient(cl[c])
  BY DEF UInv, Functions
<1>2. PICK code \in {"OK", "REFUSE"} :
        Greeting(c, code) /\ Goto(c, IF code = "OK" THEN "signup" ELSE "connect")
  BY DEF Welcomed, Refused
<1>3. PICK r : r = [cl[c] EXCEPT !.pc = AfterNote(code)]
  OBVIOUS
<1>4. /\ ClientReceive(c) /\ FromServer(c).code = code
      /\ UNCHANGED <<listening, conn, toServer, serverVars>> /\ At(c, "greet")
      /\ cl' = [cl EXCEPT ![c] = r]
  BY <1>2, <1>3 DEF Greeting, Goto, FromServer, AfterNote
<1>5. Alone(c) /\ cl'[c] = r /\ toClient[c] # <<>> /\ Head(toClient[c]).code = code
      /\ toClient'[c] = Tail(toClient[c]) /\ toServer'[c] = toServer[c] /\ conn'[c] = conn[c]
  BY <1>4, NoteMoves
<1>6. /\ r.pc = AfterNote(code) /\ r.info = cl[c].info /\ r.deck = cl[c].deck
      /\ r.plis = cl[c].plis /\ r.waiting_for_ecart = cl[c].waiting_for_ecart
  BY <1>1, <1>3 DEF IsClient
<1>7. Notes(c, code)
  BY <1>2, <1>4, <1>5, <1>6 DEF Notes, At
<1>8. QED
  BY <1>5, <1>7 DEF NotedCodes

LEMMA TakeMoves ==
  ASSUME UInv, NEW c \in Clients,
         \/ init_deck(c) \/ add_new_ecart(c) \/ receive_info(c)
         \/ asked_for_card(c) \/ show_pli(c) \/ add_pli(c)
  PROVE  Alone(c) /\ \E code \in NotedCodes : Notes(c, code)
<1>1. cl = [d \in Clients |-> cl[d]] /\ IsClient(cl[c])
  BY DEF UInv, Functions
<1>2. ASSUME NEW code, Handles(c, code)
      PROVE  /\ At(c, "main") /\ ClientReceive(c) /\ FromServer(c).code = code
             /\ UNCHANGED <<listening, backlog, conn, toServer, serverVars>>
  BY <1>2 DEF Handles, Receives
<1>01. PICK deck : deck = cl[c].deck \o FromServer(c).deck
  OBVIOUS
<1>02. PICK plis : plis = cl[c].plis \o FromServer(c).deck
  OBVIOUS
<1> DEFINE Noted(code) == Rec(AfterNote(code),
                              IF code = "INIT_DECK" THEN FromServer(c).deck
                              ELSE IF code = "ECARTS" THEN deck ELSE cl[c].deck,
                              IF code = "ADD_PLI" THEN plis ELSE cl[c].plis,
                              IF code = "BASIC_INFO" THEN FromServer(c).info ELSE cl[c].info,
                              cl[c].mSent,
                              IF code = "ECARTS" THEN FALSE ELSE cl[c].waiting_for_ecart)
<1> HIDE DEF Noted
<1>3. ASSUME NEW code \in NotedCodes \ {"OK", "REFUSE"}, Handles(c, code), NEW r, r = Noted(code),
             cl' = [cl EXCEPT ![c] = r]
      PROVE  Alone(c) /\ Notes(c, code)
  <2>1. /\ At(c, "main") /\ ClientReceive(c) /\ FromServer(c).code = code
        /\ UNCHANGED <<listening, backlog, conn, toServer, serverVars>>
    BY <1>2, <1>3
  <2>2. Alone(c) /\ cl'[c] = r /\ toClient[c] # <<>> /\ Head(toClient[c]).code = code
        /\ toClient'[c] = Tail(toClient[c]) /\ toServer'[c] = toServer[c] /\ conn'[c] = conn[c]
    BY <1>3, <2>1, NoteMoves
  <2>3. /\ r.pc = AfterNote(code)
        /\ r.info = IF code = "BASIC_INFO" THEN Head(toClient[c]).info ELSE cl[c].info
        /\ r.deck = IF code = "INIT_DECK" THEN Head(toClient[c]).deck
                    ELSE IF code = "ECARTS" THEN deck ELSE cl[c].deck
        /\ r.plis = IF code = "ADD_PLI" THEN plis ELSE cl[c].plis
        /\ r.waiting_for_ecart = IF code = "ECARTS" THEN FALSE ELSE cl[c].waiting_for_ecart
    BY <1>3 DEF FromServer, Noted, Rec
  <2>4. deck = Glue(cl[c].deck, Head(toClient[c]).deck) /\ plis = Glue(cl[c].plis, Head(toClient[c]).deck)
    BY <1>01, <1>02 DEF Glue, FromServer
  <2>5. At(c, IF code \in {"OK", "REFUSE"} THEN "greet" ELSE "main")
    BY <1>3, <2>1
  <2>6. QED
    BY <2>2, <2>3, <2>4, <2>5 DEF Notes
<1>4. CASE init_deck(c)
  <2> PICK r : r = Noted("INIT_DECK")
    OBVIOUS
  <2>1. Handles(c, "INIT_DECK") /\ cl[c].pc = "main"
    BY <1>2, <1>4 DEF init_deck, At
  <2>2. r = [cl[c] EXCEPT !.deck = FromServer(c).deck, !.pc = "ecart"]
    <3> PICK x : x = cl[c]
      OBVIOUS
    <3> PICK y : y = FromServer(c).deck
      OBVIOUS
    <3> PICK s : s = [x EXCEPT !.deck = y, !.pc = "ecart"]
      OBVIOUS
    <3>1. s = Rec("ecart", y, x.plis, x.info, x.mSent, x.waiting_for_ecart)
      BY <1>1, DealtRec
    <3>2. r = Rec("ecart", y, x.plis, x.info, x.mSent, x.waiting_for_ecart)
      BY DEF Noted, AfterNote
    <3>3. QED
      BY <3>1, <3>2
  <2>3. cl' = [cl EXCEPT ![c] = r]
    BY <1>1, <1>4, <2>2 DEF init_deck
  <2>4. QED
    BY <1>3, <2>1, <2>3 DEF NotedCodes
<1>5. CASE add_new_ecart(c)
  <2> PICK r : r = Noted("ECARTS")
    OBVIOUS
  <2>1. Handles(c, "ECARTS") /\ cl[c].pc = "main"
    BY <1>2, <1>5 DEF add_new_ecart, At
  <2>2. r = [cl[c] EXCEPT !.deck = deck, !.waiting_for_ecart = FALSE]
    <3> PICK x : x = cl[c]
      OBVIOUS
    <3> PICK s : s = [x EXCEPT !.deck = deck, !.waiting_for_ecart = FALSE]
      OBVIOUS
    <3>1. s = Rec(x.pc, deck, x.plis, x.info, x.mSent, FALSE)
      BY <1>1, ServedRec
    <3>2. r = Rec(x.pc, deck, x.plis, x.info, x.mSent, FALSE)
      BY <2>1 DEF Noted, AfterNote
    <3>3. QED
      BY <3>1, <3>2
  <2>3. cl' = [cl EXCEPT ![c] = r]
    BY <1>1, <1>01, <1>5, <2>2 DEF add_new_ecart
  <2>4. QED
    BY <1>3, <2>1, <2>3 DEF NotedCodes
<1>6. CASE receive_info(c)
  <2> PICK r : r = Noted("BASIC_INFO")
    OBVIOUS
  <2>1. Handles(c, "BASIC_INFO") /\ cl[c].pc = "main"
    BY <1>2, <1>6 DEF receive_info, At
  <2>2. r = [cl[c] EXCEPT !.info = FromServer(c).info]
    BY <1>1, <2>1 DEF IsClient, Noted, Rec, AfterNote
  <2>3. cl' = [cl EXCEPT ![c] = r]
    BY <1>1, <1>6, <2>2 DEF receive_info
  <2>4. QED
    BY <1>3, <2>1, <2>3 DEF NotedCodes
<1>7. CASE asked_for_card(c)
  <2> PICK r : r = Noted("ASK_FOR_CARD")
    OBVIOUS
  <2>1. Handles(c, "ASK_FOR_CARD") /\ cl[c].pc = "main"
    BY <1>2, <1>7 DEF asked_for_card, At
  <2>2. r = [cl[c] EXCEPT !.pc = "play"]
    BY <1>1, <2>1 DEF IsClient, Noted, Rec, AfterNote
  <2>3. cl' = [cl EXCEPT ![c] = r]
    BY <1>1, <1>7, <2>2 DEF asked_for_card, Goto
  <2>4. QED
    BY <1>3, <2>1, <2>3 DEF NotedCodes
<1>8. CASE show_pli(c)
  <2> PICK r : r = Noted("SHOW_PLI")
    OBVIOUS
  <2>1. Handles(c, "SHOW_PLI") /\ cl[c].pc = "main" /\ cl' = cl
    BY <1>2, <1>8 DEF show_pli, At
  <2>2. r = cl[c]
    BY <1>1, <2>1 DEF IsClient, Noted, Rec, AfterNote
  <2>3. cl' = [cl EXCEPT ![c] = r]
    BY <1>1, <2>1, <2>2
  <2>4. QED
    BY <1>3, <2>1, <2>3 DEF NotedCodes
<1>9. CASE add_pli(c)
  <2> PICK r : r = Noted("ADD_PLI")
    OBVIOUS
  <2>1. Handles(c, "ADD_PLI") /\ cl[c].pc = "main"
    BY <1>2, <1>9 DEF add_pli, At
  <2>2. r = [cl[c] EXCEPT !.plis = plis]
    BY <1>1, <2>1 DEF IsClient, Noted, Rec, AfterNote
  <2>3. cl' = [cl EXCEPT ![c] = r]
    BY <1>1, <1>02, <1>9, <2>2 DEF add_pli
  <2>4. QED
    BY <1>3, <2>1, <2>3 DEF NotedCodes
<1>10. QED
  BY <1>4, <1>5, <1>6, <1>7, <1>8, <1>9

LEMMA SendMoves ==
  ASSUME UInv, NEW c \in Clients, NEW m, NEW fields, IsClient(fields), fields.info = cl[c].info,
         Send(c, m, fields), UNCHANGED toClient \/ ClientReceive(c)
  PROVE  /\ Alone(c) /\ Tells(c, m)
         /\ cl'[c].deck = fields.deck /\ cl'[c].plis = fields.plis
         /\ cl'[c].waiting_for_ecart = fields.waiting_for_ecart
         /\ toClient'[c] = IF UNCHANGED toClient THEN toClient[c] ELSE Tail(toClient[c])
<1>1. /\ cl = [d \in Clients |-> cl[d]] /\ toClient = [d \in Clients |-> toClient[d]]
      /\ toServer = [d \in Clients |-> toServer[d]] /\ conn = [d \in Clients |-> conn[d]]
      /\ listening
  BY DEF UInv, Functions
<1> PICK r : r = [fields EXCEPT !.pc = AfterSend(c), !.mSent = m]
  OBVIOUS
<1>2. /\ ClientSend(c, m) /\ UNCHANGED <<listening, backlog, typed, serverVars>>
      /\ cl' = [cl EXCEPT ![c] = r]
  BY DEF Send
<1>3. /\ toServer'[c] = IF conn[c] = "open" THEN Append(toServer[c], m) ELSE toServer[c]
      /\ \A d \in Clients \ {c} : toServer'[d] = toServer[d] /\ conn'[d] = conn[d]
      /\ conn'[c] = "backlog" => conn[c] = "backlog"
  BY <1>1, <1>2 DEF ClientSend
<1>4. /\ r.pc \in {"main", "exited"} /\ r.deck = fields.deck /\ r.plis = fields.plis
      /\ r.info = fields.info /\ r.waiting_for_ecart = fields.waiting_for_ecart
  BY DEF IsClient, AfterSend
<1>5. cl'[c] = r /\ \A d \in Clients \ {c} : cl'[d] = cl[d]
  BY <1>1, <1>2
<1>6. /\ toClient'[c] = IF UNCHANGED toClient THEN toClient[c] ELSE Tail(toClient[c])
      /\ \A d \in Clients \ {c} : toClient'[d] = toClient[d]
  <2>1. CASE UNCHANGED toClient
    BY <2>1
  <2>2. CASE ~UNCHANGED toClient
    BY <1>1, <2>2 DEF ClientReceive
  <2>3. QED
    BY <2>1, <2>2
<1>7. QED
  BY <1>2, <1>3, <1>4, <1>5, <1>6 DEF Alone, Tells

LEMMA SpeakMoves ==
  ASSUME UInv, NEW c \in Clients,
         signup(c) \/ send_ecart(c) \/ play_card(c) \/ add_score(c) \/ ask_basic_info(c)
  PROVE  Alone(c) /\ (GivesEcart(c) \/ PlaysCard(c) \/ Reports(c) \/ Talks(c))
<1>1. /\ cl = [d \in Clients |-> cl[d]] /\ IsClient(cl[c])
      /\ IsQueue(toClient[c])
  BY DEF UInv, Functions, ClientInv, Wire
<1>2. CASE signup(c)
  <2> PICK m : m = [code |-> "ADD_PLAYER"]
    OBVIOUS
  <2>1. Send(c, m, cl[c]) /\ At(c, "signup") /\ UNCHANGED toClient
    BY <1>2 DEF signup
  <2>2. /\ Alone(c) /\ Tells(c, m) /\ toClient'[c] = toClient[c]
        /\ cl'[c].deck = cl[c].deck /\ cl'[c].plis = cl[c].plis
        /\ cl'[c].waiting_for_ecart = cl[c].waiting_for_ecart
    BY <1>1, <2>1, SendMoves
  <2>3. m.code = "ADD_PLAYER"
    OBVIOUS
  <2>4. Talks(c)
    BY <2>1, <2>2, <2>3 DEF Talks, At
  <2>5. QED
    BY <2>2, <2>4
<1>3. CASE send_ecart(c)
  <2>1. PICK I \in SUBSET DOMAIN cl[c].deck :
          /\ Cardinality(I) = EcartSize
          /\ Send(c, [code |-> "ECART", deck |-> CardsAt(cl[c].deck, I)],
                  [cl[c] EXCEPT !.deck = CardsAt(@, DOMAIN @ \ I), !.waiting_for_ecart = TRUE])
    BY <1>3 DEF send_ecart
  <2>2. PICK f0 : f0 = [cl[c] EXCEPT !.deck = CardsAt(cl[c].deck, DOMAIN cl[c].deck \ I)]
    OBVIOUS
  <2>3. PICK fields : fields = [f0 EXCEPT !.waiting_for_ecart = TRUE]
    OBVIOUS
  <2>4. PICK m : m = [code |-> "ECART", deck |-> CardsAt(cl[c].deck, I)]
    OBVIOUS
  <2>5. Send(c, m, fields)
    BY <2>1, <2>2, <2>3, <2>4
  <2>6. /\ IsClient(f0) /\ f0.info = cl[c].info /\ f0.plis = cl[c].plis
        /\ f0.deck = CardsAt(cl[c].deck, DOMAIN cl[c].deck \ I)
    BY <1>1, <2>2 DEF IsClient
  <2>7. /\ IsClient(fields) /\ fields.info = cl[c].info /\ fields.deck = f0.deck
        /\ fields.plis = cl[c].plis /\ fields.waiting_for_ecart = TRUE
    BY <2>3, <2>6 DEF IsClient
  <2>8. At(c, "ecart") /\ UNCHANGED toClient
    BY <1>3 DEF send_ecart
  <2>9. /\ Alone(c) /\ Tells(c, m) /\ toClient'[c] = toClient[c]
        /\ cl'[c].deck = fields.deck /\ cl'[c].plis = fields.plis
        /\ cl'[c].waiting_for_ecart = fields.waiting_for_ecart
    BY <2>5, <2>7, <2>8, SendMoves
  <2>10. m.code = "ECART" /\ m.deck = CardsAt(cl[c].deck, I)
    BY <2>4
  <2>11. GivesEcart(c)
    BY <2>1, <2>6, <2>7, <2>8, <2>9, <2>10 DEF GivesEcart
  <2>12. QED
    BY <2>9, <2>11
<1>4. CASE play_card(c)
  <2>1. PICK k \in DOMAIN cl[c].deck :
          Send(c, [code |-> "PLAY_CARD",
                   played |-> [card |-> cl[c].deck[k], last_played |-> cl[c].info.player_index]],
               [cl[c] EXCEPT !.deck = RemoveAt(@, k)])
    BY <1>4 DEF play_card
  <2>2. PICK fields : fields = [cl[c] EXCEPT !.deck = RemoveAt(cl[c].deck, k)]
    OBVIOUS
  <2>3. PICK m : m = [code |-> "PLAY_CARD",
                      played |-> [card |-> cl[c].deck[k], last_played |-> cl[c].info.player_index]]
    OBVIOUS
  <2>4. Send(c, m, fields)
    BY <2>1, <2>2, <2>3
  <2>5. /\ IsClient(fields) /\ fields.info = cl[c].info /\ fields.plis = cl[c].plis
        /\ fields.deck = RemoveAt(cl[c].deck, k)
        /\ fields.waiting_for_ecart = cl[c].waiting_for_ecart
    BY <1>1, <2>2 DEF IsClient
  <2>6. /\ m.code = "PLAY_CARD"
        /\ m.played = [card |-> cl[c].deck[k], last_played |-> cl[c].info.player_index]
    BY <2>3
  <2>7. At(c, "play") /\ UNCHANGED toClient
    BY <1>4 DEF play_card
  <2>8. /\ Alone(c) /\ Tells(c, m) /\ toClient'[c] = toClient[c]
        /\ cl'[c].deck = fields.deck /\ cl'[c].plis = fields.plis
        /\ cl'[c].waiting_for_ecart = fields.waiting_for_ecart
    BY <2>4, <2>5, <2>7, SendMoves
  <2>9. PlaysCard(c)
    BY <2>5, <2>6, <2>7, <2>8 DEF PlaysCard
  <2>10. QED
    BY <2>8, <2>9
<1>5. CASE add_score(c)
  <2>1. PICK fields : fields = [cl[c] EXCEPT !.plis = <<>>]
    OBVIOUS
  <2>2. PICK m : m = [code |-> "UPDATE_SCORE",
                      score |-> Points(cl[c].plis, cl[c].info.papayoo)]
    OBVIOUS
  <2>3. /\ Send(c, m, fields) /\ At(c, "main") /\ ClientReceive(c)
        /\ Head(toClient[c]).code = "ADD_SCORE"
    BY <1>5, <2>1, <2>2 DEF add_score, Receives, FromServer
  <2>4. /\ IsClient(fields) /\ fields.info = cl[c].info /\ fields.deck = cl[c].deck
        /\ fields.plis = <<>> /\ fields.waiting_for_ecart = cl[c].waiting_for_ecart
    BY <1>1, <2>1 DEF IsClient
  <2>5. m.code = "UPDATE_SCORE" /\ m.score = Points(cl[c].plis, cl[c].info.papayoo)
    BY <2>2
  <2>6. /\ Alone(c) /\ Tells(c, m)
        /\ cl'[c].deck = fields.deck /\ cl'[c].plis = fields.plis
        /\ cl'[c].waiting_for_ecart = fields.waiting_for_ecart
    BY <2>3, <2>4, SendMoves
  <2>7. toClient[c] # <<>> /\ toClient'[c] = Tail(toClient[c])
    BY <2>3 DEF ClientReceive, UInv, Functions
  <2>8. Reports(c)
    BY <2>3, <2>4, <2>5, <2>6, <2>7 DEF Reports
  <2>9. QED
    BY <2>6, <2>8
<1>6. CASE ask_basic_info(c)
  <2> PICK m : m = [code |-> "ASK_BASIC_INFO"]
    OBVIOUS
  <2>1. /\ ClientSend(c, m) /\ UNCHANGED <<listening, backlog, serverVars, toClient>>
        /\ cl' = [cl EXCEPT ![c].mSent = m, ![c].pc = AfterSend(c)] /\ At(c, "main")
    BY <1>6 DEF ask_basic_info, Types
  <2>2. PICK r : r = [cl[c] EXCEPT !.mSent = m, !.pc = AfterSend(c)]
    OBVIOUS
  <2>3. cl' = [cl EXCEPT ![c] = r]
    BY <1>1, <2>1, <2>2
  <2>4. /\ r.info = cl[c].info /\ r.deck = cl[c].deck /\ r.plis = cl[c].plis
        /\ r.waiting_for_ecart = cl[c].waiting_for_ecart /\ r.pc \in {"main", "exited"}
    BY <1>1, <2>2 DEF IsClient, AfterSend
  <2>5. cl'[c] = r /\ \A d \in Clients \ {c} : cl'[d] = cl[d]
    BY <1>1, <2>3
  <2>6. /\ toServer'[c] = IF conn[c] = "open" THEN Append(toServer[c], m) ELSE toServer[c]
        /\ \A d \in Clients \ {c} : toServer'[d] = toServer[d] /\ conn'[d] = conn[d]
        /\ conn'[c] = "backlog" => conn[c] = "backlog"
    <3>1. /\ toServer = [d \in Clients |-> toServer[d]] /\ conn = [d \in Clients |-> conn[d]]
      BY DEF UInv, Functions
    <3>2. QED
      BY <2>1, <3>1 DEF ClientSend
  <2>7. m.code = "ASK_BASIC_INFO"
    OBVIOUS
  <2>8. Alone(c) /\ Tells(c, m)
    BY <2>1, <2>4, <2>5, <2>6 DEF Alone, Tells
  <2>9. Talks(c)
    BY <2>1, <2>4, <2>5, <2>7, <2>8 DEF Talks, At
  <2>10. QED
    BY <2>8, <2>9
<1>7. QED
  BY <1>2, <1>3, <1>4, <1>5, <1>6

LEMMA LeaveMoves ==
  ASSUME UInv, Seated, NEW c \in Clients, Connect(c) \/ GreetingLost(c) \/ end_client(c)
  PROVE  Alone(c) /\ Leaves(c)
<1>1. /\ cl = [d \in Clients |-> cl[d]] /\ toClient = [d \in Clients |-> toClient[d]]
      /\ toServer = [d \in Clients |-> toServer[d]] /\ conn = [d \in Clients |-> conn[d]]
      /\ IsClient(cl[c]) /\ Wire(c) /\ IsQueue(toClient[c])
  BY DEF UInv, Functions, ClientInv, Wire
<1>2. PICK pc : /\ Goto(c, pc) /\ UNCHANGED serverVars
                /\ \/ Connect(c) /\ pc = "greet"
                   \/ GreetingLost(c) /\ pc = "connect"
                   \/ end_client(c) /\ pc = "exited"
  BY DEF Connect, GreetingLost, end_client
<1> PICK r : r = [cl[c] EXCEPT !.pc = pc]
  OBVIOUS
<1>3. /\ cl'[c] = r /\ \A d \in Clients \ {c} : cl'[d] = cl[d]
      /\ r.pc = pc /\ r.info = cl[c].info /\ r.deck = cl[c].deck /\ r.plis = cl[c].plis
      /\ r.waiting_for_ecart = cl[c].waiting_for_ecart
  BY <1>1, <1>2 DEF Goto, IsClient
<1>4. CASE Connect(c)
  <2>1. /\ At(c, "connect") /\ pc = "greet"
        /\ toClient'[c] = <<>> /\ toServer'[c] = <<>> /\ UNCHANGED listening
        /\ \A d \in Clients \ {c} : /\ toClient'[d] = toClient[d] /\ toServer'[d] = toServer[d]
                                    /\ conn'[d] = conn[d]
    BY <1>1, <1>2, <1>4 DEF Connect, OpenConnection, GreetingLost, end_client, At
  <2>2. c \notin Playing
    BY <1>1, <2>1 DEF Wire, Open
  <2>3. QED
    BY <1>2, <1>3, <2>1, <2>2 DEF Alone, Leaves
<1>5. CASE GreetingLost(c)
  <2>1. /\ At(c, "greet") /\ pc = "connect" /\ conn[c] = "dropped" /\ UNCHANGED network
    BY <1>2, <1>5 DEF Connect, GreetingLost, end_client, At
  <2>2. c \notin Playing
    BY <1>1, <2>1 DEF Wire, Open
  <2>3. QED
    BY <1>2, <1>3, <2>1, <2>2 DEF Alone, Leaves, network
<1>6. CASE end_client(c)
  <2>1. /\ At(c, "main") /\ pc = "exited" /\ UNCHANGED <<listening, toServer>>
        /\ toClient[c] # <<>> /\ Head(toClient[c]).code = "END_GAME"
        /\ toClient'[c] = <<>> /\ conn'[c] # "backlog"
        /\ \A d \in Clients \ {c} : toClient'[d] = toClient[d] /\ conn'[d] = conn[d]
    BY <1>1, <1>2, <1>6 DEF Connect, GreetingLost, end_client, At, ClientClose, FromServer
  <2>2. Count(toClient[c], "END_GAME") # 0
    <3>1. Len(toClient[c]) \in Nat \ {0} /\ Head(toClient[c]) = toClient[c][1]
      BY <1>1, <2>1, QueueTail
    <3>2. QED
      BY <1>1, <2>1, <3>1, CountNone
  <2>3. c \notin Playing \/ Asleep
    BY <1>1, <2>2 DEF Wire, Open
  <2>4. QED
    BY <1>2, <1>3, <2>1, <2>3 DEF Alone, Leaves
<1>7. QED
  BY <1>4, <1>5, <1>6

\* Every step of a client, as long as nobody is disturbed.
LEMMA ClientMoves ==
  ASSUME Undisturbed, UInv, Seated, ClientNext
  PROVE  \E c \in Clients : Alone(c) /\ Moves(c)
<1> SUFFICES ASSUME NEW c \in Clients, ClientStep(c) \/ Disturbs(c) PROVE Alone(c) /\ Moves(c)
  BY DEF ClientNext
<1>1. Functions /\ Wire(c) /\ Informed(c)
  BY DEF UInv, ClientInv
<1>2. ~ConnectFails(c)
  BY <1>1 DEF ConnectFails, Functions
<1>3. ~resend(c) /\ ~quit(c)
  BY DEF Undisturbed, resend, Types, quit
<1>4. ASSUME toClient[c] # <<>> PROVE Count(toClient[c], FromServer(c).code) # 0
  <2>1. /\ Count(toClient[c], FromServer(c).code) = Count(Tail(toClient[c]), FromServer(c).code) + 1
        /\ Count(Tail(toClient[c]), FromServer(c).code) \in Nat
    BY <1>1, <1>4, CountTail, QueueTail, KindFinite DEF Wire, FromServer
  <2>2. QED
    BY <2>1
<1>5. ~DivisionByZero(c)
  BY <1>1, <1>4 DEF DivisionByZero, Informed, InformedQueue
<1>6. ~game_cancelled(c)
  BY <1>1, <1>4 DEF game_cancelled, Wire
<1>7. QED
  BY <1>2, <1>3, <1>5, <1>6, GreetMoves, TakeMoves, SpeakMoves, LeaveMoves
  DEF ClientStep, Disturbs, Connects, Reacts, Answers, Moves

-----------------------------------------------------------------------------
(* Types: the steps of a client.                                           *)

PointsOf(cards, p) == [k \in DOMAIN cards |-> CardPoints(cards[k], p)]

LEMMA CardPointsNat == ASSUME NEW x \in AnyCard, NEW p PROVE CardPoints(x, p) \in Nat
<1>1. x.number \in Nat
  BY CardsAssumption DEF AnyCard, Card, NoCard
<1>2. QED
  BY <1>1, CardsAssumption DEF CardPoints

LEMMA PointsNat ==
  ASSUME NEW cards \in CardSeq, NEW p
  PROVE  /\ PointsOf(cards, p) \in Seq(Nat) /\ Len(PointsOf(cards, p)) = Len(cards)
         /\ Points(cards, p) = SumOf(PointsOf(cards, p)) /\ Points(cards, p) \in Nat
<1>1. Len(cards) \in Nat /\ DOMAIN cards = 1..Len(cards) /\ \A k \in 1..Len(cards) : cards[k] \in AnyCard
  BY ElementOfSeq DEF CardSeq
<1> PICK n : n = Len(cards)
  OBVIOUS
<1>2. PointsOf(cards, p) = [k \in 1..n |-> CardPoints(cards[k], p)]
  BY <1>1 DEF PointsOf
<1>3. \A k \in 1..n : CardPoints(cards[k], p) \in Nat
  BY <1>1, CardPointsNat
<1> PICK f : f = [k \in 1..n |-> CardPoints(cards[k], p)]
  OBVIOUS
<1>4. f \in [1..n -> Nat]
  BY <1>3
<1>5. f \in Seq(Nat) /\ Len(f) = n
  BY <1>1, <1>4, SeqDef
<1>6. SumOf(f) \in Nat
  BY <1>5, SumNat
<1>7. Points(cards, p) = SumOf(PointsOf(cards, p))
  BY DEF Points, PointsOf
<1>8. QED
  BY <1>2, <1>5, <1>6, <1>7

LEMMA AloneTypes ==
  ASSUME TInv, NEW c \in Clients, Alone(c), VariableTypes(cl'[c]),
         \A k \in 1..Len(toClient'[c]) : ToClientType(toClient'[c][k]),
         \A k \in 1..Len(toServer'[c]) : ToServerType(toServer'[c][k])
  PROVE  TInv'
<1>1. UNCHANGED <<alarm, srv, board, loop, hist>> /\ ServerTypes
  BY DEF Alone, serverVars, TInv
<1>2. ServerTypes'
  BY <1>1 DEF ServerTypes
<1>3. ASSUME NEW d \in Clients PROVE VariableTypes(cl[d])' /\ QueueTypes(d)'
  <2>1. CASE d = c
    <3>1. VariableTypes(cl[d])'
      BY <2>1 DEF VariableTypes
    <3>2. QED
      BY <2>1, <3>1 DEF QueueTypes
  <2>2. CASE d # c
    <3>1. cl'[d] = cl[d] /\ toClient'[d] = toClient[d] /\ toServer'[d] = toServer[d]
      BY <2>2 DEF Alone
    <3>2. VariableTypes(cl[d]) /\ QueueTypes(d)
      BY DEF TInv
    <3>3. VariableTypes(cl[d])'
      BY <3>1, <3>2 DEF VariableTypes
    <3>4. QED
      BY <3>1, <3>2, <3>3 DEF QueueTypes
  <2>3. QED
    BY <2>1, <2>2
<1>4. QED
  BY <1>2, <1>3 DEF TInv

LEMMA TellsTypes ==
  ASSUME UInv, TInv, NEW c \in Clients, NEW m, ToServerType(m), Tells(c, m)
  PROVE  \A k \in 1..Len(toServer'[c]) : ToServerType(toServer'[c][k])
<1>1. IsQueue(toServer[c]) /\ \A k \in 1..Len(toServer[c]) : ToServerType(toServer[c][k])
  BY DEF UInv, ClientInv, Wire, TInv, QueueTypes
<1>2. \A k \in 1..Len(Append(toServer[c], m)) : ToServerType(Append(toServer[c], m)[k])
  BY <1>1, ToServerAppend
<1>3. QED
  BY <1>1, <1>2 DEF Tells

LEMMA HeadTypes ==
  ASSUME UInv, TInv, NEW c \in Clients, toClient[c] # <<>>, toClient'[c] = Tail(toClient[c])
  PROVE  /\ ToClientType(Head(toClient[c]))
         /\ \A k \in 1..Len(toClient'[c]) : ToClientType(toClient'[c][k])
<1>1. IsQueue(toClient[c]) /\ \A k \in 1..Len(toClient[c]) : ToClientType(toClient[c][k])
  BY DEF UInv, ClientInv, Wire, TInv, QueueTypes
<1>2. QED
  BY <1>1, ToClientTail

LEMMA CardsRemoved ==
  ASSUME NEW deck \in CardSeq, NEW k \in DOMAIN deck
  PROVE  /\ k \in 1..Len(deck) /\ deck[k] \in AnyCard
         /\ RemoveAt(deck, k) \in CardSeq /\ Len(RemoveAt(deck, k)) = Len(deck) - 1
<1>1. k \in 1..Len(deck) /\ deck[k] \in AnyCard
  BY ElementOfSeq DEF CardSeq
<1>2. QED
  BY <1>1, RemoveAtSeq DEF CardSeq

LEMMA TInvClient ==
  ASSUME UInv, TInv, NEW c \in Clients, Alone(c), Moves(c)
  PROVE  TInv'
<1>1. /\ VariableTypes(cl[c])
      /\ \A k \in 1..Len(toClient[c]) : ToClientType(toClient[c][k])
      /\ \A k \in 1..Len(toServer[c]) : ToServerType(toServer[c][k])
      /\ cl[c].pc \in ClientLabels /\ cl[c].info \in Info
      /\ cl[c].deck \in CardSeq /\ cl[c].plis \in CardSeq
  BY DEF TInv, QueueTypes, VariableTypes
<1>2. ASSUME NEW code \in NotedCodes, Notes(c, code) PROVE TInv'
  <2> PICK h : h = Head(toClient[c])
    OBVIOUS
  <2>1. /\ ToClientType(h) /\ h.code = code
        /\ \A k \in 1..Len(toClient'[c]) : ToClientType(toClient'[c][k])
    BY <1>2, HeadTypes DEF Notes
  <2>2. \A k \in 1..Len(toServer'[c]) : ToServerType(toServer'[c][k])
    BY <1>1, <1>2 DEF Notes
  <2>3. cl'[c].pc \in ClientLabels
    BY <1>2 DEF Notes, AfterNote, ClientLabels
  <2>4. cl'[c].info \in Info
    BY <1>1, <1>2, <2>1 DEF Notes, ToClientType
  <2>5. code \in {"INIT_DECK", "ECARTS", "ADD_PLI"} => h.deck \in CardSeq
    BY <2>1 DEF ToClientType
  <2>6. cl'[c].deck \in CardSeq
    <3>1. code = "ECARTS" => Glue(cl[c].deck, h.deck) \in CardSeq
      BY <1>1, <2>5, GlueLaws
    <3>2. QED
      BY <1>1, <1>2, <2>5, <3>1 DEF Notes
  <2>7. cl'[c].plis \in CardSeq
    <3>1. code = "ADD_PLI" => Glue(cl[c].plis, h.deck) \in CardSeq
      BY <1>1, <2>5, GlueLaws
    <3>2. QED
      BY <1>1, <1>2, <2>5, <3>1 DEF Notes
  <2>8. QED
    BY <2>1, <2>2, <2>3, <2>4, <2>6, <2>7, AloneTypes DEF VariableTypes
<1>3. ASSUME NEW m, Tells(c, m), ToServerType(m),
             cl'[c].deck \in CardSeq, cl'[c].plis \in CardSeq,
             \A k \in 1..Len(toClient'[c]) : ToClientType(toClient'[c][k])
      PROVE  TInv'
  <2>1. \A k \in 1..Len(toServer'[c]) : ToServerType(toServer'[c][k])
    BY <1>3, TellsTypes
  <2>2. VariableTypes(cl'[c])
    BY <1>1, <1>3 DEF VariableTypes, Tells, ClientLabels
  <2>3. QED
    BY <1>3, <2>1, <2>2, AloneTypes
<1>4. CASE GivesEcart(c)
  <2> PICK I \in SUBSET DOMAIN cl[c].deck : \E m :
          /\ m.code = "ECART" /\ m.deck = CardsAt(cl[c].deck, I) /\ Tells(c, m)
          /\ cl'[c].deck = CardsAt(cl[c].deck, DOMAIN cl[c].deck \ I)
    BY <1>4 DEF GivesEcart
  <2>1. PICK m :
          /\ m.code = "ECART" /\ m.deck = CardsAt(cl[c].deck, I) /\ Tells(c, m)
          /\ cl'[c].deck = CardsAt(cl[c].deck, DOMAIN cl[c].deck \ I)
    OBVIOUS
  <2>2. DOMAIN cl[c].deck = 1..Len(cl[c].deck)
    BY <1>1, ElementOfSeq DEF CardSeq
  <2>3. m.deck \in CardSeq /\ cl'[c].deck \in CardSeq
    <3>1. I \in SUBSET (1..Len(cl[c].deck)) /\ (DOMAIN cl[c].deck \ I) \in SUBSET (1..Len(cl[c].deck))
      BY <2>2
    <3>2. QED
      BY <1>1, <2>1, <3>1, CardsAtPositions
  <2>4. ToServerType(m)
    BY <2>1, <2>3 DEF ToServerType
  <2>5. QED
    BY <1>1, <1>3, <1>4, <2>1, <2>3, <2>4 DEF GivesEcart
<1>5. CASE PlaysCard(c)
  <2> PICK k \in DOMAIN cl[c].deck : \E m :
          /\ m.code = "PLAY_CARD" /\ Tells(c, m)
          /\ m.played = [card |-> cl[c].deck[k], last_played |-> cl[c].info.player_index]
          /\ cl'[c].deck = RemoveAt(cl[c].deck, k)
    BY <1>5 DEF PlaysCard
  <2>1. PICK m :
          /\ m.code = "PLAY_CARD" /\ Tells(c, m)
          /\ m.played = [card |-> cl[c].deck[k], last_played |-> cl[c].info.player_index]
          /\ cl'[c].deck = RemoveAt(cl[c].deck, k)
    OBVIOUS
  <2>2. cl[c].deck[k] \in AnyCard /\ cl'[c].deck \in CardSeq
    BY <1>1, <2>1, CardsRemoved
  <2>3. cl[c].info.player_index \in Seats
    BY <1>1 DEF Info
  <2>4. ToServerType(m)
    BY <2>1, <2>2, <2>3 DEF ToServerType, PlayedCard
  <2>5. QED
    BY <1>1, <1>3, <1>5, <2>1, <2>2, <2>4 DEF PlaysCard
<1>6. CASE Reports(c)
  <2>1. PICK m : /\ m.code = "UPDATE_SCORE" /\ m.score = Points(cl[c].plis, cl[c].info.papayoo)
                 /\ Tells(c, m)
    BY <1>6 DEF Reports
  <2>2. ToServerType(m)
    BY <1>1, <2>1, PointsNat DEF ToServerType
  <2>3. \A k \in 1..Len(toClient'[c]) : ToClientType(toClient'[c][k])
    BY <1>6, HeadTypes DEF Reports
  <2>4. cl'[c].deck \in CardSeq /\ cl'[c].plis \in CardSeq
    BY <1>1, <1>6, GlueNothing DEF Reports
  <2>5. QED
    BY <1>3, <2>1, <2>2, <2>3, <2>4
<1>7. CASE Talks(c)
  <2>1. PICK m : m.code \in {"ADD_PLAYER", "ASK_BASIC_INFO"} /\ Tells(c, m)
    BY <1>7 DEF Talks
  <2>2. ToServerType(m)
    BY <2>1 DEF ToServerType
  <2>3. QED
    BY <1>1, <1>3, <1>7, <2>1, <2>2 DEF Talks
<1>8. CASE Leaves(c)
  <2>1. VariableTypes(cl'[c])
    BY <1>1, <1>8 DEF Leaves, VariableTypes, ClientLabels
  <2>2. Len(<<>>) = 0
    OBVIOUS
  <2>3. /\ \A k \in 1..Len(toClient'[c]) : ToClientType(toClient'[c][k])
        /\ \A k \in 1..Len(toServer'[c]) : ToServerType(toServer'[c][k])
    BY <1>1, <1>8, <2>2 DEF Leaves
  <2>4. QED
    BY <2>1, <2>3, AloneTypes
<1>9. QED
  BY <1>2, <1>4, <1>5, <1>6, <1>7, <1>8 DEF Moves

-----------------------------------------------------------------------------
(* What the server adds to a queue.                                        *)

Push(q, cond, m) == IF cond THEN Append(q, m) ELSE q

LEMMA PushFacts ==
  ASSUME NEW q, IsQueue(q), NEW cond \in BOOLEAN, NEW m
  PROVE  /\ IsQueue(Push(q, cond, m))
         /\ \A x : /\ Count(Push(q, cond, m), x) = Count(q, x) + (IF cond /\ m.code = x THEN 1 ELSE 0)
                   /\ Count(q, x) \in Nat
<1>1. \A x : Count(q, x) \in Nat
  BY KindFinite
<1>2. CASE cond
  <2> PICK t : t = <<m>>
    OBVIOUS
  <2>1. Push(q, cond, m) = q \o t /\ IsQueue(t)
    BY <1>2, QueueAppend, ShortQueues DEF Push
  <2>2. \A x : Count(t, x) = IF m.code = x THEN 1 ELSE 0
    BY CountOne
  <2>3. \A x : Count(q \o t, x) = Count(q, x) + Count(t, x)
    BY <2>1, CountCat
  <2>4. IsQueue(q \o t)
    BY <2>1, QueueCat
  <2>5. QED
    BY <1>1, <1>2, <2>1, <2>2, <2>3, <2>4
<1>3. CASE ~cond
  BY <1>1, <1>3 DEF Push
<1>4. QED
  BY <1>2, <1>3

LEMMA PushTypes ==
  ASSUME NEW q, IsQueue(q), NEW cond \in BOOLEAN, NEW m, cond => ToClientType(m),
         \A k \in 1..Len(q) : ToClientType(q[k]), NEW s, s = Push(q, cond, m)
  PROVE  \A k \in 1..Len(s) : ToClientType(s[k])
<1>1. CASE cond
  <2> PICK t : t = <<m>>
    OBVIOUS
  <2>1. s = q \o t /\ IsQueue(t)
    BY <1>1, QueueAppend, ShortQueues DEF Push
  <2>2. Len(t) = 1 /\ t[1] = m
    OBVIOUS
  <2>3. \A k \in 1..Len(t) : ToClientType(t[k])
    BY <1>1, <2>2
  <2>4. QED
    BY <2>1, <2>3, ToClientCat
<1>2. CASE ~cond
  BY <1>2 DEF Push
<1>3. QED
  BY <1>1, <1>2

LEMMA PushCards ==
  ASSUME NEW q, IsQueue(q), NEW cond \in BOOLEAN, NEW m, NEW code, Carries(q, code),
         cond /\ m.code = code => CardsOf(m) \in CardSeq
  PROVE  /\ CardsIn(Push(q, cond, m), code)
              = Glue(CardsIn(q, code), IF cond /\ m.code = code THEN CardsOf(m) ELSE <<>>)
         /\ Carries(Push(q, cond, m), code)
<1>1. CardsIn(q, code) \in CardSeq
  BY CardsInSeq
<1>2. CASE cond
  <2> PICK t : t = <<m>>
    OBVIOUS
  <2> PICK s : s = Push(q, cond, m)
    OBVIOUS
  <2>1. s = Glue(q, t) /\ IsQueue(t)
    BY <1>2, QueueAppend, ShortQueues DEF Push, Glue
  <2>2. m.code = code => CardsOf(m) \in CardSeq
    BY <1>2
  <2>3. /\ CardsIn(t, code) = (IF m.code = code THEN CardsOf(m) ELSE <<>>)
        /\ Carries(t, code)
    BY <2>2, CardsInShort
  <2>4. CardsIn(s, code) = Glue(CardsIn(q, code), CardsIn(t, code)) /\ Carries(s, code)
    BY <2>1, <2>3, CardsInCat
  <2>5. QED
    BY <1>2, <2>3, <2>4
<1>3. CASE ~cond
  <2>1. Glue(CardsIn(q, code), <<>>) = CardsIn(q, code)
    BY <1>1, GlueNothing
  <2>2. QED
    BY <1>3, <2>1 DEF Push
<1>4. QED
  BY <1>2, <1>3

Once(cond, m)           == IF cond THEN <<m>> ELSE <<>>
Both(ca, a, cb, b)      == Once(ca, a) \o Once(cb, b)
Pair(cond, a, b)        == IF cond THEN <<a, b>> ELSE <<>>
OnceAndPair(ca, a, cb, b, c) == Once(ca, a) \o Pair(cb, b, c)

LEMMA PushTwo ==
  ASSUME NEW q, IsQueue(q), NEW ca \in BOOLEAN, NEW a, NEW cb \in BOOLEAN, NEW b
  PROVE  Glue(q, Both(ca, a, cb, b)) = Push(Push(q, ca, a), cb, b)
<1> DEFINE S == ToSet(q) \cup {a, b}
<1>1. q \in Seq(ToSet(q))
  BY DEF IsQueue
<1>2. q \in Seq(S) /\ a \in S /\ b \in S
  <2>1. \A k \in 1..Len(q) : q[k] \in S
    BY <1>1, ElementOfSeq
  <2>2. q \in Seq(S)
    BY <1>1, <2>1
  <2>3. QED
    BY <2>2
<1> HIDE DEF S
<1>3. q \o (<<a>> \o <<b>>) = Append(Append(q, a), b)
  BY <1>2
<1>4. q \o (<<a>> \o <<>>) = Append(q, a) /\ q \o (<<>> \o <<b>>) = Append(q, b)
  BY <1>2
<1>5. q \o (<<>> \o <<>>) = q
  BY <1>2
<1>6. QED
  BY <1>3, <1>4, <1>5 DEF Push, Glue, Both, Once

LEMMA PushPair ==
  ASSUME NEW q, IsQueue(q), NEW cond \in BOOLEAN, NEW a, NEW b
  PROVE  Glue(q, Pair(cond, a, b)) = Push(Push(q, cond, a), cond, b)
<1> DEFINE S == ToSet(q) \cup {a, b}
<1>1. q \in Seq(ToSet(q))
  BY DEF IsQueue
<1>2. q \in Seq(S) /\ a \in S /\ b \in S
  <2>1. \A k \in 1..Len(q) : q[k] \in S
    BY <1>1, ElementOfSeq
  <2>2. q \in Seq(S)
    BY <1>1, <2>1
  <2>3. QED
    BY <2>2
<1> HIDE DEF S
<1>3. q \o <<>> = q
  BY <1>2
<1>4. q \o <<a, b>> = Append(Append(q, a), b)
  BY <1>2
<1>5. QED
  BY <1>3, <1>4 DEF Push, Glue, Pair

LEMMA PushThree ==
  ASSUME NEW q, IsQueue(q), NEW ca \in BOOLEAN, NEW a, NEW cb \in BOOLEAN, NEW b, NEW c
  PROVE  Glue(q, OnceAndPair(ca, a, cb, b, c)) = Push(Push(Push(q, ca, a), cb, b), cb, c)
<1> DEFINE S == ToSet(q) \cup {a, b, c}
<1>1. q \in Seq(ToSet(q))
  BY DEF IsQueue
<1>2. q \in Seq(S) /\ a \in S /\ b \in S /\ c \in S
  <2>1. \A k \in 1..Len(q) : q[k] \in S
    BY <1>1, ElementOfSeq
  <2>2. q \in Seq(S)
    BY <1>1, <2>1
  <2>3. QED
    BY <2>2
<1> HIDE DEF S
<1>3. q \o (<<a>> \o <<b, c>>) = Append(Append(Append(q, a), b), c)
  BY <1>2
<1>4. q \o (<<a>> \o <<>>) = Append(q, a)
  BY <1>2
<1>5. q \o (<<>> \o <<b, c>>) = Append(Append(q, b), c)
  BY <1>2
<1>6. q \o (<<>> \o <<>>) = q
  BY <1>2
<1>7. QED
  BY <1>3, <1>4, <1>5, <1>6 DEF Push, Glue, OnceAndPair, Once, Pair

LEMMA PushBehind ==
  ASSUME NEW q, IsQueue(q), NEW cond \in BOOLEAN, NEW m, NEW x, NEW y, x # y,
         NoneBehind(q, x, y), cond /\ m.code = x => Count(q, y) = 0
  PROVE  NoneBehind(Push(q, cond, m), x, y)
<1>1. CASE cond
  <2> PICK t : t = <<m>>
    OBVIOUS
  <2> PICK n : n = Len(q)
    OBVIOUS
  <2> PICK s : s = Push(q, cond, m)
    OBVIOUS
  <2>1. s = q \o t /\ IsQueue(t) /\ Len(t) = 1 /\ t[1] = m
    BY <1>1, QueueAppend, ShortQueues DEF Push
  <2>2. /\ n \in Nat /\ Len(s) = n + 1 /\ \A k \in 1..n : s[k] = q[k]
        /\ s[n + 1] = m
    <3>1. /\ n \in Nat /\ Len(s) = n + Len(t) /\ \A k \in 1..n : s[k] = q[k]
          /\ \A k \in 1..Len(t) : s[k + n] = t[k]
      BY <2>1, QueueCat, QueueLen
    <3>2. s[1 + n] = m /\ 1 + n = n + 1
      BY <2>1, <3>1
    <3>3. QED
      BY <2>1, <3>1, <3>2
  <2>3. \A j \in 1..n : m.code = x => q[j].code # y
    BY <1>1, CountNone
  <2>4. ASSUME NEW j \in 1..Len(s), NEW k \in 1..Len(s), s[j].code = y, s[k].code = x
        PROVE  k < j
    <3>1. (j \in 1..n \/ j = n + 1) /\ (k \in 1..n \/ k = n + 1)
      BY <2>2
    <3>2. CASE j \in 1..n /\ k \in 1..n
      BY <2>2, <2>4, <3>2 DEF NoneBehind
    <3>3. CASE j \in 1..n /\ k = n + 1
      BY <2>2, <2>3, <2>4, <3>3
    <3>4. CASE j = n + 1 /\ k \in 1..n
      BY <2>2, <3>4
    <3>5. CASE j = n + 1 /\ k = n + 1
      BY <2>4, <3>5
    <3>6. QED
      BY <3>1, <3>2, <3>3, <3>4, <3>5
  <2>5. QED
    BY <2>4 DEF NoneBehind
<1>2. CASE ~cond
  BY <1>2 DEF Push
<1>3. QED
  BY <1>1, <1>2

LEMMA TailBehind ==
  ASSUME NEW q, IsQueue(q), q # <<>>, NEW x, NEW y, NoneBehind(q, x, y)
  PROVE  /\ NoneBehind(Tail(q), x, y)
         /\ Head(q).code = y /\ x # y => Count(q, x) = 0
<1> PICK t : t = Tail(q)
  OBVIOUS
<1> PICK n : n = Len(q)
  OBVIOUS
<1>1. /\ n \in Nat \ {0} /\ Len(t) = n - 1 /\ Head(q) = q[1]
      /\ \A k \in 1..n - 1 : t[k] = q[k + 1]
  BY QueueTail
<1>2. ASSUME NEW j \in 1..Len(t), NEW k \in 1..Len(t), t[j].code = y, t[k].code = x
      PROVE  k < j
  <2>1. j + 1 \in 1..n /\ k + 1 \in 1..n /\ q[j + 1].code = y /\ q[k + 1].code = x
    BY <1>1, <1>2
  <2>2. k + 1 < j + 1
    BY <2>1 DEF NoneBehind
  <2>3. QED
    BY <1>1, <2>2
<1>3. ASSUME Head(q).code = y, x # y PROVE Count(q, x) = 0
  <2>1. 1 \in 1..n
    BY <1>1
  <2>2. \A k \in 1..n : q[k].code = x => k < 1
    BY <1>1, <1>3, <2>1 DEF NoneBehind
  <2>3. \A k \in 1..n : ~(k < 1)
    BY <1>1
  <2>4. QED
    BY <2>2, <2>3, CountNone
<1>4. QED
  BY <1>2, <1>3 DEF NoneBehind

LEMMA NoneBehindNone ==
  ASSUME NEW q, IsQueue(q), NEW x, NEW y, Count(q, x) = 0 \/ Count(q, y) = 0
  PROVE  NoneBehind(q, x, y)
  BY CountNone DEF NoneBehind

-----------------------------------------------------------------------------
(* What a step of the server changes.                                      *)

SameRound  == /\ srv'.game_running = srv.game_running /\ srv'.papayoo = srv.papayoo
              /\ srv'.current_round = srv.current_round
SameEcarts == /\ srv'.one_ecart_received = srv.one_ecart_received
              /\ srv'.amount_ecart_received = srv.amount_ecart_received
              /\ srv'.ecarts_received = srv.ecarts_received
SameTrick  == /\ srv'.current_player_turn = srv.current_player_turn
              /\ srv'.amount_cards_played_this_turn = srv.amount_cards_played_this_turn
              /\ srv'.amount_turn = srv.amount_turn
              /\ board'.pli = board.pli /\ board'.pli_size = board.pli_size
SameScores == /\ srv'.updating_score = srv.updating_score
              /\ srv'.amount_scores_updated = srv.amount_scores_updated
              /\ board'.scores = board.scores /\ hist'.earned = hist.earned

\* The players stay as they are, and so do their connections and variables.
SameTable == /\ UNCHANGED <<listening, conn, cl>> /\ SameSeats /\ ~Asleep
             /\ conn = [c \in Clients |-> conn[c]]

SaysNone == \A c \in Clients : toClient'[c] = toClient[c]
HearsNone == \A c \in Clients : toServer'[c] = toServer[c]

\* The server takes the message m of player i.
Hearing(i, code, m) ==
  /\ i \in Present /\ Player(i) \in Clients /\ Player(i) \in Playing /\ SeatOf(Player(i)) = i
  /\ toServer[Player(i)] # <<>> /\ m = Head(toServer[Player(i)]) /\ m.code = code
  /\ toServer'[Player(i)] = Tail(toServer[Player(i)])
  /\ \A c \in Clients : c # Player(i) => toServer'[c] = toServer[c]
  /\ ~Asleep

Idles == /\ SameTable /\ SaysNone /\ HearsNone /\ ~Asleep'
         /\ SameRound /\ SameEcarts /\ SameTrick /\ SameScores /\ hist'.given = hist.given

DealsInfo(c, papayoo) ==
  [code |-> "BASIC_INFO", info |-> [player_index |-> SeatOf(c), amount_players |-> amount_players,
                                    papayoo |-> papayoo]]
DealsDeck(c, perm) ==
  [code |-> "INIT_DECK", deck |-> Dealt(Shuffled(perm), amount_players, SeatOf(c))]

Deals(perm, papayoo) ==
  /\ SameTable /\ HearsNone /\ ~Asleep'
  /\ ~InEcarts /\ ~InTricks /\ amount_players >= 2
  /\ srv'.game_running = TRUE /\ srv'.updating_score = FALSE /\ srv'.amount_scores_updated = 0
  /\ srv.current_round < MaxRound /\ srv'.current_round = srv.current_round + 1
  /\ srv'.papayoo = papayoo
  /\ SameEcarts /\ SameTrick
  /\ hist'.given = {}
  /\ \A c \in Clients :
       toClient'[c] = Push(Push(toClient[c], c \in Playing, DealsInfo(c, papayoo)),
                           c \in Playing, DealsDeck(c, perm))
  /\ \/ /\ ~srv.game_running
        /\ board'.scores = [i \in Seats |-> IF i \in Present THEN 0 ELSE board.scores[i]]
        /\ hist'.earned = [i \in Seats |-> 0]
     \/ /\ srv.updating_score /\ srv.amount_scores_updated = amount_players
        /\ board'.scores = board.scores /\ hist'.earned = hist.earned

SignsUp(i) == /\ SameTable /\ (\E m : Hearing(i, "ADD_PLAYER", m)) /\ SaysNone /\ ~Asleep'
              /\ SameRound /\ SameEcarts /\ SameTrick /\ SameScores /\ hist'.given = hist.given

Informs(i) ==
  /\ SameTable /\ (\E m : Hearing(i, "ASK_BASIC_INFO", m)) /\ ~Asleep'
  /\ \E cond \in BOOLEAN : \E m :
       /\ m.code = "BASIC_INFO" /\ m.info = CurrentInfo(Player(i))
       /\ \A c \in Clients : toClient'[c] = Push(toClient[c], cond /\ c = Player(i), m)
  /\ SameRound /\ SameEcarts /\ SameTrick /\ SameScores /\ hist'.given = hist.given

GetsEcart(i) ==
  /\ SameTable /\ SaysNone /\ ~Asleep'
  /\ \E m : /\ Hearing(i, "ECART", m)
            /\ srv'.ecarts_received = [srv.ecarts_received EXCEPT ![i] = m.deck]
  /\ srv'.one_ecart_received = TRUE
  /\ srv'.amount_ecart_received = srv.amount_ecart_received + 1
  /\ SameRound /\ SameTrick /\ SameScores /\ hist'.given = hist.given \cup {i}

Ask == [code |-> "ASK_FOR_CARD"]
Giver(c) == (SeatOf(c) + amount_players - 1) % amount_players
Return(c) == [code |-> "ECARTS", deck |-> srv.ecarts_received[Giver(c)]]

SendsBack ==
  /\ SameTable /\ HearsNone /\ ~Asleep'
  /\ InEcarts /\ hist.given = Present /\ InTricks'
  /\ srv'.one_ecart_received = FALSE /\ srv'.amount_ecart_received = 0
  /\ srv'.ecarts_received = srv.ecarts_received
  /\ \A c \in Clients :
       toClient'[c] = Push(Push(toClient[c], c \in Playing, Return(c)), c = Player(0), Ask)
  /\ SameRound /\ SameTrick /\ SameScores /\ hist'.given = hist.given

\* A card reaches the board.
LaysCard(i, m) ==
  /\ SameTable /\ Hearing(i, "PLAY_CARD", m) /\ m = Received(i)
  /\ InTricks /\ m.played.last_played = i
  /\ board.pli_size \in Seats
  /\ board'.pli = [board.pli EXCEPT ![board.pli_size] = m.played]
  /\ SameEcarts /\ SameRound /\ hist'.given = hist.given
  /\ board'.scores = board.scores

TrickGoes(i) ==
  /\ ~Asleep' /\ InTricks' /\ board.pli_size + 1 < amount_players
  /\ srv'.updating_score = srv.updating_score
  /\ srv'.amount_scores_updated = srv.amount_scores_updated
  /\ srv'.current_player_turn = srv.current_player_turn
  /\ srv'.amount_cards_played_this_turn = srv.amount_cards_played_this_turn + 1
  /\ srv'.amount_turn = srv.amount_turn
  /\ board'.pli_size = board.pli_size + 1 /\ hist'.earned = hist.earned
  /\ \E m : LaysCard(i, m)
  /\ \E next \in Present :
       \A c \in Clients : toClient'[c] = Push(Push(toClient[c], c \in Playing, Msg("SHOW_PLI")),
                                              c = Player(next), Ask)

TrickCards(i) == [k \in 1..amount_players |-> FullBoard(i).pli[k - 1].card]
Trick(i) == [code |-> "ADD_PLI", deck |-> TrickCards(i)]

TrickTaken(i) ==
  /\ board.pli_size + 1 = amount_players /\ board'.pli_size = 0
  /\ TrickLoser(i) \in Present
  /\ hist'.earned = [hist.earned EXCEPT ![TrickLoser(i)] = @ + Points(TrickCards(i), srv.papayoo)]
  /\ \E m : LaysCard(i, m)
  /\ srv'.amount_cards_played_this_turn = 0
  /\ srv'.amount_scores_updated = srv.amount_scores_updated

TrickOver(i) ==
  /\ ~Asleep' /\ InTricks' /\ TrickTaken(i)
  /\ srv'.updating_score = srv.updating_score
  /\ srv.amount_turn + 1 # AMOUNT_PLI /\ srv'.amount_turn = srv.amount_turn + 1
  /\ srv'.current_player_turn = TrickLoser(i)
  /\ \A c \in Clients : toClient'[c] = Push(Push(toClient[c], c = Player(TrickLoser(i)), Trick(i)),
                                            c = Player(TrickLoser(i)), Ask)

RoundEnds(i) ==
  /\ TrickTaken(i)
  /\ srv'.updating_score = TRUE /\ srv'.amount_turn = 0 /\ srv'.current_player_turn = 0
  /\ \/ /\ ~Asleep'
        /\ \A c \in Clients :
             toClient'[c] = Push(Push(toClient[c], c = Player(TrickLoser(i)), Trick(i)),
                                 c \in Playing, Msg("ADD_SCORE"))
     \/ /\ Asleep'
        /\ \E e : /\ e.code = "END_GAME"
                  /\ \A c \in Clients :
                       toClient'[c] = Push(Push(Push(toClient[c], c = Player(TrickLoser(i)), Trick(i)),
                                                c \in Playing, Msg("ADD_SCORE")), c \in Playing, e)

CountsScore(i) ==
  /\ SameTable /\ SaysNone /\ ~Asleep'
  /\ \E m : /\ Hearing(i, "UPDATE_SCORE", m)
            /\ board'.scores = [board.scores EXCEPT ![i] = @ + m.score]
  /\ srv'.amount_scores_updated = srv.amount_scores_updated + 1
  /\ srv'.updating_score = srv.updating_score /\ hist'.earned = hist.earned
  /\ SameRound /\ SameEcarts /\ SameTrick /\ hist'.given = hist.given

\* The client d is answered from the lobby; it is new, or was never served.
FirstWord(d, m) ==
  /\ UNCHANGED <<listening, cl, srv, board, hist>> /\ HearsNone /\ ~Asleep /\ ~Asleep'
  /\ d \in Clients /\ conn[d] = "backlog" /\ toClient[d] = <<>> /\ toClient'[d] = <<m>>
  /\ d \notin Playing
  /\ m.code \in {"OK", "REFUSE"}
  /\ \A c \in Clients : c # d => toClient'[c] = toClient[c] /\ conn'[c] = conn[c]

Refuses(d) == /\ SameSeats /\ conn'[d] = "refused" /\ \E m : FirstWord(d, m)

Admits(d) ==
  /\ ~srv.game_running /\ conn'[d] = "open"
  /\ players' = Append(players, [client |-> d, is_registered |-> FALSE])
  /\ \E m : m.code = "OK" /\ FirstWord(d, m)

Clears ==
  /\ UNCHANGED <<listening, cl>> /\ SaysNone /\ Asleep /\ ~Asleep'
  /\ players' = <<>>
  /\ \A c \in Clients : conn'[c] = "backlog" => conn[c] = "backlog"
  /\ \A c \in Clients : toServer'[c] = IF c \in Playing THEN <<>> ELSE toServer[c]
  /\ srv'.game_running = FALSE /\ srv'.updating_score = FALSE /\ srv'.amount_scores_updated = 0
  /\ srv'.current_round = 0 /\ srv'.papayoo = srv.papayoo
  /\ SameEcarts /\ srv'.amount_turn = srv.amount_turn
  /\ board'.pli = board.pli /\ board'.pli_size = 0 /\ board'.scores = [i \in Seats |-> 0]
  /\ hist'.earned = hist.earned

ServerMoves ==
  \/ Idles \/ (\E perm \in Shuffles, papayoo \in Suits : Deals(perm, papayoo))
  \/ (\E i \in Present : \/ SignsUp(i) \/ Informs(i) \/ GetsEcart(i) \/ CountsScore(i)
                         \/ TrickGoes(i) \/ TrickOver(i) \/ RoundEnds(i))
  \/ SendsBack \/ Clears
  \/ \E d \in Clients : Refuses(d) \/ Admits(d)

-----------------------------------------------------------------------------
(* The steps of the server change nothing else.                            *)

LEMMA HearingFacts ==
  ASSUME UInv, Seated, NEW i, NEW code, Receive(i, code)
  PROVE  /\ Hearing(i, code, Received(i)) /\ UNCHANGED <<listening, cl>>
         /\ i \in Present /\ i \in Seats /\ ~Asleep
<1>1. /\ i \in Present /\ Player(i) \in Playing /\ Player(i) \in Clients /\ SeatOf(Player(i)) = i
      /\ ~Asleep /\ Received(i).code = code /\ UNCHANGED <<listening, backlog, cl>>
  BY ReceiveFacts
<1>2. i \in Seats
  BY <1>1, SeatFacts DEF UInv
<1>3. /\ toServer[Player(i)] # <<>> /\ toServer' = [toServer EXCEPT ![Player(i)] = Tail(@)]
      /\ Received(i) = Head(toServer[Player(i)])
  BY DEF Receive, ServerReceive, Received
<1>4. /\ toServer'[Player(i)] = Tail(toServer[Player(i)])
      /\ \A c \in Clients : c # Player(i) => toServer'[c] = toServer[c]
  BY <1>1, <1>3 DEF UInv, Functions
<1>5. QED
  BY <1>1, <1>2, <1>3, <1>4 DEF Hearing

LEMMA TableFacts ==
  ASSUME UInv, Seated, ~Asleep, UNCHANGED <<players, listening, conn, cl>>
  PROVE  SameTable
  BY SeatsStay DEF SameTable, UInv, Functions

LEMMA SentBoth ==
  ASSUME UInv, Seated, ~Asleep, NEW a, NEW b, ServerSend(Then(a, b)),
         \A c \in Clients : c \notin Playing => a[c] = <<>> /\ b[c] = <<>>
  PROVE  conn' = conn /\ \A c \in Clients : toClient'[c] = Glue(toClient[c], Glue(a[c], b[c]))
<1>1. \A c \in Clients : Then(a, b)[c] = a[c] \o b[c]
  BY DEF Then
<1>2. <<>> \o <<>> = <<>>
  OBVIOUS
<1>3. \A c \in Clients : c \notin Playing => Then(a, b)[c] = <<>>
  BY <1>1, <1>2
<1>4. conn' = conn /\ \A c \in Clients : toClient'[c] = toClient[c] \o Then(a, b)[c]
  BY <1>3, SendFacts
<1>5. QED
  BY <1>1, <1>4 DEF Glue

LEMMA IdlesFacts ==
  ASSUME UInv, Seated, Select \/ NothingToDo \/ AlarmRestarts
  PROVE  Idles
<1>1. /\ UNCHANGED <<listening, toServer, players, srv, board, hist, cl>>
      /\ ~Asleep /\ ~Asleep'
  BY DEF Select, NothingToDo, AlarmRestarts, network, clientVars, serverVars, InLoop, Asleep,
         BeforeScores, AfterServing, NextIteration, UInv, Phases, Seated, Shape
<1>2. UNCHANGED <<conn, toClient>>
  BY <1>1, InformFacts DEF Select, NothingToDo, AlarmRestarts, network
<1>3. SameTable
  BY <1>1, <1>2, TableFacts
<1>4. QED
  BY <1>1, <1>2, <1>3 DEF Idles, SaysNone, HearsNone, SameRound, SameEcarts, SameTrick, SameScores

LEMMA DealsFacts ==
  ASSUME UInv, Seated, ~Asleep, ~Asleep', ~InEcarts, ~InTricks, amount_players >= 2,
         NEW perm, NEW papayoo, RoundStarts(perm, papayoo, TRUE), hist'.given = {},
         UNCHANGED <<listening, toServer, players, cl>>,
         board'.pli = board.pli, board'.pli_size = board.pli_size,
         \/ /\ ~srv.game_running
            /\ board'.scores = [i \in Seats |-> IF i \in Present THEN 0 ELSE board.scores[i]]
            /\ hist'.earned = [i \in Seats |-> 0]
         \/ /\ srv.updating_score /\ srv.amount_scores_updated = amount_players
            /\ board'.scores = board.scores /\ hist'.earned = hist.earned
  PROVE  Deals(perm, papayoo)
<1> PICK s : s = [srv EXCEPT !.game_running = TRUE, !.updating_score = FALSE,
                             !.amount_scores_updated = 0,
                             !.current_round = @ + 1, !.papayoo = papayoo]
  OBVIOUS
<1> DEFINE out == [c \in Clients |-> IF c \in Playing
                     THEN <<BasicInfo(SeatOf(c), s), DealsDeck(c, perm)>> ELSE <<>>]
<1>1. srv' = s /\ ServerSend(out) /\ srv.current_round < MaxRound
  BY DEF RoundStarts, ToEverybody, DealsDeck
<1>2. /\ srv'.game_running = TRUE /\ srv'.updating_score = FALSE /\ srv'.papayoo = papayoo
      /\ srv'.amount_scores_updated = 0 /\ srv'.current_round = srv.current_round + 1
      /\ SameEcarts
      /\ srv'.current_player_turn = srv.current_player_turn
      /\ srv'.amount_cards_played_this_turn = srv.amount_cards_played_this_turn
      /\ srv'.amount_turn = srv.amount_turn
      /\ s.papayoo = papayoo
  BY <1>1 DEF Seated, Shape, SameEcarts
<1>3. /\ conn' = conn
      /\ \A c \in Clients : toClient'[c] = toClient[c] \o out[c]
  <2>1. \A c \in Clients : c \notin Playing => out[c] = <<>>
    OBVIOUS
  <2> HIDE DEF out
  <2>2. QED
    BY <1>1, <2>1, SendFacts
<1>4. ASSUME NEW c \in Clients
      PROVE  toClient'[c] = Push(Push(toClient[c], c \in Playing, DealsInfo(c, papayoo)),
                                 c \in Playing, DealsDeck(c, perm))
  <2> PICK cond \in BOOLEAN : cond <=> c \in Playing
    OBVIOUS
  <2> PICK b : b = DealsInfo(c, papayoo)
    OBVIOUS
  <2> PICK d : d = DealsDeck(c, perm)
    OBVIOUS
  <2>1. BasicInfo(SeatOf(c), s) = b
    BY <1>2 DEF BasicInfo, DealsInfo
  <2>2. out[c] = IF cond THEN <<b, d>> ELSE <<>>
    BY <2>1
  <2>3. IsQueue(toClient[c])
    BY DEF UInv, ClientInv, Wire
  <2>4. toClient'[c] = Glue(toClient[c], Pair(cond, b, d))
    <3> HIDE DEF out
    <3>1. QED
      BY <1>3, <2>2 DEF Glue, Pair
  <2>5. toClient'[c] = Push(Push(toClient[c], cond, b), cond, d)
    BY <2>3, <2>4, PushPair
  <2>6. QED
    BY <2>5 DEF Push
<1> HIDE DEF out
<1>5. SameTable /\ SameTrick /\ HearsNone
  BY <1>2, <1>3, TableFacts DEF SameTrick, HearsNone
<1>6. QED
  BY <1>1, <1>2, <1>4, <1>5 DEF Deals

LEMMA StartFacts ==
  ASSUME UInv, Seated, AlarmStartsGame \/ start_round
  PROVE  \E perm \in Shuffles, papayoo \in Suits : Deals(perm, papayoo)
<1>1. ASSUME AlarmStartsGame PROVE \E perm \in Shuffles, papayoo \in Suits : Deals(perm, papayoo)
  <2>1. PICK perm \in Shuffles, papayoo \in Suits : RoundStarts(perm, papayoo, TRUE)
    BY <1>1 DEF AlarmStartsGame
  <2>2. /\ ~srv.game_running /\ amount_players >= 2
        /\ UNCHANGED <<listening, toServer, players, loop, cl>>
        /\ hist'.given = {} /\ hist'.earned = [i \in Seats |-> 0]
        /\ board'.pli_size = board.pli_size /\ board'.pli = board.pli
    BY <1>1 DEF AlarmStartsGame, clientVars, Seated, Shape
  <2>3. board'.scores = [i \in Seats |-> IF i \in Present THEN 0 ELSE board.scores[i]]
    BY <1>1 DEF AlarmStartsGame, Seated, Shape
  <2>4. ~Asleep /\ ~Asleep' /\ ~InEcarts /\ ~InTricks
    BY <2>2 DEF UInv, Phases, Asleep, InEcarts, InTricks
  <2>5. Deals(perm, papayoo)
    BY <2>1, <2>2, <2>3, <2>4, DealsFacts
  <2>6. QED
    BY <2>5
<1>2. ASSUME start_round PROVE \E perm \in Shuffles, papayoo \in Suits : Deals(perm, papayoo)
  <2>1. PICK perm \in Shuffles, papayoo \in Suits : RoundStarts(perm, papayoo, srv.game_running)
    BY <1>2 DEF start_round
  <2>2. /\ srv.updating_score /\ srv.amount_scores_updated = amount_players
        /\ UNCHANGED <<listening, backlog, toServer, players, board, cl>>
        /\ hist'.given = {} /\ hist'.earned = hist.earned
        /\ ~Asleep /\ ~Asleep'
    BY <1>2 DEF start_round, ScoresComplete, BeforeScores, AfterServing, InLoop, NextIteration,
                Asleep, clientVars, Seated, Shape
  <2>3. srv.game_running = TRUE /\ ~InEcarts /\ ~InTricks
    BY <2>2 DEF UInv, Phases, InEcarts, InTricks
  <2>4. amount_players >= 2
    BY <2>2, <2>3 DEF Seated, GameHasItsPlayers, Asleep
  <2>5. Deals(perm, papayoo)
    BY <2>1, <2>2, <2>3, <2>4, DealsFacts
  <2>6. QED
    BY <2>5
<1>3. QED
  BY <1>1, <1>2

-----------------------------------------------------------------------------
(* The messages of the players.                                            *)

LEMMA ServedAwake == ASSUME Seated, NEW i, Served(i), ~Asleep PROVE ~Asleep'
  BY DEF Served, Seated, Shape, Asleep

LEMMA SignsUpFacts ==
  ASSUME UInv, Seated, NEW i, add_player(i)
  PROVE  i \in Present /\ SignsUp(i)
<1>1. /\ Receive(i, "ADD_PLAYER") /\ Served(i) /\ UNCHANGED <<srv, board, hist>>
      /\ ServerInforms({Player(i)})
  BY DEF add_player
<1>2. /\ Hearing(i, "ADD_PLAYER", Received(i)) /\ UNCHANGED <<listening, cl>>
      /\ i \in Present /\ ~Asleep
  BY <1>1, HearingFacts
<1>3. UNCHANGED <<conn, toClient>>
  BY <1>1, <1>2, InformFacts
<1>4. SameTable
  BY <1>2, <1>3, SignedSeats DEF SameTable, UInv, Functions
<1>5. ~Asleep'
  BY <1>1, <1>2, ServedAwake
<1>6. QED
  BY <1>1, <1>2, <1>3, <1>4, <1>5 DEF SignsUp, SaysNone, SameRound, SameEcarts, SameTrick, SameScores

LEMMA CountsScoreFacts ==
  ASSUME UInv, Seated, NEW i, update_score(i)
  PROVE  i \in Present /\ CountsScore(i)
<1>1. /\ Receive(i, "UPDATE_SCORE") /\ Served(i) /\ UNCHANGED <<conn, toClient, players, hist>>
      /\ board' = [board EXCEPT !.scores[i] = @ + Received(i).score]
      /\ srv' = [srv EXCEPT !.amount_scores_updated = @ + 1]
  BY DEF update_score
<1>2. /\ Hearing(i, "UPDATE_SCORE", Received(i)) /\ UNCHANGED <<listening, cl>>
      /\ i \in Present /\ ~Asleep
  BY <1>1, HearingFacts
<1>3. SameTable
  BY <1>1, <1>2, TableFacts
<1>4. ~Asleep'
  BY <1>1, <1>2, ServedAwake
<1>5. /\ srv'.amount_scores_updated = srv.amount_scores_updated + 1
      /\ srv'.updating_score = srv.updating_score
      /\ SameRound /\ SameEcarts
      /\ srv'.current_player_turn = srv.current_player_turn
      /\ srv'.amount_cards_played_this_turn = srv.amount_cards_played_this_turn
      /\ srv'.amount_turn = srv.amount_turn
  BY <1>1 DEF Seated, Shape, SameRound, SameEcarts
<1>6. /\ board'.scores = [board.scores EXCEPT ![i] = @ + Received(i).score]
      /\ board'.pli = board.pli /\ board'.pli_size = board.pli_size
  BY <1>1 DEF Seated, Shape
<1>7. QED
  BY <1>1, <1>2, <1>3, <1>4, <1>5, <1>6 DEF CountsScore, SaysNone, SameTrick

LEMMA GetsEcartFacts ==
  ASSUME UInv, Seated, NEW i, receive_ecart_from_player(i)
  PROVE  i \in Present /\ GetsEcart(i)
<1>1. /\ Receive(i, "ECART") /\ UNCHANGED <<conn, toClient, players, board>> /\ Served(i)
      /\ srv' = [srv EXCEPT !.one_ecart_received = TRUE, !.amount_ecart_received = @ + 1,
                            !.ecarts_received[i] = Received(i).deck]
      /\ hist' = [hist EXCEPT !.given = @ \cup {i}]
  BY DEF receive_ecart_from_player
<1>2. /\ Hearing(i, "ECART", Received(i)) /\ UNCHANGED <<listening, cl>>
      /\ i \in Present /\ ~Asleep
  BY <1>1, HearingFacts
<1>3. SameTable
  BY <1>1, <1>2, TableFacts
<1>4. ~Asleep'
  BY <1>1, <1>2, ServedAwake
<1>5. /\ srv'.one_ecart_received = TRUE
      /\ srv'.amount_ecart_received = srv.amount_ecart_received + 1
      /\ srv'.ecarts_received = [srv.ecarts_received EXCEPT ![i] = Received(i).deck]
      /\ SameRound
      /\ srv'.updating_score = srv.updating_score
      /\ srv'.amount_scores_updated = srv.amount_scores_updated
      /\ srv'.current_player_turn = srv.current_player_turn
      /\ srv'.amount_cards_played_this_turn = srv.amount_cards_played_this_turn
      /\ srv'.amount_turn = srv.amount_turn
      /\ hist'.given = hist.given \cup {i} /\ hist'.earned = hist.earned
  BY <1>1 DEF Seated, Shape, SameRound
<1>6. QED
  BY <1>1, <1>2, <1>3, <1>4, <1>5 DEF GetsEcart, SaysNone, SameTrick, SameScores

LEMMA InformsFacts ==
  ASSUME UInv, Seated, NEW i, send_basic_info(i)
  PROVE  i \in Present /\ Informs(i)
<1>1. Receive(i, "ASK_BASIC_INFO") /\ Served(i) /\ UNCHANGED <<srv, board, hist, players>>
  BY DEF send_basic_info
<1>2. /\ Hearing(i, "ASK_BASIC_INFO", Received(i)) /\ UNCHANGED <<listening, cl>>
      /\ i \in Present /\ ~Asleep
  BY <1>1, HearingFacts
<1>3. ~Asleep'
  BY <1>1, <1>2, ServedAwake
<1>4. SameRound /\ SameEcarts /\ SameTrick /\ SameScores /\ hist'.given = hist.given
  BY <1>1 DEF SameRound, SameEcarts, SameTrick, SameScores
<1>5. i \in Present /\ Player(i) \in Playing /\ SeatOf(Player(i)) = i
  BY <1>2 DEF Hearing
<1> PICK m : m = BasicInfo(i, srv)
  OBVIOUS
<1>6. m.code = "BASIC_INFO" /\ m.info = CurrentInfo(Player(i))
  BY <1>5 DEF BasicInfo, CurrentInfo
<1>7. CASE srv.current_round = 0
  <2>1. UNCHANGED <<conn, toClient>>
    BY <1>2, <1>7, InformFacts DEF send_basic_info
  <2>2. SameTable
    BY <1>1, <1>2, <2>1, TableFacts
  <2>3. \A c \in Clients : toClient'[c] = Push(toClient[c], FALSE /\ c = Player(i), m)
    BY <2>1 DEF Push
  <2>4. QED
    BY <1>2, <1>3, <1>4, <1>6, <2>2, <2>3 DEF Informs
<1>8. CASE srv.current_round # 0
  <2> DEFINE out == [c \in Clients |-> IF c = Player(i) THEN <<m>> ELSE <<>>]
  <2>1. ServerSend(out)
    BY <1>8, <1>5 DEF send_basic_info, ToPlayer
  <2>2. \A c \in Clients : c \notin Playing => out[c] = <<>>
    BY <1>5
  <2>3. \A c \in Clients : out[c] = IF c = Player(i) THEN <<m>> ELSE <<>>
    OBVIOUS
  <2> HIDE DEF out
  <2>4. conn' = conn /\ \A c \in Clients : toClient'[c] = toClient[c] \o out[c]
    BY <1>2, <2>1, <2>2, SendFacts
  <2>5. ASSUME NEW c \in Clients PROVE toClient'[c] = Push(toClient[c], TRUE /\ c = Player(i), m)
    <3>1. IsQueue(toClient[c])
      BY DEF UInv, ClientInv, Wire
    <3>2. toClient[c] \o <<>> = toClient[c]
      BY <3>1 DEF IsQueue
    <3>3. toClient[c] \o <<m>> = Append(toClient[c], m)
      BY <3>1, QueueAppend
    <3>4. CASE c = Player(i)
      <4>1. out[c] = <<m>>
        BY <2>3, <3>4
      <4>2. toClient'[c] = Append(toClient[c], m)
        BY <2>4, <3>3, <4>1
      <4>3. QED
        BY <3>4, <4>2 DEF Push
    <3>5. CASE c # Player(i)
      <4>1. out[c] = <<>>
        BY <2>3, <3>5
      <4>2. toClient'[c] = toClient[c]
        BY <2>4, <3>2, <4>1
      <4>3. QED
        BY <3>5, <4>2 DEF Push
    <3>6. QED
      BY <3>4, <3>5
  <2>6. SameTable
    BY <1>1, <1>2, <2>4, TableFacts
  <2>7. QED
    BY <1>2, <1>3, <1>4, <1>6, <2>5, <2>6 DEF Informs
<1>9. QED
  BY <1>2, <1>7, <1>8

-----------------------------------------------------------------------------
(* The ecarts and the tricks.                                              *)

\* What is said to the clients in A, and a queue of c after it.
ToSome(A, c, m)     == IF c \in A THEN <<m>> ELSE <<>>
PushSome(q, A, c, m) == Push(q, c \in A, m)

\* out is that every player c in A is told f[c]; what the queues become then.
Telling(out, A, f)  == A \subseteq Playing /\ \A c \in Clients : out[c] = ToSome(A, c, f[c])
Told(A, f, B, g)    == \A c \in Clients :
                         toClient'[c] = PushSome(PushSome(toClient[c], A, c, f[c]), B, c, g[c])

\* What is sent to some players, and then to some.
LEMMA SentSets ==
  ASSUME UInv, Seated, ~Asleep, NEW a, NEW b, ServerSend(Then(a, b)),
         NEW A, NEW B, NEW ma, NEW mb, Telling(a, A, ma), Telling(b, B, mb)
  PROVE  conn' = conn /\ Told(A, ma, B, mb)
<1>0. /\ A \subseteq Playing /\ B \subseteq Playing
      /\ \A c \in Clients : a[c] = ToSome(A, c, ma[c]) /\ b[c] = ToSome(B, c, mb[c])
  BY DEF Telling
<1>1. \A c \in Clients : c \notin Playing => a[c] = <<>> /\ b[c] = <<>>
  BY <1>0 DEF ToSome
<1>2. conn' = conn /\ \A c \in Clients : toClient'[c] = Glue(toClient[c], Glue(a[c], b[c]))
  BY <1>1, SentBoth
<1>3. ASSUME NEW c \in Clients
      PROVE  toClient'[c] = PushSome(PushSome(toClient[c], A, c, ma[c]), B, c, mb[c])
  <2> PICK ca \in BOOLEAN : ca <=> c \in A
    OBVIOUS
  <2> PICK cb \in BOOLEAN : cb <=> c \in B
    OBVIOUS
  <2> PICK m : m = ma[c]
    OBVIOUS
  <2> PICK n : n = mb[c]
    OBVIOUS
  <2>1. toClient'[c] = Glue(toClient[c], Both(ca, m, cb, n))
    BY <1>0, <1>2 DEF Glue, Both, Once, ToSome
  <2>2. IsQueue(toClient[c])
    BY DEF UInv, ClientInv, Wire
  <2>3. toClient'[c] = Push(Push(toClient[c], ca, m), cb, n)
    BY ONLY <2>1, <2>2, PushTwo, ca \in BOOLEAN, cb \in BOOLEAN
  <2>4. QED
    BY <2>3 DEF Push, PushSome
<1>4. QED
  BY <1>2, <1>3 DEF Told

LEMMA SendsBackFacts ==
  ASSUME UInv, Seated, send_ecart_back
  PROVE  SendsBack
<1> DEFINE a == ToEverybody(LAMBDA i : <<[code |-> "ECARTS",
                    deck |-> srv.ecarts_received[(i + amount_players - 1) % amount_players]]>>)
           ma == [c \in Clients |-> Return(c)]
           mb == [c \in Clients |-> Ask]
<1> PICK b : b = ask_for_card(0)
  OBVIOUS
<1>1. /\ InEcarts /\ ~InTricks /\ hist.given = Present /\ 0 \in Present /\ srv.game_running
  BY BackFacts
<1>2. srv.current_player_turn = 0 /\ ~srv.updating_score
  BY <1>1 DEF UInv, Phases, InEcarts
<1>3. /\ ~Asleep /\ ServerSend(Then(a, b))
      /\ srv' = [srv EXCEPT !.one_ecart_received = FALSE, !.amount_ecart_received = 0]
      /\ loop' = [pc |-> "scores", ready |-> {}, i |-> 0]
      /\ UNCHANGED <<listening, toServer, players, board, hist, cl>>
  BY <1>2 DEF send_ecart_back, AfterServing, InLoop, Asleep, clientVars
<1>4. /\ SameRound /\ ~Asleep' /\ SameTrick /\ SameScores /\ hist'.given = hist.given
      /\ srv'.one_ecart_received = FALSE /\ srv'.amount_ecart_received = 0
      /\ srv'.ecarts_received = srv.ecarts_received
  BY <1>3 DEF Seated, Shape, Asleep, SameRound, SameTrick, SameScores
<1>5. InTricks'
  <2>1. Present' = Present
    BY <1>3 DEF Present, amount_players
  <2>2. QED
    BY <1>1, <1>2, <1>4, <2>1 DEF InTricks, SameRound, SameScores
<1>6. \A c \in Clients : a[c] = ToSome(Playing, c, ma[c])
  BY DEF ToSome, ToEverybody, Return, Giver
<1>7. \A c \in Clients : b[c] = ToSome({Player(0)}, c, mb[c])
  BY <1>1 DEF ToSome, ask_for_card, ToPlayer, Ask, Msg
<1> HIDE DEF a
<1>8. /\ conn' = conn
      /\ \A c \in Clients :
           toClient'[c] = Push(Push(toClient[c], c \in Playing, Return(c)), c = Player(0), Ask)
  <2>1. Player(0) \in Playing
    BY <1>1, SeatFacts DEF UInv
  <2>2. \A c \in Clients : ma[c] = Return(c) /\ mb[c] = Ask
    OBVIOUS
  <2> HIDE DEF ma, mb
  <2>3. Telling(a, Playing, ma) /\ Telling(b, {Player(0)}, mb)
    BY <1>6, <1>7, <2>1 DEF Telling
  <2>4. conn' = conn /\ Told(Playing, ma, {Player(0)}, mb)
    BY <1>3, <2>3, SentSets
  <2>5. QED
    BY <2>2, <2>4 DEF Push, PushSome, Told
<1>9. SameTable
  BY <1>3, <1>8, TableFacts
<1>10. HearsNone
  BY <1>3 DEF HearsNone
<1>11. QED
  BY <1>1, <1>4, <1>5, <1>8, <1>9, <1>10 DEF SendsBack

-----------------------------------------------------------------------------
(* The tricks.                                                             *)

\* The same message for everybody.
Always(m) == [c \in Clients |-> m]

LEMMA AlwaysIs == \A m : \A c \in Clients : Always(m)[c] = m
  BY DEF Always

\* The board with one card more.
LEMMA LaidCard ==
  ASSUME UInv, Seated, NEW i, Receive(i, "PLAY_CARD")
  PROVE  /\ board.pli_size \in Seats
         /\ FullBoard(i).pli = [board.pli EXCEPT ![board.pli_size] = Received(i).played]
         /\ FullBoard(i).pli_size = board.pli_size + 1
         /\ FullBoard(i).scores = board.scores
         /\ FullBoard(i) = [scores |-> FullBoard(i).scores, names |-> FullBoard(i).names,
                            pli |-> FullBoard(i).pli, pli_size |-> FullBoard(i).pli_size]
<1>1. board.pli_size \in Seats
  <2>1. /\ board.pli_size \in 0..amount_players - 1 /\ amount_players <= MAX_PLAYERS
        /\ amount_players \in Nat
    BY PlayFacts
  <2>2. QED
    BY <2>1, ServerAssumption DEF Seats
<1>2. /\ FullBoard(i) = [board EXCEPT !.pli = [board.pli EXCEPT ![board.pli_size] = Received(i).played],
                                    !.pli_size = board.pli_size + 1]
  BY <1>1 DEF FullBoard, WithCard
<1>3. QED
  BY <1>1, <1>2 DEF Seated, Shape

LEMMA LaysFacts ==
  ASSUME UInv, Seated, NEW i, Receive(i, "PLAY_CARD"), UNCHANGED <<players, conn>>,
         board'.pli = FullBoard(i).pli, board'.scores = FullBoard(i).scores,
         SameEcarts, SameRound, hist'.given = hist.given
  PROVE  i \in Present /\ LaysCard(i, Received(i))
<1>1. /\ Hearing(i, "PLAY_CARD", Received(i)) /\ UNCHANGED <<listening, cl>>
      /\ i \in Present /\ ~Asleep
  BY HearingFacts
<1>2. SameTable
  BY <1>1, TableFacts
<1>3. InTricks /\ Received(i).played.last_played = i
  BY PlayFacts
<1>4. QED
  BY <1>1, <1>2, <1>3, LaidCard DEF LaysCard

LEMMA TrickGoesFacts ==
  ASSUME UInv, Seated, NEW i, TrickGoesOn(i)
  PROVE  i \in Present /\ TrickGoes(i)
<1> PICK next : next = (i + 1) % amount_players
  OBVIOUS
<1> PICK a : a = Announce("SHOW_PLI")
  OBVIOUS
<1> PICK b : b = ask_for_card(next)
  OBVIOUS
<1>1. /\ Receive(i, "PLAY_CARD") /\ CardsPlayed # amount_players /\ board' = FullBoard(i)
      /\ srv' = [srv EXCEPT !.amount_cards_played_this_turn = CardsPlayed]
      /\ UNCHANGED <<players, hist>> /\ Served(i)
      /\ ServerSend(Then(Announce("SHOW_PLI"),
                         ask_for_card((Received(i).played.last_played + 1) % amount_players)))
  BY DEF TrickGoesOn, Served, FullBoard
<1>2. /\ InTricks /\ ~Asleep /\ amount_players \in Nat /\ amount_players >= 2
      /\ Present = 0..amount_players - 1 /\ i \in Present
      /\ Received(i).played.last_played = i
      /\ board.pli_size \in 0..amount_players - 1
      /\ srv.amount_cards_played_this_turn = board.pli_size
  BY <1>1, PlayFacts
<1>3. ServerSend(Then(a, b))
  BY <1>1, <1>2
<1>4. next \in Present
  <2>1. i + 1 \in Nat /\ amount_players \in Nat \ {0}
    BY <1>2
  <2>2. QED
    BY <1>2, <2>1, DivMod
<1>5. CardsPlayed = board.pli_size + 1 /\ board.pli_size + 1 < amount_players
  BY <1>1, <1>2 DEF CardsPlayed
<1>6. /\ SameRound /\ SameEcarts /\ ~Asleep'
      /\ srv'.updating_score = srv.updating_score
      /\ srv'.amount_scores_updated = srv.amount_scores_updated
      /\ srv'.current_player_turn = srv.current_player_turn
      /\ srv'.amount_cards_played_this_turn = srv.amount_cards_played_this_turn + 1
      /\ srv'.amount_turn = srv.amount_turn
      /\ hist'.given = hist.given /\ hist'.earned = hist.earned
  BY <1>1, <1>2, ServedAwake DEF Seated, Shape, SameRound, SameEcarts, CardsPlayed
<1>7. InTricks'
  <2>1. Present' = Present
    BY <1>1 DEF Present, amount_players
  <2>2. QED
    BY <1>2, <1>6, <2>1 DEF InTricks, SameRound, SameEcarts
<1>8. /\ conn' = conn
      /\ \A c \in Clients : toClient'[c] = Push(Push(toClient[c], c \in Playing, Msg("SHOW_PLI")),
                                                c = Player(next), Ask)
  <2>1. Telling(a, Playing, Always(Msg("SHOW_PLI")))
    BY AlwaysIs DEF Telling, ToSome, Announce, ToEverybody
  <2>2. Telling(b, {Player(next)}, Always(Ask))
    BY <1>4, AlwaysIs, SeatFacts DEF UInv, Telling, ToSome, ask_for_card, ToPlayer, Ask, Msg
  <2>3. conn' = conn /\ Told(Playing, Always(Msg("SHOW_PLI")), {Player(next)}, Always(Ask))
    BY <1>2, <1>3, <2>1, <2>2, SentSets
  <2>4. QED
    BY <2>3, AlwaysIs DEF Push, PushSome, Told
<1>9. /\ board'.pli = FullBoard(i).pli /\ board'.scores = FullBoard(i).scores
      /\ board'.pli_size = board.pli_size + 1
  BY <1>1, LaidCard
<1>10. LaysCard(i, Received(i))
  BY <1>1, <1>6, <1>8, <1>9, LaysFacts
<1>11. QED
  BY <1>2, <1>4, <1>5, <1>6, <1>7, <1>8, <1>9, <1>10 DEF TrickGoes

LEMMA TakenFacts ==
  ASSUME UInv, Seated, NEW i, TrickEnds(i), SameEcarts, SameRound, conn' = conn,
         srv'.amount_cards_played_this_turn = 0,
         srv'.amount_scores_updated = srv.amount_scores_updated
  PROVE  i \in Present /\ TrickTaken(i)
<1>1. /\ Receive(i, "PLAY_CARD") /\ CardsPlayed = amount_players /\ UNCHANGED players
      /\ board'.pli_size = 0 /\ hist'.given = hist.given /\ TrickLoser(i) \in Present
      /\ amount_players \in Nat
  BY TrickEndFacts
<1>2. /\ srv.amount_cards_played_this_turn = board.pli_size
      /\ board.pli_size \in 0..amount_players - 1
  BY <1>1, PlayFacts
<1>3. board.pli_size + 1 = amount_players
  BY <1>1, <1>2 DEF CardsPlayed
<1>4. /\ board'.pli = FullBoard(i).pli /\ board'.scores = FullBoard(i).scores
  BY <1>1, LaidCard DEF TrickEnds
<1>5. i \in Present /\ LaysCard(i, Received(i))
  BY <1>1, <1>4, LaysFacts
<1>6. hist'.earned = [hist.earned EXCEPT ![TrickLoser(i)] = @ + Points(TrickCards(i), srv.papayoo)]
  BY DEF TrickEnds, TrickPoints, TrickCards, Seated, Shape
<1>7. QED
  BY <1>1, <1>3, <1>5, <1>6 DEF TrickTaken

LEMMA PliSent ==
  ASSUME UInv, Seated, NEW i, TrickEnds(i), NEW c \in Clients
  PROVE  send_pli(i)[c] = ToSome({Player(TrickLoser(i))}, c, Trick(i))
<1>1. Receive(i, "PLAY_CARD") /\ CardsPlayed = amount_players /\ TrickLoser(i) \in Present
      /\ amount_players \in Nat
  BY TrickEndFacts
<1>2. /\ srv.amount_cards_played_this_turn = board.pli_size
      /\ board.pli_size \in 0..amount_players - 1
  BY <1>1, PlayFacts
<1>3. FullBoard(i).pli_size = amount_players
  BY <1>1, <1>2, LaidCard DEF CardsPlayed
<1>4. QED
  BY <1>1, <1>3 DEF ToSome, send_pli, ToPlayer, Trick, TrickCards

LEMMA TrickOverFacts ==
  ASSUME UInv, Seated, NEW i, NextTrick(i)
  PROVE  i \in Present /\ TrickOver(i)
<1> PICK loser : loser = TrickLoser(i)
  OBVIOUS
<1> PICK a : a = send_pli(i)
  OBVIOUS
<1> PICK b : b = ask_for_card(loser)
  OBVIOUS
<1>1. /\ TrickEnds(i) /\ ~LastTrick /\ ServerSend(Then(a, b)) /\ Served(i)
      /\ srv' = [srv EXCEPT !.amount_turn = @ + 1, !.amount_cards_played_this_turn = 0,
                            !.current_player_turn = loser]
  BY DEF NextTrick
<1>2. /\ UNCHANGED players /\ hist'.given = hist.given /\ InTricks /\ ~Asleep
      /\ loser \in Present
  BY <1>1, TrickEndFacts
<1>3. /\ SameRound /\ SameEcarts /\ ~Asleep'
      /\ srv'.updating_score = srv.updating_score
      /\ srv'.amount_scores_updated = srv.amount_scores_updated
      /\ srv'.current_player_turn = loser
      /\ srv'.amount_cards_played_this_turn = 0
      /\ srv'.amount_turn = srv.amount_turn + 1
  BY <1>1, <1>2, ServedAwake DEF Seated, Shape, SameRound, SameEcarts
<1>4. InTricks'
  <2>1. Present' = Present
    BY <1>2 DEF Present, amount_players
  <2>2. QED
    BY <1>2, <1>3, <2>1 DEF InTricks, SameRound, SameEcarts
<1>5. /\ conn' = conn
      /\ \A c \in Clients : toClient'[c] = Push(Push(toClient[c], c = Player(loser), Trick(i)),
                                                c = Player(loser), Ask)
  <2>1. Telling(a, {Player(loser)}, Always(Trick(i)))
    BY <1>1, <1>2, AlwaysIs, SeatFacts, PliSent DEF UInv, Telling
  <2>2. Telling(b, {Player(loser)}, Always(Ask))
    BY <1>2, AlwaysIs, SeatFacts DEF UInv, Telling, ToSome, ask_for_card, ToPlayer, Ask, Msg
  <2>3. conn' = conn /\ Told({Player(loser)}, Always(Trick(i)), {Player(loser)}, Always(Ask))
    BY <1>1, <1>2, <2>1, <2>2, SentSets
  <2>4. QED
    BY <2>3, AlwaysIs DEF Push, PushSome, Told
<1>6. i \in Present /\ TrickTaken(i)
  BY <1>1, <1>3, <1>5, TakenFacts
<1>7. srv.amount_turn + 1 # AMOUNT_PLI
  BY <1>1 DEF LastTrick
<1>8. QED
  BY <1>3, <1>4, <1>5, <1>6, <1>7 DEF TrickOver

LEMMA OverFacts ==
  ASSUME UInv, Seated, NEW i, TrickEnds(i), RoundOver, conn' = conn
  PROVE  /\ i \in Present /\ TrickTaken(i)
         /\ srv'.updating_score = TRUE /\ srv'.amount_turn = 0 /\ srv'.current_player_turn = 0
<1>1. ~srv.one_ecart_received /\ srv.amount_ecart_received = 0
  BY TrickEndFacts
<1>2. /\ SameRound /\ SameEcarts
      /\ srv'.updating_score = TRUE /\ srv'.amount_turn = 0 /\ srv'.current_player_turn = 0
      /\ srv'.amount_scores_updated = srv.amount_scores_updated
      /\ srv'.amount_cards_played_this_turn = 0
  <2>1. /\ srv'.one_ecart_received = FALSE /\ srv'.amount_ecart_received = 0
        /\ srv'.ecarts_received = srv.ecarts_received
    BY DEF RoundOver, Seated, Shape
  <2>2. srv.one_ecart_received = FALSE
    BY <1>1 DEF UInv, Phases
  <2>3. SameEcarts
    BY <1>1, <2>1, <2>2 DEF SameEcarts
  <2>4. QED
    BY <2>3 DEF RoundOver, Seated, Shape, SameRound
<1>3. i \in Present /\ TrickTaken(i)
  BY <1>2, TakenFacts
<1>4. QED
  BY <1>2, <1>3

LEMMA RoundEndsFacts ==
  ASSUME UInv, Seated, NEW i, EndRound(i)
  PROVE  i \in Present /\ RoundEnds(i)
<1> PICK a : a = send_pli(i)
  OBVIOUS
<1> PICK b : b = Announce("ADD_SCORE")
  OBVIOUS
<1>1. /\ TrickEnds(i) /\ RoundOver /\ ServerSend(Then(a, b)) /\ Served(i)
  BY DEF EndRound
<1>2. ~Asleep /\ TrickLoser(i) \in Present
  BY <1>1, TrickEndFacts
<1>3. /\ conn' = conn
      /\ \A c \in Clients : toClient'[c] = Push(Push(toClient[c], c = Player(TrickLoser(i)), Trick(i)),
                                                c \in Playing, Msg("ADD_SCORE"))
  <2>1. Telling(a, {Player(TrickLoser(i))}, Always(Trick(i)))
    BY <1>1, <1>2, AlwaysIs, SeatFacts, PliSent DEF UInv, Telling
  <2>2. Telling(b, Playing, Always(Msg("ADD_SCORE")))
    BY AlwaysIs DEF Telling, ToSome, Announce, ToEverybody
  <2>3. conn' = conn /\ Told({Player(TrickLoser(i))}, Always(Trick(i)), Playing, Always(Msg("ADD_SCORE")))
    BY <1>1, <1>2, <2>1, <2>2, SentSets
  <2>4. QED
    BY <2>3, AlwaysIs DEF Push, PushSome, Told
<1>4. /\ i \in Present /\ TrickTaken(i)
      /\ srv'.updating_score = TRUE /\ srv'.amount_turn = 0 /\ srv'.current_player_turn = 0
  BY <1>1, <1>3, OverFacts
<1>5. ~Asleep'
  BY <1>1, <1>2, ServedAwake
<1>6. QED
  BY <1>3, <1>4, <1>5 DEF RoundEnds

LEMMA GameEndsFacts ==
  ASSUME UInv, Seated, NEW i, EndGame(i)
  PROVE  i \in Present /\ RoundEnds(i)
<1> PICK m : m = Msg("ADD_SCORE")
  OBVIOUS
<1> PICK e : e = [code |-> "END_GAME", winner |-> Player(Winner(board.scores))]
  OBVIOUS
<1> PICK a : a = send_pli(i)
  OBVIOUS
<1> PICK b : b = [c \in Clients |-> IF c \in Playing THEN <<m, e>> ELSE <<>>]
  OBVIOUS
<1>1. /\ TrickEnds(i) /\ RoundOver /\ ServerSend(Then(a, b))
      /\ loop' = [loop EXCEPT !.pc = "sleep"]
  BY DEF EndGame, ToEverybody
<1>2. ~Asleep /\ TrickLoser(i) \in Present
  BY <1>1, TrickEndFacts
<1>3. Player(TrickLoser(i)) \in Playing
  BY <1>2, SeatFacts DEF UInv
<1>4. \A c \in Clients : /\ a[c] = ToSome({Player(TrickLoser(i))}, c, Trick(i))
                         /\ b[c] = IF c \in Playing THEN <<m, e>> ELSE <<>>
  BY <1>1, PliSent
<1>5. \A c \in Clients : c \notin Playing => a[c] = <<>> /\ b[c] = <<>>
  BY <1>3, <1>4 DEF ToSome
<1>6. conn' = conn /\ \A c \in Clients : toClient'[c] = Glue(toClient[c], Glue(a[c], b[c]))
  BY <1>1, <1>2, <1>5, SentBoth
<1>7. ASSUME NEW c \in Clients
      PROVE  toClient'[c] = Push(Push(Push(toClient[c], c = Player(TrickLoser(i)), Trick(i)),
                                      c \in Playing, m), c \in Playing, e)
  <2> PICK ca \in BOOLEAN : ca <=> c = Player(TrickLoser(i))
    OBVIOUS
  <2> PICK cb \in BOOLEAN : cb <=> c \in Playing
    OBVIOUS
  <2> PICK t : t = Trick(i)
    OBVIOUS
  <2>1. toClient'[c] = Glue(toClient[c], OnceAndPair(ca, t, cb, m, e))
    BY <1>4, <1>6 DEF Glue, OnceAndPair, Once, Pair, ToSome
  <2>2. IsQueue(toClient[c])
    BY DEF UInv, ClientInv, Wire
  <2>3. toClient'[c] = Push(Push(Push(toClient[c], ca, t), cb, m), cb, e)
    BY ONLY <2>1, <2>2, PushThree, ca \in BOOLEAN, cb \in BOOLEAN
  <2>4. QED
    BY <2>3 DEF Push
<1>8. /\ i \in Present /\ TrickTaken(i)
      /\ srv'.updating_score = TRUE /\ srv'.amount_turn = 0 /\ srv'.current_player_turn = 0
  BY <1>1, <1>6, OverFacts
<1>9. Asleep' /\ e.code = "END_GAME"
  BY <1>1 DEF Seated, Shape, Asleep
<1>10. QED
  BY <1>7, <1>8, <1>9 DEF RoundEnds

-----------------------------------------------------------------------------
(* The lobby.                                                              *)

\* The first client of the backlog has been told nothing yet.
LEMMA FirstInLine ==
  ASSUME UInv, Seated, listening, loop.pc = "accept", NEW d, d = Head(backlog)
  PROVE  /\ d \in Clients /\ conn[d] = "backlog" /\ toClient[d] = <<>> /\ d \notin Playing
<1>1. backlog # <<>> /\ backlog \in Seq(Clients)
  BY DEF Seated, AtTheTable
<1>2. Len(backlog) \in Nat \ {0} /\ d = backlog[1] /\ 1 \in 1..Len(backlog)
  BY <1>1
<1>3. d \in Clients /\ conn[d] = "backlog"
  BY <1>1, <1>2, ElementOfSeq DEF UInv, Distinct
<1>4. QED
  BY <1>3 DEF UInv, ClientInv, Wire, Open

LEMMA AppendToNothing == \A m : Append(<<>>, m) = <<m>>
  OBVIOUS

LEMMA RefusesFacts ==
  ASSUME UInv, Seated, RefuseClient
  PROVE  \E d \in Clients : Refuses(d)
<1> PICK d : d = Head(backlog)
  OBVIOUS
<1> PICK m : m = Msg("REFUSE")
  OBVIOUS
<1>1. /\ listening /\ loop.pc = "accept" /\ ~Asleep /\ ~Asleep'
      /\ conn' = [conn EXCEPT ![d] = IF @ = "backlog" THEN "refused" ELSE "none"]
      /\ toClient' = [toClient EXCEPT ![d] = IF conn[d] = "backlog" THEN Append(@, m) ELSE @]
      /\ UNCHANGED <<listening, toServer, players, alarm, srv, board, hist, cl>>
  BY DEF RefuseClient, InLoop, ServerAlive, Seated, Shape, Asleep, clientVars
<1>2. d \in Clients /\ conn[d] = "backlog" /\ toClient[d] = <<>> /\ d \notin Playing
  BY <1>1, FirstInLine
<1>3. /\ conn'[d] = "refused" /\ toClient'[d] = <<m>>
      /\ \A c \in Clients : c # d => conn'[c] = conn[c] /\ toClient'[c] = toClient[c]
  BY <1>1, <1>2, AppendToNothing DEF UInv, Functions
<1>4. m.code = "REFUSE"
  BY DEF Msg
<1>5. SameSeats
  BY <1>1, SeatsStay
<1>6. FirstWord(d, m)
  BY <1>1, <1>2, <1>3, <1>4 DEF FirstWord, HearsNone
<1>7. QED
  BY <1>2, <1>3, <1>5, <1>6 DEF Refuses

LEMMA AdmitsFacts ==
  ASSUME UInv, Seated, AddClient
  PROVE  \E d \in Clients : Admits(d)
<1> PICK d : d = Head(backlog)
  OBVIOUS
<1> PICK m : m = Msg("OK")
  OBVIOUS
<1>1. /\ listening /\ loop.pc = "accept" /\ ~Asleep /\ ~Asleep' /\ ~srv.game_running
      /\ players' = Append(players, [client |-> d, is_registered |-> FALSE])
      /\ conn' = [conn EXCEPT ![d] = IF @ = "backlog" THEN "open" ELSE AfterSends(@, 1)]
      /\ toClient' = [toClient EXCEPT ![d] = IF conn[d] = "backlog" THEN Append(@, m) ELSE @]
      /\ UNCHANGED <<listening, toServer, srv, board, hist, cl>>
  BY DEF AddClient, InLoop, ServerAlive, Seated, Shape, Asleep, clientVars
<1>2. d \in Clients /\ conn[d] = "backlog" /\ toClient[d] = <<>> /\ d \notin Playing
  BY <1>1, FirstInLine
<1>3. /\ conn'[d] = "open" /\ toClient'[d] = <<m>>
      /\ \A c \in Clients : c # d => conn'[c] = conn[c] /\ toClient'[c] = toClient[c]
  BY <1>1, <1>2, AppendToNothing DEF UInv, Functions
<1>4. m.code = "OK"
  BY DEF Msg
<1>5. FirstWord(d, m)
  BY <1>1, <1>2, <1>3, <1>4 DEF FirstWord, HearsNone
<1>6. QED
  BY <1>1, <1>2, <1>3, <1>4, <1>5 DEF Admits

LEMMA ClearsFacts ==
  ASSUME UInv, Seated, clear_lobby
  PROVE  Clears
<1>1. /\ Asleep /\ ~Asleep' /\ players' = <<>> /\ srv' = Cleared(srv)
      /\ board' = [board EXCEPT !.scores = [i \in Seats |-> 0],
                                !.names = [i \in Seats |-> NoName], !.pli_size = 0]
      /\ toServer' = [c \in Clients |-> IF c \in Playing THEN <<>> ELSE toServer[c]]
      /\ UNCHANGED <<listening, backlog, toClient, hist, cl>>
  BY DEF clear_lobby, InLoop, Asleep, ServerClose, clientVars, Seated, Shape
<1>2. /\ srv'.game_running = FALSE /\ srv'.updating_score = FALSE /\ srv'.amount_scores_updated = 0
      /\ srv'.current_round = 0 /\ srv'.papayoo = srv.papayoo
      /\ SameEcarts /\ srv'.amount_turn = srv.amount_turn
  BY <1>1 DEF Cleared, Seated, Shape, SameEcarts
<1>3. /\ board'.pli = board.pli /\ board'.pli_size = 0 /\ board'.scores = [i \in Seats |-> 0]
  BY <1>1 DEF Seated, Shape
<1>4. \A c \in Clients : conn'[c] = "backlog" => conn[c] = "backlog"
  BY DEF clear_lobby, ServerClose
<1>5. QED
  BY <1>1, <1>2, <1>3, <1>4 DEF Clears, SaysNone

\* Every step of the server is one of these.
LEMMA ServerSteps ==
  ASSUME UInv, Seated, ServerNext
  PROVE  ServerMoves
<1>1. ASSUME Select \/ NothingToDo \/ AlarmRestarts PROVE ServerMoves
  BY <1>1, IdlesFacts DEF ServerMoves
<1>2. ASSUME AlarmStartsGame \/ start_round PROVE ServerMoves
  BY <1>2, StartFacts DEF ServerMoves
<1>3. ASSUME RefuseClient PROVE ServerMoves
  BY <1>3, RefusesFacts DEF ServerMoves
<1>4. ASSUME AddClient PROVE ServerMoves
  BY <1>4, AdmitsFacts DEF ServerMoves
<1>5. ASSUME clear_lobby PROVE ServerMoves
  BY <1>5, ClearsFacts DEF ServerMoves
<1>6. ASSUME send_ecart_back PROVE ServerMoves
  BY <1>6, SendsBackFacts DEF ServerMoves
<1>7. ASSUME NEW i \in Seats, Dispatch(i) PROVE ServerMoves
  <2>1. CASE add_player(i)
    BY <2>1, SignsUpFacts DEF ServerMoves
  <2>2. CASE receive_ecart_from_player(i)
    BY <2>2, GetsEcartFacts DEF ServerMoves
  <2>3. CASE TrickGoesOn(i)
    BY <2>3, TrickGoesFacts DEF ServerMoves
  <2>4. CASE NextTrick(i)
    BY <2>4, TrickOverFacts DEF ServerMoves
  <2>5. CASE EndRound(i)
    BY <2>5, RoundEndsFacts DEF ServerMoves
  <2>6. CASE EndGame(i)
    BY <2>6, GameEndsFacts DEF ServerMoves
  <2>7. CASE update_score(i)
    BY <2>7, CountsScoreFacts DEF ServerMoves
  <2>8. CASE send_basic_info(i)
    BY <2>8, InformsFacts DEF ServerMoves
  <2>9. QED
    BY <1>7, <2>1, <2>2, <2>3, <2>4, <2>5, <2>6, <2>7, <2>8 DEF Dispatch
<1>8. ~Killed /\ \A i : ~remove_player(i)
  BY NobodyLeft
<1>9. QED
  BY <1>1, <1>2, <1>3, <1>4, <1>5, <1>6, <1>7, <1>8 DEF ServerNext, MainLoop, AlarmHandler

-----------------------------------------------------------------------------
(* Types: the steps of the server.                                         *)

\* What only the lobby and the main loop touch.
LEMMA PlainTypes ==
  ASSUME UInv, Seated, ServerTypes, ServerNext
  PROVE  /\ alarm' \in BOOLEAN
         /\ loop'.pc \in {"select", "accept", "serve", "sleep", "scores"}
         /\ board'.names \in [Seats -> Clients \cup {NoName}]
<1>0. /\ alarm \in BOOLEAN /\ loop.pc \in {"select", "accept", "serve", "sleep", "scores"}
      /\ board.names \in [Seats -> Clients \cup {NoName}]
  BY DEF ServerTypes
<1>1. ASSUME Select \/ NothingToDo \/ AlarmRestarts \/ start_round
      PROVE  /\ alarm' \in BOOLEAN
             /\ loop'.pc \in {"select", "accept", "serve", "sleep", "scores"}
             /\ board'.names = board.names
  BY <1>0, <1>1 DEF Select, NothingToDo, AlarmRestarts, start_round, NextIteration, serverVars
<1>2. ASSUME AlarmStartsGame
      PROVE  /\ alarm' \in BOOLEAN /\ loop' = loop
             /\ board'.names \in [Seats -> Clients \cup {NoName}]
  <2>1. /\ alarm' = FALSE /\ loop' = loop
        /\ board'.names = [i \in Seats |-> IF i \in Present THEN Player(i) ELSE board.names[i]]
    BY <1>2 DEF AlarmStartsGame, Seated, Shape
  <2>2. \A i \in Present : Player(i) \in Clients
    BY SeatFacts DEF UInv
  <2>3. \A i \in Seats : (IF i \in Present THEN Player(i) ELSE board.names[i]) \in Clients \cup {NoName}
    BY <1>0, <2>2
  <2>4. QED
    BY <2>1, <2>3
<1>3. ASSUME RefuseClient \/ AddClient
      PROVE  alarm' \in BOOLEAN /\ loop'.pc = "serve" /\ board'.names = board.names
  BY <1>0, <1>3 DEF RefuseClient, AddClient, Seated, Shape, FirstInLobby
<1>4. ASSUME clear_lobby
      PROVE  /\ alarm' = alarm /\ loop'.pc = "serve"
             /\ board'.names \in [Seats -> Clients \cup {NoName}]
  BY <1>4 DEF clear_lobby, Seated, Shape
<1>5. ASSUME send_ecart_back
      PROVE  alarm' = alarm /\ loop'.pc = "scores" /\ board'.names = board.names
  BY <1>5 DEF send_ecart_back
<1>6. ASSUME NEW i \in Seats, Dispatch(i)
      PROVE  alarm' = alarm /\ loop'.pc \in {"serve", "sleep"} /\ board'.names = board.names
  <2>1. loop'.pc \in {"serve", "sleep"} /\ board'.names = board.names
    BY <1>6, DispatchKeeps DEF Seated
  <2>2. alarm' = alarm
    BY <1>6 DEF Dispatch, add_player, receive_ecart_from_player, TrickGoesOn, NextTrick, EndRound,
                EndGame, TrickEnds, update_score, send_basic_info
  <2>3. QED
    BY <2>1, <2>2
<1>7. ~Killed /\ \A i : ~remove_player(i)
  BY NobodyLeft
<1>8. QED
  BY <1>0, <1>1, <1>2, <1>3, <1>4, <1>5, <1>6, <1>7 DEF ServerNext, MainLoop, AlarmHandler

LEMMA QueuesOf ==
  ASSUME UInv, NEW c \in Clients
  PROVE  IsQueue(toClient[c]) /\ IsQueue(toServer[c])
  BY DEF UInv, ClientInv, Wire

LEMMA HeardTypes ==
  ASSUME UInv, TInv, NEW i, NEW code, NEW m, Hearing(i, code, m)
  PROVE  /\ ToServerType(m)
         /\ \A c \in Clients : \A k \in 1..Len(toServer'[c]) : ToServerType(toServer'[c][k])
<1> PICK d : d = Player(i)
  OBVIOUS
<1>1. /\ d \in Clients /\ toServer[d] # <<>> /\ m = Head(toServer[d])
      /\ toServer'[d] = Tail(toServer[d]) /\ \A c \in Clients : c # d => toServer'[c] = toServer[c]
  BY DEF Hearing
<1>2. \A c \in Clients : \A k \in 1..Len(toServer[c]) : ToServerType(toServer[c][k])
  BY DEF TInv, QueueTypes
<1>3. ToServerType(m) /\ \A k \in 1..Len(toServer'[d]) : ToServerType(toServer'[d][k])
  BY <1>1, <1>2, QueuesOf, ToServerTail
<1>4. QED
  BY <1>1, <1>2, <1>3

LEMMA SameTypes ==
  ASSUME TInv
  PROVE  /\ SaysNone => \A c \in Clients : \A k \in 1..Len(toClient'[c]) : ToClientType(toClient'[c][k])
         /\ HearsNone => \A c \in Clients : \A k \in 1..Len(toServer'[c]) : ToServerType(toServer'[c][k])
  BY DEF TInv, QueueTypes, SaysNone, HearsNone

\* Two messages, one after the other.
LEMMA PushedTypes ==
  ASSUME UInv, TInv, NEW c \in Clients, NEW P, NEW Q, NEW a, NEW b,
         P => ToClientType(a), Q => ToClientType(b)
  PROVE  \A k \in 1..Len(Push(Push(toClient[c], P, a), Q, b)) :
           ToClientType(Push(Push(toClient[c], P, a), Q, b)[k])
<1> PICK ca \in BOOLEAN : ca <=> P
  OBVIOUS
<1> PICK cb \in BOOLEAN : cb <=> Q
  OBVIOUS
<1> PICK s : s = Push(toClient[c], ca, a)
  OBVIOUS
<1> PICK t : t = Push(s, cb, b)
  OBVIOUS
<1>1. IsQueue(toClient[c]) /\ \A k \in 1..Len(toClient[c]) : ToClientType(toClient[c][k])
  BY QueuesOf DEF TInv, QueueTypes
<1>2. IsQueue(s)
  BY <1>1, PushFacts
<1>3. \A k \in 1..Len(s) : ToClientType(s[k])
  BY <1>1, PushTypes
<1>4. \A k \in 1..Len(t) : ToClientType(t[k])
  BY <1>2, <1>3, PushTypes
<1>5. t = Push(Push(toClient[c], P, a), Q, b)
  BY DEF Push
<1>6. QED
  BY <1>4, <1>5

LEMMA TrickTypes ==
  ASSUME UInv, Seated, TInv, NEW i, NEW m, LaysCard(i, m)
  PROVE  /\ m.played \in PlayedCard
         /\ board'.pli \in [Seats -> PlayedCard]
         /\ TrickCards(i) \in CardSeq /\ Len(TrickCards(i)) = amount_players
<1>1. m.played \in PlayedCard
  BY HeardTypes DEF LaysCard, Hearing, ToServerType
<1>2. board.pli \in [Seats -> PlayedCard] /\ board.pli_size \in Seats
      /\ board'.pli = [board.pli EXCEPT ![board.pli_size] = m.played]
  BY DEF TInv, ServerTypes, LaysCard
<1>3. board'.pli \in [Seats -> PlayedCard]
  BY <1>1, <1>2
<1>4. FullBoard(i).pli = [board.pli EXCEPT ![board.pli_size] = m.played]
  BY <1>2 DEF FullBoard, WithCard, Seated, Shape, LaysCard
<1> PICK pli : pli = FullBoard(i).pli
  OBVIOUS
<1>5. pli \in [Seats -> PlayedCard]
  BY <1>2, <1>3, <1>4
<1> PICK n : n = amount_players
  OBVIOUS
<1>6. n \in Nat /\ n <= MAX_PLAYERS
  BY SeatFacts DEF UInv
<1>7. \A k \in 1..n : pli[k - 1].card \in AnyCard
  <2>1. \A k \in 1..n : k - 1 \in Seats
    BY <1>6, ServerAssumption DEF Seats
  <2>2. QED
    BY <1>5, <2>1 DEF PlayedCard
<1> PICK f : f = TrickCards(i)
  OBVIOUS
<1>8. f = [k \in 1..n |-> pli[k - 1].card]
  BY DEF TrickCards
<1>9. f \in [1..n -> AnyCard]
  BY <1>7, <1>8
<1>10. f \in CardSeq /\ Len(f) = n
  <2>1. f \in Seq(AnyCard)
    BY <1>6, <1>9, SeqDef
  <2>2. Len(f) = n
    BY <1>6, <1>9, <2>1
  <2>3. QED
    BY <2>1, <2>2 DEF CardSeq
<1>11. QED
  BY <1>1, <1>3, <1>10

LEMMA DealTypes ==
  ASSUME UInv, Seated, NEW perm \in Shuffles, NEW papayoo \in Suits, amount_players >= 2,
         NEW c \in Playing
  PROVE  ToClientType(DealsInfo(c, papayoo)) /\ ToClientType(DealsDeck(c, perm))
<1>1. /\ amount_players \in Nat \ {0} /\ amount_players <= MAX_PLAYERS
      /\ SeatOf(c) \in 0..amount_players - 1
  BY SeatFacts DEF UInv
<1>2. SeatOf(c) \in Seats /\ amount_players \in 0..MAX_PLAYERS
  BY <1>1, ServerAssumption DEF Seats
<1>3. Dealt(Shuffled(perm), amount_players, SeatOf(c)) \in CardSeq
  BY <1>1, DealtHands
<1>4. DealsInfo(c, papayoo).info \in Info
  BY <1>2 DEF DealsInfo, Info
<1>5. QED
  BY <1>3, <1>4 DEF ToClientType, DealsInfo, DealsDeck

\* What the clients are told has the types.
LEMMA ToClientStep ==
  ASSUME UInv, Seated, TInv, ServerMoves, NEW c \in Clients
  PROVE  \A k \in 1..Len(toClient'[c]) : ToClientType(toClient'[c][k])
<1> DEFINE Typed == \A k \in 1..Len(toClient'[c]) : ToClientType(toClient'[c][k])
<1>1. ASSUME SaysNone PROVE Typed
  BY <1>1, SameTypes
<1>2. ASSUME NEW P, NEW Q, NEW a, NEW b, toClient'[c] = Push(Push(toClient[c], P, a), Q, b),
             P => ToClientType(a), Q => ToClientType(b)
      PROVE  Typed
  BY <1>2, PushedTypes
<1>3. ASSUME Idles \/ Clears \/ \E i \in Present : SignsUp(i) \/ GetsEcart(i) \/ CountsScore(i)
      PROVE  SaysNone
  <2>1. CASE Idles
    BY <2>1 DEF Idles
  <2>2. CASE Clears
    BY <2>2 DEF Clears
  <2>3. ASSUME NEW i \in Present, SignsUp(i) \/ GetsEcart(i) \/ CountsScore(i) PROVE SaysNone
    BY <2>3 DEF SignsUp, GetsEcart, CountsScore
  <2>4. QED
    BY <1>3, <2>1, <2>2, <2>3
<1>4. /\ ToClientType(Msg("SHOW_PLI")) /\ ToClientType(Msg("ADD_SCORE")) /\ ToClientType(Ask)
      /\ \A e : e.code \in {"END_GAME", "OK", "REFUSE"} => ToClientType(e)
  BY DEF ToClientType, Msg, Ask
<1>5. ASSUME NEW i \in Present, TrickTaken(i) PROVE ToClientType(Trick(i))
  <2>1. TrickCards(i) \in CardSeq
    BY <1>5, TrickTypes DEF TrickTaken
  <2>2. QED
    BY <2>1 DEF ToClientType, Trick
<1> HIDE DEF Typed
<1>6. ASSUME Idles \/ Clears \/ \E i \in Present : SignsUp(i) \/ GetsEcart(i) \/ CountsScore(i)
      PROVE  Typed
  <2>1. SaysNone
    BY <1>3, <1>6
  <2>2. QED
    BY <1>1, <2>1
<1>7. ASSUME NEW perm \in Shuffles, NEW papayoo \in Suits, Deals(perm, papayoo) PROVE Typed
  <2>1. toClient'[c] = Push(Push(toClient[c], c \in Playing, DealsInfo(c, papayoo)),
                            c \in Playing, DealsDeck(c, perm))
        /\ amount_players >= 2
    BY <1>7 DEF Deals
  <2>2. c \in Playing => ToClientType(DealsInfo(c, papayoo)) /\ ToClientType(DealsDeck(c, perm))
    BY <2>1, DealTypes
  <2>3. QED
    BY <1>2, <2>1, <2>2
<1>8. ASSUME NEW i \in Present, Informs(i) PROVE Typed
  <2>1. PICK cond \in BOOLEAN : \E m :
          /\ m.code = "BASIC_INFO" /\ m.info = CurrentInfo(Player(i))
          /\ \A d \in Clients : toClient'[d] = Push(toClient[d], cond /\ d = Player(i), m)
    BY <1>8 DEF Informs
  <2>2. PICK m :
          /\ m.code = "BASIC_INFO" /\ m.info = CurrentInfo(Player(i))
          /\ \A d \in Clients : toClient'[d] = Push(toClient[d], cond /\ d = Player(i), m)
    BY <2>1
  <2>3. toClient'[c] = Push(Push(toClient[c], cond /\ c = Player(i), m), FALSE, m)
    BY <2>2 DEF Push
  <2>4. m.info \in Info
    <3>1. /\ amount_players \in Nat /\ amount_players <= MAX_PLAYERS /\ SeatOf(Player(i)) \in Seats
          /\ srv.papayoo \in Suits
      BY SeatFacts DEF UInv, TInv, ServerTypes
    <3>2. amount_players \in 0..MAX_PLAYERS
      BY <3>1, ServerAssumption
    <3>3. QED
      BY <2>2, <3>1, <3>2 DEF CurrentInfo, Info
  <2>5. ToClientType(m)
    BY <2>2, <2>4 DEF ToClientType
  <2>6. QED
    BY <1>2, <2>3, <2>5
<1>9. ASSUME SendsBack PROVE Typed
  <2>1. toClient'[c] = Push(Push(toClient[c], c \in Playing, Return(c)), c = Player(0), Ask)
    BY <1>9 DEF SendsBack
  <2>2. c \in Playing => ToClientType(Return(c))
    <3>1. ASSUME c \in Playing PROVE Giver(c) \in Seats
      <4>1. amount_players \in Nat /\ SeatOf(c) \in 0..amount_players - 1 /\ amount_players <= MAX_PLAYERS
        BY <3>1, SeatFacts DEF UInv
      <4>2. SeatOf(c) + amount_players - 1 \in Nat /\ amount_players \in Nat \ {0}
        BY <4>1
      <4>3. Giver(c) \in 0..amount_players - 1
        BY <4>2, DivMod DEF Giver
      <4>4. QED
        BY <4>1, <4>3, ServerAssumption DEF Seats
    <3>2. srv.ecarts_received \in [Seats -> CardSeq]
      BY DEF TInv, ServerTypes
    <3>3. QED
      BY <3>1, <3>2 DEF ToClientType, Return
  <2>3. c = Player(0) => ToClientType(Ask)
    BY <1>4
  <2> PICK a : a = Return(c)
    OBVIOUS
  <2> PICK P \in BOOLEAN : P <=> c \in Playing
    OBVIOUS
  <2> PICK Q \in BOOLEAN : Q <=> c = Player(0)
    OBVIOUS
  <2>4. toClient'[c] = Push(Push(toClient[c], P, a), Q, Ask)
    BY <2>1 DEF Push
  <2>5. (P => ToClientType(a)) /\ (Q => ToClientType(Ask))
    BY <2>2, <2>3
  <2>6. QED
    BY <1>2, <2>4, <2>5
<1>10. ASSUME NEW i \in Present, TrickGoes(i) PROVE Typed
  <2>1. PICK next \in Present : toClient'[c] = Push(Push(toClient[c], c \in Playing, Msg("SHOW_PLI")),
                                                    c = Player(next), Ask)
    BY <1>10 DEF TrickGoes
  <2>2. QED
    BY <1>2, <1>4, <2>1
<1>11. ASSUME NEW i \in Present, TrickOver(i) PROVE Typed
  <2>1. TrickTaken(i) /\ toClient'[c] = Push(Push(toClient[c], c = Player(TrickLoser(i)), Trick(i)),
                                             c = Player(TrickLoser(i)), Ask)
    BY <1>11 DEF TrickOver
  <2>2. QED
    BY <1>2, <1>4, <1>5, <2>1
<1>12. ASSUME NEW i \in Present, RoundEnds(i) PROVE Typed
  <2>1. TrickTaken(i)
    BY <1>12 DEF RoundEnds
  <2> PICK t : t = Push(Push(toClient[c], c = Player(TrickLoser(i)), Trick(i)),
                        c \in Playing, Msg("ADD_SCORE"))
    OBVIOUS
  <2>2. \A k \in 1..Len(t) : ToClientType(t[k])
    BY <1>4, <1>5, <2>1, PushedTypes
  <2>3. IsQueue(t)
    <3> PICK ca \in BOOLEAN : ca <=> c = Player(TrickLoser(i))
      OBVIOUS
    <3> PICK cb \in BOOLEAN : cb <=> c \in Playing
      OBVIOUS
    <3>1. t = Push(Push(toClient[c], ca, Trick(i)), cb, Msg("ADD_SCORE"))
      BY DEF Push
    <3>2. IsQueue(Push(toClient[c], ca, Trick(i)))
      BY QueuesOf, PushFacts
    <3>3. QED
      BY <3>1, <3>2, PushFacts
  <2>4. toClient'[c] = t \/ \E e : e.code = "END_GAME" /\ toClient'[c] = Push(t, c \in Playing, e)
    BY <1>12 DEF RoundEnds
  <2>5. ASSUME NEW e, e.code = "END_GAME", toClient'[c] = Push(t, c \in Playing, e) PROVE Typed
    <3> PICK cb \in BOOLEAN : cb <=> c \in Playing
      OBVIOUS
    <3> PICK s : s = toClient'[c]
      OBVIOUS
    <3>1. s = Push(t, cb, e) /\ ToClientType(e)
      BY <1>4, <2>5 DEF Push
    <3>2. \A k \in 1..Len(s) : ToClientType(s[k])
      BY <2>2, <2>3, <3>1, PushTypes
    <3>3. QED
      BY <3>2 DEF Typed
  <2>6. QED
    BY <2>2, <2>4, <2>5 DEF Typed
<1>13. ASSUME NEW d \in Clients, Refuses(d) \/ Admits(d) PROVE Typed
  <2>1. PICK m : FirstWord(d, m)
    BY <1>13 DEF Refuses, Admits
  <2>2. /\ m.code \in {"OK", "REFUSE"} /\ toClient'[d] = <<m>>
        /\ c # d => toClient'[c] = toClient[c]
    BY <2>1 DEF FirstWord
  <2>3. ToClientType(m) /\ \A k \in 1..Len(<<m>>) : <<m>>[k] = m
    BY <1>4, <2>2
  <2>4. QED
    BY <2>2, <2>3 DEF TInv, QueueTypes, Typed
<1>14. QED
  BY <1>6, <1>7, <1>8, <1>9, <1>10, <1>11, <1>12, <1>13 DEF ServerMoves, Typed

LEMMA ToServerStep ==
  ASSUME UInv, Seated, TInv, ServerMoves, NEW c \in Clients
  PROVE  \A k \in 1..Len(toServer'[c]) : ToServerType(toServer'[c][k])
<1>1. HearsNone => \A k \in 1..Len(toServer'[c]) : ToServerType(toServer'[c][k])
  BY SameTypes
<1>2. \A i, code, m : Hearing(i, code, m) => \A k \in 1..Len(toServer'[c]) : ToServerType(toServer'[c][k])
  BY HeardTypes
<1>3. Clears => \A k \in 1..Len(toServer'[c]) : ToServerType(toServer'[c][k])
  <2>1. Len(<<>>) = 0
    OBVIOUS
  <2>2. QED
    BY <2>1 DEF Clears, TInv, QueueTypes
<1>4. \/ HearsNone \/ Clears \/ \E i, code, m : Hearing(i, code, m)
  BY DEF ServerMoves, Idles, Deals, SignsUp, Informs, GetsEcart, CountsScore, SendsBack, TrickGoes,
         TrickOver, RoundEnds, TrickTaken, LaysCard, Refuses, Admits, FirstWord
<1>5. QED
  BY <1>1, <1>2, <1>3, <1>4

\* What a game changes.
GameTypes ==
  /\ srv.papayoo \in Suits
  /\ srv.current_round \in 0..MaxRound /\ srv.amount_turn \in 0..AMOUNT_PLI - 1
  /\ srv.ecarts_received \in [Seats -> CardSeq]
  /\ board.scores \in [Seats -> Nat]
  /\ board.pli \in [Seats -> PlayedCard]
  /\ hist.earned \in [Seats -> Nat]

LEMMA TrickTakenTypes ==
  ASSUME UInv, Seated, TInv, NEW i \in Present, TrickTaken(i)
  PROVE  /\ hist'.earned \in [Seats -> Nat] /\ board'.pli \in [Seats -> PlayedCard]
         /\ board'.scores = board.scores /\ SameRound /\ SameEcarts
<1>1. PICK m : LaysCard(i, m)
  BY DEF TrickTaken
<1>2. TrickCards(i) \in CardSeq /\ board'.pli \in [Seats -> PlayedCard]
  BY <1>1, TrickTypes
<1>3. Points(TrickCards(i), srv.papayoo) \in Nat
  BY <1>2, PointsNat
<1> PICK n \in Nat : n = Points(TrickCards(i), srv.papayoo)
  BY <1>3
<1>4. TrickLoser(i) \in Seats /\ hist'.earned = [hist.earned EXCEPT ![TrickLoser(i)] = @ + n]
  BY SeatFacts DEF TrickTaken, UInv
<1>5. hist.earned \in [Seats -> Nat]
  BY DEF TInv, ServerTypes
<1>6. hist'.earned \in [Seats -> Nat]
  <2>1. hist.earned[TrickLoser(i)] + n \in Nat
    BY <1>4, <1>5
  <2>2. QED
    BY <1>4, <1>5, <2>1
<1>7. QED
  BY <1>1, <1>2, <1>6 DEF LaysCard

LEMMA GameTypesStep ==
  ASSUME UInv, Seated, TInv, ServerMoves
  PROVE  GameTypes'
<1>1. GameTypes /\ ServerTypes
  BY DEF GameTypes, TInv, ServerTypes
<1>2. CASE Idles
  BY <1>1, <1>2 DEF Idles, GameTypes, SameRound, SameEcarts, SameTrick, SameScores
<1>3. ASSUME NEW perm \in Shuffles, NEW papayoo \in Suits, Deals(perm, papayoo) PROVE GameTypes'
  <2>1. /\ srv'.papayoo = papayoo /\ srv'.current_round = srv.current_round + 1
        /\ srv.current_round < MaxRound
        /\ SameEcarts /\ SameTrick
    BY <1>3 DEF Deals
  <2>2. srv'.current_round \in 0..MaxRound
    BY <1>1, <2>1, ServerAssumption DEF GameTypes
  <2>3. board'.scores \in [Seats -> Nat] /\ hist'.earned \in [Seats -> Nat]
    <3>1. CASE board'.scores = board.scores /\ hist'.earned = hist.earned
      BY <1>1, <3>1 DEF GameTypes
    <3>2. CASE /\ board'.scores = [i \in Seats |-> IF i \in Present THEN 0 ELSE board.scores[i]]
               /\ hist'.earned = [i \in Seats |-> 0]
      <4>1. \A i \in Seats : (IF i \in Present THEN 0 ELSE board.scores[i]) \in Nat
        BY <1>1 DEF GameTypes
      <4>2. QED
        BY <3>2, <4>1
    <3>3. QED
      BY <1>3, <3>1, <3>2 DEF Deals
  <2>4. QED
    BY <1>1, <2>1, <2>2, <2>3 DEF GameTypes, SameEcarts, SameTrick
<1>4. ASSUME NEW i \in Present, SignsUp(i) \/ Informs(i) PROVE GameTypes'
  <2>1. SameRound /\ SameEcarts /\ SameTrick /\ SameScores
    BY <1>4 DEF SignsUp, Informs
  <2>2. QED
    BY <1>1, <2>1 DEF GameTypes, SameRound, SameEcarts, SameTrick, SameScores
<1>5. ASSUME NEW i \in Present, GetsEcart(i) PROVE GameTypes'
  <2>1. PICK m : /\ Hearing(i, "ECART", m)
                 /\ srv'.ecarts_received = [srv.ecarts_received EXCEPT ![i] = m.deck]
    BY <1>5 DEF GetsEcart
  <2>2. m.deck \in CardSeq
    BY <2>1, HeardTypes DEF Hearing, ToServerType
  <2>3. srv'.ecarts_received \in [Seats -> CardSeq]
    BY <1>1, <2>1, <2>2 DEF GameTypes
  <2>4. SameRound /\ SameTrick /\ SameScores
    BY <1>5 DEF GetsEcart
  <2>5. QED
    BY <1>1, <2>3, <2>4 DEF GameTypes, SameRound, SameTrick, SameScores
<1>6. ASSUME NEW i \in Present, CountsScore(i) PROVE GameTypes'
  <2>1. PICK m : /\ Hearing(i, "UPDATE_SCORE", m)
                 /\ board'.scores = [board.scores EXCEPT ![i] = @ + m.score]
    BY <1>6 DEF CountsScore
  <2>2. m.score \in Nat
    BY <2>1, HeardTypes DEF Hearing, ToServerType
  <2>3. i \in Seats
    BY SeatFacts DEF UInv
  <2>4. board.scores[i] + m.score \in Nat
    BY <1>1, <2>2, <2>3 DEF GameTypes
  <2>5. board'.scores \in [Seats -> Nat]
    BY <1>1, <2>1, <2>4 DEF GameTypes
  <2>6. SameRound /\ SameEcarts /\ SameTrick /\ hist'.earned = hist.earned
    BY <1>6 DEF CountsScore
  <2>7. QED
    BY <1>1, <2>5, <2>6 DEF GameTypes, SameRound, SameEcarts, SameTrick
<1>7. CASE SendsBack
  BY <1>1, <1>7 DEF SendsBack, GameTypes, SameRound, SameTrick, SameScores
<1>8. ASSUME NEW i \in Present, TrickGoes(i) PROVE GameTypes'
  <2>1. PICK m : LaysCard(i, m)
    BY <1>8 DEF TrickGoes
  <2>2. board'.pli \in [Seats -> PlayedCard]
    BY <2>1, TrickTypes
  <2>3. /\ srv'.amount_turn = srv.amount_turn /\ hist'.earned = hist.earned
        /\ SameEcarts /\ SameRound /\ board'.scores = board.scores
    BY <1>8, <2>1 DEF TrickGoes, LaysCard
  <2>4. QED
    BY <1>1, <2>2, <2>3 DEF GameTypes, SameEcarts, SameRound
<1>9. ASSUME NEW i \in Present, TrickOver(i) \/ RoundEnds(i) PROVE GameTypes'
  <2>1. TrickTaken(i)
    BY <1>9 DEF TrickOver, RoundEnds
  <2>2. /\ hist'.earned \in [Seats -> Nat] /\ board'.pli \in [Seats -> PlayedCard]
        /\ board'.scores = board.scores /\ SameRound /\ SameEcarts
    BY <2>1, TrickTakenTypes
  <2>3. srv'.amount_turn \in 0..AMOUNT_PLI - 1
    <3>1. \/ srv'.amount_turn = 0
          \/ srv.amount_turn + 1 # AMOUNT_PLI /\ srv'.amount_turn = srv.amount_turn + 1
      BY <1>9 DEF TrickOver, RoundEnds
    <3>2. srv.amount_turn \in 0..AMOUNT_PLI - 1 /\ AMOUNT_PLI \in Nat \ {0}
      BY <1>1, ServerAssumption DEF GameTypes
    <3> PICK t : t = srv.amount_turn
      OBVIOUS
    <3>3. t + 1 # AMOUNT_PLI => t + 1 \in 0..AMOUNT_PLI - 1
      BY <3>2
    <3>4. 0 \in 0..AMOUNT_PLI - 1
      BY <3>2
    <3>5. QED
      BY <3>1, <3>3, <3>4
  <2>4. QED
    BY <1>1, <2>2, <2>3 DEF GameTypes, SameEcarts, SameRound
<1>10. CASE Clears
  <2>1. /\ srv'.current_round = 0 /\ srv'.papayoo = srv.papayoo /\ SameEcarts
        /\ srv'.amount_turn = srv.amount_turn /\ board'.pli = board.pli
        /\ board'.scores = [i \in Seats |-> 0] /\ hist'.earned = hist.earned
    BY <1>10 DEF Clears
  <2>2. QED
    BY <1>1, <2>1, ServerAssumption DEF GameTypes, SameEcarts
<1>11. ASSUME NEW d \in Clients, Refuses(d) \/ Admits(d) PROVE GameTypes'
  <2>1. UNCHANGED <<srv, board, hist>>
    BY <1>11 DEF Refuses, Admits, FirstWord
  <2>2. QED
    BY <1>1, <2>1 DEF GameTypes
<1>12. QED
  BY <1>2, <1>3, <1>4, <1>5, <1>6, <1>7, <1>8, <1>9, <1>10, <1>11 DEF ServerMoves

LEMMA TInvServer ==
  ASSUME UInv, Seated, TInv, ServerNext
  PROVE  TInv'
<1>1. ServerMoves
  BY ServerSteps
<1>2. ServerTypes'
  BY <1>1, GameTypesStep, PlainTypes DEF GameTypes, ServerTypes, TInv
<1>3. cl' = cl
  BY <1>1 DEF ServerMoves, Idles, Deals, SignsUp, Informs, GetsEcart, CountsScore, TrickGoes, TrickOver,
              RoundEnds, TrickTaken, LaysCard, SendsBack, Clears, Refuses, Admits, FirstWord, SameTable
<1>4. ASSUME NEW c \in Clients PROVE VariableTypes(cl[c])' /\ QueueTypes(c)'
  <2>1. QueueTypes(c)'
    BY <1>1, ToClientStep, ToServerStep DEF QueueTypes
  <2>2. VariableTypes(cl[c])'
    BY <1>3 DEF VariableTypes, TInv
  <2>3. QED
    BY <2>1, <2>2
<1>5. QED
  BY <1>2, <1>4 DEF TInv

LEMMA TInvInit == Init => TInv
<1> SUFFICES ASSUME Init PROVE TInv
  OBVIOUS
<1>1. <<>> \in CardSeq /\ Len(<<>>) = 0
  BY DEF CardSeq
<1>2. 0 \in Seats /\ 0 \in Suits /\ 0 \in 0..AMOUNT_PLI - 1 /\ 0 \in 0..MaxRound /\ 0 \in 0..MAX_PLAYERS
  BY ServerAssumption, CardsAssumption DEF Seats, Suits
<1>3. EmptyPli \in [Seats -> PlayedCard]
  BY <1>2 DEF EmptyPli, PlayedCard, AnyCard
<1>4. ServerTypes
  <2>1. [i \in Seats |-> [k \in 1..EcartSize |-> NoCard]] \in [Seats -> CardSeq]
    BY CardsAssumption DEF CardSeq, AnyCard
  <2>2. QED
    BY <1>2, <1>3, <2>1 DEF Init, ServerInit, ServerTypes
<1>5. ASSUME NEW c \in Clients PROVE VariableTypes(cl[c]) /\ QueueTypes(c)
  <2>1. /\ toClient[c] = <<>> /\ toServer[c] = <<>>
        /\ cl[c].pc = "connect" /\ cl[c].deck = <<>> /\ cl[c].plis = <<>>
        /\ cl[c].info = [player_index |-> 0, amount_players |-> 0, papayoo |-> 0]
    BY DEF Init, NetworkInit, ClientInit
  <2>2. cl[c].info \in Info /\ cl[c].pc \in ClientLabels
    BY <1>2, <2>1 DEF Info, ClientLabels
  <2>3. QED
    BY <1>1, <2>1, <2>2 DEF VariableTypes, QueueTypes
<1>6. QED
  BY <1>4, <1>5 DEF TInv

LEMMA TInvNext == ASSUME Undisturbed, UInv, Seated, TInv, [Next]_vars PROVE TInv'
<1>1. CASE ServerNext
  BY <1>1, TInvServer
<1>2. CASE ClientNext
  BY <1>2, ClientMoves, TInvClient
<1>3. CASE UNCHANGED vars
  <2>1. UNCHANGED <<toClient, toServer, cl, alarm, srv, board, loop, hist>>
        \/ (UNCHANGED <<cl, alarm, srv, board, loop, hist>> /\ UNCHANGED network)
    BY <1>3 DEF vars, serverVars, clientVars
  <2>2. UNCHANGED <<toClient, toServer, cl, alarm, srv, board, loop, hist>>
    BY <2>1 DEF network
  <2>3. QED
    BY <2>2 DEF TInv, ServerTypes, VariableTypes, QueueTypes
<1>4. QED
  BY <1>1, <1>2, <1>3 DEF Next

\* The types of the variables and of the messages hold all along.
LEMMA TypedCourse == ASSUME Undisturbed PROVE Spec => [](Seated /\ UInv /\ TInv)
<1>1. Init => TInv
  BY TInvInit
<1>2. Seated /\ UInv /\ TInv /\ [Next]_vars => TInv'
  BY TInvNext
<1>3. QED
  BY <1>1, <1>2, Course, PTL DEF Spec

\* There are as many players as the lobby counts.
LEMMA PlayersCounted ==
  ASSUME UInv, Seated
  PROVE  IsFiniteSet(Playing) /\ Cardinality(Playing) = amount_players
<1>1. amount_players \in Nat /\ Present = 0..amount_players - 1
  BY SeatFacts DEF UInv
<1>2. IsFiniteSet(Present) /\ Cardinality(Present) = amount_players
  <2>1. amount_players - 1 \in Int /\ (amount_players - 1) - 0 + 1 = amount_players
        /\ (0 > amount_players - 1 => amount_players = 0)
    BY <1>1
  <2>2. QED
    BY <1>1, <2>1, FS_Interval
<1> DEFINE f == [i \in Present |-> Player(i)]
<1>3. f \in Bijection(Present, Playing)
  <2>1. /\ \A i \in Present : Player(i) \in Playing /\ SeatOf(Player(i)) = i
        /\ \A c \in Playing : SeatOf(c) \in Present /\ Player(SeatOf(c)) = c
    BY SeatFacts DEF UInv
  <2>2. f \in [Present -> Playing]
    BY <2>1
  <2>3. \A i, j \in Present : f[i] = f[j] => i = j
    BY <2>1
  <2>4. \A c \in Playing : \E i \in Present : f[i] = c
    BY <2>1
  <2> HIDE DEF f
  <2>5. QED
    BY <2>2, <2>3, <2>4 DEF Bijection, Injection, Surjection, IsInjective
<1> HIDE DEF f
<1>4. QED
  BY <1>2, <1>3, FS_Bijection DEF ExistsBijection

LEMMA TypesOK == ASSUME Seated, UInv, TInv PROVE TypeOK
<1>1. /\ listening /\ conn \in [Clients -> {"none", "backlog", "open", "dropped", "broken", "refused", "closed"}]
  BY DEF UInv, Functions
<1>2. conn \in [Clients -> ConnStates]
  <2>1. \A c \in Clients : conn[c] \in ConnStates
    BY <1>1 DEF ConnStates, Gone
  <2>2. conn = [c \in Clients |-> conn[c]]
    BY <1>1
  <2>3. QED
    BY <2>1, <2>2
<1>3. /\ \A k \in DOMAIN backlog : backlog[k] \in Clients
      /\ players \in Seq([client : Clients, is_registered : BOOLEAN])
      /\ amount_players <= MAX_PLAYERS
  BY DEF Seated, AtTheTable
<1>4. Cardinality(Playing) = amount_players
  BY PlayersCounted
<1>5. srv.current_player_turn \in Seats
  <2>1. srv.current_player_turn \in Present \/ srv.current_player_turn = 0
    BY DEF UInv, Phases
  <2>2. QED
    BY <2>1, SeatFacts, ServerAssumption DEF UInv, Seats
<1>6. \A c \in Clients : /\ cl[c].pc \in ClientLabels /\ cl[c].info \in Info
                         /\ cl[c].deck \in Seq(AnyCard) /\ cl[c].plis \in Seq(AnyCard)
  BY DEF TInv, VariableTypes, CardSeq
<1>7. QED
  BY <1>1, <1>2, <1>3, <1>4, <1>5, <1>6 DEF TypeOK, TInv, ServerTypes, PlayedCard

\* The type invariant: every variable and every message has its type, the
\* lobby as many players as clients in it and room for them, a trick as many
\* cards as seats and a game no more tricks and rounds than it may have.
THEOREM TypeOKThm == ASSUME Undisturbed PROVE Spec => []TypeOK
<1>1. Seated /\ UInv /\ TInv => TypeOK
  BY TypesOK
<1>2. QED
  BY TypedCourse, <1>1, PTL

-----------------------------------------------------------------------------
(* The order of the messages: the steps of a client.                       *)

\* The server is as it was.
Kept == /\ Playing' = Playing /\ InTricks' = InTricks /\ Asleep' = Asleep
        /\ srv' = srv /\ board' = board /\ hist' = hist /\ amount_players' = amount_players
        /\ Present' = Present
        /\ \A d : SeatOf(d)' = SeatOf(d) /\ OnBoard(d)' = OnBoard(d)

LEMMA AloneKept == ASSUME NEW c \in Clients, Alone(c) PROVE Kept
<1>1. UNCHANGED <<players, srv, board, loop, hist>>
  BY DEF Alone, serverVars
<1>2. QED
  BY <1>1 DEF Kept, Playing, InTricks, Asleep, amount_players, Present, SeatOf, OnBoard, Player

\* The queue t is q without a message of kind code, or with one more.
Without(t, q, code) ==
  /\ IsQueue(t) /\ Count(t, code) \in Nat /\ Count(q, code) = Count(t, code) + 1
  /\ \A x : /\ x # code => Count(q, x) = Count(t, x)
            /\ Count(t, x) = 0 \/ Count(q, x) # 0
            /\ Count(t, x) \in Nat

WithMore(t, q, code, n) ==
  /\ IsQueue(t) /\ Count(q, code) \in Nat /\ Count(t, code) = Count(q, code) + n
  /\ \A x : x # code => Count(t, x) = Count(q, x)

LEMMA TakenFrom ==
  ASSUME NEW q, IsQueue(q), q # <<>>
  PROVE  Without(Tail(q), q, Head(q).code)
<1> PICK t : t = Tail(q)
  OBVIOUS
<1> PICK code : code = Head(q).code
  OBVIOUS
<1>1. IsQueue(t)
  BY QueueTail
<1>2. \A x : Count(t, x) \in Nat /\ Count(q, x) = Count(t, x) + (IF code = x THEN 1 ELSE 0)
  BY <1>1, KindFinite, CountTail
<1>3. ASSUME NEW x PROVE Count(t, x) = 0 \/ Count(q, x) # 0
  <2>1. PICK n \in Nat : n = Count(t, x)
    BY <1>2
  <2>2. Count(q, x) = n \/ Count(q, x) = n + 1
    BY <1>2, <2>1
  <2>3. QED
    BY <2>1, <2>2
<1>4. ASSUME NEW x, x # code PROVE Count(q, x) = Count(t, x)
  <2>1. PICK n \in Nat : n = Count(t, x)
    BY <1>2
  <2>2. Count(q, x) = n + 0
    BY <1>2, <1>4, <2>1
  <2>3. QED
    BY <2>1, <2>2
<1>5. Without(t, q, code)
  BY <1>1, <1>2, <1>3, <1>4 DEF Without
<1>6. QED
  BY <1>5

LEMMA Added ==
  ASSUME NEW q, IsQueue(q), NEW b \in BOOLEAN, NEW m
  PROVE  WithMore(Push(q, b, m), q, m.code, IF b THEN 1 ELSE 0)
<1> PICK t : t = Push(q, b, m)
  OBVIOUS
<1>1. /\ IsQueue(t)
      /\ \A x : /\ Count(t, x) = Count(q, x) + (IF b /\ m.code = x THEN 1 ELSE 0)
                /\ Count(q, x) \in Nat
  <2>1. /\ IsQueue(Push(q, b, m))
        /\ \A x : /\ Count(Push(q, b, m), x) = Count(q, x) + (IF b /\ m.code = x THEN 1 ELSE 0)
                  /\ Count(q, x) \in Nat
    BY PushFacts
  <2>2. QED
    BY <2>1
<1>2. ASSUME NEW x, x # m.code PROVE Count(t, x) = Count(q, x)
  <2>1. Count(t, x) = Count(q, x) + 0 /\ Count(q, x) \in Nat
    BY <1>1, <1>2
  <2>2. QED
    BY <2>1
<1>3. Count(t, m.code) = Count(q, m.code) + (IF b THEN 1 ELSE 0)
  BY <1>1
<1>4. WithMore(t, q, m.code, IF b THEN 1 ELSE 0)
  BY <1>1, <1>2, <1>3 DEF WithMore
<1>5. QED
  BY <1>4

LEMMA AloneOrder ==
  ASSUME UInv, Seated, RInv, NEW c \in Clients, Alone(c), Newcomer(c)', Piles(c)', Late(c)',
         ~Asleep /\ c \in Playing => ScoreDue(c)' = ScoreDue(c)
  PROVE  RInv'
<1>1. Kept
  BY AloneKept
<1>2. \A d \in Clients : d # c => /\ toClient'[d] = toClient[d] /\ toServer'[d] = toServer[d]
                                  /\ conn'[d] = conn[d] /\ cl'[d] = cl[d]
  BY DEF Alone
<1>3. ASSUME NEW d \in Clients, d # c
      PROVE  Newcomer(d)' /\ Piles(d)' /\ Late(d)' /\ ScoreDue(d)' = ScoreDue(d)
  <2>1. /\ toClient'[d] = toClient[d] /\ toServer'[d] = toServer[d]
        /\ conn'[d] = conn[d] /\ cl'[d] = cl[d]
    BY <1>2, <1>3
  <2>2. Newcomer(d) /\ Piles(d) /\ Late(d)
    BY DEF RInv
  <2>3. ScoreDue(d)' = ScoreDue(d)
    BY <2>1 DEF ScoreDue
  <2>4. Newcomer(d)'
    BY <1>1, <2>1, <2>2 DEF Newcomer, Kept, At
  <2>5. Piles(d)'
    BY <1>1, <2>1, <2>2, <2>3 DEF Piles, NoPile, Kept
  <2>6. Late(d)'
    BY <1>1, <2>1, <2>2 DEF Late, Kept, At
  <2>7. QED
    BY <2>3, <2>4, <2>5, <2>6
<1>4. Counters'
  <2>1. Counters
    BY DEF RInv
  <2>2. ~Asleep => {d \in Playing : ScoreDue(d) = 0}' = {d \in Playing : ScoreDue(d) = 0}
    <3>1. \A d \in Playing : d \in Clients
      BY SeatFacts DEF UInv
    <3>2. ASSUME ~Asleep PROVE \A d \in Playing : ScoreDue(d)' = ScoreDue(d)
      BY <1>3, <3>1, <3>2
    <3>3. Playing' = Playing
      BY <1>1 DEF Kept
    <3>4. QED
      BY <3>2, <3>3
  <2>3. QED
    BY <1>1, <2>1, <2>2 DEF Counters, Kept
<1>5. QED
  BY <1>3, <1>4 DEF RInv


LEMMA NotesOrder ==
  ASSUME UInv, UInv', RInv, NEW c \in Clients, Alone(c), NEW code \in NotedCodes, Notes(c, code)
  PROVE  Newcomer(c)' /\ Piles(c)' /\ Late(c)' /\ ScoreDue(c)' = ScoreDue(c)
<1> PICK q : q = toClient[c]
  OBVIOUS
<1> PICK t : t = Tail(q)
  OBVIOUS
<1>1. /\ IsQueue(q) /\ q # <<>> /\ Head(q).code = code /\ toClient'[c] = t
      /\ toServer'[c] = toServer[c] /\ conn'[c] = conn[c]
      /\ At(c, IF code \in {"OK", "REFUSE"} THEN "greet" ELSE "main")
      /\ cl'[c].pc = AfterNote(code)
      /\ code # "ADD_PLI" => cl'[c].plis = cl[c].plis
      /\ cl'[c].waiting_for_ecart = IF code = "ECARTS" THEN FALSE ELSE cl[c].waiting_for_ecart
  BY QueuesOf DEF Notes
<1>2. /\ IsQueue(t) /\ Count(t, code) \in Nat /\ Count(q, code) = Count(t, code) + 1
      /\ \A x : /\ x # code => Count(q, x) = Count(t, x)
                /\ Count(t, x) = 0 \/ Count(q, x) # 0
                /\ Count(t, x) \in Nat
  BY <1>1, TakenFrom DEF Without
<1>3. Kept /\ Newcomer(c) /\ Piles(c) /\ Late(c)
  BY AloneKept DEF RInv
<1>4. code # "ADD_SCORE"
  BY DEF NotedCodes
<1>5. ScoreDue(c)' = ScoreDue(c)
  <2>1. Count(t, "ADD_SCORE") = Count(q, "ADD_SCORE")
    BY <1>2, <1>4
  <2>2. QED
    BY <1>1, <2>1 DEF ScoreDue
<1>6. Newcomer(c)'
  <2>1. conn'[c] = "backlog" => At(c, "greet")'
    <3>1. ASSUME conn[c] = "backlog" PROVE FALSE
      BY <1>1, <3>1 DEF UInv, ClientInv, Wire
    <3>2. QED
      BY <1>1, <3>1
  <2>2. cl'[c].pc \in {"connect", "greet", "signup"} => cl'[c].plis = <<>>
    <3>1. ASSUME cl'[c].pc \in {"connect", "greet", "signup"} PROVE code \in {"OK", "REFUSE"}
      BY <1>1, <3>1 DEF AfterNote
    <3>2. QED
      BY <1>1, <1>3, <3>1 DEF Newcomer, At
  <2>3. c \notin Playing' => toServer'[c] = <<>>
    BY <1>1, <1>3 DEF Newcomer, Kept
  <2>4. QED
    BY <2>1, <2>2, <2>3 DEF Newcomer
<1>7. Piles(c)'
  <2> SUFFICES ASSUME c \in Playing PROVE Piles(c)'
    BY <1>3 DEF Kept, Piles
  <2>1. Count(t, "ADD_SCORE") = Count(q, "ADD_SCORE")
    BY <1>2, <1>4
  <2>2. NoPile(c)' = NoPile(c)
    BY <1>1, <1>3, <2>1 DEF NoPile, Kept
  <2>3. NoPile(c) => cl'[c].plis = <<>> /\ Count(t, "ADD_PLI") = 0
    <3> SUFFICES ASSUME NoPile(c) PROVE cl'[c].plis = <<>> /\ Count(t, "ADD_PLI") = 0
      OBVIOUS
    <3>1. cl[c].plis = <<>> /\ Count(q, "ADD_PLI") = 0
      BY <1>3 DEF Piles
    <3>2. code # "ADD_PLI"
      <4>1. Count(q, code) # 0
        BY <1>2
      <4>2. QED
        BY <3>1, <4>1
    <3>3. QED
      BY <1>1, <1>2, <3>1, <3>2
  <2>4. NoneBehind(t, "ADD_PLI", "ADD_SCORE")
    BY <1>1, <1>3, TailBehind DEF Piles
  <2>5. QED
    BY <1>1, <1>3, <1>5, <2>2, <2>3, <2>4 DEF Piles, Kept
<1>8. Late(c)'
  <2> SUFFICES ASSUME c \in Playing PROVE Late(c)'
    BY <1>3 DEF Kept, Late
  <2>1. /\ NoneBehind(t, "ECARTS", "ASK_FOR_CARD")
        /\ code = "ASK_FOR_CARD" => Count(q, "ECARTS") = 0
    <3>1. NoneBehind(q, "ECARTS", "ASK_FOR_CARD") /\ "ECARTS" # "ASK_FOR_CARD"
      BY <1>1, <1>3 DEF Late
    <3>2. QED
      BY <1>1, <3>1, TailBehind
  <2>2. InTricks /\ cl'[c].waiting_for_ecart => Count(t, "ECARTS") # 0
    <3> SUFFICES ASSUME InTricks, cl'[c].waiting_for_ecart PROVE Count(t, "ECARTS") # 0
      OBVIOUS
    <3>1. code # "ECARTS" /\ cl[c].waiting_for_ecart
      BY <1>1
    <3>2. QED
      BY <1>1, <1>2, <1>3, <3>1 DEF Late
  <2>3. ASSUME Count(t, "ECARTS") # 0
        PROVE  /\ InTricks /\ srv.amount_turn = 0 /\ Count(t, "ECARTS") = 1
               /\ Count(toServer[c], "PLAY_CARD") = 0 /\ cl'[c].pc # "play"
               /\ ~OnBoard(c)
    <3>1. Count(q, "ECARTS") # 0
      BY <1>2, <2>3
    <3>2. /\ InTricks /\ srv.amount_turn = 0 /\ Count(q, "ECARTS") = 1
          /\ Count(toServer[c], "PLAY_CARD") = 0 /\ ~At(c, "play")
          /\ ~OnBoard(c)
      BY <1>1, <1>3, <3>1 DEF Late
    <3>3. code # "ECARTS"
      <4>1. ASSUME code = "ECARTS" PROVE FALSE
        <5>1. Count(t, "ECARTS") \in Nat /\ 1 = Count(t, "ECARTS") + 1
          BY <1>2, <3>2, <4>1
        <5>2. QED
          BY <2>3, <5>1
      <4>2. QED
        BY <4>1
    <3>4. code # "ASK_FOR_CARD"
      BY <2>1, <3>1
    <3>5. cl'[c].pc # "play"
      BY <1>1, <3>4 DEF AfterNote
    <3>6. QED
      BY <1>2, <3>2, <3>3, <3>5
  <2>4. QED
    BY <1>1, <1>3, <2>1, <2>2, <2>3 DEF Late, Kept, At
<1>9. QED
  BY <1>5, <1>6, <1>7, <1>8

\* A client that says something else than its score.
LEMMA TellsOrder ==
  ASSUME UInv, UInv', RInv, NEW c \in Clients, Alone(c), NEW m, Tells(c, m),
         m.code # "UPDATE_SCORE", toClient'[c] = toClient[c],
         cl[c].pc \in {"signup", "main", "ecart", "play"},
         cl'[c].plis = cl[c].plis,
         m.code # "PLAY_CARD" \/ At(c, "play"),
         cl'[c].waiting_for_ecart = cl[c].waiting_for_ecart \/ At(c, "ecart")
  PROVE  Newcomer(c)' /\ Piles(c)' /\ Late(c)' /\ ScoreDue(c)' = ScoreDue(c)
<1> PICK q : q = toServer[c]
  OBVIOUS
<1> PICK t : t = toServer'[c]
  OBVIOUS
<1>1. IsQueue(q) /\ t = IF conn[c] = "open" THEN Append(q, m) ELSE q
  BY QueuesOf DEF Tells
<1>2. /\ IsQueue(t)
      /\ \A x : x # m.code => Count(t, x) = Count(q, x)
  <2> PICK cond \in BOOLEAN : cond <=> conn[c] = "open"
    OBVIOUS
  <2>1. t = Push(q, cond, m)
    BY <1>1 DEF Push
  <2>2. WithMore(Push(q, cond, m), q, m.code, IF cond THEN 1 ELSE 0)
    BY <1>1, Added
  <2>3. WithMore(t, q, m.code, IF cond THEN 1 ELSE 0)
    BY <2>1, <2>2
  <2>4. QED
    BY <2>3 DEF WithMore
<1>3. Kept /\ Newcomer(c) /\ Piles(c) /\ Late(c)
  BY AloneKept DEF RInv
<1>4. Count(t, "UPDATE_SCORE") = Count(q, "UPDATE_SCORE")
  BY <1>2
<1>5. ScoreDue(c)' = ScoreDue(c)
  BY <1>4 DEF ScoreDue
<1>6. /\ cl'[c].pc \in {"main", "exited"} /\ Wire(c) /\ Wire(c)'
  BY DEF Tells, UInv, ClientInv
<1>7. Newcomer(c)'
  <2>1. c \notin Playing => t = <<>>
    <3>1. c \notin Playing => conn[c] # "open"
      BY <1>6 DEF Wire, Open
    <3>2. QED
      BY <1>1, <1>3, <3>1 DEF Newcomer
  <2>2. conn'[c] # "backlog"
    <3>1. conn[c] # "backlog"
      BY <1>3 DEF Newcomer, At
    <3>2. QED
      BY <3>1 DEF Tells
  <2>3. QED
    BY <1>3, <1>6, <2>1, <2>2 DEF Newcomer, Kept
<1>8. Piles(c)'
  <2>1. NoPile(c)' = NoPile(c)
    BY <1>3 DEF NoPile, Kept
  <2>2. QED
    BY <1>3, <1>5, <2>1 DEF Piles, Kept
<1>9. Late(c)'
  <2> SUFFICES ASSUME c \in Playing PROVE Late(c)'
    BY <1>3 DEF Kept, Late
  <2>1. InTricks /\ cl'[c].waiting_for_ecart => Count(toClient[c], "ECARTS") # 0
    <3>1. ASSUME At(c, "ecart") PROVE ~InTricks
      <4>1. EcartDue(c) # 0
        <5>1. Count(toClient[c], "INIT_DECK") \in Nat /\ Count(toServer[c], "ECART") \in Nat
          BY QueuesOf, KindFinite
        <5>2. QED
          BY <3>1, <5>1 DEF EcartDue
      <4>2. OwesEcart(c)
        BY <4>1 DEF UInv, ClientInv, Duties
      <4>3. QED
        BY <4>2 DEF OwesEcart, InEcarts
    <3>2. QED
      BY <1>3, <3>1 DEF Late
  <2>2. Count(toClient[c], "ECARTS") # 0 => Count(t, "PLAY_CARD") = 0 /\ cl'[c].pc # "play"
    <3> SUFFICES ASSUME Count(toClient[c], "ECARTS") # 0
                 PROVE  Count(t, "PLAY_CARD") = 0 /\ cl'[c].pc # "play"
      OBVIOUS
    <3>1. Count(q, "PLAY_CARD") = 0 /\ ~At(c, "play")
      BY <1>3 DEF Late
    <3>2. m.code # "PLAY_CARD"
      BY <3>1
    <3>3. QED
      BY <1>2, <1>6, <3>1, <3>2
  <2>3. QED
    BY <1>3, <2>1, <2>2 DEF Late, Kept, At
<1>10. QED
  BY <1>5, <1>7, <1>8, <1>9

\* A client that reports its score.
LEMMA ReportsOrder ==
  ASSUME UInv, UInv', RInv, NEW c \in Clients, Alone(c), Reports(c)
  PROVE  /\ Newcomer(c)' /\ Piles(c)' /\ Late(c)'
         /\ ~Asleep /\ c \in Playing => ScoreDue(c)' = ScoreDue(c)
<1> PICK q : q = toClient[c]
  OBVIOUS
<1> PICK t : t = Tail(q)
  OBVIOUS
<1> PICK p : p = toServer[c]
  OBVIOUS
<1> PICK s : s = toServer'[c]
  OBVIOUS
<1>1. /\ IsQueue(q) /\ IsQueue(p) /\ q # <<>> /\ Head(q).code = "ADD_SCORE" /\ toClient'[c] = t
      /\ At(c, "main") /\ cl'[c].plis = <<>>
      /\ cl'[c].waiting_for_ecart = cl[c].waiting_for_ecart
  BY QueuesOf DEF Reports
<1>2. PICK m : m.code = "UPDATE_SCORE" /\ Tells(c, m)
  BY DEF Reports
<1>3. /\ IsQueue(t) /\ Count(t, "ADD_SCORE") \in Nat /\ Count(q, "ADD_SCORE") = Count(t, "ADD_SCORE") + 1
      /\ Count(t, "ECARTS") = Count(q, "ECARTS") /\ Count(t, "ADD_PLI") = Count(q, "ADD_PLI")
  BY <1>1, TakenFrom DEF Without
<1> PICK cond \in BOOLEAN : cond <=> conn[c] = "open"
  OBVIOUS
<1>4. /\ Count(p, "UPDATE_SCORE") \in Nat
      /\ Count(s, "UPDATE_SCORE") = Count(p, "UPDATE_SCORE") + (IF cond THEN 1 ELSE 0)
      /\ Count(s, "PLAY_CARD") = Count(p, "PLAY_CARD")
  <2>1. s = Push(p, cond, m)
    BY <1>2 DEF Tells, Push
  <2>2. WithMore(Push(p, cond, m), p, m.code, IF cond THEN 1 ELSE 0)
    BY <1>1, Added
  <2>3. WithMore(s, p, m.code, IF cond THEN 1 ELSE 0)
    BY <2>1, <2>2
  <2>4. QED
    BY <1>2, <2>3 DEF WithMore
<1>5. Kept /\ Newcomer(c) /\ Piles(c) /\ Late(c)
  BY AloneKept DEF RInv
<1>6. Wire(c) /\ cl'[c].pc \in {"main", "exited"} /\ (conn'[c] = "backlog" => conn[c] = "backlog")
      /\ s = IF conn[c] = "open" THEN Append(p, m) ELSE p
  BY <1>2 DEF UInv, ClientInv, Tells
<1>7. ASSUME c \in Playing, ~Asleep PROVE conn[c] = "open"
  BY <1>6, <1>7 DEF Wire, Open
<1>8. ASSUME c \in Playing, ~Asleep PROVE ScoreDue(c)' = ScoreDue(c)
  <2> PICK a \in Nat : a = Count(t, "ADD_SCORE")
    BY <1>3
  <2> PICK b \in Nat : b = Count(p, "UPDATE_SCORE")
    BY <1>4
  <2>1. Count(q, "ADD_SCORE") = a + 1 /\ Count(s, "UPDATE_SCORE") = b + 1
    BY <1>3, <1>4, <1>7, <1>8
  <2>2. (a + 1) + b = a + (b + 1)
    OBVIOUS
  <2>3. ScoreDue(c) = (a + 1) + b
    BY <2>1 DEF ScoreDue
  <2>4. ScoreDue(c)' = a + (b + 1)
    BY <1>1, <2>1 DEF ScoreDue
  <2>5. QED
    BY <2>2, <2>3, <2>4
<1>9. Newcomer(c)'
  <2>1. c \notin Playing => s = <<>>
    <3>1. c \notin Playing => conn[c] # "open"
      BY <1>6 DEF Wire, Open
    <3>2. QED
      BY <1>5, <1>6, <3>1 DEF Newcomer
  <2>2. conn'[c] # "backlog"
    BY <1>1, <1>5, <1>6 DEF Newcomer, At
  <2>3. QED
    BY <1>5, <1>6, <2>1, <2>2 DEF Newcomer, Kept
<1>10. Piles(c)'
  <2> SUFFICES ASSUME c \in Playing PROVE Piles(c)'
    BY <1>5 DEF Kept, Piles
  <2>1. ScoreDue(c) # 0
    <3> PICK a \in Nat : a = Count(t, "ADD_SCORE")
      BY <1>3
    <3> PICK b \in Nat : b = Count(p, "UPDATE_SCORE")
      BY <1>4
    <3>1. ScoreDue(c) = (a + 1) + b
      BY <1>3 DEF ScoreDue
    <3>2. QED
      BY <3>1
  <2>2. srv.updating_score
    BY <1>5, <2>1 DEF Piles
  <2>3. NoneBehind(t, "ADD_PLI", "ADD_SCORE") /\ Count(q, "ADD_PLI") = 0
    <3>1. NoneBehind(q, "ADD_PLI", "ADD_SCORE") /\ "ADD_PLI" # "ADD_SCORE"
      BY <1>5 DEF Piles
    <3>2. QED
      BY <1>1, <3>1, TailBehind
  <2>4. Count(t, "ADD_PLI") = 0
    BY <1>3, <2>3
  <2>5. ~Asleep => ScoreDue(c)' \in {0, 1}
    BY <1>5, <1>8, <2>2 DEF Piles
  <2>6. QED
    BY <1>1, <1>5, <2>2, <2>3, <2>4, <2>5 DEF Piles, Kept
<1>11. Late(c)'
  <2> SUFFICES ASSUME c \in Playing PROVE Late(c)'
    BY <1>5 DEF Kept, Late
  <2>1. NoneBehind(t, "ECARTS", "ASK_FOR_CARD")
    <3>1. NoneBehind(q, "ECARTS", "ASK_FOR_CARD")
      BY <1>5 DEF Late
    <3>2. QED
      BY <1>1, <3>1, TailBehind
  <2>2. cl'[c].pc # "play"
    BY <1>6
  <2>3. QED
    BY <1>1, <1>3, <1>4, <1>5, <2>1, <2>2 DEF Late, Kept, At
<1>12. QED
  BY <1>8, <1>9, <1>10, <1>11

\* A client that connects, or is no longer connected.
LEMMA LeavesOrder ==
  ASSUME UInv, UInv', RInv, NEW c \in Clients, Alone(c), Leaves(c)
  PROVE  /\ Newcomer(c)' /\ Piles(c)' /\ Late(c)'
         /\ ~Asleep /\ c \in Playing => ScoreDue(c)' = ScoreDue(c)
<1>1. Kept /\ Newcomer(c) /\ Piles(c) /\ Late(c) /\ Wire(c)'
  BY AloneKept DEF RInv, UInv, ClientInv
<1>2. c \notin Playing \/ Asleep
  BY DEF Leaves
<1>3. /\ cl'[c].plis = cl[c].plis
      /\ \/ At(c, "connect") /\ cl'[c].pc = "greet" /\ toClient'[c] = <<>> /\ toServer'[c] = <<>>
         \/ /\ At(c, "greet") /\ cl'[c].pc = "connect"
            /\ toClient'[c] = toClient[c] /\ toServer'[c] = toServer[c]
         \/ /\ At(c, "main") /\ cl'[c].pc = "exited" /\ conn'[c] # "backlog"
            /\ toClient'[c] = <<>> /\ toServer'[c] = toServer[c]
  BY DEF Leaves
<1>4. Newcomer(c)'
  <2>1. conn'[c] = "backlog" => cl'[c].pc = "greet"
    BY <1>1, <1>3 DEF Wire, At
  <2>2. cl'[c].pc \in {"connect", "greet", "signup"} => cl'[c].plis = <<>>
    BY <1>1, <1>3 DEF Newcomer, At
  <2>3. c \notin Playing => toServer'[c] = <<>>
    BY <1>1, <1>3 DEF Newcomer
  <2>4. QED
    BY <1>1, <2>1, <2>2, <2>3 DEF Newcomer, At, Kept
<1>5. ASSUME c \in Playing PROVE Piles(c)' /\ Late(c)'
  <2>1. Asleep /\ srv.updating_score /\ ~InTricks
    BY <1>2, <1>5 DEF UInv, Phases, InTricks
  <2>2. Count(toClient[c], "ECARTS") = 0 /\ Count(<<>>, "ECARTS") = 0
    BY <1>1, <1>5, <2>1, CountEmpty DEF Late
  <2>3. toClient'[c] = toClient[c] \/ toClient'[c] = <<>>
    BY <1>3
  <2>4. IsQueue(<<>>) /\ Count(<<>>, "ADD_SCORE") = 0 /\ Count(<<>>, "ASK_FOR_CARD") = 0
    BY ShortQueues, CountEmpty
  <2>5. NoneBehind(<<>>, "ADD_PLI", "ADD_SCORE") /\ NoneBehind(<<>>, "ECARTS", "ASK_FOR_CARD")
    BY <2>4, NoneBehindNone
  <2>6. Piles(c)'
    BY <1>1, <1>5, <2>1, <2>3, <2>5 DEF Piles, NoPile, Kept
  <2>7. Late(c)'
    BY <1>1, <1>5, <2>1, <2>2, <2>3, <2>5 DEF Late, Kept
  <2>8. QED
    BY <2>6, <2>7
<1>6. c \notin Playing => Piles(c)' /\ Late(c)'
  BY <1>1 DEF Piles, Late, Kept
<1>7. QED
  BY <1>2, <1>4, <1>5, <1>6

LEMMA RInvClient ==
  ASSUME UInv, UInv', Seated, RInv, NEW c \in Clients, Alone(c), Moves(c)
  PROVE  RInv'
<1>1. ASSUME NEW code \in NotedCodes, Notes(c, code) PROVE RInv'
  BY <1>1, NotesOrder, AloneOrder
<1>2. CASE GivesEcart(c)
  <2>1. PICK m : m.code = "ECART" /\ Tells(c, m)
    BY <1>2 DEF GivesEcart
  <2>2. /\ At(c, "ecart") /\ toClient'[c] = toClient[c] /\ cl'[c].plis = cl[c].plis
        /\ m.code # "UPDATE_SCORE" /\ m.code # "PLAY_CARD"
        /\ cl[c].pc \in {"signup", "main", "ecart", "play"}
    BY <1>2, <2>1 DEF GivesEcart, At
  <2>3. QED
    BY <2>1, <2>2, TellsOrder, AloneOrder
<1>3. CASE PlaysCard(c)
  <2>1. PICK m : m.code = "PLAY_CARD" /\ Tells(c, m)
    BY <1>3 DEF PlaysCard
  <2>2. /\ At(c, "play") /\ toClient'[c] = toClient[c] /\ cl'[c].plis = cl[c].plis
        /\ m.code # "UPDATE_SCORE" /\ cl'[c].waiting_for_ecart = cl[c].waiting_for_ecart
        /\ cl[c].pc \in {"signup", "main", "ecart", "play"}
    BY <1>3, <2>1 DEF PlaysCard, At
  <2>3. QED
    BY <2>1, <2>2, TellsOrder, AloneOrder
<1>4. CASE Talks(c)
  <2>1. PICK m : m.code \in {"ADD_PLAYER", "ASK_BASIC_INFO"} /\ Tells(c, m)
    BY <1>4 DEF Talks
  <2>2. /\ toClient'[c] = toClient[c] /\ cl'[c].plis = cl[c].plis
        /\ m.code # "UPDATE_SCORE" /\ m.code # "PLAY_CARD"
        /\ cl'[c].waiting_for_ecart = cl[c].waiting_for_ecart
        /\ cl[c].pc \in {"signup", "main", "ecart", "play"}
    BY <1>4, <2>1 DEF Talks
  <2>3. QED
    BY <2>1, <2>2, TellsOrder, AloneOrder
<1>5. CASE Reports(c)
  BY <1>5, ReportsOrder, AloneOrder
<1>6. CASE Leaves(c)
  BY <1>6, LeavesOrder, AloneOrder
<1>7. QED
  BY <1>1, <1>2, <1>3, <1>4, <1>5, <1>6 DEF Moves

-----------------------------------------------------------------------------
(* The order of the messages: the steps of the server.                     *)

\* The queue t is q with up to two messages more.
Sent(t, q, ca, a, cb, b) ==
  /\ IsQueue(t)
  /\ \A x : /\ x # a.code /\ x # b.code => Count(t, x) = Count(q, x)
            /\ Count(q, x) \in Nat
  /\ a.code # b.code => /\ Count(t, a.code) = Count(q, a.code) + (IF ca THEN 1 ELSE 0)
                        /\ Count(t, b.code) = Count(q, b.code) + (IF cb THEN 1 ELSE 0)

LEMMA SentTwo ==
  ASSUME NEW q, IsQueue(q), NEW ca \in BOOLEAN, NEW a, NEW cb \in BOOLEAN, NEW b
  PROVE  Sent(Push(Push(q, ca, a), cb, b), q, ca, a, cb, b)
<1> PICK s : s = Push(q, ca, a)
  OBVIOUS
<1> PICK t : t = Push(s, cb, b)
  OBVIOUS
<1>1. WithMore(s, q, a.code, IF ca THEN 1 ELSE 0)
  <2>1. WithMore(Push(q, ca, a), q, a.code, IF ca THEN 1 ELSE 0)
    BY Added
  <2>2. QED
    BY <2>1
<1>2. WithMore(t, s, b.code, IF cb THEN 1 ELSE 0)
  <2>1. IsQueue(s)
    BY <1>1 DEF WithMore
  <2>2. WithMore(Push(s, cb, b), s, b.code, IF cb THEN 1 ELSE 0)
    BY <2>1, Added
  <2>3. QED
    BY <2>2
<1>3. IsQueue(t) /\ \A x : Count(q, x) \in Nat
  BY <1>2, KindFinite DEF WithMore
<1>4. \A x : x # a.code /\ x # b.code => Count(t, x) = Count(q, x)
  BY <1>1, <1>2 DEF WithMore
<1>5. a.code # b.code => /\ Count(t, a.code) = Count(q, a.code) + (IF ca THEN 1 ELSE 0)
                         /\ Count(t, b.code) = Count(q, b.code) + (IF cb THEN 1 ELSE 0)
  BY <1>1, <1>2 DEF WithMore
<1>6. Sent(t, q, ca, a, cb, b)
  BY <1>3, <1>4, <1>5 DEF Sent
<1>7. QED
  BY <1>6

LEMMA BehindTwo ==
  ASSUME NEW q, IsQueue(q), NEW ca \in BOOLEAN, NEW a, NEW cb \in BOOLEAN, NEW b,
         NEW x, NEW y, x # y, NoneBehind(q, x, y), b.code # x,
         ca /\ a.code = x => Count(q, y) = 0
  PROVE  NoneBehind(Push(Push(q, ca, a), cb, b), x, y)
<1> PICK s : s = Push(q, ca, a)
  OBVIOUS
<1>1. NoneBehind(s, x, y)
  <2>1. NoneBehind(Push(q, ca, a), x, y)
    BY PushBehind
  <2>2. QED
    BY <2>1
<1>2. IsQueue(s)
  <2>1. IsQueue(Push(q, ca, a))
    BY PushFacts
  <2>2. QED
    BY <2>1
<1>3. NoneBehind(Push(s, cb, b), x, y)
  BY <1>1, <1>2, PushBehind
<1>4. QED
  BY <1>3

\* What is left of the messages of a client.
LEMMA HeardCounts ==
  ASSUME UInv, NEW i, NEW code, NEW m, Hearing(i, code, m), NEW c \in Clients
  PROVE  /\ \A x : x # code \/ c # Player(i) => Count(toServer'[c], x) = Count(toServer[c], x)
         /\ c = Player(i) => /\ Count(toServer'[c], code) \in Nat
                             /\ Count(toServer[c], code) = Count(toServer'[c], code) + 1
         /\ c \notin Playing => toServer'[c] = toServer[c]
<1> PICK d : d = Player(i)
  OBVIOUS
<1>1. /\ toServer[d] # <<>> /\ Head(toServer[d]).code = code /\ d \in Clients /\ d \in Playing
      /\ toServer'[d] = Tail(toServer[d]) /\ \A e \in Clients : e # d => toServer'[e] = toServer[e]
  BY DEF Hearing
<1>2. Without(Tail(toServer[d]), toServer[d], Head(toServer[d]).code)
  BY <1>1, QueuesOf, TakenFrom
<1>3. Without(toServer'[d], toServer[d], code)
  BY <1>1, <1>2
<1>4. CASE c = d
  BY <1>1, <1>3, <1>4 DEF Without
<1>5. CASE c # d
  BY <1>1, <1>5
<1>6. QED
  BY <1>4, <1>5

\* A step that neither deals, sends back nor lays a card.
LEMMA QuietOrder ==
  ASSUME UInv, Seated, RInv, NEW c \in Clients, SameTable, ~Asleep', InTricks' <=> InTricks,
         srv'.updating_score = srv.updating_score, SameTrick,
         NEW b \in BOOLEAN, NEW e, e.code = "BASIC_INFO", toClient'[c] = Push(toClient[c], b, e),
         Count(toServer'[c], "PLAY_CARD") = Count(toServer[c], "PLAY_CARD"),
         c \notin Playing => toServer'[c] = toServer[c],
         \/ Count(toServer'[c], "UPDATE_SCORE") = Count(toServer[c], "UPDATE_SCORE")
         \/ srv.updating_score /\ ScoreDue(c)' = 0
  PROVE  /\ Newcomer(c)' /\ Piles(c)' /\ Late(c)'
         /\ \/ ScoreDue(c)' = ScoreDue(c)
            \/ Count(toServer'[c], "UPDATE_SCORE") # Count(toServer[c], "UPDATE_SCORE")
<1> PICK q : q = toClient[c]
  OBVIOUS
<1> PICK t : t = toClient'[c]
  OBVIOUS
<1>1. /\ cl' = cl /\ conn'[c] = conn[c] /\ Playing' = Playing /\ ~Asleep
      /\ c \in Playing => SeatOf(c)' = SeatOf(c)
  BY DEF SameTable, SameSeats
<1>2. IsQueue(q) /\ Newcomer(c) /\ Piles(c) /\ Late(c)
  BY QueuesOf DEF RInv
<1>3. \A x : x # "BASIC_INFO" => Count(t, x) = Count(q, x)
  <2>1. WithMore(Push(q, b, e), q, e.code, IF b THEN 1 ELSE 0)
    BY <1>2, Added
  <2>2. WithMore(t, q, e.code, IF b THEN 1 ELSE 0)
    BY <2>1
  <2>3. QED
    BY <2>2 DEF WithMore
<1>4. /\ Count(t, "ADD_SCORE") = Count(q, "ADD_SCORE") /\ Count(t, "ADD_PLI") = Count(q, "ADD_PLI")
      /\ Count(t, "ECARTS") = Count(q, "ECARTS")
  BY <1>3
<1>5. Newcomer(c)'
  BY <1>1, <1>2 DEF Newcomer, At
<1>6. \/ ScoreDue(c)' = ScoreDue(c)
      \/ Count(toServer'[c], "UPDATE_SCORE") # Count(toServer[c], "UPDATE_SCORE")
  BY <1>4 DEF ScoreDue
<1>7. ASSUME c \in Playing PROVE Piles(c)'
  <2>1. NoneBehind(t, "ADD_PLI", "ADD_SCORE")
    <3>1. NoneBehind(q, "ADD_PLI", "ADD_SCORE") /\ e.code # "ADD_PLI"
      BY <1>2, <1>7 DEF Piles
    <3>2. NoneBehind(Push(q, b, e), "ADD_PLI", "ADD_SCORE")
      BY <1>2, <3>1, PushBehind
    <3>3. QED
      BY <3>2
  <2>2. NoPile(c)' <=> NoPile(c)
    BY <1>1, <1>4 DEF NoPile
  <2>3. ScoreDue(c)' = ScoreDue(c) \/ (srv.updating_score /\ ScoreDue(c)' = 0)
    BY <1>6
  <2>4. QED
    BY <1>1, <1>2, <1>4, <1>7, <2>1, <2>2, <2>3 DEF Piles
<1>8. ASSUME c \in Playing PROVE Late(c)'
  <2>1. NoneBehind(t, "ECARTS", "ASK_FOR_CARD")
    <3>1. NoneBehind(q, "ECARTS", "ASK_FOR_CARD") /\ e.code # "ECARTS"
      BY <1>2, <1>8 DEF Late
    <3>2. NoneBehind(Push(q, b, e), "ECARTS", "ASK_FOR_CARD")
      BY <1>2, <3>1, PushBehind
    <3>3. QED
      BY <3>2
  <2>2. OnBoard(c)' <=> OnBoard(c)
    BY <1>1, <1>8 DEF OnBoard, SameTrick
  <2>3. srv'.amount_turn = srv.amount_turn
    BY DEF SameTrick
  <2>4. QED
    BY <1>1, <1>2, <1>4, <1>8, <2>1, <2>2, <2>3 DEF Late, At
<1>9. QED
  BY <1>1, <1>5, <1>6, <1>7, <1>8 DEF Piles, Late

\* A step that lays no card.
LEMMA QuietCounters ==
  ASSUME Counters, SameTable, ~Asleep', InTricks' <=> InTricks, SameTrick,
         srv'.updating_score = srv.updating_score,
         srv'.amount_scores_updated =
           IF srv.updating_score THEN Cardinality({c \in Playing : ScoreDue(c)' = 0}) ELSE 0
  PROVE  Counters'
<1>1. amount_players' = amount_players /\ Playing' = Playing
  BY DEF SameTable, SameSeats
<1>2. ~InTricks' => srv'.amount_turn = 0
  BY DEF Counters, SameTrick
<1>3. InTricks' => \A k \in 0..board'.pli_size - 1 :
        board'.pli[k].last_played = (srv'.current_player_turn + k) % amount_players'
  BY <1>1 DEF Counters, SameTrick
<1>4. {c \in Playing : ScoreDue(c) = 0}' = {c \in Playing : ScoreDue(c)' = 0}
  BY <1>1
<1>5. QED
  BY <1>1, <1>2, <1>3, <1>4 DEF Counters

LEMMA SamePart ==
  ASSUME SameTable, SameRound, SameEcarts, SameTrick, SameScores, hist'.given = hist.given
  PROVE  InTricks' <=> InTricks
  BY DEF SameTable, SameSeats, SameRound, SameEcarts, SameScores, InTricks

\* Nobody's score is announced or counted.
LEMMA SameCount ==
  ASSUME Counters, ~Asleep, SameTable, srv'.amount_scores_updated = srv.amount_scores_updated,
         \A c \in Playing : ScoreDue(c)' = ScoreDue(c)
  PROVE  srv'.amount_scores_updated =
           IF srv.updating_score THEN Cardinality({c \in Playing : ScoreDue(c)' = 0}) ELSE 0
<1>1. {c \in Playing : ScoreDue(c)' = 0} = {c \in Playing : ScoreDue(c) = 0}
  OBVIOUS
<1>2. QED
  BY <1>1 DEF Counters

LEMMA IdlesOrder ==
  ASSUME UInv, Seated, RInv, Idles
  PROVE  RInv'
<1>1. /\ SameTable /\ SaysNone /\ HearsNone /\ ~Asleep' /\ ~Asleep
      /\ SameRound /\ SameEcarts /\ SameTrick /\ SameScores /\ hist'.given = hist.given
  BY DEF Idles, SameTable
<1>2. InTricks' <=> InTricks
  BY <1>1, SamePart
<1>3. srv'.updating_score = srv.updating_score /\ srv'.amount_scores_updated = srv.amount_scores_updated
  BY <1>1 DEF SameScores
<1>4. ASSUME NEW c \in Clients
      PROVE  Newcomer(c)' /\ Piles(c)' /\ Late(c)' /\ ScoreDue(c)' = ScoreDue(c)
  <2> PICK e : e = Msg("BASIC_INFO")
    OBVIOUS
  <2>1. e.code = "BASIC_INFO"
    BY DEF Msg
  <2>2. toServer'[c] = toServer[c] /\ toClient'[c] = Push(toClient[c], FALSE, e)
    BY <1>1 DEF HearsNone, SaysNone, Push
  <2>3. QED
    BY <1>1, <1>2, <1>3, <2>1, <2>2, QuietOrder
<1>5. \A c \in Playing : ScoreDue(c)' = ScoreDue(c)
  BY <1>4, SeatFacts DEF UInv
<1>6. Counters'
  BY <1>1, <1>2, <1>3, <1>5, SameCount, QuietCounters DEF RInv
<1>7. QED
  BY <1>4, <1>6 DEF RInv

\* The server takes a message that is neither a card nor a score.
LEMMA HearsOrder ==
  ASSUME UInv, Seated, RInv, SameTable, ~Asleep', InTricks' <=> InTricks, SameTrick, SameScores,
         NEW i, NEW code, NEW m, Hearing(i, code, m), code # "PLAY_CARD", code # "UPDATE_SCORE",
         NEW cond \in BOOLEAN, NEW e, e.code = "BASIC_INFO",
         \A c \in Clients : toClient'[c] = Push(toClient[c], cond /\ c = Player(i), e)
  PROVE  RInv'
<1>1. srv'.updating_score = srv.updating_score /\ srv'.amount_scores_updated = srv.amount_scores_updated
      /\ ~Asleep
  BY DEF SameScores, SameTable
<1>2. ASSUME NEW c \in Clients
      PROVE  Newcomer(c)' /\ Piles(c)' /\ Late(c)' /\ ScoreDue(c)' = ScoreDue(c)
  <2> PICK b \in BOOLEAN : b <=> cond /\ c = Player(i)
    OBVIOUS
  <2>1. toClient'[c] = Push(toClient[c], b, e)
    BY DEF Push
  <2>2. /\ Count(toServer'[c], "PLAY_CARD") = Count(toServer[c], "PLAY_CARD")
        /\ Count(toServer'[c], "UPDATE_SCORE") = Count(toServer[c], "UPDATE_SCORE")
        /\ c \notin Playing => toServer'[c] = toServer[c]
    BY HeardCounts
  <2>3. QED
    BY <1>1, <2>1, <2>2, QuietOrder
<1>3. \A c \in Playing : ScoreDue(c)' = ScoreDue(c)
  BY <1>2, SeatFacts DEF UInv
<1>4. Counters'
  BY <1>1, <1>3, SameCount, QuietCounters DEF RInv
<1>5. QED
  BY <1>2, <1>4 DEF RInv

LEMMA NothingSaid ==
  ASSUME SaysNone, NEW i
  PROVE  \E e : /\ e.code = "BASIC_INFO"
                /\ \A c \in Clients : toClient'[c] = Push(toClient[c], FALSE /\ c = Player(i), e)
<1>1. Msg("BASIC_INFO").code = "BASIC_INFO"
  BY DEF Msg
<1>2. QED
  BY <1>1 DEF SaysNone, Push

\* A player gives its ecart only in its phase.
LEMMA GivenInEcarts ==
  ASSUME UInv, NEW i, NEW m, Hearing(i, "ECART", m)
  PROVE  InEcarts /\ i \notin hist.given
<1> PICK d : d = Player(i)
  OBVIOUS
<1>1. d \in Clients /\ Count(toServer[d], "ECART") # 0 /\ SeatOf(d) = i
  <2>1. d \in Clients /\ SeatOf(d) = i
    BY DEF Hearing
  <2>2. /\ Count(toServer'[d], "ECART") \in Nat
        /\ Count(toServer[d], "ECART") = Count(toServer'[d], "ECART") + 1
    BY <2>1, HeardCounts
  <2>3. QED
    BY <2>1, <2>2
<1>2. EcartDue(d) # 0
  <2>1. Count(toClient[d], "INIT_DECK") \in Nat /\ Count(toServer[d], "ECART") \in Nat
    BY <1>1, QueuesOf, KindFinite
  <2>2. QED
    BY <1>1, <2>1 DEF EcartDue
<1>3. OwesEcart(d)
  BY <1>1, <1>2 DEF UInv, ClientInv, Duties
<1>4. QED
  BY <1>1, <1>3 DEF OwesEcart

LEMMA HearsStepOrder ==
  ASSUME UInv, Seated, RInv, NEW i \in Present, SignsUp(i) \/ Informs(i) \/ GetsEcart(i)
  PROVE  RInv'
<1>1. CASE SignsUp(i)
  <2>1. PICK m : Hearing(i, "ADD_PLAYER", m)
    BY <1>1 DEF SignsUp
  <2>2. /\ SameTable /\ SaysNone /\ ~Asleep' /\ SameRound /\ SameEcarts /\ SameTrick /\ SameScores
        /\ hist'.given = hist.given
    BY <1>1 DEF SignsUp
  <2>3. InTricks' <=> InTricks
    BY <2>2, SamePart
  <2>4. PICK e : /\ e.code = "BASIC_INFO"
                 /\ \A c \in Clients : toClient'[c] = Push(toClient[c], FALSE /\ c = Player(i), e)
    BY <2>2, NothingSaid
  <2>5. QED
    BY <2>1, <2>2, <2>3, <2>4, HearsOrder
<1>2. CASE Informs(i)
  <2>1. PICK m : Hearing(i, "ASK_BASIC_INFO", m)
    BY <1>2 DEF Informs
  <2>2. /\ SameTable /\ ~Asleep' /\ SameRound /\ SameEcarts /\ SameTrick /\ SameScores
        /\ hist'.given = hist.given
    BY <1>2 DEF Informs
  <2>3. InTricks' <=> InTricks
    BY <2>2, SamePart
  <2>4. PICK cond \in BOOLEAN : \E e :
          /\ e.code = "BASIC_INFO"
          /\ \A c \in Clients : toClient'[c] = Push(toClient[c], cond /\ c = Player(i), e)
    BY <1>2 DEF Informs
  <2>5. PICK e : /\ e.code = "BASIC_INFO"
                 /\ \A c \in Clients : toClient'[c] = Push(toClient[c], cond /\ c = Player(i), e)
    BY <2>4
  <2>6. QED
    BY <2>1, <2>2, <2>3, <2>5, HearsOrder
<1>3. CASE GetsEcart(i)
  <2>1. PICK m : Hearing(i, "ECART", m)
    BY <1>3 DEF GetsEcart
  <2>2. /\ SameTable /\ SaysNone /\ ~Asleep' /\ SameTrick /\ SameScores
        /\ srv'.one_ecart_received = TRUE
    BY <1>3 DEF GetsEcart
  <2>3. ~InTricks' /\ ~InTricks
    BY <2>1, <2>2, GivenInEcarts DEF InTricks, InEcarts
  <2>4. PICK e : /\ e.code = "BASIC_INFO"
                 /\ \A c \in Clients : toClient'[c] = Push(toClient[c], FALSE /\ c = Player(i), e)
    BY <2>2, NothingSaid
  <2>5. QED
    BY <2>1, <2>2, <2>3, <2>4, HearsOrder
<1>4. QED
  BY <1>1, <1>2, <1>3

\* Whose score is counted owes no more, and owed one.
LEMMA ScoreTaken ==
  ASSUME UInv, RInv, NEW i, NEW m, ~Asleep, Hearing(i, "UPDATE_SCORE", m),
         NEW d, d = Player(i), toClient'[d] = toClient[d]
  PROVE  srv.updating_score /\ ScoreDue(d) = 1 /\ ScoreDue(d)' = 0
<1>1. d \in Clients /\ d \in Playing
  BY DEF Hearing
<1> PICK a : a = Count(toClient[d], "ADD_SCORE")
  OBVIOUS
<1> PICK b : b = Count(toServer'[d], "UPDATE_SCORE")
  OBVIOUS
<1>2. a \in Nat /\ b \in Nat /\ Count(toServer[d], "UPDATE_SCORE") = b + 1
  BY <1>1, HeardCounts, QueuesOf, KindFinite
<1>3. ScoreDue(d) = a + (b + 1)
  BY <1>2 DEF ScoreDue
<1>4. ScoreDue(d)' = a + b
  <2>1. ScoreDue(d)' = Count(toClient'[d], "ADD_SCORE") + Count(toServer'[d], "UPDATE_SCORE")
    BY DEF ScoreDue
  <2>2. QED
    BY <2>1
<1>5. Piles(d)
  BY <1>1 DEF RInv
<1>6. ScoreDue(d) # 0
  BY <1>2, <1>3
<1>7. srv.updating_score /\ ScoreDue(d) = 1
  BY <1>1, <1>5, <1>6 DEF Piles
<1>8. a + b = 0
  BY <1>2, <1>3, <1>7
<1>9. ScoreDue(d)' = 0
  BY <1>4, <1>8
<1>10. QED
  BY <1>7, <1>9

LEMMA CountsScoreOrder ==
  ASSUME UInv, Seated, RInv, NEW i \in Present, CountsScore(i)
  PROVE  RInv'
<1>1. /\ SameTable /\ SaysNone /\ ~Asleep' /\ ~Asleep
      /\ srv'.amount_scores_updated = srv.amount_scores_updated + 1
      /\ srv'.updating_score = srv.updating_score
      /\ SameRound /\ SameEcarts /\ SameTrick /\ hist'.given = hist.given
  BY DEF CountsScore, SameTable
<1>2. PICK m : Hearing(i, "UPDATE_SCORE", m)
  BY DEF CountsScore
<1>3. InTricks' <=> InTricks
  BY <1>1 DEF SameTable, SameSeats, SameRound, SameEcarts, InTricks
<1> PICK d : d = Player(i)
  OBVIOUS
<1>4. d \in Clients /\ d \in Playing
  BY <1>2 DEF Hearing
<1>5. srv.updating_score /\ ScoreDue(d) = 1 /\ ScoreDue(d)' = 0
  BY <1>1, <1>2, <1>4, ScoreTaken DEF SaysNone
<1>6. ASSUME NEW c \in Clients
      PROVE  /\ Newcomer(c)' /\ Piles(c)' /\ Late(c)'
             /\ c # d => ScoreDue(c)' = ScoreDue(c)
  <2> PICK e : e = Msg("BASIC_INFO")
    OBVIOUS
  <2>1. e.code = "BASIC_INFO"
    BY DEF Msg
  <2>2. toClient'[c] = Push(toClient[c], FALSE, e)
    BY <1>1 DEF SaysNone, Push
  <2>3. /\ Count(toServer'[c], "PLAY_CARD") = Count(toServer[c], "PLAY_CARD")
        /\ c # d => Count(toServer'[c], "UPDATE_SCORE") = Count(toServer[c], "UPDATE_SCORE")
        /\ c \notin Playing => toServer'[c] = toServer[c]
    BY <1>2, HeardCounts
  <2>4. \/ Count(toServer'[c], "UPDATE_SCORE") = Count(toServer[c], "UPDATE_SCORE")
        \/ srv.updating_score /\ ScoreDue(c)' = 0
    BY <1>5, <2>3
  <2>5. /\ Newcomer(c)' /\ Piles(c)' /\ Late(c)'
        /\ \/ ScoreDue(c)' = ScoreDue(c)
           \/ Count(toServer'[c], "UPDATE_SCORE") # Count(toServer[c], "UPDATE_SCORE")
    BY <1>1, <1>3, <2>1, <2>2, <2>3, <2>4, QuietOrder
  <2>6. QED
    BY <2>3, <2>5
<1>7. Counters'
  <2> DEFINE S == {c \in Playing : ScoreDue(c) = 0}
             T == {c \in Playing : ScoreDue(c)' = 0}
  <2>1. \A c \in Playing : c \in Clients
    BY SeatFacts DEF UInv
  <2>2. T = S \cup {d} /\ d \notin S
    BY <1>4, <1>5, <1>6, <2>1
  <2>3. IsFiniteSet(S)
    BY PlayersCounted, FS_Subset
  <2>4. srv.amount_scores_updated = Cardinality(S)
    BY <1>1, <1>5 DEF RInv, Counters
  <2>5. srv'.amount_scores_updated = Cardinality(T)
    <3> HIDE DEF S, T
    <3>1. Cardinality(S \cup {d}) = Cardinality(S) + 1
      BY <2>2, <2>3, FS_AddElement
    <3>2. QED
      BY <1>1, <2>2, <2>4, <3>1
  <2>6. srv'.amount_scores_updated =
           IF srv.updating_score THEN Cardinality({c \in Playing : ScoreDue(c)' = 0}) ELSE 0
    BY <1>5, <2>5
  <2> HIDE DEF S, T
  <2>7. QED
    BY <1>1, <1>3, <2>6, QuietCounters DEF RInv
<1>8. QED
  BY <1>6, <1>7 DEF RInv

\* A round begins when nobody owes a score.
LEMMA NothingDue ==
  ASSUME UInv, Seated, RInv, NEW perm, NEW papayoo, Deals(perm, papayoo), NEW c \in Playing
  PROVE  ScoreDue(c) = 0 /\ NoPile(c)
<1>1. /\ ~Asleep /\ ~InTricks /\ c \in Clients
      /\ ~srv.game_running \/ (srv.updating_score /\ srv.amount_scores_updated = amount_players)
  BY SeatFacts DEF Deals, SameTable, UInv
<1>2. Piles(c) /\ Counters
  BY <1>1 DEF RInv
<1>3. ScoreDue(c) = 0
  <2>1. CASE ~srv.updating_score
    BY <1>2, <2>1 DEF Piles
  <2>2. CASE srv.updating_score
    <3> DEFINE S == {d \in Playing : ScoreDue(d) = 0}
    <3>1. Cardinality(S) = Cardinality(Playing)
      <4>1. srv.amount_scores_updated = amount_players
        BY <1>1, <2>2 DEF UInv, Phases
      <4>2. srv.amount_scores_updated = Cardinality(S)
        BY <1>1, <1>2, <2>2 DEF Counters
      <4>3. QED
        BY <4>1, <4>2, PlayersCounted
    <3>2. S \in SUBSET Playing
      OBVIOUS
    <3>3. S = Playing
      <4> HIDE DEF S
      <4>1. QED
        BY <3>1, <3>2, PlayersCounted, FS_Subset
    <3>4. QED
      BY <3>3
  <2>3. QED
    BY <2>1, <2>2
<1>4. Count(toClient[c], "ADD_SCORE") = 0
  <2>1. Count(toClient[c], "ADD_SCORE") \in Nat /\ Count(toServer[c], "UPDATE_SCORE") \in Nat
    BY <1>1, QueuesOf, KindFinite
  <2>2. QED
    BY <1>3, <2>1 DEF ScoreDue
<1>5. QED
  BY <1>1, <1>3, <1>4 DEF NoPile

LEMMA DealsOrder ==
  ASSUME UInv, Seated, RInv, NEW perm, NEW papayoo, Deals(perm, papayoo)
  PROVE  RInv'
<1>1. /\ SameTable /\ HearsNone /\ ~Asleep' /\ ~Asleep /\ ~InTricks
      /\ srv'.updating_score = FALSE /\ srv'.amount_scores_updated = 0
      /\ SameTrick /\ hist'.given = {} /\ amount_players >= 2
      /\ Playing' = Playing /\ Present' = Present /\ cl' = cl
  BY DEF Deals, SameTable, SameSeats
<1>2. ~InTricks'
  <2>1. 0 \in Present
    BY <1>1, SeatFacts DEF UInv
  <2>2. QED
    BY <1>1, <2>1 DEF InTricks
<1>3. Counters'
  BY <1>1, <1>2 DEF Counters, RInv, SameTrick
<1>4. ASSUME NEW c \in Clients
      PROVE  Newcomer(c)' /\ Piles(c)' /\ Late(c)'
  <2> PICK q : q = toClient[c]
    OBVIOUS
  <2> PICK t : t = toClient'[c]
    OBVIOUS
  <2> PICK a : a = DealsInfo(c, papayoo)
    OBVIOUS
  <2> PICK b : b = DealsDeck(c, perm)
    OBVIOUS
  <2> PICK p \in BOOLEAN : p <=> c \in Playing
    OBVIOUS
  <2>1. a.code = "BASIC_INFO" /\ b.code = "INIT_DECK"
    BY DEF DealsInfo, DealsDeck
  <2>2. t = Push(Push(q, p, a), p, b) /\ IsQueue(q)
    BY QueuesOf DEF Deals, Push
  <2>3. Sent(t, q, p, a, p, b)
    BY <2>2, SentTwo
  <2>4. /\ Count(t, "ADD_SCORE") = Count(q, "ADD_SCORE") /\ Count(t, "ADD_PLI") = Count(q, "ADD_PLI")
        /\ Count(t, "ECARTS") = Count(q, "ECARTS")
    BY <2>1, <2>3 DEF Sent
  <2>5. conn'[c] = conn[c] /\ toServer'[c] = toServer[c]
    BY <1>1 DEF SameTable, HearsNone
  <2>6. Newcomer(c) /\ Piles(c) /\ Late(c)
    BY DEF RInv
  <2>7. Newcomer(c)'
    BY <1>1, <2>5, <2>6 DEF Newcomer, At
  <2>8. ASSUME c \in Playing PROVE Piles(c)' /\ Late(c)'
    <3>1. ScoreDue(c) = 0 /\ NoPile(c)
      BY <2>8, NothingDue
    <3>2. ScoreDue(c)' = ScoreDue(c)
      BY <2>4, <2>5 DEF ScoreDue
    <3>3. cl[c].plis = <<>> /\ Count(q, "ADD_PLI") = 0
      BY <2>6, <2>8, <3>1 DEF Piles
    <3>4. NoneBehind(q, "ADD_PLI", "ADD_SCORE") /\ NoneBehind(q, "ECARTS", "ASK_FOR_CARD")
      BY <2>6, <2>8 DEF Piles, Late
    <3>5. /\ NoneBehind(Push(Push(q, p, a), p, b), "ADD_PLI", "ADD_SCORE")
          /\ NoneBehind(Push(Push(q, p, a), p, b), "ECARTS", "ASK_FOR_CARD")
      BY <2>1, <2>2, <3>4, BehindTwo
    <3>6. NoneBehind(t, "ADD_PLI", "ADD_SCORE") /\ NoneBehind(t, "ECARTS", "ASK_FOR_CARD")
      BY <2>2, <3>5
    <3>7. Count(q, "ECARTS") = 0
      BY <1>1, <2>6, <2>8 DEF Late
    <3>8. Piles(c)'
      BY <1>1, <2>4, <3>1, <3>2, <3>3, <3>6 DEF Piles
    <3>9. Late(c)'
      BY <1>2, <2>4, <3>6, <3>7 DEF Late
    <3>10. QED
      BY <3>8, <3>9
  <2>9. QED
    BY <1>1, <2>7, <2>8 DEF Piles, Late
<1>5. QED
  BY <1>3, <1>4 DEF RInv

LEMMA SendsBackOrder ==
  ASSUME UInv, Seated, RInv, SendsBack
  PROVE  RInv'
<1>1. /\ SameTable /\ HearsNone /\ ~Asleep' /\ ~Asleep /\ InEcarts /\ ~InTricks /\ InTricks'
      /\ SameTrick /\ SameScores /\ ~srv.updating_score /\ ~srv'.updating_score
      /\ Playing' = Playing /\ cl' = cl
  BY DEF SendsBack, SameTable, SameSeats, SameScores, InEcarts
<1>2. board.pli_size = 0 /\ srv.amount_turn = 0
  BY <1>1 DEF UInv, Phases, RInv, Counters
<1>3. Counters'
  BY <1>1, <1>2 DEF Counters, RInv, SameTrick, SameScores
<1>4. ASSUME NEW c \in Clients
      PROVE  Newcomer(c)' /\ Piles(c)' /\ Late(c)'
  <2> PICK q : q = toClient[c]
    OBVIOUS
  <2> PICK t : t = toClient'[c]
    OBVIOUS
  <2> PICK a : a = Return(c)
    OBVIOUS
  <2> PICK b : b = Ask
    OBVIOUS
  <2> PICK p \in BOOLEAN : p <=> c \in Playing
    OBVIOUS
  <2> PICK r \in BOOLEAN : r <=> c = Player(0)
    OBVIOUS
  <2>1. a.code = "ECARTS" /\ b.code = "ASK_FOR_CARD"
    BY DEF Return, Ask
  <2>2. t = Push(Push(q, p, a), r, b) /\ IsQueue(q)
    BY QueuesOf DEF SendsBack, Push
  <2>3. Sent(t, q, p, a, r, b)
    BY <2>2, SentTwo
  <2>4. /\ Count(t, "ADD_SCORE") = Count(q, "ADD_SCORE") /\ Count(t, "ADD_PLI") = Count(q, "ADD_PLI")
        /\ Count(t, "ECARTS") = Count(q, "ECARTS") + (IF p THEN 1 ELSE 0)
    BY <2>1, <2>3 DEF Sent
  <2>5. conn'[c] = conn[c] /\ toServer'[c] = toServer[c]
    BY <1>1 DEF SameTable, HearsNone
  <2>6. Newcomer(c) /\ Piles(c) /\ Late(c)
    BY DEF RInv
  <2>7. Newcomer(c)'
    BY <1>1, <2>5, <2>6 DEF Newcomer, At
  <2>8. ASSUME c \in Playing PROVE Piles(c)' /\ Late(c)'
    <3>1. Count(q, "ASK_FOR_CARD") = 0 /\ ~At(c, "play") /\ Count(toServer[c], "PLAY_CARD") = 0
      <4>1. Turns(c) = 0
        BY <1>1 DEF UInv, ClientInv, Duties, HasTurn
      <4>2. Count(q, "ASK_FOR_CARD") \in Nat /\ Count(toServer[c], "PLAY_CARD") \in Nat
        BY QueuesOf, KindFinite
      <4>3. (IF At(c, "play") THEN 1 ELSE 0) \in Nat
        OBVIOUS
      <4>4. QED
        BY <4>1, <4>2, <4>3 DEF Turns
    <3>2. ScoreDue(c) = 0 /\ ScoreDue(c)' = ScoreDue(c)
      BY <1>1, <2>4, <2>5, <2>6, <2>8 DEF ScoreDue, Piles
    <3>3. Count(q, "ECARTS") = 0
      BY <1>1, <2>6, <2>8 DEF Late
    <3>4. NoneBehind(q, "ADD_PLI", "ADD_SCORE") /\ NoneBehind(q, "ECARTS", "ASK_FOR_CARD")
      BY <2>6, <2>8 DEF Piles, Late
    <3>5. NoneBehind(Push(Push(q, p, a), r, b), "ADD_PLI", "ADD_SCORE")
      BY <2>1, <2>2, <3>4, BehindTwo
    <3>6. NoneBehind(Push(Push(q, p, a), r, b), "ECARTS", "ASK_FOR_CARD")
      BY <2>1, <2>2, <3>1, <3>4, BehindTwo
    <3>7. NoneBehind(t, "ADD_PLI", "ADD_SCORE") /\ NoneBehind(t, "ECARTS", "ASK_FOR_CARD")
      BY <2>2, <3>5, <3>6
    <3>8. Piles(c)'
      BY <1>1, <3>2, <3>7 DEF Piles, NoPile
    <3>9. Count(t, "ECARTS") = 1
      BY <2>4, <2>8, <3>3
    <3>10. ~OnBoard(c)'
      BY <1>1, <1>2 DEF OnBoard, SameTrick
    <3>11. Late(c)'
      BY <1>1, <1>2, <2>5, <3>1, <3>7, <3>9, <3>10 DEF Late, At, SameTrick
    <3>12. QED
      BY <3>8, <3>11
  <2>9. QED
    BY <1>1, <2>7, <2>8 DEF Piles, Late
<1>5. QED
  BY <1>3, <1>4 DEF RInv

\* The step of the lobby that lets nobody in, or one.
LEMMA FirstWordOrder ==
  ASSUME UInv, Seated, RInv, NEW d, NEW m, FirstWord(d, m), conn'[d] # "backlog",
         \/ SameSeats
         \/ ~srv.game_running /\ Playing' = Playing \cup {d}
  PROVE  RInv'
<1>1. /\ UNCHANGED <<listening, cl, srv, board, hist>> /\ HearsNone /\ ~Asleep /\ ~Asleep'
      /\ d \in Clients /\ conn[d] = "backlog" /\ toClient'[d] = <<m>>
      /\ d \notin Playing /\ m.code \in {"OK", "REFUSE"}
      /\ \A c \in Clients : c # d => toClient'[c] = toClient[c] /\ conn'[c] = conn[c]
  BY DEF FirstWord
<1>2. \/ SameSeats /\ (InTricks' <=> InTricks) /\ Playing' = Playing
      \/ ~srv.game_running /\ Playing' = Playing \cup {d} /\ ~InTricks /\ ~InTricks'
         /\ ~srv.updating_score
  BY <1>1 DEF InTricks, SameSeats, UInv, Phases
<1>3. ASSUME NEW c \in Clients PROVE toServer'[c] = toServer[c] /\ Newcomer(c)'
  <2>1. toServer'[c] = toServer[c]
    BY <1>1 DEF HearsNone
  <2>2. Newcomer(c)
    BY DEF RInv
  <2>3. conn'[c] = "backlog" => conn[c] = "backlog"
    BY <1>1
  <2>4. QED
    BY <1>1, <1>2, <2>1, <2>2, <2>3 DEF Newcomer, At
<1>4. ASSUME NEW c \in Clients, c # d
      PROVE  Piles(c)' /\ Late(c)' /\ ScoreDue(c)' = ScoreDue(c)
  <2>1. toClient'[c] = toClient[c] /\ toServer'[c] = toServer[c] /\ (c \in Playing' <=> c \in Playing)
    BY <1>1, <1>2, <1>3, <1>4
  <2>2. Piles(c) /\ Late(c)
    BY DEF RInv
  <2>3. ScoreDue(c)' = ScoreDue(c)
    BY <2>1 DEF ScoreDue
  <2>4. NoPile(c)' <=> NoPile(c)
    BY <1>1, <1>2, <2>1 DEF NoPile
  <2>5. Piles(c)'
    BY <1>1, <2>1, <2>2, <2>3, <2>4 DEF Piles
  <2>6. Late(c)'
    <3>1. CASE ~InTricks /\ ~InTricks'
      BY <1>1, <2>1, <2>2, <3>1 DEF Late
    <3>2. CASE SameSeats /\ (InTricks' <=> InTricks)
      <4>1. c \in Playing => (OnBoard(c)' <=> OnBoard(c))
        BY <1>1, <3>2 DEF OnBoard, SameSeats
      <4>2. QED
        BY <1>1, <2>1, <2>2, <3>2, <4>1 DEF Late, At
    <3>3. QED
      BY <1>2, <3>1, <3>2
  <2>7. QED
    BY <2>3, <2>5, <2>6
<1>5. Piles(d)' /\ Late(d)'
  <2>1. CASE d \notin Playing'
    BY <2>1 DEF Piles, Late
  <2>2. CASE d \in Playing'
    <3>1. ~InTricks' /\ ~srv'.updating_score
      BY <1>1, <1>2, <2>2
    <3>2. toServer'[d] = <<>> /\ cl'[d].plis = <<>>
      BY <1>1, <1>3 DEF RInv, Newcomer, At
    <3>3. \A x : /\ Count(<<m>>, x) = IF m.code = x THEN 1 ELSE 0
                 /\ Count(<<>>, x) = 0
      BY CountOne, CountEmpty
    <3>4. /\ Count(<<m>>, "ADD_SCORE") = 0 /\ Count(<<m>>, "ADD_PLI") = 0
          /\ Count(<<m>>, "ECARTS") = 0 /\ IsQueue(<<m>>)
      BY <1>1, <3>3, ShortQueues
    <3>5. NoneBehind(<<m>>, "ADD_PLI", "ADD_SCORE") /\ NoneBehind(<<m>>, "ECARTS", "ASK_FOR_CARD")
      BY <3>4, NoneBehindNone
    <3>6. ScoreDue(d)' = 0
      BY <1>1, <3>2, <3>3, <3>4 DEF ScoreDue
    <3>7. Piles(d)'
      BY <1>1, <3>1, <3>2, <3>4, <3>5, <3>6 DEF Piles
    <3>8. Late(d)'
      BY <1>1, <3>1, <3>4, <3>5 DEF Late
    <3>9. QED
      BY <3>7, <3>8
  <2>3. QED
    BY <2>1, <2>2
<1>6. Counters'
  <2>1. CASE SameSeats
    <3>1. \A c \in Playing : ScoreDue(c)' = ScoreDue(c)
      BY <1>1, <1>4, SeatFacts DEF UInv
    <3>2. {c \in Playing : ScoreDue(c) = 0}' = {c \in Playing : ScoreDue(c) = 0}
      BY <2>1, <3>1 DEF SameSeats
    <3>3. amount_players' = amount_players /\ (InTricks' <=> InTricks)
      BY <1>1, <2>1 DEF SameSeats, InTricks
    <3>4. QED
      BY <1>1, <3>2, <3>3 DEF Counters, RInv
  <2>2. CASE ~InTricks /\ ~InTricks' /\ ~srv.updating_score
    BY <1>1, <2>2 DEF Counters, RInv
  <2>3. QED
    BY <1>2, <2>1, <2>2
<1>7. QED
  BY <1>3, <1>4, <1>5, <1>6 DEF RInv

LEMMA LobbyOrder ==
  ASSUME UInv, Seated, RInv, NEW d \in Clients, Refuses(d) \/ Admits(d)
  PROVE  RInv'
<1>1. CASE Refuses(d)
  BY <1>1, FirstWordOrder DEF Refuses
<1>2. CASE Admits(d)
  <2>1. PICK m : FirstWord(d, m)
    BY <1>2 DEF Admits
  <2>2. /\ ~srv.game_running /\ conn'[d] = "open"
        /\ players' = Append(players, [client |-> d, is_registered |-> FALSE])
    BY <1>2 DEF Admits
  <2>3. Playing' = Playing \cup {d}
    <3> PICK r : r = [client |-> d, is_registered |-> FALSE]
      OBVIOUS
    <3> DEFINE R == [client : Clients, is_registered : BOOLEAN]
    <3>1. players \in Seq(R) /\ players' = Append(players, r) /\ r \in R /\ r.client = d
      BY <2>2 DEF Seated, AtTheTable
    <3> PICK n : n = Len(players)
      OBVIOUS
    <3>2. /\ n \in Nat /\ DOMAIN players = 1..n /\ DOMAIN players' = 1..n + 1
          /\ \A k \in 1..n : players'[k] = players[k]
          /\ players'[n + 1] = r
      <4> HIDE DEF R
      <4>1. QED
        BY <3>1
    <3>3. Playing = {players[k].client : k \in 1..n} /\ Playing' = {players'[k].client : k \in 1..n + 1}
      BY <3>2 DEF Playing
    <3>4. ASSUME NEW c \in Playing' PROVE c \in Playing \cup {d}
      <4>1. PICK k \in 1..n + 1 : c = players'[k].client
        BY <3>3
      <4>2. k \in 1..n \/ k = n + 1
        BY <3>2
      <4>3. QED
        BY <3>1, <3>2, <3>3, <4>1, <4>2
    <3>5. ASSUME NEW c \in Playing \cup {d} PROVE c \in Playing'
      <4>1. n + 1 \in 1..n + 1 /\ \A k \in 1..n : k \in 1..n + 1
        BY <3>2
      <4>2. QED
        BY <3>1, <3>2, <3>3, <4>1
    <3>6. QED
      BY <3>4, <3>5
  <2>4. QED
    BY <2>1, <2>2, <2>3, FirstWordOrder
<1>3. QED
  BY <1>1, <1>2

LEMMA ClearsOrder ==
  ASSUME UInv, Seated, RInv, Clears
  PROVE  RInv'
<1>1. /\ cl' = cl /\ Asleep /\ ~Asleep' /\ players' = <<>>
      /\ \A c \in Clients : conn'[c] = "backlog" => conn[c] = "backlog"
      /\ \A c \in Clients : toServer'[c] = IF c \in Playing THEN <<>> ELSE toServer[c]
      /\ srv'.game_running = FALSE /\ srv'.updating_score = FALSE /\ srv'.amount_scores_updated = 0
      /\ srv'.amount_turn = srv.amount_turn
  BY DEF Clears
<1>2. Playing' = {}
  BY <1>1 DEF Playing
<1>3. ~InTricks /\ ~InTricks' /\ srv.amount_turn = 0
  BY <1>1 DEF InTricks, UInv, Phases, RInv, Counters
<1>4. Counters'
  BY <1>1, <1>3 DEF Counters
<1>5. ASSUME NEW c \in Clients PROVE Newcomer(c)' /\ Piles(c)' /\ Late(c)'
  <2>1. Newcomer(c)
    BY DEF RInv
  <2>2. Newcomer(c)'
    BY <1>1, <2>1 DEF Newcomer, At
  <2>3. QED
    BY <1>2, <2>2 DEF Piles, Late
<1>6. QED
  BY <1>4, <1>5 DEF RInv

-----------------------------------------------------------------------------
(* The order of the messages: a card reaches the board.                    *)

\* The card is that of the player who has the turn; it was its only question,
\* and it has its ecart.
LEMMA CardArrives ==
  ASSUME UInv, Seated, RInv, NEW i, NEW m, LaysCard(i, m)
  PROVE  /\ InTricks /\ ~srv.updating_score /\ i \in Present
         /\ amount_players \in Nat /\ Present = 0..amount_players - 1
         /\ srv.current_player_turn \in Present /\ board.pli_size \in 0..amount_players - 1
         /\ i = (srv.current_player_turn + board.pli_size) % amount_players
         /\ \A c \in Clients :
              /\ Count(toClient[c], "ASK_FOR_CARD") = 0 /\ ~At(c, "play")
              /\ Count(toServer'[c], "PLAY_CARD") = 0
              /\ Count(toServer'[c], "UPDATE_SCORE") = Count(toServer[c], "UPDATE_SCORE")
              /\ c \notin Playing => toServer'[c] = toServer[c]
              /\ c # Player(i) => Count(toServer[c], "PLAY_CARD") = 0
         /\ Count(toServer[Player(i)], "PLAY_CARD") = 1
         /\ Count(toClient[Player(i)], "ECARTS") = 0
<1> PICK d : d = Player(i)
  OBVIOUS
<1> PICK h : h = (srv.current_player_turn + board.pli_size) % amount_players
  OBVIOUS
<1>1. /\ Hearing(i, "PLAY_CARD", m) /\ InTricks /\ ~srv.updating_score
      /\ d \in Clients /\ d \in Playing /\ SeatOf(d) = i /\ i \in Present
  BY DEF LaysCard, Hearing, InTricks
<1>2. /\ amount_players \in Nat /\ Present = 0..amount_players - 1
      /\ h \in Present
      /\ \A j \in Present : SeatOf(Player(j)) = j
      /\ srv.current_player_turn \in Present /\ board.pli_size \in 0..amount_players - 1
  BY <1>1, SeatFacts, TurnHolder DEF UInv, Phases
<1>3. \A c \in Clients :
        /\ Count(toClient[c], "ASK_FOR_CARD") \in Nat /\ Count(toServer[c], "PLAY_CARD") \in Nat
        /\ Count(toServer'[c], "UPDATE_SCORE") = Count(toServer[c], "UPDATE_SCORE")
        /\ c \notin Playing => toServer'[c] = toServer[c]
        /\ c # d => Count(toServer'[c], "PLAY_CARD") = Count(toServer[c], "PLAY_CARD")
        /\ c = d => /\ Count(toServer'[c], "PLAY_CARD") \in Nat
                    /\ Count(toServer[c], "PLAY_CARD") = Count(toServer'[c], "PLAY_CARD") + 1
  BY <1>1, HeardCounts, QueuesOf, KindFinite
<1>4. \A c \in Clients : Turns(c) = Count(toClient[c], "ASK_FOR_CARD")
                                    + (IF At(c, "play") THEN 1 ELSE 0) + Count(toServer[c], "PLAY_CARD")
  BY DEF Turns
<1>5. \A c \in Clients : Turns(c) = IF HasTurn(c) THEN 1 ELSE 0
  BY DEF UInv, ClientInv, Duties
<1>6. HasTurn(d)
  <2>1. Turns(d) # 0
    BY <1>1, <1>3, <1>4
  <2>2. QED
    BY <1>1, <1>5, <2>1
<1>7. i = h /\ \A c \in Clients : HasTurn(c) => c = d
  BY <1>1, <1>2, <1>6 DEF HasTurn
<1>8. ASSUME NEW c \in Clients
      PROVE  /\ Count(toClient[c], "ASK_FOR_CARD") = 0 /\ ~At(c, "play")
             /\ Count(toServer'[c], "PLAY_CARD") = 0
             /\ c # d => Count(toServer[c], "PLAY_CARD") = 0
             /\ c = d => Count(toServer[c], "PLAY_CARD") = 1
  <2>1. CASE c = d
    <3>1. Turns(c) = 1
      BY <1>5, <1>6, <2>1
    <3>2. QED
      BY <1>3, <1>4, <2>1, <3>1
  <2>2. CASE c # d
    <3>1. Turns(c) = 0
      BY <1>5, <1>7, <2>2
    <3>2. QED
      BY <1>3, <1>4, <2>2, <3>1
  <2>3. QED
    BY <2>1, <2>2
<1>9. Count(toClient[d], "ECARTS") = 0
  <2>1. Count(toServer[d], "PLAY_CARD") # 0
    BY <1>1, <1>8
  <2>2. QED
    BY <1>1, <2>1 DEF RInv, Late
<1>10. QED
  BY <1>1, <1>2, <1>3, <1>7, <1>8, <1>9

\* When the trick is full everybody has played, and so has its ecart.
LEMMA AllPlayed ==
  ASSUME UInv, Seated, RInv, NEW i, NEW m, LaysCard(i, m), board.pli_size + 1 = amount_players,
         NEW c \in Playing
  PROVE  Count(toClient[c], "ECARTS") = 0 /\ (OnBoard(c) \/ c = Player(i))
<1> PICK n : n = amount_players
  OBVIOUS
<1> PICK s : s = srv.current_player_turn
  OBVIOUS
<1> PICK j : j = SeatOf(c)
  OBVIOUS
<1>1. /\ n \in Nat /\ s \in 0..n - 1 /\ board.pli_size = n - 1 /\ i = (s + board.pli_size) % n
      /\ j \in 0..n - 1 /\ c = Player(j) /\ c \in Clients /\ InTricks
      /\ Count(toClient[Player(i)], "ECARTS") = 0
  BY CardArrives, SeatFacts DEF UInv
<1>2. PICK t \in 0..n - 1 : (s + t) % n = j
  <2>1. CASE j >= s
    <3>1. j - s \in 0..n - 1 /\ s + (j - s) = j
      BY <1>1, <2>1
    <3>2. j % n = j
      BY <1>1
    <3>3. QED
      BY <3>1, <3>2
  <2>2. CASE j < s
    <3>1. j - s + n \in 0..n - 1 /\ s + (j - s + n) = j + n
      BY <1>1, <2>2
    <3>2. (j + n) % n = j
      BY <1>1
    <3>3. QED
      BY <3>1, <3>2
  <2>3. QED
    BY <1>1, <2>1, <2>2
<1>3. OnBoard(c) \/ c = Player(i)
  <2>1. CASE t = n - 1
    BY <1>1, <1>2, <2>1
  <2>2. CASE t # n - 1
    <3>1. t \in 0..board.pli_size - 1
      BY <1>1, <1>2, <2>2
    <3>2. board.pli[t].last_played = (s + t) % n
      BY <1>1, <3>1 DEF RInv, Counters
    <3>3. QED
      BY <1>2, <3>1, <3>2 DEF OnBoard
  <2>3. QED
    BY <2>1, <2>2
<1>4. QED
  BY <1>1, <1>3 DEF RInv, Late

LEMMA TrickGoesOrder ==
  ASSUME UInv, Seated, RInv, NEW i \in Present, TrickGoes(i)
  PROVE  RInv'
<1>1. PICK m : LaysCard(i, m)
  BY DEF TrickGoes
<1> PICK n : n = amount_players
  OBVIOUS
<1> PICK s : s = srv.current_player_turn
  OBVIOUS
<1> PICK z : z = board.pli_size
  OBVIOUS
<1>2. /\ SameTable /\ InTricks /\ InTricks' /\ ~Asleep' /\ ~srv.updating_score /\ ~srv'.updating_score
      /\ srv'.amount_scores_updated = srv.amount_scores_updated
      /\ srv'.amount_turn = srv.amount_turn /\ srv'.current_player_turn = s
      /\ board'.pli_size = z + 1 /\ z \in 0..n - 1 /\ n \in Nat /\ i = (s + z) % n
      /\ amount_players' = n /\ Playing' = Playing /\ cl' = cl /\ conn' = conn
      /\ Present = 0..n - 1
  BY <1>1, CardArrives DEF TrickGoes, LaysCard, SameTable, SameSeats
<1>3. board'.pli[z].last_played = i /\ \A k \in 0..z - 1 : board'.pli[k] = board.pli[k]
  BY <1>1, <1>2 DEF LaysCard, Seated, Shape
<1>4. Counters'
  <2>1. \A k \in 0..z - 1 : board.pli[k].last_played = (s + k) % n
    BY <1>2 DEF RInv, Counters
  <2>2. ASSUME NEW k \in 0..z + 1 - 1 PROVE board'.pli[k].last_played = (s + k) % n
    <3>1. k = z \/ k \in 0..z - 1
      BY <1>2
    <3>2. QED
      BY <1>2, <1>3, <2>1, <3>1
  <2>3. srv.amount_scores_updated = 0
    BY <1>2 DEF RInv, Counters
  <2>4. QED
    BY <1>2, <2>2, <2>3 DEF Counters
<1>5. PICK next \in Present :
        \A c \in Clients : toClient'[c] = Push(Push(toClient[c], c \in Playing, Msg("SHOW_PLI")),
                                               c = Player(next), Ask)
  BY DEF TrickGoes
<1>6. ASSUME NEW c \in Clients
      PROVE  Newcomer(c)' /\ Piles(c)' /\ Late(c)'
  <2> PICK q : q = toClient[c]
    OBVIOUS
  <2> PICK t : t = toClient'[c]
    OBVIOUS
  <2> PICK a : a = Msg("SHOW_PLI")
    OBVIOUS
  <2> PICK b : b = Ask
    OBVIOUS
  <2> PICK p \in BOOLEAN : p <=> c \in Playing
    OBVIOUS
  <2> PICK r \in BOOLEAN : r <=> c = Player(next)
    OBVIOUS
  <2>1. a.code = "SHOW_PLI" /\ b.code = "ASK_FOR_CARD"
    BY DEF Msg, Ask
  <2>2. t = Push(Push(q, p, a), r, b) /\ IsQueue(q)
    BY <1>5, QueuesOf DEF Push
  <2>3. Sent(t, q, p, a, r, b)
    BY <2>2, SentTwo
  <2>4. /\ Count(t, "ADD_SCORE") = Count(q, "ADD_SCORE") /\ Count(t, "ADD_PLI") = Count(q, "ADD_PLI")
        /\ Count(t, "ECARTS") = Count(q, "ECARTS")
    BY <2>1, <2>3 DEF Sent
  <2>5. /\ Count(toServer'[c], "PLAY_CARD") = 0
        /\ Count(toServer'[c], "UPDATE_SCORE") = Count(toServer[c], "UPDATE_SCORE")
        /\ c \notin Playing => toServer'[c] = toServer[c]
        /\ ~At(c, "play") /\ Count(toClient[Player(i)], "ECARTS") = 0
    BY <1>1, CardArrives
  <2>6. Newcomer(c) /\ Piles(c) /\ Late(c)
    BY DEF RInv
  <2>7. Newcomer(c)'
    BY <1>2, <2>5, <2>6 DEF Newcomer, At
  <2>8. ASSUME c \in Playing PROVE Piles(c)' /\ Late(c)'
    <3>1. ScoreDue(c) = 0 /\ ScoreDue(c)' = ScoreDue(c)
      BY <1>2, <2>4, <2>5, <2>6, <2>8 DEF ScoreDue, Piles
    <3>2. NoneBehind(q, "ADD_PLI", "ADD_SCORE") /\ NoneBehind(q, "ECARTS", "ASK_FOR_CARD")
      BY <2>6, <2>8 DEF Piles, Late
    <3>3. NoneBehind(Push(Push(q, p, a), r, b), "ADD_PLI", "ADD_SCORE")
      BY <2>1, <2>2, <3>2, BehindTwo
    <3>4. NoneBehind(Push(Push(q, p, a), r, b), "ECARTS", "ASK_FOR_CARD")
      BY <2>1, <2>2, <3>2, BehindTwo
    <3>5. NoneBehind(t, "ADD_PLI", "ADD_SCORE") /\ NoneBehind(t, "ECARTS", "ASK_FOR_CARD")
      BY <2>2, <3>3, <3>4
    <3>6. Piles(c)'
      BY <1>2, <3>1, <3>5 DEF Piles, NoPile
    <3>7. ASSUME Count(t, "ECARTS") # 0 PROVE ~OnBoard(c)'
      <4>1. ~OnBoard(c) /\ c # Player(i)
        BY <2>4, <2>5, <2>6, <2>8, <3>7 DEF Late
      <4>2. SeatOf(c) # i /\ SeatOf(c)' = SeatOf(c)
        BY <1>2, <2>8, <4>1, SeatFacts DEF UInv, SameTable, SameSeats
      <4>3. ASSUME NEW k \in 0..z + 1 - 1 PROVE board'.pli[k].last_played # SeatOf(c)
        <5>1. k = z \/ k \in 0..z - 1
          BY <1>2
        <5>2. QED
          BY <1>3, <4>1, <4>2, <5>1 DEF OnBoard
      <4>4. QED
        BY <1>2, <4>2, <4>3 DEF OnBoard
    <3>8. Late(c)'
      BY <1>2, <2>4, <2>5, <2>6, <2>8, <3>5, <3>7 DEF Late, At
    <3>9. QED
      BY <3>6, <3>8
  <2>9. QED
    BY <1>2, <2>7, <2>8 DEF Piles, Late
<1>7. QED
  BY <1>4, <1>6 DEF RInv

LEMMA TrickOverOrder ==
  ASSUME UInv, Seated, RInv, NEW i \in Present, TrickOver(i)
  PROVE  RInv'
<1>1. PICK m : LaysCard(i, m)
  BY DEF TrickOver, TrickTaken
<1>2. /\ SameTable /\ InTricks /\ InTricks' /\ ~Asleep' /\ ~srv.updating_score /\ ~srv'.updating_score
      /\ srv'.amount_scores_updated = srv.amount_scores_updated
      /\ board.pli_size + 1 = amount_players /\ board'.pli_size = 0
      /\ Playing' = Playing /\ cl' = cl /\ conn' = conn
  BY <1>1, CardArrives DEF TrickOver, TrickTaken, LaysCard, SameTable, SameSeats
<1>3. Counters'
  <2>1. srv.amount_scores_updated = 0
    BY <1>2 DEF RInv, Counters
  <2>2. QED
    BY <1>2, <2>1 DEF Counters
<1>4. ASSUME NEW c \in Clients
      PROVE  Newcomer(c)' /\ Piles(c)' /\ Late(c)'
  <2> PICK q : q = toClient[c]
    OBVIOUS
  <2> PICK t : t = toClient'[c]
    OBVIOUS
  <2> PICK a : a = Trick(i)
    OBVIOUS
  <2> PICK b : b = Ask
    OBVIOUS
  <2> PICK p \in BOOLEAN : p <=> c = Player(TrickLoser(i))
    OBVIOUS
  <2>1. a.code = "ADD_PLI" /\ b.code = "ASK_FOR_CARD"
    BY DEF Trick, Ask
  <2>2. t = Push(Push(q, p, a), p, b) /\ IsQueue(q)
    BY QueuesOf DEF TrickOver, Push
  <2>3. Sent(t, q, p, a, p, b)
    BY <2>2, SentTwo
  <2>4. Count(t, "ADD_SCORE") = Count(q, "ADD_SCORE") /\ Count(t, "ECARTS") = Count(q, "ECARTS")
    BY <2>1, <2>3 DEF Sent
  <2>5. /\ Count(toServer'[c], "UPDATE_SCORE") = Count(toServer[c], "UPDATE_SCORE")
        /\ c \notin Playing => toServer'[c] = toServer[c]
    BY <1>1, CardArrives
  <2>6. Newcomer(c) /\ Piles(c) /\ Late(c)
    BY DEF RInv
  <2>7. Newcomer(c)'
    BY <1>2, <2>5, <2>6 DEF Newcomer, At
  <2>8. ASSUME c \in Playing PROVE Piles(c)' /\ Late(c)'
    <3>1. ScoreDue(c) = 0 /\ ScoreDue(c)' = ScoreDue(c)
      BY <1>2, <2>4, <2>5, <2>6, <2>8 DEF ScoreDue, Piles
    <3>2. Count(q, "ADD_SCORE") = 0
      <4>1. Count(q, "ADD_SCORE") \in Nat /\ Count(toServer[c], "UPDATE_SCORE") \in Nat
        BY QueuesOf, KindFinite
      <4>2. QED
        BY <3>1, <4>1 DEF ScoreDue
    <3>3. NoneBehind(q, "ADD_PLI", "ADD_SCORE")
      BY <2>6, <2>8 DEF Piles
    <3>4. NoneBehind(Push(Push(q, p, a), p, b), "ADD_PLI", "ADD_SCORE")
      BY <2>1, <2>2, <3>2, <3>3, BehindTwo
    <3>5. NoneBehind(t, "ADD_PLI", "ADD_SCORE")
      BY <2>2, <3>4
    <3>6. Piles(c)'
      BY <1>2, <3>1, <3>5 DEF Piles, NoPile
    <3>7. Count(q, "ECARTS") = 0
      BY <1>1, <1>2, <2>8, AllPlayed
    <3>8. Count(t, "ECARTS") = 0 /\ IsQueue(t)
      BY <2>3, <2>4, <3>7 DEF Sent
    <3>9. NoneBehind(t, "ECARTS", "ASK_FOR_CARD")
      BY <3>8, NoneBehindNone
    <3>10. ~cl[c].waiting_for_ecart
      BY <1>2, <2>6, <2>8, <3>7 DEF Late
    <3>11. Late(c)'
      BY <1>2, <3>8, <3>9, <3>10 DEF Late
    <3>12. QED
      BY <3>6, <3>11
  <2>9. QED
    BY <1>2, <2>7, <2>8 DEF Piles, Late
<1>5. QED
  BY <1>3, <1>4 DEF RInv

LEMMA RoundEndsOrder ==
  ASSUME UInv, Seated, RInv, NEW i \in Present, RoundEnds(i)
  PROVE  RInv'
<1>1. PICK m : LaysCard(i, m)
  BY DEF RoundEnds, TrickTaken
<1>2. /\ SameTable /\ InTricks /\ ~srv.updating_score /\ srv'.updating_score = TRUE
      /\ srv'.amount_turn = 0
      /\ srv'.amount_scores_updated = srv.amount_scores_updated
      /\ board.pli_size + 1 = amount_players /\ board'.pli_size = 0
      /\ Playing' = Playing /\ cl' = cl /\ conn' = conn
  BY <1>1, CardArrives DEF RoundEnds, TrickTaken, LaysCard, SameTable, SameSeats
<1>3. ~InTricks'
  BY <1>2 DEF InTricks
<1>4. ASSUME NEW c \in Clients
      PROVE  Newcomer(c)' /\ Piles(c)' /\ Late(c)' /\ (c \in Playing => ScoreDue(c)' = 1)
  <2> PICK q : q = toClient[c]
    OBVIOUS
  <2> PICK t : t = toClient'[c]
    OBVIOUS
  <2> PICK a : a = Trick(i)
    OBVIOUS
  <2> PICK b : b = Msg("ADD_SCORE")
    OBVIOUS
  <2> PICK r \in BOOLEAN : r <=> c = Player(TrickLoser(i))
    OBVIOUS
  <2> PICK p \in BOOLEAN : p <=> c \in Playing
    OBVIOUS
  <2> PICK u : u = Push(Push(q, r, a), p, b)
    OBVIOUS
  <2>1. a.code = "ADD_PLI" /\ b.code = "ADD_SCORE"
    BY DEF Trick, Msg
  <2>2. IsQueue(q)
    BY QueuesOf
  <2>3. t = u \/ \E e : e.code = "END_GAME" /\ t = Push(u, p, e)
    BY DEF RoundEnds, Push
  <2>4. Sent(u, q, r, a, p, b)
    BY <2>2, SentTwo
  <2>5. /\ Count(u, "ADD_SCORE") = Count(q, "ADD_SCORE") + (IF p THEN 1 ELSE 0)
        /\ Count(u, "ECARTS") = Count(q, "ECARTS")
        /\ IsQueue(u)
    BY <2>1, <2>4 DEF Sent
  <2>6. IsQueue(t) /\ Count(t, "ADD_SCORE") = Count(u, "ADD_SCORE") /\ Count(t, "ECARTS") = Count(u, "ECARTS")
    <3>1. ASSUME NEW e, e.code = "END_GAME", t = Push(u, p, e)
          PROVE  IsQueue(t) /\ Count(t, "ADD_SCORE") = Count(u, "ADD_SCORE")
                 /\ Count(t, "ECARTS") = Count(u, "ECARTS")
      <4>1. WithMore(Push(u, p, e), u, e.code, IF p THEN 1 ELSE 0)
        BY <2>5, Added
      <4>2. WithMore(t, u, e.code, IF p THEN 1 ELSE 0)
        BY <3>1, <4>1
      <4>3. QED
        BY <3>1, <4>2 DEF WithMore
    <3>2. QED
      BY <2>3, <2>5, <3>1
  <2>7. /\ Count(toServer'[c], "UPDATE_SCORE") = Count(toServer[c], "UPDATE_SCORE")
        /\ c \notin Playing => toServer'[c] = toServer[c]
    BY <1>1, CardArrives
  <2>8. Newcomer(c) /\ Piles(c) /\ Late(c)
    BY DEF RInv
  <2>9. Newcomer(c)'
    BY <1>2, <2>7, <2>8 DEF Newcomer, At
  <2>10. ASSUME c \in Playing PROVE Piles(c)' /\ Late(c)' /\ ScoreDue(c)' = 1
    <3>1. ScoreDue(c) = 0
      BY <1>2, <2>8, <2>10 DEF Piles
    <3>2. Count(q, "ADD_SCORE") = 0 /\ Count(toServer[c], "UPDATE_SCORE") = 0
      <4>1. Count(q, "ADD_SCORE") \in Nat /\ Count(toServer[c], "UPDATE_SCORE") \in Nat
        BY QueuesOf, KindFinite
      <4>2. QED
        BY <3>1, <4>1 DEF ScoreDue
    <3>3. Count(t, "ADD_SCORE") = 1 /\ ScoreDue(c)' = 1
      BY <2>5, <2>6, <2>7, <2>10, <3>2 DEF ScoreDue
    <3>4. NoneBehind(q, "ADD_PLI", "ADD_SCORE")
      BY <2>8, <2>10 DEF Piles
    <3>5. NoneBehind(u, "ADD_PLI", "ADD_SCORE")
      <4>1. NoneBehind(Push(Push(q, r, a), p, b), "ADD_PLI", "ADD_SCORE")
        BY <2>1, <2>2, <3>2, <3>4, BehindTwo
      <4>2. QED
        BY <4>1
    <3>6. NoneBehind(t, "ADD_PLI", "ADD_SCORE")
      <4>1. ASSUME NEW e, e.code = "END_GAME", t = Push(u, p, e)
            PROVE  NoneBehind(t, "ADD_PLI", "ADD_SCORE")
        <5>1. e.code # "ADD_PLI"
          BY <4>1
        <5>2. NoneBehind(Push(u, p, e), "ADD_PLI", "ADD_SCORE")
          BY <2>5, <3>5, <5>1, PushBehind
        <5>3. QED
          BY <4>1, <5>2
      <4>2. QED
        BY <2>3, <3>5, <4>1
    <3>7. ~NoPile(c)'
      BY <1>2, <3>3 DEF NoPile
    <3>8. Piles(c)'
      BY <1>2, <3>3, <3>6, <3>7 DEF Piles
    <3>9. Count(t, "ECARTS") = 0
      BY <1>1, <1>2, <2>5, <2>6, <2>10, AllPlayed
    <3>10. NoneBehind(t, "ECARTS", "ASK_FOR_CARD")
      BY <2>6, <3>9, NoneBehindNone
    <3>11. Late(c)'
      BY <1>3, <3>9, <3>10 DEF Late
    <3>12. QED
      BY <3>3, <3>8, <3>11
  <2>11. QED
    BY <1>2, <2>9, <2>10 DEF Piles, Late
<1>5. Counters'
  <2>1. srv.amount_scores_updated = 0
    BY <1>2 DEF RInv, Counters
  <2>2. {c \in Playing : ScoreDue(c) = 0}' = {}
    BY <1>2, <1>4, SeatFacts DEF UInv
  <2>3. Cardinality({}) = 0
    BY FS_EmptySet
  <2>4. QED
    BY <1>2, <1>3, <2>1, <2>2, <2>3 DEF Counters
<1>6. QED
  BY <1>4, <1>5 DEF RInv

-----------------------------------------------------------------------------
LEMMA RInvServer ==
  ASSUME UInv, Seated, RInv, ServerNext
  PROVE  RInv'
<1>1. ServerMoves
  BY ServerSteps
<1>2. ASSUME NEW perm \in Shuffles, NEW papayoo \in Suits, Deals(perm, papayoo) PROVE RInv'
  BY <1>2, DealsOrder
<1>3. ASSUME NEW i \in Present, SignsUp(i) \/ Informs(i) \/ GetsEcart(i) PROVE RInv'
  BY <1>3, HearsStepOrder
<1>4. ASSUME NEW i \in Present, CountsScore(i) PROVE RInv'
  BY <1>4, CountsScoreOrder
<1>5. ASSUME NEW i \in Present, TrickGoes(i) PROVE RInv'
  BY <1>5, TrickGoesOrder
<1>6. ASSUME NEW i \in Present, TrickOver(i) PROVE RInv'
  BY <1>6, TrickOverOrder
<1>7. ASSUME NEW i \in Present, RoundEnds(i) PROVE RInv'
  BY <1>7, RoundEndsOrder
<1>8. ASSUME NEW d \in Clients, Refuses(d) \/ Admits(d) PROVE RInv'
  BY <1>8, LobbyOrder
<1>9. ASSUME Idles PROVE RInv'
  BY <1>9, IdlesOrder
<1>10. ASSUME SendsBack PROVE RInv'
  BY <1>10, SendsBackOrder
<1>11. ASSUME Clears PROVE RInv'
  BY <1>11, ClearsOrder
<1>12. QED
  BY <1>1, <1>2, <1>3, <1>4, <1>5, <1>6, <1>7, <1>8, <1>9, <1>10, <1>11 DEF ServerMoves

LEMMA RInvInit == Init => RInv
<1> SUFFICES ASSUME Init PROVE RInv
  OBVIOUS
<1>1. /\ Playing = {} /\ ~srv.game_running /\ ~srv.updating_score
      /\ srv.amount_turn = 0 /\ srv.amount_scores_updated = 0
  BY DEF Init, ServerInit, Playing
<1>2. \A c \in Clients : /\ toServer[c] = <<>> /\ cl[c].plis = <<>> /\ conn[c] # "backlog"
  BY DEF Init, NetworkInit, ClientInit
<1>3. Counters
  BY <1>1 DEF Counters, InTricks
<1>4. QED
  BY <1>1, <1>2, <1>3 DEF RInv, Newcomer, Piles, Late

LEMMA RInvStutter == ASSUME RInv, UNCHANGED vars PROVE RInv'
<1>1. UNCHANGED network /\ UNCHANGED <<players, alarm, srv, board, loop, hist>> /\ cl' = cl
  BY DEF vars, serverVars, clientVars
<1>2. UNCHANGED <<conn, toClient, toServer, players, srv, board, loop, hist, cl>>
  BY <1>1 DEF network
<1>3. /\ Playing' = Playing /\ amount_players' = amount_players /\ (Asleep' <=> Asleep)
      /\ Present' = Present
  BY <1>2 DEF Playing, amount_players, Present, Asleep
<1>4. \A c : SeatOf(c)' = SeatOf(c)
  BY <1>2, <1>3 DEF SeatOf, Player
<1>5. \A c \in Clients : /\ ScoreDue(c)' = ScoreDue(c) /\ (OnBoard(c)' <=> OnBoard(c))
                         /\ (At(c, "greet")' <=> At(c, "greet")) /\ (At(c, "play")' <=> At(c, "play"))
  BY <1>2, <1>4 DEF ScoreDue, OnBoard, At
<1>6. InTricks' <=> InTricks
  BY <1>2, <1>3 DEF InTricks
<1>7. {c \in Playing : ScoreDue(c) = 0}' = {c \in Playing : ScoreDue(c) = 0}
  BY <1>2, <1>3 DEF ScoreDue
<1>8. Counters'
  BY <1>2, <1>3, <1>6, <1>7 DEF RInv, Counters
<1>9. ASSUME NEW c \in Clients PROVE Newcomer(c)' /\ Piles(c)' /\ Late(c)'
  <2>1. Newcomer(c) /\ Piles(c) /\ Late(c)
    BY DEF RInv
  <2>2. NoPile(c)' <=> NoPile(c)
    BY <1>2, <1>3, <1>6 DEF NoPile
  <2>3. Newcomer(c)'
    BY <1>2, <1>3, <1>5, <2>1 DEF Newcomer
  <2>4. Piles(c)'
    BY <1>2, <1>3, <1>5, <2>1, <2>2 DEF Piles
  <2>5. Late(c)'
    BY <1>2, <1>3, <1>5, <1>6, <2>1 DEF Late
  <2>6. QED
    BY <2>3, <2>4, <2>5
<1>10. QED
  BY <1>8, <1>9 DEF RInv

LEMMA RInvNext == ASSUME Undisturbed, UInv, UInv', Seated, RInv, [Next]_vars PROVE RInv'
<1>1. CASE ServerNext
  BY <1>1, RInvServer
<1>2. CASE ClientNext
  <2>1. PICK c \in Clients : Alone(c) /\ Moves(c)
    BY <1>2, ClientMoves
  <2>2. QED
    BY <2>1, RInvClient
<1>3. CASE UNCHANGED vars
  BY <1>3, RInvStutter
<1>4. QED
  BY <1>1, <1>2, <1>3 DEF Next

\* The messages of a round keep their order all along.
LEMMA OrderCourse == ASSUME Undisturbed PROVE Spec => [](Seated /\ UInv /\ TInv /\ RInv)
<1>1. Init => RInv
  BY RInvInit
<1>2. (Seated /\ UInv /\ TInv) /\ (Seated /\ UInv /\ TInv)' /\ RInv /\ [Next]_vars => RInv'
  BY RInvNext
<1>3. QED
  BY <1>1, <1>2, TypedCourse, PTL DEF Spec
=============================================================================
