--------------------------- MODULE Papayoo_proofs ---------------------------
(***************************************************************************)
(* Proofs about Papayoo: what holds whatever the clients do, the lemmas    *)
(* about queues and cards that all proofs about the game rest on, and the  *)
(* course of a game that nobody leaves and in which nobody makes the       *)
(* client send its last message again; for any number of clients, seats,   *)
(* tricks and rounds.                                                      *)
(***************************************************************************)
EXTENDS Papayoo, FiniteSetTheorems, SequenceTheorems, WellFoundedInduction, TLAPS

-----------------------------------------------------------------------------
(* Queues: what is appended to a queue or taken from it changes the number *)
(* of the messages of each kind by as much.                                *)

IsQueue(q) == q \in Seq(ToSet(q))

Kind(q, code) == {k \in DOMAIN q : q[k].code = code}

LEMMA Queue == ASSUME NEW S, NEW q \in Seq(S) PROVE IsQueue(q)
<1> DEFINE T == ToSet(q)
<1>1. \A k \in DOMAIN q : q[k] \in T
  BY DEF ToSet
<1> HIDE DEF T
<1>2. q \in Seq(T)
  BY <1>1
<1>3. QED
  BY <1>2 DEF IsQueue, T

LEMMA ShortQueues == /\ IsQueue(<<>>)
                     /\ \A m : IsQueue(<<m>>)
                     /\ \A m1, m2 : IsQueue(<<m1, m2>>)
<1>1. \A m1, m2 : <<>> \in Seq({m1}) /\ <<m1>> \in Seq({m1}) /\ <<m1, m2>> \in Seq({m1, m2})
  OBVIOUS
<1>2. QED
  BY <1>1, Queue

LEMMA QueueLen == ASSUME NEW q, IsQueue(q)
                  PROVE  Len(q) \in Nat /\ DOMAIN q = 1..Len(q) /\ (q = <<>> <=> Len(q) = 0)
  BY DEF IsQueue

\* What a queue is after something has been appended to it.
LEMMA QueueCat ==
  ASSUME NEW s, NEW t, IsQueue(s), IsQueue(t)
  PROVE  /\ IsQueue(s \o t)
         /\ Len(s \o t) = Len(s) + Len(t)
         /\ \A k \in 1..Len(s) : (s \o t)[k] = s[k]
         /\ \A k \in 1..Len(t) : (s \o t)[k + Len(s)] = t[k]
<1> DEFINE S == ToSet(s)
           T == ToSet(t)
<1>1. s \in Seq(S) /\ t \in Seq(T)
  BY DEF IsQueue
<1>2. /\ \A k \in DOMAIN s : s[k] \in S \cup T
      /\ \A k \in DOMAIN t : t[k] \in S \cup T
  BY DEF ToSet
<1> HIDE DEF S, T
<1>3. s \in Seq(S \cup T) /\ t \in Seq(S \cup T)
  BY <1>1, <1>2
<1>4. s \o t \in Seq(S \cup T)
  BY <1>3
<1>5. IsQueue(s \o t)
  BY <1>4, Queue
<1>6. QED
  BY <1>3, <1>5

LEMMA QueueAppend == ASSUME NEW q, IsQueue(q), NEW m
                     PROVE  IsQueue(Append(q, m)) /\ Append(q, m) = q \o <<m>>
<1>1. Append(q, m) = q \o <<m>>
  BY DEF IsQueue
<1>2. QED
  BY <1>1, QueueCat, ShortQueues

\* What a queue is after its first message has been received.
LEMMA QueueTail ==
  ASSUME NEW q, IsQueue(q), q # <<>>
  PROVE  /\ IsQueue(Tail(q))
         /\ Len(q) \in Nat \ {0} /\ Len(Tail(q)) = Len(q) - 1
         /\ Head(q) = q[1]
         /\ \A k \in 1..Len(q) - 1 : Tail(q)[k] = q[k + 1]
         /\ q = <<Head(q)>> \o Tail(q)
<1> DEFINE S == ToSet(q)
<1>1. q \in Seq(S)
  BY DEF IsQueue
<1> HIDE DEF S
<1>2. Tail(q) \in Seq(S)
  BY <1>1
<1>3. IsQueue(Tail(q))
  BY <1>2, Queue
<1>4. /\ Len(q) \in Nat \ {0} /\ Len(Tail(q)) = Len(q) - 1
      /\ Head(q) = q[1]
      /\ \A k \in 1..Len(q) - 1 : Tail(q)[k] = q[k + 1]
  BY <1>1
<1>5. q = <<Head(q)>> \o Tail(q)
  BY <1>1
<1>6. QED
  BY <1>3, <1>4, <1>5

LEMMA KindFinite == ASSUME NEW q, IsQueue(q), NEW code
                    PROVE  /\ IsFiniteSet(Kind(q, code))
                           /\ Count(q, code) = Cardinality(Kind(q, code))
                           /\ Count(q, code) \in Nat
<1>1. IsFiniteSet(1..Len(q)) /\ Kind(q, code) \in SUBSET (1..Len(q))
  <2>1. Len(q) \in Nat /\ DOMAIN q = 1..Len(q)
    BY QueueLen
  <2>2. IsFiniteSet(1..Len(q))
    BY <2>1, FS_Interval
  <2>3. QED
    BY <2>1, <2>2 DEF Kind
<1>2. IsFiniteSet(Kind(q, code))
  BY <1>1, FS_Subset
<1>3. QED
  BY <1>2, FS_CardinalityType DEF Count, Kind

\* A queue without messages of a kind, and one with some.
LEMMA CountNone == ASSUME NEW q, IsQueue(q), NEW code
                   PROVE  Count(q, code) = 0 <=> \A k \in 1..Len(q) : q[k].code # code
<1>1. Count(q, code) = 0 <=> Kind(q, code) = {}
  BY KindFinite, FS_EmptySet
<1>2. QED
  BY <1>1, QueueLen DEF Kind

LEMMA CountEmpty == ASSUME NEW code PROVE Count(<<>>, code) = 0
  BY CountNone, ShortQueues

LEMMA CountOne == ASSUME NEW m, NEW code
                  PROVE  Count(<<m>>, code) = IF m.code = code THEN 1 ELSE 0
<1>1. Kind(<<m>>, code) = IF m.code = code THEN {1} ELSE {}
  BY DEF Kind
<1>2. Count(<<m>>, code) = Cardinality(Kind(<<m>>, code))
  BY KindFinite, ShortQueues
<1>3. QED
  BY <1>1, <1>2, FS_EmptySet, FS_Singleton

\* There is at most one message of a kind: any two are the same.
LEMMA CountAtMostOne ==
  ASSUME NEW q, IsQueue(q), NEW code, Count(q, code) \in {0, 1},
         NEW j \in 1..Len(q), NEW k \in 1..Len(q), q[j].code = code, q[k].code = code
  PROVE  j = k
<1>1. j \in Kind(q, code) /\ k \in Kind(q, code)
  BY QueueLen DEF Kind
<1>2. Cardinality(Kind(q, code)) = 1
  BY <1>1, KindFinite, FS_EmptySet
<1>3. PICK x : Kind(q, code) = {x}
  BY <1>2, KindFinite, FS_Singleton
<1>4. QED
  BY <1>1, <1>3

LEMMA CountCat == ASSUME NEW s, NEW t, IsQueue(s), IsQueue(t), NEW code
                  PROVE  Count(s \o t, code) = Count(s, code) + Count(t, code)
<1> DEFINE A == Kind(s, code)
           B == {k + Len(s) : k \in Kind(t, code)}
           f == [k \in Kind(t, code) |-> k + Len(s)]
<1>1. /\ DOMAIN (s \o t) = 1..Len(s) + Len(t)
      /\ Len(s) \in Nat /\ Len(t) \in Nat
      /\ DOMAIN s = 1..Len(s) /\ DOMAIN t = 1..Len(t)
  BY QueueCat, QueueLen
<1>2. Kind(s \o t, code) = A \cup B
  <2>1. ASSUME NEW k \in 1..Len(s) + Len(t) PROVE k \in Kind(s \o t, code) <=> k \in A \cup B
    <3>1. CASE k <= Len(s)
      <4>1. k \in 1..Len(s) /\ k \notin B
        BY <1>1, <3>1 DEF Kind
      <4>2. QED
        BY <4>1, <1>1, QueueCat DEF Kind
    <3>2. CASE k > Len(s)
      <4>1. k - Len(s) \in 1..Len(t) /\ k = (k - Len(s)) + Len(s) /\ k \notin A
        BY <1>1, <3>2 DEF Kind
      <4>2. (s \o t)[k] = t[k - Len(s)]
        BY <4>1, QueueCat
      <4>3. k \in B <=> k - Len(s) \in Kind(t, code)
        BY <4>1, <1>1 DEF Kind
      <4>4. QED
        BY <4>1, <4>2, <4>3, <1>1 DEF Kind
    <3>3. QED
      BY <3>1, <3>2, <1>1
  <2>2. Kind(s \o t, code) \subseteq 1..Len(s) + Len(t) /\ A \cup B \subseteq 1..Len(s) + Len(t)
    BY <1>1 DEF Kind
  <2>3. QED
    BY <2>1, <2>2
<1>3. A \cap B = {}
  BY <1>1 DEF Kind
<1>4. f \in Bijection(Kind(t, code), B)
  BY <1>1 DEF Kind, Bijection, Injection, Surjection, IsInjective
<1>5. IsFiniteSet(B) /\ Cardinality(B) = Count(t, code)
  BY <1>4, KindFinite, FS_Bijection DEF ExistsBijection
<1>6. Cardinality(A \cup B) = Count(s, code) + Count(t, code)
  <2>1. /\ IsFiniteSet(A) /\ Cardinality(A) = Count(s, code)
        /\ Count(s, code) \in Nat /\ Count(t, code) \in Nat
    BY KindFinite
  <2> HIDE DEF A, B
  <2>2. Cardinality(A \cup B) = Cardinality(A) + Cardinality(B) - Cardinality(A \cap B)
    BY <2>1, <1>5, FS_Union
  <2>3. Cardinality(A \cap B) = 0
    BY <1>3, FS_EmptySet
  <2>4. QED
    BY <2>1, <2>2, <2>3, <1>5
<1>7. QED
  BY <1>2, <1>6, QueueCat, KindFinite

LEMMA CountTail == ASSUME NEW q, IsQueue(q), q # <<>>, NEW code
                   PROVE  Count(q, code) = Count(Tail(q), code)
                                           + (IF Head(q).code = code THEN 1 ELSE 0)
<1>1. Count(q, code) = Count(<<Head(q)>>, code) + Count(Tail(q), code)
  <2> DEFINE h == <<Head(q)>>
             t == Tail(q)
  <2>1. IsQueue(h) /\ IsQueue(t) /\ q = h \o t
    BY QueueTail, ShortQueues
  <2> HIDE DEF h, t
  <2>2. Count(h \o t, code) = Count(h, code) + Count(t, code)
    BY <2>1, CountCat
  <2>3. QED
    BY <2>1, <2>2 DEF h, t
<1>2. QED
  BY <1>1, CountOne, KindFinite, QueueTail

\* A sequence without its k-th element.
LEMMA RemoveAtSeq ==
  ASSUME NEW S, NEW s \in Seq(S), NEW k \in 1..Len(s)
  PROVE  RemoveAt(s, k) \in Seq(S) /\ Len(RemoveAt(s, k)) = Len(s) - 1
<1> DEFINE a == SubSeq(s, 1, k - 1)
           b == SubSeq(s, k + 1, Len(s))
<1>1. \A j \in 1..Len(s) : s[j] \in S
  BY ElementOfSeq
<1>2. a \in Seq(S) /\ Len(a) = k - 1
  BY <1>1, SubSeqProperties
<1>3. b \in Seq(S) /\ Len(b) = Len(s) - k
  BY <1>1, SubSeqProperties
<1>4. RemoveAt(s, k) = a \o b
  BY DEF RemoveAt
<1> HIDE DEF a, b
<1>5. a \o b \in Seq(S) /\ Len(a \o b) = Len(a) + Len(b)
  BY <1>2, <1>3, ConcatProperties
<1>6. QED
  BY <1>2, <1>3, <1>4, <1>5

-----------------------------------------------------------------------------
(* Who takes a trick.  Loser is defined by recursion over the cards on the *)
(* board; the recursion is resolved by a smallest counterexample.          *)

\* One turn of the loop of end_turn: the best card of 0..i, b being that of 0..i - 1.
Better(pli, i, b) == IF /\ pli[i].card.type = pli[0].card.type
                        /\ pli[i].card.number > pli[b].card.number
                     THEN i ELSE b

\* f[i] is the best card of 0..i, as the loop finds it.
IsBest(pli, n, f) ==
  f = [i \in 0..n - 1 |-> IF i = 0 THEN 0 ELSE Better(pli, i, f[i - 1])]

LEMMA Smallest == ASSUME NEW S, S \subseteq Nat, S # {}
                  PROVE  \E m \in S : \A k \in S : ~(k < m)
<1>1. PICK x \in S : \A y \in S : ~(<<y, x>> \in OpToRel(<, Nat))
  BY NatLessThanWellFounded, WFMin
<1>2. QED
  BY <1>1 DEF OpToRel

LEMMA BestExists == ASSUME NEW pli, NEW n \in Nat \ {0}
                    PROVE  \E f : IsBest(pli, n, f)
<1> DEFINE Bad == {m \in Nat : ~ \E f : IsBest(pli, m + 1, f)}
<1>1. Bad = {}
  <2> SUFFICES ASSUME Bad # {} PROVE FALSE
    OBVIOUS
  <2>1. PICK m \in Bad : \A k \in Bad : ~(k < m)
    <3>1. Bad \subseteq Nat
      OBVIOUS
    <3> HIDE DEF Bad
    <3>2. QED
      BY <3>1, Smallest
  <2>2. m # 0
    <3>1. IsBest(pli, 1, [i \in 0..0 |-> 0])
      BY DEF IsBest
    <3>2. QED
      BY <3>1
  <2>3. m - 1 \in Nat /\ m - 1 \notin Bad
    BY <2>1, <2>2
  <2>4. PICK f : IsBest(pli, m, f)
    BY <2>3
  <2>5. IsBest(pli, m + 1, [i \in 0..m |-> IF i = m THEN Better(pli, i, f[i - 1]) ELSE f[i]])
    BY <2>2, <2>4 DEF IsBest
  <2>6. QED
    BY <2>5
<1>2. n - 1 \in Nat /\ (n - 1) + 1 = n
  OBVIOUS
<1>3. QED
  BY <1>1, <1>2

\* The card f[i] follows suit, and beats those of its suit before and up to i.
Takes(pli, i, k) == /\ k \in 0..i
                    /\ pli[k].card.type = pli[0].card.type
                    /\ \A j \in 0..i : pli[j].card.type = pli[0].card.type
                                         => pli[j].card.number <= pli[k].card.number

LEMMA BestTakes ==
  ASSUME NEW pli, NEW n \in Nat \ {0}, NEW f, IsBest(pli, n, f),
         \A k \in 0..n - 1 : pli[k].card.number \in Nat
  PROVE  Takes(pli, n - 1, f[n - 1])
<1> DEFINE Bad == {m \in Nat : m < n /\ ~Takes(pli, m, f[m])}
<1>1. Bad = {}
  <2> SUFFICES ASSUME Bad # {} PROVE FALSE
    OBVIOUS
  <2>1. PICK m \in Bad : \A k \in Bad : ~(k < m)
    <3>1. Bad \subseteq Nat
      OBVIOUS
    <3> HIDE DEF Bad
    <3>2. QED
      BY <3>1, Smallest
  <2>2. m # 0
    BY DEF IsBest, Takes
  <2>3. Takes(pli, m - 1, f[m - 1])
    BY <2>1, <2>2
  <2>4. f[m] = Better(pli, m, f[m - 1])
    BY <2>2 DEF IsBest
  <2>5. Takes(pli, m, f[m])
    BY <2>2, <2>3, <2>4 DEF Takes, Better
  <2>6. QED
    BY <2>5
<1>2. QED
  BY <1>1

\* The trick is taken by who played the highest card of the suit that was led,
\* whichever cards lie on the board.
THEOREM HighestOfSuitTakes ==
  ASSUME NEW pli, NEW n \in Nat \ {0},
         \A k \in 0..n - 1 : pli[k].card.number \in Nat
  PROVE  \E k \in 0..n - 1 : /\ Loser(pli, n) = pli[k].last_played
                             /\ pli[k].card.type = pli[0].card.type
                             /\ \A j \in 0..n - 1 : pli[j].card.type = pli[0].card.type
                                  => pli[j].card.number <= pli[k].card.number
<1> DEFINE best == CHOOSE f : IsBest(pli, n, f)
<1>1. IsBest(pli, n, best)
  BY BestExists
<1>2. Loser(pli, n) = pli[best[n - 1]].last_played
  BY DEF Loser, IsBest, Better
<1> HIDE DEF best
<1>3. QED
  BY <1>1, <1>2, BestTakes DEF Takes

\* Whatever its cards are, the trick is taken by one of those who played.
LEMMA LoserPlayed ==
  ASSUME NEW pli, NEW n \in Nat \ {0}
  PROVE  \E k \in 0..n - 1 : Loser(pli, n) = pli[k].last_played
<1> DEFINE best == CHOOSE f : IsBest(pli, n, f)
           Bad  == {m \in Nat : m < n /\ best[m] \notin 0..m}
<1>1. IsBest(pli, n, best)
  BY BestExists
<1>2. Loser(pli, n) = pli[best[n - 1]].last_played
  BY DEF Loser, IsBest, Better
<1> HIDE DEF best
<1>3. Bad = {}
  <2> SUFFICES ASSUME Bad # {} PROVE FALSE
    OBVIOUS
  <2>1. PICK m \in Bad : \A k \in Bad : ~(k < m)
    <3>1. Bad \subseteq Nat
      OBVIOUS
    <3> HIDE DEF Bad
    <3>2. QED
      BY <3>1, Smallest
  <2>2. m # 0
    BY <1>1 DEF IsBest
  <2>3. best[m - 1] \in 0..m - 1
    BY <2>1, <2>2
  <2>4. best[m] \in {m, best[m - 1]}
    BY <1>1, <2>2 DEF IsBest, Better
  <2>5. QED
    BY <2>3, <2>4
<1>4. QED
  BY <1>2, <1>3

-----------------------------------------------------------------------------
(* Sums, and the cards of a queue: recursion over a sequence.              *)

LEMMA UpTo == ASSUME NEW n \in Nat, NEW B, 0 \in B,
                     \A k \in 1..n : k - 1 \in B => k \in B
              PROVE  0..n \subseteq B
<1> DEFINE Bad == {m \in 0..n : m \notin B}
<1>1. Bad = {}
  <2> SUFFICES ASSUME Bad # {} PROVE FALSE
    OBVIOUS
  <2>1. PICK m \in Bad : \A k \in Bad : ~(k < m)
    <3>1. Bad \subseteq Nat
      OBVIOUS
    <3> HIDE DEF Bad
    <3>2. QED
      BY <3>1, Smallest
  <2>2. m \in 1..n /\ m - 1 \in 0..n /\ m - 1 < m
    BY <2>1
  <2>3. m - 1 \in B
    BY <2>1, <2>2
  <2>4. QED
    BY <2>1, <2>2, <2>3
<1>2. QED
  BY <1>1

\* s[k] is the sum of the first k numbers.
IsSum(f, n, s) == s = [k \in 0..n |-> IF k = 0 THEN 0 ELSE s[k - 1] + f[k]]

LEMMA SumExists == ASSUME NEW f, NEW n \in Nat PROVE \E s : IsSum(f, n, s)
<1> DEFINE B == {m \in 0..n : \E s : IsSum(f, m, s)}
<1>1. 0 \in B
  <2>1. IsSum(f, 0, [k \in 0..0 |-> 0])
    BY DEF IsSum
  <2>2. QED
    BY <2>1
<1>2. ASSUME NEW m \in 1..n, m - 1 \in B PROVE m \in B
  <2>1. PICK s : IsSum(f, m - 1, s)
    BY <1>2
  <2>2. IsSum(f, m, [k \in 0..m |-> IF k = m THEN s[m - 1] + f[m] ELSE s[k]])
    BY <1>2, <2>1 DEF IsSum
  <2>3. QED
    BY <2>2
<1> HIDE DEF B
<1>3. 0..n \subseteq B
  BY <1>1, <1>2, UpTo
<1>4. QED
  BY <1>3 DEF B

LEMMA SumStep == ASSUME NEW f, NEW n \in Nat, NEW s, IsSum(f, n, s)
                 PROVE  s[0] = 0 /\ \A k \in 1..n : s[k] = s[k - 1] + f[k]
<1>1. s = [k \in 0..n |-> IF k = 0 THEN 0 ELSE s[k - 1] + f[k]]
  BY DEF IsSum
<1> PICK t : t = s
  OBVIOUS
<1>2. s = [k \in 0..n |-> IF k = 0 THEN 0 ELSE t[k - 1] + f[k]]
  BY <1>1
<1>3. QED
  BY <1>2

LEMMA SumIs == ASSUME NEW f, Len(f) \in Nat
               PROVE  \E s : IsSum(f, Len(f), s) /\ SumOf(f) = s[Len(f)]
<1>1. SumOf(f) = (CHOOSE s : IsSum(f, Len(f), s))[Len(f)]
  BY DEF SumOf, IsSum
<1>2. QED
  BY <1>1, SumExists

LEMMA PartialSums == ASSUME NEW f \in Seq(Nat), NEW s, IsSum(f, Len(f), s)
                     PROVE  \A k \in 0..Len(f) : s[k] \in Nat
<1>1. /\ Len(f) \in Nat /\ s[0] = 0
      /\ \A k \in 1..Len(f) : s[k] = s[k - 1] + f[k]
  BY SumStep
<1> DEFINE B == {k \in 0..Len(f) : s[k] \in Nat}
<1>2. 0 \in B
  BY <1>1
<1>3. ASSUME NEW k \in 1..Len(f), k - 1 \in B PROVE k \in B
  <2>1. f[k] \in Nat
    BY ElementOfSeq
  <2>2. QED
    BY <1>1, <1>3, <2>1
<1> HIDE DEF B
<1>4. 0..Len(f) \subseteq B
  BY <1>1, <1>2, <1>3, UpTo
<1>5. QED
  BY <1>4 DEF B

LEMMA SumNat == ASSUME NEW f \in Seq(Nat) PROVE SumOf(f) \in Nat
<1>1. Len(f) \in Nat /\ Len(f) \in 0..Len(f)
  OBVIOUS
<1>2. PICK s : IsSum(f, Len(f), s) /\ SumOf(f) = s[Len(f)]
  BY <1>1, SumIs
<1>3. QED
  BY <1>1, <1>2, PartialSums

LEMMA SumCat == ASSUME NEW f \in Seq(Nat), NEW g \in Seq(Nat)
                PROVE  SumOf(f \o g) = SumOf(f) + SumOf(g)
<1> DEFINE fg == f \o g
           m == Len(f)
           n == Len(g)
<1>1. /\ m \in Nat /\ n \in Nat /\ fg \in Seq(Nat) /\ Len(fg) = m + n
      /\ \A k \in 1..m : fg[k] = f[k]
      /\ \A k \in 1..n : fg[m + k] = g[k]
  BY ConcatProperties
<1> HIDE DEF fg, m, n
<1>2. PICK s : IsSum(f, m, s) /\ SumOf(f) = s[m]
  BY <1>1, SumIs DEF m
<1>3. PICK t : IsSum(g, n, t) /\ SumOf(g) = t[n]
  BY <1>1, SumIs DEF n
<1>4. PICK u : IsSum(fg, m + n, u) /\ SumOf(fg) = u[m + n]
  <2>1. Len(fg) \in Nat
    BY <1>1
  <2>2. QED
    BY <1>1, <2>1, SumIs
<1>5. s[0] = 0 /\ \A k \in 1..m : s[k] = s[k - 1] + f[k]
  BY <1>1, <1>2, SumStep
<1>6. t[0] = 0 /\ \A k \in 1..n : t[k] = t[k - 1] + g[k]
  BY <1>1, <1>3, SumStep
<1>7. u[0] = 0 /\ \A k \in 1..m + n : u[k] = u[k - 1] + fg[k]
  <2>1. m + n \in Nat
    BY <1>1
  <2>2. QED
    BY <1>4, <2>1, SumStep
<1>8. (\A k \in 0..m : s[k] \in Nat) /\ \A k \in 0..n : t[k] \in Nat
  BY <1>2, <1>3, PartialSums DEF m, n
<1> DEFINE B == {k \in 0..m : u[k] = s[k]}
<1>9. 0..m \subseteq B
  <2>1. 0 \in B
    BY <1>1, <1>5, <1>7
  <2>2. ASSUME NEW k \in 1..m, k - 1 \in B PROVE k \in B
    <3>1. u[k] = u[k - 1] + fg[k] /\ s[k] = s[k - 1] + f[k] /\ fg[k] = f[k]
      BY <1>1, <1>5, <1>7
    <3>2. QED
      BY <2>2, <3>1
  <2> HIDE DEF B
  <2>3. QED
    BY <1>1, <2>1, <2>2, UpTo
<1> DEFINE C == {k \in 0..n : u[m + k] = s[m] + t[k]}
<1>10. 0..n \subseteq C
  <2>1. 0 \in C
    <3>1. m \in 0..m /\ 0 \in 0..n /\ m + 0 = m
      BY <1>1
    <3>2. u[m] = s[m] /\ s[m] \in Nat
      BY <1>8, <1>9, <3>1
    <3>3. QED
      BY <1>6, <3>1, <3>2
  <2>2. ASSUME NEW k \in 1..n, k - 1 \in C PROVE k \in C
    <3>1. m + k \in 1..m + n /\ (m + k) - 1 = m + (k - 1) /\ m \in 0..m /\ k - 1 \in 0..n /\ k \in 0..n
      BY <1>1
    <3>2. u[m + k] = u[m + (k - 1)] + fg[m + k] /\ fg[m + k] = g[k] /\ t[k] = t[k - 1] + g[k]
      BY <1>1, <1>6, <1>7, <3>1
    <3>3. u[m + (k - 1)] = s[m] + t[k - 1]
      BY <2>2
    <3>4. s[m] \in Nat /\ t[k - 1] \in Nat /\ t[k] \in Nat /\ g[k] \in Nat
      <4>1. g[k] \in Nat
        BY ElementOfSeq DEF n
      <4>2. QED
        BY <1>8, <3>1, <4>1
    <3>5. u[m + k] = s[m] + t[k]
      BY <3>2, <3>3, <3>4
    <3>6. QED
      BY <3>1, <3>5
  <2> HIDE DEF C
  <2>3. QED
    BY <1>1, <2>1, <2>2, UpTo
<1>11. u[m + n] = s[m] + t[n]
  <2>1. n \in 0..n
    BY <1>1
  <2>2. QED
    BY <1>10, <2>1
<1>12. QED
  BY <1>2, <1>3, <1>4, <1>11 DEF fg

LEMMA SumShort == SumOf(<<>>) = 0 /\ \A x \in Nat : SumOf(<<x>>) = x
<1>1. SumOf(<<>>) = 0
  <2>1. PICK s : IsSum(<<>>, Len(<<>>), s) /\ SumOf(<<>>) = s[Len(<<>>)]
    BY SumIs
  <2>2. QED
    BY <2>1, SumStep
<1>2. ASSUME NEW x \in Nat PROVE SumOf(<<x>>) = x
  <2>1. Len(<<x>>) = 1 /\ <<x>>[1] = x
    OBVIOUS
  <2>2. PICK s : IsSum(<<x>>, 1, s) /\ SumOf(<<x>>) = s[1]
    BY <2>1, SumIs
  <2>3. s[1] = s[0] + x /\ s[0] = 0
    BY <2>1, <2>2, SumStep
  <2>4. QED
    BY <2>2, <2>3
<1>3. QED
  BY <1>1, <1>2

\* The sequences of cards and their concatenation, known by their laws.
CardSeq == Seq(AnyCard)

Glue(x, y) == x \o y

LEMMA GlueLaws ==
  ASSUME NEW x \in CardSeq, NEW y \in CardSeq, NEW z \in CardSeq
  PROVE  /\ Glue(x, y) \in CardSeq
         /\ Glue(Glue(x, y), z) = Glue(x, Glue(y, z))
<1> DEFINE S == AnyCard
<1> HIDE DEF S
<1>1. CardSeq = Seq(S)
  BY DEF CardSeq, S
<1>2. x \in Seq(S) /\ y \in Seq(S) /\ z \in Seq(S)
  BY <1>1
<1>3. x \o y \in Seq(S)
  BY <1>2, ConcatProperties
<1>4. (x \o y) \o z = x \o (y \o z)
  <2> DEFINE l == (x \o y) \o z
             r == x \o (y \o z)
  <2>1. l \in Seq(S) /\ r \in Seq(S) /\ Len(l) = Len(r)
    BY <1>2, ConcatProperties
  <2>2. \A k \in 1..Len(l) : l[k] = r[k]
    BY <1>2, ConcatProperties
  <2> HIDE DEF l, r
  <2>3. l = r
    BY <2>1, <2>2, SeqEqual
  <2>4. QED
    BY <2>3 DEF l, r
<1>5. QED
  BY <1>1, <1>3, <1>4, Zenon DEF Glue

LEMMA GlueNothing ==
  /\ <<>> \in CardSeq
  /\ \A x \in CardSeq : Glue(<<>>, x) = x /\ Glue(x, <<>>) = x
<1>1. <<>> \in CardSeq
  BY DEF CardSeq
<1>2. ASSUME NEW x \in CardSeq PROVE <<>> \o x = x /\ x \o <<>> = x
  BY DEF CardSeq
<1>3. QED
  BY <1>1, <1>2, Zenon DEF Glue

\* cards[k] are the cards of the first k messages.
Cargo(q, code, k) == IF q[k].code = code THEN CardsOf(q[k]) ELSE <<>>

IsCargo(q, code, n, cards) ==
  cards = [k \in 0..n |-> IF k = 0 THEN <<>> ELSE Glue(cards[k - 1], Cargo(q, code, k))]

\* What the messages of a kind carry are sequences of cards.
Carries(q, code) == \A k \in 1..Len(q) : q[k].code = code => CardsOf(q[k]) \in CardSeq

LEMMA CargoStep ==
  ASSUME NEW q, NEW code, NEW n \in Nat, NEW s, IsCargo(q, code, n, s)
  PROVE  s[0] = <<>> /\ \A k \in 1..n : s[k] = Glue(s[k - 1], Cargo(q, code, k))
<1> PICK t : t = s
  OBVIOUS
<1> PICK g : g = [k \in 0..n |-> IF k = 0 THEN <<>> ELSE Glue(t[k - 1], Cargo(q, code, k))]
  OBVIOUS
<1>1. s = g
  BY DEF IsCargo
<1>2. g[0] = <<>> /\ \A k \in 1..n : g[k] = Glue(t[k - 1], Cargo(q, code, k))
  OBVIOUS
<1>3. QED
  BY <1>1, <1>2

LEMMA CargoExists == ASSUME NEW q, NEW code, NEW n \in Nat
                     PROVE  \E s : IsCargo(q, code, n, s)
<1> DEFINE B == {m \in 0..n : \E s : IsCargo(q, code, m, s)}
<1>1. 0 \in B
  <2>1. IsCargo(q, code, 0, [k \in 0..0 |-> <<>>])
    BY DEF IsCargo
  <2>2. QED
    BY <2>1
<1>2. ASSUME NEW m \in 1..n, m - 1 \in B PROVE m \in B
  <2>1. PICK s : IsCargo(q, code, m - 1, s)
    BY <1>2
  <2> PICK x : x = Glue(s[m - 1], Cargo(q, code, m))
    OBVIOUS
  <2> PICK t : t = [k \in 0..m |-> IF k = m THEN x ELSE s[k]]
    OBVIOUS
  <2>2. s[0] = <<>> /\ \A k \in 1..m - 1 : s[k] = Glue(s[k - 1], Cargo(q, code, k))
    BY <1>2, <2>1, CargoStep
  <2>3. t[0] = <<>> /\ \A k \in 1..m : t[k] = Glue(t[k - 1], Cargo(q, code, k))
    <3>1. t[0] = <<>> /\ t[m] = x /\ t[m - 1] = s[m - 1]
      BY <1>2, <2>2
    <3>2. \A k \in 1..m - 1 : t[k] = s[k] /\ t[k - 1] = s[k - 1]
      BY <1>2
    <3>3. ASSUME NEW k \in 1..m PROVE k = m \/ k \in 1..m - 1
      BY <1>2
    <3>4. QED
      BY <2>2, <3>1, <3>2, <3>3
  <2>4. t = [k \in 0..m |-> t[k]] /\ \A k \in 0..m : k = 0 \/ k \in 1..m
    BY <1>2
  <2> PICK y : y = [k \in 0..m |-> IF k = 0 THEN <<>> ELSE Glue(t[k - 1], Cargo(q, code, k))]
    OBVIOUS
  <2>5. y = t
    <3>1. \A k \in 0..m : y[k] = t[k]
      BY <2>3, <2>4
    <3>2. QED
      BY <2>4, <3>1
  <2>6. IsCargo(q, code, m, t)
    BY <2>5 DEF IsCargo
  <2>7. QED
    BY <2>6
<1> HIDE DEF B
<1>3. 0..n \subseteq B
  BY <1>1, <1>2, UpTo
<1>4. QED
  BY <1>3 DEF B

LEMMA CargoIs == ASSUME NEW q, NEW code, Len(q) \in Nat
                 PROVE  \E s : IsCargo(q, code, Len(q), s) /\ CardsIn(q, code) = s[Len(q)]
<1>1. CardsIn(q, code) = (CHOOSE s : IsCargo(q, code, Len(q), s))[Len(q)]
  BY DEF CardsIn, IsCargo, Cargo, Glue
<1>2. QED
  BY <1>1, CargoExists

LEMMA CargoSeq ==
  ASSUME NEW q, NEW code, Len(q) \in Nat, Carries(q, code),
         NEW s, IsCargo(q, code, Len(q), s)
  PROVE  /\ \A k \in 0..Len(q) : s[k] \in CardSeq
         /\ \A k \in 1..Len(q) : Cargo(q, code, k) \in CardSeq
<1>1. s[0] = <<>> /\ \A k \in 1..Len(q) : s[k] = Glue(s[k - 1], Cargo(q, code, k))
  BY CargoStep
<1>2. \A k \in 1..Len(q) : Cargo(q, code, k) \in CardSeq
  BY GlueNothing DEF Carries, Cargo
<1> DEFINE B == {k \in 0..Len(q) : s[k] \in CardSeq}
<1>3. 0 \in B
  <2>1. 0 \in 0..Len(q) /\ <<>> \in CardSeq
    BY GlueNothing
  <2>2. QED
    BY <1>1, <2>1
<1>4. ASSUME NEW k \in 1..Len(q), k - 1 \in B PROVE k \in B
  <2>1. s[k - 1] \in CardSeq /\ Cargo(q, code, k) \in CardSeq
    BY <1>2, <1>4
  <2>2. Glue(s[k - 1], Cargo(q, code, k)) \in CardSeq
    BY <2>1, GlueLaws
  <2>3. k \in 0..Len(q) /\ s[k] = Glue(s[k - 1], Cargo(q, code, k))
    BY <1>1
  <2>4. QED
    BY <2>2, <2>3
<1> HIDE DEF B
<1>5. 0..Len(q) \subseteq B
  BY <1>3, <1>4, UpTo
<1>6. QED
  BY <1>2, <1>5 DEF B

LEMMA CardsInSeq ==
  ASSUME NEW q, NEW code, IsQueue(q), Carries(q, code)
  PROVE  CardsIn(q, code) \in CardSeq
<1>1. Len(q) \in Nat /\ Len(q) \in 0..Len(q)
  BY QueueLen
<1>2. PICK s : IsCargo(q, code, Len(q), s) /\ CardsIn(q, code) = s[Len(q)]
  BY <1>1, CargoIs
<1>3. QED
  BY <1>1, <1>2, CargoSeq

\* The cards of a queue to which another has been appended.
LEMMA CardsInCat ==
  ASSUME NEW q, NEW r, NEW code, IsQueue(q), IsQueue(r),
         Carries(q, code), Carries(r, code), NEW qr, qr = Glue(q, r)
  PROVE  /\ CardsIn(qr, code) = Glue(CardsIn(q, code), CardsIn(r, code))
         /\ Carries(qr, code)
<1> DEFINE m == Len(q)
           n == Len(r)
<1>1. /\ m \in Nat /\ n \in Nat /\ m + n \in Nat /\ Len(qr) = m + n
      /\ \A k \in 1..m : qr[k] = q[k]
      /\ \A k \in 1..n : qr[m + k] = r[k]
  <2>1. /\ m \in Nat /\ n \in Nat /\ Len(qr) = m + n
        /\ \A k \in 1..m : qr[k] = q[k]
        /\ \A k \in 1..n : qr[k + m] = r[k]
    BY QueueCat, QueueLen DEF Glue
  <2>2. \A k \in 1..n : m + k = k + m
    BY <2>1
  <2>3. QED
    BY <2>1, <2>2
<1> HIDE DEF m, n
<1>2. PICK s : IsCargo(q, code, m, s) /\ CardsIn(q, code) = s[m]
  BY <1>1, CargoIs DEF m
<1>3. PICK t : IsCargo(r, code, n, t) /\ CardsIn(r, code) = t[n]
  BY <1>1, CargoIs DEF n
<1>4. PICK u : IsCargo(qr, code, m + n, u) /\ CardsIn(qr, code) = u[m + n]
  <2>1. Len(qr) \in Nat
    BY <1>1
  <2>2. QED
    BY <1>1, <2>1, CargoIs
<1>5. s[0] = <<>> /\ \A k \in 1..m : s[k] = Glue(s[k - 1], Cargo(q, code, k))
  BY <1>1, <1>2, CargoStep
<1>6. t[0] = <<>> /\ \A k \in 1..n : t[k] = Glue(t[k - 1], Cargo(r, code, k))
  BY <1>1, <1>3, CargoStep
<1>7. u[0] = <<>> /\ \A k \in 1..m + n : u[k] = Glue(u[k - 1], Cargo(qr, code, k))
  <2>1. m + n \in Nat /\ IsCargo(qr, code, m + n, u)
    BY <1>1, <1>4
  <2> PICK l : l = m + n
    OBVIOUS
  <2>2. l \in Nat /\ IsCargo(qr, code, l, u)
    BY <2>1
  <2>3. u[0] = <<>> /\ \A k \in 1..l : u[k] = Glue(u[k - 1], Cargo(qr, code, k))
    BY <2>2, CargoStep
  <2>4. QED
    BY <2>3
<1>a. \A x, y, z \in CardSeq : Glue(Glue(x, y), z) = Glue(x, Glue(y, z))
  BY GlueLaws
<1>8. /\ \A k \in 0..m : s[k] \in CardSeq
      /\ \A k \in 0..n : t[k] \in CardSeq
      /\ \A k \in 1..n : Cargo(r, code, k) \in CardSeq
  BY <1>1, <1>2, <1>3, CargoSeq DEF m, n
<1>9. /\ \A k \in 1..m : Cargo(qr, code, k) = Cargo(q, code, k)
      /\ \A k \in 1..n : Cargo(qr, code, m + k) = Cargo(r, code, k)
  BY <1>1 DEF Cargo
<1> DEFINE B == {k \in 0..m : u[k] = s[k]}
<1>10. 0..m \subseteq B
  <2>1. 0 \in B
    BY <1>1, <1>5, <1>7
  <2>2. ASSUME NEW k \in 1..m, k - 1 \in B PROVE k \in B
    <3>1. k \in 1..m + n /\ k \in 0..m
      BY <1>1
    <3>2. /\ u[k] = Glue(u[k - 1], Cargo(qr, code, k)) /\ s[k] = Glue(s[k - 1], Cargo(q, code, k))
          /\ Cargo(qr, code, k) = Cargo(q, code, k)
      BY <1>5, <1>7, <1>9, <3>1
    <3>3. QED
      BY <2>2, <3>1, <3>2
  <2> HIDE DEF B
  <2>3. QED
    BY <1>1, <2>1, <2>2, UpTo
<1> DEFINE C == {k \in 0..n : u[m + k] = Glue(s[m], t[k])}
<1>11. 0..n \subseteq C
  <2>1. 0 \in C
    <3>1. m \in 0..m /\ 0 \in 0..n /\ m + 0 = m
      BY <1>1
    <3>2. u[m] = s[m] /\ s[m] \in CardSeq
      BY <1>8, <1>10, <3>1
    <3>3. Glue(s[m], <<>>) = s[m]
      BY <3>2, GlueNothing
    <3>4. QED
      BY <1>6, <3>1, <3>2, <3>3
  <2>2. ASSUME NEW k \in 1..n, k - 1 \in C PROVE k \in C
    <3>1. m + k \in 1..m + n /\ (m + k) - 1 = m + (k - 1) /\ m \in 0..m /\ k - 1 \in 0..n /\ k \in 0..n
      BY <1>1
    <3>2. /\ u[m + k] = Glue(u[m + (k - 1)], Cargo(r, code, k))
          /\ t[k] = Glue(t[k - 1], Cargo(r, code, k))
      BY <1>6, <1>7, <1>9, <3>1
    <3>3. u[m + (k - 1)] = Glue(s[m], t[k - 1])
      BY <2>2
    <3>4. s[m] \in CardSeq /\ t[k - 1] \in CardSeq /\ Cargo(r, code, k) \in CardSeq
      BY <1>8, <3>1
    <3>5. Glue(Glue(s[m], t[k - 1]), Cargo(r, code, k)) = Glue(s[m], Glue(t[k - 1], Cargo(r, code, k)))
      BY <3>4, <1>a
    <3>6. u[m + k] = Glue(s[m], t[k])
      BY <3>2, <3>3, <3>5
    <3>7. QED
      BY <3>1, <3>6
  <2> HIDE DEF C
  <2>3. QED
    BY <1>1, <2>1, <2>2, UpTo
<1>12. u[m + n] = Glue(s[m], t[n])
  <2>1. n \in 0..n
    BY <1>1
  <2>2. QED
    BY <1>11, <2>1
<1>13. Carries(qr, code)
  <2>1. ASSUME NEW k \in 1..m + n PROVE k \in 1..m \/ \E j \in 1..n : k = m + j
    <3>1. k > m => k - m \in 1..n /\ k = m + (k - m)
      BY <1>1
    <3>2. k <= m => k \in 1..m
      BY <1>1
    <3>3. QED
      BY <1>1, <3>1, <3>2
  <2>2. ASSUME NEW k \in 1..Len(qr), qr[k].code = code PROVE CardsOf(qr[k]) \in CardSeq
    <3>1. k \in 1..m \/ \E j \in 1..n : k = m + j
      BY <1>1, <2>1
    <3>2. \A j \in 1..m : q[j].code = code => CardsOf(q[j]) \in CardSeq
      BY DEF Carries, m
    <3>3. \A j \in 1..n : r[j].code = code => CardsOf(r[j]) \in CardSeq
      BY DEF Carries, n
    <3>4. QED
      BY <1>1, <2>2, <3>1, <3>2, <3>3
  <2>3. QED
    BY <2>2 DEF Carries
<1>14. QED
  BY <1>2, <1>3, <1>4, <1>12, <1>13

LEMMA CardsInShort ==
  ASSUME NEW code
  PROVE  /\ CardsIn(<<>>, code) = <<>>
         /\ \A m : (m.code = code => CardsOf(m) \in CardSeq)
              => /\ CardsIn(<<m>>, code) = IF m.code = code THEN CardsOf(m) ELSE <<>>
                 /\ Carries(<<m>>, code)
<1>1. CardsIn(<<>>, code) = <<>>
  <2>1. PICK s : IsCargo(<<>>, code, Len(<<>>), s) /\ CardsIn(<<>>, code) = s[Len(<<>>)]
    BY CargoIs
  <2>2. QED
    BY <2>1, CargoStep
<1>2. ASSUME NEW m, m.code = code => CardsOf(m) \in CardSeq
      PROVE  /\ CardsIn(<<m>>, code) = IF m.code = code THEN CardsOf(m) ELSE <<>>
             /\ Carries(<<m>>, code)
  <2>1. Len(<<m>>) = 1 /\ <<m>>[1] = m
    OBVIOUS
  <2>2. PICK s : IsCargo(<<m>>, code, 1, s) /\ CardsIn(<<m>>, code) = s[1]
    BY <2>1, CargoIs
  <2>3. s[1] = Glue(s[0], Cargo(<<m>>, code, 1)) /\ s[0] = <<>>
    BY <2>2, CargoStep
  <2> PICK x : x = Cargo(<<m>>, code, 1)
    OBVIOUS
  <2>4. x = IF m.code = code THEN CardsOf(m) ELSE <<>>
    BY <2>1 DEF Cargo
  <2>5. x \in CardSeq
    BY <1>2, <2>4, GlueNothing
  <2>6. Glue(<<>>, x) = x
    BY <2>5, GlueNothing
  <2>7. \A k \in 1..Len(<<m>>) : <<m>>[k] = m
    BY <2>1
  <2>8. Carries(<<m>>, code)
    BY <1>2, <2>7 DEF Carries
  <2>9. QED
    BY <2>2, <2>3, <2>4, <2>6, <2>8
<1>3. QED
  BY <1>1, <1>2

\* The cards of a queue are those of its first message and those behind it.
LEMMA CardsInTail ==
  ASSUME NEW q, NEW code, IsQueue(q), q # <<>>, Carries(q, code)
  PROVE  /\ CardsIn(q, code) = Glue(IF Head(q).code = code THEN CardsOf(Head(q)) ELSE <<>>,
                                    CardsIn(Tail(q), code))
         /\ Carries(Tail(q), code)
         /\ Head(q).code = code => CardsOf(Head(q)) \in CardSeq
<1> DEFINE h == Head(q)
           t == Tail(q)
<1>1. /\ IsQueue(t) /\ Len(q) \in Nat \ {0} /\ Len(t) = Len(q) - 1 /\ h = q[1]
      /\ \A k \in 1..Len(q) - 1 : t[k] = q[k + 1]
      /\ q = <<h>> \o t
  BY QueueTail
<1> HIDE DEF h, t
<1>2. h.code = code => CardsOf(h) \in CardSeq
  BY <1>1 DEF Carries
<1>3. Carries(t, code)
  <2>1. \A k \in 1..Len(t) : k + 1 \in 1..Len(q) /\ t[k] = q[k + 1]
    BY <1>1
  <2>2. QED
    BY <2>1 DEF Carries
<1>4. /\ CardsIn(<<h>>, code) = IF h.code = code THEN CardsOf(h) ELSE <<>>
      /\ Carries(<<h>>, code) /\ IsQueue(<<h>>)
  BY <1>2, CardsInShort, ShortQueues
<1>5. CardsIn(q, code) = Glue(CardsIn(<<h>>, code), CardsIn(t, code))
  <2> PICK f : f = <<h>>
    OBVIOUS
  <2>1. IsQueue(f) /\ IsQueue(t) /\ Carries(f, code) /\ Carries(t, code) /\ q = Glue(f, t)
    BY <1>1, <1>3, <1>4 DEF Glue
  <2>2. CardsIn(q, code) = Glue(CardsIn(f, code), CardsIn(t, code))
    BY <2>1, CardsInCat
  <2>3. QED
    BY <2>2
<1>6. QED
  BY <1>1, <1>2, <1>3, <1>4, <1>5 DEF h, t

LEMMA CardsInNone ==
  ASSUME NEW q, NEW code, IsQueue(q), Count(q, code) = 0
  PROVE  CardsIn(q, code) = <<>> /\ Carries(q, code)
<1>1. Len(q) \in Nat /\ Len(q) \in 0..Len(q) /\ \A k \in 1..Len(q) : q[k].code # code
  BY QueueLen, CountNone
<1>2. Carries(q, code)
  BY <1>1 DEF Carries
<1>3. PICK s : IsCargo(q, code, Len(q), s) /\ CardsIn(q, code) = s[Len(q)]
  BY <1>1, CargoIs
<1>4. s[0] = <<>> /\ \A k \in 1..Len(q) : s[k] = Glue(s[k - 1], Cargo(q, code, k))
  BY <1>1, <1>3, CargoStep
<1> DEFINE B == {k \in 0..Len(q) : s[k] = <<>>}
<1>5. 0 \in B
  BY <1>1, <1>4
<1>6. ASSUME NEW k \in 1..Len(q), k - 1 \in B PROVE k \in B
  <2>1. Cargo(q, code, k) = <<>> /\ k \in 0..Len(q) /\ s[k - 1] = <<>>
    BY <1>1, <1>6 DEF Cargo
  <2>2. s[k] = <<>>
    BY <1>4, <2>1, GlueNothing
  <2>3. QED
    BY <2>1, <2>2
<1> HIDE DEF B
<1>7. 0..Len(q) \subseteq B
  BY <1>1, <1>5, <1>6, UpTo
<1>8. QED
  BY <1>1, <1>2, <1>3, <1>7 DEF B

\* A queue with one message of a kind carries the cards of that message.
LEMMA CardsInOne ==
  ASSUME NEW q, NEW code, IsQueue(q), q # <<>>, Carries(q, code), Head(q).code = code,
         Count(q, code) = 1
  PROVE  /\ CardsIn(q, code) = CardsOf(Head(q)) /\ CardsOf(Head(q)) \in CardSeq
         /\ CardsIn(Tail(q), code) = <<>>
<1>1. IsQueue(Tail(q)) /\ Count(Tail(q), code) = 0
  <2>1. IsQueue(Tail(q))
    BY QueueTail
  <2>2. 1 = Count(Tail(q), code) + 1 /\ Count(Tail(q), code) \in Nat
    BY <2>1, CountTail, KindFinite
  <2>3. QED
    BY <2>1, <2>2
<1>2. CardsIn(Tail(q), code) = <<>>
  BY <1>1, CardsInNone
<1>3. QED
  BY <1>2, CardsInTail, GlueNothing

-----------------------------------------------------------------------------
(* The table.                                                              *)

Asleep == loop.pc = "sleep"

\* The variables of the server have the fields the code gives them; whoever
\* waits for accept() is a client, and accept() is called for somebody.
Shape ==
  /\ srv = [game_running |-> srv.game_running, papayoo |-> srv.papayoo,
            one_ecart_received |-> srv.one_ecart_received,
            amount_ecart_received |-> srv.amount_ecart_received,
            ecarts_received |-> srv.ecarts_received, current_round |-> srv.current_round,
            current_player_turn |-> srv.current_player_turn,
            amount_cards_played_this_turn |-> srv.amount_cards_played_this_turn,
            amount_turn |-> srv.amount_turn, updating_score |-> srv.updating_score,
            amount_scores_updated |-> srv.amount_scores_updated]
  /\ board = [scores |-> board.scores, names |-> board.names,
              pli |-> board.pli, pli_size |-> board.pli_size]
  /\ DOMAIN board.pli = Seats
  /\ loop = [pc |-> loop.pc, ready |-> loop.ready, i |-> loop.i]
  /\ hist = [given |-> hist.given, earned |-> hist.earned]

AtTheTable ==
  /\ players \in Seq([client : Clients, is_registered : BOOLEAN])
  /\ amount_players <= MAX_PLAYERS
  /\ backlog \in Seq(Clients)
  /\ listening /\ loop.pc = "accept" => backlog # <<>>

Seated == Shape /\ AtTheTable /\ GameHasItsPlayers

-----------------------------------------------------------------------------
LEMMA SeatedInit == Init => Seated
<1> SUFFICES ASSUME Init PROVE Seated
  OBVIOUS
<1>1. Shape
  BY DEF Init, ServerInit, Shape, EmptyPli
<1>2. AtTheTable
  BY ServerAssumption DEF Init, ServerInit, NetworkInit, AtTheTable, amount_players
<1>3. GameHasItsPlayers
  BY DEF Init, ServerInit, GameHasItsPlayers
<1>4. QED
  BY <1>1, <1>2, <1>3 DEF Seated

\* What the clients do concerns the server only by its backlog.
LEMMA SeatedClient == ASSUME Seated, ClientNext PROVE Seated'
<1>1. UNCHANGED serverVars /\ UNCHANGED listening
      /\ (UNCHANGED backlog \/ \E c \in Clients : backlog' = Append(backlog, c))
  <2> DEFINE P == UNCHANGED serverVars /\ UNCHANGED listening
             Q == UNCHANGED backlog \/ \E c \in Clients : backlog' = Append(backlog, c)
  <2> SUFFICES ASSUME NEW c \in Clients, ClientStep(c) \/ Disturbs(c) PROVE P /\ Q
    BY DEF ClientNext
  <2>1. CASE Connects(c)
    BY <2>1 DEF Connects, Connect, ConnectFails, Welcomed, Refused, GreetingLost, signup,
                Greeting, Send, OpenConnection, network
  <2>2. CASE Reacts(c)
    BY <2>2 DEF Reacts, init_deck, add_new_ecart, DivisionByZero, receive_info,
                asked_for_card, show_pli, add_pli, add_score, game_cancelled, end_client,
                Handles, Receives, Send
  <2>3. CASE Answers(c)
    BY <2>3 DEF Answers, send_ecart, play_card, Send
  <2>4. CASE Disturbs(c)
    BY <2>4 DEF Disturbs, ask_basic_info, resend, quit, Types
  <2>5. QED
    BY <2>1, <2>2, <2>3, <2>4 DEF ClientStep
<1>2. Shape'
  BY <1>1 DEF Seated, Shape, serverVars, Seats
<1>3. AtTheTable'
  BY <1>1 DEF Seated, AtTheTable, serverVars, amount_players
<1>4. GameHasItsPlayers'
  BY <1>1 DEF Seated, GameHasItsPlayers, serverVars, amount_players, Present, Player
<1>5. QED
  BY <1>2, <1>3, <1>4 DEF Seated

\* The fields stay what they are in every handler.
LEMMA ShapeServer == ASSUME Shape, ServerNext PROVE Shape'
<1>1. ASSUME AlarmHandler PROVE Shape'
  BY <1>1 DEF AlarmHandler, AlarmStartsGame, AlarmRestarts, RoundStarts, Shape, serverVars, Seats
<1>2. ASSUME Killed PROVE Shape'
  BY <1>2 DEF Killed, Shape, serverVars, Seats
<1>3. ASSUME Select PROVE Shape'
  BY <1>3 DEF Select, Shape, Seats
<1>4. ASSUME RefuseClient \/ AddClient PROVE Shape'
  BY <1>4 DEF RefuseClient, AddClient, Shape, Seats
<1>5. ASSUME NEW i \in Seats, Dispatch(i) PROVE Shape'
  <2>1. ASSUME add_player(i) \/ update_score(i) \/ send_basic_info(i) PROVE Shape'
    BY <2>1 DEF add_player, update_score, send_basic_info, Served, Shape, Seats
  <2>2. ASSUME receive_ecart_from_player(i) PROVE Shape'
    BY <2>2 DEF receive_ecart_from_player, Served, Shape, Seats
  <2>3. ASSUME TrickGoesOn(i) PROVE Shape'
    BY <2>3 DEF TrickGoesOn, WithCard, Served, Shape, Seats
  <2>4. ASSUME NextTrick(i) \/ EndRound(i) \/ EndGame(i) PROVE Shape'
    BY <2>4 DEF NextTrick, EndRound, EndGame, TrickEnds, FullBoard, WithCard, RoundOver,
                Served, Shape, Seats
  <2>5. QED
    BY <1>5, <2>1, <2>2, <2>3, <2>4 DEF Dispatch
<1>6. ASSUME NEW i \in Seats, remove_player(i) PROVE Shape'
  BY <1>6 DEF remove_player, Shape, Seats
<1>7. ASSUME clear_lobby PROVE Shape'
  BY <1>7 DEF clear_lobby, Cleared, Shape, Seats
<1>8. ASSUME send_ecart_back \/ start_round \/ NothingToDo PROVE Shape'
  BY <1>8 DEF send_ecart_back, start_round, NothingToDo, RoundStarts, NextIteration, Shape, Seats
<1>9. QED
  BY <1>1, <1>2, <1>3, <1>4, <1>5, <1>6, <1>7, <1>8 DEF ServerNext, MainLoop

\* What the handlers of the messages leave alone.
LEMMA DispatchKeeps ==
  ASSUME Shape, NEW i \in Seats, Dispatch(i)
  PROVE  /\ UNCHANGED <<listening, backlog>>
         /\ srv'.game_running = srv.game_running
         /\ board'.names = board.names
         /\ \/ UNCHANGED players
            \/ players' = [players EXCEPT ![i + 1].is_registered = TRUE]
         /\ loop.pc = "serve" /\ loop'.pc \in {"serve", "sleep"}
         /\ i \in Present
         /\ ServerAlive
<1>1. UNCHANGED <<listening, backlog>> /\ i \in Present /\ ServerAlive /\ loop.pc = "serve"
  BY DEF Dispatch, add_player, receive_ecart_from_player, TrickGoesOn, NextTrick, EndRound,
         EndGame, TrickEnds, update_score, send_basic_info, Receive, Serving, ToServe, InLoop
<1>2. srv'.game_running = srv.game_running /\ board'.names = board.names
  BY DEF Dispatch, add_player, receive_ecart_from_player, TrickGoesOn, NextTrick, EndRound,
         EndGame, TrickEnds, update_score, send_basic_info, FullBoard, WithCard, RoundOver, Shape
<1>3. \/ UNCHANGED players
      \/ players' = [players EXCEPT ![i + 1].is_registered = TRUE]
  BY DEF Dispatch, add_player, receive_ecart_from_player, TrickGoesOn, NextTrick, EndRound,
         EndGame, TrickEnds, update_score, send_basic_info
<1>4. loop'.pc \in {"serve", "sleep"}
  BY <1>1 DEF Dispatch, add_player, receive_ecart_from_player, TrickGoesOn, NextTrick, EndRound,
         EndGame, update_score, send_basic_info, Served, Shape
<1>5. QED
  BY <1>1, <1>2, <1>3, <1>4

\* Whoever is at the table stays there while a game runs, unless it is over.
LEMMA SeatedServer == ASSUME Seated, ServerNext PROVE Seated'
<1>1. Shape'
  BY ShapeServer DEF Seated
<1>2. ASSUME AlarmStartsGame PROVE (AtTheTable /\ GameHasItsPlayers)'
  <2>1. UNCHANGED <<listening, backlog, players, loop>>
    BY <1>2 DEF AlarmStartsGame
  <2>2. board'.names = [i \in Seats |-> IF i \in Present THEN Player(i) ELSE board.names[i]]
    BY <1>2 DEF AlarmStartsGame, Seated, Shape
  <2>3. /\ Present \subseteq Seats /\ Present' = Present /\ amount_players >= 2
        /\ \A i \in Present : players[i + 1].is_registered /\ Player(i)' = Player(i)
    BY <1>2, <2>1, ServerAssumption
    DEF AlarmStartsGame, Seated, AtTheTable, Seats, Present, Player, amount_players,
        all_players_registered
  <2>4. QED
    BY <2>1, <2>2, <2>3 DEF Seated, AtTheTable, GameHasItsPlayers, amount_players
<1>3. ASSUME AlarmRestarts PROVE (AtTheTable /\ GameHasItsPlayers)'
  BY <1>3 DEF AlarmRestarts, Seated, AtTheTable, GameHasItsPlayers, serverVars, Present, Player,
              amount_players
<1>4. ASSUME Killed PROVE (AtTheTable /\ GameHasItsPlayers)'
  <2>1. ServerEnds /\ UNCHANGED serverVars
    BY <1>4 DEF Killed, ServerKilled, RoundOfNobody
  <2>2. QED
    BY <2>1 DEF ServerEnds, Seated, AtTheTable, GameHasItsPlayers, serverVars, Present, Player,
                amount_players
<1>5. ASSUME Select PROVE (AtTheTable /\ GameHasItsPlayers)'
  BY <1>5 DEF Select, InLoop, network, Seated, AtTheTable, GameHasItsPlayers, Present, Player,
              amount_players
<1>6. ASSUME RefuseClient PROVE (AtTheTable /\ GameHasItsPlayers)'
  BY <1>6 DEF RefuseClient, InLoop, ServerAlive, Seated, AtTheTable, GameHasItsPlayers, Shape,
              Present, Player, amount_players
<1>7. ASSUME AddClient PROVE (AtTheTable /\ GameHasItsPlayers)'
  <2>1. backlog # <<>> /\ Head(backlog) \in Clients /\ backlog' \in Seq(Clients)
    BY <1>7 DEF AddClient, InLoop, ServerAlive, Seated, AtTheTable
  <2>2. /\ players' \in Seq([client : Clients, is_registered : BOOLEAN])
        /\ amount_players' <= MAX_PLAYERS
    BY <1>7, <2>1, ServerAssumption DEF AddClient, LobbyFull, Seated, AtTheTable, amount_players
  <2>3. QED
    BY <1>7, <2>1, <2>2 DEF AddClient, Seated, Shape, AtTheTable, GameHasItsPlayers
<1>8. ASSUME NEW i \in Seats, Dispatch(i) PROVE (AtTheTable /\ GameHasItsPlayers)'
  <2>1. /\ UNCHANGED <<listening, backlog>> /\ ServerAlive
        /\ srv'.game_running = srv.game_running /\ board'.names = board.names
        /\ loop.pc = "serve" /\ loop'.pc \in {"serve", "sleep"} /\ i \in Present
        /\ \/ UNCHANGED players
           \/ players' = [players EXCEPT ![i + 1].is_registered = TRUE]
    BY <1>8, DispatchKeeps DEF Seated
  <2> DEFINE P == [client : Clients, is_registered : BOOLEAN]
             p == [players[i + 1] EXCEPT !.is_registered = TRUE]
  <2>2. i + 1 \in 1..Len(players) /\ players \in Seq(P)
    BY <2>1 DEF Seated, AtTheTable, Present, amount_players
  <2>3. p \in P /\ p.client = players[i + 1].client /\ p.is_registered
    <3>1. players[i + 1] \in P
      BY <2>2, ElementOfSeq
    <3>2. QED
      BY <3>1
  <2>4. players' = players \/ players' = [players EXCEPT ![i + 1] = p]
    BY <2>1
  <2> HIDE DEF p
  <2>5. players' \in Seq(P) /\ Len(players') = Len(players)
    <3> HIDE DEF P
    <3>1. CASE players' = [players EXCEPT ![i + 1] = p]
      BY <2>2, <2>3, <3>1, ExceptSeq
    <3>2. QED
      BY <2>2, <2>4, <3>1
  <2>6. \A k \in 1..Len(players) :
          /\ players'[k].client = players[k].client
          /\ players[k].is_registered => players'[k].is_registered
    <3> HIDE DEF P
    <3>1. CASE players' = [players EXCEPT ![i + 1] = p]
      <4>1. \A k \in 1..Len(players) : players'[k] = IF k = i + 1 THEN p ELSE players[k]
        BY <2>2, <2>3, <3>1, ExceptSeq
      <4>2. QED
        BY <2>3, <4>1
    <3>2. QED
      BY <2>4, <3>1
  <2>7. AtTheTable'
    BY <2>1, <2>5 DEF Seated, AtTheTable, amount_players
  <2>8. GameHasItsPlayers'
    <3>1. Present' = Present /\ amount_players' = amount_players
      BY <2>5 DEF Present, amount_players
    <3>2. SUFFICES ASSUME srv.game_running PROVE GameHasItsPlayers'
      BY <2>1 DEF GameHasItsPlayers
    <3>3. /\ amount_players >= 2
          /\ \A j \in Present : players[j + 1].is_registered /\ board.names[j] = Player(j)
      BY <2>1, <3>2 DEF Seated, GameHasItsPlayers
    <3>4. \A j \in Present : j + 1 \in 1..Len(players)
      BY <2>2 DEF Present, amount_players
    <3>5. \A j \in Present : players'[j + 1].is_registered /\ Player(j)' = Player(j)
      BY <2>6, <3>3, <3>4 DEF Player
    <3>6. QED
      BY <2>1, <3>1, <3>3, <3>5 DEF GameHasItsPlayers
  <2>9. QED
    BY <2>7, <2>8
<1>9. ASSUME NEW i \in Seats, remove_player(i) PROVE (AtTheTable /\ GameHasItsPlayers)'
  <2>1. /\ players' \in Seq([client : Clients, is_registered : BOOLEAN])
        /\ amount_players' <= MAX_PLAYERS
    <3>1. /\ i + 1 \in 1..Len(players) /\ Len(players) <= MAX_PLAYERS
          /\ players \in Seq([client : Clients, is_registered : BOOLEAN])
      BY <1>9 DEF remove_player, Serving, ToServe, Present, Seated, AtTheTable, amount_players
    <3>2. players' = RemoveAt(players, i + 1)
      BY <1>9 DEF remove_player
    <3>3. QED
      BY <3>1, <3>2, RemoveAtSeq, ServerAssumption DEF amount_players
  <2>2. QED
    BY <1>9, <2>1 DEF remove_player, Serving, InLoop, Seated, Shape, AtTheTable, GameHasItsPlayers
<1>10. ASSUME clear_lobby PROVE (AtTheTable /\ GameHasItsPlayers)'
  BY <1>10, ServerAssumption
  DEF clear_lobby, Cleared, Seated, Shape, AtTheTable, GameHasItsPlayers, amount_players
<1>11. ASSUME send_ecart_back \/ start_round \/ NothingToDo
       PROVE  (AtTheTable /\ GameHasItsPlayers)'
  <2>1. /\ UNCHANGED <<listening, backlog, players, board>>
        /\ loop.pc \in {"serve", "scores"} /\ loop'.pc \in {"select", "scores"}
    <3>1. CASE send_ecart_back
      BY <3>1 DEF send_ecart_back, AfterServing, InLoop
    <3>2. CASE start_round
      BY <3>2 DEF start_round, NextIteration, BeforeScores, AfterServing, InLoop
    <3>3. CASE NothingToDo
      BY <3>3 DEF NothingToDo, NextIteration, BeforeScores, AfterServing, InLoop, network
    <3>4. QED
      BY <1>11, <3>1, <3>2, <3>3
  <2>2. srv'.game_running = srv.game_running
    BY <1>11 DEF send_ecart_back, start_round, NothingToDo, RoundStarts, Seated, Shape
  <2>3. QED
    BY <2>1, <2>2 DEF Seated, AtTheTable, GameHasItsPlayers, Present, Player, amount_players
<1>12. QED
  BY <1>1, <1>2, <1>3, <1>4, <1>5, <1>6, <1>7, <1>8, <1>9, <1>10, <1>11
  DEF ServerNext, MainLoop, AlarmHandler, Seated

LEMMA SeatedStutter == ASSUME Seated, UNCHANGED vars PROVE Seated'
  BY DEF vars, network, serverVars, Seated, Shape, AtTheTable, GameHasItsPlayers, Present, Player,
         amount_players, Seats

\* The seats and the names of a running game, however its players and those
\* before them came and left, for any number of clients and seats.
THEOREM GameHasItsPlayersThm == Spec => []GameHasItsPlayers
<1>1. Seated /\ [Next]_vars => Seated'
  BY SeatedClient, SeatedServer, SeatedStutter DEF Next
<1>2. Seated => GameHasItsPlayers
  BY DEF Seated
<1>3. QED
  BY SeatedInit, <1>1, <1>2, PTL DEF Spec

-----------------------------------------------------------------------------
(* The course of a game that nobody leaves.                                *)

\* No client is interrupted, and no line typed unasked repeats a message.
Undisturbed == Quitters = {} /\ "other" \notin Lines

-----------------------------------------------------------------------------
(* The invariant: the server.                                              *)

\* The variables of a client.
IsClient(r) == r = [pc |-> r.pc, deck |-> r.deck, plis |-> r.plis, info |-> r.info,
                    mSent |-> r.mSent, waiting_for_ecart |-> r.waiting_for_ecart]

Functions ==
  /\ listening
  /\ toClient = [c \in Clients |-> toClient[c]]
  /\ toServer = [c \in Clients |-> toServer[c]]
  /\ conn \in [Clients -> {"none", "backlog", "open", "dropped", "broken", "refused", "closed"}]
  /\ cl = [c \in Clients |-> cl[c]] /\ \A c \in Clients : IsClient(cl[c])

\* Every seat has a client of its own, and so has every place in the backlog.
Distinct ==
  /\ \A i, j \in Present : Player(i) = Player(j) => i = j
  /\ \A j, k \in 1..Len(backlog) : backlog[j] = backlog[k] => j = k
  /\ \A k \in 1..Len(backlog) : conn[backlog[k]] = "backlog"

\* A round that has been dealt, before the ecarts are sent back.
InEcarts == srv.game_running /\ ~srv.updating_score /\ ~InTricks

\* The counters that one phase uses are at rest in the others.
Phases ==
  /\ srv.game_running \in BOOLEAN /\ srv.updating_score \in BOOLEAN
  /\ srv.one_ecart_received \in BOOLEAN
  /\ srv.updating_score => srv.game_running
  /\ Asleep => srv.updating_score
  /\ srv.game_running => hist.given \subseteq Present
  /\ ~InTricks => /\ srv.current_player_turn = 0 /\ board.pli_size = 0
                  /\ srv.amount_cards_played_this_turn = 0
  /\ ~InEcarts => ~srv.one_ecart_received /\ srv.amount_ecart_received = 0
  /\ InEcarts => /\ srv.amount_ecart_received = Cardinality(hist.given)
                 /\ srv.one_ecart_received <=> hist.given # {}
  /\ InTricks => /\ board.pli_size \in 0..amount_players - 1
                 /\ srv.amount_cards_played_this_turn = board.pli_size
                 /\ srv.current_player_turn \in Present
                 /\ \A k \in 0..board.pli_size - 1 : board.pli[k].last_played \in Present

-----------------------------------------------------------------------------
(* The invariant: each client.                                             *)

Open == {"open", "closed"}

\* The state of a connection, and the messages that end one.
Wire(c) ==
  /\ IsQueue(toClient[c]) /\ IsQueue(toServer[c])
  /\ c \in Playing <=> conn[c] \in Open
  /\ conn[c] = "closed" => Asleep
  /\ At(c, "connect") => conn[c] \in {"none", "dropped", "refused"}
  /\ conn[c] \in {"backlog", "closed"} => toClient[c] = <<>>
  /\ Count(toClient[c], "CANCELLED") = 0
  /\ Count(toClient[c], "REFUSE") # 0 => conn[c] = "refused"
  /\ Count(toClient[c], "END_GAME") # 0 /\ conn[c] = "open" => Asleep

\* The ecart a player owes: the deal on its way, the user choosing, or the
\* ecart on its way.
EcartDue(c) == Count(toClient[c], "INIT_DECK") + (IF At(c, "ecart") THEN 1 ELSE 0)
               + Count(toServer[c], "ECART")

OwesEcart(c) == InEcarts /\ c \in Playing /\ SeatOf(c) \notin hist.given

HasTurn(c) == /\ InTricks
              /\ c = Player((srv.current_player_turn + board.pli_size) % amount_players)

\* Each player owes one ecart until it has given it, and one has the turn.
Duties(c) == /\ EcartDue(c) = IF OwesEcart(c) THEN 1 ELSE 0
             /\ Turns(c) = IF HasTurn(c) THEN 1 ELSE 0

\* What the player of a running game is to know of it.
CurrentInfo(c) == [player_index |-> SeatOf(c), amount_players |-> amount_players,
                   papayoo |-> srv.papayoo]

\* The information of the round comes just before its cards; from then on what
\* a player knows, and what it will still be told in this round, is current.
FreshQueue(q, info, current) ==
  /\ Count(q, "INIT_DECK") # 0 \/ info = current
  /\ \A k \in 1..Len(q) : q[k].code = "INIT_DECK" =>
       IF k = 1 THEN info = current
                ELSE q[k - 1].code = "BASIC_INFO" /\ q[k - 1].info = current
  /\ \A k \in 1..Len(q) : q[k].code = "BASIC_INFO" =>
       q[k].info = current \/ \E j \in k + 1..Len(q) : q[j].code = "INIT_DECK"

Fresh(c) ==
  srv.game_running /\ ~Asleep /\ c \in Playing =>
    /\ FreshQueue(toClient[c], cl[c].info, CurrentInfo(c))
    /\ \A k \in 1..Len(toServer[c]) : toServer[c][k].code = "PLAY_CARD" =>
         toServer[c][k].played.last_played = SeatOf(c)

\* The ecart of another reaches only players who know how many they are.
InformedQueue(q, info) ==
  /\ Count(q, "ECARTS") # 0 => info.amount_players # 0
  /\ \A k \in 1..Len(q) : q[k].code = "BASIC_INFO" => q[k].info.amount_players # 0

Informed(c) == InformedQueue(toClient[c], cl[c].info)

ClientInv(c) == Wire(c) /\ Duties(c) /\ Fresh(c) /\ Informed(c)

UInv == Functions /\ Distinct /\ Phases /\ \A c \in Clients : ClientInv(c)

-----------------------------------------------------------------------------
(* Queues.                                                                 *)

\* A message that is received brings what it says and leaves the rest fresh.
LEMMA FreshTail ==
  ASSUME NEW q, IsQueue(q), q # <<>>, NEW info, NEW current, FreshQueue(q, info, current),
         Count(q, "INIT_DECK") \in {0, 1}
  PROVE  /\ FreshQueue(Tail(q), IF Head(q).code = "BASIC_INFO" THEN Head(q).info ELSE info, current)
         /\ Head(q).code = "INIT_DECK" => info = current
<1> DEFINE t == Tail(q)
           told == IF Head(q).code = "BASIC_INFO" THEN Head(q).info ELSE info
<1>1. /\ Len(q) \in Nat \ {0} /\ Len(t) = Len(q) - 1 /\ Head(q) = q[1] /\ IsQueue(t)
      /\ \A k \in 1..Len(t) : t[k] = q[k + 1]
  BY QueueTail
<1> HIDE DEF t, told
<1>2. ASSUME Head(q).code = "INIT_DECK" PROVE info = current
  BY <1>1, <1>2 DEF FreshQueue
<1>3. ASSUME \A j \in 1..Len(t) : t[j].code # "INIT_DECK" PROVE told = current
  <2>1. \A j \in 2..Len(q) : q[j].code # "INIT_DECK"
    <3>1. ASSUME NEW j \in 2..Len(q) PROVE q[j].code # "INIT_DECK"
      <4>1. j - 1 \in 1..Len(t) /\ (j - 1) + 1 = j
        BY <1>1
      <4>2. QED
        BY <1>1, <1>3, <4>1
    <3>2. QED
      BY <3>1
  <2>2. CASE Head(q).code = "INIT_DECK"
    BY <1>2, <2>2 DEF told
  <2>3. CASE Head(q).code = "BASIC_INFO"
    BY <1>1, <2>1, <2>3 DEF told, FreshQueue
  <2>4. CASE Head(q).code \notin {"INIT_DECK", "BASIC_INFO"}
    <3>1. Count(q, "INIT_DECK") = 0
      BY <1>1, <2>1, <2>4, CountNone
    <3>2. QED
      BY <2>4, <3>1 DEF told, FreshQueue
  <2>5. QED
    BY <2>2, <2>3, <2>4
<1>4. ASSUME NEW k \in 1..Len(t), t[k].code = "INIT_DECK"
      PROVE  IF k = 1 THEN told = current
                      ELSE t[k - 1].code = "BASIC_INFO" /\ t[k - 1].info = current
  <2>1. k + 1 \in 2..Len(q) /\ q[k + 1].code = "INIT_DECK" /\ (k + 1) - 1 = k
    BY <1>1, <1>4
  <2>2. q[k].code = "BASIC_INFO" /\ q[k].info = current
    BY <2>1 DEF FreshQueue
  <2>3. CASE k = 1
    BY <1>1, <2>2, <2>3 DEF told
  <2>4. CASE k # 1
    <3>1. k - 1 \in 1..Len(t) /\ (k - 1) + 1 = k
      BY <1>1, <2>4
    <3>2. QED
      BY <1>1, <2>2, <2>4, <3>1
  <2>5. QED
    BY <2>3, <2>4
<1>5. ASSUME NEW k \in 1..Len(t), t[k].code = "BASIC_INFO", t[k].info # current
      PROVE  \E j \in k + 1..Len(t) : t[j].code = "INIT_DECK"
  <2>1. k + 1 \in 1..Len(q) /\ q[k + 1].code = "BASIC_INFO" /\ q[k + 1].info # current
    BY <1>1, <1>5
  <2>2. PICK j \in k + 2..Len(q) : q[j].code = "INIT_DECK"
    <3>1. \E j \in (k + 1) + 1..Len(q) : q[j].code = "INIT_DECK"
      BY <2>1 DEF FreshQueue
    <3>2. (k + 1) + 1 = k + 2
      OBVIOUS
    <3>3. QED
      BY <3>1, <3>2
  <2>3. j - 1 \in k + 1..Len(t) /\ (j - 1) + 1 = j /\ j - 1 \in 1..Len(t)
    BY <1>1
  <2>4. QED
    BY <1>1, <2>2, <2>3
<1>6. FreshQueue(t, told, current)
  <2>1. Count(t, "INIT_DECK") # 0 \/ told = current
    BY <1>1, <1>3, CountNone
  <2>2. QED
    BY <1>4, <1>5, <2>1 DEF FreshQueue
<1>7. QED
  BY <1>2, <1>6 DEF t, told

\* Messages that deal nothing and tell nothing that is not current.
LEMMA FreshCat ==
  ASSUME NEW q, IsQueue(q), NEW t, IsQueue(t), NEW info, NEW current,
         FreshQueue(q, info, current),
         \A k \in 1..Len(t) : /\ t[k].code # "INIT_DECK"
                              /\ t[k].code = "BASIC_INFO" => t[k].info = current
  PROVE  FreshQueue(q \o t, info, current)
<1> DEFINE s == q \o t
<1>1. /\ Len(q) \in Nat /\ Len(t) \in Nat /\ IsQueue(s) /\ Len(s) = Len(q) + Len(t)
      /\ \A k \in 1..Len(q) : s[k] = q[k]
      /\ \A k \in 1..Len(t) : s[k + Len(q)] = t[k]
  BY QueueCat, QueueLen
<1>2. Count(s, "INIT_DECK") = Count(q, "INIT_DECK")
  <2>1. Count(t, "INIT_DECK") = 0
    BY CountNone
  <2>2. Count(s, "INIT_DECK") = Count(q, "INIT_DECK") + Count(t, "INIT_DECK")
    BY CountCat
  <2>3. QED
    BY <2>1, <2>2, KindFinite
<1> HIDE DEF s
<1>3. ASSUME NEW k \in 1..Len(s), k > Len(q)
      PROVE  /\ s[k].code # "INIT_DECK"
             /\ s[k].code = "BASIC_INFO" => s[k].info = current
  <2>1. k - Len(q) \in 1..Len(t) /\ (k - Len(q)) + Len(q) = k
    BY <1>1, <1>3
  <2>2. s[k] = t[k - Len(q)]
    BY <1>1, <2>1
  <2>3. QED
    BY <2>1, <2>2
<1>4. ASSUME NEW k \in 1..Len(s), s[k].code = "INIT_DECK"
      PROVE  IF k = 1 THEN info = current
                      ELSE s[k - 1].code = "BASIC_INFO" /\ s[k - 1].info = current
  <2>1. k \in 1..Len(q)
    BY <1>1, <1>3, <1>4
  <2>2. CASE k = 1
    BY <1>1, <1>4, <2>1, <2>2 DEF FreshQueue
  <2>3. CASE k # 1
    <3>1. k - 1 \in 1..Len(q)
      BY <2>1, <2>3
    <3>2. q[k].code = "INIT_DECK" /\ s[k - 1] = q[k - 1]
      BY <1>1, <1>4, <2>1, <3>1
    <3>3. q[k - 1].code = "BASIC_INFO" /\ q[k - 1].info = current
      BY <2>1, <2>3, <3>2 DEF FreshQueue
    <3>4. QED
      BY <2>3, <3>2, <3>3
  <2>4. QED
    BY <2>2, <2>3
<1>5. ASSUME NEW k \in 1..Len(s), s[k].code = "BASIC_INFO", s[k].info # current
      PROVE  \E j \in k + 1..Len(s) : s[j].code = "INIT_DECK"
  <2>1. k \in 1..Len(q)
    <3>1. ~(k > Len(q))
      BY <1>3, <1>5
    <3>2. QED
      BY <1>1, <3>1
  <2>2. PICK j \in k + 1..Len(q) : q[j].code = "INIT_DECK"
    BY <1>1, <1>5, <2>1 DEF FreshQueue
  <2>3. j \in k + 1..Len(s) /\ j \in 1..Len(q)
    BY <1>1, <2>1
  <2>4. QED
    BY <1>1, <2>2, <2>3
<1>6. QED
  BY <1>2, <1>4, <1>5 DEF FreshQueue, s

\* A deal, with the information of the round before it, makes any queue fresh.
LEMMA FreshDeal ==
  ASSUME NEW q, IsQueue(q), Count(q, "INIT_DECK") = 0, NEW info, NEW b, NEW d,
         b.code = "BASIC_INFO", d.code = "INIT_DECK"
  PROVE  FreshQueue(q \o <<b, d>>, info, b.info)
<1> DEFINE s == q \o <<b, d>>
           n == Len(q)
<1>1. /\ n \in Nat /\ IsQueue(s) /\ Len(s) = n + 2
      /\ \A k \in 1..n : s[k] = q[k]
      /\ s[n + 1] = b /\ s[n + 2] = d
  <2>1. IsQueue(<<b, d>>) /\ Len(<<b, d>>) = 2 /\ <<b, d>>[1] = b /\ <<b, d>>[2] = d
    BY ShortQueues
  <2>2. /\ n \in Nat /\ IsQueue(s) /\ Len(s) = n + Len(<<b, d>>)
        /\ \A k \in 1..n : s[k] = q[k]
        /\ \A k \in 1..Len(<<b, d>>) : s[k + n] = <<b, d>>[k]
    BY <2>1, QueueCat, QueueLen
  <2>3. s[1 + n] = b /\ s[2 + n] = d /\ 1 + n = n + 1 /\ 2 + n = n + 2
    BY <2>1, <2>2
  <2>4. QED
    BY <2>1, <2>2, <2>3
<1>2. \A k \in 1..n : q[k].code # "INIT_DECK"
  BY CountNone
<1> HIDE DEF s, n
<1>3. Count(s, "INIT_DECK") # 0
  <2>1. n + 2 \in 1..Len(s) /\ s[n + 2].code = "INIT_DECK"
    BY <1>1
  <2>2. QED
    BY <1>1, <2>1, CountNone
<1>4. ASSUME NEW k \in 1..Len(s), s[k].code = "INIT_DECK"
      PROVE  k = n + 2 /\ k # 1 /\ s[k - 1] = b
  <2>1. k \in 1..n \/ k = n + 1 \/ k = n + 2
    BY <1>1
  <2>2. k = n + 2
    BY <1>1, <1>2, <1>4, <2>1
  <2>3. k # 1 /\ k - 1 = n + 1
    BY <1>1, <2>2
  <2>4. QED
    BY <1>1, <2>2, <2>3
<1>5. ASSUME NEW k \in 1..Len(s), s[k].code = "BASIC_INFO"
      PROVE  \E j \in k + 1..Len(s) : s[j].code = "INIT_DECK"
  <2>1. k # n + 2
    BY <1>1, <1>5
  <2>2. n + 2 \in k + 1..Len(s)
    BY <1>1, <2>1
  <2>3. QED
    BY <1>1, <2>2
<1>6. QED
  BY <1>3, <1>4, <1>5 DEF FreshQueue, s

LEMMA InformedTail ==
  ASSUME NEW q, IsQueue(q), q # <<>>, NEW info, InformedQueue(q, info)
  PROVE  InformedQueue(Tail(q), IF Head(q).code = "BASIC_INFO" THEN Head(q).info ELSE info)
<1> DEFINE t == Tail(q)
<1>1. /\ Len(q) \in Nat \ {0} /\ Len(t) = Len(q) - 1 /\ Head(q) = q[1] /\ IsQueue(t)
      /\ \A k \in 1..Len(t) : t[k] = q[k + 1]
  BY QueueTail
<1>2. Count(t, "ECARTS") # 0 => Count(q, "ECARTS") # 0
  BY <1>1, CountTail, KindFinite
<1> HIDE DEF t
<1>3. \A k \in 1..Len(t) : k + 1 \in 1..Len(q)
  BY <1>1
<1>4. QED
  BY <1>1, <1>2, <1>3 DEF InformedQueue, t

LEMMA InformedCat ==
  ASSUME NEW q, IsQueue(q), NEW t, IsQueue(t), NEW info, InformedQueue(q, info),
         Count(t, "ECARTS") # 0 => info.amount_players # 0,
         \A k \in 1..Len(t) : t[k].code = "BASIC_INFO" => t[k].info.amount_players # 0
  PROVE  InformedQueue(q \o t, info)
<1> DEFINE s == q \o t
<1>1. /\ Len(q) \in Nat /\ Len(t) \in Nat /\ IsQueue(s) /\ Len(s) = Len(q) + Len(t)
      /\ \A k \in 1..Len(q) : s[k] = q[k]
      /\ \A k \in 1..Len(t) : s[k + Len(q)] = t[k]
      /\ Count(s, "ECARTS") = Count(q, "ECARTS") + Count(t, "ECARTS")
      /\ Count(q, "ECARTS") \in Nat /\ Count(t, "ECARTS") \in Nat
  BY QueueCat, QueueLen, CountCat, KindFinite
<1> HIDE DEF s
<1>2. ASSUME NEW k \in 1..Len(s), s[k].code = "BASIC_INFO" PROVE s[k].info.amount_players # 0
  <2>1. CASE k <= Len(q)
    <3>1. k \in 1..Len(q)
      BY <2>1
    <3>2. QED
      BY <1>1, <1>2, <3>1 DEF InformedQueue
  <2>2. CASE k > Len(q)
    <3>1. k - Len(q) \in 1..Len(t) /\ (k - Len(q)) + Len(q) = k
      BY <1>1, <2>2
    <3>2. QED
      BY <1>1, <1>2, <3>1
  <2>3. QED
    BY <1>1, <2>1, <2>2
<1>3. QED
  BY <1>1, <1>2 DEF InformedQueue, s

-----------------------------------------------------------------------------
(* Seats.                                                                  *)

\* Each player has a seat, and each seat of the game a player.
LEMMA SeatFacts ==
  ASSUME Seated, Distinct
  PROVE  /\ amount_players \in Nat /\ amount_players <= MAX_PLAYERS
         /\ Present = 0..amount_players - 1 /\ Present \subseteq Seats
         /\ \A i \in Present : Player(i) \in Clients /\ Player(i) \in Playing /\ SeatOf(Player(i)) = i
         /\ \A c \in Playing : c \in Clients /\ SeatOf(c) \in Present /\ Player(SeatOf(c)) = c
<1>1. /\ players \in Seq([client : Clients, is_registered : BOOLEAN])
      /\ Len(players) \in Nat /\ DOMAIN players = 1..Len(players) /\ Len(players) <= MAX_PLAYERS
  BY DEF Seated, AtTheTable, amount_players
<1>2. amount_players \in Nat /\ amount_players <= MAX_PLAYERS /\ Present = 0..amount_players - 1
  BY <1>1 DEF amount_players, Present
<1>3. Present \subseteq Seats
  BY <1>2, ServerAssumption DEF Seats
<1>4. \A k \in 1..Len(players) : players[k].client \in Clients
  <2>1. \A k \in 1..Len(players) : players[k] \in [client : Clients, is_registered : BOOLEAN]
    BY <1>1, ElementOfSeq
  <2>2. QED
    BY <2>1
<1>5. ASSUME NEW i \in Present PROVE Player(i) \in Clients /\ Player(i) \in Playing
  <2>1. i + 1 \in 1..Len(players)
    BY <1>2 DEF amount_players
  <2>2. QED
    BY <1>1, <1>4, <2>1 DEF Player, Playing
<1>6. ASSUME NEW c \in Playing PROVE \E i \in Present : Player(i) = c
  <2>1. PICK k \in 1..Len(players) : players[k].client = c
    BY <1>1 DEF Playing
  <2>2. k - 1 \in Present /\ (k - 1) + 1 = k
    BY <1>2 DEF amount_players
  <2>3. Player(k - 1) = c
    BY <2>1, <2>2 DEF Player
  <2>4. QED
    BY <2>2, <2>3
<1>7. ASSUME NEW c \in Playing PROVE SeatOf(c) \in Present /\ Player(SeatOf(c)) = c
  BY <1>6 DEF SeatOf
<1>8. ASSUME NEW i \in Present PROVE SeatOf(Player(i)) = i
  BY <1>5, <1>7 DEF Distinct
<1>9. \A c \in Playing : c \in Clients
  BY <1>5, <1>6
<1>10. QED
  BY <1>2, <1>3, <1>5, <1>7, <1>8, <1>9

\* Only a player can have the turn.
LEMMA TurnHolder ==
  ASSUME Seated, Distinct, Phases
  PROVE  /\ InTricks => (srv.current_player_turn + board.pli_size) % amount_players \in Present
         /\ \A c : HasTurn(c) => c \in Playing
<1>1. amount_players \in Nat /\ Present = 0..amount_players - 1
  BY SeatFacts
<1>2. ASSUME InTricks
      PROVE  (srv.current_player_turn + board.pli_size) % amount_players \in Present
  <2>1. /\ board.pli_size \in 0..amount_players - 1
        /\ srv.current_player_turn \in 0..amount_players - 1
    BY <1>1, <1>2 DEF Phases
  <2>2. QED
    BY <1>1, <2>1
<1>3. QED
  BY <1>2, SeatFacts DEF HasTurn

-----------------------------------------------------------------------------
(* Steps of the clients.                                                   *)

\* As long as the server does nothing, a client is concerned only by its own
\* variables, its connection and its queues.
LEMMA ServerSame ==
  ASSUME UNCHANGED serverVars
  PROVE  /\ Phases' <=> Phases
         /\ Asleep' = Asleep /\ Playing' = Playing /\ Present' = Present
         /\ srv'.game_running = srv.game_running
         /\ \A i : Player(i)' = Player(i)
         /\ \A c : /\ SeatOf(c)' = SeatOf(c) /\ CurrentInfo(c)' = CurrentInfo(c)
                   /\ OwesEcart(c)' <=> OwesEcart(c)
                   /\ HasTurn(c)' <=> HasTurn(c)
<1>1. players' = players /\ srv' = srv /\ board' = board /\ loop' = loop /\ hist' = hist
  BY DEF serverVars
<1>2. Present' = Present /\ Playing' = Playing /\ amount_players' = amount_players
  BY <1>1 DEF Present, Playing, amount_players
<1>3. \A i : Player(i)' = Player(i)
  BY <1>1 DEF Player
<1>4. \A c : SeatOf(c)' = SeatOf(c)
  BY <1>2, <1>3 DEF SeatOf
<1>5. \A c : CurrentInfo(c)' = CurrentInfo(c)
  BY <1>1, <1>2, <1>4 DEF CurrentInfo
<1>6. (InTricks' <=> InTricks) /\ (InEcarts' <=> InEcarts) /\ Asleep' = Asleep
  BY <1>1, <1>2 DEF InTricks, InEcarts, Asleep
<1>7. \A c : (OwesEcart(c)' <=> OwesEcart(c)) /\ (HasTurn(c)' <=> HasTurn(c))
  BY <1>1, <1>2, <1>3, <1>4, <1>6 DEF OwesEcart, HasTurn, Player
<1>8. Phases' <=> Phases
  BY <1>1, <1>2, <1>6 DEF Phases
<1>9. QED
  BY <1>1, <1>2, <1>3, <1>4, <1>5, <1>6, <1>7, <1>8

LEMMA Untouched ==
  ASSUME UNCHANGED serverVars, NEW d \in Clients, ClientInv(d),
         toClient'[d] = toClient[d], toServer'[d] = toServer[d], conn'[d] = conn[d],
         cl'[d] = cl[d]
  PROVE  ClientInv(d)'
<1>1. \A label : At(d, label)' <=> At(d, label)
  BY DEF At
<1>2. Wire(d)'
  BY <1>1, ServerSame DEF ClientInv, Wire
<1>3. Duties(d)'
  BY <1>1, ServerSame DEF ClientInv, Duties, EcartDue, Turns
<1>4. Fresh(d)'
  BY ServerSame DEF ClientInv, Fresh
<1>5. Informed(d)'
  BY DEF ClientInv, Informed
<1>6. QED
  BY <1>2, <1>3, <1>4, <1>5 DEF ClientInv

\* A step of one client.
LEMMA OneClient ==
  ASSUME UInv, Seated, NEW c \in Clients, UNCHANGED <<listening, serverVars>>,
         backlog' = backlog \/ (backlog' = Append(backlog, c) /\ conn'[c] = "backlog"),
         \A d \in Clients \ {c} : /\ toClient'[d] = toClient[d] /\ toServer'[d] = toServer[d]
                                  /\ conn'[d] = conn[d] /\ cl'[d] = cl[d],
         conn[c] = "backlog" => conn'[c] = "backlog" /\ backlog' = backlog,
         Functions', ClientInv(c)'
  PROVE  UInv'
<1>1. \A d \in Clients : ClientInv(d)'
  <2>1. ASSUME NEW d \in Clients \ {c} PROVE ClientInv(d)'
    BY <2>1, Untouched DEF UInv
  <2>2. QED
    BY <2>1
<1>2. Phases'
  BY ServerSame DEF UInv
<1>3. Distinct'
  <2> DEFINE n == Len(backlog)
  <2>1. /\ n \in Nat /\ \A k \in 1..n : backlog[k] \in Clients /\ conn[backlog[k]] = "backlog"
        /\ \A j, k \in 1..n : backlog[j] = backlog[k] => j = k
    BY ElementOfSeq DEF Seated, AtTheTable, UInv, Distinct
  <2>2. \A d \in Clients : conn[d] = "backlog" => conn'[d] = "backlog"
    OBVIOUS
  <2>3. \A i, j \in Present' : Player(i)' = Player(j)' => i = j
    BY ServerSame DEF UInv, Distinct
  <2>4. CASE backlog' = backlog
    BY <2>1, <2>2, <2>3, <2>4 DEF Distinct
  <2>5. CASE backlog' # backlog
    <3>1. /\ Len(backlog') = n + 1 /\ backlog'[n + 1] = c
          /\ \A k \in 1..n : backlog'[k] = backlog[k]
      BY <2>5 DEF Seated, AtTheTable
    <3>2. \A k \in 1..n : backlog[k] # c
      BY <2>1, <2>5
    <3> HIDE DEF n
    <3>3. \A k \in 1..n + 1 : k \in 1..n \/ k = n + 1
      BY <2>1
    <3>4. QED
      BY <2>1, <2>2, <2>3, <2>5, <3>1, <3>2, <3>3 DEF Distinct
  <2>6. QED
    BY <2>4, <2>5
<1>4. QED
  BY <1>1, <1>2, <1>3 DEF UInv

LEMMA ServedClient ==
  ASSUME NEW r, IsClient(r), NEW deck, NEW s,
         s = [r EXCEPT !.deck = deck, !.waiting_for_ecart = FALSE]
  PROVE  IsClient(s) /\ s.pc = r.pc /\ s.info = r.info
<1>1. s = [pc |-> r.pc, deck |-> deck, plis |-> r.plis, info |-> r.info,
           mSent |-> r.mSent, waiting_for_ecart |-> FALSE]
  BY DEF IsClient
<1>2. QED
  BY <1>1 DEF IsClient

\* The messages that a client takes note of.
NotedCodes == {"OK", "REFUSE", "INIT_DECK", "ECARTS", "BASIC_INFO", "ASK_FOR_CARD", "SHOW_PLI", "ADD_PLI"}

\* Where the client goes on.
AfterNote(code) == IF code = "INIT_DECK" THEN "ecart"
                   ELSE IF code = "ASK_FOR_CARD" THEN "play"
                   ELSE IF code = "OK" THEN "signup"
                   ELSE IF code = "REFUSE" THEN "connect" ELSE "main"

\* A message that the client only takes note of, or that makes it ask its user:
\* the duty goes from the queue to the user.
LEMMA HandlesInv ==
  ASSUME UInv, Seated, NEW c \in Clients, NEW code \in NotedCodes,
         At(c, "main") \/ At(c, "greet"), ClientReceive(c), FromServer(c).code = code,
         UNCHANGED <<listening, backlog, conn, toServer, serverVars>>,
         NEW r, IsClient(r), cl' = [cl EXCEPT ![c] = r],
         r.pc = AfterNote(code),
         r.info = IF code = "BASIC_INFO" THEN FromServer(c).info ELSE cl[c].info
  PROVE  UInv'
<1> DEFINE q == toClient[c]
<1>1. /\ q # <<>> /\ Head(q).code = code /\ FromServer(c) = Head(q)
      /\ toClient' = [toClient EXCEPT ![c] = Tail(q)]
      /\ UNCHANGED <<listening, backlog, conn, toServer, serverVars>>
  BY DEF ClientReceive, FromServer
<1>2. Functions /\ ClientInv(c) /\ Wire(c) /\ Duties(c) /\ Fresh(c) /\ Informed(c) /\ IsQueue(q)
  BY DEF UInv, ClientInv, Wire
<1>3. /\ toClient'[c] = Tail(q) /\ cl'[c] = r
      /\ \A d \in Clients \ {c} : toClient'[d] = toClient[d] /\ cl'[d] = cl[d]
      /\ Functions'
  <2>1. /\ toClient'[c] = Tail(q) /\ cl'[c] = r
        /\ \A d \in Clients \ {c} : toClient'[d] = toClient[d] /\ cl'[d] = cl[d]
    BY <1>1, <1>2 DEF Functions
  <2>2. Functions'
    <3>1. \A d \in Clients : IsClient(cl'[d])
      BY <1>2, <2>1 DEF Functions
    <3>2. cl' = [d \in Clients |-> cl'[d]] /\ toClient' = [d \in Clients |-> toClient'[d]]
      BY <1>1, <1>2 DEF Functions
    <3>3. QED
      BY <1>1, <1>2, <3>1, <3>2 DEF Functions, IsClient
  <2>3. QED
    BY <2>1, <2>2
<1>4. /\ IsQueue(Tail(q)) /\ Count(q, code) # 0
      /\ \A x : Count(q, x) = Count(Tail(q), x) + (IF code = x THEN 1 ELSE 0)
      /\ \A x : Count(q, x) \in Nat /\ Count(Tail(q), x) \in Nat /\ Count(toServer[c], x) \in Nat
  <2> HIDE DEF q
  <2>1. IsQueue(Tail(q)) /\ IsQueue(toServer[c])
    BY <1>1, <1>2, QueueTail DEF Wire
  <2>2. \A x : Count(q, x) = Count(Tail(q), x) + (IF code = x THEN 1 ELSE 0)
    BY <1>1, <1>2, CountTail
  <2>3. \A x : Count(q, x) \in Nat /\ Count(Tail(q), x) \in Nat /\ Count(toServer[c], x) \in Nat
    BY <1>2, <2>1, KindFinite
  <2>4. Count(q, code) # 0
    BY <2>2, <2>3
  <2>5. QED
    BY <2>1, <2>2, <2>3, <2>4
<1>5. /\ ~At(c, "ecart") /\ ~At(c, "play")
      /\ \A label : At(c, label)' <=> r.pc = label
  BY <1>1, <1>3 DEF At
<1> HIDE DEF q
<1>6. Wire(c)'
  <2>1. At(c, "connect")' => conn[c] = "refused"
    BY <1>2, <1>4, <1>5 DEF Wire, NotedCodes, AfterNote, q
  <2>2. /\ Count(Tail(q), "CANCELLED") # 0 => Count(q, "CANCELLED") # 0
        /\ Count(Tail(q), "REFUSE") # 0 => Count(q, "REFUSE") # 0
        /\ Count(Tail(q), "END_GAME") # 0 => Count(q, "END_GAME") # 0
    BY <1>4
  <2>3. q # <<>>
    BY <1>1
  <2>4. QED
    BY <1>1, <1>2, <1>3, <1>4, <2>1, <2>2, <2>3, ServerSame DEF Wire, q
<1>7. Duties(c)'
  <2>1. EcartDue(c)' = EcartDue(c)
    <3>1. /\ EcartDue(c) = Count(q, "INIT_DECK") + Count(toServer[c], "ECART")
          /\ EcartDue(c)' = Count(Tail(q), "INIT_DECK") + (IF r.pc = "ecart" THEN 1 ELSE 0)
                            + Count(toServer[c], "ECART")
      BY <1>1, <1>3, <1>4, <1>5 DEF EcartDue, q
    <3>2. Count(q, "INIT_DECK") = Count(Tail(q), "INIT_DECK") + (IF r.pc = "ecart" THEN 1 ELSE 0)
      BY <1>4 DEF NotedCodes, AfterNote
    <3>3. QED
      BY <3>1, <3>2
  <2>2. Turns(c)' = Turns(c)
    <3>1. /\ Turns(c) = Count(q, "ASK_FOR_CARD") + Count(toServer[c], "PLAY_CARD")
          /\ Turns(c)' = Count(Tail(q), "ASK_FOR_CARD") + (IF r.pc = "play" THEN 1 ELSE 0)
                         + Count(toServer[c], "PLAY_CARD")
      BY <1>1, <1>3, <1>4, <1>5 DEF Turns, q
    <3>2. Count(q, "ASK_FOR_CARD") = Count(Tail(q), "ASK_FOR_CARD") + (IF r.pc = "play" THEN 1 ELSE 0)
      BY <1>4 DEF NotedCodes, AfterNote
    <3>3. QED
      BY <3>1, <3>2
  <2>3. QED
    BY <1>1, <1>2, <2>1, <2>2, ServerSame DEF Duties
<1>8. Fresh(c)'
  <2>1. SUFFICES ASSUME srv.game_running, ~Asleep, c \in Playing
                 PROVE  /\ FreshQueue(Tail(q), r.info, CurrentInfo(c))
                        /\ \A k \in 1..Len(toServer[c]) : toServer[c][k].code = "PLAY_CARD" =>
                             toServer[c][k].played.last_played = SeatOf(c)
    BY <1>1, <1>3, ServerSame DEF Fresh
  <2>2. FreshQueue(q, cl[c].info, CurrentInfo(c))
    BY <1>2, <2>1 DEF Fresh, q
  <2>3. Count(q, "INIT_DECK") \in {0, 1}
    BY <1>2, <1>4, <1>5 DEF Duties, EcartDue, q
  <2>4. QED
    BY <1>1, <1>2, <2>1, <2>2, <2>3, FreshTail DEF Fresh
<1>9. Informed(c)'
  BY <1>1, <1>2, <1>3, InformedTail DEF Informed, q
<1>10. QED
  BY <1>1, <1>3, <1>6, <1>7, <1>8, <1>9, OneClient DEF ClientInv

LEMMA TakesNoteInv ==
  ASSUME UInv, Seated, NEW c \in Clients,
         \/ init_deck(c) \/ add_new_ecart(c) \/ receive_info(c)
         \/ asked_for_card(c) \/ show_pli(c) \/ add_pli(c)
  PROVE  UInv'
<1>1. cl = [d \in Clients |-> cl[d]] /\ IsClient(cl[c])
  BY DEF UInv, Functions, IsClient
<1>2. ASSUME NEW code, Handles(c, code)
      PROVE  /\ At(c, "main") /\ ClientReceive(c) /\ FromServer(c).code = code
             /\ UNCHANGED <<listening, backlog, conn, toServer, serverVars>>
  BY <1>2 DEF Handles, Receives
<1>3. CASE init_deck(c)
  <2>1. PICK r0 : r0 = [cl[c] EXCEPT !.deck = FromServer(c).deck]
    OBVIOUS
  <2>2. PICK r : r = [r0 EXCEPT !.pc = "ecart"]
    OBVIOUS
  <2>3. Handles(c, "INIT_DECK") /\ cl' = [cl EXCEPT ![c] = r]
    BY <1>1, <1>3, <2>1, <2>2 DEF init_deck, IsClient
  <2>4. IsClient(r0) /\ r0.info = cl[c].info
    BY <1>1, <2>1 DEF IsClient
  <2>5. IsClient(r) /\ r.pc = "ecart" /\ r.info = r0.info
    BY <2>2, <2>4 DEF IsClient
  <2>6. QED
    BY <2>3, <2>4, <2>5, <1>2, HandlesInv DEF NotedCodes, AfterNote
<1>4. CASE add_new_ecart(c)
  <2> DEFINE deck == cl[c].deck \o FromServer(c).deck
             r    == [cl[c] EXCEPT !.deck = deck, !.waiting_for_ecart = FALSE]
  <2>1. Handles(c, "ECARTS") /\ cl' = [cl EXCEPT ![c] = r]
    BY <1>1, <1>4 DEF add_new_ecart, IsClient
  <2> HIDE DEF deck
  <2>2. IsClient(r) /\ r.pc = cl[c].pc /\ r.info = cl[c].info
    BY <1>1, ServedClient
  <2>3. r.pc = "main"
    BY <2>1, <2>2 DEF Handles, Receives, At
  <2> HIDE DEF r
  <2>4. QED
    BY <2>1, <2>2, <2>3, <1>2, HandlesInv DEF NotedCodes, AfterNote
<1>5. CASE receive_info(c)
  <2> DEFINE r == [cl[c] EXCEPT !.info = FromServer(c).info]
  <2>1. Handles(c, "BASIC_INFO") /\ cl' = [cl EXCEPT ![c] = r]
    BY <1>1, <1>5 DEF receive_info, IsClient
  <2>2. IsClient(r) /\ r.pc = "main" /\ r.info = FromServer(c).info
    BY <1>1, <2>1 DEF IsClient, Handles, Receives, At
  <2> HIDE DEF r
  <2>3. QED
    BY <2>1, <2>2, <1>2, HandlesInv DEF NotedCodes, AfterNote
<1>6. CASE asked_for_card(c)
  <2> DEFINE r == [cl[c] EXCEPT !.pc = "play"]
  <2>1. Handles(c, "ASK_FOR_CARD") /\ cl' = [cl EXCEPT ![c] = r]
    BY <1>1, <1>6 DEF asked_for_card, Goto, IsClient
  <2>2. IsClient(r) /\ r.pc = "play" /\ r.info = cl[c].info
    BY <1>1 DEF IsClient
  <2> HIDE DEF r
  <2>3. QED
    BY <2>1, <2>2, <1>2, HandlesInv DEF NotedCodes, AfterNote
<1>7. CASE show_pli(c)
  <2> DEFINE r == cl[c]
  <2>1. Handles(c, "SHOW_PLI") /\ cl' = [cl EXCEPT ![c] = r]
    BY <1>1, <1>7 DEF show_pli
  <2>2. IsClient(r) /\ r.pc = "main" /\ r.info = cl[c].info
    BY <1>1, <2>1 DEF Handles, Receives, At
  <2> HIDE DEF r
  <2>3. QED
    BY <2>1, <2>2, <1>2, HandlesInv DEF NotedCodes, AfterNote
<1>8. CASE add_pli(c)
  <2> DEFINE deck == cl[c].plis \o FromServer(c).deck
             r    == [cl[c] EXCEPT !.plis = deck]
  <2>1. Handles(c, "ADD_PLI") /\ cl' = [cl EXCEPT ![c] = r]
    BY <1>1, <1>8 DEF add_pli, IsClient
  <2> HIDE DEF deck
  <2>2. IsClient(r) /\ r.pc = "main" /\ r.info = cl[c].info
    BY <1>1, <2>1 DEF IsClient, Handles, Receives, At
  <2> HIDE DEF r
  <2>3. QED
    BY <2>1, <2>2, <1>2, HandlesInv DEF NotedCodes, AfterNote
<1>9. QED
  BY <1>3, <1>4, <1>5, <1>6, <1>7, <1>8

\* What the client says of its own accord, or when its user has answered: the
\* duty goes from the user to the queue.
LEMMA AnswersInv ==
  ASSUME UInv, Seated, NEW c \in Clients, NEW m, NEW from, NEW r,
         At(c, from),
         \/ from = "ecart" /\ m.code = "ECART"
         \/ from = "play" /\ m.code = "PLAY_CARD" /\ m.played.last_played = cl[c].info.player_index
         \/ from \in {"signup", "main"} /\ m.code \in {"ADD_PLAYER", "ASK_BASIC_INFO", "UPDATE_SCORE"},
         \/ UNCHANGED toClient
         \/ from = "main" /\ ClientReceive(c) /\ Head(toClient[c]).code = "ADD_SCORE",
         ClientSend(c, m), UNCHANGED <<listening, backlog, serverVars>>,
         cl' = [cl EXCEPT ![c] = r], IsClient(r), r.pc \in {"main", "exited"}, r.info = cl[c].info
  PROVE  UInv'
<1> DEFINE q == toClient[c]
           q1 == toClient'[c]
           s == toServer[c]
           s1 == toServer'[c]
<1>1. /\ Functions /\ Wire(c) /\ Duties(c) /\ Fresh(c) /\ Informed(c) /\ IsQueue(q) /\ IsQueue(s)
  BY DEF UInv, ClientInv, Wire
<1>2. /\ Functions' /\ cl'[c] = r
      /\ \A d \in Clients \ {c} : /\ toClient'[d] = toClient[d] /\ toServer'[d] = toServer[d]
                                  /\ conn'[d] = conn[d] /\ cl'[d] = cl[d]
  BY <1>1 DEF Functions, IsClient, ClientSend, ClientReceive
<1>3. /\ s1 = IF conn[c] = "open" THEN s \o <<m>> ELSE s
      /\ conn'[c] = IF conn[c] = "dropped" THEN "broken" ELSE conn[c]
  <2>1. Append(s, m) = s \o <<m>>
    BY <1>1, QueueAppend
  <2>2. QED
    BY <1>1, <2>1 DEF Functions, ClientSend
<1>4. \/ q1 = q
      \/ from = "main" /\ q # <<>> /\ q1 = Tail(q) /\ Head(q).code = "ADD_SCORE"
  BY <1>1 DEF Functions, ClientReceive
<1> HIDE DEF q, q1, s, s1
<1>5. /\ IsQueue(q1)
      /\ \A x : Count(q1, x) \in Nat /\ Count(q, x) \in Nat
      /\ \A x : x # "ADD_SCORE" => Count(q1, x) = Count(q, x)
  <2>1. IsQueue(q1)
    BY <1>1, <1>4, QueueTail
  <2>2. \A x : Count(q1, x) \in Nat /\ Count(q, x) \in Nat
    BY <1>1, <2>1, KindFinite
  <2>3. ASSUME NEW x, x # "ADD_SCORE" PROVE Count(q1, x) = Count(q, x)
    <3>1. CASE q1 = q
      BY <3>1
    <3>2. CASE q # <<>> /\ q1 = Tail(q) /\ Head(q).code = "ADD_SCORE"
      <4>1. Count(q, x) = Count(Tail(q), x) + (IF Head(q).code = x THEN 1 ELSE 0)
        BY <1>1, <3>2, CountTail
      <4>2. QED
        BY <2>2, <2>3, <3>2, <4>1
    <3>3. QED
      BY <1>4, <3>1, <3>2
  <2>4. QED
    BY <2>1, <2>2, <2>3
<1>6. /\ IsQueue(s1)
      /\ \A x : Count(s1, x) \in Nat /\ Count(s, x) \in Nat
      /\ \A x : conn[c] = "open" => Count(s1, x) = Count(s, x) + (IF m.code = x THEN 1 ELSE 0)
  <2>1. IsQueue(<<m>>)
    BY ShortQueues
  <2>2. IsQueue(s1)
    BY <1>1, <1>3, <2>1, QueueCat
  <2>3. \A x : Count(s1, x) \in Nat /\ Count(s, x) \in Nat
    BY <1>1, <2>2, KindFinite
  <2>4. ASSUME NEW x, conn[c] = "open"
        PROVE  Count(s1, x) = Count(s, x) + (IF m.code = x THEN 1 ELSE 0)
    BY <1>1, <1>3, <2>1, <2>4, CountCat, CountOne
  <2>5. QED
    BY <2>2, <2>3, <2>4
<1>7. /\ \A label : At(c, label) <=> label = from
      /\ \A label : At(c, label)' <=> label = r.pc
  BY <1>2 DEF At
<1>8. from \in {"ecart", "play"} => conn[c] = "open" /\ c \in Playing /\ srv.game_running /\ ~Asleep
  <2>1. ASSUME from \in {"ecart", "play"} PROVE OwesEcart(c) \/ HasTurn(c)
    <3>1. /\ EcartDue(c) # 0 \/ Turns(c) # 0
      <4>1. CASE from = "ecart"
        <5>1. At(c, "ecart")
          BY <1>7, <4>1
        <5>2. QED
          BY <1>5, <1>6, <5>1 DEF EcartDue, q, s
      <4>2. CASE from = "play"
        <5>1. At(c, "play")
          BY <1>7, <4>2
        <5>2. QED
          BY <1>5, <1>6, <5>1 DEF Turns, q, s
      <4>3. QED
        BY <2>1, <4>1, <4>2
    <3>2. QED
      BY <1>1, <3>1 DEF Duties
  <2>2. HasTurn(c) => c \in Playing
    BY TurnHolder DEF UInv
  <2>3. OwesEcart(c) \/ HasTurn(c) => srv.game_running /\ ~srv.updating_score
    BY DEF OwesEcart, HasTurn, InEcarts, InTricks
  <2>4. OwesEcart(c) => c \in Playing
    BY DEF OwesEcart
  <2>5. QED
    BY <1>1, <2>1, <2>2, <2>3, <2>4 DEF UInv, Phases, Wire, Open
<1>9. Wire(c)'
  <2>1. /\ Count(q1, "CANCELLED") = Count(q, "CANCELLED")
        /\ Count(q1, "REFUSE") = Count(q, "REFUSE")
        /\ Count(q1, "END_GAME") = Count(q, "END_GAME")
    BY <1>5
  <2>2. ~At(c, "connect")'
    BY <1>7
  <2>3. conn[c] \in {"backlog", "closed"} => q1 = <<>>
    BY <1>1, <1>4 DEF Wire, q
  <2>4. conn'[c] = conn[c] \/ (conn[c] = "dropped" /\ conn'[c] = "broken")
    BY <1>3
  <2>5. QED
    BY <1>1, <1>5, <1>6, <2>1, <2>2, <2>3, <2>4, ServerSame DEF Wire, Open, q, q1, s1
<1>10. Duties(c)'
  <2>1. EcartDue(c)' = EcartDue(c) /\ Turns(c)' = Turns(c)
    <3>1. /\ EcartDue(c) = Count(q, "INIT_DECK") + (IF from = "ecart" THEN 1 ELSE 0) + Count(s, "ECART")
          /\ EcartDue(c)' = Count(q, "INIT_DECK") + Count(s1, "ECART")
          /\ Turns(c) = Count(q, "ASK_FOR_CARD") + (IF from = "play" THEN 1 ELSE 0)
                        + Count(s, "PLAY_CARD")
          /\ Turns(c)' = Count(q, "ASK_FOR_CARD") + Count(s1, "PLAY_CARD")
      <4>1. (At(c, "ecart")' <=> FALSE) /\ (At(c, "play")' <=> FALSE)
        BY <1>7
      <4>2. (At(c, "ecart") <=> from = "ecart") /\ (At(c, "play") <=> from = "play")
        BY <1>7
      <4>3. /\ Count(q1, "INIT_DECK") = Count(q, "INIT_DECK")
            /\ Count(q1, "ASK_FOR_CARD") = Count(q, "ASK_FOR_CARD")
        BY <1>5
      <4>4. QED
        BY <1>5, <1>6, <4>1, <4>2, <4>3 DEF EcartDue, Turns, q, q1, s, s1
    <3>2. /\ Count(s1, "ECART") = Count(s, "ECART") + (IF from = "ecart" THEN 1 ELSE 0)
          /\ Count(s1, "PLAY_CARD") = Count(s, "PLAY_CARD") + (IF from = "play" THEN 1 ELSE 0)
      BY <1>3, <1>6, <1>8
    <3>3. QED
      BY <1>5, <1>6, <3>1, <3>2
  <2>2. QED
    BY <1>1, <2>1, ServerSame DEF Duties
<1>11. Fresh(c)'
  <2>1. SUFFICES ASSUME srv.game_running, ~Asleep, c \in Playing
                 PROVE  /\ FreshQueue(q1, cl[c].info, CurrentInfo(c))
                        /\ \A k \in 1..Len(s1) : s1[k].code = "PLAY_CARD" =>
                             s1[k].played.last_played = SeatOf(c)
    BY <1>2, ServerSame DEF Fresh, q1, s1
  <2>2. /\ FreshQueue(q, cl[c].info, CurrentInfo(c))
        /\ \A k \in 1..Len(s) : s[k].code = "PLAY_CARD" => s[k].played.last_played = SeatOf(c)
    BY <1>1, <2>1 DEF Fresh, q, s
  <2>3. FreshQueue(q1, cl[c].info, CurrentInfo(c))
    <3>1. Count(q, "INIT_DECK") \in {0, 1}
      BY <1>1, <1>5, <1>6 DEF Duties, EcartDue, q, s
    <3>2. QED
      BY <1>1, <1>4, <2>2, <3>1, FreshTail
  <2>4. m.code = "PLAY_CARD" => m.played.last_played = SeatOf(c)
    <3>1. SUFFICES ASSUME from = "play" PROVE cl[c].info = CurrentInfo(c)
      BY DEF CurrentInfo
    <3>2. Count(q, "INIT_DECK") = 0
      <4>1. At(c, "play") /\ Turns(c) # 0
        BY <1>5, <1>6, <1>7, <3>1 DEF Turns, q, s
      <4>2. InTricks
        BY <1>1, <4>1 DEF Duties, HasTurn
      <4>3. EcartDue(c) = 0
        BY <1>1, <4>2 DEF Duties, OwesEcart, InEcarts
      <4>4. QED
        BY <1>5, <1>6, <4>3 DEF EcartDue, q, s
    <3>3. QED
      BY <2>2, <3>2 DEF FreshQueue
  <2>5. ASSUME NEW k \in 1..Len(s1), s1[k].code = "PLAY_CARD"
        PROVE  s1[k].played.last_played = SeatOf(c)
    <3>1. CASE s1 = s
      BY <2>2, <2>5, <3>1
    <3>2. CASE s1 = s \o <<m>>
      <4>1. Len(s) \in Nat /\ Len(s1) = Len(s) + 1
            /\ (\A j \in 1..Len(s) : s1[j] = s[j]) /\ s1[1 + Len(s)] = m
        <5>1. IsQueue(<<m>>) /\ Len(<<m>>) = 1 /\ <<m>>[1] = m
          BY ShortQueues
        <5>2. QED
          BY <1>1, <3>2, <5>1, QueueCat, QueueLen
      <4>2. k \in 1..Len(s) \/ k = 1 + Len(s)
        BY <4>1
      <4>3. QED
        BY <2>2, <2>4, <2>5, <4>1, <4>2
    <3>3. QED
      BY <1>3, <3>1, <3>2
  <2>6. QED
    BY <2>3, <2>5
<1>12. Informed(c)'
  <2>1. InformedQueue(q1, cl[c].info)
    BY <1>1, <1>4, InformedTail DEF Informed, q
  <2>2. QED
    BY <1>2, <2>1 DEF Informed, q1
<1>13. conn[c] = "backlog" => conn'[c] = "backlog"
  BY <1>3
<1>14. QED
  BY <1>2, <1>9, <1>10, <1>11, <1>12, <1>13, OneClient DEF ClientInv

\* The greeting of the server is received in the same way.
LEMMA GreetedInv ==
  ASSUME UInv, Seated, NEW c \in Clients, Welcomed(c) \/ Refused(c)
  PROVE  UInv'
<1> DEFINE code == FromServer(c).code
           r    == [cl[c] EXCEPT !.pc = AfterNote(code)]
<1>1. /\ At(c, "greet") /\ ClientReceive(c) /\ code \in {"OK", "REFUSE"}
      /\ UNCHANGED <<listening, backlog, conn, toServer, serverVars>>
  BY DEF Welcomed, Refused, Greeting, FromServer
<1>2. cl' = [cl EXCEPT ![c] = r]
  BY DEF Welcomed, Refused, Greeting, Goto, AfterNote, FromServer, UInv, Functions
<1>3. IsClient(r) /\ r.pc = AfterNote(code) /\ r.info = cl[c].info
  BY DEF UInv, Functions, IsClient
<1> HIDE DEF r
<1>4. QED
  BY <1>1, <1>2, <1>3, HandlesInv DEF NotedCodes

\* What a client sends, by way of mSent.
LEMMA SendInv ==
  ASSUME UInv, Seated, NEW c \in Clients, NEW m, NEW from, NEW fields, IsClient(fields),
         fields.info = cl[c].info, At(c, from), Send(c, m, fields),
         \/ from = "ecart" /\ m.code = "ECART"
         \/ from = "play" /\ m.code = "PLAY_CARD" /\ m.played.last_played = cl[c].info.player_index
         \/ from \in {"signup", "main"} /\ m.code \in {"ADD_PLAYER", "ASK_BASIC_INFO", "UPDATE_SCORE"},
         \/ UNCHANGED toClient
         \/ from = "main" /\ ClientReceive(c) /\ Head(toClient[c]).code = "ADD_SCORE"
  PROVE  UInv'
<1>1. PICK r0 : r0 = [fields EXCEPT !.pc = AfterSend(c)]
  OBVIOUS
<1>2. PICK r : r = [r0 EXCEPT !.mSent = m]
  OBVIOUS
<1>3. /\ ClientSend(c, m) /\ UNCHANGED <<listening, backlog, serverVars>>
      /\ cl' = [cl EXCEPT ![c] = r]
  BY <1>1, <1>2 DEF Send
<1>4. IsClient(r0) /\ r0.info = cl[c].info /\ r0.pc \in {"main", "exited"}
  BY <1>1 DEF IsClient, AfterSend
<1>5. IsClient(r) /\ r.info = cl[c].info /\ r.pc \in {"main", "exited"}
  BY <1>2, <1>4 DEF IsClient
<1>6. QED
  BY <1>3, <1>5, AnswersInv

LEMMA SpeaksInv ==
  ASSUME UInv, Seated, NEW c \in Clients,
         signup(c) \/ send_ecart(c) \/ play_card(c) \/ add_score(c) \/ ask_basic_info(c)
  PROVE  UInv'
<1>1. cl = [d \in Clients |-> cl[d]] /\ IsClient(cl[c])
  BY DEF UInv, Functions
<1>2. CASE signup(c)
  BY <1>1, <1>2, SendInv DEF signup
<1>3. CASE send_ecart(c)
  <2>1. PICK I \in SUBSET DOMAIN cl[c].deck :
          Send(c, [code |-> "ECART", deck |-> CardsAt(cl[c].deck, I)],
               [cl[c] EXCEPT !.deck = CardsAt(@, DOMAIN @ \ I), !.waiting_for_ecart = TRUE])
    BY <1>3 DEF send_ecart
  <2>2. PICK f0 : f0 = [cl[c] EXCEPT !.deck = CardsAt(cl[c].deck, DOMAIN cl[c].deck \ I)]
    OBVIOUS
  <2>3. PICK fields : fields = [f0 EXCEPT !.waiting_for_ecart = TRUE]
    OBVIOUS
  <2>4. PICK m : m = [code |-> "ECART", deck |-> CardsAt(cl[c].deck, I)]
    OBVIOUS
  <2>5. Send(c, m, fields)
    BY <2>1, <2>2, <2>3, <2>4
  <2>6. IsClient(f0) /\ f0.info = cl[c].info
    BY <1>1, <2>2 DEF IsClient
  <2>7. IsClient(fields) /\ fields.info = cl[c].info /\ m.code = "ECART"
    BY <2>3, <2>4, <2>6 DEF IsClient
  <2>8. At(c, "ecart") /\ UNCHANGED toClient
    BY <1>3 DEF send_ecart
  <2>9. QED
    BY <2>5, <2>7, <2>8, SendInv
<1>4. CASE play_card(c)
  <2>1. PICK k \in DOMAIN cl[c].deck :
          Send(c, [code |-> "PLAY_CARD",
                   played |-> [card |-> cl[c].deck[k], last_played |-> cl[c].info.player_index]],
               [cl[c] EXCEPT !.deck = RemoveAt(@, k)])
    BY <1>4 DEF play_card
  <2>2. PICK fields : fields = [cl[c] EXCEPT !.deck = RemoveAt(cl[c].deck, k)]
    OBVIOUS
  <2>3. PICK m : m = [code |-> "PLAY_CARD",
                      played |-> [card |-> cl[c].deck[k], last_played |-> cl[c].info.player_index]]
    OBVIOUS
  <2>4. Send(c, m, fields)
    BY <2>1, <2>2, <2>3
  <2>5. IsClient(fields) /\ fields.info = cl[c].info
    BY <1>1, <2>2 DEF IsClient
  <2>6. m.code = "PLAY_CARD" /\ m.played.last_played = cl[c].info.player_index
    BY <2>3
  <2>7. At(c, "play") /\ UNCHANGED toClient
    BY <1>4 DEF play_card
  <2>8. QED
    BY <2>4, <2>5, <2>6, <2>7, SendInv
<1>5. CASE add_score(c)
  <2>1. PICK fields : fields = [cl[c] EXCEPT !.plis = <<>>]
    OBVIOUS
  <2>2. PICK m : m = [code |-> "UPDATE_SCORE",
                      score |-> Points(cl[c].plis, cl[c].info.papayoo)]
    OBVIOUS
  <2>3. /\ Send(c, m, fields) /\ At(c, "main") /\ ClientReceive(c)
        /\ Head(toClient[c]).code = "ADD_SCORE"
    BY <1>5, <2>1, <2>2 DEF add_score, Receives, FromServer
  <2>4. IsClient(fields) /\ fields.info = cl[c].info /\ m.code = "UPDATE_SCORE"
    BY <1>1, <2>1, <2>2 DEF IsClient
  <2>5. QED
    BY <2>3, <2>4, SendInv
<1>6. CASE ask_basic_info(c)
  <2>1. PICK m : m = [code |-> "ASK_BASIC_INFO"]
    OBVIOUS
  <2>2. PICK r0 : r0 = [cl[c] EXCEPT !.mSent = m]
    OBVIOUS
  <2>3. PICK r : r = [r0 EXCEPT !.pc = AfterSend(c)]
    OBVIOUS
  <2>4. /\ ClientSend(c, m) /\ UNCHANGED <<listening, backlog, serverVars, toClient>>
        /\ cl' = [cl EXCEPT ![c] = r] /\ At(c, "main")
    BY <1>1, <1>6, <2>1, <2>2, <2>3 DEF ask_basic_info, Types
  <2>5. IsClient(r0) /\ r0.info = cl[c].info /\ m.code = "ASK_BASIC_INFO"
    BY <1>1, <2>1, <2>2 DEF IsClient
  <2>6. IsClient(r) /\ r.info = cl[c].info /\ r.pc \in {"main", "exited"}
    BY <2>3, <2>5 DEF IsClient, AfterSend
  <2>7. QED
    BY <2>4, <2>5, <2>6, AnswersInv
<1>7. QED
  BY <1>2, <1>3, <1>4, <1>5, <1>6

\* A client that owes nothing, and does not ask its user, owes nothing after
\* its queue has been emptied.
LEMMA OwesNothing ==
  ASSUME UInv, Seated, NEW c \in Clients, Asleep \/ c \notin Playing,
         UNCHANGED serverVars, toClient'[c] = <<>>,
         toServer'[c] = toServer[c] \/ toServer'[c] = <<>>,
         ~At(c, "ecart")' /\ ~At(c, "play")'
  PROVE  Duties(c)' /\ Fresh(c)' /\ Informed(c)'
<1>1. Wire(c) /\ Duties(c) /\ Phases /\ Distinct
  BY DEF UInv, ClientInv
<1>2. ~OwesEcart(c) /\ ~HasTurn(c)
  BY <1>1, TurnHolder DEF OwesEcart, InEcarts, HasTurn, InTricks, Phases
<1>3. Count(toServer[c], "ECART") = 0 /\ Count(toServer[c], "PLAY_CARD") = 0
  <2>1. \A x : Count(toClient[c], x) \in Nat /\ Count(toServer[c], x) \in Nat
    BY <1>1, KindFinite DEF Wire
  <2>2. EcartDue(c) = 0 /\ Turns(c) = 0
    BY <1>1, <1>2 DEF Duties
  <2>3. Count(toServer[c], "ECART") = 0
    <3>1. (IF At(c, "ecart") THEN 1 ELSE 0) \in Nat
      OBVIOUS
    <3>2. QED
      BY <2>1, <2>2, <3>1 DEF EcartDue
  <2>4. Count(toServer[c], "PLAY_CARD") = 0
    <3>1. (IF At(c, "play") THEN 1 ELSE 0) \in Nat
      OBVIOUS
    <3>2. QED
      BY <2>1, <2>2, <3>1 DEF Turns
  <2>5. QED
    BY <2>3, <2>4
<1>4. EcartDue(c)' = 0 /\ Turns(c)' = 0
  BY <1>3, CountEmpty DEF EcartDue, Turns
<1>5. Duties(c)'
  BY <1>2, <1>4, ServerSame DEF Duties
<1>6. Fresh(c)'
  BY ServerSame DEF Fresh
<1>7. Informed(c)'
  BY CountEmpty DEF Informed, InformedQueue
<1>8. QED
  BY <1>5, <1>6, <1>7

LEMMA ConnectInv ==
  ASSUME UInv, Seated, NEW c \in Clients, Connect(c)
  PROVE  UInv'
<1> DEFINE r == [cl[c] EXCEPT !.pc = "greet"]
<1>1. Functions /\ Wire(c) /\ Distinct
  BY DEF UInv, ClientInv
<1>2. /\ At(c, "connect") /\ UNCHANGED <<listening, serverVars>>
      /\ conn' = [conn EXCEPT ![c] = "backlog"] /\ backlog' = Append(backlog, c)
      /\ toServer' = [toServer EXCEPT ![c] = <<>>]
      /\ toClient' = [toClient EXCEPT ![c] = <<>>]
      /\ cl' = [cl EXCEPT ![c] = r]
  BY <1>1 DEF Connect, OpenConnection, Goto, Functions
<1>3. IsClient(r) /\ r.pc = "greet"
  BY <1>1 DEF Functions, IsClient
<1> HIDE DEF r
<1>4. conn[c] \in {"none", "dropped", "refused"} /\ c \notin Playing
  BY <1>1, <1>2 DEF Wire, Open
<1>5. /\ toClient'[c] = <<>> /\ toServer'[c] = <<>> /\ conn'[c] = "backlog" /\ cl'[c] = r
      /\ \A d \in Clients \ {c} : /\ toClient'[d] = toClient[d] /\ toServer'[d] = toServer[d]
                                  /\ conn'[d] = conn[d] /\ cl'[d] = cl[d]
  BY <1>1, <1>2 DEF Functions
<1>6. Functions'
  <2>1. \A d \in Clients : IsClient(cl'[d])
    BY <1>1, <1>3, <1>5 DEF Functions
  <2>2. cl' = [d \in Clients |-> cl'[d]] /\ toClient' = [d \in Clients |-> toClient'[d]]
        /\ toServer' = [d \in Clients |-> toServer'[d]]
    BY <1>1, <1>2 DEF Functions
  <2>3. QED
    BY <1>1, <1>2, <2>1, <2>2 DEF Functions, IsClient
<1>7. Wire(c)'
  <2>1. IsQueue(toClient'[c]) /\ IsQueue(toServer'[c]) /\ \A x : Count(toClient'[c], x) = 0
    BY <1>5, ShortQueues, CountEmpty
  <2>2. ~At(c, "connect")'
    BY <1>3, <1>5 DEF At
  <2>3. QED
    BY <1>2, <1>4, <1>5, <2>1, <2>2, ServerSame DEF Wire, Open
<1>8. Duties(c)' /\ Fresh(c)' /\ Informed(c)'
  BY <1>2, <1>3, <1>4, <1>5, OwesNothing DEF At
<1>9. QED
  BY <1>2, <1>4, <1>5, <1>6, <1>7, <1>8, OneClient DEF ClientInv

LEMMA GreetingLostInv ==
  ASSUME UInv, Seated, NEW c \in Clients, GreetingLost(c)
  PROVE  UInv'
<1> DEFINE r == [cl[c] EXCEPT !.pc = "connect"]
<1>1. Functions /\ Wire(c) /\ Duties(c) /\ Fresh(c) /\ Informed(c)
  BY DEF UInv, ClientInv
<1>2. /\ At(c, "greet") /\ UNCHANGED <<network, serverVars>>
      /\ toClient[c] = <<>> /\ conn[c] = "dropped"
      /\ cl' = [cl EXCEPT ![c] = r]
  BY <1>1 DEF GreetingLost, Goto, Functions
<1>3. IsClient(r) /\ r.pc = "connect"
  BY <1>1 DEF Functions, IsClient
<1> HIDE DEF r
<1>4. UNCHANGED <<listening, backlog, conn, toServer, toClient>>
  BY <1>2 DEF network
<1>5. /\ cl'[c] = r /\ \A d \in Clients \ {c} : cl'[d] = cl[d]
      /\ Functions'
  <2>1. cl'[c] = r /\ \A d \in Clients \ {c} : cl'[d] = cl[d]
    BY <1>1, <1>2 DEF Functions
  <2>2. \A d \in Clients : IsClient(cl'[d])
    BY <1>1, <1>3, <2>1 DEF Functions
  <2>3. cl' = [d \in Clients |-> cl'[d]]
    BY <1>1, <1>2 DEF Functions
  <2>4. QED
    BY <1>1, <1>4, <2>1, <2>2, <2>3 DEF Functions, IsClient
<1>6. Wire(c)'
  BY <1>1, <1>2, <1>4, ServerSame DEF Wire
<1>7. Duties(c)' /\ Fresh(c)' /\ Informed(c)'
  BY <1>1, <1>2, <1>3, <1>4, <1>5, OwesNothing DEF At, Wire, Open
<1>8. QED
  BY <1>2, <1>4, <1>5, <1>6, <1>7, OneClient DEF ClientInv

\* A client whose game is over leaves while the server sleeps, or later.
LEMMA EndClientInv ==
  ASSUME UInv, Seated, NEW c \in Clients, end_client(c)
  PROVE  UInv'
<1> DEFINE r == [cl[c] EXCEPT !.pc = "exited"]
<1>1. Functions /\ Wire(c) /\ Duties(c)
  BY DEF UInv, ClientInv
<1>2. /\ At(c, "main") /\ UNCHANGED <<listening, backlog, toServer, serverVars>>
      /\ toClient[c] # <<>> /\ Head(toClient[c]).code = "END_GAME" /\ ClientClose(c)
      /\ cl' = [cl EXCEPT ![c] = r]
  BY <1>1 DEF end_client, FromServer, Goto, Functions
<1>3. IsClient(r) /\ r.pc = "exited"
  BY <1>1 DEF Functions, IsClient
<1> HIDE DEF r
<1>4. Count(toClient[c], "END_GAME") # 0
  <2>1. /\ Count(toClient[c], "END_GAME") = Count(Tail(toClient[c]), "END_GAME") + 1
        /\ Count(Tail(toClient[c]), "END_GAME") \in Nat
    BY <1>1, <1>2, CountTail, QueueTail, KindFinite DEF Wire
  <2>2. QED
    BY <2>1
<1>5. /\ conn[c] \notin {"backlog", "closed"}
      /\ conn[c] = "open" => Asleep
      /\ c \in Playing <=> conn[c] = "open"
  BY <1>1, <1>2, <1>4 DEF Wire, Open
<1>6. /\ toClient'[c] = <<>> /\ conn'[c] = (IF conn[c] = "open" THEN "closed" ELSE "none")
      /\ cl'[c] = r
      /\ \A d \in Clients \ {c} : /\ toClient'[d] = toClient[d]
                                  /\ conn'[d] = conn[d] /\ cl'[d] = cl[d]
  BY <1>1, <1>2, <1>5 DEF Functions, ClientClose
<1>7. Functions'
  <2>1. \A d \in Clients : IsClient(cl'[d])
    BY <1>1, <1>3, <1>6 DEF Functions
  <2>2. cl' = [d \in Clients |-> cl'[d]] /\ toClient' = [d \in Clients |-> toClient'[d]]
    BY <1>1, <1>2 DEF Functions, ClientClose
  <2>3. conn' \in [Clients -> {"none", "backlog", "open", "dropped", "broken", "refused", "closed"}]
    BY <1>1, <1>2 DEF Functions, ClientClose
  <2>4. QED
    BY <1>1, <1>2, <2>1, <2>2, <2>3 DEF Functions, IsClient
<1>8. Wire(c)'
  <2>1. IsQueue(toClient'[c]) /\ \A x : Count(toClient'[c], x) = 0
    BY <1>6, ShortQueues, CountEmpty
  <2>2. ~At(c, "connect")'
    BY <1>3, <1>6 DEF At
  <2>3. QED
    BY <1>1, <1>2, <1>5, <1>6, <2>1, <2>2, ServerSame DEF Wire, Open
<1>9. Duties(c)' /\ Fresh(c)' /\ Informed(c)'
  BY <1>2, <1>3, <1>5, <1>6, OwesNothing DEF At
<1>10. QED
  BY <1>2, <1>5, <1>6, <1>7, <1>8, <1>9, OneClient DEF ClientInv

\* What a client does, as long as nobody is disturbed.
LEMMA ClientInvStep ==
  ASSUME Undisturbed, UInv, Seated, ClientNext
  PROVE  UInv'
<1> SUFFICES ASSUME NEW c \in Clients, ClientStep(c) \/ Disturbs(c) PROVE UInv'
  BY DEF ClientNext
<1>1. Functions /\ Wire(c) /\ Informed(c)
  BY DEF UInv, ClientInv
<1>2. ~ConnectFails(c)
  BY <1>1 DEF ConnectFails, Functions
<1>3. ~resend(c) /\ ~quit(c)
  BY DEF Undisturbed, resend, Types, quit
<1>4. ASSUME toClient[c] # <<>> PROVE Count(toClient[c], FromServer(c).code) # 0
  <2>1. /\ Count(toClient[c], FromServer(c).code) = Count(Tail(toClient[c]), FromServer(c).code) + 1
        /\ Count(Tail(toClient[c]), FromServer(c).code) \in Nat
    BY <1>1, <1>4, CountTail, QueueTail, KindFinite DEF Wire, FromServer
  <2>2. QED
    BY <2>1
<1>5. ~DivisionByZero(c)
  BY <1>1, <1>4 DEF DivisionByZero, Informed, InformedQueue
<1>6. ~game_cancelled(c)
  BY <1>1, <1>4 DEF game_cancelled, Wire
<1>7. QED
  BY <1>2, <1>3, <1>5, <1>6, ConnectInv, GreetedInv, GreetingLostInv, SpeaksInv, TakesNoteInv,
     EndClientInv
  DEF ClientStep, Disturbs, Connects, Reacts, Answers

-----------------------------------------------------------------------------
(* Steps of the server.                                                    *)

\* The seats, as the players see them.
SameSeats == /\ Present' = Present /\ amount_players' = amount_players /\ Playing' = Playing
             /\ \A i \in Present : Player(i)' = Player(i)
             /\ \A c \in Playing : SeatOf(c)' = SeatOf(c)

SaidCodes == {"BASIC_INFO", "ECARTS", "ASK_FOR_CARD", "SHOW_PLI", "ADD_PLI", "ADD_SCORE", "END_GAME"}

\* What the server may say to a client in one step, besides a deal.
MaySay(c, out) ==
  /\ IsQueue(out)
  /\ c \notin Playing => out = <<>>
  /\ \A k \in 1..Len(out) :
       /\ out[k].code \in SaidCodes
       /\ out[k].code = "BASIC_INFO" => c \in Playing /\ out[k].info = CurrentInfo(c)
       /\ out[k].code = "ECARTS" => cl[c].info.amount_players # 0
       /\ out[k].code = "END_GAME" => Asleep'

Says(c, out) == MaySay(c, out) /\ toClient'[c] = toClient[c] \o out

\* What it has received from the client in that step.
Hears(c, got) == \/ got = <<>> /\ toServer'[c] = toServer[c]
                 \/ /\ toServer[c] # <<>> /\ got = <<Head(toServer[c])>>
                    /\ toServer'[c] = Tail(toServer[c])

\* The duties before and after are those that the messages take and give.
Balanced(c, out, got) ==
  /\ (IF OwesEcart(c) THEN 1 ELSE 0) = (IF OwesEcart(c)' THEN 1 ELSE 0) + Count(got, "ECART")
  /\ (IF HasTurn(c) THEN 1 ELSE 0) + Count(out, "ASK_FOR_CARD")
       = (IF HasTurn(c)' THEN 1 ELSE 0) + Count(got, "PLAY_CARD")

\* What is left of the messages of a client to the server.
LEMMA HearsFacts ==
  ASSUME NEW c, IsQueue(toServer[c]), NEW got, Hears(c, got)
  PROVE  /\ IsQueue(toServer'[c]) /\ IsQueue(got)
         /\ \A x : /\ Count(toServer[c], x) = Count(toServer'[c], x) + Count(got, x)
                   /\ Count(toServer[c], x) \in Nat /\ Count(toServer'[c], x) \in Nat
                   /\ Count(got, x) \in Nat
         /\ \A k \in 1..Len(toServer'[c]) :
              \E j \in 1..Len(toServer[c]) : toServer'[c][k] = toServer[c][j]
<1> DEFINE s  == toServer[c]
           s1 == toServer'[c]
<1>1. \/ got = <<>> /\ s1 = s
      \/ s # <<>> /\ got = <<Head(s)>> /\ s1 = Tail(s)
  BY DEF Hears
<1>2. IsQueue(s)
  OBVIOUS
<1> HIDE DEF s, s1
<1>3. CASE got = <<>> /\ s1 = s
  <2>1. IsQueue(got) /\ \A x : Count(got, x) = 0 /\ Count(s, x) \in Nat
    BY <1>2, <1>3, ShortQueues, CountEmpty, KindFinite
  <2>2. \A x : Count(s, x) = Count(s1, x) + Count(got, x)
    BY <1>3, <2>1
  <2>3. QED
    BY <1>2, <1>3, <2>1, <2>2 DEF s, s1
<1>4. CASE s # <<>> /\ got = <<Head(s)>> /\ s1 = Tail(s)
  <2>1. IsQueue(got) /\ IsQueue(s1)
    BY <1>2, <1>4, ShortQueues, QueueTail
  <2>2. \A x : Count(s, x) \in Nat /\ Count(s1, x) \in Nat /\ Count(got, x) \in Nat
    BY <1>2, <2>1, KindFinite
  <2>3. \A x : Count(s, x) = Count(s1, x) + Count(got, x)
    <3>1. \A x : Count(got, x) = IF Head(s).code = x THEN 1 ELSE 0
      BY <1>4, CountOne
    <3>2. \A x : Count(s, x) = Count(s1, x) + (IF Head(s).code = x THEN 1 ELSE 0)
      BY <1>2, <1>4, CountTail
    <3>3. QED
      BY <3>1, <3>2
  <2>4. \A k \in 1..Len(s1) : \E j \in 1..Len(s) : s1[k] = s[j]
    <3>1. Len(s) \in Nat \ {0} /\ Len(s1) = Len(s) - 1 /\ \A k \in 1..Len(s) - 1 : s1[k] = s[k + 1]
      BY <1>2, <1>4, QueueTail
    <3>2. \A k \in 1..Len(s1) : k + 1 \in 1..Len(s) /\ k \in 1..Len(s) - 1
      BY <3>1
    <3>3. QED
      BY <3>1, <3>2
  <2>5. QED
    BY <2>1, <2>2, <2>3, <2>4 DEF s, s1
<1>5. QED
  BY <1>1, <1>3, <1>4

\* What a client still has to receive.
LEMMA SaysFacts ==
  ASSUME NEW c, IsQueue(toClient[c]), NEW out, Says(c, out)
  PROVE  /\ IsQueue(toClient'[c])
         /\ \A x : /\ Count(toClient'[c], x) = Count(toClient[c], x) + Count(out, x)
                   /\ Count(toClient[c], x) \in Nat /\ Count(out, x) \in Nat
         /\ \A x : x \notin SaidCodes => Count(out, x) = 0
         /\ Count(out, "END_GAME") # 0 => Asleep'
         /\ Count(out, "ECARTS") # 0 => cl[c].info.amount_players # 0
<1>1. IsQueue(out) /\ toClient'[c] = toClient[c] \o out
  BY DEF Says, MaySay
<1>2. IsQueue(toClient'[c])
  BY <1>1, QueueCat
<1>3. \A x : /\ Count(toClient'[c], x) = Count(toClient[c], x) + Count(out, x)
             /\ Count(toClient[c], x) \in Nat /\ Count(out, x) \in Nat
  BY <1>1, CountCat, KindFinite
<1>4. \A x : x \notin SaidCodes => Count(out, x) = 0
  BY <1>1, CountNone DEF Says, MaySay
<1>5. Count(out, "END_GAME") # 0 => Asleep'
  BY <1>1, CountNone DEF Says, MaySay
<1>6. Count(out, "ECARTS") # 0 => cl[c].info.amount_players # 0
  BY <1>1, CountNone DEF Says, MaySay
<1>7. QED
  BY <1>2, <1>3, <1>4, <1>5, <1>6

LEMMA ServerSays ==
  ASSUME UInv, Seated, ~Asleep, SameSeats, UNCHANGED cl, NEW c \in Clients, conn'[c] = conn[c],
         srv'.game_running = srv.game_running, srv'.papayoo = srv.papayoo,
         NEW out, NEW got, Says(c, out), Hears(c, got), Balanced(c, out, got)
  PROVE  ClientInv(c)'
<1> DEFINE q  == toClient[c]
           q1 == toClient'[c]
           s  == toServer[c]
           s1 == toServer'[c]
<1>1. /\ Wire(c) /\ Duties(c) /\ Fresh(c) /\ Informed(c) /\ IsQueue(q) /\ IsQueue(s)
      /\ \A label : At(c, label)' <=> At(c, label)
  BY DEF UInv, ClientInv, Wire, At
<1>2. /\ IsQueue(q1) /\ IsQueue(out) /\ q1 = q \o out
      /\ \A x : /\ Count(q1, x) = Count(q, x) + Count(out, x)
                /\ Count(q, x) \in Nat /\ Count(out, x) \in Nat
      /\ \A x : x \notin SaidCodes => Count(out, x) = 0
      /\ Count(out, "END_GAME") # 0 => Asleep'
      /\ Count(out, "ECARTS") # 0 => cl[c].info.amount_players # 0
  BY <1>1, SaysFacts DEF Says, MaySay
<1>3. /\ IsQueue(s1)
      /\ \A x : /\ Count(s, x) = Count(s1, x) + Count(got, x)
                /\ Count(s, x) \in Nat /\ Count(s1, x) \in Nat /\ Count(got, x) \in Nat
      /\ \A k \in 1..Len(s1) : \E j \in 1..Len(s) : s1[k] = s[j]
  BY <1>1, HearsFacts
<1> HIDE DEF q, q1, s, s1
<1>4. CurrentInfo(c)' = CurrentInfo(c) \/ c \notin Playing
  BY DEF SameSeats, CurrentInfo
<1>5. Wire(c)'
  <2>1. /\ Count(q1, "CANCELLED") = Count(q, "CANCELLED")
        /\ Count(q1, "REFUSE") = Count(q, "REFUSE")
        /\ Count(q1, "END_GAME") # 0 => Count(q, "END_GAME") # 0 \/ Asleep'
    BY <1>2 DEF SaidCodes
  <2>2. conn[c] # "closed" /\ (conn[c] = "open" => Count(q, "END_GAME") = 0)
    BY <1>1 DEF Wire, q
  <2>3. ASSUME conn[c] = "backlog" PROVE q1 = <<>>
    <3>1. q = <<>> /\ c \notin Playing
      BY <1>1, <2>3 DEF Wire, Open, q
    <3>2. out = <<>>
      BY <3>1 DEF Says, MaySay
    <3>3. QED
      BY <1>2, <3>1, <3>2
  <2>4. QED
    BY <1>1, <1>2, <1>3, <2>1, <2>2, <2>3 DEF Wire, SameSeats, q, q1, s, s1
<1>6. Duties(c)'
  <2> DEFINE e == IF At(c, "ecart") THEN 1 ELSE 0
             p == IF At(c, "play") THEN 1 ELSE 0
  <2>1. e \in Nat /\ p \in Nat
    OBVIOUS
  <2>2. /\ EcartDue(c) = Count(q, "INIT_DECK") + e + Count(s, "ECART")
        /\ EcartDue(c)' = Count(q1, "INIT_DECK") + e + Count(s1, "ECART")
        /\ Turns(c) = Count(q, "ASK_FOR_CARD") + p + Count(s, "PLAY_CARD")
        /\ Turns(c)' = Count(q1, "ASK_FOR_CARD") + p + Count(s1, "PLAY_CARD")
    BY <1>1 DEF EcartDue, Turns, q, q1, s, s1
  <2> HIDE DEF e, p
  <2>3. EcartDue(c)' \in Nat /\ EcartDue(c)' + Count(got, "ECART") = EcartDue(c)
    <3>1. "INIT_DECK" \notin SaidCodes
      BY DEF SaidCodes
    <3>2. /\ Count(q1, "INIT_DECK") = Count(q, "INIT_DECK") + Count(out, "INIT_DECK")
          /\ Count(q, "INIT_DECK") \in Nat /\ Count(out, "INIT_DECK") = 0
      BY <1>2, <3>1
    <3>3. /\ Count(s, "ECART") = Count(s1, "ECART") + Count(got, "ECART")
          /\ Count(s1, "ECART") \in Nat /\ Count(got, "ECART") \in Nat
      BY <1>3
    <3>4. QED
      BY <2>1, <2>2, <3>2, <3>3
  <2>4. /\ Turns(c)' \in Nat
        /\ Turns(c)' + Count(got, "PLAY_CARD") = Turns(c) + Count(out, "ASK_FOR_CARD")
    <3>1. /\ Count(q1, "ASK_FOR_CARD") = Count(q, "ASK_FOR_CARD") + Count(out, "ASK_FOR_CARD")
          /\ Count(q, "ASK_FOR_CARD") \in Nat /\ Count(out, "ASK_FOR_CARD") \in Nat
      BY <1>2
    <3>2. /\ Count(s, "PLAY_CARD") = Count(s1, "PLAY_CARD") + Count(got, "PLAY_CARD")
          /\ Count(s1, "PLAY_CARD") \in Nat /\ Count(got, "PLAY_CARD") \in Nat
      BY <1>3
    <3>3. QED
      BY <2>1, <2>2, <3>1, <3>2
  <2>5. Count(got, "ECART") \in Nat /\ Count(got, "PLAY_CARD") \in Nat /\ Count(out, "ASK_FOR_CARD") \in Nat
    BY <1>2, <1>3
  <2> DEFINE w == OwesEcart(c)
             h == HasTurn(c)
  <2>6. /\ EcartDue(c) = (IF w THEN 1 ELSE 0) /\ Turns(c) = (IF h THEN 1 ELSE 0)
        /\ (IF w THEN 1 ELSE 0) = (IF w' THEN 1 ELSE 0) + Count(got, "ECART")
        /\ (IF h THEN 1 ELSE 0) + Count(out, "ASK_FOR_CARD") = (IF h' THEN 1 ELSE 0) + Count(got, "PLAY_CARD")
    BY <1>1 DEF Duties, Balanced
  <2> HIDE DEF w, h
  <2>7. EcartDue(c)' = (IF w' THEN 1 ELSE 0)
    BY <2>3, <2>5, <2>6
  <2>8. Turns(c)' = (IF h' THEN 1 ELSE 0)
    BY <2>4, <2>5, <2>6
  <2>9. QED
    BY <2>7, <2>8 DEF Duties, w, h
<1>7. Fresh(c)'
  <2>1. SUFFICES ASSUME srv.game_running, c \in Playing
                 PROVE  /\ FreshQueue(q1, cl[c].info, CurrentInfo(c))
                        /\ \A k \in 1..Len(s1) : s1[k].code = "PLAY_CARD" =>
                             s1[k].played.last_played = SeatOf(c)
    BY <1>4 DEF Fresh, SameSeats, q1, s1
  <2>2. /\ FreshQueue(q, cl[c].info, CurrentInfo(c))
        /\ \A k \in 1..Len(s) : s[k].code = "PLAY_CARD" => s[k].played.last_played = SeatOf(c)
    BY <1>1, <2>1 DEF Fresh, q, s
  <2>3. FreshQueue(q1, cl[c].info, CurrentInfo(c))
    BY <1>1, <1>2, <2>2, FreshCat DEF Says, MaySay, SaidCodes
  <2>4. QED
    BY <1>3, <2>2, <2>3
<1>8. Informed(c)'
  <2>1. c \in Playing => CurrentInfo(c).amount_players # 0
    BY SeatFacts DEF UInv, CurrentInfo
  <2>2. \A k \in 1..Len(out) : out[k].code = "BASIC_INFO" => out[k].info.amount_players # 0
    BY <2>1 DEF Says, MaySay
  <2>3. InformedQueue(q, cl[c].info)
    BY <1>1 DEF Informed, q
  <2>4. InformedQueue(q1, cl[c].info)
    BY <1>1, <1>2, <2>2, <2>3, InformedCat
  <2>5. QED
    BY <2>4 DEF Informed, q1
<1>9. QED
  BY <1>5, <1>6, <1>7, <1>8 DEF ClientInv

LEMMA ServerStepInv ==
  ASSUME UInv, Seated, ~Asleep, SameSeats, UNCHANGED <<listening, backlog, conn, cl>>,
         srv'.game_running = srv.game_running, srv'.papayoo = srv.papayoo,
         toClient' = [c \in Clients |-> toClient'[c]], toServer' = [c \in Clients |-> toServer'[c]],
         NEW out, NEW got,
         \A c \in Clients : Says(c, out[c]) /\ Hears(c, got[c]) /\ Balanced(c, out[c], got[c]),
         Phases'
  PROVE  UInv'
<1>1. \A c \in Clients : ClientInv(c)'
  BY ServerSays
<1>2. Functions'
  BY DEF UInv, Functions
<1>3. Distinct'
  BY DEF UInv, Distinct, SameSeats
<1>4. QED
  BY <1>1, <1>2, <1>3 DEF UInv

\* Nobody has left as long as the game is not over.
LEMMA SendFacts ==
  ASSUME UInv, Seated, ~Asleep, NEW out, \A c \in Clients : c \notin Playing => out[c] = <<>>,
         ServerSend(out)
  PROVE  /\ conn' = conn /\ toClient' = [c \in Clients |-> toClient'[c]]
         /\ \A c \in Clients : toClient'[c] = toClient[c] \o out[c]
<1>1. ASSUME NEW c \in Clients
      PROVE  /\ conn[c] \notin {"closed", "reset"}
             /\ c \in Playing <=> conn[c] = "open"
             /\ toClient[c] \o <<>> = toClient[c]
  <2>1. Wire(c) /\ IsQueue(toClient[c])
    BY DEF UInv, ClientInv, Wire
  <2>2. toClient[c] \o <<>> = toClient[c]
    BY <2>1 DEF IsQueue
  <2>3. conn[c] \in {"none", "backlog", "open", "dropped", "broken", "refused", "closed"}
    BY DEF UInv, Functions
  <2>4. QED
    BY <2>1, <2>2, <2>3 DEF Wire, Open
<1>2. conn' = conn
  BY <1>1 DEF ServerSend, AfterSends, UInv, Functions
<1>3. QED
  BY <1>1, <1>2 DEF ServerSend

LEMMA InformFacts ==
  ASSUME UInv, Seated, ~Asleep, NEW C, ServerInforms(C)
  PROVE  UNCHANGED <<conn, toClient>>
<1>1. \A c \in Clients : conn[c] \notin {"closed", "reset"}
  BY DEF UInv, Functions, ClientInv, Wire
<1>2. QED
  BY <1>1 DEF ServerInforms, AfterSends, UInv, Functions

\* The message of player i, and nothing from the others.
Got(i) == [c \in Clients |-> IF c = Player(i) THEN <<Received(i)>> ELSE <<>>]

LEMMA ReceiveFacts ==
  ASSUME UInv, Seated, NEW i, NEW code, Receive(i, code)
  PROVE  /\ i \in Present /\ Player(i) \in Playing /\ Player(i) \in Clients /\ SeatOf(Player(i)) = i
         /\ ~Asleep /\ loop.pc = "serve" /\ Received(i).code = code
         /\ UNCHANGED <<listening, backlog, cl>>
         /\ toServer' = [c \in Clients |-> toServer'[c]]
         /\ \A c \in Clients : /\ Hears(c, Got(i)[c])
                               /\ \A x : Count(Got(i)[c], x) = IF c = Player(i) /\ code = x THEN 1 ELSE 0
         /\ Count(toServer[Player(i)], code) # 0
         /\ \E k \in 1..Len(toServer[Player(i)]) : toServer[Player(i)][k] = Received(i)
<1> DEFINE d == Player(i)
           s == toServer[d]
<1>1. /\ Serving(i) /\ s # <<>> /\ toServer' = [toServer EXCEPT ![d] = Tail(@)]
      /\ Head(s).code = code /\ Received(i) = Head(s)
      /\ UNCHANGED <<listening, backlog, cl>>
  BY DEF Receive, ServerReceive, clientVars, Received
<1>2. i \in Present /\ ~Asleep /\ loop.pc = "serve"
  BY <1>1 DEF Serving, ToServe, InLoop, Asleep
<1>3. d \in Playing /\ d \in Clients /\ SeatOf(d) = i
  BY <1>2, SeatFacts DEF UInv
<1>4. IsQueue(s)
  BY <1>3 DEF UInv, ClientInv, Wire
<1> HIDE DEF s
<1>5. Len(s) \in Nat \ {0} /\ Head(s) = s[1] /\ Count(s, code) # 0
  <2>1. Len(s) \in Nat \ {0} /\ Head(s) = s[1]
    BY <1>1, <1>4, QueueTail
  <2>2. QED
    BY <1>1, <1>4, <2>1, CountNone
<1>6. toServer' = [c \in Clients |-> toServer'[c]] /\ toServer'[d] = Tail(s)
      /\ \A c \in Clients \ {d} : toServer'[c] = toServer[c]
  BY <1>1, <1>3 DEF UInv, Functions, s
<1>7. \A c \in Clients : Got(i)[c] = IF c = d THEN <<Head(s)>> ELSE <<>>
  BY <1>1 DEF Got
<1>8. \A c \in Clients : Hears(c, Got(i)[c])
  BY <1>1, <1>6, <1>7 DEF Hears, s
<1>9. \A c \in Clients : \A x : Count(Got(i)[c], x) = IF c = d /\ code = x THEN 1 ELSE 0
  <2>1. \A x : Count(<<Head(s)>>, x) = (IF code = x THEN 1 ELSE 0) /\ Count(<<>>, x) = 0
    BY <1>1, CountOne, CountEmpty
  <2>2. QED
    BY <1>7, <2>1
<1>10. 1 \in 1..Len(s) /\ s[1] = Received(i)
  BY <1>1, <1>5
<1>11. QED
  BY <1>1, <1>2, <1>3, <1>5, <1>6, <1>8, <1>9, <1>10 DEF s

LEMMA SeatsStay == ASSUME UNCHANGED players PROVE SameSeats
<1>1. Present' = Present /\ amount_players' = amount_players /\ Playing' = Playing
  BY DEF Present, amount_players, Playing
<1>2. \A i : Player(i)' = Player(i)
  BY DEF Player
<1>3. \A c : SeatOf(c)' = SeatOf(c)
  BY <1>1, <1>2 DEF SeatOf
<1>4. QED
  BY <1>1, <1>2, <1>3 DEF SameSeats

\* What a step leaves alone that concerns neither the ecarts nor the tricks.
SamePhase ==
  /\ srv'.game_running = srv.game_running /\ srv'.updating_score = srv.updating_score
  /\ srv'.papayoo = srv.papayoo
  /\ srv'.one_ecart_received = srv.one_ecart_received
  /\ srv'.amount_ecart_received = srv.amount_ecart_received
  /\ srv'.current_player_turn = srv.current_player_turn
  /\ srv'.amount_cards_played_this_turn = srv.amount_cards_played_this_turn
  /\ hist'.given = hist.given /\ board'.pli = board.pli /\ board'.pli_size = board.pli_size
  /\ ~Asleep /\ ~Asleep'

LEMMA PhaseStays ==
  ASSUME UInv, Seated, SameSeats, SamePhase
  PROVE  /\ Phases'
         /\ \A c \in Clients : (OwesEcart(c)' <=> OwesEcart(c)) /\ (HasTurn(c)' <=> HasTurn(c))
<1>1. (InTricks' <=> InTricks) /\ (InEcarts' <=> InEcarts)
  BY DEF SamePhase, SameSeats, InTricks, InEcarts
<1>2. Phases'
  BY <1>1 DEF UInv, Phases, SamePhase, SameSeats
<1>3. InTricks => (srv.current_player_turn + board.pli_size) % amount_players \in Present
  BY TurnHolder DEF UInv
<1>4. ASSUME NEW c \in Clients
      PROVE  (OwesEcart(c)' <=> OwesEcart(c)) /\ (HasTurn(c)' <=> HasTurn(c))
  <2>1. OwesEcart(c)' <=> OwesEcart(c)
    BY <1>1 DEF OwesEcart, SamePhase, SameSeats
  <2>2. HasTurn(c)' <=> HasTurn(c)
    <3>1. \A k \in Present : players'[k + 1].client = players[k + 1].client
      BY DEF SameSeats, Player
    <3>2. srv'.current_player_turn = srv.current_player_turn /\ board'.pli_size = board.pli_size
          /\ amount_players' = amount_players
      BY DEF SamePhase, SameSeats
    <3>3. QED
      BY <1>1, <1>3, <3>1, <3>2 DEF HasTurn, Player
  <2>3. QED
    BY <2>1, <2>2
<1>5. QED
  BY <1>2, <1>4

LEMMA SaysNothing ==
  ASSUME UInv, NEW c \in Clients, toClient'[c] = toClient[c]
  PROVE  Says(c, <<>>)
<1>1. IsQueue(toClient[c])
  BY DEF UInv, ClientInv, Wire
<1>2. toClient[c] \o <<>> = toClient[c]
  BY <1>1 DEF IsQueue
<1>3. QED
  BY <1>2, ShortQueues DEF Says, MaySay

\* Steps that concern nobody.
LEMMA QuietInv ==
  ASSUME UInv, Seated, UNCHANGED <<network, players, cl>>, SamePhase
  PROVE  UInv'
<1> DEFINE none == [c \in Clients |-> <<>>]
<1>1. SameSeats
  BY SeatsStay
<1>2. /\ UNCHANGED <<listening, backlog, conn, toClient, toServer>>
      /\ toClient' = [c \in Clients |-> toClient'[c]] /\ toServer' = [c \in Clients |-> toServer'[c]]
  BY DEF network, UInv, Functions
<1>3. ASSUME NEW c \in Clients
      PROVE  Says(c, none[c]) /\ Hears(c, none[c]) /\ Balanced(c, none[c], none[c])
  <2>1. (OwesEcart(c)' <=> OwesEcart(c)) /\ (HasTurn(c)' <=> HasTurn(c))
    BY <1>1, PhaseStays
  <2>2. Says(c, <<>>)
    BY <1>2, SaysNothing
  <2>3. QED
    BY <1>2, <2>1, <2>2, CountEmpty DEF Hears, Balanced
<1>4. Phases'
  BY <1>1, PhaseStays
<1> HIDE DEF none
<1>5. ~Asleep /\ srv'.game_running = srv.game_running /\ srv'.papayoo = srv.papayoo
  BY DEF SamePhase
<1>6. QED
  BY <1>1, <1>2, <1>3, <1>4, <1>5, ServerStepInv

LEMMA LoopInv ==
  ASSUME UInv, Seated, Select \/ NothingToDo \/ AlarmRestarts
  PROVE  UInv'
<1>1. ASSUME Select \/ NothingToDo PROVE UInv'
  <2>1. UNCHANGED <<network, players, cl, srv, board, hist>> /\ ~Asleep /\ ~Asleep'
    BY <1>1 DEF Select, NothingToDo, BeforeScores, AfterServing, InLoop, NextIteration, clientVars,
                Asleep
  <2>2. SamePhase
    BY <2>1 DEF SamePhase
  <2>3. QED
    BY <2>1, <2>2, QuietInv
<1>2. ASSUME AlarmRestarts PROVE UInv'
  <2>1. ~Asleep /\ ServerInforms(Playing)
        /\ UNCHANGED <<listening, backlog, toServer, serverVars, clientVars>>
    BY <1>2 DEF AlarmRestarts, UInv, Phases
  <2>2. UNCHANGED <<network, players, cl>>
    BY <2>1, InformFacts DEF network, serverVars, clientVars
  <2>3. SamePhase
    BY <2>1 DEF SamePhase, serverVars, Asleep
  <2>4. QED
    BY <2>2, <2>3, QuietInv
<1>3. QED
  BY <1>1, <1>2

\* Nobody has left, so nobody is removed, no write ends the server, and a round has players.
LEMMA NobodyLeft ==
  ASSUME UInv, Seated
  PROVE  ~Killed /\ \A i : ~remove_player(i)
<1>1. \A c \in Clients : conn[c] \in {"none", "backlog", "open", "dropped", "broken", "refused", "closed"}
  BY DEF UInv, Functions
<1>2. ~Killed
  <2>1. ~ServerKilled
    BY <1>1 DEF ServerKilled, ServerAlive, UInv, Functions
  <2>2. ~RoundOfNobody
    BY DEF RoundOfNobody, ScoresComplete, BeforeScores, AfterServing, InLoop, UInv, Phases, Seated,
           GameHasItsPlayers
  <2>3. QED
    BY <2>1, <2>2 DEF Killed
<1>3. ASSUME NEW i, remove_player(i) PROVE FALSE
  <2>1. i \in Present /\ ~Asleep /\ conn[Player(i)] \in Gone
    BY <1>3 DEF remove_player, Serving, ToServe, InLoop, AtEnd, Asleep
  <2>2. Player(i) \in Clients
    BY <2>1, SeatFacts DEF UInv
  <2>3. conn[Player(i)] = "closed"
    BY <1>1, <2>1, <2>2 DEF Gone
  <2>4. QED
    BY <2>1, <2>2, <2>3 DEF UInv, ClientInv, Wire
<1>4. QED
  BY <1>2, <1>3

\* A client that waits in the backlog receives its first message.
LEMMA FirstMessage ==
  ASSUME UInv, Seated, NEW c \in Clients, conn[c] = "backlog", NEW m, m.code \in {"OK", "REFUSE"},
         toClient'[c] = <<m>>, toServer'[c] = toServer[c], UNCHANGED cl,
         conn'[c] = (IF m.code = "OK" THEN "open" ELSE "refused"),
         c \in Playing' <=> conn'[c] = "open",
         ~OwesEcart(c)', ~HasTurn(c)', ~(srv'.game_running /\ c \in Playing')
  PROVE  ClientInv(c)'
<1>1. Wire(c) /\ Duties(c) /\ Fresh(c) /\ Informed(c) /\ toClient[c] = <<>>
      /\ \A label : At(c, label)' <=> At(c, label)
  BY DEF UInv, ClientInv, Wire, At
<1>2. /\ IsQueue(toClient'[c]) /\ Len(toClient'[c]) = 1 /\ toClient'[c][1] = m
      /\ \A x : Count(toClient'[c], x) = IF m.code = x THEN 1 ELSE 0
  BY ShortQueues, CountOne
<1>3. Wire(c)'
  BY <1>1, <1>2 DEF Wire, Open
<1>4. Duties(c)'
  <2>1. ~OwesEcart(c) /\ ~HasTurn(c)
    BY <1>1, TurnHolder DEF UInv, Wire, Open, OwesEcart
  <2>2. EcartDue(c) = 0 /\ Turns(c) = 0
    BY <1>1, <2>1 DEF Duties
  <2>3. /\ Count(toClient[c], "INIT_DECK") = Count(toClient'[c], "INIT_DECK")
        /\ Count(toClient[c], "ASK_FOR_CARD") = Count(toClient'[c], "ASK_FOR_CARD")
    BY <1>1, <1>2, CountEmpty
  <2>4. EcartDue(c)' = EcartDue(c) /\ Turns(c)' = Turns(c)
    BY <1>1, <2>3 DEF EcartDue, Turns
  <2>5. QED
    BY <2>2, <2>4 DEF Duties
<1>5. Fresh(c)'
  BY DEF Fresh
<1>6. Informed(c)'
  BY <1>2 DEF Informed, InformedQueue
<1>7. QED
  BY <1>3, <1>4, <1>5, <1>6 DEF ClientInv

LEMMA RefuseInv ==
  ASSUME UInv, Seated, RefuseClient
  PROVE  UInv'
<1> PICK c : c = Head(backlog)
  OBVIOUS
<1> PICK n : n = Len(backlog)
  OBVIOUS
<1> PICK m : m = Msg("REFUSE")
  OBVIOUS
<1>1. /\ listening /\ loop.pc = "accept" /\ ~Asleep /\ ~Asleep'
      /\ conn' = [conn EXCEPT ![c] = IF @ = "backlog" THEN "refused" ELSE "none"]
      /\ toClient' = [toClient EXCEPT ![c] = IF conn[c] = "backlog" THEN Append(@, m) ELSE @]
      /\ backlog' = Tail(backlog)
      /\ UNCHANGED <<listening, toServer, players, alarm, srv, board, hist, cl>>
  BY DEF RefuseClient, InLoop, ServerAlive, Seated, Shape, Asleep, clientVars
<1>2. /\ n \in Nat \ {0} /\ c = backlog[1] /\ \A k \in 1..n : backlog[k] \in Clients
      /\ Len(backlog') = n - 1 /\ \A k \in 1..n - 1 : backlog'[k] = backlog[k + 1]
  <2>1. backlog # <<>> /\ backlog \in Seq(Clients)
    BY <1>1 DEF Seated, AtTheTable
  <2>2. n \in Nat \ {0} /\ c = backlog[1] /\ Len(backlog') = n - 1
        /\ \A k \in 1..n - 1 : backlog'[k] = backlog[k + 1]
    BY <1>1, <2>1
  <2>3. QED
    BY <2>1, <2>2, ElementOfSeq
<1>3. /\ c \in Clients /\ conn[c] = "backlog" /\ \A k \in 2..n : backlog[k] # c
      /\ \A k \in 1..n : conn[backlog[k]] = "backlog"
  BY <1>2 DEF UInv, Distinct
<1>4. /\ conn'[c] = "refused" /\ toClient'[c] = <<m>> /\ m.code = "REFUSE"
      /\ \A d \in Clients \ {c} : conn'[d] = conn[d] /\ toClient'[d] = toClient[d]
  <2>1. toClient[c] = <<>>
    BY <1>3 DEF UInv, ClientInv, Wire
  <2>2. Append(toClient[c], m) = <<m>>
    BY <2>1
  <2>3. toClient' = [toClient EXCEPT ![c] = <<m>>]
    BY <1>1, <1>3, <2>2 DEF UInv, Functions
  <2>4. QED
    BY <1>1, <1>3, <2>3 DEF UInv, Functions, Msg
<1>5. SameSeats /\ SamePhase
  BY <1>1, SeatsStay DEF SamePhase
<1>6. ASSUME NEW d \in Clients \ {c} PROVE ClientInv(d)'
  <2>1. Says(d, <<>>) /\ Hears(d, <<>>)
    BY <1>1, <1>4, SaysNothing DEF Hears
  <2>2. Balanced(d, <<>>, <<>>)
    BY <1>5, PhaseStays, CountEmpty DEF Balanced
  <2>3. QED
    BY <1>1, <1>4, <1>5, <2>1, <2>2, ServerSays
<1>7. ClientInv(c)'
  <2>1. c \notin Playing /\ c \notin Playing'
    BY <1>3, <1>5 DEF UInv, ClientInv, Wire, Open, SameSeats
  <2>2. ~OwesEcart(c)' /\ ~HasTurn(c)'
    <3>1. ~OwesEcart(c) /\ ~HasTurn(c)
      BY <2>1, TurnHolder DEF UInv, OwesEcart
    <3>2. QED
      BY <1>3, <1>5, <3>1, PhaseStays
  <2>3. QED
    BY <1>1, <1>3, <1>4, <2>1, <2>2, FirstMessage
<1>8. Functions'
  BY <1>1, <1>3, <1>4 DEF UInv, Functions
<1>9. Distinct'
  <2>1. \A k \in 1..n - 1 : k + 1 \in 2..n /\ k + 1 \in 1..n
    BY <1>2
  <2>2. \A k \in 1..n - 1 : conn'[backlog'[k]] = "backlog"
    BY <1>2, <1>3, <1>4, <2>1
  <2>3. \A j, k \in 1..n - 1 : backlog'[j] = backlog'[k] => j = k
    <3>1. \A j, k \in 1..n : backlog[j] = backlog[k] => j = k
      BY DEF UInv, Distinct
    <3>2. ASSUME NEW j \in 1..n - 1, NEW k \in 1..n - 1, backlog'[j] = backlog'[k] PROVE j = k
      <4>1. j + 1 = k + 1
        BY <1>2, <2>1, <3>1, <3>2
      <4>2. QED
        BY <1>2, <4>1
    <3>3. QED
      BY <3>2
  <2>4. \A i, j \in Present' : Player(i)' = Player(j)' => i = j
    BY <1>5 DEF UInv, Distinct, SameSeats
  <2>5. QED
    BY <1>2, <2>2, <2>3, <2>4 DEF Distinct
<1>10. Phases'
  BY <1>5, PhaseStays
<1>11. QED
  BY <1>6, <1>7, <1>8, <1>9, <1>10 DEF UInv

\* A client that nothing happens to while no game runs.
LEMMA IdleClient ==
  ASSUME UInv, Seated, ~Asleep, NEW d \in Clients, ~srv.game_running, ~srv'.game_running,
         UNCHANGED cl, toClient'[d] = toClient[d], toServer'[d] = toServer[d], conn'[d] = conn[d],
         d \in Playing' <=> d \in Playing
  PROVE  ClientInv(d)'
<1>1. /\ Wire(d) /\ Duties(d) /\ Fresh(d) /\ Informed(d)
      /\ \A label : At(d, label)' <=> At(d, label)
  BY DEF UInv, ClientInv, At
<1>2. /\ ~OwesEcart(d) /\ ~HasTurn(d) /\ ~OwesEcart(d)' /\ ~HasTurn(d)'
  BY DEF OwesEcart, HasTurn, InEcarts, InTricks
<1>3. Wire(d)'
  BY <1>1 DEF Wire
<1>4. Duties(d)'
  BY <1>1, <1>2 DEF Duties, EcartDue, Turns
<1>5. Fresh(d)' /\ Informed(d)'
  BY <1>1 DEF Fresh, Informed
<1>6. QED
  BY <1>3, <1>4, <1>5 DEF ClientInv

LEMMA AddInv ==
  ASSUME UInv, Seated, AddClient
  PROVE  UInv'
<1> PICK c : c = Head(backlog)
  OBVIOUS
<1> PICK n : n = Len(backlog)
  OBVIOUS
<1> PICK m : m = Msg("OK")
  OBVIOUS
<1> PICK p : p = [client |-> c, is_registered |-> FALSE]
  OBVIOUS
<1>1. /\ listening /\ loop.pc = "accept" /\ ~Asleep /\ ~Asleep' /\ ~srv.game_running
      /\ players' = Append(players, p)
      /\ conn' = [conn EXCEPT ![c] = IF @ = "backlog" THEN "open" ELSE AfterSends(@, 1)]
      /\ toClient' = [toClient EXCEPT ![c] = IF conn[c] = "backlog" THEN Append(@, m) ELSE @]
      /\ backlog' = Tail(backlog)
      /\ UNCHANGED <<listening, toServer, srv, board, hist, cl>>
  BY DEF AddClient, InLoop, ServerAlive, Seated, Shape, Asleep, clientVars
<1>2. /\ n \in Nat \ {0} /\ c = backlog[1] /\ \A k \in 1..n : backlog[k] \in Clients
      /\ Len(backlog') = n - 1 /\ \A k \in 1..n - 1 : backlog'[k] = backlog[k + 1]
  <2>1. backlog # <<>> /\ backlog \in Seq(Clients)
    BY <1>1 DEF Seated, AtTheTable
  <2>2. n \in Nat \ {0} /\ c = backlog[1] /\ Len(backlog') = n - 1
        /\ \A k \in 1..n - 1 : backlog'[k] = backlog[k + 1]
    BY <1>1, <2>1
  <2>3. QED
    BY <2>1, <2>2, ElementOfSeq
<1>3. /\ c \in Clients /\ conn[c] = "backlog" /\ \A k \in 2..n : backlog[k] # c
      /\ \A k \in 1..n : conn[backlog[k]] = "backlog"
  BY <1>2 DEF UInv, Distinct
<1>4. /\ conn'[c] = "open" /\ toClient'[c] = <<m>> /\ m.code = "OK"
      /\ \A d \in Clients \ {c} : conn'[d] = conn[d] /\ toClient'[d] = toClient[d]
  <2>1. toClient[c] = <<>>
    BY <1>3 DEF UInv, ClientInv, Wire
  <2>2. Append(toClient[c], m) = <<m>>
    BY <2>1
  <2>3. toClient' = [toClient EXCEPT ![c] = <<m>>]
    BY <1>1, <1>3, <2>2 DEF UInv, Functions
  <2>4. QED
    BY <1>1, <1>3, <2>3 DEF UInv, Functions, Msg
<1>5. c \notin Playing
  BY <1>3 DEF UInv, ClientInv, Wire, Open
<1>6. /\ amount_players \in Nat /\ amount_players' = amount_players + 1
      /\ players'[amount_players + 1].client = c /\ \A i \in Present : Player(i)' = Player(i)
      /\ Present = 0..amount_players - 1 /\ Present' = 0..amount_players
      /\ Playing' = Playing \cup {c}
  <2>1. /\ players \in Seq([client : Clients, is_registered : BOOLEAN])
        /\ Len(players) \in Nat /\ DOMAIN players = 1..Len(players)
    BY DEF Seated, AtTheTable
  <2>2. /\ Len(players') = Len(players) + 1 /\ DOMAIN players' = 1..Len(players) + 1
        /\ players'[Len(players) + 1] = p
        /\ \A k \in 1..Len(players) : players'[k] = players[k]
    BY <1>1, <2>1
  <2>3. Playing' = Playing \cup {c}
    BY <2>1, <2>2 DEF Playing
  <2>4. Present = 0..amount_players - 1 /\ Present' = 0..amount_players
    BY <2>1, <2>2 DEF Present, amount_players
  <2>5. players'[Len(players) + 1].client = c
    BY <2>2
  <2>6. \A i \in Present : players'[i + 1].client = players[i + 1].client
    BY <2>1, <2>2, <2>4 DEF amount_players
  <2>7. QED
    BY <2>1, <2>2, <2>3, <2>4, <2>5, <2>6 DEF amount_players, Player
<1>7. ASSUME NEW d \in Clients \ {c} PROVE ClientInv(d)'
  BY <1>1, <1>4, <1>6, IdleClient
<1>8. ClientInv(c)'
  <2>1. ~OwesEcart(c)' /\ ~HasTurn(c)' /\ c \in Playing'
    BY <1>1, <1>6 DEF OwesEcart, HasTurn, InEcarts, InTricks
  <2>2. QED
    BY <1>1, <1>3, <1>4, <2>1, FirstMessage
<1>9. Functions'
  BY <1>1, <1>3, <1>4 DEF UInv, Functions
<1>10. Distinct'
  <2>1. \A k \in 1..n - 1 : k + 1 \in 2..n /\ k + 1 \in 1..n
    BY <1>2
  <2>2. \A k \in 1..n - 1 : conn'[backlog'[k]] = "backlog"
    BY <1>2, <1>3, <1>4, <2>1
  <2>3. \A j, k \in 1..n - 1 : backlog'[j] = backlog'[k] => j = k
    <3>1. \A j, k \in 1..n : backlog[j] = backlog[k] => j = k
      BY DEF UInv, Distinct
    <3>2. ASSUME NEW j \in 1..n - 1, NEW k \in 1..n - 1, backlog'[j] = backlog'[k] PROVE j = k
      <4>1. j + 1 = k + 1
        BY <1>2, <2>1, <3>1, <3>2
      <4>2. QED
        BY <1>2, <4>1
    <3>3. QED
      BY <3>2
  <2>4. ASSUME NEW i \in Present', NEW j \in Present', Player(i)' = Player(j)' PROVE i = j
    <3>1. \A k \in Present' : k \in Present \/ k = amount_players
      BY <1>6
    <3>2. \A k \in Present : Player(k)' # c
      BY <1>5, <1>6, SeatFacts DEF UInv
    <3>3. \A k, l \in Present : Player(k) = Player(l) => k = l
      BY DEF UInv, Distinct
    <3>4. players'[i + 1].client = players'[j + 1].client
      BY <2>4 DEF Player
    <3>5. players'[amount_players + 1].client = c
      BY <1>6 DEF Player
    <3>6. \A k \in Present : players'[k + 1].client # c /\ players'[k + 1].client = Player(k)
      BY <1>6, <3>2 DEF Player
    <3>7. QED
      BY <3>1, <3>3, <3>4, <3>5, <3>6
  <2>5. QED
    BY <1>2, <2>2, <2>3, <2>4 DEF Distinct
<1>11. Phases'
  BY <1>1 DEF UInv, Phases, InTricks, InEcarts
<1>12. QED
  BY <1>7, <1>8, <1>9, <1>10, <1>11 DEF UInv

\* A round is dealt: every player owes an ecart.
LEMMA RoundInv ==
  ASSUME UInv, Seated, ~Asleep, ~Asleep', ~InEcarts, ~InTricks, amount_players >= 2,
         NEW perm, NEW papayoo, RoundStarts(perm, papayoo, TRUE), hist'.given = {},
         UNCHANGED <<listening, backlog, toServer, players, cl>>,
         board'.pli_size = board.pli_size
  PROVE  UInv'
<1> PICK s : s = [srv EXCEPT !.game_running = TRUE, !.updating_score = FALSE,
                             !.amount_scores_updated = 0,
                             !.current_round = @ + 1, !.papayoo = papayoo]
  OBVIOUS
<1> DEFINE Deal(i) == [code |-> "INIT_DECK",
                       deck |-> Dealt(Shuffled(perm), amount_players, i)]
           out == [c \in Clients |-> IF c \in Playing
                                     THEN <<BasicInfo(SeatOf(c), s), Deal(SeatOf(c))>> ELSE <<>>]
<1>1. srv' = s /\ ServerSend(out)
  BY DEF RoundStarts, ToEverybody
<1>2. /\ srv'.game_running = TRUE /\ srv'.updating_score = FALSE /\ srv'.papayoo = papayoo
      /\ srv'.one_ecart_received = srv.one_ecart_received
      /\ srv'.amount_ecart_received = srv.amount_ecart_received
      /\ srv'.current_player_turn = srv.current_player_turn
      /\ srv'.amount_cards_played_this_turn = srv.amount_cards_played_this_turn
      /\ s.papayoo = papayoo
  BY <1>1 DEF Seated, Shape
<1>3. SameSeats
  BY SeatsStay
<1>4. /\ amount_players \in Nat /\ Present = 0..amount_players - 1 /\ Present # {}
      /\ srv.one_ecart_received = FALSE /\ srv.amount_ecart_received = 0
      /\ srv.current_player_turn = 0 /\ board.pli_size = 0
      /\ srv.amount_cards_played_this_turn = 0
  <2>1. amount_players \in Nat /\ Present = 0..amount_players - 1
    BY SeatFacts DEF UInv
  <2>2. 0 \in Present
    BY <2>1
  <2>3. QED
    BY <2>1, <2>2 DEF UInv, Phases
<1>5. ~InTricks' /\ InEcarts'
  BY <1>2, <1>3, <1>4 DEF InTricks, InEcarts, SameSeats
<1>6. Phases'
  <2>1. Cardinality({}) = 0
    BY FS_EmptySet
  <2>2. QED
    BY <1>2, <1>3, <1>4, <1>5, <2>1 DEF Phases
<1>7. /\ conn' = conn /\ toClient' = [c \in Clients |-> toClient'[c]]
      /\ \A c \in Clients : toClient'[c] = toClient[c] \o out[c]
  <2>1. \A c \in Clients : c \notin Playing => out[c] = <<>>
    OBVIOUS
  <2> HIDE DEF out
  <2>2. QED
    BY <1>1, <2>1, SendFacts
<1>8. ASSUME NEW c \in Clients PROVE ClientInv(c)'
  <2> DEFINE q == toClient[c]
  <2>1. /\ Wire(c) /\ Duties(c) /\ Informed(c) /\ IsQueue(q) /\ IsQueue(toServer[c])
        /\ \A label : At(c, label)' <=> At(c, label)
    BY DEF UInv, ClientInv, Wire, At
  <2>2. EcartDue(c) = 0 /\ Turns(c) = 0
    BY <2>1 DEF Duties, OwesEcart, HasTurn
  <2>3. /\ Count(q, "INIT_DECK") = 0 /\ Count(q, "ASK_FOR_CARD") = 0
        /\ ~At(c, "ecart") /\ ~At(c, "play")
        /\ Count(toServer[c], "ECART") = 0 /\ Count(toServer[c], "PLAY_CARD") = 0
    <3>1. /\ Count(q, "INIT_DECK") \in Nat /\ Count(q, "ASK_FOR_CARD") \in Nat
          /\ Count(toServer[c], "ECART") \in Nat /\ Count(toServer[c], "PLAY_CARD") \in Nat
      BY <2>1, KindFinite
    <3>2. Count(q, "INIT_DECK") = 0 /\ Count(toServer[c], "ECART") = 0 /\ ~At(c, "ecart")
      BY <2>2, <3>1 DEF EcartDue
    <3>3. Count(q, "ASK_FOR_CARD") = 0 /\ Count(toServer[c], "PLAY_CARD") = 0 /\ ~At(c, "play")
      BY <2>2, <3>1 DEF Turns
    <3>4. QED
      BY <3>2, <3>3
  <2>4. ~HasTurn(c)' /\ (OwesEcart(c)' <=> c \in Playing)
    BY <1>3, <1>5 DEF HasTurn, OwesEcart, SameSeats
  <2>5. CASE c \notin Playing
    <3>1. toClient'[c] = q
      <4>1. q \o <<>> = q
        BY <2>1 DEF IsQueue
      <4>2. QED
        BY <1>7, <2>5, <4>1
    <3>2. Wire(c)'
      BY <1>3, <1>7, <2>1, <2>5, <3>1 DEF Wire, SameSeats
    <3>3. Duties(c)'
      BY <2>1, <2>3, <2>4, <2>5, <3>1 DEF Duties, EcartDue, Turns
    <3>4. Fresh(c)' /\ Informed(c)'
      BY <1>3, <2>1, <2>5, <3>1 DEF Fresh, Informed, SameSeats
    <3>5. QED
      BY <3>2, <3>3, <3>4 DEF ClientInv
  <2>6. CASE c \in Playing
    <3> PICK b : b = BasicInfo(SeatOf(c), s)
      OBVIOUS
    <3> PICK d : d = Deal(SeatOf(c))
      OBVIOUS
    <3>1. toClient'[c] = q \o <<b, d>> /\ b.code = "BASIC_INFO" /\ d.code = "INIT_DECK"
      BY <1>7, <2>6 DEF BasicInfo
    <3>2. b.info = CurrentInfo(c)' /\ b.info.amount_players # 0
      BY <1>2, <1>3, <1>4, <2>6 DEF BasicInfo, CurrentInfo, SameSeats
    <3> HIDE DEF q, Deal, out
    <3>3. /\ IsQueue(<<b, d>>) /\ Len(<<b, d>>) = 2 /\ <<b, d>>[1] = b /\ <<b, d>>[2] = d
          /\ \A x : Count(<<b, d>>, x) = (IF b.code = x THEN 1 ELSE 0) + (IF d.code = x THEN 1 ELSE 0)
      <4>1. IsQueue(<<b, d>>) /\ IsQueue(<<b>>) /\ IsQueue(<<d>>) /\ <<b, d>> = <<b>> \o <<d>>
        BY ShortQueues
      <4>2. \A x : Count(<<b>> \o <<d>>, x) = Count(<<b>>, x) + Count(<<d>>, x)
        BY <4>1, CountCat
      <4>3. \A x : /\ Count(<<b>>, x) = (IF b.code = x THEN 1 ELSE 0)
                   /\ Count(<<d>>, x) = (IF d.code = x THEN 1 ELSE 0)
        BY CountOne
      <4>4. \A x : Count(<<b, d>>, x) = Count(<<b>>, x) + Count(<<d>>, x)
        BY <4>1, <4>2
      <4>5. \A x : Count(<<b, d>>, x) = (IF b.code = x THEN 1 ELSE 0) + (IF d.code = x THEN 1 ELSE 0)
        BY <4>3, <4>4
      <4>6. Len(<<b, d>>) = 2 /\ <<b, d>>[1] = b /\ <<b, d>>[2] = d
        OBVIOUS
      <4>7. QED
        BY <4>1, <4>5, <4>6
    <3>4. /\ IsQueue(toClient'[c])
          /\ \A x : /\ Count(toClient'[c], x) = Count(q, x) + Count(<<b, d>>, x)
                    /\ Count(q, x) \in Nat
      <4>1. IsQueue(q \o <<b, d>>)
        BY <2>1, <3>3, QueueCat
      <4>2. \A x : Count(q \o <<b, d>>, x) = Count(q, x) + Count(<<b, d>>, x) /\ Count(q, x) \in Nat
        BY <2>1, <3>3, CountCat, KindFinite
      <4>3. QED
        BY <3>1, <4>1, <4>2
    <3>5. \A x : x \notin {"BASIC_INFO", "INIT_DECK"} => Count(toClient'[c], x) = Count(q, x)
      BY <3>1, <3>3, <3>4
    <3>6. Count(toClient'[c], "INIT_DECK") = 1
      <4>1. Count(<<b, d>>, "INIT_DECK") = 1
        BY <3>1, <3>3
      <4>2. QED
        BY <2>3, <3>4, <4>1 DEF q
    <3>7. Wire(c)'
      <4>1. conn[c] = "open"
        BY <2>1, <2>6 DEF Wire, Open
      <4>2. QED
        BY <1>3, <1>7, <2>1, <3>4, <3>5, <4>1 DEF Wire, Open, SameSeats, q
    <3>8. Duties(c)'
      <4>1. EcartDue(c)' = 1
        BY <2>1, <2>3, <3>6 DEF EcartDue, q
      <4>2. Turns(c)' = 0
        BY <2>1, <2>3, <3>5 DEF Turns, q
      <4>3. QED
        BY <2>4, <2>6, <4>1, <4>2 DEF Duties
    <3>9. Fresh(c)'
      <4>1. FreshQueue(toClient'[c], cl[c].info, b.info)
        BY <2>1, <2>3, <3>1, FreshDeal DEF q
      <4>2. \A k \in 1..Len(toServer[c]) : toServer[c][k].code # "PLAY_CARD"
        BY <2>1, <2>3, CountNone
      <4>3. QED
        BY <3>2, <4>1, <4>2 DEF Fresh
    <3>10. Informed(c)'
      <4>1. \A k \in 1..2 : <<b, d>>[k].code = "BASIC_INFO" => <<b, d>>[k].info.amount_players # 0
        BY <3>1, <3>2, <3>3
      <4>2. Count(<<b, d>>, "ECARTS") = 0
        BY <3>1, <3>3
      <4>3. InformedQueue(q, cl[c].info)
        BY <2>1 DEF Informed, q
      <4>4. InformedQueue(q \o <<b, d>>, cl[c].info)
        BY <2>1, <3>3, <4>1, <4>2, <4>3, InformedCat
      <4>5. InformedQueue(toClient'[c], cl[c].info)
        BY <3>1, <4>4
      <4>6. QED
        BY <4>5 DEF Informed
    <3>11. QED
      BY <3>7, <3>8, <3>9, <3>10 DEF ClientInv
  <2>7. QED
    BY <2>5, <2>6
<1>9. Functions'
  BY <1>7 DEF UInv, Functions
<1>10. Distinct'
  BY <1>3, <1>7 DEF UInv, Distinct, SameSeats
<1>11. QED
  BY <1>6, <1>8, <1>9, <1>10 DEF UInv

LEMMA StartInv ==
  ASSUME UInv, Seated, AlarmStartsGame \/ start_round
  PROVE  UInv'
<1>1. ASSUME AlarmStartsGame PROVE UInv'
  <2>1. PICK perm \in Shuffles, papayoo \in Suits : RoundStarts(perm, papayoo, TRUE)
    BY <1>1 DEF AlarmStartsGame
  <2>2. /\ ~srv.game_running /\ amount_players >= 2
        /\ UNCHANGED <<listening, backlog, toServer, players, loop, cl>>
        /\ hist'.given = {} /\ board'.pli_size = board.pli_size
    BY <1>1 DEF AlarmStartsGame, clientVars, Seated, Shape
  <2>3. ~Asleep /\ ~Asleep' /\ ~InEcarts /\ ~InTricks
    BY <2>2 DEF UInv, Phases, Asleep, InEcarts, InTricks
  <2>4. QED
    BY <2>1, <2>2, <2>3, RoundInv
<1>2. ASSUME start_round PROVE UInv'
  <2>1. PICK perm \in Shuffles, papayoo \in Suits : RoundStarts(perm, papayoo, srv.game_running)
    BY <1>2 DEF start_round
  <2>2. /\ srv.updating_score /\ UNCHANGED <<listening, backlog, toServer, players, board, cl>>
        /\ hist'.given = {} /\ board'.pli_size = board.pli_size
        /\ ~Asleep /\ ~Asleep'
    BY <1>2 DEF start_round, ScoresComplete, BeforeScores, AfterServing, InLoop, NextIteration,
                Asleep, clientVars, Seated, Shape
  <2>3. srv.game_running = TRUE /\ ~InEcarts /\ ~InTricks
    BY <2>2 DEF UInv, Phases, InEcarts, InTricks
  <2>4. amount_players >= 2
    BY <2>2, <2>3 DEF Seated, GameHasItsPlayers, Asleep
  <2>5. QED
    BY <2>1, <2>2, <2>3, <2>4, RoundInv
<1>3. QED
  BY <1>1, <1>2

\* The lobby is cleared while the server sleeps, after a game.
LEMMA ClearInv ==
  ASSUME UInv, Seated, clear_lobby
  PROVE  UInv'
<1>1. /\ Asleep /\ ~Asleep' /\ players' = <<>> /\ srv' = Cleared(srv)
      /\ board'.pli_size = 0
      /\ toServer' = [c \in Clients |-> IF c \in Playing THEN <<>> ELSE toServer[c]]
      /\ ServerClose(Playing)
      /\ UNCHANGED <<listening, backlog, toClient, hist, cl>>
  BY DEF clear_lobby, InLoop, Asleep, ServerClose, clientVars, Seated, Shape
<1>2. srv.updating_score /\ srv.game_running /\ ~InTricks /\ ~InEcarts
  BY <1>1 DEF UInv, Phases, InTricks, InEcarts
<1>3. /\ srv'.game_running = FALSE /\ srv'.updating_score = FALSE
      /\ srv'.one_ecart_received = FALSE /\ srv'.amount_ecart_received = 0
      /\ srv'.amount_cards_played_this_turn = 0 /\ srv'.current_player_turn = 0
  BY <1>1, <1>2 DEF Cleared, Seated, Shape, UInv, Phases
<1>4. ~InTricks' /\ ~InEcarts'
  BY <1>3 DEF InTricks, InEcarts
<1>5. Phases'
  BY <1>1, <1>3, <1>4 DEF Phases
<1>6. Playing' = {} /\ Present' = {}
  BY <1>1 DEF Playing, Present, amount_players
<1>7. \A c \in Clients : c \notin ToSet(backlog) \/ conn[c] = "backlog"
  BY DEF UInv, Distinct, ToSet, Seated, AtTheTable
<1>8. ASSUME NEW c \in Clients
      PROVE  /\ conn'[c] = IF conn[c] = "open" THEN "dropped"
                           ELSE IF conn[c] = "closed" THEN "none" ELSE conn[c]
             /\ ClientInv(c)'
  <2>1. /\ Wire(c) /\ Duties(c) /\ Informed(c) /\ IsQueue(toServer[c]) /\ IsQueue(toClient[c])
        /\ \A label : At(c, label)' <=> At(c, label)
        /\ conn[c] \in {"none", "backlog", "open", "dropped", "broken", "refused", "closed"}
    BY <1>1 DEF UInv, ClientInv, Wire, At, Functions
  <2>2. c \in Playing <=> conn[c] \in {"open", "closed"}
    BY <2>1 DEF Wire, Open
  <2>3. conn'[c] = IF conn[c] = "open" THEN "dropped"
                   ELSE IF conn[c] = "closed" THEN "none" ELSE conn[c]
    BY <1>1, <1>7, <2>1, <2>2 DEF ServerClose, Gone
  <2>4. /\ IsQueue(toServer'[c])
        /\ \A x : Count(toServer'[c], x) = 0 \/ Count(toServer'[c], x) = Count(toServer[c], x)
    BY <1>1, <2>1, ShortQueues, CountEmpty
  <2>5. Wire(c)'
    BY <1>1, <1>6, <2>1, <2>2, <2>3, <2>4 DEF Wire, Open
  <2>6. Duties(c)'
    <3>1. EcartDue(c) = 0 /\ Turns(c) = 0
      BY <1>2, <2>1 DEF Duties, OwesEcart, HasTurn
    <3>2. /\ Count(toServer[c], "ECART") \in Nat /\ Count(toServer[c], "PLAY_CARD") \in Nat
          /\ Count(toClient[c], "INIT_DECK") \in Nat /\ Count(toClient[c], "ASK_FOR_CARD") \in Nat
      BY <2>1, KindFinite
    <3>3. EcartDue(c)' = 0
      <4>1. Count(toServer[c], "ECART") = 0 /\ Count(toClient[c], "INIT_DECK") = 0 /\ ~At(c, "ecart")
        BY <3>1, <3>2 DEF EcartDue
      <4>2. Count(toServer'[c], "ECART") = 0
        BY <2>4, <4>1
      <4>3. QED
        BY <1>1, <2>1, <4>1, <4>2 DEF EcartDue
    <3>4. Turns(c)' = 0
      <4>1. Count(toServer[c], "PLAY_CARD") = 0 /\ Count(toClient[c], "ASK_FOR_CARD") = 0 /\ ~At(c, "play")
        BY <3>1, <3>2 DEF Turns
      <4>2. Count(toServer'[c], "PLAY_CARD") = 0
        BY <2>4, <4>1
      <4>3. QED
        BY <1>1, <2>1, <4>1, <4>2 DEF Turns
    <3>5. QED
      BY <1>4, <3>3, <3>4 DEF Duties, OwesEcart, HasTurn
  <2>7. Fresh(c)' /\ Informed(c)'
    BY <1>1, <1>3, <2>1 DEF Fresh, Informed
  <2>8. QED
    BY <2>3, <2>5, <2>6, <2>7 DEF ClientInv
<1>9. Functions'
  <2>1. conn' = [c \in Clients |-> conn'[c]] /\ toServer' = [c \in Clients |-> toServer'[c]]
    BY <1>1 DEF ServerClose
  <2>2. \A c \in Clients :
          conn'[c] \in {"none", "backlog", "open", "dropped", "broken", "refused", "closed"}
    BY <1>8 DEF UInv, Functions
  <2>3. QED
    BY <1>1, <2>1, <2>2 DEF UInv, Functions
<1>10. Distinct'
  <2>1. \A k \in 1..Len(backlog) : backlog[k] \in Clients
    BY ElementOfSeq DEF Seated, AtTheTable
  <2>2. \A k \in 1..Len(backlog) : conn'[backlog[k]] = "backlog"
    BY <1>8, <2>1 DEF UInv, Distinct
  <2>3. QED
    BY <1>1, <1>6, <2>2 DEF UInv, Distinct
<1>11. QED
  BY <1>5, <1>8, <1>9, <1>10 DEF UInv

\* A message that concerns neither the ecarts nor the tricks.
LEMMA PoliteInv ==
  ASSUME UInv, Seated, NEW i, NEW code \in {"ADD_PLAYER", "UPDATE_SCORE", "ASK_BASIC_INFO"},
         Receive(i, code), SameSeats, SamePhase, UNCHANGED conn,
         toClient' = [c \in Clients |-> toClient'[c]], NEW out,
         \A c \in Clients : Says(c, out[c]) /\ Count(out[c], "ASK_FOR_CARD") = 0
  PROVE  UInv'
<1>1. /\ UNCHANGED <<listening, backlog, cl>>
      /\ toServer' = [c \in Clients |-> toServer'[c]]
      /\ \A c \in Clients : /\ Hears(c, Got(i)[c])
                            /\ \A x : Count(Got(i)[c], x) = IF c = Player(i) /\ code = x THEN 1 ELSE 0
  BY ReceiveFacts
<1>2. /\ Phases'
      /\ \A c \in Clients : (OwesEcart(c)' <=> OwesEcart(c)) /\ (HasTurn(c)' <=> HasTurn(c))
  BY PhaseStays
<1>3. \A c \in Clients : Balanced(c, out[c], Got(i)[c])
  <2>1. \A c \in Clients : Count(Got(i)[c], "ECART") = 0 /\ Count(Got(i)[c], "PLAY_CARD") = 0
    BY <1>1
  <2>2. QED
    BY <1>2, <2>1 DEF Balanced
<1>4. /\ ~Asleep /\ srv'.game_running = srv.game_running /\ srv'.papayoo = srv.papayoo
  BY DEF SamePhase
<1>5. QED
  BY <1>1, <1>2, <1>3, <1>4, ServerStepInv

\* Who signs up keeps its seat, as everybody does.
LEMMA SignedSeats ==
  ASSUME UInv, Seated, NEW i, add_player(i)
  PROVE  SameSeats
<1>1. /\ players \in Seq([client : Clients, is_registered : BOOLEAN])
      /\ i \in Present /\ i + 1 \in 1..Len(players)
  <2>1. Receive(i, "ADD_PLAYER")
    BY DEF add_player
  <2>2. QED
    BY <2>1, ReceiveFacts DEF Seated, AtTheTable, Present, amount_players
<1>2. players' = [players EXCEPT ![i + 1].is_registered = TRUE]
  BY DEF add_player
<1>3. /\ Len(players') = Len(players) /\ DOMAIN players' = DOMAIN players
      /\ DOMAIN players = 1..Len(players) /\ Len(players) \in Nat
  BY <1>1, <1>2
<1>4. \A k \in 1..Len(players) : players'[k].client = players[k].client
  <2>1. \A k \in 1..Len(players) : players[k] \in [client : Clients, is_registered : BOOLEAN]
    BY <1>1, ElementOfSeq
  <2>2. \A k \in 1..Len(players) : k # i + 1 => players'[k] = players[k]
    BY <1>2, <1>3
  <2>3. players'[i + 1] = [players[i + 1] EXCEPT !.is_registered = TRUE]
    BY <1>1, <1>2, <1>3
  <2>4. players'[i + 1].client = players[i + 1].client
    BY <1>1, <2>1, <2>3
  <2>5. QED
    BY <2>2, <2>4
<1>5. Present' = Present /\ amount_players' = amount_players /\ Playing' = Playing
  BY <1>3, <1>4 DEF Present, amount_players, Playing
<1>6. \A j \in Present : Player(j)' = Player(j)
  <2>1. \A j \in Present : j + 1 \in 1..Len(players)
    BY <1>3 DEF Present, amount_players
  <2>2. QED
    BY <1>4, <2>1 DEF Player
<1>7. \A c \in Playing : SeatOf(c)' = SeatOf(c)
  BY <1>5, <1>6 DEF SeatOf
<1>8. QED
  BY <1>5, <1>6, <1>7 DEF SameSeats

LEMMA MessagesInv ==
  ASSUME UInv, Seated, NEW i, add_player(i) \/ update_score(i) \/ send_basic_info(i)
  PROVE  UInv'
<1> DEFINE none == [c \in Clients |-> <<>>]
<1>1. ASSUME UNCHANGED toClient
      PROVE  /\ toClient' = [c \in Clients |-> toClient'[c]]
             /\ \A c \in Clients : Says(c, none[c]) /\ Count(none[c], "ASK_FOR_CARD") = 0
  BY <1>1, SaysNothing, CountEmpty DEF UInv, Functions
<1>2. ASSUME NEW code, Receive(i, code), Served(i) PROVE ~Asleep /\ ~Asleep'
  <2>1. loop.pc = "serve" /\ loop' = [loop EXCEPT !.i = i + 1]
    BY <1>2 DEF Receive, Serving, InLoop, Served
  <2>2. QED
    BY <2>1 DEF Asleep, Seated, Shape
<1> HIDE DEF none
<1>3. ASSUME add_player(i) PROVE UInv'
  <2>1. /\ Receive(i, "ADD_PLAYER") /\ Served(i) /\ UNCHANGED <<srv, board, hist>>
        /\ ServerInforms({Player(i)}) /\ ~Asleep /\ ~Asleep'
    BY <1>2, <1>3 DEF add_player
  <2>2. UNCHANGED <<conn, toClient>>
    BY <2>1, InformFacts
  <2>3. SamePhase
    BY <2>1 DEF SamePhase
  <2>4. SameSeats
    BY <1>3, SignedSeats
  <2>5. QED
    BY <1>1, <2>1, <2>2, <2>3, <2>4, PoliteInv
<1>4. ASSUME update_score(i) PROVE UInv'
  <2>1. /\ Receive(i, "UPDATE_SCORE") /\ UNCHANGED <<conn, toClient, players, hist>>
        /\ Served(i) /\ ~Asleep /\ ~Asleep'
    BY <1>2, <1>4 DEF update_score
  <2>2. SamePhase
    BY <1>4, <2>1 DEF update_score, SamePhase, Seated, Shape
  <2>3. SameSeats
    BY <2>1, SeatsStay
  <2>4. QED
    BY <1>1, <2>1, <2>2, <2>3, PoliteInv
<1>5. ASSUME send_basic_info(i) PROVE UInv'
  <2>1. /\ Receive(i, "ASK_BASIC_INFO") /\ UNCHANGED <<srv, board, hist, players>>
        /\ Served(i) /\ ~Asleep /\ ~Asleep'
    BY <1>2, <1>5 DEF send_basic_info
  <2>2. SamePhase /\ SameSeats
    BY <2>1, SeatsStay DEF SamePhase
  <2>3. CASE srv.current_round = 0
    <3>1. UNCHANGED <<conn, toClient>>
      BY <1>5, <2>1, <2>3, InformFacts DEF send_basic_info
    <3>2. QED
      BY <1>1, <2>1, <2>2, <3>1, PoliteInv
  <2>4. CASE srv.current_round # 0
    <3> PICK m : m = BasicInfo(i, srv)
      OBVIOUS
    <3> DEFINE out == [c \in Clients |-> IF c = Player(i) THEN <<m>> ELSE <<>>]
    <3>1. i \in Present /\ Player(i) \in Playing /\ SeatOf(Player(i)) = i
      BY <2>1, ReceiveFacts
    <3>2. ServerSend(out)
      BY <1>5, <2>4, <3>1 DEF send_basic_info, ToPlayer
    <3>3. m.code = "BASIC_INFO" /\ m.info = CurrentInfo(Player(i))
      BY <3>1 DEF BasicInfo, CurrentInfo
    <3>4. /\ conn' = conn /\ toClient' = [c \in Clients |-> toClient'[c]]
          /\ \A c \in Clients : toClient'[c] = toClient[c] \o out[c]
      <4>1. \A c \in Clients : c \notin Playing => out[c] = <<>>
        BY <3>1
      <4> HIDE DEF out
      <4>2. QED
        BY <2>1, <3>2, <4>1, SendFacts
    <3>5. ASSUME NEW c \in Clients PROVE Says(c, out[c]) /\ Count(out[c], "ASK_FOR_CARD") = 0
      <4>1. CASE c = Player(i)
        <5>1. IsQueue(<<m>>) /\ Len(<<m>>) = 1 /\ <<m>>[1] = m /\ Count(<<m>>, "ASK_FOR_CARD") = 0
          BY <3>3, ShortQueues, CountOne
        <5>2. out[c] = <<m>>
          BY <4>1
        <5> HIDE DEF out
        <5>3. toClient'[c] = toClient[c] \o <<m>>
          BY <3>4, <5>2
        <5>4. \A k \in 1..Len(<<m>>) : <<m>>[k] = m
          BY <5>1
        <5>5. Says(c, <<m>>)
          BY <3>1, <3>3, <4>1, <5>1, <5>3, <5>4 DEF Says, MaySay, SaidCodes
        <5>6. QED
          BY <5>1, <5>2, <5>5
      <4>2. CASE c # Player(i)
        <5>1. out[c] = <<>>
          BY <4>2
        <5> HIDE DEF out
        <5>2. toClient'[c] = toClient[c]
          <6>1. IsQueue(toClient[c])
            BY DEF UInv, ClientInv, Wire
          <6>2. toClient[c] \o <<>> = toClient[c]
            BY <6>1 DEF IsQueue
          <6>3. QED
            BY <3>4, <5>1, <6>2
        <5>3. QED
          BY <5>1, <5>2, SaysNothing, CountEmpty
      <4>3. QED
        BY <4>1, <4>2
    <3> HIDE DEF out
    <3>6. QED
      BY <2>1, <2>2, <3>4, <3>5, PoliteInv
  <2>5. QED
    BY <2>3, <2>4
<1>6. QED
  BY <1>3, <1>4, <1>5

-----------------------------------------------------------------------------
(* The ecarts.                                                             *)

LEMMA EcartInv ==
  ASSUME UInv, Seated, NEW i, receive_ecart_from_player(i)
  PROVE  UInv'
<1> PICK d : d = Player(i)
  OBVIOUS
<1> DEFINE none == [c \in Clients |-> <<>>]
<1>1. /\ Receive(i, "ECART") /\ UNCHANGED <<conn, toClient, players, alarm, board>>
      /\ srv' = [srv EXCEPT !.one_ecart_received = TRUE, !.amount_ecart_received = @ + 1,
                            !.ecarts_received[i] = Received(i).deck]
      /\ hist' = [hist EXCEPT !.given = @ \cup {i}]
      /\ loop' = [loop EXCEPT !.i = i + 1]
  BY DEF receive_ecart_from_player, Served
<1>2. /\ i \in Present /\ d \in Playing /\ d \in Clients /\ SeatOf(d) = i
      /\ ~Asleep /\ loop.pc = "serve" /\ UNCHANGED <<listening, backlog, cl>>
      /\ toServer' = [c \in Clients |-> toServer'[c]]
      /\ \A c \in Clients : /\ Hears(c, Got(i)[c])
                            /\ \A x : Count(Got(i)[c], x) = IF c = d /\ "ECART" = x THEN 1 ELSE 0
      /\ Count(toServer[d], "ECART") # 0
  <2>1. /\ i \in Present /\ d \in Playing /\ d \in Clients /\ SeatOf(d) = i
        /\ ~Asleep /\ loop.pc = "serve" /\ UNCHANGED <<listening, backlog, cl>>
        /\ toServer' = [c \in Clients |-> toServer'[c]] /\ Count(toServer[d], "ECART") # 0
    BY <1>1, ReceiveFacts
  <2>2. \A c \in Clients : /\ Hears(c, Got(i)[c])
                           /\ \A x : Count(Got(i)[c], x) = IF c = d /\ "ECART" = x THEN 1 ELSE 0
    <3>1. \A c \in Clients :
            /\ Hears(c, Got(i)[c])
            /\ \A x : Count(Got(i)[c], x) = IF c = Player(i) /\ "ECART" = x THEN 1 ELSE 0
      BY <1>1, ReceiveFacts
    <3>2. QED
      BY <3>1
  <2>3. QED
    BY <2>1, <2>2
<1>3. /\ srv'.game_running = srv.game_running /\ srv'.updating_score = srv.updating_score
      /\ srv'.papayoo = srv.papayoo
      /\ srv'.one_ecart_received = TRUE
      /\ srv'.amount_ecart_received = srv.amount_ecart_received + 1
      /\ srv'.current_player_turn = srv.current_player_turn
      /\ srv'.amount_cards_played_this_turn = srv.amount_cards_played_this_turn
      /\ hist'.given = hist.given \cup {i} /\ ~Asleep'
  BY <1>1, <1>2 DEF Seated, Shape, Asleep
<1>4. OwesEcart(d)
  <2>1. Wire(d) /\ Duties(d)
    BY <1>2 DEF UInv, ClientInv
  <2>2. /\ Count(toServer[d], "ECART") \in Nat /\ Count(toClient[d], "INIT_DECK") \in Nat
        /\ (IF At(d, "ecart") THEN 1 ELSE 0) \in Nat
    BY <2>1, KindFinite DEF Wire
  <2>3. EcartDue(d) # 0
    BY <1>2, <2>2 DEF EcartDue
  <2>4. QED
    BY <2>1, <2>3 DEF Duties
<1>5. /\ InEcarts /\ ~InTricks /\ i \notin hist.given /\ hist.given \subseteq Present
      /\ srv.amount_ecart_received = Cardinality(hist.given)
      /\ srv.game_running /\ ~srv.updating_score /\ board.pli_size = 0
      /\ srv.current_player_turn = 0 /\ srv.amount_cards_played_this_turn = 0
  BY <1>2, <1>4 DEF OwesEcart, InEcarts, UInv, Phases
<1>6. SameSeats
  BY <1>1, SeatsStay
<1>7. ~InTricks' /\ InEcarts'
  BY <1>3, <1>5 DEF InTricks, InEcarts
<1>8. Cardinality(hist'.given) = srv.amount_ecart_received + 1
  <2>1. amount_players \in Nat /\ Present = 0..amount_players - 1
    BY SeatFacts DEF UInv
  <2>2. IsFiniteSet(Present)
    BY <2>1, FS_Interval
  <2>3. IsFiniteSet(hist.given)
    BY <1>5, <2>2, FS_Subset
  <2>4. Cardinality(hist.given \cup {i}) = Cardinality(hist.given) + 1
    BY <1>5, <2>3, FS_AddElement
  <2>5. QED
    BY <1>3, <1>5, <2>4
<1>9. Phases'
  <2>1. board' = board /\ Present' = Present
    BY <1>1, <1>6 DEF SameSeats
  <2>2. hist'.given \subseteq Present /\ hist'.given # {}
    BY <1>2, <1>3, <1>5
  <2>3. srv'.amount_ecart_received = Cardinality(hist'.given)
    BY <1>3, <1>8
  <2>4. /\ srv'.game_running = TRUE /\ srv'.updating_score = FALSE /\ srv'.one_ecart_received = TRUE
        /\ srv'.current_player_turn = 0 /\ srv'.amount_cards_played_this_turn = 0
        /\ board'.pli_size = 0
    BY <1>3, <1>5, <2>1 DEF UInv, Phases
  <2>5. QED
    BY <1>3, <1>7, <2>1, <2>2, <2>3, <2>4 DEF Phases
<1>10. ASSUME NEW c \in Clients
       PROVE  Says(c, none[c]) /\ Balanced(c, none[c], Got(i)[c])
  <2>1. Says(c, <<>>)
    BY <1>1, SaysNothing
  <2>2. ~HasTurn(c) /\ ~HasTurn(c)'
    BY <1>5, <1>7 DEF HasTurn
  <2>3. OwesEcart(c)' <=> OwesEcart(c) /\ c # d
    <3>1. c \in Playing => SeatOf(c)' = SeatOf(c) /\ (SeatOf(c) = i <=> c = d)
      <4>1. c \in Playing => Player(SeatOf(c)) = c
        BY SeatFacts DEF UInv
      <4>2. QED
        BY <1>2, <1>6, <4>1 DEF SameSeats
    <3>2. QED
      BY <1>3, <1>5, <1>6, <1>7, <3>1 DEF OwesEcart, SameSeats
  <2>4. Count(Got(i)[c], "ECART") = (IF c = d THEN 1 ELSE 0) /\ Count(Got(i)[c], "PLAY_CARD") = 0
    BY <1>2
  <2>5. Count(<<>>, "ASK_FOR_CARD") = 0
    BY CountEmpty
  <2>6. Balanced(c, <<>>, Got(i)[c])
    BY <1>4, <2>2, <2>3, <2>4, <2>5 DEF Balanced
  <2>7. QED
    BY <2>1, <2>6
<1>11. toClient' = [c \in Clients |-> toClient'[c]] /\ UNCHANGED <<listening, backlog, conn, cl>>
  BY <1>1, <1>2 DEF UInv, Functions
<1> HIDE DEF none
<1>12. QED
  BY <1>2, <1>3, <1>6, <1>9, <1>10, <1>11, ServerStepInv

LEMMA MaySayCat ==
  ASSUME NEW c, NEW a, NEW b, MaySay(c, a), MaySay(c, b)
  PROVE  /\ MaySay(c, a \o b)
         /\ \A x : Count(a \o b, x) = Count(a, x) + Count(b, x)
<1>1. IsQueue(a) /\ IsQueue(b)
  BY DEF MaySay
<1>2. /\ IsQueue(a \o b) /\ Len(a \o b) = Len(a) + Len(b) /\ Len(a) \in Nat /\ Len(b) \in Nat
      /\ \A k \in 1..Len(a) : (a \o b)[k] = a[k]
      /\ \A k \in 1..Len(b) : (a \o b)[k + Len(a)] = b[k]
  BY <1>1, QueueCat, QueueLen
<1>3. ASSUME NEW k \in 1..Len(a \o b)
      PROVE  \/ \E j \in 1..Len(a) : (a \o b)[k] = a[j]
             \/ \E j \in 1..Len(b) : (a \o b)[k] = b[j]
  <2>1. CASE k \in 1..Len(a)
    BY <1>2, <2>1
  <2>2. CASE k \notin 1..Len(a)
    <3>1. k - Len(a) \in 1..Len(b) /\ (k - Len(a)) + Len(a) = k
      BY <1>2, <2>2
    <3>2. QED
      BY <1>2, <3>1
  <2>3. QED
    BY <2>1, <2>2
<1>4. c \notin Playing => a \o b = <<>>
  <2>1. c \notin Playing => a = <<>> /\ b = <<>>
    BY DEF MaySay
  <2>2. QED
    BY <2>1
<1>5. MaySay(c, a \o b)
  <2> DEFINE t == a \o b
  <2>1. /\ \A k \in 1..Len(t) : \/ \E j \in 1..Len(a) : t[k] = a[j]
                                \/ \E j \in 1..Len(b) : t[k] = b[j]
        /\ IsQueue(t) /\ (c \notin Playing => t = <<>>)
    BY <1>2, <1>3, <1>4
  <2> HIDE DEF t
  <2>2. MaySay(c, t)
    BY <2>1 DEF MaySay
  <2>3. QED
    BY <2>2 DEF t
<1>6. QED
  BY <1>1, <1>5, CountCat

LEMMA MaySayOne ==
  ASSUME NEW c, NEW m, NEW cond \in BOOLEAN, cond => c \in Playing,
         m.code \in SaidCodes \ {"BASIC_INFO"},
         cond /\ m.code = "ECARTS" => cl[c].info.amount_players # 0,
         cond /\ m.code = "END_GAME" => Asleep'
  PROVE  /\ MaySay(c, IF cond THEN <<m>> ELSE <<>>)
         /\ \A x : Count(IF cond THEN <<m>> ELSE <<>>, x) = IF cond /\ m.code = x THEN 1 ELSE 0
<1>1. IsQueue(<<m>>) /\ Len(<<m>>) = 1 /\ <<m>>[1] = m /\ IsQueue(<<>>) /\ Len(<<>>) = 0
  BY ShortQueues
<1>2. MaySay(c, <<>>)
  BY <1>1 DEF MaySay
<1>3. ASSUME cond PROVE MaySay(c, <<m>>)
  <2>1. \A k \in 1..Len(<<m>>) : <<m>>[k] = m
    BY <1>1
  <2>2. QED
    BY <1>1, <1>3, <2>1 DEF MaySay
<1>4. \A x : Count(<<m>>, x) = (IF m.code = x THEN 1 ELSE 0) /\ Count(<<>>, x) = 0
  BY CountOne, CountEmpty
<1>5. QED
  BY <1>2, <1>3, <1>4

\* What the server says to everybody and to the leader of a trick.
LEMMA SaysBoth ==
  ASSUME UInv, Seated, NEW a, NEW b,
         \A c \in Clients : MaySay(c, a[c]) /\ MaySay(c, b[c]),
         ServerSend(Then(a, b)), ~Asleep
  PROVE  /\ conn' = conn /\ toClient' = [c \in Clients |-> toClient'[c]]
         /\ \A c \in Clients :
              /\ Says(c, Then(a, b)[c])
              /\ \A x : Count(Then(a, b)[c], x) = Count(a[c], x) + Count(b[c], x)
<1>1. \A c \in Clients : Then(a, b)[c] = a[c] \o b[c]
  BY DEF Then
<1>2. \A c \in Clients : /\ MaySay(c, Then(a, b)[c])
                         /\ \A x : Count(Then(a, b)[c], x) = Count(a[c], x) + Count(b[c], x)
  <2>1. ASSUME NEW c \in Clients
        PROVE  /\ MaySay(c, a[c] \o b[c])
               /\ \A x : Count(a[c] \o b[c], x) = Count(a[c], x) + Count(b[c], x)
    <3> PICK p : p = a[c]
      OBVIOUS
    <3> PICK q : q = b[c]
      OBVIOUS
    <3>1. MaySay(c, p) /\ MaySay(c, q)
      OBVIOUS
    <3>2. MaySay(c, p \o q)
      BY <3>1, MaySayCat
    <3>3. ASSUME NEW x PROVE Count(p \o q, x) = Count(p, x) + Count(q, x)
      BY <3>1, CountCat DEF MaySay
    <3>4. QED
      BY <3>2, <3>3
  <2>2. QED
    BY <1>1, <2>1
<1>3. \A c \in Clients : c \notin Playing => Then(a, b)[c] = <<>>
  BY <1>2 DEF MaySay
<1>4. /\ conn' = conn /\ toClient' = [c \in Clients |-> toClient'[c]]
      /\ \A c \in Clients : toClient'[c] = toClient[c] \o Then(a, b)[c]
  BY <1>3, SendFacts
<1>5. QED
  BY <1>2, <1>4 DEF Says

\* The question to the player i.
LEMMA AskFacts ==
  ASSUME UInv, Seated, NEW i \in Present, NEW c \in Clients
  PROVE  /\ MaySay(c, ask_for_card(i)[c])
         /\ \A x : Count(ask_for_card(i)[c], x) = IF c = Player(i) /\ x = "ASK_FOR_CARD" THEN 1 ELSE 0
<1> PICK m : m = Msg("ASK_FOR_CARD")
  OBVIOUS
<1> PICK cond \in BOOLEAN : cond <=> c = Player(i)
  OBVIOUS
<1>1. m.code = "ASK_FOR_CARD"
  BY DEF Msg
<1>2. cond => c \in Playing
  BY SeatFacts DEF UInv
<1>3. /\ MaySay(c, IF cond THEN <<m>> ELSE <<>>)
      /\ \A x : Count(IF cond THEN <<m>> ELSE <<>>, x) = IF cond /\ m.code = x THEN 1 ELSE 0
  <2>1. /\ m.code \in SaidCodes \ {"BASIC_INFO"}
        /\ ~(cond /\ m.code = "ECARTS") /\ ~(cond /\ m.code = "END_GAME")
    BY <1>1 DEF SaidCodes
  <2>2. QED
    BY <1>2, <2>1, MaySayOne
<1>4. ask_for_card(i)[c] = IF cond THEN <<m>> ELSE <<>>
  BY DEF ask_for_card, ToPlayer
<1>5. QED
  BY <1>1, <1>3, <1>4

\* The ecarts are sent back when every player has given one, and not before.
LEMMA BackFacts ==
  ASSUME UInv, Seated, send_ecart_back
  PROVE  /\ srv.game_running /\ InEcarts /\ ~InTricks /\ hist.given = Present
         /\ amount_players \in Nat /\ amount_players >= 2
         /\ Present = 0..amount_players - 1 /\ 0 \in Present
<1>1. /\ ~Asleep /\ srv.one_ecart_received /\ srv.amount_ecart_received = amount_players
  BY DEF send_ecart_back, EcartsComplete, AfterServing, InLoop, Asleep
<1>2. InEcarts /\ ~InTricks /\ srv.game_running
  BY <1>1 DEF UInv, Phases, InEcarts
<1>3. amount_players \in Nat /\ amount_players >= 2
  BY <1>1, <1>2, SeatFacts DEF Seated, GameHasItsPlayers, UInv, Asleep
<1>4. Present = 0..amount_players - 1
  BY SeatFacts DEF UInv
<1>5. /\ hist.given \subseteq Present /\ Cardinality(hist.given) = amount_players
  BY <1>1, <1>2 DEF UInv, Phases
<1>6. IsFiniteSet(Present) /\ Cardinality(Present) = amount_players
  BY <1>3, <1>4, FS_Interval
<1>7. hist.given = Present
  BY <1>5, <1>6, FS_Subset
<1>8. QED
  BY <1>2, <1>3, <1>4, <1>7

LEMMA BackInv ==
  ASSUME UInv, Seated, send_ecart_back
  PROVE  UInv'
<1> DEFINE Ecart(i) == [code |-> "ECARTS",
                        deck |-> srv.ecarts_received[(i + amount_players - 1) % amount_players]]
           a    == ToEverybody(LAMBDA i : <<Ecart(i)>>)
           b    == ask_for_card(0)
           none == [c \in Clients |-> <<>>]
<1>1. /\ srv.game_running /\ InEcarts /\ ~InTricks /\ hist.given = Present
      /\ amount_players \in Nat /\ amount_players >= 2
      /\ Present = 0..amount_players - 1 /\ 0 \in Present
  BY BackFacts
<1>2. /\ srv.current_player_turn = 0 /\ srv.amount_cards_played_this_turn = 0
      /\ board.pli_size = 0 /\ ~srv.updating_score
  BY <1>1 DEF UInv, Phases, InEcarts
<1>3. /\ ~Asleep /\ ServerSend(Then(a, b))
      /\ srv' = [srv EXCEPT !.one_ecart_received = FALSE, !.amount_ecart_received = 0]
      /\ loop' = [pc |-> "scores", ready |-> {}, i |-> 0]
      /\ UNCHANGED <<listening, backlog, toServer, players, alarm, board, hist, cl>>
  BY <1>2 DEF send_ecart_back, AfterServing, InLoop, Asleep, clientVars
<1>4. /\ srv'.game_running = srv.game_running /\ srv'.updating_score = srv.updating_score
      /\ srv'.papayoo = srv.papayoo /\ ~Asleep'
      /\ srv'.one_ecart_received = FALSE /\ srv'.amount_ecart_received = 0
      /\ srv'.current_player_turn = 0 /\ srv'.amount_cards_played_this_turn = 0
      /\ hist'.given = Present /\ board'.pli_size = 0
  BY <1>1, <1>2, <1>3 DEF Seated, Shape, Asleep
<1>5. SameSeats
  BY <1>3, SeatsStay
<1>6. InTricks' /\ ~InEcarts'
  BY <1>1, <1>2, <1>4, <1>5 DEF InTricks, InEcarts, SameSeats
<1>7. Phases'
  <2>1. Present' = Present /\ amount_players' = amount_players /\ 0 \in 0..amount_players - 1
    BY <1>1, <1>5 DEF SameSeats
  <2>2. \A k \in 0..board'.pli_size - 1 : FALSE
    BY <1>4
  <2>3. srv'.game_running \in BOOLEAN /\ srv'.updating_score \in BOOLEAN
    BY <1>4 DEF UInv, Phases
  <2>4. QED
    BY <1>1, <1>2, <1>4, <1>6, <2>1, <2>2, <2>3 DEF Phases
<1>8. ASSUME NEW c \in Clients
      PROVE  /\ MaySay(c, a[c]) /\ MaySay(c, b[c])
             /\ Count(a[c], "ASK_FOR_CARD") = 0
             /\ Count(b[c], "ASK_FOR_CARD") = IF c = Player(0) THEN 1 ELSE 0
             /\ ~OwesEcart(c)
  <2> PICK cond \in BOOLEAN : cond <=> c \in Playing
    OBVIOUS
  <2> PICK m : m = Ecart(SeatOf(c))
    OBVIOUS
  <2>1. a[c] = IF cond THEN <<m>> ELSE <<>>
    BY DEF ToEverybody
  <2>2. m.code = "ECARTS"
    OBVIOUS
  <2>3. ~OwesEcart(c)
    BY <1>1, SeatFacts DEF UInv, OwesEcart
  <2>4. c \in Playing => cl[c].info.amount_players # 0
    <3>1. Wire(c) /\ Duties(c) /\ Fresh(c)
      BY DEF UInv, ClientInv
    <3>2. Count(toClient[c], "INIT_DECK") = 0
      <4>1. /\ Count(toServer[c], "ECART") \in Nat /\ Count(toClient[c], "INIT_DECK") \in Nat
            /\ (IF At(c, "ecart") THEN 1 ELSE 0) \in Nat
        BY <3>1, KindFinite DEF Wire
      <4>2. EcartDue(c) = 0
        BY <2>3, <3>1 DEF Duties
      <4>3. QED
        BY <4>1, <4>2 DEF EcartDue
    <3>3. c \in Playing => cl[c].info = CurrentInfo(c)
      BY <1>1, <1>3, <3>1, <3>2 DEF Fresh, FreshQueue
    <3>4. QED
      BY <1>1, <3>3 DEF CurrentInfo
  <2>5. MaySay(c, a[c]) /\ Count(a[c], "ASK_FOR_CARD") = 0
    <3>1. /\ MaySay(c, IF cond THEN <<m>> ELSE <<>>)
          /\ \A x : Count(IF cond THEN <<m>> ELSE <<>>, x) = IF cond /\ m.code = x THEN 1 ELSE 0
      BY <2>2, <2>4, MaySayOne DEF SaidCodes
    <3>2. QED
      BY <2>1, <2>2, <3>1
  <2>6. MaySay(c, b[c]) /\ Count(b[c], "ASK_FOR_CARD") = IF c = Player(0) THEN 1 ELSE 0
    BY <1>1, AskFacts
  <2>7. QED
    BY <2>3, <2>5, <2>6
<1> HIDE DEF a, b
<1>9. /\ conn' = conn /\ toClient' = [c \in Clients |-> toClient'[c]]
      /\ \A c \in Clients :
           /\ Says(c, Then(a, b)[c])
           /\ \A x : Count(Then(a, b)[c], x) = Count(a[c], x) + Count(b[c], x)
  BY <1>3, <1>8, SaysBoth
<1>10. ASSUME NEW c \in Clients
       PROVE  Hears(c, none[c]) /\ Balanced(c, Then(a, b)[c], none[c])
  <2>1. Hears(c, none[c])
    BY <1>3 DEF Hears
  <2>2. ~OwesEcart(c) /\ ~OwesEcart(c)' /\ ~HasTurn(c)
    BY <1>1, <1>6, <1>8 DEF OwesEcart, HasTurn
  <2>3. HasTurn(c)' <=> c = Player(0)
    <3>1. (0 + 0) % amount_players = 0
      BY <1>1
    <3>2. Player(0)' = Player(0) /\ amount_players' = amount_players
      BY <1>1, <1>5 DEF SameSeats
    <3>3. (srv'.current_player_turn + board'.pli_size) % amount_players' = 0
      BY <1>4, <3>1, <3>2
    <3>4. QED
      BY <1>6, <3>2, <3>3 DEF HasTurn, Player
  <2>4. Count(Then(a, b)[c], "ASK_FOR_CARD") = IF c = Player(0) THEN 1 ELSE 0
    <3>1. Count(Then(a, b)[c], "ASK_FOR_CARD") = Count(a[c], "ASK_FOR_CARD") + Count(b[c], "ASK_FOR_CARD")
      BY <1>9
    <3>2. QED
      BY <1>8, <3>1
  <2>5. Count(none[c], "ECART") = 0 /\ Count(none[c], "PLAY_CARD") = 0
    BY CountEmpty
  <2>6. QED
    BY <2>1, <2>2, <2>3, <2>4, <2>5 DEF Balanced
<1>11. toServer' = [c \in Clients |-> toServer'[c]]
  BY <1>3 DEF UInv, Functions
<1> HIDE DEF none
<1>12. QED
  BY <1>3, <1>4, <1>5, <1>7, <1>9, <1>10, <1>11, ServerStepInv


-----------------------------------------------------------------------------
(* The tricks.                                                             *)

\* The players take turns around the table.
LEMMA NextSeat ==
  ASSUME NEW n \in Nat \ {0}, NEW a \in 0..n - 1, NEW b \in 0..n - 2
  PROVE  (((a + b) % n) + 1) % n = (a + (b + 1)) % n
<1>1. \A x \in 0..n - 1 : x % n = x
  OBVIOUS
<1>2. \A x \in n..2 * n - 1 : x % n = x - n
  OBVIOUS
<1>3. CASE a + b + 1 <= n
  BY <1>1, <1>3
<1>4. CASE a + b >= n
  <2>1. a + b \in n..2 * n - 1 /\ a + b + 1 \in n..2 * n - 1 /\ a + b - n + 1 \in 0..n - 1
    BY <1>4
  <2>2. (a + b) % n = a + b - n /\ (a + b + 1) % n = a + b + 1 - n
    BY <1>2, <2>1
  <2>3. QED
    BY <1>1, <2>1, <2>2
<1>5. QED
  BY <1>3, <1>4

\* A card comes from the player whose turn it is, who signs it with its index.
LEMMA PlayFacts ==
  ASSUME UInv, Seated, NEW i, Receive(i, "PLAY_CARD")
  PROVE  /\ InTricks /\ ~InEcarts /\ ~Asleep /\ loop.pc = "serve"
         /\ amount_players \in Nat /\ amount_players >= 2 /\ amount_players <= MAX_PLAYERS
         /\ i \in Present /\ Present = 0..amount_players - 1
         /\ i = (srv.current_player_turn + board.pli_size) % amount_players
         /\ Received(i).played.last_played = i
         /\ \A c \in Clients : HasTurn(c) <=> c = Player(i)
         /\ srv.current_player_turn \in Present
         /\ board.pli_size \in 0..amount_players - 1
         /\ srv.amount_cards_played_this_turn = board.pli_size
<1> PICK d : d = Player(i)
  OBVIOUS
<1> PICK h : h = (srv.current_player_turn + board.pli_size) % amount_players
  OBVIOUS
<1>1. /\ i \in Present /\ d \in Playing /\ d \in Clients /\ SeatOf(d) = i
      /\ ~Asleep /\ loop.pc = "serve" /\ Received(i).code = "PLAY_CARD"
      /\ Count(toServer[d], "PLAY_CARD") # 0
      /\ \E k \in 1..Len(toServer[d]) : toServer[d][k] = Received(i)
  BY ReceiveFacts
<1>2. Wire(d) /\ Duties(d) /\ Fresh(d)
  BY <1>1 DEF UInv, ClientInv
<1>3. HasTurn(d)
  <2>1. /\ Count(toServer[d], "PLAY_CARD") \in Nat /\ Count(toClient[d], "ASK_FOR_CARD") \in Nat
        /\ (IF At(d, "play") THEN 1 ELSE 0) \in Nat
    BY <1>2, KindFinite DEF Wire
  <2>2. Turns(d) # 0
    BY <1>1, <2>1 DEF Turns
  <2>3. QED
    BY <1>2, <2>2 DEF Duties
<1>4. InTricks /\ d = Player(h)
  BY <1>3 DEF HasTurn
<1>5. h \in Present
  BY <1>4, TurnHolder DEF UInv
<1>6. i = h
  <2>1. SeatOf(Player(h)) = h
    BY <1>5, SeatFacts DEF UInv
  <2>2. QED
    BY <1>1, <1>4, <2>1
<1>7. /\ ~InEcarts /\ srv.game_running /\ srv.current_player_turn \in Present
      /\ board.pli_size \in 0..amount_players - 1
      /\ srv.amount_cards_played_this_turn = board.pli_size
  BY <1>4 DEF UInv, Phases, InEcarts, InTricks
<1>8. /\ amount_players \in Nat /\ amount_players >= 2 /\ amount_players <= MAX_PLAYERS
      /\ Present = 0..amount_players - 1
  BY <1>1, <1>7, SeatFacts DEF Seated, GameHasItsPlayers, UInv, Asleep
<1>9. Received(i).played.last_played = i
  BY <1>1, <1>2, <1>7 DEF Fresh
<1>10. \A c \in Clients : HasTurn(c) <=> c = Player(i)
  BY <1>4, <1>6 DEF HasTurn
<1>11. QED
  BY <1>1, <1>4, <1>6, <1>7, <1>8, <1>9, <1>10

\* The board with the card that has just arrived.
LEMMA BoardFacts ==
  ASSUME UInv, Seated, NEW i, Receive(i, "PLAY_CARD")
  PROVE  /\ FullBoard(i).pli_size = board.pli_size + 1
         /\ \A k \in 0..board.pli_size : FullBoard(i).pli[k].last_played \in Present
<1> PICK p : p = Received(i).played
  OBVIOUS
<1> PICK n : n = board.pli_size
  OBVIOUS
<1>1. /\ InTricks /\ amount_players \in Nat /\ amount_players <= MAX_PLAYERS
      /\ i \in Present /\ p.last_played = i /\ n \in 0..amount_players - 1
  BY PlayFacts
<1>2. n \in Seats /\ n \in DOMAIN board.pli
  BY <1>1, ServerAssumption DEF Seats, Seated, Shape
<1>3. FullBoard(i) = [[board EXCEPT !.pli = [@ EXCEPT ![n] = p]] EXCEPT !.pli_size = @ + 1]
  BY <1>2 DEF FullBoard, WithCard
<1>4. FullBoard(i).pli = [board.pli EXCEPT ![n] = p] /\ FullBoard(i).pli_size = n + 1
  BY <1>3 DEF Seated, Shape
<1>5. ASSUME NEW k \in 0..n PROVE FullBoard(i).pli[k].last_played \in Present
  <2>1. CASE k = n
    <3>1. FullBoard(i).pli[n] = p
      BY <1>2, <1>4
    <3>2. QED
      BY <1>1, <2>1, <3>1
  <2>2. CASE k # n
    <3>1. k \in 0..n - 1
      BY <1>1, <2>2
    <3>2. board.pli[k].last_played \in Present
      BY <1>1, <3>1 DEF UInv, Phases
    <3>3. FullBoard(i).pli[k] = board.pli[k]
      BY <1>4, <2>2, <1>1, <3>1, <1>2 DEF Seats, Seated, Shape
    <3>4. QED
      BY <3>2, <3>3
  <2>3. QED
    BY <2>1, <2>2
<1>6. QED
  BY <1>4, <1>5

LEMMA LoserFacts ==
  ASSUME UInv, Seated, NEW i, Receive(i, "PLAY_CARD"), CardsPlayed = amount_players
  PROVE  TrickLoser(i) \in Present
<1>1. /\ amount_players \in Nat \ {0} /\ board.pli_size \in Nat
      /\ board.pli_size = amount_players - 1
  BY PlayFacts DEF CardsPlayed
<1>2. PICK k \in 0..amount_players - 1 :
        TrickLoser(i) = FullBoard(i).pli[k].last_played
  BY <1>1, LoserPlayed DEF TrickLoser
<1>3. QED
  BY <1>1, <1>2, BoardFacts

\* The step of a card, whatever it leads to: what is announced, and who is
\* asked next.
LEMMA CardInv ==
  ASSUME UInv, Seated, NEW i, Receive(i, "PLAY_CARD"), UNCHANGED players,
         srv'.game_running = srv.game_running, srv'.papayoo = srv.papayoo,
         ~InEcarts', Phases', NEW a, NEW b, ServerSend(Then(a, b)),
         \A c \in Clients :
           /\ MaySay(c, a[c]) /\ MaySay(c, b[c])
           /\ Count(a[c], "ASK_FOR_CARD") + Count(b[c], "ASK_FOR_CARD")
                = IF HasTurn(c)' THEN 1 ELSE 0
  PROVE  UInv'
<1>1. /\ ~InEcarts /\ ~Asleep /\ \A c \in Clients : HasTurn(c) <=> c = Player(i)
  BY PlayFacts
<1>2. UNCHANGED <<listening, backlog, cl>> /\ toServer' = [c \in Clients |-> toServer'[c]]
  BY ReceiveFacts
<1>3. /\ conn' = conn /\ toClient' = [c \in Clients |-> toClient'[c]]
      /\ \A c \in Clients :
           /\ Says(c, Then(a, b)[c])
           /\ \A x : Count(Then(a, b)[c], x) = Count(a[c], x) + Count(b[c], x)
  BY <1>1, SaysBoth
<1>4. ASSUME NEW c \in Clients
      PROVE  Hears(c, Got(i)[c]) /\ Balanced(c, Then(a, b)[c], Got(i)[c])
  <2>1. /\ Hears(c, Got(i)[c])
        /\ \A x : Count(Got(i)[c], x) = IF c = Player(i) /\ "PLAY_CARD" = x THEN 1 ELSE 0
    BY ReceiveFacts
  <2>2. /\ Count(Got(i)[c], "ECART") = 0
        /\ Count(Got(i)[c], "PLAY_CARD") = IF HasTurn(c) THEN 1 ELSE 0
    BY <1>1, <2>1
  <2>3. Count(Then(a, b)[c], "ASK_FOR_CARD") = IF HasTurn(c)' THEN 1 ELSE 0
    <3>1. Count(Then(a, b)[c], "ASK_FOR_CARD") = Count(a[c], "ASK_FOR_CARD") + Count(b[c], "ASK_FOR_CARD")
      BY <1>3
    <3>2. QED
      BY <3>1
  <2>4. ~OwesEcart(c) /\ ~OwesEcart(c)'
    BY <1>1 DEF OwesEcart
  <2>5. QED
    BY <2>1, <2>2, <2>3, <2>4 DEF Balanced
<1>5. SameSeats
  BY SeatsStay
<1> PICK out : out = Then(a, b)
  OBVIOUS
<1> PICK got : got = Got(i)
  OBVIOUS
<1>6. \A c \in Clients : Says(c, out[c]) /\ Hears(c, got[c]) /\ Balanced(c, out[c], got[c])
  BY <1>3, <1>4
<1>7. QED
  BY <1>1, <1>2, <1>3, <1>5, <1>6, ServerStepInv

\* The messages to everybody, and the trick to who has taken it.
LEMMA AnnounceFacts ==
  ASSUME UInv, Seated, NEW code \in {"SHOW_PLI", "ADD_SCORE"}, NEW c \in Clients
  PROVE  MaySay(c, Announce(code)[c]) /\ Count(Announce(code)[c], "ASK_FOR_CARD") = 0
<1> PICK m : m = Msg(code)
  OBVIOUS
<1> PICK cond \in BOOLEAN : cond <=> c \in Playing
  OBVIOUS
<1>1. m.code = code /\ m.code \in SaidCodes \ {"BASIC_INFO"} /\ m.code \notin {"ECARTS", "END_GAME"}
  BY DEF Msg, SaidCodes
<1>2. /\ MaySay(c, IF cond THEN <<m>> ELSE <<>>)
      /\ \A x : Count(IF cond THEN <<m>> ELSE <<>>, x) = IF cond /\ m.code = x THEN 1 ELSE 0
  BY <1>1, MaySayOne
<1>3. Announce(code)[c] = IF cond THEN <<m>> ELSE <<>>
  BY DEF Announce, ToEverybody
<1>4. QED
  BY <1>1, <1>2, <1>3

LEMMA PliFacts ==
  ASSUME UInv, Seated, NEW i, Receive(i, "PLAY_CARD"), CardsPlayed = amount_players,
         NEW c \in Clients
  PROVE  MaySay(c, send_pli(i)[c]) /\ Count(send_pli(i)[c], "ASK_FOR_CARD") = 0
<1>a. PICK m : m = [code |-> "ADD_PLI", deck |-> [k \in 1..FullBoard(i).pli_size |->
                                                    FullBoard(i).pli[k - 1].card]]
  OBVIOUS
<1>b. PICK cond \in BOOLEAN : cond <=> c = Player(TrickLoser(i))
  OBVIOUS
<1>1. /\ m.code = "ADD_PLI" /\ m.code \in SaidCodes \ {"BASIC_INFO"}
      /\ m.code \notin {"ECARTS", "END_GAME"}
  BY <1>a DEF SaidCodes
<1>2. TrickLoser(i) \in Present
  BY LoserFacts
<1>3. cond => c \in Playing
  BY <1>b, <1>2, SeatFacts DEF UInv
<1>4. /\ MaySay(c, IF cond THEN <<m>> ELSE <<>>)
      /\ \A x : Count(IF cond THEN <<m>> ELSE <<>>, x) = IF cond /\ m.code = x THEN 1 ELSE 0
  <2>1. /\ m.code \in SaidCodes \ {"BASIC_INFO"}
        /\ ~(cond /\ m.code = "ECARTS") /\ ~(cond /\ m.code = "END_GAME")
    BY <1>1
  <2>2. QED
    BY <1>3, <2>1, MaySayOne
<1>5. send_pli(i)[c] = IF cond THEN <<m>> ELSE <<>>
  BY <1>a, <1>b, <1>2 DEF send_pli, ToPlayer
<1>6. QED
  BY <1>1, <1>4, <1>5

\* receive_played_card, when others have still to play.
LEMMA TrickGoesOnInv ==
  ASSUME UInv, Seated, NEW i, TrickGoesOn(i)
  PROVE  UInv'
<1> PICK n : n = amount_players
  OBVIOUS
<1> PICK next : next = (i + 1) % n
  OBVIOUS
<1> PICK a : a = Announce("SHOW_PLI")
  OBVIOUS
<1> PICK b : b = ask_for_card(next)
  OBVIOUS
<1>1. /\ Receive(i, "PLAY_CARD") /\ CardsPlayed # n /\ board' = FullBoard(i)
      /\ srv' = [srv EXCEPT !.amount_cards_played_this_turn = CardsPlayed]
      /\ UNCHANGED <<players, hist>> /\ loop' = [loop EXCEPT !.i = i + 1]
      /\ ServerSend(Then(Announce("SHOW_PLI"),
                         ask_for_card((Received(i).played.last_played + 1) % amount_players)))
  BY DEF TrickGoesOn, Served, FullBoard
<1>2. /\ InTricks /\ ~InEcarts /\ ~Asleep /\ loop.pc = "serve"
      /\ n \in Nat /\ n >= 2 /\ Present = 0..n - 1
      /\ i = (srv.current_player_turn + board.pli_size) % n
      /\ Received(i).played.last_played = i
      /\ srv.current_player_turn \in Present
      /\ board.pli_size \in 0..n - 1
      /\ srv.amount_cards_played_this_turn = board.pli_size
  BY <1>1, PlayFacts
<1>3. ServerSend(Then(a, b))
  BY <1>1, <1>2
<1>4. /\ srv'.game_running = srv.game_running /\ srv'.updating_score = srv.updating_score
      /\ srv'.papayoo = srv.papayoo /\ ~Asleep'
      /\ srv'.one_ecart_received = srv.one_ecart_received
      /\ srv'.amount_ecart_received = srv.amount_ecart_received
      /\ srv'.current_player_turn = srv.current_player_turn
      /\ srv'.amount_cards_played_this_turn = board.pli_size + 1
      /\ board'.pli_size = board.pli_size + 1 /\ board.pli_size \in 0..n - 2
      /\ \A k \in 0..board.pli_size : board'.pli[k].last_played \in Present
  <2>1. CardsPlayed = board.pli_size + 1 /\ board.pli_size \in 0..n - 2
    BY <1>1, <1>2 DEF CardsPlayed
  <2>2. /\ board'.pli_size = board.pli_size + 1
        /\ \A k \in 0..board.pli_size : board'.pli[k].last_played \in Present
    BY <1>1, BoardFacts
  <2>3. QED
    BY <1>1, <1>2, <2>1, <2>2 DEF Seated, Shape, Asleep
<1>5. SameSeats
  BY <1>1, SeatsStay
<1>6. /\ Present' = Present /\ amount_players' = n
      /\ InTricks' /\ ~InEcarts'
  BY <1>1, <1>2, <1>4, <1>5 DEF SameSeats, InTricks, InEcarts
<1>7. Phases'
  <2>1. /\ srv'.game_running \in BOOLEAN /\ srv'.updating_score \in BOOLEAN
        /\ srv'.one_ecart_received \in BOOLEAN /\ ~srv'.updating_score
        /\ hist'.given \subseteq Present
        /\ ~srv'.one_ecart_received /\ srv'.amount_ecart_received = 0
    BY <1>1, <1>2, <1>4 DEF UInv, Phases, InTricks
  <2>2. board'.pli_size \in 0..n - 1 /\ board'.pli_size - 1 = board.pli_size
    <3>1. \A x \in 0..n - 2 : x + 1 \in 0..n - 1 /\ (x + 1) - 1 = x
      BY <1>2
    <3>2. QED
      BY <1>4, <3>1
  <2>3. QED
    BY <1>2, <1>4, <1>6, <2>1, <2>2 DEF Phases
<1>8. next = (srv'.current_player_turn + board'.pli_size) % amount_players' /\ next \in Present
  <2>1. (((srv.current_player_turn + board.pli_size) % n) + 1) % n
          = (srv.current_player_turn + (board.pli_size + 1)) % n
    <3>1. n \in Nat \ {0} /\ srv.current_player_turn \in 0..n - 1 /\ board.pli_size \in 0..n - 2
      BY <1>2, <1>4
    <3>2. QED
      BY <3>1, NextSeat
  <2>2. next = (srv.current_player_turn + (board.pli_size + 1)) % n
    BY <1>2, <2>1
  <2>3. i + 1 \in Nat /\ (i + 1) % n \in 0..n - 1
    <3>1. i \in Nat
      BY <1>2
    <3>2. QED
      BY <1>2, <3>1
  <2>4. QED
    BY <1>2, <1>4, <1>6, <2>2, <2>3
<1>9. ASSUME NEW c \in Clients
      PROVE  /\ MaySay(c, a[c]) /\ MaySay(c, b[c])
             /\ Count(a[c], "ASK_FOR_CARD") + Count(b[c], "ASK_FOR_CARD")
                  = IF HasTurn(c)' THEN 1 ELSE 0
  <2>1. MaySay(c, a[c]) /\ Count(a[c], "ASK_FOR_CARD") = 0
    BY AnnounceFacts
  <2>2. MaySay(c, b[c]) /\ Count(b[c], "ASK_FOR_CARD") = IF c = Player(next) THEN 1 ELSE 0
    BY <1>8, AskFacts
  <2>3. HasTurn(c)' <=> c = Player(next)
    <3>1. Player(next)' = Player(next)
      BY <1>5, <1>8 DEF SameSeats
    <3>2. QED
      BY <1>6, <1>8, <3>1 DEF HasTurn, Player
  <2>4. QED
    BY <2>1, <2>2, <2>3
<1>10. QED
  BY <1>1, <1>3, <1>4, <1>6, <1>7, <1>9, CardInv

\* What every end of a trick has in common.
LEMMA TrickEndFacts ==
  ASSUME UInv, Seated, NEW i, TrickEnds(i)
  PROVE  /\ Receive(i, "PLAY_CARD") /\ CardsPlayed = amount_players /\ UNCHANGED players
         /\ board'.pli_size = 0 /\ hist'.given = hist.given
         /\ InTricks /\ ~InEcarts /\ ~Asleep /\ loop.pc = "serve"
         /\ TrickLoser(i) \in Present
         /\ amount_players \in Nat /\ amount_players >= 2 /\ Present = 0..amount_players - 1
         /\ hist.given = Present
         /\ ~srv.one_ecart_received /\ srv.amount_ecart_received = 0
         /\ srv.game_running /\ ~srv.updating_score
<1>1. /\ Receive(i, "PLAY_CARD") /\ CardsPlayed = amount_players /\ UNCHANGED players
      /\ board' = [FullBoard(i) EXCEPT !.pli_size = 0]
      /\ hist' = [hist EXCEPT !.earned[TrickLoser(i)] = @ + TrickPoints(i)]
  BY DEF TrickEnds
<1>2. /\ InTricks /\ ~InEcarts /\ ~Asleep /\ loop.pc = "serve"
      /\ amount_players \in Nat /\ amount_players >= 2 /\ Present = 0..amount_players - 1
  BY <1>1, PlayFacts
<1>3. TrickLoser(i) \in Present
  BY <1>1, LoserFacts
<1>4. board'.pli_size = 0 /\ hist'.given = hist.given
  BY <1>1 DEF FullBoard, WithCard, Seated, Shape
<1>5. /\ hist.given = Present /\ ~srv.one_ecart_received /\ srv.amount_ecart_received = 0
      /\ srv.game_running /\ ~srv.updating_score
  BY <1>2 DEF UInv, Phases, InTricks
<1>6. QED
  BY <1>1, <1>2, <1>3, <1>4, <1>5

\* end_turn, when the loser leads the next trick.
LEMMA NextTrickInv ==
  ASSUME UInv, Seated, NEW i, NextTrick(i)
  PROVE  UInv'
<1> PICK next : next = TrickLoser(i)
  OBVIOUS
<1> PICK a : a = send_pli(i)
  OBVIOUS
<1> PICK b : b = ask_for_card(next)
  OBVIOUS
<1>1. /\ TrickEnds(i) /\ ServerSend(Then(a, b)) /\ loop' = [loop EXCEPT !.i = i + 1]
      /\ srv' = [srv EXCEPT !.amount_turn = @ + 1, !.amount_cards_played_this_turn = 0,
                            !.current_player_turn = next]
  BY DEF NextTrick, Served
<1>2. /\ Receive(i, "PLAY_CARD") /\ CardsPlayed = amount_players /\ UNCHANGED players
      /\ board'.pli_size = 0 /\ hist'.given = hist.given
      /\ InTricks /\ ~Asleep /\ loop.pc = "serve" /\ next \in Present
      /\ amount_players \in Nat /\ amount_players >= 2 /\ Present = 0..amount_players - 1
      /\ hist.given = Present
      /\ ~srv.one_ecart_received /\ srv.amount_ecart_received = 0
      /\ srv.game_running /\ ~srv.updating_score
  BY <1>1, TrickEndFacts
<1>3. /\ srv'.game_running = srv.game_running /\ srv'.updating_score = srv.updating_score
      /\ srv'.papayoo = srv.papayoo /\ ~Asleep'
      /\ srv'.one_ecart_received = srv.one_ecart_received
      /\ srv'.amount_ecart_received = srv.amount_ecart_received
      /\ srv'.current_player_turn = next /\ srv'.amount_cards_played_this_turn = 0
  BY <1>1, <1>2 DEF Seated, Shape, Asleep
<1>4. SameSeats
  BY <1>2, SeatsStay
<1>5. Present' = Present /\ amount_players' = amount_players /\ InTricks' /\ ~InEcarts'
  BY <1>2, <1>3, <1>4 DEF SameSeats, InTricks, InEcarts
<1>6. Phases'
  <2>1. /\ srv'.game_running \in BOOLEAN /\ srv'.updating_score \in BOOLEAN
        /\ srv'.one_ecart_received \in BOOLEAN
    BY <1>3 DEF UInv, Phases
  <2>2. board'.pli_size \in 0..amount_players - 1 /\ \A k \in 0..board'.pli_size - 1 : FALSE
    BY <1>2
  <2>3. QED
    BY <1>2, <1>3, <1>5, <2>1, <2>2 DEF Phases
<1>7. ASSUME NEW c \in Clients
      PROVE  /\ MaySay(c, a[c]) /\ MaySay(c, b[c])
             /\ Count(a[c], "ASK_FOR_CARD") + Count(b[c], "ASK_FOR_CARD")
                  = IF HasTurn(c)' THEN 1 ELSE 0
  <2>1. MaySay(c, a[c]) /\ Count(a[c], "ASK_FOR_CARD") = 0
    BY <1>2, PliFacts
  <2>2. MaySay(c, b[c]) /\ Count(b[c], "ASK_FOR_CARD") = IF c = Player(next) THEN 1 ELSE 0
    BY <1>2, AskFacts
  <2>3. HasTurn(c)' <=> c = Player(next)
    <3>1. Player(next)' = Player(next)
      BY <1>2, <1>4 DEF SameSeats
    <3>2. (next + 0) % amount_players = next
      BY <1>2
    <3>3. QED
      BY <1>2, <1>3, <1>5, <3>1, <3>2 DEF HasTurn, Player
  <2>4. QED
    BY <2>1, <2>2, <2>3
<1>8. /\ Receive(i, "PLAY_CARD") /\ UNCHANGED players /\ ServerSend(Then(a, b))
      /\ srv'.game_running = srv.game_running /\ srv'.papayoo = srv.papayoo
      /\ ~InEcarts' /\ Phases'
  BY <1>1, <1>2, <1>3, <1>5, <1>6
<1>9. QED
  BY <1>7, <1>8, CardInv

\* end_round: the scores are awaited, and nobody has the turn.
LEMMA RoundOverFacts ==
  ASSUME UInv, Seated, NEW i, TrickEnds(i), RoundOver
  PROVE  /\ srv'.game_running = srv.game_running /\ srv'.papayoo = srv.papayoo
         /\ ~InEcarts' /\ Phases' /\ \A c : ~HasTurn(c)'
<1>1. /\ UNCHANGED players /\ board'.pli_size = 0 /\ hist'.given = hist.given
      /\ srv.game_running /\ hist.given = Present
  BY TrickEndFacts
<1>2. /\ srv'.game_running = srv.game_running /\ srv'.updating_score = TRUE
      /\ srv'.papayoo = srv.papayoo
      /\ srv'.one_ecart_received = FALSE /\ srv'.amount_ecart_received = 0
      /\ srv'.current_player_turn = 0 /\ srv'.amount_cards_played_this_turn = 0
  BY DEF RoundOver, Seated, Shape
<1>3. ~InTricks' /\ ~InEcarts'
  BY <1>2 DEF InTricks, InEcarts
<1>4. Present' = Present
  BY <1>1, SeatsStay DEF SameSeats
<1>5. srv'.game_running \in BOOLEAN
  BY <1>2 DEF UInv, Phases
<1>6. Phases'
  BY <1>1, <1>2, <1>3, <1>4, <1>5 DEF Phases
<1>7. QED
  BY <1>2, <1>3, <1>6 DEF HasTurn

LEMMA EndRoundInv ==
  ASSUME UInv, Seated, NEW i, EndRound(i)
  PROVE  UInv'
<1> PICK a : a = send_pli(i)
  OBVIOUS
<1> PICK b : b = Announce("ADD_SCORE")
  OBVIOUS
<1>1. TrickEnds(i) /\ RoundOver /\ ServerSend(Then(a, b))
  BY DEF EndRound
<1>2. Receive(i, "PLAY_CARD") /\ CardsPlayed = amount_players /\ UNCHANGED players
  BY <1>1, TrickEndFacts
<1>3. /\ srv'.game_running = srv.game_running /\ srv'.papayoo = srv.papayoo
      /\ ~InEcarts' /\ Phases' /\ \A c : ~HasTurn(c)'
  BY <1>1, RoundOverFacts
<1>4. ASSUME NEW c \in Clients
      PROVE  /\ MaySay(c, a[c]) /\ MaySay(c, b[c])
             /\ Count(a[c], "ASK_FOR_CARD") + Count(b[c], "ASK_FOR_CARD")
                  = IF HasTurn(c)' THEN 1 ELSE 0
  <2>1. MaySay(c, a[c]) /\ Count(a[c], "ASK_FOR_CARD") = 0
    BY <1>2, PliFacts
  <2>2. MaySay(c, b[c]) /\ Count(b[c], "ASK_FOR_CARD") = 0
    BY AnnounceFacts
  <2>3. QED
    BY <1>3, <2>1, <2>2
<1>5. QED
  BY <1>1, <1>2, <1>3, <1>4, CardInv

\* The last messages of a game, whoever has won it.
LEMMA EndGameInv ==
  ASSUME UInv, Seated, NEW i, EndGame(i)
  PROVE  UInv'
<1> PICK m : m = Msg("ADD_SCORE")
  OBVIOUS
<1> PICK e : e = [code |-> "END_GAME", winner |-> Player(Winner(board.scores))]
  OBVIOUS
<1> PICK a : a = send_pli(i)
  OBVIOUS
<1> PICK b : b = [c \in Clients |-> IF c \in Playing THEN <<m, e>> ELSE <<>>]
  OBVIOUS
<1>1. /\ TrickEnds(i) /\ RoundOver /\ ServerSend(Then(a, b))
      /\ loop' = [loop EXCEPT !.pc = "sleep"]
  BY DEF EndGame, ToEverybody
<1>2. Receive(i, "PLAY_CARD") /\ CardsPlayed = amount_players /\ UNCHANGED players
  BY <1>1, TrickEndFacts
<1>3. /\ srv'.game_running = srv.game_running /\ srv'.papayoo = srv.papayoo
      /\ ~InEcarts' /\ Phases' /\ \A c : ~HasTurn(c)'
  BY <1>1, RoundOverFacts
<1>4. Asleep'
  BY <1>1 DEF Seated, Shape, Asleep
<1>5. ASSUME NEW c \in Clients
      PROVE  /\ MaySay(c, a[c]) /\ MaySay(c, b[c])
             /\ Count(a[c], "ASK_FOR_CARD") + Count(b[c], "ASK_FOR_CARD")
                  = IF HasTurn(c)' THEN 1 ELSE 0
  <2>1. MaySay(c, a[c]) /\ Count(a[c], "ASK_FOR_CARD") = 0
    BY <1>2, PliFacts
  <2>2. /\ IsQueue(<<m, e>>) /\ Len(<<m, e>>) = 2 /\ <<m, e>>[1] = m /\ <<m, e>>[2] = e
        /\ IsQueue(<<>>) /\ Len(<<>>) = 0 /\ Count(<<>>, "ASK_FOR_CARD") = 0
    BY ShortQueues, CountEmpty
  <2>3. m.code = "ADD_SCORE" /\ e.code = "END_GAME"
    BY DEF Msg
  <2>4. \A k \in 1..Len(<<m, e>>) : <<m, e>>[k].code \in {"ADD_SCORE", "END_GAME"}
    <3>1. \A k \in 1..2 : k = 1 \/ k = 2
      OBVIOUS
    <3>2. QED
      BY <2>2, <2>3, <3>1
  <2>5. Count(<<m, e>>, "ASK_FOR_CARD") = 0
    BY <2>2, <2>4, CountNone
  <2>6. b[c] = IF c \in Playing THEN <<m, e>> ELSE <<>>
    OBVIOUS
  <2>7. MaySay(c, b[c]) /\ Count(b[c], "ASK_FOR_CARD") = 0
    <3>1. CASE c \in Playing
      <4> PICK t : t = <<m, e>>
        OBVIOUS
      <4>1. IsQueue(t) /\ \A k \in 1..Len(t) : t[k].code \in {"ADD_SCORE", "END_GAME"}
        BY <2>2, <2>4
      <4>2. MaySay(c, t)
        BY <1>4, <3>1, <4>1 DEF MaySay, SaidCodes
      <4>3. QED
        BY <2>5, <2>6, <3>1, <4>2
    <3>2. CASE c \notin Playing
      <4>1. MaySay(c, <<>>)
        BY <2>2 DEF MaySay
      <4>2. QED
        BY <2>2, <2>6, <3>2, <4>1
    <3>3. QED
      BY <3>1, <3>2
  <2>8. QED
    BY <1>3, <2>1, <2>7
<1>6. QED
  BY <1>1, <1>2, <1>3, <1>5, CardInv

-----------------------------------------------------------------------------
(* The steps together.                                                     *)

LEMMA ServerInvStep ==
  ASSUME UInv, Seated, ServerNext
  PROVE  UInv'
<1>1. CASE AlarmHandler
  BY <1>1, LoopInv, StartInv DEF AlarmHandler
<1>2. CASE Select \/ NothingToDo
  BY <1>2, LoopInv
<1>3. CASE RefuseClient \/ AddClient
  BY <1>3, RefuseInv, AddInv
<1>4. ASSUME NEW i \in Seats, Dispatch(i) PROVE UInv'
  <2>1. CASE add_player(i) \/ update_score(i) \/ send_basic_info(i)
    BY <2>1, MessagesInv
  <2>2. CASE receive_ecart_from_player(i)
    BY <2>2, EcartInv
  <2>3. CASE TrickGoesOn(i) \/ NextTrick(i)
    BY <2>3, TrickGoesOnInv, NextTrickInv
  <2>4. CASE EndRound(i) \/ EndGame(i)
    BY <2>4, EndRoundInv, EndGameInv
  <2>5. QED
    BY <1>4, <2>1, <2>2, <2>3, <2>4 DEF Dispatch
<1>5. CASE clear_lobby
  BY <1>5, ClearInv
<1>6. CASE send_ecart_back \/ start_round
  BY <1>6, BackInv, StartInv
<1>7. QED
  BY <1>1, <1>2, <1>3, <1>4, <1>5, <1>6, NobodyLeft DEF ServerNext, MainLoop

LEMMA UInvInit == Init => UInv
<1> SUFFICES ASSUME Init PROVE UInv
  OBVIOUS
<1>1. /\ listening = TRUE /\ backlog = <<>> /\ players = <<>>
      /\ conn = [c \in Clients |-> "none"]
      /\ toServer = [c \in Clients |-> <<>>] /\ toClient = [c \in Clients |-> <<>>]
      /\ ~srv.game_running /\ srv.game_running \in BOOLEAN
      /\ ~srv.updating_score /\ srv.updating_score \in BOOLEAN
      /\ ~srv.one_ecart_received /\ srv.one_ecart_received \in BOOLEAN
      /\ srv.amount_ecart_received = 0 /\ srv.current_player_turn = 0
      /\ srv.amount_cards_played_this_turn = 0 /\ board.pli_size = 0 /\ ~Asleep
  BY DEF Init, NetworkInit, ServerInit, Asleep
<1>2. /\ amount_players = 0 /\ Present = {} /\ Playing = {}
      /\ ~InTricks /\ ~InEcarts /\ Len(backlog) = 0
  BY <1>1 DEF amount_players, Present, Playing, InTricks, InEcarts
<1>3. /\ cl = [c \in Clients |-> cl[c]]
      /\ \A c \in Clients : IsClient(cl[c]) /\ cl[c].pc = "connect"
  BY DEF Init, ClientInit, IsClient
<1>4. Functions
  BY <1>1, <1>3 DEF Functions
<1>5. Distinct
  BY <1>2 DEF Distinct
<1>6. Phases
  BY <1>1, <1>2 DEF Phases
<1>7. ASSUME NEW c \in Clients PROVE ClientInv(c)
  <2>1. /\ IsQueue(<<>>) /\ Len(<<>>) = 0 /\ \A x : Count(<<>>, x) = 0
        /\ toClient[c] = <<>> /\ toServer[c] = <<>> /\ conn[c] = "none"
    BY <1>1, ShortQueues, CountEmpty
  <2>2. ~At(c, "ecart") /\ ~At(c, "play") /\ ~OwesEcart(c) /\ ~HasTurn(c)
    BY <1>2, <1>3 DEF At, OwesEcart, HasTurn
  <2>3. Wire(c)
    BY <1>2, <2>1 DEF Wire, Open
  <2>4. Duties(c)
    BY <2>1, <2>2 DEF Duties, EcartDue, Turns
  <2>5. Fresh(c) /\ Informed(c)
    BY <1>1, <2>1 DEF Fresh, Informed, InformedQueue
  <2>6. QED
    BY <2>3, <2>4, <2>5 DEF ClientInv
<1>8. QED
  BY <1>4, <1>5, <1>6, <1>7 DEF UInv

LEMMA UInvStutter == ASSUME UInv, Seated, UNCHANGED vars PROVE UInv'
<1>1. UNCHANGED network /\ UNCHANGED players /\ UNCHANGED <<cl, srv, board, loop, hist>>
  BY DEF vars, serverVars, clientVars
<1>2. CASE Asleep
  <2>1. UNCHANGED <<listening, backlog, conn, toServer, toClient>>
    BY <1>1 DEF network
  <2>2. QED
    BY <1>1, <2>1
    DEF UInv, Functions, Distinct, Phases, ClientInv, Wire, Duties, Fresh, Informed, EcartDue,
        Turns, OwesEcart, HasTurn, InEcarts, InTricks, Present, Playing, Player, SeatOf, At,
        amount_players, Asleep, CurrentInfo
<1>3. CASE ~Asleep
  <2>1. SamePhase
    BY <1>1, <1>3 DEF SamePhase, Asleep
  <2>2. QED
    BY <1>1, <2>1, QuietInv
<1>4. QED
  BY <1>2, <1>3

\* One step, of whoever it is.
LEMMA UInvNext == ASSUME Undisturbed, UInv, Seated, [Next]_vars PROVE UInv'
  BY ClientInvStep, ServerInvStep, UInvStutter DEF Next

LEMMA UInvImplies ==
  ASSUME UInv, Seated
  PROVE  OneTurn /\ ActsOnCurrentInfo
<1>1. OneTurn
  BY DEF UInv, ClientInv, Duties, HasTurn, OneTurn
<1>2. ASSUME NEW c \in Clients, ~Asleep, At(c, "ecart") \/ At(c, "play")
      PROVE  /\ srv.game_running /\ c \in Playing
             /\ cl[c].info = [player_index |-> SeatOf(c), amount_players |-> amount_players,
                              papayoo |-> srv.papayoo]
             /\ board.names[SeatOf(c)] = c
  <2>1. Wire(c) /\ Duties(c) /\ Fresh(c)
    BY DEF UInv, ClientInv
  <2>2. /\ Count(toServer[c], "ECART") \in Nat /\ Count(toClient[c], "INIT_DECK") \in Nat
        /\ Count(toServer[c], "PLAY_CARD") \in Nat /\ Count(toClient[c], "ASK_FOR_CARD") \in Nat
    BY <2>1, KindFinite DEF Wire
  <2>3. CASE At(c, "ecart")
    <3>1. EcartDue(c) # 0
      BY <2>2, <2>3 DEF EcartDue
    <3>2. OwesEcart(c) /\ EcartDue(c) = 1
      BY <2>1, <3>1 DEF Duties
    <3>3. Count(toClient[c], "INIT_DECK") = 0
      BY <2>2, <2>3, <3>2 DEF EcartDue
    <3>4. srv.game_running /\ c \in Playing
      BY <3>2 DEF OwesEcart, InEcarts
    <3>5. cl[c].info = CurrentInfo(c)
      BY <1>2, <2>1, <3>3, <3>4 DEF Fresh, FreshQueue
    <3>6. board.names[SeatOf(c)] = c
      BY <1>2, <3>4, SeatFacts DEF Seated, GameHasItsPlayers, UInv, Asleep
    <3>7. QED
      BY <3>4, <3>5, <3>6 DEF CurrentInfo
  <2>4. CASE At(c, "play")
    <3>1. Turns(c) # 0
      BY <2>2, <2>4 DEF Turns
    <3>2. HasTurn(c)
      BY <2>1, <3>1 DEF Duties
    <3>3. InTricks /\ c \in Playing
      BY <3>2, TurnHolder DEF HasTurn, UInv
    <3>4. ~OwesEcart(c) /\ srv.game_running
      BY <3>3 DEF OwesEcart, InEcarts, InTricks
    <3>5. EcartDue(c) = 0
      BY <2>1, <3>4 DEF Duties
    <3>6. Count(toClient[c], "INIT_DECK") = 0
      <4>1. (IF At(c, "ecart") THEN 1 ELSE 0) \in Nat
        OBVIOUS
      <4>2. QED
        BY <2>2, <3>5, <4>1 DEF EcartDue
    <3>7. cl[c].info = CurrentInfo(c)
      BY <1>2, <2>1, <3>3, <3>4, <3>6 DEF Fresh, FreshQueue
    <3>8. board.names[SeatOf(c)] = c
      BY <1>2, <3>3, <3>4, SeatFacts DEF Seated, GameHasItsPlayers, UInv, Asleep
    <3>9. QED
      BY <3>3, <3>4, <3>7, <3>8 DEF CurrentInfo
  <2>5. QED
    BY <1>2, <2>3, <2>4
<1>3. ActsOnCurrentInfo
  BY <1>2 DEF ActsOnCurrentInfo, Asleep
<1>4. QED
  BY <1>1, <1>3

-----------------------------------------------------------------------------
\* UInv holds all along, for every number of clients, seats, cards, tricks and
\* rounds, if nobody leaves and no message is sent again.
LEMMA Course == ASSUME Undisturbed PROVE Spec => [](Seated /\ UInv)
<1>1. Init => Seated /\ UInv
  BY SeatedInit, UInvInit
<1>2. Seated /\ UInv /\ [Next]_vars => (Seated /\ UInv)'
  <2> SUFFICES ASSUME Seated, UInv, [Next]_vars PROVE Seated' /\ UInv'
    OBVIOUS
  <2>1. Seated'
    BY SeatedClient, SeatedServer, SeatedStutter DEF Next
  <2>2. UInv'
    BY UInvNext
  <2>3. QED
    BY <2>1, <2>2
<1>3. QED
  BY <1>1, <1>2, PTL DEF Spec

\* The right to play is never lost, doubled or crossed: from the exchange of
\* the ecarts to the scores the player that the trick calls for has it, and at
\* other times nobody has.
THEOREM OneTurnThm == ASSUME Undisturbed PROVE Spec => []OneTurn
<1>1. Seated /\ UInv => OneTurn
  BY UInvImplies
<1>2. QED
  BY Course, <1>1, PTL

\* Whoever chooses an ecart or a card knows its index, the number of players
\* and the papayoo of the round, although the server tells them only once and
\* everything else travels through the same queue.
THEOREM ActsOnCurrentInfoThm == ASSUME Undisturbed PROVE Spec => []ActsOnCurrentInfo
<1>1. Seated /\ UInv => ActsOnCurrentInfo
  BY UInvImplies
<1>2. QED
  BY Course, <1>1, PTL

\* The ecarts are never sent back before every player has given one.
THEOREM EcartBackAfterAllThm == ASSUME Undisturbed PROVE Spec => EcartBackAfterAll
<1>1. Seated /\ UInv /\ [Next]_vars
        => [send_ecart_back => srv.game_running /\ hist.given = Present]_vars
  BY BackFacts
<1>2. QED
  BY Course, <1>1, PTL DEF Spec, EcartBackAfterAll
=============================================================================
