---------------------------- MODULE Hands_proofs ----------------------------
(***************************************************************************)
(* Proofs about the cards and the points of a game of Papayoo that nobody  *)
(* leaves: how many cards a player holds, what a player has earned, where  *)
(* each card is.                                                           *)
(***************************************************************************)
EXTENDS Messages_proofs

-----------------------------------------------------------------------------
(* What a player owns: the queues and the variables it is read from.       *)

Hand(q, deck) == Glue(Glue(CardsIn(q, "INIT_DECK"),
                           IF Count(q, "INIT_DECK") # 0 THEN <<>> ELSE deck),
                      CardsIn(q, "ECARTS"))
Pile(q, plis) == Glue(IF Count(q, "INIT_DECK") # 0 THEN <<>> ELSE plis, CardsIn(q, "ADD_PLI"))

Given(c)   == IF srv.one_ecart_received /\ SeatOf(c) \in hist.given
              THEN srv.ecarts_received[SeatOf(c)] ELSE <<>>
EcartIn(q) == CardsIn(q, "ECART")

LEMMA RolesAre ==
  ASSUME NEW c
  PROVE  /\ HandOf(c) = Hand(toClient[c], cl[c].deck) /\ PileOf(c) = Pile(toClient[c], cl[c].plis)
         /\ EcartOf(c) = Glue(EcartIn(toServer[c]), Given(c))
         /\ PlayedBy(c) = CardsIn(toServer[c], "PLAY_CARD")
         /\ NotDealtYet(c) <=> Count(toClient[c], "INIT_DECK") # 0
<1>1. NotDealtYet(c) <=> Count(toClient[c], "INIT_DECK") # 0
  BY DEF NotDealtYet
<1>2. HandOf(c) = Hand(toClient[c], cl[c].deck)
  BY <1>1 DEF HandOf, Hand, Glue
<1>3. PileOf(c) = Pile(toClient[c], cl[c].plis)
  BY <1>1 DEF PileOf, Pile, Glue
<1>4. EcartOf(c) = Glue(EcartIn(toServer[c]), Given(c))
  BY DEF EcartOf, EcartIn, Given, Glue
<1>5. QED
  BY <1>1, <1>2, <1>3, <1>4 DEF PlayedBy

LEMMA RolesWillBe ==
  ASSUME NEW c
  PROVE  /\ HandOf(c)' = Hand(toClient'[c], cl'[c].deck)
         /\ PileOf(c)' = Pile(toClient'[c], cl'[c].plis)
         /\ EcartOf(c)' = Glue(EcartIn(toServer'[c]), Given(c)')
         /\ PlayedBy(c)' = CardsIn(toServer'[c], "PLAY_CARD")
         /\ NotDealtYet(c)' <=> Count(toClient'[c], "INIT_DECK") # 0
<1>1. NotDealtYet(c)' <=> Count(toClient'[c], "INIT_DECK") # 0
  BY DEF NotDealtYet
<1>2. HandOf(c)' = Hand(toClient'[c], cl'[c].deck)
  BY <1>1 DEF HandOf, Hand, Glue
<1>3. PileOf(c)' = Pile(toClient'[c], cl'[c].plis)
  BY <1>1 DEF PileOf, Pile, Glue
<1>4. EcartOf(c)' = Glue(EcartIn(toServer'[c]), Given(c)')
  BY DEF EcartOf, EcartIn, Given, Glue
<1>5. QED
  BY <1>1, <1>2, <1>3, <1>4 DEF PlayedBy

\* Queues whose messages carry cards.
ShipsOut(q) == /\ IsQueue(q) /\ Carries(q, "INIT_DECK") /\ Carries(q, "ECARTS") /\ Carries(q, "ADD_PLI")
               /\ CardsIn(q, "INIT_DECK") \in CardSeq /\ CardsIn(q, "ECARTS") \in CardSeq
               /\ CardsIn(q, "ADD_PLI") \in CardSeq
               /\ \A x : Count(q, x) \in Nat
ShipsIn(q)  == /\ IsQueue(q) /\ Carries(q, "ECART") /\ Carries(q, "PLAY_CARD")
               /\ CardsIn(q, "ECART") \in CardSeq /\ CardsIn(q, "PLAY_CARD") \in CardSeq
               /\ \A x : Count(q, x) \in Nat

LEMMA OneCard == \A x \in AnyCard : <<x>> \in CardSeq /\ Len(<<x>>) = 1
  BY DEF CardSeq

LEMMA Ships ==
  ASSUME UInv, TInv, NEW c \in Clients
  PROVE  /\ ShipsOut(toClient[c]) /\ ShipsIn(toServer[c])
         /\ cl[c].deck \in CardSeq /\ cl[c].plis \in CardSeq
<1> PICK q : q = toClient[c]
  OBVIOUS
<1> PICK p : p = toServer[c]
  OBVIOUS
<1>1. IsQueue(q) /\ IsQueue(p) /\ QueueTypes(c) /\ VariableTypes(cl[c])
  BY QueuesOf DEF TInv
<1>2. ASSUME NEW code \in {"INIT_DECK", "ECARTS", "ADD_PLI"} PROVE Carries(q, code)
  <2>1. ASSUME NEW k \in 1..Len(q), q[k].code = code PROVE CardsOf(q[k]) \in CardSeq
    <3>1. ToClientType(q[k])
      BY <1>1 DEF QueueTypes
    <3>2. q[k].deck \in CardSeq /\ q[k].code # "PLAY_CARD"
      BY <2>1, <3>1 DEF ToClientType
    <3>3. QED
      BY <3>2 DEF CardsOf
  <2>2. QED
    BY <2>1 DEF Carries
<1>3. ASSUME NEW code \in {"ECART", "PLAY_CARD"} PROVE Carries(p, code)
  <2>1. ASSUME NEW k \in 1..Len(p), p[k].code = code PROVE CardsOf(p[k]) \in CardSeq
    <3>1. ToServerType(p[k])
      BY <1>1 DEF QueueTypes
    <3>2. CASE code = "ECART"
      <4>1. p[k].deck \in CardSeq /\ p[k].code # "PLAY_CARD"
        BY <2>1, <3>1, <3>2 DEF ToServerType
      <4>2. QED
        BY <4>1 DEF CardsOf
    <3>3. CASE code = "PLAY_CARD"
      <4>1. p[k].played.card \in AnyCard /\ p[k].code = "PLAY_CARD"
        BY <2>1, <3>1, <3>3 DEF ToServerType, PlayedCard
      <4>2. <<p[k].played.card>> \in CardSeq
        BY <4>1, OneCard
      <4>3. QED
        BY <4>1, <4>2 DEF CardsOf
    <3>4. QED
      BY <3>2, <3>3
  <2>2. QED
    BY <2>1 DEF Carries
<1>4. ASSUME NEW code \in {"INIT_DECK", "ECARTS", "ADD_PLI"} PROVE CardsIn(q, code) \in CardSeq
  BY <1>1, <1>2, CardsInSeq
<1>5. ASSUME NEW code \in {"ECART", "PLAY_CARD"} PROVE CardsIn(p, code) \in CardSeq
  BY <1>1, <1>3, CardsInSeq
<1>6. \A x : Count(q, x) \in Nat /\ Count(p, x) \in Nat
  BY <1>1, KindFinite
<1>7. ShipsOut(q)
  BY <1>1, <1>2, <1>4, <1>6 DEF ShipsOut
<1>8. ShipsIn(p)
  BY <1>1, <1>3, <1>5, <1>6 DEF ShipsIn
<1>9. QED
  BY <1>1, <1>7, <1>8 DEF VariableTypes

\* The cards of a kind in a queue without its first message.
LEMMA CardsBehind ==
  ASSUME NEW q, IsQueue(q), q # <<>>, NEW code, Carries(q, code)
  PROVE  /\ Head(q).code # code => CardsIn(Tail(q), code) = CardsIn(q, code)
         /\ Head(q).code = code => /\ CardsIn(q, code) = Glue(CardsOf(Head(q)), CardsIn(Tail(q), code))
                                   /\ CardsOf(Head(q)) \in CardSeq
         /\ CardsIn(Tail(q), code) \in CardSeq /\ Carries(Tail(q), code)
<1>1. /\ CardsIn(q, code) = Glue(IF Head(q).code = code THEN CardsOf(Head(q)) ELSE <<>>,
                                 CardsIn(Tail(q), code))
      /\ Carries(Tail(q), code)
      /\ Head(q).code = code => CardsOf(Head(q)) \in CardSeq
  BY CardsInTail
<1>2. CardsIn(Tail(q), code) \in CardSeq
  BY <1>1, QueueTail, CardsInSeq
<1>3. Glue(<<>>, CardsIn(Tail(q), code)) = CardsIn(Tail(q), code)
  BY <1>2, GlueNothing
<1>4. QED
  BY <1>1, <1>2, <1>3

LEMMA HandTail ==
  ASSUME NEW q, ShipsOut(q), q # <<>>, NEW deck \in CardSeq, Count(q, "INIT_DECK") \in {0, 1},
         NEW h, h = Head(q), h.code = "ECARTS" => Count(q, "INIT_DECK") = 0,
         NEW new, new = IF h.code = "INIT_DECK" THEN h.deck
                        ELSE IF h.code = "ECARTS" THEN Glue(deck, h.deck) ELSE deck
  PROVE  Hand(Tail(q), new) = Hand(q, deck)
<1> PICK t : t = Tail(q)
  OBVIOUS
<1> PICK a : a = CardsIn(q, "INIT_DECK")
  OBVIOUS
<1> PICK e : e = CardsIn(q, "ECARTS")
  OBVIOUS
<1> PICK a2 : a2 = CardsIn(t, "INIT_DECK")
  OBVIOUS
<1> PICK e2 : e2 = CardsIn(t, "ECARTS")
  OBVIOUS
<1>1. Hand(q, deck) = Glue(Glue(a, IF Count(q, "INIT_DECK") # 0 THEN <<>> ELSE deck), e)
  BY DEF Hand
<1>2. Hand(t, new) = Glue(Glue(a2, IF Count(t, "INIT_DECK") # 0 THEN <<>> ELSE new), e2)
  BY DEF Hand
<1>3. Without(t, q, h.code)
  <2>1. Without(Tail(q), q, Head(q).code)
    BY TakenFrom DEF ShipsOut
  <2>2. QED
    BY <2>1
<1>4. /\ a \in CardSeq /\ e \in CardSeq /\ a2 \in CardSeq /\ e2 \in CardSeq
      /\ h.code # "INIT_DECK" => a2 = a
      /\ h.code # "ECARTS" => e2 = e
      /\ h.code = "INIT_DECK" => a = Glue(CardsOf(h), a2) /\ CardsOf(h) \in CardSeq
      /\ h.code = "ECARTS" => e = Glue(CardsOf(h), e2) /\ CardsOf(h) \in CardSeq
  BY CardsBehind DEF ShipsOut
<1>5. h.code # "PLAY_CARD" => CardsOf(h) = h.deck
  BY DEF CardsOf
<1>6. CASE h.code = "INIT_DECK"
  <2>1. Count(q, "INIT_DECK") = 1 /\ Count(t, "INIT_DECK") = 0 /\ IsQueue(t)
    BY <1>3, <1>6 DEF Without
  <2>2. a2 = <<>>
    BY <2>1, CardsInNone
  <2>3. a = h.deck /\ new = h.deck /\ e2 = e
    BY <1>4, <1>5, <1>6, <2>2, GlueNothing
  <2>4. Glue(a, <<>>) = a /\ Glue(<<>>, a) = a
    BY <1>4, GlueNothing
  <2>5. QED
    BY <1>1, <1>2, <2>1, <2>2, <2>3, <2>4
<1>7. CASE h.code = "ECARTS"
  <2>1. Count(q, "INIT_DECK") = 0 /\ Count(t, "INIT_DECK") = 0
    BY <1>3, <1>7 DEF Without
  <2>2. a = <<>> /\ a2 = <<>>
    BY <1>4, <1>7, <2>1, CardsInNone DEF ShipsOut
  <2>3. new = Glue(deck, h.deck) /\ h.deck \in CardSeq /\ e = Glue(h.deck, e2)
    BY <1>4, <1>5, <1>7
  <2>4. Glue(deck, Glue(h.deck, e2)) = Glue(Glue(deck, h.deck), e2) /\ Glue(deck, h.deck) \in CardSeq
    <3> PICK d : d = h.deck
      OBVIOUS
    <3>1. d \in CardSeq /\ e2 \in CardSeq
      BY <1>4, <2>3
    <3>2. Glue(Glue(deck, d), e2) = Glue(deck, Glue(d, e2)) /\ Glue(deck, d) \in CardSeq
      BY <3>1, GlueLaws
    <3>3. QED
      BY <3>2
  <2>5. Glue(<<>>, deck) = deck /\ Glue(<<>>, Glue(deck, h.deck)) = Glue(deck, h.deck)
    BY <2>4, GlueNothing
  <2>6. QED
    BY <1>1, <1>2, <2>1, <2>2, <2>3, <2>4, <2>5
<1>8. CASE h.code # "INIT_DECK" /\ h.code # "ECARTS"
  <2>1. Count(t, "INIT_DECK") = Count(q, "INIT_DECK")
    BY <1>3, <1>8 DEF Without
  <2>2. new = deck /\ a2 = a /\ e2 = e
    BY <1>4, <1>8
  <2>3. QED
    BY <1>1, <1>2, <2>1, <2>2
<1>9. QED
  BY <1>6, <1>7, <1>8

\* The tricks: what is announced first is not counted until the deal arrives.
LEMMA PileTail ==
  ASSUME NEW q, ShipsOut(q), q # <<>>, NEW plis \in CardSeq,
         NEW h, h = Head(q), h.code = "INIT_DECK" => plis = <<>>,
         h.code = "ADD_PLI" => Count(q, "INIT_DECK") = 0,
         NEW new, new = IF h.code = "ADD_PLI" THEN Glue(plis, h.deck) ELSE plis
  PROVE  Pile(Tail(q), new) = Pile(q, plis)
<1> PICK t : t = Tail(q)
  OBVIOUS
<1> PICK e : e = CardsIn(q, "ADD_PLI")
  OBVIOUS
<1> PICK e2 : e2 = CardsIn(t, "ADD_PLI")
  OBVIOUS
<1>1. Pile(q, plis) = Glue(IF Count(q, "INIT_DECK") # 0 THEN <<>> ELSE plis, e)
  BY DEF Pile
<1>2. Pile(t, new) = Glue(IF Count(t, "INIT_DECK") # 0 THEN <<>> ELSE new, e2)
  BY DEF Pile
<1>3. Without(t, q, h.code)
  <2>1. Without(Tail(q), q, Head(q).code)
    BY TakenFrom DEF ShipsOut
  <2>2. QED
    BY <2>1
<1>4. /\ e \in CardSeq /\ e2 \in CardSeq
      /\ h.code # "ADD_PLI" => e2 = e
      /\ h.code = "ADD_PLI" => e = Glue(CardsOf(h), e2) /\ CardsOf(h) \in CardSeq
  BY CardsBehind DEF ShipsOut
<1>5. h.code # "PLAY_CARD" => CardsOf(h) = h.deck
  BY DEF CardsOf
<1>6. CASE h.code = "ADD_PLI"
  <2>1. Count(q, "INIT_DECK") = 0 /\ Count(t, "INIT_DECK") = 0
    BY <1>3, <1>6 DEF Without
  <2>2. new = Glue(plis, h.deck) /\ h.deck \in CardSeq /\ e = Glue(h.deck, e2)
    BY <1>4, <1>5, <1>6
  <2>3. Glue(plis, Glue(h.deck, e2)) = Glue(Glue(plis, h.deck), e2)
    <3> PICK d : d = h.deck
      OBVIOUS
    <3>1. d \in CardSeq /\ e2 \in CardSeq
      BY <1>4, <2>2
    <3>2. Glue(Glue(plis, d), e2) = Glue(plis, Glue(d, e2))
      BY <3>1, GlueLaws
    <3>3. QED
      BY <3>2
  <2>4. QED
    BY <1>1, <1>2, <2>1, <2>2, <2>3
<1>7. CASE h.code = "INIT_DECK"
  BY <1>1, <1>2, <1>4, <1>7
<1>8. CASE h.code # "INIT_DECK" /\ h.code # "ADD_PLI"
  <2>1. Count(t, "INIT_DECK") = Count(q, "INIT_DECK")
    BY <1>3, <1>8 DEF Without
  <2>2. QED
    BY <1>1, <1>2, <1>4, <1>8, <2>1
<1>9. QED
  BY <1>6, <1>7, <1>8

-----------------------------------------------------------------------------
(* What a player owns: the steps of its client.                            *)

SameHand(c)  == HandOf(c)' = HandOf(c)
SameEcart(c) == EcartOf(c)' = EcartOf(c)
SamePlay(c)  == PlayedBy(c)' = PlayedBy(c)
SamePile(c)  == PileOf(c)' = PileOf(c)
Still(c)     == SameHand(c) /\ SameEcart(c) /\ SamePlay(c) /\ SamePile(c)

\* Who has its ecart before it has nothing of the tricks yet.
LEMMA BeforeEcart ==
  ASSUME UInv, RInv, NEW c \in Clients,
         \/ Count(toClient[c], "INIT_DECK") # 0 \/ At(c, "ecart") \/ Count(toServer[c], "ECART") # 0
  PROVE  /\ OwesEcart(c) /\ c \in Playing /\ InEcarts /\ ~InTricks /\ ~srv.updating_score
         /\ cl[c].plis = <<>> /\ Count(toClient[c], "ADD_PLI") = 0
         /\ Count(toClient[c], "ECARTS") = 0
         /\ Count(toClient[c], "INIT_DECK") # 0 =>
              Count(toClient[c], "INIT_DECK") = 1 /\ ~At(c, "ecart") /\ Count(toServer[c], "ECART") = 0
         /\ At(c, "ecart") =>
              Count(toClient[c], "INIT_DECK") = 0 /\ Count(toServer[c], "ECART") = 0
         /\ Count(toServer[c], "ECART") # 0 =>
              /\ Count(toServer[c], "ECART") = 1
              /\ Count(toClient[c], "INIT_DECK") = 0 /\ ~At(c, "ecart")
<1> PICK a : a = Count(toClient[c], "INIT_DECK")
  OBVIOUS
<1> PICK b : b = Count(toServer[c], "ECART")
  OBVIOUS
<1>1. a \in Nat /\ b \in Nat /\ EcartDue(c) = a + (IF At(c, "ecart") THEN 1 ELSE 0) + b
  BY QueuesOf, KindFinite DEF EcartDue
<1>2. EcartDue(c) = IF OwesEcart(c) THEN 1 ELSE 0
  BY DEF UInv, ClientInv, Duties
<1>3. OwesEcart(c) /\ a + (IF At(c, "ecart") THEN 1 ELSE 0) + b = 1
  BY <1>1, <1>2
<1>4. c \in Playing /\ InEcarts /\ ~InTricks /\ ~srv.updating_score
  BY <1>3 DEF OwesEcart, InEcarts
<1>5. Piles(c) /\ Late(c)
  BY DEF RInv
<1>6. cl[c].plis = <<>> /\ Count(toClient[c], "ADD_PLI") = 0
  BY <1>4, <1>5 DEF Piles, NoPile
<1>7. Count(toClient[c], "ECARTS") = 0
  BY <1>4, <1>5 DEF Late
<1>8. /\ a # 0 => a = 1 /\ ~At(c, "ecart") /\ b = 0
      /\ At(c, "ecart") => a = 0 /\ b = 0
      /\ b # 0 => b = 1 /\ a = 0 /\ ~At(c, "ecart")
  BY <1>1, <1>3
<1>9. QED
  BY <1>3, <1>4, <1>6, <1>7, <1>8

LEMMA NotesRoles ==
  ASSUME UInv, Seated, TInv, RInv, NEW c \in Clients, Alone(c),
         NEW code \in NotedCodes, Notes(c, code)
  PROVE  Still(c) /\ (Chosen(c)' <=> Chosen(c))
<1> PICK q : q = toClient[c]
  OBVIOUS
<1> PICK h : h = Head(q)
  OBVIOUS
<1> PICK deck : deck = cl'[c].deck
  OBVIOUS
<1> PICK plis : plis = cl'[c].plis
  OBVIOUS
<1>1. /\ q # <<>> /\ h.code = code /\ toClient'[c] = Tail(q) /\ toServer'[c] = toServer[c]
      /\ ~At(c, "ecart") /\ cl'[c].pc = AfterNote(code)
      /\ deck = IF h.code = "INIT_DECK" THEN h.deck
                ELSE IF h.code = "ECARTS" THEN Glue(cl[c].deck, h.deck) ELSE cl[c].deck
      /\ plis = IF h.code = "ADD_PLI" THEN Glue(cl[c].plis, h.deck) ELSE cl[c].plis
  BY DEF Notes, At
<1>2. ShipsOut(q) /\ cl[c].deck \in CardSeq /\ cl[c].plis \in CardSeq
  BY Ships
<1>3. Without(Tail(q), q, h.code) /\ Count(q, h.code) # 0
  <2>1. IsQueue(q)
    BY <1>2 DEF ShipsOut
  <2>2. Without(Tail(q), q, Head(q).code)
    BY <1>1, <2>1, TakenFrom
  <2>3. Without(Tail(q), q, h.code)
    BY <2>2
  <2>4. QED
    BY <2>3 DEF Without
<1>4. /\ Count(q, "INIT_DECK") \in {0, 1}
      /\ h.code = "ECARTS" => Count(q, "INIT_DECK") = 0
      /\ h.code = "INIT_DECK" => cl[c].plis = <<>>
      /\ h.code = "ADD_PLI" => Count(q, "INIT_DECK") = 0
  BY <1>3, BeforeEcart
<1>5. Hand(Tail(q), deck) = Hand(q, cl[c].deck)
  BY <1>1, <1>2, <1>4, HandTail
<1>6. Pile(Tail(q), plis) = Pile(q, cl[c].plis)
  BY <1>1, <1>2, <1>4, PileTail
<1>7. Given(c)' = Given(c)
  <2>1. Kept
    BY AloneKept
  <2>2. QED
    BY <2>1 DEF Kept, Given
<1>8. Still(c)
  <2>1. HandOf(c)' = HandOf(c) /\ PileOf(c)' = PileOf(c)
    BY <1>1, <1>5, <1>6, RolesAre, RolesWillBe
  <2>2. EcartOf(c)' = EcartOf(c) /\ PlayedBy(c)' = PlayedBy(c)
    BY <1>1, <1>7, RolesAre, RolesWillBe
  <2>3. QED
    BY <2>1, <2>2 DEF Still, SameHand, SameEcart, SamePlay, SamePile
<1>9. Chosen(c)' <=> Chosen(c)
  <2>1. At(c, "ecart")' <=> code = "INIT_DECK"
    BY <1>1 DEF At, AfterNote
  <2>2. Chosen(c)' <=> Count(Tail(q), "INIT_DECK") = 0 /\ code # "INIT_DECK"
    BY <1>1, <2>1, RolesWillBe DEF Chosen
  <2>3. Chosen(c) <=> Count(q, "INIT_DECK") = 0
    BY <1>1, RolesAre DEF Chosen
  <2>4. CASE code = "INIT_DECK"
    BY <1>1, <1>3, <2>2, <2>3, <2>4
  <2>5. CASE code # "INIT_DECK"
    BY <1>1, <1>3, <2>2, <2>3, <2>5 DEF Without
  <2>6. QED
    BY <2>4, <2>5
<1>10. QED
  BY <1>8, <1>9

-----------------------------------------------------------------------------
LEMMA Connected == ASSUME UInv, NEW c \in Playing, c \in Clients, ~Asleep PROVE conn[c] = "open"
  BY DEF UInv, ClientInv, Wire, Open

\* A message of a player who is connected reaches the queue.
LEMMA TellsCards ==
  ASSUME UInv, TInv, NEW c \in Clients, c \in Playing, ~Asleep, NEW m, Tells(c, m),
         m.code \in {"ECART", "PLAY_CARD"} => CardsOf(m) \in CardSeq
  PROVE  /\ EcartIn(toServer'[c])
               = Glue(EcartIn(toServer[c]), IF m.code = "ECART" THEN CardsOf(m) ELSE <<>>)
         /\ CardsIn(toServer'[c], "PLAY_CARD")
               = Glue(PlayedBy(c), IF m.code = "PLAY_CARD" THEN CardsOf(m) ELSE <<>>)
         /\ \A x : Count(toServer'[c], x) = Count(toServer[c], x) + (IF m.code = x THEN 1 ELSE 0)
<1> PICK p : p = toServer[c]
  OBVIOUS
<1>1. toServer'[c] = Push(p, TRUE, m)
  BY Connected DEF Tells, Push
<1>2. ShipsIn(p)
  BY Ships
<1>3. ASSUME NEW code \in {"ECART", "PLAY_CARD"}
      PROVE  CardsIn(Push(p, TRUE, m), code)
               = Glue(CardsIn(p, code), IF TRUE /\ m.code = code THEN CardsOf(m) ELSE <<>>)
  <2>1. IsQueue(p) /\ Carries(p, code) /\ (TRUE /\ m.code = code => CardsOf(m) \in CardSeq)
    BY <1>2 DEF ShipsIn
  <2>2. QED
    BY <2>1, PushCards
<1>4. \A x : Count(Push(p, TRUE, m), x) = Count(p, x) + (IF TRUE /\ m.code = x THEN 1 ELSE 0)
  BY <1>2, PushFacts DEF ShipsIn
<1>5. QED
  BY <1>1, <1>3, <1>4 DEF EcartIn, PlayedBy

\* Neither an ecart nor a card: nothing but the pile may change.
LEMMA TellsRoles ==
  ASSUME UInv, Seated, TInv, NEW c \in Clients, Alone(c), c \in Playing, ~Asleep,
         NEW m, m.code \notin {"ECART", "PLAY_CARD"}, Tells(c, m)
  PROVE  SameEcart(c) /\ SamePlay(c)
<1>1. Kept
  BY AloneKept
<1>2. Given(c)' = Given(c)
  BY <1>1 DEF Kept, Given
<1>3. ShipsIn(toServer[c])
  BY Ships
<1>4. EcartIn(toServer'[c]) = Glue(EcartIn(toServer[c]), <<>>)
      /\ CardsIn(toServer'[c], "PLAY_CARD") = Glue(PlayedBy(c), <<>>)
  BY TellsCards
<1>5. EcartIn(toServer[c]) \in CardSeq /\ PlayedBy(c) \in CardSeq
  BY <1>3 DEF ShipsIn, EcartIn, PlayedBy
<1>6. EcartIn(toServer'[c]) = EcartIn(toServer[c]) /\ CardsIn(toServer'[c], "PLAY_CARD") = PlayedBy(c)
  BY <1>4, <1>5, GlueNothing
<1>7. QED
  BY <1>2, <1>6, RolesAre, RolesWillBe DEF SameEcart, SamePlay

LEMMA TalksRoles ==
  ASSUME UInv, Seated, TInv, NEW c \in Clients, Alone(c), c \in Playing, ~Asleep, Talks(c)
  PROVE  Still(c) /\ (Chosen(c)' <=> Chosen(c))
<1>1. PICK m : m.code \in {"ADD_PLAYER", "ASK_BASIC_INFO"} /\ Tells(c, m)
  BY DEF Talks
<1>2. /\ toClient'[c] = toClient[c] /\ cl'[c].deck = cl[c].deck /\ cl'[c].plis = cl[c].plis
      /\ ~At(c, "ecart") /\ ~At(c, "ecart")'
  BY <1>1 DEF Talks, Tells, At
<1>3. SameEcart(c) /\ SamePlay(c)
  BY <1>1, TellsRoles
<1>4. SameHand(c) /\ SamePile(c)
  BY <1>2, RolesAre, RolesWillBe DEF SameHand, SamePile
<1>5. Chosen(c)' <=> Chosen(c)
  BY <1>2, RolesAre, RolesWillBe DEF Chosen
<1>6. QED
  BY <1>3, <1>4, <1>5 DEF Still

-----------------------------------------------------------------------------
(* Cards that are taken out of others.                                     *)

\* Some cards, those that stay and those that are taken out.
Split(all, rest, out) ==
  /\ all \in CardSeq /\ rest \in CardSeq /\ out \in CardSeq
  /\ Len(all) = Len(rest) + Len(out)
  /\ ToSet(all) = ToSet(rest) \cup ToSet(out)
  /\ IsInjective(all) => /\ IsInjective(rest) /\ IsInjective(out)
                         /\ ToSet(rest) \cap ToSet(out) = {}

\* The cards of an ecart.
LEMMA SplitPositions ==
  ASSUME NEW deck \in CardSeq, NEW I \in SUBSET (1..Len(deck))
  PROVE  Split(deck, CardsAt(deck, 1..Len(deck) \ I), CardsAt(deck, I))
<1> PICK n : n = Len(deck)
  OBVIOUS
<1> PICK J : J = 1..n \ I
  OBVIOUS
<1> PICK x : x = CardsAt(deck, I)
  OBVIOUS
<1> PICK y : y = CardsAt(deck, J)
  OBVIOUS
<1>1. n \in Nat /\ DOMAIN deck = 1..n
  BY DEF CardSeq
<1>2. J \in SUBSET (1..Len(deck)) /\ I \in SUBSET (1..n)
  OBVIOUS
<1>3. /\ x \in CardSeq /\ Len(x) = Cardinality(I) /\ ToSet(x) = {deck[i] : i \in I}
      /\ IsInjective(deck) => IsInjective(x)
  BY CardsAtPositions
<1>4. /\ y \in CardSeq /\ Len(y) = Cardinality(J) /\ ToSet(y) = {deck[i] : i \in J}
      /\ IsInjective(deck) => IsInjective(y)
  BY <1>2, CardsAtPositions
<1>5. Cardinality(I) + Cardinality(J) = n
  <2>1. IsFiniteSet(1..n) /\ Cardinality(1..n) = n
    <3>1. 1 \in Int /\ n \in Int /\ (1 > n => n = 0) /\ n - 1 + 1 = n
      BY <1>1
    <3>2. QED
      BY <3>1, FS_Interval
  <2>2. IsFiniteSet(I) /\ IsFiniteSet(J)
    BY <1>2, <2>1, FS_Subset
  <2>3. I \cup J = 1..n /\ I \cap J = {} /\ Cardinality({}) = 0
    BY <1>2, FS_EmptySet
  <2>4. Cardinality(I \cup J) = Cardinality(I) + Cardinality(J) - Cardinality(I \cap J)
        /\ Cardinality(I) \in Nat /\ Cardinality(J) \in Nat
    BY <2>2, FS_Union, FS_CardinalityType
  <2>5. Cardinality(I \cup J) = n /\ Cardinality(I \cap J) = 0
    BY <2>1, <2>3
  <2>6. QED
    BY <2>4, <2>5
<1>6. Len(deck) = Len(y) + Len(x)
  <2>1. Cardinality(I) \in Nat /\ Cardinality(J) \in Nat
    BY <1>1, <1>2, Ranks
  <2>2. QED
    BY <1>3, <1>4, <1>5, <2>1
<1>7. ToSet(deck) = {deck[i] : i \in 1..n}
  BY <1>1 DEF ToSet
<1>8. ToSet(deck) = ToSet(y) \cup ToSet(x)
  BY <1>2, <1>3, <1>4, <1>7
<1>9. ASSUME IsInjective(deck) PROVE ToSet(y) \cap ToSet(x) = {}
  <2>1. \A i, j \in 1..n : deck[i] = deck[j] => i = j
    BY <1>1, <1>9 DEF IsInjective
  <2>2. \A i \in I : i \in 1..n /\ i \notin J
    BY <1>2
  <2>3. \A i \in J : i \in 1..n
    BY <1>2
  <2>4. ASSUME NEW v \in ToSet(x), v \in ToSet(y) PROVE FALSE
    <3>1. PICK i \in I : v = deck[i]
      BY <1>3, <2>4
    <3>2. PICK j \in J : v = deck[j]
      BY <1>4, <2>4
    <3>3. i = j
      BY <2>1, <2>2, <2>3, <3>1, <3>2
    <3>4. QED
      BY <2>2, <3>3
  <2>5. QED
    BY <2>4
<1>10. Split(deck, y, x)
  BY <1>3, <1>4, <1>6, <1>8, <1>9 DEF Split
<1>11. QED
  BY <1>10

\* A card that is played.
LEMMA SplitOne ==
  ASSUME NEW deck \in CardSeq, NEW k \in 1..Len(deck)
  PROVE  Split(deck, RemoveAt(deck, k), <<deck[k]>>)
<1> PICK n : n = Len(deck)
  OBVIOUS
<1> PICK y : y = RemoveAt(deck, k)
  OBVIOUS
<1> PICK x : x = <<deck[k]>>
  OBVIOUS
<1>1. /\ n \in Nat /\ DOMAIN deck = 1..n /\ k \in 1..n /\ deck[k] \in AnyCard
      /\ \A j \in 1..n : deck[j] \in AnyCard
  BY ElementOfSeq DEF CardSeq
<1>2. y \in CardSeq /\ Len(y) = n - 1
  BY <1>1, CardsRemoved
<1>3. /\ x \in CardSeq /\ Len(x) = 1 /\ ToSet(x) = {deck[k]} /\ IsInjective(x)
  <2>1. x \in CardSeq /\ Len(x) = 1 /\ x[1] = deck[k] /\ DOMAIN x = {1}
    BY <1>1 DEF CardSeq
  <2>2. QED
    BY <2>1 DEF ToSet, IsInjective
<1>4. \A j \in 1..n - 1 : y[j] = IF j < k THEN deck[j] ELSE deck[j + 1]
  <2> DEFINE a == SubSeq(deck, 1, k - 1)
             b == SubSeq(deck, k + 1, n)
  <2>1. a \in Seq(AnyCard) /\ Len(a) = k - 1 /\ \A j \in 1..k - 1 : a[j] = deck[j]
    BY <1>1, SubSeqProperties DEF CardSeq
  <2>2. b \in Seq(AnyCard) /\ Len(b) = n - k /\ \A j \in 1..n - k : b[j] = deck[j + k]
    BY <1>1, SubSeqProperties DEF CardSeq
  <2>3. y = a \o b
    BY DEF RemoveAt
  <2> HIDE DEF a, b
  <2>4. \A j \in 1..Len(a) + Len(b) :
          (a \o b)[j] = IF j <= Len(a) THEN a[j] ELSE b[j - Len(a)]
    BY <2>1, <2>2, ConcatProperties
  <2>5. ASSUME NEW j \in 1..n - 1 PROVE y[j] = IF j < k THEN deck[j] ELSE deck[j + 1]
    <3>1. j \in 1..Len(a) + Len(b) /\ Len(a) = k - 1
      BY <1>1, <2>1, <2>2
    <3>2. CASE j < k
      <4>1. j \in 1..k - 1 /\ j <= Len(a)
        BY <1>1, <2>1, <3>2
      <4>2. QED
        BY <2>1, <2>3, <2>4, <3>1, <3>2, <4>1
    <3>3. CASE ~(j < k)
      <4>1. j - (k - 1) \in 1..n - k /\ j - (k - 1) + k = j + 1 /\ ~(j <= Len(a))
        BY <1>1, <2>1, <3>3
      <4>2. y[j] = b[j - (k - 1)]
        BY <2>3, <2>4, <3>1, <4>1
      <4>3. QED
        BY <2>2, <3>3, <4>1, <4>2
    <3>4. QED
      BY <3>2, <3>3
  <2>6. QED
    BY <2>5
<1>5. DOMAIN y = 1..n - 1
  BY <1>2 DEF CardSeq
<1>6. \A j \in 1..n - 1 : \E i \in 1..n : i # k /\ y[j] = deck[i] /\ i = IF j < k THEN j ELSE j + 1
  BY <1>1, <1>4
<1>7. \A i \in 1..n : i # k => \E j \in 1..n - 1 : y[j] = deck[i]
  <2>1. ASSUME NEW i \in 1..n, i # k PROVE \E j \in 1..n - 1 : y[j] = deck[i]
    <3>1. CASE i < k
      <4>1. i \in 1..n - 1
        BY <1>1, <3>1
      <4>2. QED
        BY <1>4, <3>1, <4>1
    <3>2. CASE i > k
      <4>1. i - 1 \in 1..n - 1 /\ ~(i - 1 < k) /\ i - 1 + 1 = i
        BY <1>1, <3>2
      <4>2. QED
        BY <1>4, <4>1
    <3>3. QED
      BY <1>1, <2>1, <3>1, <3>2
  <2>2. QED
    BY <2>1
<1>8. ToSet(y) = {y[j] : j \in 1..n - 1} /\ ToSet(deck) = {deck[i] : i \in 1..n}
  BY <1>1, <1>5 DEF ToSet
<1>9. ToSet(deck) = ToSet(y) \cup {deck[k]}
  <2>1. ToSet(deck) \subseteq ToSet(y) \cup {deck[k]}
    BY <1>7, <1>8
  <2>2. ToSet(y) \cup {deck[k]} \subseteq ToSet(deck)
    BY <1>1, <1>6, <1>8
  <2>3. QED
    BY <2>1, <2>2
<1>10. ASSUME IsInjective(deck)
       PROVE  IsInjective(y) /\ ToSet(y) \cap {deck[k]} = {}
  <2>1. \A i, j \in 1..n : deck[i] = deck[j] => i = j
    BY <1>1, <1>10 DEF IsInjective
  <2>2. ASSUME NEW i \in 1..n - 1, NEW j \in 1..n - 1, y[i] = y[j] PROVE i = j
    <3>1. PICK a \in 1..n : y[i] = deck[a] /\ a = IF i < k THEN i ELSE i + 1
      BY <1>6
    <3>2. PICK b \in 1..n : y[j] = deck[b] /\ b = IF j < k THEN j ELSE j + 1
      BY <1>6
    <3>3. a = b
      BY <2>1, <2>2, <3>1, <3>2
    <3>4. QED
      BY <1>1, <3>1, <3>2, <3>3
  <2>3. deck[k] \notin ToSet(y)
    BY <1>1, <1>6, <1>8, <2>1
  <2>4. QED
    BY <1>5, <2>2, <2>3 DEF IsInjective
<1>11. Split(deck, y, x)
  <2>1. n = (n - 1) + 1
    BY <1>1
  <2>2. QED
    BY <1>2, <1>3, <1>9, <1>10, <2>1 DEF Split
<1>12. QED
  BY <1>11

-----------------------------------------------------------------------------
(* What a player owns: the ecart, the card and the report.                 *)

LEMMA EmptyNote ==
  ASSUME NEW q, ShipsOut(q), Count(q, "INIT_DECK") = 0, NEW deck \in CardSeq, NEW plis \in CardSeq
  PROVE  /\ Hand(q, deck) = Glue(deck, CardsIn(q, "ECARTS"))
         /\ Count(q, "ECARTS") = 0 => Hand(q, deck) = deck
         /\ Pile(q, plis) = Glue(plis, CardsIn(q, "ADD_PLI"))
         /\ Count(q, "ADD_PLI") = 0 => Pile(q, plis) = plis
<1>1. CardsIn(q, "INIT_DECK") = <<>>
  BY CardsInNone DEF ShipsOut
<1>2. Glue(<<>>, deck) = deck /\ Glue(deck, <<>>) = deck /\ Glue(plis, <<>>) = plis
  BY GlueNothing
<1>3. Hand(q, deck) = Glue(deck, CardsIn(q, "ECARTS"))
  BY <1>1, <1>2 DEF Hand
<1>4. Pile(q, plis) = Glue(plis, CardsIn(q, "ADD_PLI"))
  BY DEF Pile
<1>5. /\ Count(q, "ECARTS") = 0 => CardsIn(q, "ECARTS") = <<>>
      /\ Count(q, "ADD_PLI") = 0 => CardsIn(q, "ADD_PLI") = <<>>
  BY CardsInNone DEF ShipsOut
<1>6. QED
  BY <1>2, <1>3, <1>4, <1>5

\* An ecart leaves the hand.
LEMMA GivesRoles ==
  ASSUME UInv, Seated, TInv, RInv, NEW c \in Clients, Alone(c), GivesEcart(c)
  PROVE  /\ c \in Playing /\ ~Asleep /\ ~Chosen(c) /\ Chosen(c)' /\ SamePile(c) /\ SamePlay(c)
         /\ \E x \in CardSeq : /\ Len(x) = EcartSize /\ Split(HandOf(c), HandOf(c)', x)
                               /\ EcartOf(c) = <<>> /\ EcartOf(c)' = x
         /\ Count(toServer'[c], "PLAY_CARD") = Count(toServer[c], "PLAY_CARD")
<1> PICK q : q = toClient[c]
  OBVIOUS
<1> PICK deck : deck = cl[c].deck
  OBVIOUS
<1>1. /\ At(c, "ecart") /\ toClient'[c] = q /\ cl'[c].plis = cl[c].plis
  BY DEF GivesEcart
<1>2. PICK I \in SUBSET DOMAIN deck :
        \E m : /\ Cardinality(I) = EcartSize
               /\ m.code = "ECART" /\ m.deck = CardsAt(deck, I) /\ Tells(c, m)
               /\ cl'[c].deck = CardsAt(deck, DOMAIN deck \ I)
  BY DEF GivesEcart
<1>3. PICK m : /\ Cardinality(I) = EcartSize
               /\ m.code = "ECART" /\ m.deck = CardsAt(deck, I) /\ Tells(c, m)
               /\ cl'[c].deck = CardsAt(deck, DOMAIN deck \ I)
  BY <1>2
<1> PICK x : x = CardsAt(deck, I)
  OBVIOUS
<1>4. ShipsOut(q) /\ ShipsIn(toServer[c]) /\ deck \in CardSeq /\ cl[c].plis \in CardSeq
  BY Ships
<1>5. /\ OwesEcart(c) /\ c \in Playing /\ ~Asleep
      /\ Count(q, "ECARTS") = 0 /\ Count(q, "INIT_DECK") = 0 /\ Count(toServer[c], "ECART") = 0
  BY <1>1, BeforeEcart DEF UInv, Phases
<1>6. DOMAIN deck = 1..Len(deck)
  BY <1>4 DEF CardSeq
<1>7. Split(deck, cl'[c].deck, x)
  BY <1>3, <1>4, <1>6, SplitPositions
<1>8. x \in CardSeq /\ Len(x) = EcartSize /\ cl'[c].deck \in CardSeq
  <2>1. Len(x) = Cardinality(I)
    BY <1>4, <1>6, CardsAtPositions
  <2>2. QED
    BY <1>3, <1>7, <2>1 DEF Split
<1>9. HandOf(c) = deck /\ HandOf(c)' = cl'[c].deck
  BY <1>1, <1>4, <1>5, <1>8, EmptyNote, RolesAre, RolesWillBe
<1>10. SamePile(c)
  BY <1>1, RolesAre, RolesWillBe DEF SamePile
<1>11. CardsOf(m) = x
  BY <1>3 DEF CardsOf
<1>12. /\ EcartIn(toServer'[c]) = Glue(EcartIn(toServer[c]), x)
       /\ CardsIn(toServer'[c], "PLAY_CARD") = Glue(PlayedBy(c), <<>>)
       /\ Count(toServer'[c], "PLAY_CARD") = Count(toServer[c], "PLAY_CARD") + 0
  BY <1>3, <1>5, <1>8, <1>11, TellsCards
<1>13. EcartIn(toServer[c]) = <<>> /\ PlayedBy(c) \in CardSeq
       /\ Count(toServer[c], "PLAY_CARD") \in Nat
  BY <1>4, <1>5, CardsInNone DEF ShipsIn, EcartIn, PlayedBy
<1>14. EcartIn(toServer'[c]) = x /\ CardsIn(toServer'[c], "PLAY_CARD") = PlayedBy(c)
       /\ Count(toServer'[c], "PLAY_CARD") = Count(toServer[c], "PLAY_CARD")
  BY <1>8, <1>12, <1>13, GlueNothing
<1>15. Given(c) = <<>> /\ Given(c)' = <<>>
  <2>1. Kept
    BY AloneKept
  <2>2. QED
    BY <1>5, <2>1 DEF Kept, Given, OwesEcart
<1>16. EcartOf(c) = <<>> /\ EcartOf(c)' = x
  BY <1>8, <1>13, <1>14, <1>15, GlueNothing, RolesAre, RolesWillBe
<1>17. SamePlay(c)
  BY <1>14, RolesAre, RolesWillBe DEF SamePlay
<1>18. ~Chosen(c) /\ Chosen(c)'
  <2>1. ~At(c, "ecart")'
    BY <1>3 DEF Tells, At
  <2>2. ~NotDealtYet(c)'
    BY <1>1, <1>5, RolesWillBe
  <2>3. QED
    BY <1>1, <2>1, <2>2 DEF Chosen
<1>19. QED
  BY <1>5, <1>7, <1>8, <1>9, <1>10, <1>14, <1>16, <1>17, <1>18

\* Who is asked for a card is in the tricks, has its ecart and has played no card
\* that the server has not seen.
LEMMA AskedFacts ==
  ASSUME UInv, Seated, RInv, NEW c \in Clients, At(c, "play")
  PROVE  /\ c \in Playing /\ InTricks /\ ~Asleep /\ HasTurn(c) /\ ~At(c, "ecart")
         /\ Count(toClient[c], "INIT_DECK") = 0 /\ Count(toClient[c], "ECARTS") = 0
         /\ Count(toServer[c], "PLAY_CARD") = 0
         /\ ~cl[c].waiting_for_ecart
<1>1. ~At(c, "ecart")
  BY DEF At
<1>2. /\ Count(toClient[c], "ASK_FOR_CARD") \in Nat /\ Count(toServer[c], "PLAY_CARD") \in Nat
      /\ Turns(c) = Count(toClient[c], "ASK_FOR_CARD") + 1 + Count(toServer[c], "PLAY_CARD")
      /\ Turns(c) = IF HasTurn(c) THEN 1 ELSE 0
  BY QueuesOf, KindFinite DEF UInv, ClientInv, Duties, Turns
<1>3. HasTurn(c) /\ Count(toServer[c], "PLAY_CARD") = 0
  BY <1>2
<1>4. c \in Playing /\ InTricks
  BY <1>3, TurnHolder DEF UInv, HasTurn
<1>5. ~Asleep
  BY <1>4 DEF InTricks, UInv, Phases
<1>6. Count(toClient[c], "INIT_DECK") = 0
  BY <1>4, BeforeEcart
<1>7. Late(c)
  BY DEF RInv
<1>8. Count(toClient[c], "ECARTS") = 0
  BY <1>4, <1>7 DEF Late
<1>9. ~cl[c].waiting_for_ecart
  BY <1>4, <1>7, <1>8 DEF Late
<1>10. QED
  BY <1>1, <1>3, <1>4, <1>5, <1>6, <1>8, <1>9

\* A card leaves the hand.
LEMMA PlaysRoles ==
  ASSUME UInv, Seated, TInv, RInv, NEW c \in Clients, Alone(c), PlaysCard(c)
  PROVE  /\ c \in Playing /\ ~Asleep /\ InTricks /\ SamePile(c) /\ SameEcart(c)
         /\ \E x \in CardSeq : /\ Len(x) = 1 /\ Split(HandOf(c), HandOf(c)', x)
                               /\ PlayedBy(c) = <<>> /\ PlayedBy(c)' = x
         /\ Count(toServer[c], "PLAY_CARD") = 0 /\ Count(toServer'[c], "PLAY_CARD") = 1
<1> PICK q : q = toClient[c]
  OBVIOUS
<1> PICK deck : deck = cl[c].deck
  OBVIOUS
<1>1. At(c, "play") /\ toClient'[c] = q /\ cl'[c].plis = cl[c].plis
  BY DEF PlaysCard
<1>2. PICK k \in DOMAIN deck :
        \E m : /\ m.code = "PLAY_CARD" /\ Tells(c, m)
               /\ m.played = [card |-> deck[k], last_played |-> cl[c].info.player_index]
               /\ cl'[c].deck = RemoveAt(deck, k)
  BY DEF PlaysCard
<1>3. PICK m : /\ m.code = "PLAY_CARD" /\ Tells(c, m)
               /\ m.played = [card |-> deck[k], last_played |-> cl[c].info.player_index]
               /\ cl'[c].deck = RemoveAt(deck, k)
  BY <1>2
<1> PICK x : x = <<deck[k]>>
  OBVIOUS
<1>4. ShipsOut(q) /\ ShipsIn(toServer[c]) /\ deck \in CardSeq /\ cl[c].plis \in CardSeq
  BY Ships
<1>5. /\ c \in Playing /\ InTricks /\ ~Asleep
      /\ Count(q, "ECARTS") = 0 /\ Count(q, "INIT_DECK") = 0 /\ Count(toServer[c], "PLAY_CARD") = 0
  BY <1>1, AskedFacts
<1>6. k \in 1..Len(deck)
  BY <1>4 DEF CardSeq
<1>7. Split(deck, cl'[c].deck, x)
  BY <1>3, <1>4, <1>6, SplitOne
<1>8. x \in CardSeq /\ Len(x) = 1 /\ cl'[c].deck \in CardSeq
  BY <1>7 DEF Split
<1>9. HandOf(c) = deck /\ HandOf(c)' = cl'[c].deck
  BY <1>1, <1>4, <1>5, <1>8, EmptyNote, RolesAre, RolesWillBe
<1>10. SamePile(c)
  BY <1>1, RolesAre, RolesWillBe DEF SamePile
<1>11. CardsOf(m) = x
  BY <1>3 DEF CardsOf
<1>12. /\ EcartIn(toServer'[c]) = Glue(EcartIn(toServer[c]), <<>>)
       /\ CardsIn(toServer'[c], "PLAY_CARD") = Glue(PlayedBy(c), x)
       /\ Count(toServer'[c], "PLAY_CARD") = Count(toServer[c], "PLAY_CARD") + 1
  BY <1>3, <1>5, <1>8, <1>11, TellsCards
<1>13. PlayedBy(c) = <<>> /\ EcartIn(toServer[c]) \in CardSeq
  BY <1>4, <1>5, CardsInNone DEF ShipsIn, EcartIn, PlayedBy
<1>14. EcartIn(toServer'[c]) = EcartIn(toServer[c]) /\ CardsIn(toServer'[c], "PLAY_CARD") = x
  BY <1>8, <1>12, <1>13, GlueNothing
<1>15. Given(c)' = Given(c)
  <2>1. Kept
    BY AloneKept
  <2>2. QED
    BY <2>1 DEF Kept, Given
<1>16. SameEcart(c)
  BY <1>14, <1>15, RolesAre, RolesWillBe DEF SameEcart
<1>17. PlayedBy(c)' = x
  BY <1>14, RolesWillBe
<1>18. QED
  BY <1>5, <1>7, <1>8, <1>9, <1>10, <1>12, <1>13, <1>16, <1>17

\* A pile is counted and given up.
LEMMA ReportsRoles ==
  ASSUME UInv, Seated, TInv, RInv, NEW c \in Clients, Alone(c), Reports(c), c \in Playing, ~Asleep
  PROVE  /\ SameHand(c) /\ SameEcart(c) /\ SamePlay(c) /\ (Chosen(c)' <=> Chosen(c))
         /\ srv.updating_score /\ PileOf(c)' = <<>>
         /\ \E m : /\ m.code = "UPDATE_SCORE" /\ m.score = Points(PileOf(c), srv.papayoo)
                   /\ toServer'[c] = Append(toServer[c], m)
<1> PICK q : q = toClient[c]
  OBVIOUS
<1> PICK deck : deck = cl[c].deck
  OBVIOUS
<1> PICK plis : plis = cl[c].plis
  OBVIOUS
<1>1. /\ q # <<>> /\ Head(q).code = "ADD_SCORE" /\ toClient'[c] = Tail(q)
      /\ cl'[c].plis = <<>> /\ cl'[c].deck = deck /\ ~At(c, "ecart")
  BY DEF Reports, At
<1>2. PICK m : m.code = "UPDATE_SCORE" /\ m.score = Points(plis, cl[c].info.papayoo) /\ Tells(c, m)
  BY DEF Reports
<1>3. ShipsOut(q) /\ deck \in CardSeq /\ plis \in CardSeq
  BY Ships
<1>4. IsQueue(q) /\ IsQueue(Tail(q))
  BY <1>1, <1>3, QueueTail DEF ShipsOut
<1>5. Without(Tail(q), q, "ADD_SCORE")
  <2>1. Without(Tail(q), q, Head(q).code)
    BY <1>1, <1>4, TakenFrom
  <2>2. QED
    BY <1>1, <2>1
<1>6. Piles(c) /\ Late(c)
  BY DEF RInv
<1>7. srv.updating_score
  <2>1. Count(q, "ADD_SCORE") # 0
    BY <1>5 DEF Without
  <2>2. ScoreDue(c) # 0
    <3>1. Count(q, "ADD_SCORE") \in Nat /\ Count(toServer[c], "UPDATE_SCORE") \in Nat
      BY QueuesOf, KindFinite
    <3>2. QED
      BY <2>1, <3>1 DEF ScoreDue
  <2>3. QED
    BY <1>6, <2>2 DEF Piles, UInv, Phases
<1>8. ~InTricks /\ ~InEcarts /\ srv.game_running
  BY <1>7 DEF InTricks, InEcarts, UInv, Phases
<1>9. Count(q, "INIT_DECK") = 0 /\ Count(q, "ECARTS") = 0
  BY <1>6, <1>8, BeforeEcart DEF Late
<1>10. Count(q, "ADD_PLI") = 0
  BY <1>1, <1>4, <1>6, TailBehind DEF Piles
<1>11. /\ Count(Tail(q), "INIT_DECK") = 0 /\ Count(Tail(q), "ECARTS") = 0
       /\ Count(Tail(q), "ADD_PLI") = 0
  BY <1>5, <1>9, <1>10 DEF Without
<1>12. HandOf(c) = deck /\ PileOf(c) = plis
  BY <1>3, <1>9, <1>10, EmptyNote, RolesAre
<1>13. HandOf(c)' = deck /\ PileOf(c)' = <<>>
  <2>1. /\ CardsIn(Tail(q), "INIT_DECK") = <<>> /\ CardsIn(Tail(q), "ECARTS") = <<>>
        /\ CardsIn(Tail(q), "ADD_PLI") = <<>>
    BY <1>4, <1>11, CardsInNone
  <2>2. Glue(<<>>, deck) = deck /\ Glue(deck, <<>>) = deck /\ Glue(<<>>, <<>>) = <<>>
    BY <1>3, GlueNothing
  <2>3. Hand(Tail(q), deck) = deck /\ Pile(Tail(q), <<>>) = <<>>
    BY <1>11, <2>1, <2>2 DEF Hand, Pile
  <2>4. QED
    BY <1>1, <2>3, RolesWillBe
<1>14. SameEcart(c) /\ SamePlay(c)
  BY <1>2, TellsRoles
<1>15. Chosen(c)' <=> Chosen(c)
  <2>1. ~At(c, "ecart")'
    BY <1>2 DEF Tells, At
  <2>2. ~NotDealtYet(c) /\ ~NotDealtYet(c)'
    BY <1>1, <1>9, <1>11, RolesAre, RolesWillBe
  <2>3. QED
    BY <1>1, <2>1, <2>2 DEF Chosen
<1>16. cl[c].info.papayoo = srv.papayoo
  <2>1. cl[c].info = CurrentInfo(c)
    BY <1>8, <1>9 DEF UInv, ClientInv, Fresh, FreshQueue
  <2>2. QED
    BY <2>1 DEF CurrentInfo
<1>17. toServer'[c] = Append(toServer[c], m)
  BY <1>2, Connected DEF Tells
<1>18. m.score = Points(PileOf(c), srv.papayoo)
  BY <1>2, <1>12, <1>16
<1>19. SameHand(c)
  BY <1>12, <1>13 DEF SameHand
<1>20. QED
  BY <1>2, <1>7, <1>13, <1>14, <1>15, <1>17, <1>18, <1>19

-----------------------------------------------------------------------------
(* How many cards a player has: the steps of a client.                     *)

LEMMA GlueLen == ASSUME NEW x \in CardSeq, NEW y \in CardSeq
                 PROVE  Len(x) \in Nat /\ Len(y) \in Nat /\ Len(Glue(x, y)) = Len(x) + Len(y)
  BY DEF CardSeq, Glue

\* What a player owns is made of cards.
LEMMA RolesSeq ==
  ASSUME UInv, Seated, TInv, NEW c \in Clients, c \in Playing
  PROVE  /\ HandOf(c) \in CardSeq /\ EcartOf(c) \in CardSeq /\ PlayedBy(c) \in CardSeq
         /\ PileOf(c) \in CardSeq
         /\ Len(HandOf(c)) \in Nat /\ Len(EcartOf(c)) \in Nat
<1> PICK q : q = toClient[c]
  OBVIOUS
<1> PICK deck : deck = IF Count(q, "INIT_DECK") # 0 THEN <<>> ELSE cl[c].deck
  OBVIOUS
<1> PICK plis : plis = IF Count(q, "INIT_DECK") # 0 THEN <<>> ELSE cl[c].plis
  OBVIOUS
<1> PICK a : a = CardsIn(q, "INIT_DECK")
  OBVIOUS
<1> PICK e : e = CardsIn(q, "ECARTS")
  OBVIOUS
<1> PICK t : t = CardsIn(q, "ADD_PLI")
  OBVIOUS
<1> PICK g : g = EcartIn(toServer[c])
  OBVIOUS
<1> PICK r : r = Given(c)
  OBVIOUS
<1>1. /\ a \in CardSeq /\ e \in CardSeq /\ t \in CardSeq /\ g \in CardSeq
      /\ PlayedBy(c) \in CardSeq /\ cl[c].deck \in CardSeq /\ cl[c].plis \in CardSeq
  BY Ships DEF ShipsOut, ShipsIn, EcartIn, PlayedBy
<1>2. <<>> \in CardSeq
  BY GlueNothing
<1>3. deck \in CardSeq /\ plis \in CardSeq
  BY <1>1, <1>2
<1>4. r \in CardSeq
  <2>1. SeatOf(c) \in Seats
    BY SeatFacts DEF UInv
  <2>2. srv.ecarts_received[SeatOf(c)] \in CardSeq
    BY <2>1 DEF TInv, ServerTypes
  <2>3. QED
    BY <1>2, <2>2 DEF Given
<1>5. /\ Glue(Glue(a, deck), e) \in CardSeq /\ Glue(plis, t) \in CardSeq /\ Glue(g, r) \in CardSeq
  <2>1. Glue(a, deck) \in CardSeq
    BY <1>1, <1>3, GlueLaws
  <2>2. QED
    BY <1>1, <1>3, <1>4, <2>1, GlueLaws
<1>6. HandOf(c) \in CardSeq /\ EcartOf(c) \in CardSeq /\ PileOf(c) \in CardSeq
  BY <1>5, RolesAre DEF Hand, Pile
<1>7. QED
  BY <1>1, <1>6, GlueLen

LEMMA AloneLengths ==
  ASSUME LInv, NEW c \in Clients, Alone(c), Lengths(c)'
  PROVE  LInv'
<1>1. Kept
  BY AloneKept
<1>2. ASSUME NEW d \in Clients, d # c PROVE Lengths(d)'
  <2>1. /\ toClient'[d] = toClient[d] /\ toServer'[d] = toServer[d] /\ cl'[d] = cl[d]
    BY <1>2 DEF Alone
  <2>2. Given(d)' = Given(d)
    BY <1>1 DEF Kept, Given
  <2>3. HandOf(d)' = HandOf(d) /\ EcartOf(d)' = EcartOf(d)
    BY <2>1, <2>2, RolesAre, RolesWillBe
  <2>4. Chosen(d)' <=> Chosen(d)
    BY <2>1, RolesAre, RolesWillBe DEF Chosen, At
  <2>5. Lengths(d)
    BY <1>2 DEF LInv
  <2>6. (InEcarts' <=> InEcarts) /\ HandSize' = HandSize
    BY <1>1 DEF Kept, InEcarts, HandSize
  <2>7. QED
    BY <1>1, <2>1, <2>3, <2>4, <2>5, <2>6 DEF Lengths, Kept
<1>3. QED
  BY <1>2 DEF LInv

LEMMA HandSizeNat == ASSUME UInv, Seated, amount_players >= 2 PROVE HandSize \in Nat
<1>1. amount_players \in Nat \ {0} /\ DeckSize \in Nat
  BY SeatFacts, NewDeck DEF UInv
<1>2. QED
  BY <1>1, DivMod DEF HandSize

LEMMA LInvClient ==
  ASSUME UInv, Seated, TInv, RInv, LInv, NEW c \in Clients, Alone(c), Moves(c)
  PROVE  LInv'
<1>1. Kept
  BY AloneKept
<1>2. /\ (InEcarts' <=> InEcarts) /\ (InTricks' <=> InTricks) /\ HandSize' = HandSize
      /\ (OnBoard(c)' <=> OnBoard(c)) /\ srv' = srv /\ Playing' = Playing
  BY <1>1 DEF Kept, InEcarts, HandSize
<1>3. Lengths(c)
  BY DEF LInv
<1>4. ASSUME c \notin Playing \/ (~InEcarts /\ ~InTricks) PROVE Lengths(c)'
  BY <1>2, <1>4 DEF Lengths
<1>5. ASSUME InEcarts \/ InTricks PROVE ~Asleep
  BY <1>5 DEF InEcarts, InTricks, UInv, Phases
<1>6. ASSUME SameHand(c), SameEcart(c), Chosen(c)' <=> Chosen(c),
             Count(toServer'[c], "PLAY_CARD") = Count(toServer[c], "PLAY_CARD")
      PROVE  Lengths(c)'
  BY <1>2, <1>3, <1>6 DEF Lengths, SameHand, SameEcart
<1>7. ASSUME NEW code \in NotedCodes, Notes(c, code) PROVE Lengths(c)'
  <2>1. Still(c) /\ (Chosen(c)' <=> Chosen(c))
    BY <1>7, NotesRoles
  <2>2. toServer'[c] = toServer[c]
    BY <1>7 DEF Notes
  <2>3. QED
    BY <1>6, <2>1, <2>2 DEF Still
<1>8. ASSUME c \in Playing, ~Asleep, NEW m, m.code # "PLAY_CARD", Tells(c, m)
      PROVE  Count(toServer'[c], "PLAY_CARD") = Count(toServer[c], "PLAY_CARD")
  <2>1. toServer'[c] = Push(toServer[c], TRUE, m) /\ IsQueue(toServer[c])
    BY <1>8, Connected, QueuesOf DEF Tells, Push
  <2>2. WithMore(Push(toServer[c], TRUE, m), toServer[c], m.code, IF TRUE THEN 1 ELSE 0)
    BY <2>1, Added
  <2>3. QED
    BY <1>8, <2>1, <2>2 DEF WithMore
<1>9. ASSUME Talks(c) PROVE Lengths(c)'
  <2>1. ASSUME c \in Playing, ~Asleep PROVE Lengths(c)'
    <3>1. PICK m : m.code \in {"ADD_PLAYER", "ASK_BASIC_INFO"} /\ Tells(c, m)
      BY <1>9 DEF Talks
    <3>2. Count(toServer'[c], "PLAY_CARD") = Count(toServer[c], "PLAY_CARD")
      BY <1>8, <2>1, <3>1
    <3>3. QED
      BY <1>6, <1>9, <2>1, <3>2, TalksRoles DEF Still
  <2>2. QED
    BY <1>4, <1>5, <2>1
<1>10. ASSUME Reports(c) PROVE Lengths(c)'
  <2>1. ASSUME c \in Playing, ~Asleep PROVE ~InEcarts /\ ~InTricks
    <3>1. srv.updating_score
      BY <1>10, <2>1, ReportsRoles
    <3>2. QED
      BY <3>1 DEF InEcarts, InTricks
  <2>2. QED
    BY <1>4, <1>5, <2>1
<1>11. ASSUME Leaves(c) PROVE Lengths(c)'
  BY <1>4, <1>5, <1>11 DEF Leaves
<1>12. ASSUME GivesEcart(c) PROVE Lengths(c)'
  <2>1. At(c, "ecart")
    BY <1>12 DEF GivesEcart
  <2>2. InEcarts /\ ~InTricks /\ c \in Playing
    BY <2>1, BeforeEcart
  <2>3. ~Chosen(c) /\ Chosen(c)'
    BY <1>12, GivesRoles
  <2>4. PICK x \in CardSeq : /\ Len(x) = EcartSize /\ Split(HandOf(c), HandOf(c)', x)
                             /\ EcartOf(c) = <<>> /\ EcartOf(c)' = x
    BY <1>12, GivesRoles
  <2>5. Len(HandOf(c)) = HandSize - 0
    BY <1>3, <2>2, <2>3 DEF Lengths
  <2>6. Len(HandOf(c)) = Len(HandOf(c)') + EcartSize /\ Len(HandOf(c)') \in Nat
    BY <2>4 DEF Split, CardSeq
  <2>7. EcartSize \in Nat /\ HandSize \in Int
    BY <2>2, <2>5, <2>6, CardsAssumption, RolesSeq, HandSizeNat DEF InEcarts, Seated, GameHasItsPlayers, UInv, Phases, Asleep
  <2>8. Len(HandOf(c))' = HandSize - EcartSize
    BY <2>5, <2>6, <2>7
  <2>9. QED
    BY <1>2, <2>2, <2>3, <2>4, <2>8 DEF Lengths
<1>13. ASSUME PlaysCard(c) PROVE Lengths(c)'
  <2>1. InTricks /\ ~InEcarts /\ c \in Playing
    BY <1>13, PlaysRoles DEF InEcarts
  <2>2. Count(toServer[c], "PLAY_CARD") = 0 /\ Count(toServer'[c], "PLAY_CARD") = 1
    BY <1>13, PlaysRoles
  <2>3. PICK x \in CardSeq : Len(x) = 1 /\ Split(HandOf(c), HandOf(c)', x)
    BY <1>13, PlaysRoles
  <2>4. Len(HandOf(c)) = Len(HandOf(c)') + 1 /\ Len(HandOf(c)') \in Nat
    BY <2>3 DEF Split, CardSeq
  <2>5. Len(HandOf(c)) + srv.amount_turn + 0 + (IF OnBoard(c) THEN 1 ELSE 0) = HandSize
    BY <1>3, <2>1, <2>2 DEF Lengths
  <2>6. srv.amount_turn \in Nat
    BY ServerAssumption DEF TInv, ServerTypes
  <2>7. Len(HandOf(c))' + srv.amount_turn + 1 + (IF OnBoard(c) THEN 1 ELSE 0) = HandSize
    BY <2>4, <2>5, <2>6
  <2>8. QED
    BY <1>2, <2>1, <2>2, <2>7 DEF Lengths
<1>14. Lengths(c)'
  BY <1>7, <1>9, <1>10, <1>11, <1>12, <1>13 DEF Moves
<1>15. QED
  BY <1>14, AloneLengths

-----------------------------------------------------------------------------
(* What a player owns: what the server sends and takes.                    *)

LEMMA PushRoles ==
  ASSUME NEW q, ShipsOut(q), NEW b \in BOOLEAN, NEW m,
         b /\ m.code \in {"INIT_DECK", "ECARTS", "ADD_PLI"} => CardsOf(m) \in CardSeq,
         NEW deck \in CardSeq, NEW plis \in CardSeq
  PROVE  /\ ShipsOut(Push(q, b, m))
         /\ m.code \notin {"INIT_DECK", "ECARTS"} => Hand(Push(q, b, m), deck) = Hand(q, deck)
         /\ b /\ m.code = "ECARTS" => Hand(Push(q, b, m), deck) = Glue(Hand(q, deck), CardsOf(m))
         /\ ~b => Hand(Push(q, b, m), deck) = Hand(q, deck) /\ Pile(Push(q, b, m), plis) = Pile(q, plis)
         /\ m.code \notin {"INIT_DECK", "ADD_PLI"} => Pile(Push(q, b, m), plis) = Pile(q, plis)
         /\ b /\ m.code = "ADD_PLI" => Pile(Push(q, b, m), plis) = Glue(Pile(q, plis), CardsOf(m))
         /\ b /\ m.code = "INIT_DECK" /\ Count(q, "INIT_DECK") = 0 /\ Count(q, "ECARTS") = 0
              => /\ Hand(Push(q, b, m), deck) = CardsOf(m)
                 /\ Pile(Push(q, b, m), plis) = CardsIn(q, "ADD_PLI")
<1> PICK t : t = Push(q, b, m)
  OBVIOUS
<1> PICK x : x = CardsOf(m)
  OBVIOUS
<1>1. IsQueue(q) /\ Carries(q, "INIT_DECK") /\ Carries(q, "ECARTS") /\ Carries(q, "ADD_PLI")
  BY DEF ShipsOut
<1>2. ASSUME NEW code \in {"INIT_DECK", "ECARTS", "ADD_PLI"}
      PROVE  /\ CardsIn(t, code) = Glue(CardsIn(q, code), IF b /\ m.code = code THEN x ELSE <<>>)
             /\ Carries(t, code) /\ CardsIn(q, code) \in CardSeq /\ CardsIn(t, code) \in CardSeq
             /\ ~(b /\ m.code = code) => CardsIn(t, code) = CardsIn(q, code)
  <2>1. b /\ m.code = code => CardsOf(m) \in CardSeq
    OBVIOUS
  <2>2. Carries(q, code)
    BY <1>1
  <2>3. /\ CardsIn(Push(q, b, m), code)
              = Glue(CardsIn(q, code), IF b /\ m.code = code THEN CardsOf(m) ELSE <<>>)
        /\ Carries(Push(q, b, m), code)
    BY <1>1, <2>1, <2>2, PushCards
  <2>4. IsQueue(Push(q, b, m))
    BY <1>1, PushFacts
  <2>5. CardsIn(q, code) \in CardSeq /\ CardsIn(t, code) \in CardSeq
    BY <1>1, <2>2, <2>3, <2>4, CardsInSeq
  <2>6. Glue(CardsIn(q, code), <<>>) = CardsIn(q, code)
    BY <2>5, GlueNothing
  <2>7. QED
    BY <2>3, <2>5, <2>6
<1>3. /\ IsQueue(t) /\ Count(t, "INIT_DECK") \in Nat
      /\ \A y : Count(t, y) = Count(q, y) + (IF b /\ m.code = y THEN 1 ELSE 0) /\ Count(q, y) \in Nat
  <2>1. /\ IsQueue(Push(q, b, m))
        /\ \A y : /\ Count(Push(q, b, m), y) = Count(q, y) + (IF b /\ m.code = y THEN 1 ELSE 0)
                  /\ Count(q, y) \in Nat
    BY <1>1, PushFacts
  <2>2. QED
    BY <2>1
<1>4. \A y : Count(t, y) \in Nat
  BY <1>3, KindFinite
<1>5. ShipsOut(t)
  BY <1>2, <1>3, <1>4 DEF ShipsOut
<1>6. ~(b /\ m.code = "INIT_DECK") => Count(t, "INIT_DECK") = Count(q, "INIT_DECK")
  BY <1>3
<1>a. PICK a : a = IF Count(q, "INIT_DECK") # 0 THEN <<>> ELSE deck
  OBVIOUS
<1>p. PICK p : p = IF Count(q, "INIT_DECK") # 0 THEN <<>> ELSE plis
  OBVIOUS
<1>7. a \in CardSeq /\ p \in CardSeq
  BY <1>a, <1>p, GlueNothing
<1>8. /\ Hand(q, deck) = Glue(Glue(CardsIn(q, "INIT_DECK"), a), CardsIn(q, "ECARTS"))
      /\ Pile(q, plis) = Glue(p, CardsIn(q, "ADD_PLI"))
  BY <1>a, <1>p DEF Hand, Pile
<1>9. ASSUME ~(b /\ m.code = "INIT_DECK")
      PROVE  /\ Hand(t, deck) = Glue(Glue(CardsIn(q, "INIT_DECK"), a), CardsIn(t, "ECARTS"))
             /\ Pile(t, plis) = Glue(p, CardsIn(t, "ADD_PLI"))
  <2>1. CardsIn(t, "INIT_DECK") = CardsIn(q, "INIT_DECK")
    BY <1>2, <1>9
  <2>2. QED
    BY <1>a, <1>p, <1>6, <1>9, <2>1 DEF Hand, Pile
<1>10. ~b \/ m.code \notin {"INIT_DECK", "ECARTS"} => Hand(t, deck) = Hand(q, deck)
  BY <1>2, <1>8, <1>9
<1>11. ~b \/ m.code \notin {"INIT_DECK", "ADD_PLI"} => Pile(t, plis) = Pile(q, plis)
  BY <1>2, <1>8, <1>9
<1>12. ASSUME b, m.code = "ECARTS" PROVE Hand(t, deck) = Glue(Hand(q, deck), x)
  <2> PICK l : l = Glue(CardsIn(q, "INIT_DECK"), a)
    OBVIOUS
  <2> PICK e : e = CardsIn(q, "ECARTS")
    OBVIOUS
  <2>1. l \in CardSeq
    <3>1. CardsIn(q, "INIT_DECK") \in CardSeq
      BY <1>2
    <3>2. QED
      BY <1>7, <3>1, GlueLaws
  <2>2. e \in CardSeq /\ x \in CardSeq /\ CardsIn(t, "ECARTS") = Glue(e, x)
    BY <1>2, <1>12
  <2>3. Glue(Glue(l, e), x) = Glue(l, Glue(e, x))
    BY <2>1, <2>2, GlueLaws
  <2>4. Hand(t, deck) = Glue(l, Glue(e, x)) /\ Hand(q, deck) = Glue(l, e)
    BY <1>8, <1>9, <1>12, <2>2
  <2>5. QED
    BY <2>3, <2>4
<1>13. ASSUME b, m.code = "ADD_PLI" PROVE Pile(t, plis) = Glue(Pile(q, plis), x)
  <2> PICK e : e = CardsIn(q, "ADD_PLI")
    OBVIOUS
  <2>1. p \in CardSeq /\ e \in CardSeq /\ x \in CardSeq
    BY <1>2, <1>7, <1>13
  <2>2. Glue(Glue(p, e), x) = Glue(p, Glue(e, x))
    BY <2>1, GlueLaws
  <2>5. CardsIn(t, "ADD_PLI") = Glue(e, x)
    BY <1>2, <1>13
  <2>3. Pile(t, plis) = Glue(p, Glue(e, x)) /\ Pile(q, plis) = Glue(p, e)
    BY <1>8, <1>9, <1>13, <2>5
  <2>4. QED
    BY <2>2, <2>3
<1>14. ASSUME b, m.code = "INIT_DECK", Count(q, "INIT_DECK") = 0, Count(q, "ECARTS") = 0
       PROVE  Hand(t, deck) = x /\ Pile(t, plis) = CardsIn(q, "ADD_PLI")
  <2>1. Count(t, "INIT_DECK") = 1
    <3>1. Count(t, "INIT_DECK") = 0 + (IF b /\ m.code = "INIT_DECK" THEN 1 ELSE 0)
      BY <1>3, <1>14
    <3>2. (IF b /\ m.code = "INIT_DECK" THEN 1 ELSE 0) = 1
      BY <1>14, Zenon
    <3>3. QED
      BY <3>1, <3>2
  <2>2. CardsIn(q, "INIT_DECK") = <<>> /\ CardsIn(q, "ECARTS") = <<>>
    BY <1>1, <1>14, CardsInNone
  <2>3. x \in CardSeq
    BY <1>14
  <2>4. Glue(<<>>, x) = x /\ Glue(x, <<>>) = x
    BY <2>3, GlueNothing
  <2>5. /\ CardsIn(t, "INIT_DECK") = x /\ CardsIn(t, "ECARTS") = <<>>
        /\ CardsIn(t, "ADD_PLI") = CardsIn(q, "ADD_PLI") /\ CardsIn(q, "ADD_PLI") \in CardSeq
    BY <1>2, <1>14, <2>2, <2>4
  <2>6. Glue(<<>>, CardsIn(q, "ADD_PLI")) = CardsIn(q, "ADD_PLI")
    BY <2>5, GlueNothing
  <2>7. QED
    BY <2>1, <2>4, <2>5, <2>6 DEF Hand, Pile
<1>15. QED
  BY <1>5, <1>10, <1>11, <1>12, <1>13, <1>14

\* The same, in the form in which it is used.
Bears(b, m) == b /\ m.code \in {"INIT_DECK", "ECARTS", "ADD_PLI"} => CardsOf(m) \in CardSeq

Shipped(t, q, b, m, deck, plis) ==
  /\ ShipsOut(t) /\ t = Push(q, b, m)
  /\ m.code \notin {"INIT_DECK", "ECARTS"} => Hand(t, deck) = Hand(q, deck)
  /\ b /\ m.code = "ECARTS" => Hand(t, deck) = Glue(Hand(q, deck), CardsOf(m))
  /\ ~b => Hand(t, deck) = Hand(q, deck) /\ Pile(t, plis) = Pile(q, plis)
  /\ m.code \notin {"INIT_DECK", "ADD_PLI"} => Pile(t, plis) = Pile(q, plis)
  /\ b /\ m.code = "ADD_PLI" => Pile(t, plis) = Glue(Pile(q, plis), CardsOf(m))
  /\ b /\ m.code = "INIT_DECK" /\ Count(q, "INIT_DECK") = 0 /\ Count(q, "ECARTS") = 0
       => Hand(t, deck) = CardsOf(m) /\ Pile(t, plis) = CardsIn(q, "ADD_PLI")
  /\ \A y : Count(t, y) = Count(q, y) + (IF b /\ m.code = y THEN 1 ELSE 0)

LEMMA Shipping ==
  ASSUME NEW q, ShipsOut(q), NEW b \in BOOLEAN, NEW m, Bears(b, m),
         NEW deck \in CardSeq, NEW plis \in CardSeq, NEW t, t = Push(q, b, m)
  PROVE  Shipped(t, q, b, m, deck, plis)
<1>1. b /\ m.code \in {"INIT_DECK", "ECARTS", "ADD_PLI"} => CardsOf(m) \in CardSeq
  BY DEF Bears
<1>2. \A y : Count(Push(q, b, m), y) = Count(q, y) + (IF b /\ m.code = y THEN 1 ELSE 0)
  BY PushFacts DEF ShipsOut
<1>3. /\ ShipsOut(Push(q, b, m))
      /\ m.code \notin {"INIT_DECK", "ECARTS"} => Hand(Push(q, b, m), deck) = Hand(q, deck)
      /\ b /\ m.code = "ECARTS" => Hand(Push(q, b, m), deck) = Glue(Hand(q, deck), CardsOf(m))
      /\ ~b => Hand(Push(q, b, m), deck) = Hand(q, deck) /\ Pile(Push(q, b, m), plis) = Pile(q, plis)
      /\ m.code \notin {"INIT_DECK", "ADD_PLI"} => Pile(Push(q, b, m), plis) = Pile(q, plis)
      /\ b /\ m.code = "ADD_PLI" => Pile(Push(q, b, m), plis) = Glue(Pile(q, plis), CardsOf(m))
      /\ b /\ m.code = "INIT_DECK" /\ Count(q, "INIT_DECK") = 0 /\ Count(q, "ECARTS") = 0
           => /\ Hand(Push(q, b, m), deck) = CardsOf(m)
              /\ Pile(Push(q, b, m), plis) = CardsIn(q, "ADD_PLI")
  BY <1>1, PushRoles
<1>4. QED
  BY <1>2, <1>3 DEF Shipped

\* What the server takes out of a queue.
LEMMA HeardCards ==
  ASSUME UInv, TInv, NEW i, NEW code, NEW m, Hearing(i, code, m), NEW c \in Clients
  PROVE  /\ code # "ECART" \/ c # Player(i) => EcartIn(toServer'[c]) = EcartIn(toServer[c])
         /\ code # "PLAY_CARD" \/ c # Player(i)
              => CardsIn(toServer'[c], "PLAY_CARD") = CardsIn(toServer[c], "PLAY_CARD")
         /\ c = Player(i) /\ code = "ECART" /\ Count(toServer[c], "ECART") = 1
              => /\ EcartIn(toServer[c]) = m.deck /\ EcartIn(toServer'[c]) = <<>>
                 /\ m.deck \in CardSeq
         /\ c = Player(i) /\ code = "PLAY_CARD" /\ Count(toServer[c], "PLAY_CARD") = 1
              => /\ CardsIn(toServer[c], "PLAY_CARD") = <<m.played.card>>
                 /\ CardsIn(toServer'[c], "PLAY_CARD") = <<>> /\ <<m.played.card>> \in CardSeq
<1> PICK d : d = Player(i)
  OBVIOUS
<1> PICK q : q = toServer[d]
  OBVIOUS
<1>1. /\ q # <<>> /\ Head(q) = m /\ m.code = code /\ d \in Clients
      /\ toServer'[d] = Tail(q) /\ \A e \in Clients : e # d => toServer'[e] = toServer[e]
  BY DEF Hearing
<1>2. ShipsIn(q)
  BY <1>1, Ships
<1>3. CASE c # d
  BY <1>1, <1>3
<1>4. CASE c = d
  <2>1. code # "ECART" => CardsIn(Tail(q), "ECART") = CardsIn(q, "ECART")
    BY <1>1, <1>2, CardsBehind DEF ShipsIn
  <2>2. code # "PLAY_CARD" => CardsIn(Tail(q), "PLAY_CARD") = CardsIn(q, "PLAY_CARD")
    BY <1>1, <1>2, CardsBehind DEF ShipsIn
  <2>3. code = "ECART" /\ Count(q, "ECART") = 1
          => /\ CardsIn(q, "ECART") = CardsOf(m) /\ CardsOf(m) \in CardSeq
             /\ CardsIn(Tail(q), "ECART") = <<>>
    BY <1>1, <1>2, CardsInOne DEF ShipsIn
  <2>4. code = "PLAY_CARD" /\ Count(q, "PLAY_CARD") = 1
          => /\ CardsIn(q, "PLAY_CARD") = CardsOf(m) /\ CardsOf(m) \in CardSeq
             /\ CardsIn(Tail(q), "PLAY_CARD") = <<>>
    BY <1>1, <1>2, CardsInOne DEF ShipsIn
  <2>5. CardsOf(m) = IF code = "PLAY_CARD" THEN <<m.played.card>> ELSE m.deck
    BY <1>1 DEF CardsOf
  <2>6. QED
    BY <1>1, <1>4, <2>1, <2>2, <2>3, <2>4, <2>5 DEF EcartIn
<1>5. QED
  BY <1>3, <1>4

\* The ecart that the server takes out of a queue.
LEMMA HeardEcart ==
  ASSUME UInv, TInv, NEW i, NEW m, Hearing(i, "ECART", m), Player(i) \in Clients,
         Count(toServer[Player(i)], "ECART") = 1
  PROVE  /\ EcartIn(toServer[Player(i)]) = m.deck /\ EcartIn(toServer'[Player(i)]) = <<>>
         /\ m.deck \in CardSeq
<1> PICK q : q = toServer[Player(i)]
  OBVIOUS
<1> PICK code : code = "ECART"
  OBVIOUS
<1>1. /\ q # <<>> /\ Head(q) = m /\ m.code = code /\ toServer'[Player(i)] = Tail(q)
  BY DEF Hearing
<1>2. ShipsIn(q)
  BY Ships
<1>3. Count(q, code) = 1
  OBVIOUS
<1>4. CardsIn(q, code) = CardsOf(m) /\ CardsOf(m) \in CardSeq /\ CardsIn(Tail(q), code) = <<>>
  BY <1>1, <1>2, <1>3, CardsInOne DEF ShipsIn
<1>5. CardsOf(m) = m.deck
  BY <1>1 DEF CardsOf
<1>6. QED
  BY <1>1, <1>4, <1>5 DEF EcartIn

LEMMA HeardNoCard ==
  ASSUME UInv, TInv, NEW i, NEW code, NEW m, Hearing(i, code, m), NEW c \in Clients,
         code # "PLAY_CARD"
  PROVE  CardsIn(toServer'[c], "PLAY_CARD") = CardsIn(toServer[c], "PLAY_CARD")
<1> PICK q : q = toServer[Player(i)]
  OBVIOUS
<1>1. /\ q # <<>> /\ Head(q).code = code
      /\ toServer'[c] = IF c = Player(i) THEN Tail(q) ELSE toServer[c]
  BY DEF Hearing
<1>2. CASE c = Player(i)
  <2>1. ShipsIn(q)
    BY <1>2, Ships
  <2>2. CardsIn(Tail(q), "PLAY_CARD") = CardsIn(q, "PLAY_CARD")
    BY <1>1, <2>1, CardsBehind DEF ShipsIn
  <2>3. QED
    BY <1>1, <1>2, <2>2
<1>3. QED
  BY <1>1, <1>2

-----------------------------------------------------------------------------
(* What a player owns: the steps of the server that move no card.          *)

StillAndChosen(c) == /\ Still(c) /\ (Chosen(c)' <=> Chosen(c))
                     /\ Count(toServer'[c], "PLAY_CARD") = Count(toServer[c], "PLAY_CARD")

\* Nothing is dealt, sent back or announced as a trick.
LEMMA PlainPush ==
  ASSUME UInv, TInv, NEW c \in Clients, cl' = cl, NEW b \in BOOLEAN, NEW m,
         m.code \notin {"INIT_DECK", "ECARTS", "ADD_PLI"}, toClient'[c] = Push(toClient[c], b, m)
  PROVE  SameHand(c) /\ SamePile(c) /\ (Chosen(c)' <=> Chosen(c))
<1> PICK q : q = toClient[c]
  OBVIOUS
<1> PICK deck : deck = cl[c].deck
  OBVIOUS
<1> PICK plis : plis = cl[c].plis
  OBVIOUS
<1>1. ShipsOut(q) /\ deck \in CardSeq /\ plis \in CardSeq
  BY Ships
<1>2. b /\ m.code \in {"INIT_DECK", "ECARTS", "ADD_PLI"} => CardsOf(m) \in CardSeq
  OBVIOUS
<1>3. /\ m.code \notin {"INIT_DECK", "ECARTS"} => Hand(Push(q, b, m), deck) = Hand(q, deck)
      /\ m.code \notin {"INIT_DECK", "ADD_PLI"} => Pile(Push(q, b, m), plis) = Pile(q, plis)
  BY <1>1, <1>2, PushRoles
<1>4. Hand(toClient'[c], deck) = Hand(q, deck) /\ Pile(toClient'[c], plis) = Pile(q, plis)
  BY <1>3
<1>5. SameHand(c) /\ SamePile(c)
  BY <1>4, RolesAre, RolesWillBe DEF SameHand, SamePile
<1>6. Count(toClient'[c], "INIT_DECK") = Count(q, "INIT_DECK")
  <2>1. Count(Push(q, b, m), "INIT_DECK") = Count(q, "INIT_DECK") + (IF b /\ m.code = "INIT_DECK" THEN 1 ELSE 0)
    BY <1>1, PushFacts DEF ShipsOut
  <2>2. Count(q, "INIT_DECK") \in Nat
    BY <1>1 DEF ShipsOut
  <2>3. QED
    BY <2>1, <2>2
<1>7. QED
  BY <1>5, <1>6, RolesAre, RolesWillBe DEF Chosen, At

LEMMA SilentPush ==
  ASSUME UInv, TInv, NEW c \in Clients, cl' = cl, toClient'[c] = toClient[c]
  PROVE  SameHand(c) /\ SamePile(c) /\ (Chosen(c)' <=> Chosen(c))
<1>1. toClient'[c] = Push(toClient[c], FALSE, Ask)
  BY DEF Push
<1>2. Ask.code \notin {"INIT_DECK", "ECARTS", "ADD_PLI"}
  BY DEF Ask
<1>3. QED
  BY <1>1, <1>2, PlainPush

LEMMA GivenStays ==
  ASSUME SameSeats, SameEcarts, hist'.given = hist.given, NEW c \in Playing
  PROVE  Given(c)' = Given(c)
  BY DEF SameSeats, SameEcarts, Given

\* A message that is neither an ecart nor a card is taken.
LEMMA HearsOther ==
  ASSUME UInv, TInv, SameTable, SameEcarts, hist'.given = hist.given,
         NEW i, NEW code, NEW m, Hearing(i, code, m), code \notin {"ECART", "PLAY_CARD"},
         NEW c \in Clients, c \in Playing
  PROVE  SameEcart(c) /\ SamePlay(c)
         /\ Count(toServer'[c], "PLAY_CARD") = Count(toServer[c], "PLAY_CARD")
<1>1. /\ EcartIn(toServer'[c]) = EcartIn(toServer[c])
      /\ CardsIn(toServer'[c], "PLAY_CARD") = CardsIn(toServer[c], "PLAY_CARD")
  BY HeardCards
<1>2. Given(c)' = Given(c)
  BY GivenStays DEF SameTable
<1>3. SameEcart(c) /\ SamePlay(c)
  BY <1>1, <1>2, RolesAre, RolesWillBe DEF SameEcart, SamePlay
<1>4. QED
  BY <1>3, HeardCounts

LEMMA HearsNothing ==
  ASSUME SameSeats, SameEcarts, hist'.given = hist.given, NEW c \in Playing,
         toServer'[c] = toServer[c]
  PROVE  SameEcart(c) /\ SamePlay(c)
         /\ Count(toServer'[c], "PLAY_CARD") = Count(toServer[c], "PLAY_CARD")
<1>1. Given(c)' = Given(c)
  BY GivenStays
<1>2. QED
  BY <1>1, RolesAre, RolesWillBe DEF SameEcart, SamePlay

\* An ecart that is taken is still the ecart of the player.
LEMMA EcartTaken ==
  ASSUME UInv, Seated, TInv, RInv, NEW i \in Present, GetsEcart(i), NEW c \in Clients, c \in Playing
  PROVE  SameEcart(c) /\ SamePlay(c)
         /\ Count(toServer'[c], "PLAY_CARD") = Count(toServer[c], "PLAY_CARD")
<1>1. PICK m : /\ Hearing(i, "ECART", m)
               /\ srv'.ecarts_received = [srv.ecarts_received EXCEPT ![i] = m.deck]
  BY DEF GetsEcart
<1>2. /\ srv'.one_ecart_received = TRUE /\ hist'.given = hist.given \cup {i} /\ SameTable
  BY DEF GetsEcart
<1>3. InEcarts /\ i \notin hist.given
  BY <1>1, GivenInEcarts
<1>4. SeatOf(c)' = SeatOf(c) /\ SeatOf(c) \in Present /\ Player(SeatOf(c)) = c /\ SeatOf(c) \in Seats
      /\ i \in Seats /\ SeatOf(Player(i)) = i
  BY <1>2, SeatFacts DEF SameTable, SameSeats, UInv
<1>5. srv.ecarts_received \in [Seats -> CardSeq]
  BY DEF TInv, ServerTypes
<1>6. SamePlay(c)
  <2>1. CardsIn(toServer'[c], "PLAY_CARD") = CardsIn(toServer[c], "PLAY_CARD")
    BY <1>1, HeardNoCard
  <2>2. QED
    BY <2>1, RolesAre, RolesWillBe DEF SamePlay
<1>7. Count(toServer'[c], "PLAY_CARD") = Count(toServer[c], "PLAY_CARD")
  BY <1>1, HeardCounts
<1>8. ASSUME c # Player(i) PROVE SameEcart(c)
  <2>1. EcartIn(toServer'[c]) = EcartIn(toServer[c])
    BY <1>1, <1>8, HeardCards
  <2>2. SeatOf(c) # i
    BY <1>4, <1>8
  <2>3. srv'.ecarts_received[SeatOf(c)] = srv.ecarts_received[SeatOf(c)]
    BY <1>1, <1>4, <1>5, <2>2
  <2>4. SeatOf(c) \in hist.given => srv.one_ecart_received
    BY <1>3 DEF UInv, Phases
  <2>5. Given(c)' = Given(c)
    BY <1>2, <1>4, <2>2, <2>3, <2>4 DEF Given
  <2>6. QED
    BY <2>1, <2>5, RolesAre, RolesWillBe DEF SameEcart
<1>9. ASSUME c = Player(i) PROVE SameEcart(c)
  <2>1. Count(toServer[c], "ECART") = 1
    <3>1. Count(toServer'[c], "ECART") \in Nat
             /\ Count(toServer[c], "ECART") = Count(toServer'[c], "ECART") + 1
      BY <1>1, <1>9, HeardCounts
    <3>2. Count(toServer[c], "ECART") # 0
      BY <3>1
    <3>3. QED
      BY <3>2, BeforeEcart
  <2>2. EcartIn(toServer[c]) = m.deck /\ EcartIn(toServer'[c]) = <<>> /\ m.deck \in CardSeq
    BY <1>1, <1>4, <1>9, <2>1, HeardEcart
  <2>3. SeatOf(c) = i
    BY <1>4, <1>9
  <2>4. Given(c) = <<>>
    BY <1>3, <2>3 DEF Given
  <2>5. srv'.ecarts_received[i] = m.deck
    BY <1>1, <1>4, <1>5
  <2>6. Given(c)' = m.deck
    BY <1>2, <1>4, <2>3, <2>5 DEF Given
  <2> PICK x : x = m.deck
    OBVIOUS
  <2>7. Glue(x, <<>>) = x /\ Glue(<<>>, x) = x
    BY <2>2, GlueNothing
  <2>8. EcartOf(c) = Glue(x, <<>>) /\ EcartOf(c)' = Glue(<<>>, x)
    BY <2>2, <2>4, <2>6, RolesAre, RolesWillBe
  <2>9. QED
    BY <2>7, <2>8 DEF SameEcart
<1>10. QED
  BY <1>6, <1>7, <1>8, <1>9

QuietStep == \/ Idles
             \/ \E i \in Present : SignsUp(i) \/ Informs(i) \/ GetsEcart(i) \/ CountsScore(i)
             \/ \E d \in Clients : Refuses(d)

LEMMA QuietRoles ==
  ASSUME UInv, Seated, TInv, RInv, QuietStep, NEW c \in Clients, c \in Playing
  PROVE  StillAndChosen(c)
<1>1. CASE Idles
  <2>1. SameHand(c) /\ SamePile(c) /\ (Chosen(c)' <=> Chosen(c))
    BY <1>1, SilentPush DEF Idles, SaysNone, SameTable
  <2>2. SameEcart(c) /\ SamePlay(c)
        /\ Count(toServer'[c], "PLAY_CARD") = Count(toServer[c], "PLAY_CARD")
    BY <1>1, HearsNothing DEF Idles, HearsNone, SameTable
  <2>3. QED
    BY <2>1, <2>2 DEF StillAndChosen, Still
<1>2. ASSUME NEW i \in Present, SignsUp(i) \/ CountsScore(i) PROVE StillAndChosen(c)
  <2>1. SameHand(c) /\ SamePile(c) /\ (Chosen(c)' <=> Chosen(c))
    BY <1>2, SilentPush DEF SignsUp, CountsScore, SaysNone, SameTable
  <2>2. PICK code \in {"ADD_PLAYER", "UPDATE_SCORE"} : \E m : Hearing(i, code, m)
    BY <1>2 DEF SignsUp, CountsScore
  <2>3. PICK m : Hearing(i, code, m)
    BY <2>2
  <2>4. SameTable /\ SameEcarts /\ hist'.given = hist.given
    BY <1>2 DEF SignsUp, CountsScore
  <2>5. SameEcart(c) /\ SamePlay(c)
        /\ Count(toServer'[c], "PLAY_CARD") = Count(toServer[c], "PLAY_CARD")
    BY <2>2, <2>3, <2>4, HearsOther
  <2>6. QED
    BY <2>1, <2>5 DEF StillAndChosen, Still
<1>3. ASSUME NEW i \in Present, Informs(i) PROVE StillAndChosen(c)
  <2>1. PICK cond \in BOOLEAN : \E m :
          /\ m.code = "BASIC_INFO"
          /\ \A d \in Clients : toClient'[d] = Push(toClient[d], cond /\ d = Player(i), m)
    BY <1>3 DEF Informs
  <2>2. PICK m : /\ m.code = "BASIC_INFO"
                 /\ \A d \in Clients : toClient'[d] = Push(toClient[d], cond /\ d = Player(i), m)
    BY <2>1
  <2>3. PICK b \in BOOLEAN : b <=> (cond /\ c = Player(i))
    OBVIOUS
  <2>4. toClient'[c] = Push(toClient[c], b, m)
    BY <2>2, <2>3 DEF Push
  <2>5. SameHand(c) /\ SamePile(c) /\ (Chosen(c)' <=> Chosen(c))
    BY <1>3, <2>2, <2>4, PlainPush DEF Informs, SameTable
  <2>6. PICK h : Hearing(i, "ASK_BASIC_INFO", h)
    BY <1>3 DEF Informs
  <2>7. SameTable /\ SameEcarts /\ hist'.given = hist.given
    BY <1>3 DEF Informs
  <2>8. SameEcart(c) /\ SamePlay(c)
        /\ Count(toServer'[c], "PLAY_CARD") = Count(toServer[c], "PLAY_CARD")
    BY <2>6, <2>7, HearsOther
  <2>9. QED
    BY <2>5, <2>8 DEF StillAndChosen, Still
<1>4. ASSUME NEW i \in Present, GetsEcart(i) PROVE StillAndChosen(c)
  <2>1. SameHand(c) /\ SamePile(c) /\ (Chosen(c)' <=> Chosen(c))
    BY <1>4, SilentPush DEF GetsEcart, SaysNone, SameTable
  <2>2. SameEcart(c) /\ SamePlay(c)
        /\ Count(toServer'[c], "PLAY_CARD") = Count(toServer[c], "PLAY_CARD")
    BY <1>4, EcartTaken
  <2>3. QED
    BY <2>1, <2>2 DEF StillAndChosen, Still
<1>5. ASSUME NEW d \in Clients, Refuses(d) PROVE StillAndChosen(c)
  <2>1. PICK m : FirstWord(d, m)
    BY <1>5 DEF Refuses
  <2>2. /\ c # d /\ toClient'[c] = toClient[c] /\ toServer'[c] = toServer[c]
        /\ cl' = cl /\ srv' = srv /\ hist' = hist /\ SameSeats
    BY <1>5, <2>1 DEF FirstWord, Refuses, HearsNone
  <2>3. SameHand(c) /\ SamePile(c) /\ (Chosen(c)' <=> Chosen(c))
    BY <2>2, SilentPush
  <2>4. SameEcart(c) /\ SamePlay(c)
        /\ Count(toServer'[c], "PLAY_CARD") = Count(toServer[c], "PLAY_CARD")
    BY <2>2, HearsNothing DEF SameEcarts
  <2>5. QED
    BY <2>3, <2>4 DEF StillAndChosen, Still
<1>6. QED
  BY <1>1, <1>2, <1>3, <1>4, <1>5 DEF QuietStep

-----------------------------------------------------------------------------
(* What a player owns: the deal and the ecarts that are sent back.         *)

\* Who has given its ecart has chosen it, and the server holds it.
LEMMA EcartHeld ==
  ASSUME UInv, Seated, TInv, RInv, InEcarts, NEW c \in Clients, c \in Playing,
         SeatOf(c) \in hist.given
  PROVE  /\ Chosen(c) /\ EcartIn(toServer[c]) = <<>> /\ EcartOf(c) = srv.ecarts_received[SeatOf(c)]
         /\ Count(toClient[c], "INIT_DECK") = 0
<1>1. /\ EcartDue(c) = 0
  BY DEF UInv, ClientInv, Duties, OwesEcart
<1>2. Count(toClient[c], "INIT_DECK") \in Nat /\ Count(toServer[c], "ECART") \in Nat
  BY QueuesOf, KindFinite
<1>3. Count(toClient[c], "INIT_DECK") = 0 /\ ~At(c, "ecart") /\ Count(toServer[c], "ECART") = 0
  BY <1>1, <1>2 DEF EcartDue
<1>4. EcartIn(toServer[c]) = <<>>
  BY <1>3, Ships, CardsInNone DEF ShipsIn, EcartIn
<1>5. srv.one_ecart_received
  BY DEF UInv, Phases
<1> PICK x : x = srv.ecarts_received[SeatOf(c)]
  OBVIOUS
<1>6. Given(c) = x
  BY <1>5 DEF Given
<1>7. x \in CardSeq
  BY SeatFacts DEF TInv, ServerTypes, UInv
<1>8. EcartOf(c) = Glue(<<>>, x)
  BY <1>4, <1>6, RolesAre
<1>9. EcartOf(c) = x
  BY <1>7, <1>8, GlueNothing
<1>10. QED
  BY <1>3, <1>4, <1>9, RolesAre DEF Chosen

\* Nobody has a card on its way before the tricks.
LEMMA NoCardYet ==
  ASSUME UInv, TInv, ~InTricks, NEW c \in Clients
  PROVE  Count(toServer[c], "PLAY_CARD") = 0 /\ PlayedBy(c) = <<>>
<1>1. Turns(c) = 0
  BY DEF UInv, ClientInv, Duties, HasTurn
<1>2. Count(toServer[c], "PLAY_CARD") \in Nat /\ Count(toClient[c], "ASK_FOR_CARD") \in Nat
  BY QueuesOf, KindFinite
<1>3. Count(toServer[c], "PLAY_CARD") = 0
  BY <1>1, <1>2 DEF Turns
<1>4. QED
  BY <1>3, Ships, CardsInNone DEF ShipsIn, PlayedBy

LEMMA GiverSits ==
  ASSUME UInv, Seated, NEW c \in Playing
  PROVE  /\ Giver(c) \in Present /\ Player(Giver(c)) \in Clients /\ Player(Giver(c)) \in Playing
         /\ SeatOf(Player(Giver(c))) = Giver(c)
<1> PICK n : n = amount_players
  OBVIOUS
<1> PICK s : s = SeatOf(c)
  OBVIOUS
<1>1. n \in Nat /\ Present = 0..n - 1 /\ s \in Present
  BY SeatFacts DEF UInv
<1>2. n \in Nat \ {0} /\ s + n - 1 \in Nat
  BY <1>1
<1>3. (s + n - 1) % n \in 0..n - 1
  BY <1>2
<1>4. Giver(c) \in Present
  BY <1>1, <1>3 DEF Giver
<1>5. QED
  BY <1>4, SeatFacts DEF UInv

LEMMA BackRoles ==
  ASSUME UInv, Seated, TInv, RInv, SendsBack, NEW c \in Clients, c \in Playing,
         NEW d, d = Player(Giver(c))
  PROVE  /\ HandOf(c)' = Glue(HandOf(c), EcartOf(d)) /\ EcartOf(c)' = <<>>
         /\ SamePlay(c) /\ SamePile(c) /\ PlayedBy(c) = <<>>
         /\ Count(toServer'[c], "PLAY_CARD") = 0 /\ Chosen(c)
<1> PICK q : q = toClient[c]
  OBVIOUS
<1> PICK m : m = Return(c)
  OBVIOUS
<1> PICK b \in BOOLEAN : b <=> c = Player(0)
  OBVIOUS
<1>1. /\ SameTable /\ InEcarts /\ hist.given = Present /\ cl' = cl
      /\ toServer'[c] = toServer[c] /\ srv'.one_ecart_received = FALSE
      /\ ~InTricks
  BY DEF SendsBack, SameTable, HearsNone, InEcarts
<1> PICK yes \in BOOLEAN : yes
  OBVIOUS
<1> PICK a : a = Ask
  OBVIOUS
<1> PICK t : t = Push(q, yes, m)
  OBVIOUS
<1> PICK r : r = Push(t, b, a)
  OBVIOUS
<1>2. toClient'[c] = r
  BY DEF SendsBack, Push
<1>3. SeatOf(c) \in hist.given /\ d \in Clients /\ d \in Playing /\ SeatOf(d) = Giver(c)
      /\ Giver(c) \in hist.given
  BY <1>1, SeatFacts, GiverSits DEF UInv
<1>4. /\ Chosen(c) /\ EcartIn(toServer[c]) = <<>> /\ Count(q, "INIT_DECK") = 0
  BY <1>1, <1>3, EcartHeld
<1>5. EcartOf(d) = srv.ecarts_received[Giver(c)]
  BY <1>1, <1>3, EcartHeld
<1>6. m.code = "ECARTS" /\ CardsOf(m) = EcartOf(d) /\ CardsOf(m) \in CardSeq
  <2>1. m.code = "ECARTS" /\ m.deck = EcartOf(d)
    BY <1>5 DEF Return
  <2>2. EcartOf(d) \in CardSeq
    BY <1>3, RolesSeq
  <2>3. QED
    BY <2>1, <2>2 DEF CardsOf
<1> PICK deck : deck = cl[c].deck
  OBVIOUS
<1> PICK plis : plis = cl[c].plis
  OBVIOUS
<1>7. ShipsOut(q) /\ deck \in CardSeq /\ plis \in CardSeq
  BY Ships
<1>8. Shipped(t, q, yes, m, deck, plis)
  BY <1>6, <1>7, Shipping DEF Bears
<1>9. Shipped(r, t, b, a, deck, plis)
  <2>1. ShipsOut(t)
    BY <1>8 DEF Shipped
  <2>2. Bears(b, a)
    BY DEF Bears, Ask
  <2>3. QED
    BY <1>7, <2>1, <2>2, Shipping
<1>10. HandOf(c)' = Glue(HandOf(c), EcartOf(d)) /\ SamePile(c)
  <2>1. a.code = "ASK_FOR_CARD"
    BY DEF Ask
  <2>2. Hand(t, deck) = Glue(Hand(q, deck), CardsOf(m)) /\ Pile(t, plis) = Pile(q, plis)
    BY <1>6, <1>8 DEF Shipped
  <2>3. Hand(r, deck) = Hand(t, deck) /\ Pile(r, plis) = Pile(t, plis)
    BY <1>9, <2>1 DEF Shipped
  <2>4. QED
    BY <1>1, <1>2, <1>6, <2>2, <2>3, RolesAre, RolesWillBe DEF SamePile
<1>11. EcartOf(c)' = <<>>
  <2>1. EcartIn(toServer'[c]) = <<>> /\ Given(c)' = <<>>
    BY <1>1, <1>4 DEF Given
  <2>2. EcartOf(c)' = Glue(<<>>, <<>>)
    BY <2>1, RolesWillBe
  <2>3. QED
    BY <2>2, GlueNothing
<1>12. Count(toServer[c], "PLAY_CARD") = 0 /\ PlayedBy(c) = <<>>
  BY <1>1, NoCardYet
<1>13. SamePlay(c)
  BY <1>1, RolesAre, RolesWillBe DEF SamePlay
<1>14. QED
  BY <1>1, <1>4, <1>10, <1>11, <1>12, <1>13

\* A deal replaces what everybody had.
LEMMA DealRoles ==
  ASSUME UInv, Seated, TInv, RInv, NEW perm \in Shuffles, NEW papayoo, Deals(perm, papayoo),
         NEW c \in Clients, c \in Playing
  PROVE  /\ HandOf(c)' = Dealt(Shuffled(perm), amount_players, SeatOf(c))
         /\ EcartOf(c)' = <<>> /\ PlayedBy(c)' = <<>> /\ PileOf(c)' = <<>> /\ ~Chosen(c)'
         /\ PileOf(c) = <<>>
<1> PICK q : q = toClient[c]
  OBVIOUS
<1> PICK info : info = DealsInfo(c, papayoo)
  OBVIOUS
<1> PICK m : m = DealsDeck(c, perm)
  OBVIOUS
<1> PICK x : x = Dealt(Shuffled(perm), amount_players, SeatOf(c))
  OBVIOUS
<1>1. /\ SameTable /\ ~InEcarts /\ ~InTricks /\ cl' = cl
      /\ toServer'[c] = toServer[c] /\ SameEcarts /\ hist'.given = {}
  BY DEF Deals, SameTable, HearsNone
<1>y. PICK yes \in BOOLEAN : yes
  OBVIOUS
<1> PICK t : t = Push(q, yes, info)
  OBVIOUS
<1> PICK r : r = Push(t, yes, m)
  OBVIOUS
<1>2. toClient'[c] = r
  BY <1>y DEF Deals, Push
<1>3. x \in CardSeq
  <2>1. amount_players \in Nat \ {0} /\ SeatOf(c) \in 0..amount_players - 1
    BY SeatFacts DEF UInv
  <2>2. QED
    BY <2>1, DealtHands
<1>4. m.code = "INIT_DECK" /\ CardsOf(m) = x /\ info.code = "BASIC_INFO"
  BY DEF DealsDeck, DealsInfo, CardsOf
<1>5. ScoreDue(c) = 0 /\ NoPile(c)
  BY NothingDue
<1>6. cl[c].plis = <<>> /\ Count(q, "ADD_PLI") = 0 /\ Count(q, "ECARTS") = 0
  BY <1>1, <1>5 DEF RInv, Piles, Late
<1>7. Count(q, "INIT_DECK") = 0 /\ ~At(c, "ecart") /\ Count(toServer[c], "ECART") = 0
  BY <1>1, BeforeEcart
<1> PICK deck : deck = cl[c].deck
  OBVIOUS
<1> PICK plis : plis = cl[c].plis
  OBVIOUS
<1>8. ShipsOut(q) /\ deck \in CardSeq /\ plis \in CardSeq /\ ShipsIn(toServer[c])
  BY Ships
<1>9. /\ ShipsOut(t) /\ Count(t, "INIT_DECK") = 0 /\ Count(t, "ECARTS") = 0 /\ Count(t, "ADD_PLI") = 0
  <2>1. Shipped(t, q, yes, info, deck, plis)
    BY <1>4, <1>8, Shipping DEF Bears
  <2>2. ShipsOut(t) /\ \A y : Count(t, y) = Count(q, y) + (IF yes /\ info.code = y THEN 1 ELSE 0)
    BY <2>1 DEF Shipped
  <2>3. \A y \in {"INIT_DECK", "ECARTS", "ADD_PLI"} : Count(t, y) = Count(q, y)
    <3>1. ASSUME NEW y \in {"INIT_DECK", "ECARTS", "ADD_PLI"} PROVE Count(t, y) = Count(q, y)
      <4>1. info.code # y
        BY <1>4
      <4>2. Count(q, y) \in Nat
        BY <1>8 DEF ShipsOut
      <4>3. Count(t, y) = Count(q, y) + 0
        BY <2>2, <4>1
      <4>4. QED
        BY <4>2, <4>3
    <3>2. QED
      BY <3>1
  <2>4. QED
    BY <1>6, <1>7, <2>2, <2>3
<1>10. Hand(r, deck) = x /\ Pile(r, plis) = CardsIn(t, "ADD_PLI") /\ Count(r, "INIT_DECK") = 1
  <2>1. Shipped(r, t, yes, m, deck, plis)
    BY <1>3, <1>4, <1>8, <1>9, Shipping DEF Bears
  <2>2. Count(r, "INIT_DECK") = Count(t, "INIT_DECK") + (IF yes /\ m.code = "INIT_DECK" THEN 1 ELSE 0)
    BY <2>1 DEF Shipped
  <2>3. (IF yes /\ m.code = "INIT_DECK" THEN 1 ELSE 0) = 1
    BY <1>y, <1>4
  <2>4. Count(r, "INIT_DECK") = 1
    BY <1>9, <2>2, <2>3
  <2>5. Hand(r, deck) = CardsOf(m) /\ Pile(r, plis) = CardsIn(t, "ADD_PLI")
    BY <1>y, <1>4, <1>9, <2>1 DEF Shipped
  <2>6. QED
    BY <1>4, <2>4, <2>5
<1>11. CardsIn(t, "ADD_PLI") = <<>>
  BY <1>9, CardsInNone DEF ShipsOut
<1>12. HandOf(c)' = x /\ PileOf(c)' = <<>>
  BY <1>1, <1>2, <1>10, <1>11, RolesWillBe
<1>13. PlayedBy(c)' = <<>>
  BY <1>1, NoCardYet, RolesAre, RolesWillBe
<1>14. EcartOf(c)' = <<>>
  <2>1. EcartIn(toServer[c]) = <<>>
    BY <1>7, <1>8, CardsInNone DEF ShipsIn, EcartIn
  <2>2. Given(c)' = <<>>
    BY <1>1 DEF Given
  <2>3. EcartOf(c)' = Glue(<<>>, <<>>)
    BY <1>1, <2>1, <2>2, RolesWillBe
  <2>4. QED
    BY <2>3, GlueNothing
<1>15. ~Chosen(c)'
  <2>2. Count(toClient'[c], "INIT_DECK") = 1
    BY <1>2, <1>10
  <2>3. QED
    BY <2>2, RolesWillBe DEF Chosen
<1>16. PileOf(c) = <<>>
  BY <1>6, <1>7, <1>8, EmptyNote, RolesAre
<1>17. QED
  BY <1>12, <1>13, <1>14, <1>15, <1>16

-----------------------------------------------------------------------------
(* What a player owns: a card that reaches the board.                      *)

\* The turns of a trick come to n different players.
LEMMA TurnsDiffer ==
  ASSUME NEW n \in Nat, NEW s \in 0..n - 1, NEW j \in 0..n - 1, NEW k \in 0..n - 1,
         (s + j) % n = (s + k) % n
  PROVE  j = k
<1>1. \A x \in 0..n - 1 : x % n = x
  OBVIOUS
<1>2. \A x \in n..2 * n - 1 : x % n = x - n
  OBVIOUS
<1>3. ASSUME NEW x \in 0..n - 1
      PROVE  (s + x) % n = IF s + x < n THEN s + x ELSE s + x - n
  <2>1. CASE s + x < n
    BY <1>1, <2>1
  <2>2. CASE s + x >= n
    <3>1. s + x \in n..2 * n - 1
      BY <2>2
    <3>2. QED
      BY <1>2, <2>2, <3>1
  <2>3. QED
    BY <2>1, <2>2
<1>4. QED
  BY <1>3

\* The card is taken from the player who has the turn, and from nobody else.
LEMMA LaysRoles ==
  ASSUME UInv, Seated, TInv, RInv, NEW i, NEW m, LaysCard(i, m), NEW c \in Clients, c \in Playing
  PROVE  /\ SameEcart(c) /\ PlayedBy(c)' = <<>>
         /\ c = Player(i) => PlayedBy(c) = <<m.played.card>> /\ PlayedBy(c) \in CardSeq
         /\ c # Player(i) => PlayedBy(c) = <<>>
         /\ c = Player(i) => ~OnBoard(c)
<1>1. Hearing(i, "PLAY_CARD", m) /\ SameTable /\ SameEcarts /\ hist'.given = hist.given
  BY DEF LaysCard
<1>2. /\ c # Player(i) => Count(toServer[c], "PLAY_CARD") = 0
      /\ c = Player(i) => Count(toServer[c], "PLAY_CARD") = 1
      /\ i \in Present /\ InTricks
  BY CardArrives
<1>3. ShipsIn(toServer[c])
  BY Ships
<1>4. SameEcart(c)
  <2>1. EcartIn(toServer'[c]) = EcartIn(toServer[c])
    <3> PICK code : code = "PLAY_CARD"
      OBVIOUS
    <3>1. Hearing(i, code, m) /\ code # "ECART"
      BY <1>1
    <3>2. QED
      BY <3>1, HeardCards
  <2>2. Given(c)' = Given(c)
    BY <1>1, GivenStays DEF SameTable
  <2>3. QED
    BY <2>1, <2>2, RolesAre, RolesWillBe DEF SameEcart
<1>5. ASSUME c # Player(i) PROVE PlayedBy(c) = <<>> /\ PlayedBy(c)' = <<>>
  <2>1. toServer'[c] = toServer[c]
    BY <1>1, <1>5 DEF Hearing
  <2>2. CardsIn(toServer[c], "PLAY_CARD") = <<>>
    BY <1>2, <1>3, <1>5, CardsInNone DEF ShipsIn
  <2>3. QED
    BY <2>1, <2>2, RolesAre, RolesWillBe
<1>6. ASSUME c = Player(i)
      PROVE  PlayedBy(c) = <<m.played.card>> /\ PlayedBy(c) \in CardSeq /\ PlayedBy(c)' = <<>>
  <2>1. /\ CardsIn(toServer[c], "PLAY_CARD") = <<m.played.card>>
        /\ CardsIn(toServer'[c], "PLAY_CARD") = <<>> /\ <<m.played.card>> \in CardSeq
    BY <1>1, <1>2, <1>6, HeardCards
  <2>2. QED
    BY <2>1, RolesAre, RolesWillBe
<1>7. ASSUME c = Player(i), OnBoard(c) PROVE FALSE
  <2>1. PICK k \in 0..board.pli_size - 1 : board.pli[k].last_played = SeatOf(c)
    BY <1>7 DEF OnBoard
  <2>2. board.pli[k].last_played = (srv.current_player_turn + k) % amount_players
    BY <1>2 DEF RInv, Counters
  <2>3. /\ srv.current_player_turn \in 0..amount_players - 1
        /\ board.pli_size \in 0..amount_players - 1 /\ amount_players \in Nat
        /\ i = (srv.current_player_turn + board.pli_size) % amount_players
    BY CardArrives
  <2>4. SeatOf(c) = i
    BY <1>1, <1>7 DEF Hearing
  <2>5. k \in 0..amount_players - 1 /\ k # board.pli_size
    BY <2>3
  <2>6. QED
    BY <2>1, <2>2, <2>3, <2>4, <2>5, TurnsDiffer
<1>8. QED
  BY <1>4, <1>5, <1>6, <1>7

\* A message that carries no cards, and one that does.
LEMMA TwoPushes ==
  ASSUME UInv, TInv, NEW c \in Clients, cl' = cl,
         NEW p \in BOOLEAN, NEW a, a.code \notin {"INIT_DECK", "ECARTS"}, Bears(p, a),
         NEW b \in BOOLEAN, NEW e, e.code \notin {"INIT_DECK", "ECARTS", "ADD_PLI"},
         toClient'[c] = Push(Push(toClient[c], p, a), b, e)
  PROVE  /\ SameHand(c) /\ (Chosen(c)' <=> Chosen(c))
         /\ PileOf(c)' = IF p /\ a.code = "ADD_PLI" THEN Glue(PileOf(c), CardsOf(a)) ELSE PileOf(c)
<1> PICK q : q = toClient[c]
  OBVIOUS
<1> PICK t : t = Push(q, p, a)
  OBVIOUS
<1> PICK r : r = Push(t, b, e)
  OBVIOUS
<1> PICK deck : deck = cl[c].deck
  OBVIOUS
<1> PICK plis : plis = cl[c].plis
  OBVIOUS
<1>1. ShipsOut(q) /\ deck \in CardSeq /\ plis \in CardSeq
  BY Ships
<1>2. Shipped(t, q, p, a, deck, plis)
  BY <1>1, Shipping
<1>3. Shipped(r, t, b, e, deck, plis)
  <2>1. ShipsOut(t)
    BY <1>2 DEF Shipped
  <2>2. Bears(b, e)
    BY DEF Bears
  <2>3. QED
    BY <1>1, <2>1, <2>2, Shipping
<1>4. Hand(r, deck) = Hand(q, deck)
  BY <1>2, <1>3 DEF Shipped
<1>5. Pile(r, plis) = Pile(t, plis)
  BY <1>3 DEF Shipped
<1>6. Pile(t, plis) = IF p /\ a.code = "ADD_PLI" THEN Glue(Pile(q, plis), CardsOf(a)) ELSE Pile(q, plis)
  BY <1>2 DEF Shipped
<1>7. Count(r, "INIT_DECK") = Count(q, "INIT_DECK")
  <2>1. Count(t, "INIT_DECK") = Count(q, "INIT_DECK") + 0
    BY <1>2 DEF Shipped
  <2>2. Count(r, "INIT_DECK") = Count(t, "INIT_DECK") + 0
    BY <1>3 DEF Shipped
  <2>3. Count(q, "INIT_DECK") \in Nat
    BY <1>1 DEF ShipsOut
  <2>4. QED
    BY <2>1, <2>2, <2>3
<1>8. toClient'[c] = r
  OBVIOUS
<1>9. SameHand(c)
  BY <1>4, <1>8, RolesAre, RolesWillBe DEF SameHand
<1>10. Chosen(c)' <=> Chosen(c)
  BY <1>7, <1>8, RolesAre, RolesWillBe DEF Chosen, At
<1>11. QED
  BY <1>5, <1>6, <1>8, <1>9, <1>10, RolesAre, RolesWillBe

-----------------------------------------------------------------------------
LEMMA TrickGoesRoles ==
  ASSUME UInv, Seated, TInv, RInv, NEW i \in Present, TrickGoes(i), NEW c \in Clients, c \in Playing
  PROVE  /\ SameHand(c) /\ SameEcart(c) /\ SamePile(c) /\ (Chosen(c)' <=> Chosen(c))
         /\ PlayedBy(c)' = <<>>
         /\ Count(toServer'[c], "PLAY_CARD") = 0
         /\ Count(toServer[c], "PLAY_CARD") = IF c = Player(i) THEN 1 ELSE 0
         /\ OnBoard(c)' <=> OnBoard(c) \/ c = Player(i)
         /\ c = Player(i) => ~OnBoard(c)
<1>1. PICK m : LaysCard(i, m)
  BY DEF TrickGoes
<1>2. /\ SameEcart(c) /\ PlayedBy(c)' = <<>> /\ (c = Player(i) => ~OnBoard(c))
  BY <1>1, LaysRoles
<1>3. /\ Count(toServer'[c], "PLAY_CARD") = 0
      /\ Count(toServer[c], "PLAY_CARD") = IF c = Player(i) THEN 1 ELSE 0
  BY <1>1, CardArrives
<1>4. PICK next \in Present :
        toClient'[c] = Push(Push(toClient[c], c \in Playing, Msg("SHOW_PLI")), c = Player(next), Ask)
  BY DEF TrickGoes
<1>5. SameHand(c) /\ SamePile(c) /\ (Chosen(c)' <=> Chosen(c))
  <2> PICK p \in BOOLEAN : p <=> c \in Playing
    OBVIOUS
  <2> PICK b \in BOOLEAN : b <=> c = Player(next)
    OBVIOUS
  <2> PICK a : a = Msg("SHOW_PLI")
    OBVIOUS
  <2> PICK e : e = Ask
    OBVIOUS
  <2>1. a.code = "SHOW_PLI" /\ e.code = "ASK_FOR_CARD" /\ cl' = cl
    BY <1>1 DEF Msg, Ask, LaysCard, SameTable
  <2>2. toClient'[c] = Push(Push(toClient[c], p, a), b, e)
    BY <1>4 DEF Push
  <2>3. Bears(p, a)
    BY <2>1 DEF Bears
  <2>4. /\ SameHand(c) /\ (Chosen(c)' <=> Chosen(c))
        /\ PileOf(c)' = IF p /\ a.code = "ADD_PLI" THEN Glue(PileOf(c), CardsOf(a)) ELSE PileOf(c)
    BY <2>1, <2>2, <2>3, TwoPushes
  <2>5. QED
    BY <2>1, <2>4 DEF SamePile
<1>6. OnBoard(c)' <=> OnBoard(c) \/ c = Player(i)
  <2> PICK z : z = board.pli_size
    OBVIOUS
  <2>1. /\ z \in Nat /\ z \in Seats /\ board'.pli_size = z + 1 /\ SeatOf(c)' = SeatOf(c)
        /\ board'.pli = [board.pli EXCEPT ![z] = m.played] /\ m.played.last_played = i
        /\ board.pli \in [Seats -> PlayedCard]
        /\ z <= MAX_PLAYERS - 1
    BY <1>1, ServerAssumption DEF TrickGoes, LaysCard, SameTable, SameSeats, TInv, ServerTypes, Seats
  <2>2. \A k \in 0..z - 1 : board'.pli[k] = board.pli[k]
    <3>1. ASSUME NEW k \in 0..z - 1 PROVE board'.pli[k] = board.pli[k]
      <4>1. k \in Seats /\ k # z
        BY <2>1, ServerAssumption DEF Seats
      <4>2. QED
        BY <2>1, <4>1
    <3>2. QED
      BY <3>1
  <2>3. board'.pli[z].last_played = i
    BY <2>1
  <2>4. SeatOf(c) = i <=> c = Player(i)
    BY SeatFacts DEF UInv
  <2>5. \A k : k \in 0..z + 1 - 1 <=> k = z \/ k \in 0..z - 1
    BY <2>1
  <2>6. OnBoard(c)' <=> \E k \in 0..z + 1 - 1 : board'.pli[k].last_played = SeatOf(c)
    BY <2>1 DEF OnBoard
  <2>7. QED
    BY <2>2, <2>3, <2>4, <2>5, <2>6 DEF OnBoard
<1>7. QED
  BY <1>2, <1>3, <1>5, <1>6

-----------------------------------------------------------------------------
LEMMA TrickTakenRoles ==
  ASSUME UInv, Seated, TInv, RInv, NEW i \in Present, TrickTaken(i), NEW c \in Clients, c \in Playing
  PROVE  /\ SameEcart(c) /\ PlayedBy(c)' = <<>>
         /\ Count(toServer'[c], "PLAY_CARD") = 0
         /\ Count(toServer[c], "PLAY_CARD") = IF c = Player(i) THEN 1 ELSE 0
         /\ ~OnBoard(c)'
         /\ OnBoard(c) <=> c # Player(i)
         /\ Player(TrickLoser(i)) \in Playing /\ Player(TrickLoser(i)) \in Clients
         /\ SeatOf(Player(TrickLoser(i))) = TrickLoser(i)
         /\ cl' = cl
         /\ Trick(i).code = "ADD_PLI" /\ CardsOf(Trick(i)) = TrickCards(i)
         /\ TrickCards(i) \in CardSeq /\ \A p \in BOOLEAN : Bears(p, Trick(i))
<1>1. PICK m : LaysCard(i, m)
  BY DEF TrickTaken
<1>2. /\ SameEcart(c) /\ PlayedBy(c)' = <<>> /\ (c = Player(i) => ~OnBoard(c))
  BY <1>1, LaysRoles
<1>3. /\ Count(toServer'[c], "PLAY_CARD") = 0
      /\ Count(toServer[c], "PLAY_CARD") = IF c = Player(i) THEN 1 ELSE 0
  BY <1>1, CardArrives
<1>4. board.pli_size + 1 = amount_players /\ board'.pli_size = 0 /\ TrickLoser(i) \in Present
  BY DEF TrickTaken
<1>5. ~OnBoard(c)'
  <2>1. 0..0 - 1 = {}
    OBVIOUS
  <2>2. QED
    BY <1>4, <2>1 DEF OnBoard
<1>6. OnBoard(c) <=> c # Player(i)
  BY <1>1, <1>2, <1>4, AllPlayed
<1>7. /\ Player(TrickLoser(i)) \in Playing /\ Player(TrickLoser(i)) \in Clients
      /\ SeatOf(Player(TrickLoser(i))) = TrickLoser(i)
  BY <1>4, SeatFacts DEF UInv
<1>8. TrickCards(i) \in CardSeq
  BY <1>1, TrickTypes
<1>9. Trick(i).code = "ADD_PLI" /\ CardsOf(Trick(i)) = TrickCards(i)
  BY DEF Trick, CardsOf
<1>10. cl' = cl
  BY <1>1 DEF LaysCard, SameTable
<1>11. QED
  BY <1>2, <1>3, <1>5, <1>6, <1>7, <1>8, <1>9, <1>10 DEF Bears

\* The trick goes to the pile of its loser.
LEMMA TrickOverRoles ==
  ASSUME UInv, Seated, TInv, RInv, NEW i \in Present, TrickOver(i), NEW c \in Clients, c \in Playing
  PROVE  /\ SameHand(c) /\ (Chosen(c)' <=> Chosen(c))
         /\ PileOf(c)' = IF c = Player(TrickLoser(i)) THEN Glue(PileOf(c), TrickCards(i)) ELSE PileOf(c)
<1> PICK p \in BOOLEAN : p <=> c = Player(TrickLoser(i))
  OBVIOUS
<1> PICK a : a = Trick(i)
  OBVIOUS
<1> PICK e : e = Ask
  OBVIOUS
<1>1. /\ a.code = "ADD_PLI" /\ CardsOf(a) = TrickCards(i) /\ Bears(p, a) /\ cl' = cl
      /\ e.code = "ASK_FOR_CARD"
  BY TrickTakenRoles DEF TrickOver, Ask
<1>2. toClient'[c] = Push(Push(toClient[c], p, a), p, e)
  BY DEF TrickOver, Push
<1>3. /\ SameHand(c) /\ (Chosen(c)' <=> Chosen(c))
      /\ PileOf(c)' = IF p /\ a.code = "ADD_PLI" THEN Glue(PileOf(c), CardsOf(a)) ELSE PileOf(c)
  BY <1>1, <1>2, TwoPushes
<1>4. QED
  BY <1>1, <1>3

LEMMA RoundEndsRoles ==
  ASSUME UInv, Seated, TInv, RInv, NEW i \in Present, RoundEnds(i), ~Asleep',
         NEW c \in Clients, c \in Playing
  PROVE  /\ SameHand(c) /\ (Chosen(c)' <=> Chosen(c))
         /\ PileOf(c)' = IF c = Player(TrickLoser(i)) THEN Glue(PileOf(c), TrickCards(i)) ELSE PileOf(c)
<1> PICK p \in BOOLEAN : p <=> c = Player(TrickLoser(i))
  OBVIOUS
<1> PICK b \in BOOLEAN : b <=> c \in Playing
  OBVIOUS
<1> PICK a : a = Trick(i)
  OBVIOUS
<1> PICK e : e = Msg("ADD_SCORE")
  OBVIOUS
<1>1. /\ a.code = "ADD_PLI" /\ CardsOf(a) = TrickCards(i) /\ Bears(p, a) /\ cl' = cl
      /\ e.code = "ADD_SCORE"
  BY TrickTakenRoles DEF RoundEnds, Msg
<1>2. toClient'[c] = Push(Push(toClient[c], p, a), b, e)
  BY DEF RoundEnds, Push
<1>3. /\ SameHand(c) /\ (Chosen(c)' <=> Chosen(c))
      /\ PileOf(c)' = IF p /\ a.code = "ADD_PLI" THEN Glue(PileOf(c), CardsOf(a)) ELSE PileOf(c)
  BY <1>1, <1>2, TwoPushes
<1>4. QED
  BY <1>1, <1>3

-----------------------------------------------------------------------------
(* How many cards a player has: the steps of the server.                   *)

SamePhases == /\ (InEcarts' <=> InEcarts) /\ (InTricks' <=> InTricks)
              /\ srv'.game_running = srv.game_running /\ srv'.papayoo = srv.papayoo
              /\ srv'.updating_score = srv.updating_score
              /\ srv'.amount_turn = srv.amount_turn
              /\ board'.pli = board.pli /\ board'.pli_size = board.pli_size
              /\ SameSeats

LEMMA QuietPhases == ASSUME UInv, QuietStep PROVE SamePhases
<1>1. CASE Idles
  <2>1. SameTable /\ SameRound /\ SameEcarts /\ SameTrick /\ SameScores /\ hist'.given = hist.given
    BY <1>1 DEF Idles
  <2>2. InTricks' <=> InTricks
    BY <2>1, SamePart
  <2>3. QED
    BY <2>1, <2>2 DEF SamePhases, SameTable, SameRound, SameTrick, SameScores, InEcarts
<1>2. ASSUME NEW i \in Present, SignsUp(i) \/ Informs(i) PROVE SamePhases
  <2>1. SameTable /\ SameRound /\ SameEcarts /\ SameTrick /\ SameScores /\ hist'.given = hist.given
    BY <1>2 DEF SignsUp, Informs
  <2>2. InTricks' <=> InTricks
    BY <2>1, SamePart
  <2>3. QED
    BY <2>1, <2>2 DEF SamePhases, SameTable, SameRound, SameTrick, SameScores, InEcarts
<1>3. ASSUME NEW i \in Present, CountsScore(i) PROVE SamePhases
  <2>1. /\ SameTable /\ SameRound /\ SameEcarts /\ SameTrick /\ hist'.given = hist.given
        /\ srv'.updating_score = srv.updating_score
    BY <1>3 DEF CountsScore
  <2>2. InTricks' <=> InTricks
    BY <2>1 DEF InTricks, SameTable, SameSeats, SameRound, SameEcarts
  <2>3. QED
    BY <2>1, <2>2 DEF SamePhases, SameTable, SameRound, SameTrick, InEcarts
<1>4. ASSUME NEW i \in Present, GetsEcart(i) PROVE SamePhases
  <2>1. PICK m : Hearing(i, "ECART", m)
    BY <1>4 DEF GetsEcart
  <2>2. InEcarts
    BY <2>1, GivenInEcarts
  <2>3. /\ SameTable /\ SameRound /\ SameTrick /\ SameScores /\ srv'.one_ecart_received = TRUE
    BY <1>4 DEF GetsEcart
  <2>4. ~InTricks /\ ~InTricks'
    BY <2>2, <2>3 DEF InEcarts, InTricks
  <2>5. QED
    BY <2>2, <2>3, <2>4 DEF SamePhases, SameTable, SameRound, SameTrick, SameScores, InEcarts
<1>5. ASSUME NEW d \in Clients, Refuses(d) PROVE SamePhases
  <2>1. srv' = srv /\ board' = board /\ hist' = hist /\ SameSeats
    BY <1>5 DEF Refuses, FirstWord
  <2>2. InTricks' <=> InTricks
    BY <2>1 DEF InTricks, SameSeats
  <2>3. QED
    BY <2>1, <2>2 DEF SamePhases, InEcarts
<1>6. QED
  BY <1>1, <1>2, <1>3, <1>4, <1>5 DEF QuietStep

\* Which steps of the server are left.
LEMMA ServerCases ==
  ASSUME UInv, Seated, ServerNext
  PROVE  \/ QuietStep
         \/ \E perm \in Shuffles, papayoo \in Suits : Deals(perm, papayoo)
         \/ \E i \in Present : TrickGoes(i) \/ TrickOver(i) \/ RoundEnds(i)
         \/ SendsBack \/ Clears \/ \E d \in Clients : Admits(d)
<1>1. ServerMoves
  BY ServerSteps
<1>2. QED
  BY <1>1 DEF ServerMoves, QuietStep

LEMMA QuietLengths ==
  ASSUME UInv, Seated, TInv, RInv, LInv, QuietStep, NEW c \in Clients
  PROVE  Lengths(c)'
<1>1. SamePhases
  BY QuietPhases
<1>2. CASE c \notin Playing'
  BY <1>2 DEF Lengths
<1>3. CASE c \in Playing'
  <2>1. c \in Playing /\ SeatOf(c)' = SeatOf(c) /\ HandSize' = HandSize
    BY <1>1, <1>3 DEF SamePhases, SameSeats, HandSize
  <2>2. StillAndChosen(c)
    BY <2>1, QuietRoles
  <2>3. OnBoard(c)' <=> OnBoard(c)
    BY <1>1, <2>1 DEF OnBoard, SamePhases
  <2>4. Lengths(c)
    BY DEF LInv
  <2>5. QED
    BY <1>1, <2>1, <2>2, <2>3, <2>4 DEF Lengths, SamePhases, StillAndChosen, Still, SameHand, SameEcart
<1>4. QED
  BY <1>2, <1>3

LEMMA DealLengths ==
  ASSUME UInv, Seated, TInv, RInv, NEW perm \in Shuffles, NEW papayoo, Deals(perm, papayoo),
         NEW c \in Clients
  PROVE  Lengths(c)'
<1>1. /\ Playing' = Playing /\ amount_players' = amount_players /\ Present' = Present
      /\ hist'.given = {} /\ amount_players >= 2
  BY DEF Deals, SameTable, SameSeats
<1>2. 0 \in Present
  BY <1>1, SeatFacts DEF UInv
<1>3. ~InTricks'
  BY <1>1, <1>2 DEF InTricks
<1>4. CASE c \in Playing
  <2>1. /\ HandOf(c)' = Dealt(Shuffled(perm), amount_players, SeatOf(c))
        /\ EcartOf(c)' = <<>> /\ ~Chosen(c)'
    BY <1>4, DealRoles
  <2>2. amount_players \in Nat \ {0} /\ SeatOf(c) \in 0..amount_players - 1
    BY <1>4, SeatFacts DEF UInv
  <2>3. Len(HandOf(c)') = DeckSize \div amount_players /\ DeckSize \div amount_players \in Nat
    BY <2>1, <2>2, DealtHands
  <2>4. Len(EcartOf(c)') = 0
    BY <2>1
  <2>5. Len(HandOf(c)') = HandSize' - 0
    BY <1>1, <2>3 DEF HandSize
  <2>6. QED
    BY <1>3, <2>1, <2>4, <2>5 DEF Lengths
<1>5. QED
  BY <1>1, <1>4 DEF Lengths

LEMMA BackLengths ==
  ASSUME UInv, Seated, TInv, RInv, LInv, SendsBack, NEW c \in Clients
  PROVE  Lengths(c)'
<1>1. /\ InEcarts /\ ~InTricks /\ InTricks' /\ SameTable /\ SameTrick
      /\ Playing' = Playing /\ amount_players' = amount_players
  BY DEF SendsBack, SameTable, SameSeats, InEcarts
<1>2. ~InEcarts'
  BY <1>1 DEF InEcarts
<1>3. CASE c \in Playing
  <2> PICK d : d = Player(Giver(c))
    OBVIOUS
  <2>1. d \in Clients /\ d \in Playing
    BY <1>3, GiverSits
  <2>2. /\ HandOf(c)' = Glue(HandOf(c), EcartOf(d)) /\ Chosen(c)
        /\ Count(toServer'[c], "PLAY_CARD") = 0
    BY <1>3, BackRoles
  <2>3. Chosen(d)
    <3> PICK f : f = Player(Giver(d))
      OBVIOUS
    <3>1. QED
      BY <2>1, BackRoles
  <2>4. Lengths(c) /\ Lengths(d)
    BY <2>1 DEF LInv
  <2>5. Len(HandOf(c)) = HandSize - EcartSize /\ Len(EcartOf(d)) = EcartSize
    BY <1>1, <1>3, <2>1, <2>2, <2>3, <2>4 DEF Lengths
  <2>6. HandOf(c) \in CardSeq /\ EcartOf(d) \in CardSeq
    BY <1>3, <2>1, RolesSeq
  <2> PICK x : x = HandOf(c)
    OBVIOUS
  <2> PICK y : y = EcartOf(d)
    OBVIOUS
  <2>7. Len(Glue(x, y)) = Len(x) + Len(y)
    BY <2>6, GlueLen
  <2>8. HandSize \in Int /\ EcartSize \in Int
    <3>1. amount_players >= 2
      BY <1>1 DEF Seated, GameHasItsPlayers, InEcarts, UInv, Phases, Asleep
    <3>2. QED
      BY <3>1, HandSizeNat, CardsAssumption
  <2>9. Len(HandOf(c)') = HandSize
    BY <2>2, <2>5, <2>7, <2>8
  <2>10. srv'.amount_turn = 0 /\ board'.pli_size = 0
    BY <1>1 DEF SameTrick, RInv, Counters, UInv, Phases
  <2>11. ~OnBoard(c)'
    <3>1. 0..0 - 1 = {}
      OBVIOUS
    <3>2. QED
      BY <2>10, <3>1 DEF OnBoard
  <2>12. HandSize' = HandSize
    BY <1>1 DEF HandSize
  <2>13. Len(HandOf(c)') + 0 + 0 + 0 = HandSize'
    BY <2>8, <2>9, <2>12
  <2>14. QED
    BY <1>2, <2>2, <2>10, <2>11, <2>13 DEF Lengths
<1>4. QED
  BY <1>1, <1>3 DEF Lengths

LEMMA TrickLengths ==
  ASSUME UInv, Seated, TInv, RInv, LInv, NEW i \in Present, TrickGoes(i) \/ TrickOver(i) \/ RoundEnds(i),
         NEW c \in Clients
  PROVE  Lengths(c)'
<1>1. PICK m : LaysCard(i, m)
  BY DEF TrickGoes, TrickOver, RoundEnds, TrickTaken
<1>2. /\ InTricks /\ SameTable /\ Playing' = Playing /\ amount_players' = amount_players
      /\ HandSize' = HandSize
  BY <1>1 DEF LaysCard, SameTable, SameSeats, HandSize
<1>3. srv.amount_turn \in Nat
  BY ServerAssumption DEF TInv, ServerTypes
<1>4. CASE RoundEnds(i)
  BY <1>4 DEF Lengths, RoundEnds, InEcarts, InTricks
<1>5. CASE TrickGoes(i) /\ c \in Playing
  <2>1. InTricks' /\ ~InEcarts' /\ srv'.amount_turn = srv.amount_turn
    BY <1>5 DEF TrickGoes, InEcarts
  <2>2. /\ HandOf(c)' = HandOf(c)
        /\ Count(toServer'[c], "PLAY_CARD") = 0
        /\ Count(toServer[c], "PLAY_CARD") = IF c = Player(i) THEN 1 ELSE 0
        /\ OnBoard(c)' <=> OnBoard(c) \/ c = Player(i)
        /\ c = Player(i) => ~OnBoard(c)
    BY <1>5, TrickGoesRoles DEF SameHand
  <2>3. Len(HandOf(c)) \in Nat
    BY <1>5, RolesSeq
  <2>4. Len(HandOf(c)) + srv.amount_turn + (IF c = Player(i) THEN 1 ELSE 0)
           + (IF OnBoard(c) THEN 1 ELSE 0) = HandSize
    BY <1>2, <1>5, <2>2 DEF LInv, Lengths
  <2>5. Len(HandOf(c)) + srv.amount_turn + 0 + (IF OnBoard(c)' THEN 1 ELSE 0) = HandSize
    BY <1>3, <2>2, <2>3, <2>4
  <2>6. QED
    BY <1>2, <2>1, <2>2, <2>5 DEF Lengths
<1>6. CASE TrickOver(i) /\ c \in Playing
  <2>1. InTricks' /\ ~InEcarts' /\ srv'.amount_turn = srv.amount_turn + 1 /\ TrickTaken(i)
    BY <1>6 DEF TrickOver, InEcarts
  <2>2. HandOf(c)' = HandOf(c)
    BY <1>6, TrickOverRoles DEF SameHand
  <2>3. /\ Count(toServer'[c], "PLAY_CARD") = 0
        /\ Count(toServer[c], "PLAY_CARD") = IF c = Player(i) THEN 1 ELSE 0
        /\ ~OnBoard(c)'
        /\ OnBoard(c) <=> c # Player(i)
    BY <1>6, <2>1, TrickTakenRoles
  <2>4. Len(HandOf(c)) \in Nat
    BY <1>6, RolesSeq
  <2>5. Len(HandOf(c)) + srv.amount_turn + (IF c = Player(i) THEN 1 ELSE 0)
           + (IF OnBoard(c) THEN 1 ELSE 0) = HandSize
    BY <1>2, <1>6, <2>3 DEF LInv, Lengths
  <2>6. Len(HandOf(c)) + (srv.amount_turn + 1) + 0 + 0 = HandSize
    BY <1>3, <2>3, <2>4, <2>5
  <2>7. QED
    BY <1>2, <2>1, <2>2, <2>3, <2>6 DEF Lengths
<1>7. QED
  BY <1>2, <1>4, <1>5, <1>6 DEF Lengths

-----------------------------------------------------------------------------
(* How many cards a player has, from the deal to the last trick.           *)

LEMMA LInvServer ==
  ASSUME UInv, Seated, TInv, RInv, LInv, ServerNext
  PROVE  LInv'
<1>1. ASSUME NEW c \in Clients, QuietStep PROVE Lengths(c)'
  BY <1>1, QuietLengths
<1>2. ASSUME NEW c \in Clients, NEW perm \in Shuffles, NEW papayoo \in Suits, Deals(perm, papayoo)
      PROVE  Lengths(c)'
  BY <1>2, DealLengths
<1>3. ASSUME NEW c \in Clients, NEW i \in Present, TrickGoes(i) \/ TrickOver(i) \/ RoundEnds(i)
      PROVE  Lengths(c)'
  BY <1>3, TrickLengths
<1>4. ASSUME NEW c \in Clients, SendsBack PROVE Lengths(c)'
  BY <1>4, BackLengths
<1>5. ASSUME NEW c \in Clients, Clears PROVE Lengths(c)'
  BY <1>5 DEF Clears, Lengths, InEcarts, InTricks
<1>6. ASSUME NEW c \in Clients, NEW d \in Clients, Admits(d) PROVE Lengths(c)'
  BY <1>6 DEF Admits, FirstWord, Lengths, InEcarts, InTricks
<1>7. QED
  BY <1>1, <1>2, <1>3, <1>4, <1>5, <1>6, ServerCases DEF LInv

LEMMA LInvInit == Init => LInv
<1> SUFFICES ASSUME Init PROVE LInv
  OBVIOUS
<1>2. players = <<>>
  BY DEF Init, ServerInit
<1>3. Playing = {}
  BY <1>2 DEF Playing
<1>4. QED
  BY <1>3 DEF LInv, Lengths

LEMMA LInvStutter == ASSUME LInv, UNCHANGED vars PROVE LInv'
<1>1. UNCHANGED network /\ UNCHANGED <<players, alarm, srv, board, loop, hist>> /\ cl' = cl
  BY DEF vars, serverVars, clientVars
<1>2. UNCHANGED <<conn, toClient, toServer, players, srv, board, loop, hist, cl>>
  BY <1>1 DEF network
<1>3. /\ Playing' = Playing /\ amount_players' = amount_players /\ Present' = Present
      /\ HandSize' = HandSize
  BY <1>2 DEF Playing, amount_players, Present, HandSize
<1>4. \A c : SeatOf(c)' = SeatOf(c)
  BY <1>2, <1>3 DEF SeatOf, Player
<1>5. ASSUME NEW c \in Clients PROVE Lengths(c)'
  <2>1. Given(c)' = Given(c)
    BY <1>2, <1>4 DEF Given
  <2>2. HandOf(c)' = HandOf(c) /\ EcartOf(c)' = EcartOf(c) /\ (Chosen(c)' <=> Chosen(c))
    BY <1>2, <2>1, RolesAre, RolesWillBe DEF Chosen, At
  <2>3. OnBoard(c)' <=> OnBoard(c)
    BY <1>2, <1>4 DEF OnBoard
  <2>4. (InEcarts' <=> InEcarts) /\ (InTricks' <=> InTricks)
    BY <1>2, <1>3 DEF InEcarts, InTricks
  <2>5. Lengths(c)
    BY DEF LInv
  <2>6. QED
    BY <1>2, <1>3, <2>2, <2>3, <2>4, <2>5 DEF Lengths
<1>6. QED
  BY <1>5 DEF LInv

LEMMA LInvNext == ASSUME Undisturbed, UInv, Seated, TInv, RInv, LInv, [Next]_vars PROVE LInv'
<1>1. CASE ServerNext
  BY <1>1, LInvServer
<1>2. CASE ClientNext
  <2>1. PICK c \in Clients : Alone(c) /\ Moves(c)
    BY <1>2, ClientMoves
  <2>2. QED
    BY <2>1, LInvClient
<1>3. CASE UNCHANGED vars
  BY <1>3, LInvStutter
<1>4. QED
  BY <1>1, <1>2, <1>3 DEF Next

LEMMA LengthsCourse == ASSUME Undisturbed PROVE Spec => [](Seated /\ UInv /\ TInv /\ RInv /\ LInv)
<1>1. Init => LInv
  BY LInvInit
<1>2. (Seated /\ UInv /\ TInv /\ RInv) /\ LInv /\ [Next]_vars => LInv'
  BY LInvNext
<1>3. QED
  BY <1>1, <1>2, OrderCourse, PTL DEF Spec

-----------------------------------------------------------------------------
\* The cards that a player has played of its hand are one for each trick that
\* is over, so that one is left for this trick.
LEMMA CardLeft ==
  ASSUME EnoughCards, UInv, Seated, TInv, RInv, LInv, NEW c \in Clients, At(c, "play")
  PROVE  ~cl[c].waiting_for_ecart /\ cl[c].deck # <<>>
<1> PICK n : n = amount_players
  OBVIOUS
<1> PICK deck : deck = cl[c].deck
  OBVIOUS
<1>1. /\ c \in Playing /\ InTricks /\ ~Asleep /\ HasTurn(c)
      /\ Count(toClient[c], "INIT_DECK") = 0 /\ Count(toClient[c], "ECARTS") = 0
      /\ Count(toServer[c], "PLAY_CARD") = 0
      /\ ~cl[c].waiting_for_ecart
  BY AskedFacts
<1>2. ShipsOut(toClient[c]) /\ deck \in CardSeq /\ cl[c].plis \in CardSeq
  BY Ships
<1>3. HandOf(c) = deck
  BY <1>1, <1>2, EmptyNote, RolesAre
<1>4. ~OnBoard(c)
  <2>1. ASSUME OnBoard(c) PROVE FALSE
    <3>1. PICK k \in 0..board.pli_size - 1 : board.pli[k].last_played = SeatOf(c)
      BY <2>1 DEF OnBoard
    <3>2. board.pli[k].last_played = (srv.current_player_turn + k) % n
      BY <1>1 DEF RInv, Counters
    <3>3. /\ srv.current_player_turn \in 0..n - 1
          /\ board.pli_size \in 0..n - 1 /\ n \in Nat
      BY <1>1, SeatFacts DEF UInv, Phases
    <3>4. SeatOf(c) = (srv.current_player_turn + board.pli_size) % n
      <4>1. (srv.current_player_turn + board.pli_size) % n \in Present
        BY <1>1, TurnHolder DEF UInv
      <4>2. QED
        BY <1>1, <4>1, SeatFacts DEF HasTurn, UInv
    <3>5. k \in 0..n - 1 /\ k # board.pli_size
      BY <3>3
    <3>6. QED
      BY <3>1, <3>2, <3>3, <3>4, <3>5, TurnsDiffer
  <2>2. QED
    BY <2>1
<1>5. Len(deck) + srv.amount_turn + 0 + 0 = HandSize
  BY <1>1, <1>3, <1>4 DEF LInv, Lengths
<1>6. srv.amount_turn \in 0..AMOUNT_PLI - 1 /\ AMOUNT_PLI \in Nat
  BY ServerAssumption DEF TInv, ServerTypes
<1>7. n \in 2..MAX_PLAYERS
  <2>1. n >= 2
    BY <1>1 DEF Seated, GameHasItsPlayers, InTricks, Asleep
  <2>2. n \in Nat /\ n <= MAX_PLAYERS /\ MAX_PLAYERS \in Nat
    BY SeatFacts, ServerAssumption DEF UInv
  <2>3. QED
    BY <2>1, <2>2
<1>8. AMOUNT_PLI <= HandSize /\ HandSize \in Nat
  <2>1. AMOUNT_PLI <= DeckSize \div n
    BY <1>7 DEF EnoughCards
  <2>2. HandSize \in Nat
    BY <1>7, HandSizeNat
  <2>3. QED
    BY <2>1, <2>2 DEF HandSize
<1>9. Len(deck) \in Nat
  BY <1>2 DEF CardSeq
<1>10. Len(deck) # 0
  BY <1>5, <1>6, <1>8, <1>9
<1>11. deck # <<>>
  BY <1>10
<1>12. QED
  BY <1>1, <1>11

(***************************************************************************)
(* Who is asked for a card has received the ecart of the round and has a   *)
(* card to play (ask_for_card, joueur.c), whatever the order in which the  *)
(* messages of the players arrive, as long as nobody leaves: a player has  *)
(* as many cards as there are tricks left.  EnoughCards is what            *)
(* AMOUNT_PLI (serveur.h) has to be for a round to have cards for all of    *)
(* its tricks.                                                             *)
(***************************************************************************)
THEOREM PlaysAFullHandThm ==
  ASSUME Undisturbed, EnoughCards
  PROVE  Spec => []PlaysAFullHand
<1>1. Seated /\ UInv /\ TInv /\ RInv /\ LInv => PlaysAFullHand
  BY CardLeft DEF PlaysAFullHand
<1>2. QED
  BY <1>1, LengthsCourse, PTL

-----------------------------------------------------------------------------
(* What a player has earned: sums.                                         *)

\* The numbers h are the numbers f with the numbers g behind them.
Joined(h, f, g) == /\ f \in Seq(Nat) /\ g \in Seq(Nat) /\ h \in Seq(Nat)
                   /\ Len(h) = Len(f) + Len(g)
                   /\ \A k \in 1..Len(f) : h[k] = f[k]
                   /\ \A k \in 1..Len(g) : h[k + Len(f)] = g[k]

LEMMA SumParts ==
  ASSUME NEW f, NEW g, NEW h, Joined(h, f, g)
  PROVE  SumOf(h) = SumOf(f) + SumOf(g)
<1>0. /\ f \in Seq(Nat) /\ g \in Seq(Nat) /\ h \in Seq(Nat) /\ Len(h) = Len(f) + Len(g)
      /\ \A k \in 1..Len(f) : h[k] = f[k]
      /\ \A k \in 1..Len(g) : h[k + Len(f)] = g[k]
  BY DEF Joined
<1> DEFINE fg == f \o g
<1>1. /\ Len(f) \in Nat /\ Len(g) \in Nat /\ fg \in Seq(Nat) /\ Len(fg) = Len(f) + Len(g)
      /\ \A k \in 1..Len(f) + Len(g) : fg[k] = IF k <= Len(f) THEN f[k] ELSE g[k - Len(f)]
  BY <1>0, ConcatProperties
<1> HIDE DEF fg
<1>2. ASSUME NEW k \in 1..Len(h) PROVE h[k] = fg[k]
  <2>1. k \in 1..Len(f) + Len(g)
    BY <1>0
  <2>2. CASE k <= Len(f)
    <3>1. k \in 1..Len(f)
      BY <1>1, <2>1, <2>2
    <3>2. QED
      BY <1>0, <1>1, <2>1, <2>2, <3>1
  <2>3. CASE ~(k <= Len(f))
    <3>1. k - Len(f) \in 1..Len(g) /\ k - Len(f) + Len(f) = k
      BY <1>1, <2>1, <2>3
    <3>2. h[k - Len(f) + Len(f)] = g[k - Len(f)]
      BY <1>0, <3>1
    <3>3. QED
      BY <1>1, <2>1, <2>3, <3>1, <3>2
  <2>4. QED
    BY <2>2, <2>3
<1>3. h = fg
  BY <1>0, <1>1, <1>2, SeqEqual
<1>4. SumOf(f \o g) = SumOf(f) + SumOf(g)
  BY <1>0, SumCat
<1>5. QED
  BY <1>3, <1>4 DEF fg

LEMMA SumZero == ASSUME NEW f \in Seq(Nat), \A k \in 1..Len(f) : f[k] = 0 PROVE SumOf(f) = 0
<1>1. Len(f) \in Nat
  OBVIOUS
<1>2. PICK s : IsSum(f, Len(f), s) /\ SumOf(f) = s[Len(f)]
  BY <1>1, SumIs
<1>3. s[0] = 0 /\ \A k \in 1..Len(f) : s[k] = s[k - 1] + f[k]
  BY <1>1, <1>2, SumStep
<1> DEFINE B == {k \in 0..Len(f) : s[k] = 0}
<1>4. 0 \in B
  BY <1>1, <1>3
<1>5. ASSUME NEW k \in 1..Len(f), k - 1 \in B PROVE k \in B
  <2>1. s[k - 1] = 0 /\ f[k] = 0 /\ s[k] = s[k - 1] + f[k]
    BY <1>3, <1>5
  <2>2. QED
    BY <1>1, <2>1
<1> HIDE DEF B
<1>6. 0..Len(f) \subseteq B
  BY <1>1, <1>4, <1>5, UpTo
<1>7. QED
  BY <1>1, <1>2, <1>6 DEF B

\* The points of two piles are those of the first and those of the second.
LEMMA PointsGlue ==
  ASSUME NEW x \in CardSeq, NEW y \in CardSeq, NEW p
  PROVE  Points(Glue(x, y), p) = Points(x, p) + Points(y, p)
<1> PICK z : z = Glue(x, y)
  OBVIOUS
<1>1. z \in CardSeq /\ Len(x) \in Nat /\ Len(y) \in Nat /\ Len(z) = Len(x) + Len(y)
  BY GlueLaws, GlueLen
<1>2. /\ \A k \in 1..Len(x) : z[k] = x[k]
      /\ \A k \in 1..Len(y) : z[k + Len(x)] = y[k]
  BY DEF Glue, CardSeq
<1> PICK f : f = PointsOf(x, p)
  OBVIOUS
<1> PICK g : g = PointsOf(y, p)
  OBVIOUS
<1> PICK h : h = PointsOf(z, p)
  OBVIOUS
<1>3. /\ f \in Seq(Nat) /\ Len(f) = Len(x) /\ Points(x, p) = SumOf(f)
      /\ g \in Seq(Nat) /\ Len(g) = Len(y) /\ Points(y, p) = SumOf(g)
      /\ h \in Seq(Nat) /\ Len(h) = Len(z) /\ Points(z, p) = SumOf(h)
  BY <1>1, PointsNat
<1>4. /\ DOMAIN x = 1..Len(x) /\ DOMAIN y = 1..Len(y) /\ DOMAIN z = 1..Len(z)
  BY <1>1 DEF CardSeq
<1>5. /\ \A k \in 1..Len(x) : f[k] = CardPoints(x[k], p)
      /\ \A k \in 1..Len(y) : g[k] = CardPoints(y[k], p)
      /\ \A k \in 1..Len(z) : h[k] = CardPoints(z[k], p)
  BY <1>4 DEF PointsOf
<1>6. /\ \A k \in 1..Len(x) : k \in 1..Len(z)
      /\ \A k \in 1..Len(y) : k + Len(x) \in 1..Len(z)
  BY <1>1
<1>7. /\ \A k \in 1..Len(f) : h[k] = f[k]
      /\ \A k \in 1..Len(g) : h[k + Len(f)] = g[k]
  <2>1. ASSUME NEW k \in 1..Len(f) PROVE h[k] = f[k]
    <3>1. k \in 1..Len(x) /\ k \in 1..Len(z)
      BY <1>3, <1>6
    <3>2. z[k] = x[k]
      BY <1>2, <3>1
    <3>3. QED
      BY <1>5, <3>1, <3>2
  <2>2. ASSUME NEW k \in 1..Len(g) PROVE h[k + Len(f)] = g[k]
    <3>1. k \in 1..Len(y) /\ k + Len(x) \in 1..Len(z) /\ Len(f) = Len(x)
      BY <1>3, <1>6
    <3>2. z[k + Len(x)] = y[k]
      BY <1>2, <3>1
    <3>3. QED
      BY <1>5, <3>1, <3>2
  <2>3. QED
    BY <2>1, <2>2
<1>8. Len(h) = Len(f) + Len(g)
  BY <1>1, <1>3
<1>9. SumOf(h) = SumOf(f) + SumOf(g)
  <2>1. Joined(h, f, g)
    BY <1>3, <1>7, <1>8 DEF Joined
  <2>2. QED
    BY <2>1, SumParts
<1>10. QED
  BY <1>3, <1>9

LEMMA NoPoints == \A p : Points(<<>>, p) = 0
<1> SUFFICES ASSUME NEW p PROVE Points(<<>>, p) = 0
  OBVIOUS
<1>1. PointsOf(<<>>, p) = <<>>
  BY DEF PointsOf
<1>2. Points(<<>>, p) = SumOf(PointsOf(<<>>, p))
  BY PointsNat, GlueNothing
<1>3. QED
  BY <1>1, <1>2, SumShort

-----------------------------------------------------------------------------
(* What a player has earned: the reports on their way.                     *)

ScoreOf(m)  == IF m.code = "UPDATE_SCORE" THEN m.score ELSE 0
Scores(q)   == [k \in DOMAIN q |-> ScoreOf(q[k])]
Reported(q) == SumOf(Scores(q))

Tallies(q) == IsQueue(q) /\ \A k \in 1..Len(q) : ScoreOf(q[k]) \in Nat

LEMMA ReportedIs == ASSUME NEW c PROVE ReportedByNow(c) = Reported(toServer[c])
  BY DEF ReportedByNow, Reported, Scores, ScoreOf

LEMMA ReportedWillBe == ASSUME NEW c PROVE ReportedByNow(c)' = Reported(toServer'[c])
  BY DEF ReportedByNow, Reported, Scores, ScoreOf

LEMMA ScoresSeq ==
  ASSUME NEW q, Tallies(q)
  PROVE  /\ Scores(q) \in Seq(Nat) /\ Len(Scores(q)) = Len(q) /\ Len(q) \in Nat
         /\ \A k \in 1..Len(q) : Scores(q)[k] = ScoreOf(q[k])
         /\ Reported(q) \in Nat
<1> PICK n : n = Len(q)
  OBVIOUS
<1> PICK f : f = Scores(q)
  OBVIOUS
<1>1. n \in Nat /\ DOMAIN q = 1..n /\ \A k \in 1..n : ScoreOf(q[k]) \in Nat
  BY QueueLen DEF Tallies
<1>2. f = [k \in 1..n |-> ScoreOf(q[k])]
  BY <1>1 DEF Scores
<1>3. f \in [1..n -> Nat]
  BY <1>1, <1>2
<1>4. f \in Seq(Nat) /\ Len(f) = n
  BY <1>1, <1>2, <1>3, SeqDef
<1>5. SumOf(f) \in Nat
  BY <1>4, SumNat
<1>6. QED
  BY <1>1, <1>2, <1>4, <1>5 DEF Reported

LEMMA ReportedCat ==
  ASSUME NEW s, NEW t, NEW st, Tallies(s), Tallies(t), Tallies(st), st = s \o t
  PROVE  Reported(st) = Reported(s) + Reported(t)
<1> PICK f : f = Scores(s)
  OBVIOUS
<1> PICK g : g = Scores(t)
  OBVIOUS
<1> PICK h : h = Scores(st)
  OBVIOUS
<1>1. /\ f \in Seq(Nat) /\ Len(f) = Len(s) /\ \A k \in 1..Len(s) : f[k] = ScoreOf(s[k])
      /\ g \in Seq(Nat) /\ Len(g) = Len(t) /\ \A k \in 1..Len(t) : g[k] = ScoreOf(t[k])
      /\ h \in Seq(Nat) /\ Len(h) = Len(st) /\ \A k \in 1..Len(st) : h[k] = ScoreOf(st[k])
      /\ Len(s) \in Nat /\ Len(t) \in Nat
  BY ScoresSeq
<1>2. /\ Len(st) = Len(s) + Len(t)
      /\ \A k \in 1..Len(s) : st[k] = s[k]
      /\ \A k \in 1..Len(t) : st[k + Len(s)] = t[k]
  BY QueueCat DEF Tallies
<1>3. /\ \A k \in 1..Len(s) : k \in 1..Len(st)
      /\ \A k \in 1..Len(t) : k + Len(s) \in 1..Len(st)
  BY <1>1, <1>2
<1>4. /\ Len(h) = Len(f) + Len(g)
      /\ \A k \in 1..Len(f) : h[k] = f[k]
      /\ \A k \in 1..Len(g) : h[k + Len(f)] = g[k]
  <2>1. Len(h) = Len(f) + Len(g)
    BY <1>1, <1>2
  <2>2. ASSUME NEW k \in 1..Len(s) PROVE h[k] = f[k]
    BY <1>1, <1>2, <1>3
  <2>3. ASSUME NEW k \in 1..Len(t) PROVE h[k + Len(s)] = g[k]
    <3>1. k + Len(s) \in 1..Len(st) /\ st[k + Len(s)] = t[k]
      BY <1>2, <1>3
    <3>2. h[k + Len(s)] = ScoreOf(t[k])
      BY <1>1, <3>1
    <3>3. QED
      BY <1>1, <3>2
  <2>4. QED
    BY <1>1, <2>1, <2>2, <2>3
<1>5. SumOf(h) = SumOf(f) + SumOf(g)
  <2>1. Joined(h, f, g)
    BY <1>1, <1>4 DEF Joined
  <2>2. QED
    BY <2>1, SumParts
<1>6. QED
  BY <1>5 DEF Reported

LEMMA ReportedOne == ASSUME NEW m, ScoreOf(m) \in Nat
                     PROVE  Tallies(<<m>>) /\ Reported(<<m>>) = ScoreOf(m)
<1>1. Len(<<m>>) = 1 /\ <<m>>[1] = m /\ DOMAIN <<m>> = {1}
  OBVIOUS
<1>2. Tallies(<<m>>)
  <2>1. \A k \in 1..1 : k = 1
    OBVIOUS
  <2>2. QED
    BY <1>1, <2>1, ShortQueues DEF Tallies
<1> PICK x : x = ScoreOf(m)
  OBVIOUS
<1>3. Scores(<<m>>) = <<x>>
  <2>1. Scores(<<m>>) = [k \in {1} |-> x]
    BY <1>1 DEF Scores
  <2>2. [k \in {1} |-> x] = <<x>>
    OBVIOUS
  <2>3. QED
    BY <2>1, <2>2
<1>4. QED
  BY <1>2, <1>3, SumShort DEF Reported

\* A report that is sent.
LEMMA ReportedAppend ==
  ASSUME NEW q, Tallies(q), NEW m, ScoreOf(m) \in Nat
  PROVE  Tallies(Append(q, m)) /\ Reported(Append(q, m)) = Reported(q) + ScoreOf(m)
<1> PICK o : o = <<m>>
  OBVIOUS
<1> PICK t : t = Append(q, m)
  OBVIOUS
<1>1. Tallies(o) /\ Reported(o) = ScoreOf(m)
  BY ReportedOne
<1>2. IsQueue(t) /\ t = q \o o
  BY QueueAppend DEF Tallies
<1>3. Tallies(t)
  <2>1. /\ Len(t) = Len(q) + Len(o) /\ Len(q) \in Nat /\ Len(o) = 1
        /\ \A k \in 1..Len(q) : t[k] = q[k]
        /\ \A k \in 1..Len(o) : t[k + Len(q)] = o[k]
    BY <1>1, <1>2, QueueCat, QueueLen DEF Tallies
  <2>2. ASSUME NEW k \in 1..Len(t) PROVE ScoreOf(t[k]) \in Nat
    <3>1. CASE k = Len(q) + 1
      <4>1. 1 \in 1..Len(o) /\ k = 1 + Len(q)
        BY <2>1, <3>1
      <4>2. t[k] = o[1]
        BY <2>1, <4>1
      <4>3. QED
        BY <1>1, <4>1, <4>2 DEF Tallies
    <3>2. CASE k # Len(q) + 1
      <4>1. k \in 1..Len(q)
        BY <2>1, <3>2
      <4>2. QED
        BY <2>1, <4>1 DEF Tallies
    <3>3. QED
      BY <3>1, <3>2
  <2>3. QED
    BY <1>2, <2>2 DEF Tallies
<1>4. Reported(t) = Reported(q) + Reported(o)
  BY <1>1, <1>2, <1>3, ReportedCat
<1>5. QED
  BY <1>1, <1>3, <1>4

\* A report that is taken.
LEMMA ReportedTail ==
  ASSUME NEW q, Tallies(q), q # <<>>
  PROVE  /\ Tallies(Tail(q)) /\ ScoreOf(Head(q)) \in Nat
         /\ Reported(q) = ScoreOf(Head(q)) + Reported(Tail(q))
<1> PICK t : t = Tail(q)
  OBVIOUS
<1> PICK m : m = Head(q)
  OBVIOUS
<1> PICK o : o = <<m>>
  OBVIOUS
<1>1. /\ IsQueue(t) /\ Len(q) \in Nat \ {0} /\ Len(t) = Len(q) - 1 /\ m = q[1]
      /\ \A k \in 1..Len(q) - 1 : t[k] = q[k + 1]
      /\ q = o \o t
  BY QueueTail DEF Tallies
<1>2. 1 \in 1..Len(q) /\ \A k \in 1..Len(t) : k \in 1..Len(q) - 1 /\ k + 1 \in 1..Len(q)
  BY <1>1
<1>3. Tallies(t) /\ ScoreOf(m) \in Nat
  BY <1>1, <1>2 DEF Tallies
<1>4. Tallies(o) /\ Reported(o) = ScoreOf(m)
  BY <1>3, ReportedOne
<1>5. Reported(q) = Reported(o) + Reported(t)
  BY <1>1, <1>3, <1>4, ReportedCat
<1>6. QED
  BY <1>3, <1>4, <1>5

LEMMA ReportedNone ==
  ASSUME NEW q, Tallies(q), Count(q, "UPDATE_SCORE") = 0
  PROVE  Reported(q) = 0
<1>1. \A k \in 1..Len(q) : q[k].code # "UPDATE_SCORE"
  BY CountNone DEF Tallies
<1> PICK f : f = Scores(q)
  OBVIOUS
<1>2. f \in Seq(Nat) /\ Len(f) = Len(q) /\ \A k \in 1..Len(q) : f[k] = ScoreOf(q[k])
  BY ScoresSeq
<1>3. \A k \in 1..Len(f) : f[k] = 0
  BY <1>1, <1>2 DEF ScoreOf
<1>4. SumOf(f) = 0
  BY <1>2, <1>3, SumZero
<1>5. QED
  BY <1>4 DEF Reported

LEMMA TalliesOf == ASSUME UInv, TInv, NEW c \in Clients PROVE Tallies(toServer[c])
<1>1. IsQueue(toServer[c])
  BY QueuesOf
<1>2. ASSUME NEW k \in 1..Len(toServer[c]) PROVE ScoreOf(toServer[c][k]) \in Nat
  <2>1. ToServerType(toServer[c][k])
    BY <1>2 DEF TInv, QueueTypes
  <2>2. QED
    BY <2>1 DEF ToServerType, ScoreOf
<1>3. QED
  BY <1>1, <1>2 DEF Tallies

-----------------------------------------------------------------------------
(* What a player has earned: the steps of a client.                        *)

LEMMA EarnedNow ==
  ASSUME UInv, Seated, TInv, NEW i \in Present, NEW c, c = Player(i)
  PROVE  /\ c \in Clients /\ c \in Playing /\ SeatOf(c) = i /\ i \in Seats
         /\ board.scores[i] \in Nat /\ hist.earned[i] \in Nat
         /\ Reported(toServer[c]) \in Nat
         /\ \A p : Points(PileOf(c), p) \in Nat
         /\ Earned(i) <=> board.scores[i] + Reported(toServer[c]) + Points(PileOf(c), srv.papayoo)
                            = hist.earned[i]
<1>1. c \in Clients /\ c \in Playing /\ SeatOf(c) = i /\ i \in Seats
  BY SeatFacts DEF UInv
<1>2. board.scores[i] \in Nat /\ hist.earned[i] \in Nat
  BY <1>1 DEF TInv, ServerTypes
<1>3. Reported(toServer[c]) \in Nat
  BY <1>1, TalliesOf, ScoresSeq
<1>4. \A p : Points(PileOf(c), p) \in Nat
  BY <1>1, RolesSeq, PointsNat
<1>5. Earned(i) <=> board.scores[i] + Reported(toServer[c]) + Points(PileOf(c), srv.papayoo)
                      = hist.earned[i]
  BY ReportedIs DEF Earned, EarnedThisRound
<1>6. QED
  BY <1>1, <1>2, <1>3, <1>4, <1>5

LEMMA EarnedNext ==
  ASSUME NEW i, NEW c, c = Player(i)'
  PROVE  Earned(i)' <=> board'.scores[i] + Reported(toServer'[c]) + Points(PileOf(c)', srv'.papayoo)
                          = hist'.earned[i]
<1>1. Earned(i)' <=> board'.scores[i] + ReportedByNow(c)' + EarnedThisRound(c)' = hist'.earned[i]
  BY DEF Earned
<1>2. QED
  BY <1>1, ReportedWillBe DEF EarnedThisRound

\* What a client says reaches the queue of the server.
LEMMA TellsReport ==
  ASSUME UInv, TInv, NEW c \in Clients, c \in Playing, ~Asleep, NEW m, Tells(c, m), ScoreOf(m) \in Nat
  PROVE  Reported(toServer'[c]) = Reported(toServer[c]) + ScoreOf(m)
<1>1. toServer'[c] = Append(toServer[c], m)
  BY Connected DEF Tells
<1>2. QED
  BY <1>1, TalliesOf, ReportedAppend

\* The client neither reports nor receives a trick that was not its own before.
LEMMA SameEarnings ==
  ASSUME UInv, Seated, TInv, NEW i \in Present, Earned(i), NEW c, c = Player(i), c = Player(i)',
         SamePile(c), Reported(toServer'[c]) = Reported(toServer[c]),
         board'.scores[i] = board.scores[i], hist'.earned[i] = hist.earned[i],
         srv'.papayoo = srv.papayoo
  PROVE  Earned(i)'
<1>1. board.scores[i] + Reported(toServer[c]) + Points(PileOf(c), srv.papayoo) = hist.earned[i]
  BY EarnedNow
<1>2. Points(PileOf(c)', srv'.papayoo) = Points(PileOf(c), srv.papayoo)
  BY DEF SamePile
<1>3. board'.scores[i] + Reported(toServer'[c]) + Points(PileOf(c)', srv'.papayoo) = hist'.earned[i]
  BY <1>1, <1>2
<1>4. QED
  BY <1>3, EarnedNext

LEMMA EInvClient ==
  ASSUME UInv, Seated, TInv, RInv, EInv, NEW c \in Clients, Alone(c), Moves(c)
  PROVE  EInv'
<1>1. Kept
  BY AloneKept
<1>2. /\ Present' = Present /\ srv' = srv /\ board' = board /\ hist' = hist /\ (Asleep' <=> Asleep)
      /\ \A i : Player(i)' = Player(i)
  BY <1>1 DEF Kept, Alone, serverVars, Player
<1> SUFFICES ASSUME srv'.game_running, ~Asleep', NEW i \in Present'
             PROVE  Earned(i)'
  BY DEF EInv
<1>3. i \in Present /\ Earned(i) /\ ~Asleep
  BY <1>2 DEF EInv
<1> PICK d : d = Player(i)
  OBVIOUS
<1>4. d = Player(i)' /\ d \in Clients /\ d \in Playing
  BY <1>2, <1>3, EarnedNow
<1>5. ASSUME SamePile(d), Reported(toServer'[d]) = Reported(toServer[d]) PROVE Earned(i)'
  BY <1>2, <1>3, <1>4, <1>5, SameEarnings
<1>6. CASE d # c
  <2>1. toClient'[d] = toClient[d] /\ toServer'[d] = toServer[d] /\ cl'[d] = cl[d]
    BY <1>4, <1>6 DEF Alone
  <2>2. SamePile(d)
    BY <2>1, RolesAre, RolesWillBe DEF SamePile
  <2>3. QED
    BY <1>5, <2>1, <2>2
<1>7. CASE d = c
  <2>1. c \in Playing
    BY <1>4, <1>7
  <2>2. ASSUME SamePile(c), NEW m, Tells(c, m), m.code # "UPDATE_SCORE" PROVE Earned(i)'
    <3>1. ScoreOf(m) = 0
      BY <2>2 DEF ScoreOf
    <3>2. Reported(toServer'[c]) = Reported(toServer[c]) + 0
      BY <1>3, <2>1, <2>2, <3>1, TellsReport
    <3>3. Reported(toServer[c]) \in Nat
      BY <1>3, <1>7, EarnedNow
    <3>4. QED
      BY <1>5, <1>7, <2>2, <3>2, <3>3
  <2>3. ASSUME NEW code \in NotedCodes, Notes(c, code) PROVE Earned(i)'
    <3>1. SamePile(c) /\ toServer'[c] = toServer[c]
      BY <2>3, NotesRoles DEF Still, Notes
    <3>2. QED
      BY <1>5, <1>7, <3>1
  <2>4. ASSUME GivesEcart(c) PROVE Earned(i)'
    <3>1. SamePile(c) /\ \E m : Tells(c, m) /\ m.code = "ECART"
      BY <2>4, GivesRoles DEF GivesEcart
    <3>2. QED
      BY <2>2, <3>1
  <2>5. ASSUME PlaysCard(c) PROVE Earned(i)'
    <3>1. SamePile(c) /\ \E m : Tells(c, m) /\ m.code = "PLAY_CARD"
      BY <2>5, PlaysRoles DEF PlaysCard
    <3>2. QED
      BY <2>2, <3>1
  <2>6. ASSUME Talks(c) PROVE Earned(i)'
    <3>1. SamePile(c) /\ \E m : Tells(c, m) /\ m.code # "UPDATE_SCORE"
      BY <1>3, <2>1, <2>6, TalksRoles DEF Talks, Still
    <3>2. QED
      BY <2>2, <3>1
  <2>7. ASSUME Reports(c) PROVE Earned(i)'
    <3>1. PICK m : /\ m.code = "UPDATE_SCORE" /\ m.score = Points(PileOf(c), srv.papayoo)
                   /\ toServer'[c] = Append(toServer[c], m)
      BY <1>3, <2>1, <2>7, ReportsRoles
    <3>2. PileOf(c)' = <<>>
      BY <1>3, <2>1, <2>7, ReportsRoles
    <3>3. /\ board.scores[i] \in Nat /\ Reported(toServer[c]) \in Nat
          /\ Points(PileOf(c), srv.papayoo) \in Nat
          /\ board.scores[i] + Reported(toServer[c]) + Points(PileOf(c), srv.papayoo) = hist.earned[i]
      BY <1>3, <1>7, EarnedNow
    <3>4. ScoreOf(m) = Points(PileOf(c), srv.papayoo)
      BY <3>1 DEF ScoreOf
    <3>5. Reported(toServer'[c]) = Reported(toServer[c]) + ScoreOf(m)
      BY <3>1, <3>3, <3>4, TalliesOf, ReportedAppend
    <3>6. Points(PileOf(c)', srv'.papayoo) = 0
      BY <3>2, NoPoints
    <3>7. board.scores[i] + (Reported(toServer[c]) + ScoreOf(m)) + 0 = hist.earned[i]
      BY <3>3, <3>4
    <3>8. board'.scores[i] + Reported(toServer'[c]) + Points(PileOf(c)', srv'.papayoo) = hist'.earned[i]
      BY <1>2, <3>5, <3>6, <3>7
    <3>9. QED
      BY <1>4, <1>7, <3>8, EarnedNext
  <2>8. ASSUME Leaves(c) PROVE FALSE
    BY <1>3, <2>1, <2>8 DEF Leaves
  <2>9. QED
    BY <2>3, <2>4, <2>5, <2>6, <2>7, <2>8 DEF Moves
<1>8. QED
  BY <1>6, <1>7

-----------------------------------------------------------------------------
(* What a player has earned: the steps of the server.                      *)

\* What the server takes that is no report.
LEMMA NoReport ==
  ASSUME UInv, TInv, NEW i, NEW code, NEW m, Hearing(i, code, m), code # "UPDATE_SCORE",
         NEW c \in Clients
  PROVE  Reported(toServer'[c]) = Reported(toServer[c])
<1> PICK d : d = Player(i)
  OBVIOUS
<1> PICK q : q = toServer[d]
  OBVIOUS
<1>1. /\ q # <<>> /\ Head(q) = m /\ m.code = code /\ d \in Clients /\ toServer'[d] = Tail(q)
      /\ \A e \in Clients : e # d => toServer'[e] = toServer[e]
  BY DEF Hearing
<1>2. Tallies(q) /\ ScoreOf(m) = 0
  BY <1>1, TalliesOf DEF ScoreOf
<1>3. Tallies(Tail(q)) /\ Reported(q) = ScoreOf(Head(q)) + Reported(Tail(q))
  BY <1>1, <1>2, ReportedTail
<1>4. Reported(Tail(q)) \in Nat
  BY <1>3, ScoresSeq
<1>5. Reported(q) = 0 + Reported(Tail(q))
  BY <1>1, <1>2, <1>3
<1>6. Reported(q) = Reported(Tail(q))
  BY <1>4, <1>5
<1>7. QED
  BY <1>1, <1>6

\* Who has seats keeps them.
LEMMA SeatKept == ASSUME UInv, Seated, SameSeats, NEW i \in Present' PROVE i \in Present /\ Player(i)' = Player(i)
  BY DEF SameSeats

LEMMA QuietEarned ==
  ASSUME UInv, Seated, TInv, RInv, EInv, QuietStep PROVE EInv'
<1>1. /\ SameSeats /\ srv'.papayoo = srv.papayoo /\ srv'.game_running = srv.game_running
  BY QuietPhases DEF SamePhases
<1> SUFFICES ASSUME srv'.game_running, ~Asleep', NEW i \in Present'
             PROVE  Earned(i)'
  BY DEF EInv
<1> PICK c : c = Player(i)
  OBVIOUS
<1>2. i \in Present /\ c = Player(i)'
  BY <1>1, SeatKept
<1>3. ~Asleep
  BY DEF QuietStep, Idles, SignsUp, Informs, GetsEcart, CountsScore, SameTable, Refuses, FirstWord
<1>4. Earned(i)
  BY <1>1, <1>2, <1>3 DEF EInv
<1>5. /\ c \in Clients /\ c \in Playing /\ SeatOf(c) = i /\ i \in Seats
  BY <1>2, EarnedNow
<1>6. SamePile(c)
  BY <1>5, QuietRoles DEF StillAndChosen, Still
<1>7. ASSUME board'.scores = board.scores, hist'.earned = hist.earned,
             Reported(toServer'[c]) = Reported(toServer[c])
      PROVE  Earned(i)'
  <2>1. board'.scores[i] = board.scores[i] /\ hist'.earned[i] = hist.earned[i]
    BY <1>7
  <2>2. QED
    BY <1>1, <1>2, <1>4, <1>6, <1>7, <2>1, SameEarnings
<1>8. CASE Idles
  BY <1>5, <1>7, <1>8 DEF Idles, HearsNone, SameScores
<1>9. ASSUME NEW j \in Present, SignsUp(j) \/ Informs(j) \/ GetsEcart(j) PROVE Earned(i)'
  <2>1. PICK code \in {"ADD_PLAYER", "ASK_BASIC_INFO", "ECART"} : \E m : Hearing(j, code, m)
    BY <1>9 DEF SignsUp, Informs, GetsEcart
  <2>2. PICK m : Hearing(j, code, m)
    BY <2>1
  <2>3. Reported(toServer'[c]) = Reported(toServer[c])
    BY <1>5, <2>2, NoReport
  <2>4. board'.scores = board.scores /\ hist'.earned = hist.earned
    BY <1>9 DEF SignsUp, Informs, GetsEcart, SameScores
  <2>5. QED
    BY <1>7, <2>3, <2>4
<1>10. ASSUME NEW d \in Clients, Refuses(d) PROVE Earned(i)'
  <2>1. board' = board /\ hist' = hist /\ toServer'[c] = toServer[c]
    BY <1>5, <1>10 DEF Refuses, FirstWord, HearsNone
  <2>2. QED
    BY <1>7, <2>1
<1>11. ASSUME NEW j \in Present, CountsScore(j) PROVE Earned(i)'
  <2>1. PICK m : /\ Hearing(j, "UPDATE_SCORE", m)
                 /\ board'.scores = [board.scores EXCEPT ![j] = @ + m.score]
    BY <1>11 DEF CountsScore
  <2>2. hist'.earned = hist.earned /\ j \in Seats /\ SeatOf(Player(j)) = j
    BY <1>11, SeatFacts DEF CountsScore, UInv
  <2>3. board.scores \in [Seats -> Nat]
    BY DEF TInv, ServerTypes
  <2>4. CASE i # j
    <3>1. board'.scores[i] = board.scores[i] /\ hist'.earned[i] = hist.earned[i]
      BY <1>5, <2>1, <2>2, <2>3, <2>4
    <3>2. toServer'[c] = toServer[c]
      BY <1>5, <2>1, <2>2, <2>4 DEF Hearing
    <3>3. QED
      BY <1>1, <1>2, <1>4, <1>6, <3>1, <3>2, SameEarnings
  <2>5. CASE i = j
    <3> PICK q : q = toServer[c]
      OBVIOUS
    <3>1. q # <<>> /\ Head(q) = m /\ m.code = "UPDATE_SCORE" /\ toServer'[c] = Tail(q)
      BY <2>1, <2>5 DEF Hearing
    <3>2. Tallies(q)
      BY <1>5, TalliesOf
    <3>3. /\ Tallies(Tail(q)) /\ ScoreOf(m) \in Nat /\ Reported(q) = ScoreOf(m) + Reported(Tail(q))
      <4>1. /\ Tallies(Tail(q)) /\ ScoreOf(Head(q)) \in Nat
            /\ Reported(q) = ScoreOf(Head(q)) + Reported(Tail(q))
        BY <3>1, <3>2, ReportedTail
      <4>2. QED
        BY <3>1, <4>1
    <3>4. ScoreOf(m) = m.score
      BY <3>1 DEF ScoreOf
    <3>5. Reported(Tail(q)) \in Nat
      BY <3>3, ScoresSeq
    <3>6. board'.scores[i] = board.scores[i] + ScoreOf(m)
      BY <1>5, <2>1, <2>3, <2>5, <3>4
    <3>7. /\ board.scores[i] \in Nat /\ Points(PileOf(c), srv.papayoo) \in Nat
          /\ board.scores[i] + Reported(q) + Points(PileOf(c), srv.papayoo) = hist.earned[i]
      BY <1>2, <1>4, EarnedNow
    <3>8. board'.scores[i] + Reported(Tail(q)) + Points(PileOf(c), srv.papayoo) = hist.earned[i]
      BY <3>3, <3>5, <3>6, <3>7
    <3>9. board'.scores[i] + Reported(toServer'[c]) + Points(PileOf(c)', srv'.papayoo) = hist'.earned[i]
      BY <1>1, <1>6, <2>2, <3>1, <3>8 DEF SamePile
    <3>10. QED
      BY <1>2, <3>9, EarnedNext
  <2>6. QED
    BY <2>4, <2>5
<1>12. QED
  BY <1>8, <1>9, <1>10, <1>11 DEF QuietStep

LEMMA DealsEarned ==
  ASSUME UInv, Seated, TInv, RInv, EInv, NEW perm \in Shuffles, NEW papayoo, Deals(perm, papayoo)
  PROVE  EInv'
<1>1. SameTable /\ SameSeats /\ HearsNone /\ ~Asleep
  BY DEF Deals, SameTable
<1> SUFFICES ASSUME srv'.game_running, ~Asleep', NEW i \in Present'
             PROVE  Earned(i)'
  BY DEF EInv
<1> PICK c : c = Player(i)
  OBVIOUS
<1>2. i \in Present /\ c = Player(i)'
  BY <1>1, SeatKept
<1>3. c \in Clients /\ c \in Playing /\ SeatOf(c) = i /\ i \in Seats
  BY <1>2, EarnedNow
<1>4. PileOf(c)' = <<>> /\ PileOf(c) = <<>> /\ toServer'[c] = toServer[c]
  BY <1>1, <1>3, DealRoles DEF HearsNone
<1>5. Points(PileOf(c)', srv'.papayoo) = 0 /\ Points(PileOf(c), srv.papayoo) = 0
  BY <1>4, NoPoints
<1>6. CASE /\ ~srv.game_running
           /\ board'.scores = [k \in Seats |-> IF k \in Present THEN 0 ELSE board.scores[k]]
           /\ hist'.earned = [k \in Seats |-> 0]
  <2>1. board'.scores[i] = 0 /\ hist'.earned[i] = 0
    BY <1>2, <1>3, <1>6
  <2>2. ScoreDue(c) = 0
    BY <1>3, NothingDue
  <2>3. Count(toServer[c], "UPDATE_SCORE") = 0
    <3>1. Count(toClient[c], "ADD_SCORE") \in Nat /\ Count(toServer[c], "UPDATE_SCORE") \in Nat
      BY <1>3, QueuesOf, KindFinite
    <3>2. QED
      BY <2>2, <3>1 DEF ScoreDue
  <2>4. Reported(toServer[c]) = 0
    BY <1>3, <2>3, TalliesOf, ReportedNone
  <2>5. board'.scores[i] + Reported(toServer'[c]) + Points(PileOf(c)', srv'.papayoo) = hist'.earned[i]
    BY <1>4, <1>5, <2>1, <2>4
  <2>6. QED
    BY <1>2, <2>5, EarnedNext
<1>7. CASE srv.updating_score /\ board'.scores = board.scores /\ hist'.earned = hist.earned
  <2>1. srv.game_running
    BY <1>1, <1>7 DEF UInv, Phases
  <2>2. Earned(i)
    BY <1>1, <1>2, <2>1 DEF EInv
  <2>3. board.scores[i] + Reported(toServer[c]) + Points(PileOf(c), srv.papayoo) = hist.earned[i]
    BY <1>2, <2>2, EarnedNow
  <2>4. board'.scores[i] + Reported(toServer'[c]) + Points(PileOf(c)', srv'.papayoo) = hist'.earned[i]
    BY <1>4, <1>5, <1>7, <2>3
  <2>5. QED
    BY <1>2, <2>4, EarnedNext
<1>8. QED
  BY <1>6, <1>7 DEF Deals

LEMMA BackEarned ==
  ASSUME UInv, Seated, TInv, RInv, EInv, SendsBack PROVE EInv'
<1>1. SameTable /\ SameSeats /\ HearsNone /\ ~Asleep /\ SameRound /\ SameScores
  BY DEF SendsBack, SameTable
<1> SUFFICES ASSUME srv'.game_running, ~Asleep', NEW i \in Present'
             PROVE  Earned(i)'
  BY DEF EInv
<1> PICK c : c = Player(i)
  OBVIOUS
<1>2. i \in Present /\ c = Player(i)'
  BY <1>1, SeatKept
<1>3. c \in Clients /\ c \in Playing
  BY <1>2, EarnedNow
<1>4. SamePile(c) /\ toServer'[c] = toServer[c]
  <2> PICK d : d = Player(Giver(c))
    OBVIOUS
  <2>1. QED
    BY <1>1, <1>3, BackRoles DEF HearsNone
<1>5. Earned(i) /\ board'.scores[i] = board.scores[i] /\ hist'.earned[i] = hist.earned[i]
      /\ srv'.papayoo = srv.papayoo
  BY <1>1, <1>2 DEF EInv, SameRound, SameScores
<1>6. QED
  BY <1>2, <1>4, <1>5, SameEarnings

LEMMA TrickEarned ==
  ASSUME UInv, Seated, TInv, RInv, EInv, NEW j \in Present, TrickGoes(j) \/ TrickOver(j) \/ RoundEnds(j)
  PROVE  EInv'
<1>1. PICK m : LaysCard(j, m)
  BY DEF TrickGoes, TrickOver, RoundEnds, TrickTaken
<1>2. /\ SameTable /\ SameSeats /\ ~Asleep /\ srv'.papayoo = srv.papayoo
      /\ srv'.game_running = srv.game_running
      /\ board'.scores = board.scores /\ Hearing(j, "PLAY_CARD", m)
  BY <1>1 DEF LaysCard, SameTable, SameRound
<1> SUFFICES ASSUME srv'.game_running, ~Asleep', NEW i \in Present'
             PROVE  Earned(i)'
  BY DEF EInv
<1> PICK c : c = Player(i)
  OBVIOUS
<1>3. i \in Present /\ c = Player(i)'
  BY <1>2, SeatKept
<1>4. c \in Clients /\ c \in Playing /\ SeatOf(c) = i /\ i \in Seats
  BY <1>3, EarnedNow
<1>5. Earned(i)
  BY <1>2, <1>3 DEF EInv
<1>6. Reported(toServer'[c]) = Reported(toServer[c])
  <2> PICK code : code = "PLAY_CARD"
    OBVIOUS
  <2>1. Hearing(j, code, m) /\ code # "UPDATE_SCORE"
    BY <1>2
  <2>2. QED
    BY <1>4, <2>1, NoReport
<1>7. CASE TrickGoes(j)
  <2>1. SamePile(c) /\ hist'.earned[i] = hist.earned[i] /\ board'.scores[i] = board.scores[i]
    BY <1>2, <1>4, <1>7, TrickGoesRoles DEF TrickGoes
  <2>2. QED
    BY <1>2, <1>3, <1>5, <1>6, <2>1, SameEarnings
<1>8. CASE TrickOver(j) \/ RoundEnds(j)
  <2>1. TrickTaken(j)
    BY <1>8 DEF TrickOver, RoundEnds
  <2> PICK l : l = TrickLoser(j)
    OBVIOUS
  <2> PICK cards : cards = TrickCards(j)
    OBVIOUS
  <2>2. PileOf(c)' = IF c = Player(l) THEN Glue(PileOf(c), cards) ELSE PileOf(c)
    BY <1>4, <1>8, TrickOverRoles, RoundEndsRoles
  <2>3. /\ SeatOf(Player(l)) = l /\ cards \in CardSeq /\ l \in Present
    BY <1>4, <2>1, TrickTakenRoles DEF TrickTaken
  <2>4. hist'.earned = [hist.earned EXCEPT ![l] = @ + Points(cards, srv.papayoo)]
        /\ hist.earned \in [Seats -> Nat]
    BY <2>1 DEF TrickTaken, TInv, ServerTypes
  <2>5. CASE c = Player(l)
    <3>1. i = l
      BY <1>4, <2>3, <2>5
    <3>2. hist'.earned[i] = hist.earned[i] + Points(cards, srv.papayoo)
      BY <1>4, <2>4, <3>1
    <3>3. Points(PileOf(c)', srv'.papayoo) = Points(PileOf(c), srv.papayoo) + Points(cards, srv.papayoo)
      <4> PICK x : x = PileOf(c)
        OBVIOUS
      <4>1. x \in CardSeq
        BY <1>4, RolesSeq
      <4>2. Points(Glue(x, cards), srv.papayoo) = Points(x, srv.papayoo) + Points(cards, srv.papayoo)
        BY <2>3, <4>1, PointsGlue
      <4>3. QED
        BY <1>2, <2>2, <2>5, <4>2
    <3>4. /\ board.scores[i] \in Nat /\ Reported(toServer[c]) \in Nat
          /\ Points(PileOf(c), srv.papayoo) \in Nat /\ Points(cards, srv.papayoo) \in Nat
          /\ board.scores[i] + Reported(toServer[c]) + Points(PileOf(c), srv.papayoo) = hist.earned[i]
      BY <1>3, <1>5, <2>3, EarnedNow, PointsNat
    <3>5. board.scores[i] + Reported(toServer[c])
            + (Points(PileOf(c), srv.papayoo) + Points(cards, srv.papayoo))
              = hist.earned[i] + Points(cards, srv.papayoo)
      BY <3>4
    <3>6. board'.scores[i] + Reported(toServer'[c]) + Points(PileOf(c)', srv'.papayoo) = hist'.earned[i]
      BY <1>2, <1>6, <3>2, <3>3, <3>5
    <3>7. QED
      BY <1>3, <3>6, EarnedNext
  <2>6. CASE c # Player(l)
    <3>1. i # l
      BY <1>3, <2>6
    <3>2. SamePile(c) /\ hist'.earned[i] = hist.earned[i] /\ board'.scores[i] = board.scores[i]
      BY <1>2, <1>4, <2>2, <2>4, <2>6, <3>1 DEF SamePile
    <3>3. QED
      BY <1>2, <1>3, <1>5, <1>6, <3>2, SameEarnings
  <2>7. QED
    BY <2>5, <2>6
<1>9. QED
  BY <1>7, <1>8

-----------------------------------------------------------------------------
LEMMA EInvServer ==
  ASSUME UInv, Seated, TInv, RInv, EInv, ServerNext PROVE EInv'
<1>1. ASSUME NEW perm \in Shuffles, NEW papayoo \in Suits, Deals(perm, papayoo) PROVE EInv'
  BY <1>1, DealsEarned
<1>2. ASSUME NEW i \in Present, TrickGoes(i) \/ TrickOver(i) \/ RoundEnds(i) PROVE EInv'
  BY <1>2, TrickEarned
<1>3. ASSUME Clears PROVE EInv'
  BY <1>3 DEF Clears, EInv
<1>4. ASSUME NEW d \in Clients, Admits(d) PROVE EInv'
  BY <1>4 DEF Admits, FirstWord, EInv
<1>5. QED
  BY <1>1, <1>2, <1>3, <1>4, ServerCases, QuietEarned, BackEarned

LEMMA EInvInit == Init => EInv
  BY DEF Init, ServerInit, EInv

LEMMA EInvStutter == ASSUME UInv, Seated, TInv, EInv, UNCHANGED vars PROVE EInv'
<1>1. UNCHANGED network /\ UNCHANGED <<players, alarm, srv, board, loop, hist>> /\ cl' = cl
  BY DEF vars, serverVars, clientVars
<1>2. UNCHANGED <<conn, toClient, toServer, players, srv, board, loop, hist, cl>>
  BY <1>1 DEF network
<1>3. Present' = Present /\ (Asleep' <=> Asleep) /\ \A i : Player(i)' = Player(i)
  BY <1>2 DEF amount_players, Present, Asleep, Player
<1> SUFFICES ASSUME srv'.game_running, ~Asleep', NEW i \in Present'
             PROVE  Earned(i)'
  BY DEF EInv
<1> PICK c : c = Player(i)
  OBVIOUS
<1>4. i \in Present /\ c = Player(i)' /\ Earned(i)
  BY <1>2, <1>3 DEF EInv
<1>5. SamePile(c)
  BY <1>2, RolesAre, RolesWillBe DEF SamePile
<1>6. QED
  BY <1>2, <1>4, <1>5, SameEarnings

LEMMA EInvNext == ASSUME Undisturbed, UInv, Seated, TInv, RInv, EInv, [Next]_vars PROVE EInv'
<1>1. CASE ServerNext
  BY <1>1, EInvServer
<1>2. CASE ClientNext
  <2>1. PICK c \in Clients : Alone(c) /\ Moves(c)
    BY <1>2, ClientMoves
  <2>2. QED
    BY <2>1, EInvClient
<1>3. CASE UNCHANGED vars
  BY <1>3, EInvStutter
<1>4. QED
  BY <1>1, <1>2, <1>3 DEF Next

(***************************************************************************)
(* While a game runs, the score of a player on the board, with what it has *)
(* reported and what its pile will make it report, is what the tricks it   *)
(* took are worth (update_score, serveur.c; add_score, joueur.c): no       *)
(* report is lost, counted twice or counted for another, as long as nobody *)
(* leaves.                                                                 *)
(***************************************************************************)
THEOREM ScoresAreEarnedThm == ASSUME Undisturbed PROVE Spec => []ScoresAreEarned
<1>1. Init => EInv
  BY EInvInit
<1>2. (Seated /\ UInv /\ TInv /\ RInv) /\ EInv /\ [Next]_vars => EInv'
  BY EInvNext
<1>3. EInv => ScoresAreEarned
  BY DEF EInv, Earned, ScoresAreEarned, Asleep
<1>4. QED
  BY <1>1, <1>2, <1>3, OrderCourse, PTL DEF Spec

-----------------------------------------------------------------------------
(* Cards that are moved between places.                                    *)

\* The places P hold, in the family h, n cards, each of them once.
Conserved(P, h, n) ==
  /\ \A p \in P : IsInjective(h[p])
  /\ \A p, q \in P : p # q => ToSet(h[p]) \cap ToSet(h[q]) = {}
  /\ Cardinality(UNION {ToSet(h[p]) : p \in P}) = n

\* The cards of two sequences, one behind the other.
LEMMA GlueCards ==
  ASSUME NEW x \in CardSeq, NEW y \in CardSeq
  PROVE  /\ ToSet(Glue(x, y)) = ToSet(x) \cup ToSet(y)
         /\ IsInjective(x) /\ IsInjective(y) /\ ToSet(x) \cap ToSet(y) = {} => IsInjective(Glue(x, y))
<1> PICK z : z = Glue(x, y)
  OBVIOUS
<1> PICK a : a = Len(x)
  OBVIOUS
<1> PICK b : b = Len(y)
  OBVIOUS
<1>1. /\ a \in Nat /\ b \in Nat /\ DOMAIN x = 1..a /\ DOMAIN y = 1..b
  BY DEF CardSeq
<1>2. /\ DOMAIN z = 1..a + b
      /\ \A k \in 1..a + b : z[k] = IF k <= a THEN x[k] ELSE y[k - a]
  <2> DEFINE S == AnyCard
  <2>1. x \in Seq(S) /\ y \in Seq(S)
    BY DEF CardSeq
  <2> HIDE DEF S
  <2>2. /\ x \o y \in Seq(S) /\ Len(x \o y) = Len(x) + Len(y)
        /\ \A k \in 1..Len(x) + Len(y) : (x \o y)[k] = IF k <= Len(x) THEN x[k] ELSE y[k - Len(x)]
    BY <2>1, ConcatProperties
  <2>3. DOMAIN (x \o y) = 1..Len(x \o y)
    BY <2>2
  <2>4. z = x \o y
    BY DEF Glue
  <2>5. QED
    BY <2>2, <2>3, <2>4
<1>3. \A k \in 1..a : k \in 1..a + b /\ z[k] = x[k]
  BY <1>1, <1>2
<1>4. \A k \in 1..b : k + a \in 1..a + b /\ z[k + a] = y[k]
  <2>1. ASSUME NEW k \in 1..b PROVE k + a \in 1..a + b /\ z[k + a] = y[k]
    <3>1. k + a \in 1..a + b /\ ~(k + a <= a) /\ k + a - a = k
      BY <1>1
    <3>2. QED
      BY <1>2, <3>1
  <2>2. QED
    BY <2>1
<1>5. \A k \in 1..a + b : (k \in 1..a) \/ (~(k \in 1..a) /\ k - a \in 1..b /\ z[k] = y[k - a])
  <2>1. ASSUME NEW k \in 1..a + b, k \notin 1..a PROVE k - a \in 1..b /\ z[k] = y[k - a]
    <3>1. ~(k <= a) /\ k - a \in 1..b
      BY <1>1, <2>1
    <3>2. QED
      BY <1>2, <3>1
  <2>2. QED
    BY <2>1
<1>6. ToSet(z) = {z[k] : k \in 1..a + b} /\ ToSet(x) = {x[k] : k \in 1..a}
      /\ ToSet(y) = {y[k] : k \in 1..b}
  BY <1>1, <1>2 DEF ToSet
<1>7. ToSet(z) = ToSet(x) \cup ToSet(y)
  <2>1. ToSet(z) \subseteq ToSet(x) \cup ToSet(y)
    BY <1>3, <1>5, <1>6
  <2>2. ToSet(x) \subseteq ToSet(z)
    BY <1>3, <1>6
  <2>3. ToSet(y) \subseteq ToSet(z)
    BY <1>4, <1>6
  <2>4. QED
    BY <2>1, <2>2, <2>3
<1>8. ASSUME IsInjective(x), IsInjective(y), ToSet(x) \cap ToSet(y) = {} PROVE IsInjective(z)
  <2>1. /\ \A i, j \in 1..a : x[i] = x[j] => i = j
        /\ \A i, j \in 1..b : y[i] = y[j] => i = j
    BY <1>1, <1>8 DEF IsInjective
  <2>2. \A i \in 1..a, j \in 1..b : x[i] # y[j]
    BY <1>6, <1>8
  <2>3. ASSUME NEW i \in 1..a + b, NEW j \in 1..a + b, z[i] = z[j] PROVE i = j
    <3>1. CASE i \in 1..a /\ j \in 1..a
      BY <1>3, <2>1, <2>3, <3>1
    <3>2. CASE i \notin 1..a /\ j \notin 1..a
      <4>1. i - a \in 1..b /\ j - a \in 1..b /\ y[i - a] = y[j - a]
        BY <1>5, <2>3, <3>2
      <4>2. i - a = j - a
        BY <2>1, <4>1
      <4>3. QED
        BY <1>1, <4>2
    <3>3. CASE i \in 1..a /\ j \notin 1..a
      BY <1>3, <1>5, <2>2, <2>3, <3>3
    <3>4. CASE i \notin 1..a /\ j \in 1..a
      BY <1>3, <1>5, <2>2, <2>3, <3>4
    <3>5. QED
      BY <3>1, <3>2, <3>3, <3>4
  <2>4. QED
    BY <1>2, <2>3 DEF IsInjective
<1>9. QED
  BY <1>7, <1>8

LEMMA NoCards == IsInjective(<<>>) /\ ToSet(<<>>) = {}
  BY DEF IsInjective, ToSet

\* Some cards go from one place to another.
LEMMA Moved ==
  ASSUME NEW P, NEW h, NEW g, NEW n, Conserved(P, h, n),
         NEW a \in P, NEW b \in P, a # b, NEW x \in CardSeq,
         Split(h[a], g[a], x), h[b] \in CardSeq, g[b] = Glue(h[b], x),
         \A p \in P : p # a /\ p # b => g[p] = h[p]
  PROVE  Conserved(P, g, n)
<1> PICK X : X = ToSet(x)
  OBVIOUS
<1> DEFINE S(p) == ToSet(h[p])
           T(p) == ToSet(g[p])
<1>1. /\ \A p \in P : IsInjective(h[p])
      /\ \A p, q \in P : p # q => S(p) \cap S(q) = {}
      /\ Cardinality(UNION {S(p) : p \in P}) = n
  BY DEF Conserved
<1>2. /\ IsInjective(g[a]) /\ IsInjective(x) /\ T(a) \cap X = {} /\ S(a) = T(a) \cup X
  BY <1>1 DEF Split
<1>3. S(a) \cap S(b) = {}
  BY <1>1
<1>4. S(b) \cap X = {}
  BY <1>2, <1>3
<1>5. T(b) = S(b) \cup X /\ IsInjective(g[b])
  <2>1. ToSet(Glue(h[b], x)) = S(b) \cup X
    BY GlueCards
  <2>2. IsInjective(h[b]) /\ ToSet(h[b]) \cap ToSet(x) = {}
    BY <1>1, <1>4
  <2>3. IsInjective(Glue(h[b], x))
    BY <1>2, <2>2, GlueCards
  <2>4. QED
    BY <2>1, <2>3
<1>6. \A p \in P : p # a /\ p # b => T(p) = S(p) /\ IsInjective(g[p])
  BY <1>1
<1>7. \A p \in P : IsInjective(g[p])
  BY <1>2, <1>5, <1>6
<1> HIDE DEF S, T
<1>8. ASSUME NEW p \in P, NEW q \in P, p # q PROVE T(p) \cap T(q) = {}
  <2>1. S(p) \cap S(q) = {} /\ S(p) \cap S(a) = (IF p = a THEN S(a) ELSE {})
        /\ S(q) \cap S(a) = (IF q = a THEN S(a) ELSE {})
    BY <1>1, <1>8
  <2>2. CASE p = a /\ q = b
    BY <1>2, <1>3, <1>5, <2>2
  <2>3. CASE p = b /\ q = a
    BY <1>2, <1>3, <1>5, <2>3
  <2>4. CASE p = a /\ q # b
    BY <1>2, <1>6, <1>8, <2>1, <2>4
  <2>5. CASE q = a /\ p # b
    BY <1>2, <1>6, <1>8, <2>1, <2>5
  <2>6. CASE p = b /\ q # a
    BY <1>2, <1>5, <1>6, <1>8, <2>1, <2>6
  <2>7. CASE q = b /\ p # a
    BY <1>2, <1>5, <1>6, <1>8, <2>1, <2>7
  <2>8. CASE p \notin {a, b} /\ q \notin {a, b}
    BY <1>6, <2>1, <2>8
  <2>9. QED
    BY <2>2, <2>3, <2>4, <2>5, <2>6, <2>7, <2>8
<1>9. UNION {T(p) : p \in P} = UNION {S(p) : p \in P}
  <2>1. ASSUME NEW v, NEW p \in P, v \in T(p) PROVE \E q \in P : v \in S(q)
    <3>1. CASE p = a
      BY <1>2, <2>1, <3>1
    <3>2. CASE p = b
      BY <1>2, <1>5, <2>1, <3>2
    <3>3. CASE p # a /\ p # b
      BY <1>6, <2>1, <3>3
    <3>4. QED
      BY <3>1, <3>2, <3>3
  <2>2. ASSUME NEW v, NEW p \in P, v \in S(p) PROVE \E q \in P : v \in T(q)
    <3>1. CASE p = a
      BY <1>2, <1>5, <2>2, <3>1
    <3>2. CASE p = b
      BY <1>5, <2>2, <3>2
    <3>3. CASE p # a /\ p # b
      BY <1>6, <2>2, <3>3
    <3>4. QED
      BY <3>1, <3>2, <3>3
  <2>3. QED
    BY <2>1, <2>2
<1>10. QED
  BY <1>1, <1>7, <1>8, <1>9 DEF Conserved, S, T

\* All the cards of a place.
LEMMA SplitAll == ASSUME NEW x \in CardSeq PROVE Split(x, <<>>, x)
<1>1. <<>> \in CardSeq /\ IsInjective(<<>>) /\ ToSet(<<>>) = {} /\ Len(<<>>) = 0
  BY GlueNothing, NoCards
<1>2. Len(x) \in Nat
  BY DEF CardSeq
<1>3. Len(x) = 0 + Len(x)
  BY <1>2
<1>4. QED
  BY <1>1, <1>3 DEF Split

-----------------------------------------------------------------------------
(* The places where cards are.                                             *)

HandAt(c)   == <<"hand", c>>
EcartAt(c)  == <<"ecart", c>>
PlayedAt(c) == <<"played", c>>
PileAt(c)   == <<"pile", c>>
BoardAt     == <<"board", NoName>>

PlacesOf(c) == {HandAt(c), EcartAt(c), PlayedAt(c), PileAt(c)}

HeldAt == [p \in Places |-> Held(p)]

LEMMA PlacesDiffer ==
  /\ \A c, d : /\ HandAt(c) # EcartAt(d) /\ HandAt(c) # PlayedAt(d) /\ HandAt(c) # PileAt(d)
               /\ EcartAt(c) # PlayedAt(d) /\ EcartAt(c) # PileAt(d) /\ PlayedAt(c) # PileAt(d)
               /\ HandAt(c) = HandAt(d) => c = d
               /\ EcartAt(c) = EcartAt(d) => c = d
               /\ PlayedAt(c) = PlayedAt(d) => c = d
               /\ PileAt(c) = PileAt(d) => c = d
  /\ \A c : BoardAt \notin PlacesOf(c)
  BY DEF HandAt, EcartAt, PlayedAt, PileAt, BoardAt, PlacesOf

LEMMA PlacesAre ==
  /\ BoardAt \in Places
  /\ \A c \in Playing : /\ HandAt(c) \in Places /\ EcartAt(c) \in Places
                        /\ PlayedAt(c) \in Places /\ PileAt(c) \in Places
  /\ \A p \in Places : p = BoardAt \/ \E c \in Playing : p \in PlacesOf(c)
  BY DEF Places, HandAt, EcartAt, PlayedAt, PileAt, BoardAt, PlacesOf

LEMMA HeldThere ==
  /\ HeldAt[BoardAt] = CardsOnBoard
  /\ \A c \in Playing : /\ HeldAt[HandAt(c)] = HandOf(c) /\ HeldAt[EcartAt(c)] = EcartOf(c)
                        /\ HeldAt[PlayedAt(c)] = PlayedBy(c) /\ HeldAt[PileAt(c)] = PileOf(c)
<1>1. \A p \in Places : HeldAt[p] = Held(p)
  BY DEF HeldAt
<1>2. HeldAt[BoardAt] = Held(BoardAt)
  BY <1>1, PlacesAre
<1>3. Held(BoardAt) = CardsOnBoard
  BY DEF Held, BoardAt
<1>4. ASSUME NEW c
      PROVE  /\ Held(HandAt(c)) = HandOf(c) /\ Held(EcartAt(c)) = EcartOf(c)
             /\ Held(PlayedAt(c)) = PlayedBy(c) /\ Held(PileAt(c)) = PileOf(c)
  <2>1. HandAt(c)[1] = "hand" /\ HandAt(c)[2] = c /\ EcartAt(c)[1] = "ecart" /\ EcartAt(c)[2] = c
        /\ PlayedAt(c)[1] = "played" /\ PlayedAt(c)[2] = c /\ PileAt(c)[1] = "pile" /\ PileAt(c)[2] = c
    BY DEF HandAt, EcartAt, PlayedAt, PileAt
  <2>2. Held(HandAt(c)) = HandOf(c)
    BY <2>1 DEF Held
  <2>3. Held(EcartAt(c)) = EcartOf(c)
    BY <2>1 DEF Held
  <2>4. Held(PlayedAt(c)) = PlayedBy(c)
    BY <2>1 DEF Held
  <2>5. Held(PileAt(c)) = PileOf(c)
    BY <2>1 DEF Held
  <2>6. QED
    BY <2>2, <2>3, <2>4, <2>5
<1>5. \A c \in Playing : /\ HeldAt[HandAt(c)] = Held(HandAt(c)) /\ HeldAt[EcartAt(c)] = Held(EcartAt(c))
                         /\ HeldAt[PlayedAt(c)] = Held(PlayedAt(c)) /\ HeldAt[PileAt(c)] = Held(PileAt(c))
  BY <1>1, PlacesAre
<1>6. QED
  BY <1>2, <1>3, <1>4, <1>5

LEMMA WillBeThere ==
  /\ HeldAt'[BoardAt] = CardsOnBoard'
  /\ \A c \in Playing' : /\ HeldAt'[HandAt(c)] = HandOf(c)' /\ HeldAt'[EcartAt(c)] = EcartOf(c)'
                         /\ HeldAt'[PlayedAt(c)] = PlayedBy(c)' /\ HeldAt'[PileAt(c)] = PileOf(c)'
<1>1. Places' = ({"hand", "ecart", "played", "pile"} \X Playing') \cup {BoardAt}
  BY DEF Places, BoardAt
<1>2. \A p \in Places' : HeldAt'[p] = Held(p)'
  BY DEF HeldAt
<1>3. Held(BoardAt)' = CardsOnBoard'
  BY DEF Held, BoardAt
<1>4. ASSUME NEW c
      PROVE  /\ Held(HandAt(c))' = HandOf(c)' /\ Held(EcartAt(c))' = EcartOf(c)'
             /\ Held(PlayedAt(c))' = PlayedBy(c)' /\ Held(PileAt(c))' = PileOf(c)'
  <2>1. HandAt(c)[1] = "hand" /\ HandAt(c)[2] = c /\ EcartAt(c)[1] = "ecart" /\ EcartAt(c)[2] = c
        /\ PlayedAt(c)[1] = "played" /\ PlayedAt(c)[2] = c /\ PileAt(c)[1] = "pile" /\ PileAt(c)[2] = c
    BY DEF HandAt, EcartAt, PlayedAt, PileAt
  <2>2. Held(HandAt(c))' = HandOf(c)'
    BY <2>1 DEF Held
  <2>3. Held(EcartAt(c))' = EcartOf(c)'
    BY <2>1 DEF Held
  <2>4. Held(PlayedAt(c))' = PlayedBy(c)'
    BY <2>1 DEF Held
  <2>5. Held(PileAt(c))' = PileOf(c)'
    BY <2>1 DEF Held
  <2>6. QED
    BY <2>2, <2>3, <2>4, <2>5
<1>5. BoardAt \in Places'
  BY <1>1
<1>6. \A c \in Playing' : /\ HandAt(c) \in Places' /\ EcartAt(c) \in Places'
                          /\ PlayedAt(c) \in Places' /\ PileAt(c) \in Places'
  BY <1>1 DEF HandAt, EcartAt, PlayedAt, PileAt
<1>7. HeldAt'[BoardAt] = CardsOnBoard'
  BY <1>2, <1>3, <1>5
<1>8. ASSUME NEW c \in Playing'
      PROVE  /\ HeldAt'[HandAt(c)] = HandOf(c)' /\ HeldAt'[EcartAt(c)] = EcartOf(c)'
             /\ HeldAt'[PlayedAt(c)] = PlayedBy(c)' /\ HeldAt'[PileAt(c)] = PileOf(c)'
  BY <1>2, <1>4, <1>6
<1>9. QED
  BY <1>7, <1>8

\* What is true of the holdings.
AllHeld == Conserved(Places, HeldAt, amount_players * HandSize)

LEMMA ConservedAre ==
  AllHeld <=> /\ \A p \in Places : IsInjective(Held(p))
              /\ \A p, q \in Places : p # q => ToSet(Held(p)) \cap ToSet(Held(q)) = {}
              /\ Cardinality(UNION {ToSet(Held(p)) : p \in Places})
                   = amount_players * (DeckSize \div amount_players)
<1> PICK h : h = HeldAt
  OBVIOUS
<1>1. \A p \in Places : h[p] = Held(p)
  BY DEF HeldAt
<1>2. {ToSet(h[p]) : p \in Places} = {ToSet(Held(p)) : p \in Places}
  BY <1>1
<1>3. QED
  BY <1>1, <1>2 DEF AllHeld, Conserved, HandSize

\* The cards on the board.
LEMMA BoardSeq ==
  ASSUME UInv, Seated, TInv
  PROVE  /\ CardsOnBoard \in CardSeq /\ board.pli_size \in Nat /\ board.pli_size <= MAX_PLAYERS
         /\ Len(CardsOnBoard) = board.pli_size
         /\ \A k \in 1..board.pli_size : CardsOnBoard[k] = board.pli[k - 1].card
         /\ ~InTricks => CardsOnBoard = <<>>
<1>1. board.pli_size \in Nat /\ board.pli_size <= MAX_PLAYERS
  <2>1. CASE InTricks
    <3>1. amount_players \in Nat /\ amount_players <= MAX_PLAYERS /\ MAX_PLAYERS \in Nat
          /\ board.pli_size \in 0..amount_players - 1
      BY <2>1, SeatFacts, ServerAssumption DEF UInv, Phases
    <3>2. QED
      BY <3>1
  <2>2. CASE ~InTricks
    BY <2>2, ServerAssumption DEF UInv, Phases
  <2>3. QED
    BY <2>1, <2>2
<1> PICK z \in Nat : z = board.pli_size
  BY <1>1
<1> PICK b : b = board.pli
  OBVIOUS
<1>2. \A k \in 1..z : b[k - 1].card \in AnyCard
  <2>1. b \in [Seats -> PlayedCard]
    BY DEF TInv, ServerTypes
  <2>2. ASSUME NEW k \in 1..z PROVE b[k - 1].card \in AnyCard
    <3>1. k - 1 \in Seats
      BY <1>1, ServerAssumption DEF Seats
    <3>2. b[k - 1] \in PlayedCard
      BY <2>1, <3>1
    <3>3. QED
      BY <3>2 DEF PlayedCard
  <2>3. QED
    BY <2>2
<1>3. CardsOnBoard = [k \in 1..z |-> b[k - 1].card]
  BY DEF CardsOnBoard
<1>4. [k \in 1..z |-> b[k - 1].card] \in Seq(AnyCard)
  BY <1>2, IsASeq
<1>5. CardsOnBoard \in CardSeq /\ Len(CardsOnBoard) = z
  BY <1>3, <1>4 DEF CardSeq
<1>6. \A k \in 1..z : CardsOnBoard[k] = b[k - 1].card
  BY <1>3
<1>7. ~InTricks => CardsOnBoard = <<>>
  <2>1. ASSUME ~InTricks PROVE CardsOnBoard = <<>>
    <3>1. Len(CardsOnBoard) = 0 /\ CardsOnBoard \in Seq(AnyCard)
      BY <1>5, <2>1 DEF UInv, Phases, CardSeq
    <3>2. QED
      BY <3>1, EmptySeq
  <2>2. QED
    BY <2>1
<1>8. QED
  BY <1>1, <1>5, <1>6, <1>7

-----------------------------------------------------------------------------
(* The cards of a round: the steps of a client.                            *)

CInv == srv.game_running /\ ~srv.updating_score /\ ~Asleep => AllHeld

SameBoard == CardsOnBoard' = CardsOnBoard /\ Playing' = Playing /\ amount_players' = amount_players

LEMMA SameFamily ==
  ASSUME NEW P, NEW h, NEW g, NEW n, Conserved(P, h, n), \A p \in P : g[p] = h[p]
  PROVE  Conserved(P, g, n)
<1>1. {ToSet(g[p]) : p \in P} = {ToSet(h[p]) : p \in P}
  OBVIOUS
<1>2. QED
  BY <1>1 DEF Conserved

LEMMA HeldNext ==
  ASSUME Playing' = Playing, amount_players' = amount_players
  PROVE  Places' = Places
         /\ AllHeld' <=> Conserved(Places, HeldAt', amount_players * HandSize)
<1>1. Places' = Places
  BY DEF Places
<1>2. HandSize' = HandSize
  BY DEF HandSize
<1>3. QED
  BY <1>1, <1>2 DEF AllHeld

LEMMA StillThere ==
  ASSUME Playing' = Playing, NEW c \in Playing, Still(c)
  PROVE  \A p \in PlacesOf(c) : HeldAt'[p] = HeldAt[p]
<1>1. /\ HeldAt[HandAt(c)] = HandOf(c) /\ HeldAt[EcartAt(c)] = EcartOf(c)
      /\ HeldAt[PlayedAt(c)] = PlayedBy(c) /\ HeldAt[PileAt(c)] = PileOf(c)
  BY HeldThere
<1>2. /\ HeldAt'[HandAt(c)] = HandOf(c)' /\ HeldAt'[EcartAt(c)] = EcartOf(c)'
      /\ HeldAt'[PlayedAt(c)] = PlayedBy(c)' /\ HeldAt'[PileAt(c)] = PileOf(c)'
  BY WillBeThere
<1>3. QED
  BY <1>1, <1>2 DEF PlacesOf, Still, SameHand, SameEcart, SamePlay, SamePile

LEMMA StillHeld ==
  ASSUME SameBoard, AllHeld, \A c \in Playing : Still(c)
  PROVE  AllHeld'
<1>1. HeldAt'[BoardAt] = HeldAt[BoardAt]
  BY HeldThere, WillBeThere DEF SameBoard
<1>2. \A c \in Playing : \A p \in PlacesOf(c) : HeldAt'[p] = HeldAt[p]
  BY StillThere DEF SameBoard
<1>3. \A p \in Places : HeldAt'[p] = HeldAt[p]
  BY <1>1, <1>2, PlacesAre
<1>4. QED
  BY <1>3, SameFamily, HeldNext DEF AllHeld, SameBoard

\* What the other clients have does not change.
LEMMA OthersStill ==
  ASSUME NEW c \in Clients, Alone(c), NEW d \in Clients, d # c
  PROVE  Still(d)
<1>1. Kept
  BY AloneKept
<1>2. toClient'[d] = toClient[d] /\ toServer'[d] = toServer[d] /\ cl'[d] = cl[d]
  BY DEF Alone
<1>3. Given(d)' = Given(d)
  BY <1>1 DEF Kept, Given
<1>4. QED
  BY <1>2, <1>3, RolesAre, RolesWillBe DEF Still, SameHand, SameEcart, SamePlay, SamePile

\* The sequences that the places hold are sequences of cards.
LEMMA HeldSeq ==
  ASSUME UInv, Seated, TInv
  PROVE  \A p \in Places : HeldAt[p] \in CardSeq
<1>1. HeldAt[BoardAt] \in CardSeq
  BY BoardSeq, HeldThere
<1>2. ASSUME NEW c \in Playing PROVE \A p \in PlacesOf(c) : HeldAt[p] \in CardSeq
  <2>1. c \in Clients
    BY SeatFacts DEF UInv
  <2>2. /\ HandOf(c) \in CardSeq /\ EcartOf(c) \in CardSeq /\ PlayedBy(c) \in CardSeq
        /\ PileOf(c) \in CardSeq
    BY <2>1, RolesSeq
  <2>3. QED
    BY <2>2, HeldThere DEF PlacesOf
<1>3. QED
  BY <1>1, <1>2, PlacesAre

LEMMA GivesHeld ==
  ASSUME UInv, Seated, TInv, RInv, AllHeld, NEW c \in Clients, Alone(c), GivesEcart(c), SameBoard
  PROVE  AllHeld'
<1>1. c \in Playing /\ SamePile(c) /\ SamePlay(c)
  BY GivesRoles
<1> PICK h : h = HeldAt
  OBVIOUS
<1> PICK g : g = HeldAt'
  OBVIOUS
<1> PICK a : a = HandAt(c)
  OBVIOUS
<1> PICK b : b = EcartAt(c)
  OBVIOUS
<1>2. PICK x \in CardSeq : Split(HandOf(c), HandOf(c)', x) /\ EcartOf(c) = <<>> /\ EcartOf(c)' = x
  BY GivesRoles
<1>3. /\ h[a] = HandOf(c) /\ h[b] = EcartOf(c) /\ h[PlayedAt(c)] = PlayedBy(c) /\ h[PileAt(c)] = PileOf(c)
      /\ g[a] = HandOf(c)' /\ g[b] = EcartOf(c)' /\ g[PlayedAt(c)] = PlayedBy(c)'
      /\ g[PileAt(c)] = PileOf(c)' /\ g[BoardAt] = h[BoardAt]
  BY <1>1, HeldThere, WillBeThere DEF SameBoard
<1>4. a \in Places /\ b \in Places /\ a # b
  BY <1>1, PlacesAre, PlacesDiffer
<1>5. ASSUME NEW d \in Playing, d # c PROVE \A p \in PlacesOf(d) : g[p] = h[p]
  <2>1. d \in Clients
    BY SeatFacts DEF UInv
  <2>2. QED
    BY <1>5, <2>1, OthersStill, StillThere DEF SameBoard
<1>6. \A p \in PlacesOf(c) : p # a /\ p # b => g[p] = h[p]
  BY <1>1, <1>3 DEF PlacesOf, SamePlay, SamePile
<1>7. \A p \in Places : p # a /\ p # b => g[p] = h[p]
  BY <1>3, <1>5, <1>6, PlacesAre
<1>8. h[b] \in CardSeq /\ g[b] = Glue(h[b], x)
  BY <1>2, <1>3, GlueNothing
<1>9. Split(h[a], g[a], x)
  BY <1>2, <1>3
<1> PICK n : n = amount_players * HandSize
  OBVIOUS
<1>10. Conserved(Places, h, n)
  BY DEF AllHeld
<1>11. Conserved(Places, g, n)
  BY <1>4, <1>7, <1>8, <1>9, <1>10, Moved
<1>12. QED
  BY <1>11, HeldNext DEF SameBoard

LEMMA PlaysHeld ==
  ASSUME UInv, Seated, TInv, RInv, AllHeld, NEW c \in Clients, Alone(c), PlaysCard(c), SameBoard
  PROVE  AllHeld'
<1>1. c \in Playing /\ SamePile(c) /\ SameEcart(c)
  BY PlaysRoles
<1> PICK h : h = HeldAt
  OBVIOUS
<1> PICK g : g = HeldAt'
  OBVIOUS
<1> PICK a : a = HandAt(c)
  OBVIOUS
<1> PICK b : b = PlayedAt(c)
  OBVIOUS
<1>2. PICK x \in CardSeq : Split(HandOf(c), HandOf(c)', x) /\ PlayedBy(c) = <<>> /\ PlayedBy(c)' = x
  BY PlaysRoles
<1>3. /\ h[a] = HandOf(c) /\ h[b] = PlayedBy(c) /\ h[EcartAt(c)] = EcartOf(c) /\ h[PileAt(c)] = PileOf(c)
      /\ g[a] = HandOf(c)' /\ g[b] = PlayedBy(c)' /\ g[EcartAt(c)] = EcartOf(c)'
      /\ g[PileAt(c)] = PileOf(c)' /\ g[BoardAt] = h[BoardAt]
  BY <1>1, HeldThere, WillBeThere DEF SameBoard
<1>4. a \in Places /\ b \in Places /\ a # b
  BY <1>1, PlacesAre, PlacesDiffer
<1>5. ASSUME NEW d \in Playing, d # c PROVE \A p \in PlacesOf(d) : g[p] = h[p]
  <2>1. d \in Clients
    BY SeatFacts DEF UInv
  <2>2. QED
    BY <1>5, <2>1, OthersStill, StillThere DEF SameBoard
<1>6. \A p \in PlacesOf(c) : p # a /\ p # b => g[p] = h[p]
  BY <1>1, <1>3 DEF PlacesOf, SameEcart, SamePile
<1>7. \A p \in Places : p # a /\ p # b => g[p] = h[p]
  BY <1>3, <1>5, <1>6, PlacesAre
<1>8. h[b] \in CardSeq /\ g[b] = Glue(h[b], x)
  BY <1>2, <1>3, GlueNothing
<1>9. Split(h[a], g[a], x)
  BY <1>2, <1>3
<1> PICK n : n = amount_players * HandSize
  OBVIOUS
<1>10. Conserved(Places, h, n)
  BY DEF AllHeld
<1>11. Conserved(Places, g, n)
  BY <1>4, <1>7, <1>8, <1>9, <1>10, Moved
<1>12. QED
  BY <1>11, HeldNext DEF SameBoard

LEMMA CInvClient ==
  ASSUME UInv, Seated, TInv, RInv, CInv, NEW c \in Clients, Alone(c), Moves(c)
  PROVE  CInv'
<1>1. Kept
  BY AloneKept
<1>2. SameBoard /\ srv' = srv /\ (Asleep' <=> Asleep)
  BY <1>1 DEF Kept, SameBoard, CardsOnBoard
<1> SUFFICES ASSUME srv'.game_running, ~srv'.updating_score, ~Asleep' PROVE AllHeld'
  BY DEF CInv
<1>3. AllHeld /\ ~srv.updating_score /\ ~Asleep
  BY <1>2 DEF CInv
<1>4. ASSUME c \in Playing => Still(c) PROVE AllHeld'
  <2>1. \A d \in Playing : d \in Clients
    BY SeatFacts DEF UInv
  <2>2. \A d \in Playing : Still(d)
    BY <1>4, <2>1, OthersStill
  <2>3. QED
    BY <1>2, <1>3, <2>2, StillHeld
<1>5. ASSUME NEW code \in NotedCodes, Notes(c, code) PROVE AllHeld'
  BY <1>4, <1>5, NotesRoles
<1>6. CASE GivesEcart(c)
  BY <1>2, <1>3, <1>6, GivesHeld
<1>7. CASE PlaysCard(c)
  BY <1>2, <1>3, <1>7, PlaysHeld
<1>8. CASE Talks(c)
  BY <1>3, <1>4, <1>8, TalksRoles
<1>9. CASE Reports(c)
  <2>1. c \notin Playing
    BY <1>3, <1>9, ReportsRoles
  <2>2. QED
    BY <1>4, <2>1
<1>10. CASE Leaves(c)
  <2>1. c \notin Playing
    BY <1>3, <1>10 DEF Leaves
  <2>2. QED
    BY <1>4, <2>1
<1>11. QED
  BY <1>5, <1>6, <1>7, <1>8, <1>9, <1>10 DEF Moves

-----------------------------------------------------------------------------
(* The cards of a round: the ecarts that are sent back.                    *)

\* Every place of h is emptied into one place of g.
LEMMA Regrouped ==
  ASSUME NEW P, NEW h, NEW g, NEW n, Conserved(P, h, n), NEW to \in [P -> P],
         \A p \in P : IsInjective(g[p]),
         \A q \in P : ToSet(h[q]) \subseteq ToSet(g[to[q]]),
         \A p \in P : \A v \in ToSet(g[p]) : \E q \in P : to[q] = p /\ v \in ToSet(h[q])
  PROVE  Conserved(P, g, n)
<1> DEFINE S(p) == ToSet(h[p])
           T(p) == ToSet(g[p])
<1>1. /\ \A p, q \in P : p # q => S(p) \cap S(q) = {}
      /\ Cardinality(UNION {S(p) : p \in P}) = n
  BY DEF Conserved
<1>2. /\ \A q \in P : to[q] \in P /\ S(q) \subseteq T(to[q])
      /\ \A p \in P : \A v \in T(p) : \E q \in P : to[q] = p /\ v \in S(q)
  OBVIOUS
<1> HIDE DEF S, T
<1>3. ASSUME NEW p \in P, NEW q \in P, p # q PROVE T(p) \cap T(q) = {}
  <2>1. ASSUME NEW v, v \in T(p), v \in T(q) PROVE FALSE
    <3>1. PICK a \in P : to[a] = p /\ v \in S(a)
      BY <1>2, <2>1
    <3>2. PICK b \in P : to[b] = q /\ v \in S(b)
      BY <1>2, <2>1
    <3>3. a # b
      BY <1>3, <3>1, <3>2
    <3>4. QED
      BY <1>1, <3>1, <3>2, <3>3
  <2>2. QED
    BY <2>1
<1>4. UNION {T(p) : p \in P} = UNION {S(p) : p \in P}
  <2>1. ASSUME NEW v, NEW p \in P, v \in T(p) PROVE \E q \in P : v \in S(q)
    BY <1>2, <2>1
  <2>2. ASSUME NEW v, NEW p \in P, v \in S(p) PROVE \E q \in P : v \in T(q)
    BY <1>2, <2>2
  <2>3. QED
    BY <2>1, <2>2
<1>5. QED
  BY <1>1, <1>3, <1>4 DEF Conserved, S, T

\* Every player is the giver of the ecart of one player.
LEMMA GiversDiffer ==
  ASSUME NEW n \in Nat \ {0}
  PROVE  /\ \A s, t \in 0..n - 1 : (s + n - 1) % n = (t + n - 1) % n => s = t
         /\ \A s \in 0..n - 1 : \E t \in 0..n - 1 : (t + n - 1) % n = s
<1>1. \A x \in 0..n - 1 : x % n = x
  OBVIOUS
<1>2. \A x \in n..2 * n - 1 : x % n = x - n
  OBVIOUS
<1>3. ASSUME NEW s \in 0..n - 1
      PROVE  (s + n - 1) % n = IF s = 0 THEN n - 1 ELSE s - 1
  <2>1. CASE s = 0
    <3>1. s + n - 1 \in 0..n - 1 /\ s + n - 1 = n - 1
      BY <2>1
    <3>2. QED
      BY <1>1, <2>1, <3>1
  <2>2. CASE s # 0
    <3>1. s + n - 1 \in n..2 * n - 1 /\ s + n - 1 - n = s - 1
      BY <2>2
    <3>2. QED
      BY <1>2, <2>2, <3>1
  <2>3. QED
    BY <2>1, <2>2
<1>4. ASSUME NEW s \in 0..n - 1, NEW t \in 0..n - 1, (s + n - 1) % n = (t + n - 1) % n
      PROVE  s = t
  <2>1. (IF s = 0 THEN n - 1 ELSE s - 1) = (IF t = 0 THEN n - 1 ELSE t - 1)
    BY <1>3, <1>4
  <2>2. QED
    BY <2>1
<1>5. ASSUME NEW s \in 0..n - 1 PROVE \E t \in 0..n - 1 : (t + n - 1) % n = s
  <2>1. CASE s = n - 1
    <3>1. 0 \in 0..n - 1
      OBVIOUS
    <3>2. (0 + n - 1) % n = s
      BY <1>3, <2>1, <3>1
    <3>3. QED
      BY <3>1, <3>2
  <2>2. CASE s # n - 1
    <3>1. s + 1 \in 0..n - 1 /\ s + 1 # 0 /\ s + 1 - 1 = s
      BY <2>2
    <3>2. ((s + 1) + n - 1) % n = s
      BY <1>3, <3>1
    <3>3. QED
      BY <3>1, <3>2
  <2>3. QED
    BY <2>1, <2>2
<1>6. QED
  BY <1>4, <1>5

Source(c) == Player(Giver(c))

LEMMA Sources ==
  ASSUME UInv, Seated
  PROVE  /\ \A c \in Playing : Source(c) \in Playing
         /\ \A c, d \in Playing : Source(c) = Source(d) => c = d
         /\ \A d \in Playing : \E c \in Playing : Source(c) = d
<1>1. \A c \in Playing : /\ Source(c) \in Playing /\ SeatOf(Source(c)) = Giver(c)
                         /\ c \in Clients /\ SeatOf(c) \in Present /\ Player(SeatOf(c)) = c
  BY SeatFacts, GiverSits DEF UInv, Source
<1> PICK n : n = amount_players
  OBVIOUS
<1>2. n \in Nat /\ Present = 0..n - 1
      /\ \A i \in Present : Player(i) \in Playing /\ SeatOf(Player(i)) = i
  BY SeatFacts DEF UInv
<1>3. ASSUME NEW c \in Playing, NEW d \in Playing, Source(c) = Source(d) PROVE c = d
  <2>1. Giver(c) = Giver(d)
    BY <1>1, <1>3
  <2> PICK s : s = SeatOf(c)
    OBVIOUS
  <2> PICK t : t = SeatOf(d)
    OBVIOUS
  <2>2. s \in 0..n - 1 /\ t \in 0..n - 1 /\ n \in Nat \ {0}
    BY <1>1, <1>2
  <2>3. (s + n - 1) % n = (t + n - 1) % n
    BY <2>1 DEF Giver
  <2>4. s = t
    BY <2>2, <2>3, GiversDiffer
  <2>5. QED
    BY <1>1, <2>4
<1>4. ASSUME NEW d \in Playing PROVE \E c \in Playing : Source(c) = d
  <2> PICK s : s = SeatOf(d)
    OBVIOUS
  <2>1. s \in 0..n - 1 /\ n \in Nat \ {0}
    BY <1>1, <1>2
  <2>2. PICK t \in 0..n - 1 : (t + n - 1) % n = s
    BY <2>1, GiversDiffer
  <2> PICK c : c = Player(t)
    OBVIOUS
  <2>3. c \in Playing /\ SeatOf(c) = t
    BY <1>2, <2>2
  <2>4. Giver(c) = s
    BY <2>2, <2>3 DEF Giver
  <2>5. Source(c) = d
    BY <1>1, <2>4 DEF Source
  <2>6. QED
    BY <2>3, <2>5
<1>5. QED
  BY <1>1, <1>3, <1>4

LEMMA BackHeld ==
  ASSUME UInv, Seated, TInv, RInv, AllHeld, SendsBack
  PROVE  AllHeld'
<1> PICK h : h = HeldAt
  OBVIOUS
<1> PICK g : g = HeldAt'
  OBVIOUS
<1> PICK n : n = amount_players * HandSize
  OBVIOUS
<1>1. SameBoard
  BY DEF SendsBack, SameTable, SameSeats, SameTrick, SameBoard, CardsOnBoard
<1>2. \A p \in Places : h[p] \in CardSeq
  BY HeldSeq
<1>3. Conserved(Places, h, n)
  BY DEF AllHeld
<1>4. /\ \A p \in Places : IsInjective(h[p])
      /\ \A p, q \in Places : p # q => ToSet(h[p]) \cap ToSet(h[q]) = {}
  BY <1>3 DEF Conserved
<1>5. ASSUME NEW c \in Playing
      PROVE  /\ g[HandAt(c)] = Glue(h[HandAt(c)], h[EcartAt(Source(c))])
             /\ g[EcartAt(c)] = <<>>
             /\ g[PlayedAt(c)] = h[PlayedAt(c)] /\ g[PileAt(c)] = h[PileAt(c)]
  <2> PICK d : d = Player(Giver(c))
    OBVIOUS
  <2>1. c \in Clients /\ d \in Playing /\ d = Source(c)
    BY SeatFacts, GiverSits DEF UInv, Source
  <2>2. /\ HandOf(c)' = Glue(HandOf(c), EcartOf(d)) /\ EcartOf(c)' = <<>>
        /\ SamePlay(c) /\ SamePile(c)
    BY <2>1, BackRoles
  <2>3. /\ g[HandAt(c)] = HandOf(c)' /\ g[EcartAt(c)] = EcartOf(c)'
        /\ g[PlayedAt(c)] = PlayedBy(c)' /\ g[PileAt(c)] = PileOf(c)'
    BY <1>1, WillBeThere DEF SameBoard
  <2>4. /\ h[HandAt(c)] = HandOf(c) /\ h[EcartAt(d)] = EcartOf(d)
        /\ h[PlayedAt(c)] = PlayedBy(c) /\ h[PileAt(c)] = PileOf(c)
    BY <2>1, HeldThere
  <2>5. QED
    BY <2>1, <2>2, <2>3, <2>4 DEF SamePlay, SamePile
<1>6. g[BoardAt] = h[BoardAt]
  BY <1>1, HeldThere, WillBeThere DEF SameBoard
<1>7. ASSUME NEW c \in Playing
      PROVE  /\ IsInjective(g[HandAt(c)])
             /\ ToSet(g[HandAt(c)]) = ToSet(h[HandAt(c)]) \cup ToSet(h[EcartAt(Source(c))])
  <2> PICK x : x = h[HandAt(c)]
    OBVIOUS
  <2> PICK y : y = h[EcartAt(Source(c))]
    OBVIOUS
  <2>1. HandAt(c) \in Places /\ EcartAt(Source(c)) \in Places /\ HandAt(c) # EcartAt(Source(c))
    BY PlacesAre, PlacesDiffer, Sources
  <2>2. x \in CardSeq /\ y \in CardSeq /\ IsInjective(x) /\ IsInjective(y) /\ ToSet(x) \cap ToSet(y) = {}
    BY <1>2, <1>4, <2>1
  <2>3. ToSet(Glue(x, y)) = ToSet(x) \cup ToSet(y) /\ IsInjective(Glue(x, y))
    BY <2>2, GlueCards
  <2>4. QED
    BY <1>5, <2>3
<1>8. ASSUME NEW p \in Places PROVE IsInjective(g[p])
  <2>1. CASE p = BoardAt
    BY <1>4, <1>6, <2>1, PlacesAre
  <2>2. ASSUME NEW c \in Playing, p \in PlacesOf(c) PROVE IsInjective(g[p])
    <3>1. PlayedAt(c) \in Places /\ PileAt(c) \in Places
      BY PlacesAre
    <3>2. IsInjective(g[HandAt(c)]) /\ IsInjective(g[EcartAt(c)])
          /\ IsInjective(g[PlayedAt(c)]) /\ IsInjective(g[PileAt(c)])
      BY <1>4, <1>5, <1>7, <3>1, NoCards
    <3>3. QED
      BY <2>2, <3>2 DEF PlacesOf
  <2>3. QED
    BY <2>1, <2>2, PlacesAre
<1> DEFINE Empties(q, d) == d \in Playing /\ q = EcartAt(Source(d))
           to == [q \in Places |-> IF \E d : Empties(q, d) THEN HandAt(CHOOSE d : Empties(q, d)) ELSE q]
<1>9. \A q \in Places : to[q] = IF \E d : Empties(q, d) THEN HandAt(CHOOSE d : Empties(q, d)) ELSE q
  OBVIOUS
<1>10. ASSUME NEW c \in Playing PROVE to[EcartAt(Source(c))] = HandAt(c) /\ EcartAt(Source(c)) \in Places
  <2> PICK q : q = EcartAt(Source(c))
    OBVIOUS
  <2>1. q \in Places
    BY PlacesAre, Sources
  <2>2. Empties(q, c)
    OBVIOUS
  <2>3. Empties(q, CHOOSE d : Empties(q, d))
    BY <2>2
  <2>4. \A d : Empties(q, d) => d = c
    BY PlacesDiffer, Sources
  <2>5. to[q] = HandAt(CHOOSE d : Empties(q, d))
    BY <1>9, <2>1, <2>2
  <2>6. QED
    BY <2>1, <2>3, <2>4, <2>5
<1>11. ASSUME NEW c \in Playing
       PROVE  to[HandAt(c)] = HandAt(c) /\ to[PlayedAt(c)] = PlayedAt(c) /\ to[PileAt(c)] = PileAt(c)
  <2>1. \A d : ~Empties(HandAt(c), d) /\ ~Empties(PlayedAt(c), d) /\ ~Empties(PileAt(c), d)
    BY PlacesDiffer
  <2>2. HandAt(c) \in Places /\ PlayedAt(c) \in Places /\ PileAt(c) \in Places
    BY PlacesAre
  <2>3. QED
    BY <1>9, <2>1, <2>2
<1>12. to[BoardAt] = BoardAt
  <2>1. \A d : ~Empties(BoardAt, d)
    BY PlacesDiffer DEF PlacesOf
  <2>2. QED
    BY <1>9, <2>1, PlacesAre
<1>13. \A c \in Playing : \E d \in Playing : EcartAt(c) = EcartAt(Source(d))
  BY Sources
<1>14. to \in [Places -> Places]
  <2>1. ASSUME NEW q \in Places PROVE to[q] \in Places
    <3>1. CASE \E d : Empties(q, d)
      <4>1. PICK d : Empties(q, d)
        BY <3>1
      <4>2. to[q] = HandAt(d)
        BY <1>10, <4>1
      <4>3. QED
        BY <4>1, <4>2, PlacesAre
    <3>2. CASE ~\E d : Empties(q, d)
      BY <1>9, <3>2
    <3>3. QED
      BY <3>1, <3>2
  <2>2. \A q \in Places : (IF \E d : Empties(q, d) THEN HandAt(CHOOSE d : Empties(q, d)) ELSE q) \in Places
    BY <1>9, <2>1
  <2>3. QED
    BY <2>2
<1> HIDE DEF to, Empties
<1>15. ASSUME NEW q \in Places PROVE ToSet(h[q]) \subseteq ToSet(g[to[q]])
  <2>1. CASE q = BoardAt
    BY <1>6, <1>12, <2>1
  <2>2. ASSUME NEW c \in Playing, q \in {HandAt(c), PlayedAt(c), PileAt(c)}
        PROVE  ToSet(h[q]) \subseteq ToSet(g[to[q]])
    BY <1>5, <1>7, <1>11, <2>2
  <2>3. ASSUME NEW c \in Playing, q = EcartAt(c)
        PROVE  ToSet(h[q]) \subseteq ToSet(g[to[q]])
    <3>1. PICK d \in Playing : q = EcartAt(Source(d))
      BY <1>13, <2>3
    <3>2. QED
      BY <1>7, <1>10, <3>1
  <2>4. QED
    BY <2>1, <2>2, <2>3, PlacesAre DEF PlacesOf
<1>16. ASSUME NEW p \in Places, NEW v \in ToSet(g[p])
       PROVE  \E q \in Places : to[q] = p /\ v \in ToSet(h[q])
  <2>1. CASE p = BoardAt
    BY <1>6, <1>12, <1>16, <2>1
  <2>2. ASSUME NEW c \in Playing, p \in {PlayedAt(c), PileAt(c)}
        PROVE  \E q \in Places : to[q] = p /\ v \in ToSet(h[q])
    BY <1>5, <1>11, <1>16, <2>2
  <2>3. ASSUME NEW c \in Playing, p = EcartAt(c) PROVE FALSE
    BY <1>5, <1>16, <2>3, NoCards
  <2>4. ASSUME NEW c \in Playing, p = HandAt(c)
        PROVE  \E q \in Places : to[q] = p /\ v \in ToSet(h[q])
    <3>1. v \in ToSet(h[HandAt(c)]) \/ v \in ToSet(h[EcartAt(Source(c))])
      BY <1>7, <1>16, <2>4
    <3>2. QED
      BY <1>10, <1>11, <2>4, <3>1, PlacesAre
  <2>5. QED
    BY <2>1, <2>2, <2>3, <2>4, PlacesAre DEF PlacesOf
<1>17. Conserved(Places, g, n)
  BY <1>3, <1>8, <1>14, <1>15, <1>16, Regrouped
<1>18. QED
  BY <1>1, <1>17, HeldNext DEF SameBoard

-----------------------------------------------------------------------------
(* The cards of a round: the deal.                                         *)

\* The cards that are dealt are cut into n hands of m cards.
LEMMA Positions ==
  ASSUME NEW n \in Nat, NEW m \in Nat
  PROVE  /\ n * m \in Nat
         /\ \A s \in 0..n - 1, k \in 1..m : s * m + k \in 1..n * m
         /\ \A s, t \in 0..n - 1, j, k \in 1..m : s * m + j = t * m + k => s = t /\ j = k
<1> PICK z : z = n * m
  OBVIOUS
<1>1. z \in Nat
  OBVIOUS
<1>2. ASSUME NEW s \in Nat, NEW t \in Nat, s < t
      PROVE  s * m \in Nat /\ t * m \in Nat /\ s * m + m <= t * m
  <2>1. s * m \in Nat /\ t * m \in Nat /\ (s + 1) * m = s * m + m
    OBVIOUS
  <2>2. (s + 1) * m <= t * m
    BY <1>2
  <2>3. QED
    BY <2>1, <2>2
<1>3. ASSUME NEW s \in 0..n - 1, NEW k \in 1..m PROVE s * m + k \in 1..z
  <2>1. s \in Nat /\ n \in Nat /\ s < n
    OBVIOUS
  <2> PICK a : a = s * m
    OBVIOUS
  <2>2. a \in Nat /\ a + m <= z
    BY <1>2, <2>1
  <2>3. a + k \in 1..z
    BY <1>1, <2>2
  <2>4. QED
    BY <2>3
<1>4. ASSUME NEW s \in 0..n - 1, NEW t \in 0..n - 1, NEW j \in 1..m, NEW k \in 1..m,
             s * m + j = t * m + k
      PROVE  s = t /\ j = k
  <2>1. s \in Nat /\ t \in Nat
    OBVIOUS
  <2> PICK a : a = s * m
    OBVIOUS
  <2> PICK b : b = t * m
    OBVIOUS
  <2>2. a \in Nat /\ b \in Nat /\ a + j = b + k
    BY <1>4, <2>1
  <2>3. s < t => a + m <= b
    BY <1>2, <2>1
  <2>4. t < s => b + m <= a
    BY <1>2, <2>1
  <2>5. ~(s < t) /\ ~(t < s)
    BY <2>2, <2>3, <2>4
  <2>6. s = t
    BY <2>1, <2>5
  <2>7. a = b
    BY <2>6
  <2>8. QED
    BY <2>2, <2>6, <2>7
<1>6. QED
  BY <1>1, <1>3, <1>4

Product(n, m) == n * m
Spot(s, m, k) == s * m + k

\* Every position is in one of the hands.
LEMMA PositionOf ==
  ASSUME NEW n \in Nat, NEW m \in Nat, NEW x \in 1..Product(n, m)
  PROVE  \E s \in 0..n - 1 : \E k \in 1..m : x = Spot(s, m, k)
<1> PICK z : z = n * m
  OBVIOUS
<1>0. z \in Nat /\ x \in 1..z
  BY DEF Product
<1>1. m \in Nat \ {0}
  <2>1. m # 0
    <3>1. m = 0 => z = 0
      OBVIOUS
    <3>2. QED
      BY <1>0, <3>1
  <2>2. QED
    BY <2>1
<1> PICK s : s = (x - 1) \div m
  OBVIOUS
<1> PICK r : r = (x - 1) % m
  OBVIOUS
<1>2. x - 1 \in Nat
  BY <1>0
<1>3. s \in Nat /\ r \in 0..m - 1 /\ x - 1 = m * s + r
  BY <1>1, <1>2, DivMod
<1>4. m * s + r < n * m
  BY <1>0, <1>3
<1>5. s < n
  BY <1>1, <1>3, <1>4, DivBound
<1>6. s \in 0..n - 1 /\ r + 1 \in 1..m
  BY <1>1, <1>3, <1>5
<1>7. m * s = s * m /\ m * s \in Nat
  BY <1>3
<1> PICK a : a = s * m
  OBVIOUS
<1>8. x = a + (r + 1)
  BY <1>0, <1>3, <1>7
<1>9. QED
  BY <1>6, <1>8 DEF Spot

\* As many cards as positions.
LEMMA DistinctCards ==
  ASSUME NEW z \in Nat, NEW deck, \A j, k \in 1..z : deck[j] = deck[k] => j = k
  PROVE  Cardinality({deck[k] : k \in 1..z}) = z
<1> DEFINE T == {deck[k] : k \in 1..z}
           f == [k \in 1..z |-> deck[k]]
<1>1. f \in Bijection(1..z, T)
  <2>1. f \in [1..z -> T]
    OBVIOUS
  <2>2. \A j, k \in 1..z : f[j] = f[k] => j = k
    OBVIOUS
  <2>3. \A t \in T : \E k \in 1..z : f[k] = t
    OBVIOUS
  <2>4. QED
    BY <2>1, <2>2, <2>3 DEF Bijection, Injection, Surjection, IsInjective
<1>2. ExistsBijection(1..z, T)
  BY <1>1 DEF ExistsBijection
<1>3. QED
  BY <1>2, FS_CountingElements

LEMMA DealHeld ==
  ASSUME UInv, Seated, TInv, RInv, NEW perm \in Shuffles, NEW papayoo, Deals(perm, papayoo)
  PROVE  AllHeld'
<1> PICK g : g = HeldAt'
  OBVIOUS
<1> PICK n : n = amount_players
  OBVIOUS
<1> PICK m : m = HandSize
  OBVIOUS
<1> PICK deck : deck = Shuffled(perm)
  OBVIOUS
<1>1. SameSeats /\ n >= 2 /\ SameTrick /\ ~InTricks
  BY DEF Deals, SameTable
<1>2. n \in Nat \ {0} /\ m \in Nat
  BY <1>1, SeatFacts, HandSizeNat DEF UInv
<1>3. Playing' = Playing /\ amount_players' = amount_players
  BY <1>1 DEF SameSeats
<1>4. CardsOnBoard' = <<>>
  <2>1. CardsOnBoard' = CardsOnBoard
    BY <1>1 DEF SameTrick, CardsOnBoard
  <2>2. QED
    BY <1>1, <2>1, BoardSeq
<1>5. \A c \in Playing : c \in Clients /\ SeatOf(c) \in 0..n - 1 /\ Player(SeatOf(c)) = c
  BY SeatFacts DEF UInv
<1>6. ASSUME NEW c \in Playing
      PROVE  /\ DOMAIN g[HandAt(c)] = 1..m
             /\ \A k \in 1..m : /\ SeatOf(c) * m + k \in 1..DeckSize
                                /\ g[HandAt(c)][k] = deck[SeatOf(c) * m + k]
             /\ g[EcartAt(c)] = <<>> /\ g[PlayedAt(c)] = <<>> /\ g[PileAt(c)] = <<>>
  <2> PICK s : s = SeatOf(c)
    OBVIOUS
  <2> PICK x : x = Dealt(deck, n, s)
    OBVIOUS
  <2>1. HandOf(c)' = x /\ EcartOf(c)' = <<>> /\ PlayedBy(c)' = <<>> /\ PileOf(c)' = <<>>
    BY <1>5, DealRoles
  <2>2. /\ g[HandAt(c)] = HandOf(c)' /\ g[EcartAt(c)] = EcartOf(c)'
        /\ g[PlayedAt(c)] = PlayedBy(c)' /\ g[PileAt(c)] = PileOf(c)'
    BY <1>3, WillBeThere
  <2>3. s \in 0..n - 1 /\ m = DeckSize \div n
    BY <1>5 DEF HandSize
  <2>4. /\ x \in CardSeq /\ Len(x) = m
        /\ \A k \in 1..m : s * m + k \in 1..DeckSize /\ x[k] = deck[s * m + k]
    <3>1. n \in Nat \ {0}
      BY <1>2
    <3>2. /\ Dealt(Shuffled(perm), n, s) \in CardSeq
          /\ Len(Dealt(Shuffled(perm), n, s)) = DeckSize \div n
          /\ \A k \in 1..DeckSize \div n :
               /\ s * (DeckSize \div n) + k \in 1..DeckSize
               /\ Dealt(Shuffled(perm), n, s)[k] = Shuffled(perm)[s * (DeckSize \div n) + k]
      BY <2>3, <3>1, DealtHands
    <3>3. QED
      BY <2>3, <3>2
  <2>5. DOMAIN x = 1..m
    BY <2>4 DEF CardSeq
  <2>6. QED
    BY <2>1, <2>2, <2>4, <2>5
<1>7. g[BoardAt] = <<>>
  BY <1>4, WillBeThere
<1>8. \A j, k \in 1..DeckSize : deck[j] = deck[k] => j = k
  BY ShuffledDeck
<1>9. \A s, t \in 0..n - 1, j, k \in 1..m : s * m + j = t * m + k => s = t /\ j = k
  BY <1>2, Positions
<1>19. n \in Nat
  BY <1>2
<1>20. ASSUME NEW x \in 1..n * m
       PROVE  \E s \in 0..n - 1 : \E k \in 1..m : x = s * m + k
  <2>1. x \in 1..Product(n, m)
    BY DEF Product
  <2>2. \E s \in 0..n - 1 : \E k \in 1..m : x = Spot(s, m, k)
    BY <1>2, <1>19, <2>1, PositionOf
  <2>3. QED
    BY <2>2 DEF Spot
<1>10. ASSUME NEW c \in Playing, NEW d \in Playing, NEW j \in 1..m, NEW k \in 1..m,
              g[HandAt(c)][j] = g[HandAt(d)][k]
       PROVE  c = d /\ j = k
  <2> PICK s : s = SeatOf(c)
    OBVIOUS
  <2> PICK t : t = SeatOf(d)
    OBVIOUS
  <2> PICK a : a = s * m + j
    OBVIOUS
  <2> PICK b : b = t * m + k
    OBVIOUS
  <2>1. /\ s \in 0..n - 1 /\ t \in 0..n - 1 /\ c = Player(s) /\ d = Player(t)
        /\ a \in 1..DeckSize /\ b \in 1..DeckSize /\ deck[a] = deck[b]
    BY <1>5, <1>6, <1>10
  <2>2. a = b
    BY <1>8, <2>1
  <2>3. s = t /\ j = k
    BY <1>9, <2>1, <2>2
  <2>4. QED
    BY <2>1, <2>3
<1>11. ASSUME NEW p \in Places, ~\E c \in Playing : p = HandAt(c)
       PROVE  g[p] = <<>>
  BY <1>6, <1>7, <1>11, PlacesAre DEF PlacesOf
<1>12. ASSUME NEW p \in Places PROVE IsInjective(g[p])
  <2>1. ASSUME NEW c \in Playing, p = HandAt(c) PROVE IsInjective(g[p])
    <3>1. DOMAIN g[p] = 1..m /\ \A j, k \in 1..m : g[p][j] = g[p][k] => j = k
      BY <1>6, <1>10, <2>1
    <3>2. QED
      BY <3>1 DEF IsInjective
  <2>2. QED
    BY <1>11, <2>1, NoCards
<1>13. \A c \in Playing : ToSet(g[HandAt(c)]) = {g[HandAt(c)][k] : k \in 1..m}
  BY <1>6 DEF ToSet
<1>14. ASSUME NEW p \in Places, NEW q \in Places, p # q
       PROVE  ToSet(g[p]) \cap ToSet(g[q]) = {}
  <2>1. ASSUME NEW c \in Playing, NEW d \in Playing, p = HandAt(c), q = HandAt(d)
        PROVE  ToSet(g[p]) \cap ToSet(g[q]) = {}
    <3>1. c # d
      BY <1>14, <2>1
    <3>2. QED
      BY <1>10, <1>13, <2>1, <3>1
  <2>2. QED
    BY <1>11, <2>1, NoCards
<1>15. UNION {ToSet(g[p]) : p \in Places} = {deck[x] : x \in 1..n * m}
  <2>1. ASSUME NEW p \in Places, NEW v \in ToSet(g[p]) PROVE \E x \in 1..n * m : v = deck[x]
    <3>1. PICK c \in Playing : p = HandAt(c)
      BY <1>11, <2>1, NoCards
    <3>2. PICK k \in 1..m : v = g[p][k]
      BY <1>13, <2>1, <3>1
    <3> PICK s : s = SeatOf(c)
      OBVIOUS
    <3> PICK a : a = s * m + k
      OBVIOUS
    <3>3. v = deck[a] /\ s \in 0..n - 1
      BY <1>5, <1>6, <3>1, <3>2
    <3>4. a \in 1..n * m
      BY <1>2, <3>3, Positions
    <3>5. QED
      BY <3>3, <3>4
  <2>2. ASSUME NEW x \in 1..n * m PROVE \E p \in Places : deck[x] \in ToSet(g[p])
    <3>1. PICK s \in 0..n - 1, k \in 1..m : x = s * m + k
      BY <1>20
    <3> PICK c : c = Player(s)
      OBVIOUS
    <3>2. c \in Playing /\ SeatOf(c) = s
      <4>1. s \in Present
        BY <1>2, SeatFacts DEF UInv
      <4>2. QED
        BY <4>1, SeatFacts DEF UInv
    <3>3. g[HandAt(c)][k] = deck[x]
      BY <1>6, <3>1, <3>2
    <3>4. QED
      BY <1>13, <3>2, <3>3, PlacesAre
  <2>3. QED
    BY <2>1, <2>2
<1>16. Cardinality({deck[x] : x \in 1..n * m}) = n * m
  <2> PICK z : z = n * m
    OBVIOUS
  <2>1. z \in Nat
    BY <1>2, Positions
  <2>2. \A x \in 1..z : x \in 1..DeckSize
    <3>1. ASSUME NEW x \in 1..z PROVE x \in 1..DeckSize
      <4>1. PICK s \in 0..n - 1, k \in 1..m : x = s * m + k
        BY <1>20
      <4> PICK c : c = Player(s)
        OBVIOUS
      <4>2. c \in Playing /\ SeatOf(c) = s
        <5>1. s \in Present
          BY <1>2, SeatFacts DEF UInv
        <5>2. QED
          BY <5>1, SeatFacts DEF UInv
      <4>3. QED
        BY <1>6, <4>1, <4>2
    <3>2. QED
      BY <3>1
  <2>3. \A j, k \in 1..z : deck[j] = deck[k] => j = k
    BY <1>8, <2>2
  <2>4. Cardinality({deck[x] : x \in 1..z}) = z
    BY <2>1, <2>3, DistinctCards
  <2>5. QED
    BY <2>4
<1>17. Conserved(Places, g, n * m)
  BY <1>12, <1>14, <1>15, <1>16 DEF Conserved
<1>18. QED
  BY <1>3, <1>17, HeldNext

-----------------------------------------------------------------------------
(* The cards of a round: the tricks.                                       *)

\* The card that is played goes to the board.
LEMMA CardGoes ==
  ASSUME UInv, Seated, TInv, NEW i, NEW m, LaysCard(i, m),
         NEW y \in CardSeq, Len(y) = board.pli_size + 1,
         \A k \in 1..board.pli_size + 1 : y[k] = board'.pli[k - 1].card
  PROVE  <<m.played.card>> \in CardSeq /\ y = Glue(CardsOnBoard, <<m.played.card>>)
<1> PICK z : z = board.pli_size
  OBVIOUS
<1> PICK x : x = CardsOnBoard
  OBVIOUS
<1> PICK v : v = m.played.card
  OBVIOUS
<1>1. /\ x \in CardSeq /\ z \in Nat /\ Len(x) = z /\ \A k \in 1..z : x[k] = board.pli[k - 1].card
  BY BoardSeq
<1>2. /\ z \in Seats /\ board.pli \in [Seats -> PlayedCard]
      /\ board'.pli = [board.pli EXCEPT ![z] = m.played]
  BY DEF LaysCard, TInv, ServerTypes
<1>3. v \in AnyCard
  BY TrickTypes DEF PlayedCard
<1>4. <<v>> \in CardSeq /\ Len(<<v>>) = 1 /\ <<v>>[1] = v
  BY <1>3 DEF CardSeq
<1>5. \A k \in 1..z : y[k] = x[k]
  <2>1. ASSUME NEW k \in 1..z PROVE y[k] = x[k]
    <3>1. k - 1 # z /\ k - 1 \in Seats /\ k \in 1..z + 1
      BY <1>1, <1>2, ServerAssumption DEF Seats
    <3>2. board'.pli[k - 1] = board.pli[k - 1]
      BY <1>2, <3>1
    <3>3. QED
      BY <1>1, <3>1, <3>2
  <2>2. QED
    BY <2>1
<1>6. y[z + 1] = v
  <2> PICK j : j = z + 1
    OBVIOUS
  <2> PICK f : f = board'.pli
    OBVIOUS
  <2>1. j \in 1..j /\ j - 1 = z
    BY <1>1
  <2>2. \A k \in 1..j : y[k] = f[k - 1].card
    OBVIOUS
  <2>3. y[j] = f[j - 1].card
    BY <2>1, <2>2
  <2>4. f[j - 1] = m.played
    BY <1>2, <2>1
  <2>5. QED
    BY <2>3, <2>4
<1>7. y = Append(x, v)
  <2>1. x \in Seq(AnyCard) /\ y \in Seq(AnyCard)
    BY <1>1 DEF CardSeq
  <2>2. /\ Append(x, v) \in Seq(AnyCard) /\ Len(Append(x, v)) = z + 1
        /\ \A k \in 1..z + 1 : Append(x, v)[k] = IF k <= z THEN x[k] ELSE v
    BY <1>1, <1>3, <2>1, AppendProperties
  <2>3. \A k \in 1..z + 1 : Append(x, v)[k] = y[k]
    BY <1>1, <1>5, <1>6, <2>2
  <2>4. Len(y) = z + 1
    OBVIOUS
  <2>5. QED
    BY <2>1, <2>2, <2>3, <2>4, SeqEqual
<1>8. Append(x, v) = x \o <<v>>
  <2> DEFINE S == AnyCard
  <2>1. x \in Seq(S) /\ v \in S
    BY <1>1, <1>3 DEF CardSeq
  <2> HIDE DEF S
  <2>2. QED
    BY <2>1, AppendIsConcat
<1>9. QED
  BY <1>4, <1>7, <1>8 DEF Glue

\* The board on which the trick is judged is the board that will be.
LEMMA TrickBoard ==
  ASSUME UInv, Seated, TInv, NEW i, NEW m, LaysCard(i, m)
  PROVE  FullBoard(i).pli = board'.pli
<1>1. board.pli \in [Seats -> PlayedCard] /\ board.pli_size \in Seats
      /\ board'.pli = [board.pli EXCEPT ![board.pli_size] = m.played]
  BY DEF TInv, ServerTypes, LaysCard
<1>2. FullBoard(i).pli = [board.pli EXCEPT ![board.pli_size] = m.played]
  BY <1>1 DEF FullBoard, WithCard, Seated, Shape, LaysCard
<1>3. QED
  BY <1>1, <1>2

-----------------------------------------------------------------------------
(* The cards of a round, from the deal to the scores.                      *)

LEMMA CardLaid ==
  ASSUME UInv, Seated, TInv, RInv, AllHeld, NEW i, NEW m, LaysCard(i, m),
         NEW y \in CardSeq, Len(y) = board.pli_size + 1,
         \A k \in 1..board.pli_size + 1 : y[k] = board'.pli[k - 1].card,
         NEW f, NEW a, a = PlayedAt(Player(i)), f[a] = <<>>, f[BoardAt] = y,
         \A p \in Places : p # a /\ p # BoardAt => f[p] = HeldAt[p]
  PROVE  Conserved(Places, f, amount_players * HandSize)
<1> PICK h : h = HeldAt
  OBVIOUS
<1> PICK n : n = amount_players * HandSize
  OBVIOUS
<1> PICK c : c = Player(i)
  OBVIOUS
<1> PICK b : b = BoardAt
  OBVIOUS
<1> PICK x : x = <<m.played.card>>
  OBVIOUS
<1>1. c \in Playing /\ c \in Clients
  BY DEF LaysCard, Hearing
<1>2. PlayedBy(c) = x /\ x \in CardSeq
  BY <1>1, LaysRoles
<1>3. y = Glue(CardsOnBoard, x)
  BY CardGoes
<1>4. h[a] = x /\ h[b] = CardsOnBoard /\ a \in Places /\ b \in Places /\ a # b
  BY <1>1, <1>2, HeldThere, PlacesAre, PlacesDiffer DEF PlacesOf
<1>5. Split(x, <<>>, x)
  BY <1>2, SplitAll
<1>6. Split(h[a], f[a], x)
  BY <1>4, <1>5
<1>7. h[b] \in CardSeq /\ f[b] = Glue(h[b], x)
  BY <1>3, <1>4, BoardSeq
<1>8. Conserved(Places, h, n)
  BY DEF AllHeld
<1>9. \A p \in Places : p # a /\ p # b => f[p] = h[p]
  OBVIOUS
<1>10. Conserved(Places, f, n)
  BY <1>2, <1>4, <1>6, <1>7, <1>8, <1>9, Moved
<1>11. QED
  BY <1>10

\* The board with the card that is laid.
LEMMA BoardGrows ==
  ASSUME UInv, Seated, TInv, NEW i, TrickGoes(i), NEW m, LaysCard(i, m)
  PROVE  /\ CardsOnBoard' \in CardSeq /\ Len(CardsOnBoard') = board.pli_size + 1
         /\ \A k \in 1..board.pli_size + 1 : CardsOnBoard'[k] = board'.pli[k - 1].card
<1> PICK y : y = CardsOnBoard'
  OBVIOUS
<1> PICK z : z = board.pli_size
  OBVIOUS
<1>1. board'.pli_size = z + 1 /\ z \in Seats /\ z \in Nat
  BY BoardSeq DEF TrickGoes, LaysCard
<1>2. y = [k \in 1..z + 1 |-> board'.pli[k - 1].card]
  BY <1>1 DEF CardsOnBoard
<1>3. \A k \in 1..z + 1 : board'.pli[k - 1].card \in AnyCard
  <2>1. ASSUME NEW k \in 1..z + 1 PROVE board'.pli[k - 1].card \in AnyCard
    <3>1. k - 1 \in Seats
      BY <1>1, ServerAssumption DEF Seats
    <3>2. board'.pli \in [Seats -> PlayedCard]
      BY TrickTypes
    <3>3. board'.pli[k - 1] \in PlayedCard
      BY <3>1, <3>2
    <3>4. QED
      BY <3>3 DEF PlayedCard
  <2>2. QED
    BY <2>1
<1>4. y \in CardSeq /\ Len(y) = z + 1
  <2> PICK w \in Nat : w = z + 1
    BY <1>1
  <2> PICK b : b = board'.pli
    OBVIOUS
  <2>1. \A k \in 1..w : b[k - 1].card \in AnyCard
    BY <1>3
  <2>2. y = [k \in 1..w |-> b[k - 1].card]
    BY <1>2
  <2>3. y \in [1..w -> AnyCard]
    BY <2>1, <2>2
  <2>4. y \in Seq(AnyCard)
    BY <2>3, SeqDef
  <2>5. Len(y) = w
    BY <2>3, <2>4
  <2>6. QED
    BY <2>4, <2>5 DEF CardSeq
<1>5. \A k \in 1..z + 1 : y[k] = board'.pli[k - 1].card
  BY <1>2
<1>6. QED
  BY <1>4, <1>5

LEMMA TrickGoesHeld ==
  ASSUME UInv, Seated, TInv, RInv, AllHeld, NEW i \in Present, TrickGoes(i)
  PROVE  AllHeld'
<1>1. PICK m : LaysCard(i, m)
  BY DEF TrickGoes
<1> PICK z : z = board.pli_size
  OBVIOUS
<1> PICK f : f = HeldAt'
  OBVIOUS
<1> PICK y : y = CardsOnBoard'
  OBVIOUS
<1> PICK a : a = PlayedAt(Player(i))
  OBVIOUS
<1>2. /\ board'.pli_size = z + 1 /\ z \in Seats /\ z \in Nat
      /\ Playing' = Playing /\ amount_players' = amount_players
  BY <1>1, BoardSeq DEF TrickGoes, LaysCard, SameTable, SameSeats
<1>3. y \in CardSeq /\ Len(y) = z + 1 /\ \A k \in 1..z + 1 : y[k] = board'.pli[k - 1].card
  BY <1>1, BoardGrows
<1>4. f[BoardAt] = y
  BY WillBeThere
<1>5. ASSUME NEW d \in Playing
      PROVE  /\ f[PlayedAt(d)] = <<>> /\ f[HandAt(d)] = HeldAt[HandAt(d)]
             /\ f[EcartAt(d)] = HeldAt[EcartAt(d)] /\ f[PileAt(d)] = HeldAt[PileAt(d)]
             /\ PlayedAt(d) # a => HeldAt[PlayedAt(d)] = <<>>
  <2>1. d \in Clients
    BY SeatFacts DEF UInv
  <2>2. SameHand(d) /\ SameEcart(d) /\ SamePile(d) /\ PlayedBy(d)' = <<>>
    BY <2>1, TrickGoesRoles
  <2>3. PlayedAt(d) # a => PlayedBy(d) = <<>>
    BY <1>1, <2>1, LaysRoles
  <2>4. QED
    BY <1>2, <2>2, <2>3, HeldThere, WillBeThere DEF SameHand, SameEcart, SamePile
<1>6. f[a] = <<>>
  BY <1>1, <1>5 DEF LaysCard, Hearing
<1>7. \A p \in Places : p # a /\ p # BoardAt => f[p] = HeldAt[p]
  BY <1>5, PlacesAre DEF PlacesOf
<1>8. Conserved(Places, f, amount_players * HandSize)
  BY <1>1, <1>3, <1>4, <1>6, <1>7, CardLaid
<1>9. QED
  BY <1>2, <1>8, HeldNext

LEMMA TrickOverHeld ==
  ASSUME UInv, Seated, TInv, RInv, AllHeld, NEW i \in Present, TrickOver(i)
  PROVE  AllHeld'
<1>1. TrickTaken(i)
  BY DEF TrickOver
<1>2. PICK m : LaysCard(i, m)
  BY <1>1 DEF TrickTaken
<1> PICK z : z = board.pli_size
  OBVIOUS
<1> PICK g : g = HeldAt'
  OBVIOUS
<1> PICK h : h = HeldAt
  OBVIOUS
<1> PICK n : n = amount_players * HandSize
  OBVIOUS
<1> PICK y : y = TrickCards(i)
  OBVIOUS
<1> PICK a : a = PlayedAt(Player(i))
  OBVIOUS
<1> PICK b : b = BoardAt
  OBVIOUS
<1> PICK l : l = Player(TrickLoser(i))
  OBVIOUS
<1> PICK e : e = PileAt(l)
  OBVIOUS
<1>3. /\ board'.pli_size = 0 /\ z + 1 = amount_players /\ z \in Nat
      /\ Playing' = Playing /\ amount_players' = amount_players
  BY <1>1, <1>2, BoardSeq DEF TrickTaken, LaysCard, SameTable, SameSeats
<1>4. y \in CardSeq /\ Len(y) = z + 1
  BY <1>2, <1>3, TrickTypes
<1>5. \A k \in 1..z + 1 : y[k] = board'.pli[k - 1].card
  <2>1. FullBoard(i).pli = board'.pli
    BY <1>2, TrickBoard
  <2> PICK f : f = board'.pli
    OBVIOUS
  <2> PICK w : w = z + 1
    OBVIOUS
  <2>2. y = [k \in 1..w |-> f[k - 1].card]
    BY <1>3, <2>1 DEF TrickCards
  <2>3. \A k \in 1..w : y[k] = f[k - 1].card
    BY <2>2
  <2>4. QED
    BY <2>3
<1>6. /\ a \in Places /\ b \in Places /\ e \in Places /\ l \in Playing /\ Player(i) \in Playing
      /\ a # b /\ e # a /\ e # b
  <2>1. l \in Playing /\ Player(i) \in Playing
    BY <1>1, SeatFacts DEF TrickTaken, UInv
  <2>2. QED
    BY <2>1, PlacesAre, PlacesDiffer DEF PlacesOf
<1> PICK f : f = [p \in Places |-> IF p = a THEN <<>> ELSE IF p = b THEN y ELSE h[p]]
  OBVIOUS
<1>7. /\ f[a] = <<>> /\ f[b] = y /\ \A p \in Places : p # a /\ p # b => f[p] = h[p]
  BY <1>6
<1>8. Conserved(Places, f, n)
  BY <1>2, <1>4, <1>5, <1>7, CardLaid
<1>9. g[b] = <<>>
  <2>1. CardsOnBoard' = <<>>
    <3>1. 1..0 = {}
      OBVIOUS
    <3>2. QED
      BY <1>3, <3>1 DEF CardsOnBoard
  <2>2. QED
    BY <2>1, WillBeThere
<1>10. ASSUME NEW d \in Playing
       PROVE  /\ g[PlayedAt(d)] = <<>> /\ g[HandAt(d)] = h[HandAt(d)] /\ g[EcartAt(d)] = h[EcartAt(d)]
              /\ d # l => g[PileAt(d)] = h[PileAt(d)]
              /\ d = l => g[PileAt(d)] = Glue(h[PileAt(d)], y)
              /\ PlayedAt(d) # a => h[PlayedAt(d)] = <<>>
              /\ h[PileAt(d)] \in CardSeq
  <2>1. d \in Clients
    BY SeatFacts DEF UInv
  <2>2. /\ SameHand(d)
        /\ PileOf(d)' = IF d = Player(TrickLoser(i)) THEN Glue(PileOf(d), TrickCards(i)) ELSE PileOf(d)
    BY <2>1, TrickOverRoles
  <2>3. SameEcart(d) /\ PlayedBy(d)' = <<>>
    BY <1>1, <2>1, TrickTakenRoles
  <2>4. PlayedAt(d) # a => PlayedBy(d) = <<>>
    BY <1>2, <2>1, LaysRoles
  <2>5. PileOf(d) \in CardSeq
    BY <2>1, RolesSeq
  <2>6. /\ h[HandAt(d)] = HandOf(d) /\ h[EcartAt(d)] = EcartOf(d) /\ h[PlayedAt(d)] = PlayedBy(d)
        /\ h[PileAt(d)] = PileOf(d)
    BY HeldThere
  <2>7. /\ g[HandAt(d)] = HandOf(d)' /\ g[EcartAt(d)] = EcartOf(d)' /\ g[PlayedAt(d)] = PlayedBy(d)'
        /\ g[PileAt(d)] = PileOf(d)'
    BY <1>3, WillBeThere
  <2>8. QED
    BY <2>2, <2>3, <2>4, <2>5, <2>6, <2>7 DEF SameHand, SameEcart
<1>11. \A p \in Places : p # b /\ p # e => g[p] = f[p]
  <2>1. ASSUME NEW d \in Playing, NEW p \in PlacesOf(d), p # e PROVE g[p] = f[p]
    <3>1. CASE p = PlayedAt(d)
      <4>1. p \in Places /\ p # b
        BY <3>1, PlacesAre, PlacesDiffer DEF PlacesOf
      <4>2. QED
        BY <1>7, <1>10, <3>1, <4>1
    <3>2. CASE p = HandAt(d) \/ p = EcartAt(d)
      <4>1. p \in Places /\ p # b /\ p # a
        BY <3>2, PlacesAre, PlacesDiffer DEF PlacesOf
      <4>2. QED
        BY <1>7, <1>10, <3>2, <4>1
    <3>3. CASE p = PileAt(d)
      <4>1. p \in Places /\ p # b /\ p # a /\ d # l
        BY <2>1, <3>3, PlacesAre, PlacesDiffer DEF PlacesOf
      <4>2. QED
        BY <1>7, <1>10, <3>3, <4>1
    <3>4. QED
      BY <3>1, <3>2, <3>3 DEF PlacesOf
  <2>2. QED
    BY <2>1, PlacesAre
<1>12. f[e] \in CardSeq /\ g[e] = Glue(f[e], y)
  BY <1>6, <1>7, <1>10
<1>13. Split(f[b], g[b], y)
  BY <1>4, <1>7, <1>9, SplitAll
<1>14. Conserved(Places, g, n)
  BY <1>4, <1>6, <1>8, <1>11, <1>12, <1>13, Moved
<1>15. QED
  BY <1>3, <1>14, HeldNext

-----------------------------------------------------------------------------
LEMMA QuietHeld ==
  ASSUME UInv, Seated, TInv, RInv, AllHeld, QuietStep PROVE AllHeld'
<1>1. SameBoard
  BY QuietPhases DEF SamePhases, SameSeats, SameBoard, CardsOnBoard
<1>2. \A c \in Playing : c \in Clients
  BY SeatFacts DEF UInv
<1>3. \A c \in Playing : Still(c)
  BY <1>2, QuietRoles DEF StillAndChosen
<1>4. QED
  BY <1>1, <1>3, StillHeld

LEMMA CInvServer ==
  ASSUME UInv, Seated, TInv, RInv, CInv, ServerNext PROVE CInv'
<1> SUFFICES ASSUME srv'.game_running, ~srv'.updating_score, ~Asleep' PROVE AllHeld'
  BY DEF CInv
<1>1. CASE QuietStep
  <2>1. srv.game_running /\ ~srv.updating_score
    BY <1>1, QuietPhases DEF SamePhases
  <2>2. ~Asleep
    BY <2>1 DEF UInv, Phases
  <2>3. QED
    BY <1>1, <2>1, <2>2, QuietHeld DEF CInv
<1>2. ASSUME NEW perm \in Shuffles, NEW papayoo \in Suits, Deals(perm, papayoo) PROVE AllHeld'
  BY <1>2, DealHeld
<1>3. ASSUME NEW i \in Present, TrickGoes(i) \/ TrickOver(i) PROVE AllHeld'
  <2>1. PICK m : LaysCard(i, m)
    BY <1>3 DEF TrickGoes, TrickOver, TrickTaken
  <2>2. AllHeld
    BY <2>1 DEF LaysCard, SameTable, InTricks, CInv
  <2>3. QED
    BY <1>3, <2>2, TrickGoesHeld, TrickOverHeld
<1>4. ASSUME NEW i \in Present, RoundEnds(i) PROVE FALSE
  BY <1>4 DEF RoundEnds
<1>5. CASE SendsBack
  <2>1. AllHeld
    BY <1>5 DEF SendsBack, SameTable, InEcarts, CInv
  <2>2. QED
    BY <1>5, <2>1, BackHeld
<1>6. CASE Clears
  BY <1>6 DEF Clears
<1>7. ASSUME NEW d \in Clients, Admits(d) PROVE FALSE
  BY <1>7 DEF Admits, FirstWord
<1>8. QED
  BY <1>1, <1>2, <1>3, <1>4, <1>5, <1>6, <1>7, ServerCases

LEMMA CInvInit == Init => CInv
  BY DEF Init, ServerInit, CInv

LEMMA CInvStutter == ASSUME CInv, UNCHANGED vars PROVE CInv'
<1>1. UNCHANGED network /\ UNCHANGED <<players, alarm, srv, board, loop, hist>> /\ cl' = cl
  BY DEF vars, serverVars, clientVars
<1>2. UNCHANGED <<conn, toClient, toServer, players, srv, board, loop, hist, cl>>
  BY <1>1 DEF network
<1>3. SameBoard /\ (Asleep' <=> Asleep) /\ \A c : SeatOf(c)' = SeatOf(c)
  BY <1>2 DEF Playing, amount_players, Asleep, SameBoard, CardsOnBoard, SeatOf, Player, Present
<1>4. ASSUME NEW c PROVE Still(c)
  <2>1. Given(c)' = Given(c)
    BY <1>2, <1>3 DEF Given
  <2>2. QED
    BY <1>2, <2>1, RolesAre, RolesWillBe DEF Still, SameHand, SameEcart, SamePlay, SamePile
<1>5. AllHeld => AllHeld'
  BY <1>3, <1>4, StillHeld
<1>6. QED
  BY <1>2, <1>3, <1>5 DEF CInv

LEMMA CInvNext == ASSUME Undisturbed, UInv, Seated, TInv, RInv, CInv, [Next]_vars PROVE CInv'
<1>1. CASE ServerNext
  BY <1>1, CInvServer
<1>2. CASE ClientNext
  <2>1. PICK c \in Clients : Alone(c) /\ Moves(c)
    BY <1>2, ClientMoves
  <2>2. QED
    BY <2>1, CInvClient
<1>3. CASE UNCHANGED vars
  BY <1>3, CInvStutter
<1>4. QED
  BY <1>1, <1>2, <1>3 DEF Next

(***************************************************************************)
(* From the deal to the scores every card that has been dealt is in        *)
(* exactly one place, whatever the order in which the messages arrive      *)
(* (deal_cards, receive_ecart, send_ecart_back, play_card, serveur.c;      *)
(* add_ecart, add_pli, joueur.c): none is lost, none is doubled, none goes *)
(* to two players, as long as nobody leaves.                               *)
(***************************************************************************)
THEOREM CardConservationThm == ASSUME Undisturbed PROVE Spec => []CardConservation
<1>1. Init => CInv
  BY CInvInit
<1>2. (Seated /\ UInv /\ TInv /\ RInv) /\ CInv /\ [Next]_vars => CInv'
  BY CInvNext
<1>3. CInv => CardConservation
  BY ConservedAre DEF CInv, CardConservation, Asleep
<1>4. QED
  BY <1>1, <1>2, <1>3, OrderCourse, PTL DEF Spec
=============================================================================
