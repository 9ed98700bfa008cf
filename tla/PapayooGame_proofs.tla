------------------------- MODULE PapayooGame_proofs -------------------------
(***************************************************************************)
(* Papayoo implements Game, for any number of clients, seats, tricks and   *)
(* rounds: in a game that nobody leaves every step of the server or of a   *)
(* client is a step of the game of Papayoo as its players see it, or none. *)
(*                                                                         *)
(* First the steps of Game, on values; then what the players see of a      *)
(* state (Table); then each step of a client and of the server.            *)
(***************************************************************************)
EXTENDS Hands_proofs, PapayooGame

-----------------------------------------------------------------------------
(* The steps of the game, as its players see them.                         *)

\* What the game looks like: its phase, the number of players, the round, the
\* papayoo, the hands, the ecarts, the leader, the trick, the tricks and totals.
Seen(ph, m, r, pp, hs, es, l, t, k, tot) ==
  /\ PhaseSeen = ph /\ OfGame(amount_players) = m /\ OfGame(srv.current_round) = r
  /\ OfGame(srv.papayoo) = pp /\ HandsSeen = hs /\ EcartsSeen = es
  /\ OfGame(srv.current_player_turn) = l /\ TrickSeen = t
  /\ OfGame(srv.amount_turn) = k /\ TotalsSeen = tot

SeenLobby == Seen("lobby", 0, 0, 0, <<>>, <<>>, 0, <<>>, 0, <<>>)

\* The cards and their points are those of the program.
LEMMA SamePoints == \A x, p : Abstract!Points(x, p) = Points(x, p)
  BY DEF Abstract!Points, Points, Abstract!SumOf, SumOf, Abstract!CardPoints, CardPoints,
         Abstract!Payoo, Payoo

LEMMA SameSize == \A S : Abstract!Cardinality(S) = Cardinality(S)
  BY DEF Abstract!Cardinality, Cardinality

LEMMA SameCards == Abstract!DeckSize = DeckSize /\ Abstract!Card = Card /\ Abstract!Suits = Suits
  BY DEF Abstract!DeckSize, DeckSize, Abstract!Card, Card, Abstract!Suits, Suits,
         Abstract!Payoo, Payoo

\* A deal to m players.
DealOf(m, hs, es) ==
  /\ hs \in [0..m - 1 -> SUBSET Card]
  /\ \A p \in 0..m - 1 : Cardinality(hs[p]) = DeckSize \div m
  /\ \A p, q \in 0..m - 1 : p # q => hs[p] \cap hs[q] = {}
  /\ es = [p \in 0..m - 1 |-> {}]

LEMMA DealSeen ==
  ASSUME NEW m, NEW r, NEW pp \in Suits, NEW hs, NEW es, NEW tot, DealOf(m, hs, es),
         Seen("ecarts", m, r, pp, hs, es, 0, <<>>, 0, tot)'
  PROVE  Abstract!Deal(m)
BY SameCards, SameSize DEF DealOf, Seen, Abstract!Deal

LEMMA StartSeen ==
  ASSUME SeenLobby, NEW m \in 2..MAX_PLAYERS, NEW pp \in Suits, NEW hs, NEW es, DealOf(m, hs, es),
         NEW tot, tot = [p \in 0..m - 1 |-> 0],
         Seen("ecarts", m, 1, pp, hs, es, 0, <<>>, 0, tot)'
  PROVE  Abstract!Next
<1>1. Abstract!Deal(m)
  BY DealSeen
<1>2. Abstract!StartGame
  BY <1>1 DEF Seen, SeenLobby, Abstract!StartGame
<1>3. QED
  BY <1>2 DEF Abstract!Next

LEMMA RoundSeen ==
  ASSUME NEW m, NEW r, NEW tot, NEW hs, NEW es, DealOf(m, hs, es), NEW pp \in Suits,
         NEW pp0, NEW hs0, NEW es0, NEW l0, NEW t0, NEW k0,
         Seen("scores", m, r, pp0, hs0, es0, l0, t0, k0, tot),
         Seen("ecarts", m, r + 1, pp, hs, es, 0, <<>>, 0, tot)'
  PROVE  Abstract!Next
<1>1. Abstract!Deal(m)
  BY DealSeen
<1>2. Abstract!StartRound
  BY <1>1 DEF Seen, Abstract!StartRound
<1>3. QED
  BY <1>2 DEF Abstract!Next

LEMMA GiveSeen ==
  ASSUME NEW m, NEW r, NEW pp, NEW hs, NEW gs, NEW es, NEW fs, NEW l, NEW t, NEW k, NEW tot,
         Seen("ecarts", m, r, pp, hs, es, l, t, k, tot),
         NEW p \in 0..m - 1, es[p] = {}, NEW E, E \subseteq hs[p], Cardinality(E) = EcartSize,
         gs = [hs EXCEPT ![p] = @ \ E], fs = [es EXCEPT ![p] = E],
         Seen("ecarts", m, r, pp, gs, fs, l, t, k, tot)'
  PROVE  Abstract!Next
<1>1. Abstract!GiveEcart(p)
  BY SameSize DEF Seen, Abstract!GiveEcart
<1>2. p \in Abstract!Players
  BY DEF Seen, Abstract!Players
<1>3. QED
  BY <1>1, <1>2 DEF Abstract!Next

LEMMA ExchangeSeen ==
  ASSUME NEW m, NEW r, NEW pp, NEW hs, NEW gs, NEW es, NEW fs, NEW l, NEW t, NEW k, NEW tot,
         Seen("ecarts", m, r, pp, hs, es, l, t, k, tot),
         \A p \in 0..m - 1 : es[p] # {},
         gs = [q \in 0..m - 1 |->
                 hs[q] \cup UNION {es[p] : p \in {s \in 0..m - 1 : (s + 1) % m = q}}],
         fs = [p \in 0..m - 1 |-> {}],
         Seen("tricks", m, r, pp, gs, fs, l, t, k, tot)'
  PROVE  Abstract!Next
<1>1. Abstract!Exchange
  BY DEF Seen, Abstract!Exchange, Abstract!Players, Abstract!Next1
<1>2. QED
  BY <1>1 DEF Abstract!Next

LEMMA PlaySeen ==
  ASSUME NEW m, NEW r, NEW pp, NEW hs, NEW gs, NEW es, NEW l, NEW t, NEW u, NEW k, NEW tot,
         Seen("tricks", m, r, pp, hs, es, l, t, k, tot),
         NEW p \in 0..m - 1, Len(t) < m, p = (l + Len(t)) % m,
         NEW card \in hs[p], u = Append(t, card),
         gs = [hs EXCEPT ![p] = @ \ {card}],
         Seen("tricks", m, r, pp, gs, es, l, u, k, tot)'
  PROVE  Abstract!Next
<1>1. Abstract!Play(p)
  BY DEF Seen, Abstract!Play, Abstract!Turn
<1>2. p \in Abstract!Players
  BY DEF Seen, Abstract!Players
<1>3. QED
  BY <1>1, <1>2 DEF Abstract!Next

\* Player p takes the trick t, that l has led.
Wins(t, m, l, p) ==
  /\ Len(t) = m
  /\ \E j \in DOMAIN t : /\ p = (l + j - 1) % m
                         /\ t[j].type = t[1].type
                         /\ \A i \in DOMAIN t : t[i].type = t[1].type => t[i].number <= t[j].number

LEMMA TakenSeen ==
  ASSUME NEW m, NEW r, NEW pp, NEW hs, NEW es, NEW l, NEW t, NEW k, NEW tot,
         Seen("tricks", m, r, pp, hs, es, l, t, k, tot),
         NEW p \in 0..m - 1, Wins(t, m, l, p)
  PROVE  Abstract!Taken(p) /\ p \in Abstract!Players
BY DEF Seen, Wins, Abstract!Taken, Abstract!Takes, Abstract!PlayerOf, Abstract!Players

LEMMA NextTrickSeen ==
  ASSUME NEW m, NEW r, NEW pp, NEW hs, NEW es, NEW l, NEW t, NEW k, NEW k1, NEW tot, NEW tot1,
         Seen("tricks", m, r, pp, hs, es, l, t, k, tot),
         NEW p \in 0..m - 1, Wins(t, m, l, p), k1 = k + 1, k1 < AMOUNT_PLI,
         tot1 = [tot EXCEPT ![p] = @ + Points(t, pp)],
         Seen("tricks", m, r, pp, hs, es, p, <<>>, k1, tot1)'
  PROVE  Abstract!Next
<1>1. Abstract!Taken(p) /\ p \in Abstract!Players
  BY TakenSeen
<1>2. Abstract!NextTrick(p)
  BY <1>1, SamePoints DEF Seen, Abstract!NextTrick
<1>3. QED
  BY <1>1, <1>2 DEF Abstract!Next

LEMMA EndRoundSeen ==
  ASSUME NEW m, NEW r, NEW pp, NEW hs, NEW es, NEW l, NEW t, NEW k, NEW tot, NEW tot1,
         Seen("tricks", m, r, pp, hs, es, l, t, k, tot),
         NEW p \in 0..m - 1, Wins(t, m, l, p), k + 1 = AMOUNT_PLI, r < Rounds,
         tot1 = [tot EXCEPT ![p] = @ + Points(t, pp)],
         Seen("scores", m, r, pp, hs, es, 0, <<>>, 0, tot1)'
  PROVE  Abstract!Next
<1>1. Abstract!Taken(p) /\ p \in Abstract!Players
  BY TakenSeen
<1>2. Abstract!EndRound(p)
  BY <1>1, SamePoints DEF Seen, Abstract!EndRound
<1>3. QED
  BY <1>1, <1>2 DEF Abstract!Next

LEMMA LobbySeen == SeenLobby <=> Abstract!InLobby
BY DEF Seen, SeenLobby, Abstract!InLobby

LEMMA EndGameSeen ==
  ASSUME NEW m, NEW r, NEW pp, NEW hs, NEW es, NEW l, NEW t, NEW k, NEW tot,
         Seen("tricks", m, r, pp, hs, es, l, t, k, tot),
         NEW p \in 0..m - 1, Wins(t, m, l, p), k + 1 = AMOUNT_PLI, r = Rounds,
         SeenLobby'
  PROVE  Abstract!Next
<1>1. Abstract!Taken(p) /\ p \in Abstract!Players
  BY TakenSeen
<1>2. Abstract!EndGame(p)
  BY <1>1 DEF Seen, SeenLobby, Abstract!EndGame, Abstract!InLobby
<1>3. QED
  BY <1>1, <1>2 DEF Abstract!Next

LEMMA NothingSeen ==
  ASSUME NEW ph, NEW m, NEW r, NEW pp, NEW hs, NEW es, NEW l, NEW t, NEW k, NEW tot,
         Seen(ph, m, r, pp, hs, es, l, t, k, tot), Seen(ph, m, r, pp, hs, es, l, t, k, tot)'
  PROVE  UNCHANGED Abstract!vars
BY DEF Seen, Abstract!vars

-----------------------------------------------------------------------------
(* What the players see of a state in which a game runs.                   *)

PhaseNow == IF srv.updating_score THEN "scores" ELSE IF InTricks THEN "tricks" ELSE "ecarts"

HandsNow  == [i \in Present |-> ToSet(HandOf(Player(i)))]
EcartsNow == [i \in Present |-> ToSet(EcartOf(Player(i)))]
TotalsNow == [i \in Present |-> hist.earned[i]]
TrickNow  == IF InTricks THEN Glue(CardsOnBoard, PlayedBy(WhoseTurn)) ELSE <<>>

Table(ph, m, r, pp, hs, es, l, t, k, tot) ==
  /\ srv.game_running /\ ~Asleep
  /\ ph = PhaseNow /\ m = amount_players /\ r = srv.current_round /\ pp = srv.papayoo
  /\ hs = HandsNow /\ es = EcartsNow /\ l = srv.current_player_turn /\ t = TrickNow
  /\ k = srv.amount_turn /\ tot = TotalsNow

LEMMA NoGameSeen == ASSUME ~(srv.game_running /\ ~Asleep) PROVE SeenLobby
<1>1. ~InGame
  BY DEF InGame, Asleep
<1>2. PhaseSeen = "lobby"
  BY <1>1 DEF PhaseSeen
<1>3. QED
  BY <1>1, <1>2 DEF SeenLobby, Seen, OfGame, PerPlayer, HandsSeen, EcartsSeen, TrickSeen, TotalsSeen

LEMMA NoGameWillBeSeen == ASSUME ~(srv'.game_running /\ ~Asleep') PROVE SeenLobby'
<1>1. ~InGame'
  BY DEF InGame, Asleep
<1>2. PhaseSeen' = "lobby"
  BY <1>1 DEF PhaseSeen
<1>3. QED
  BY <1>1, <1>2 DEF SeenLobby, Seen, OfGame, PerPlayer, HandsSeen, EcartsSeen, TrickSeen, TotalsSeen

LEMMA TableSeen ==
  ASSUME UInv, EInv, NEW ph, NEW m, NEW r, NEW pp, NEW hs, NEW es, NEW l, NEW t, NEW k, NEW tot,
         Table(ph, m, r, pp, hs, es, l, t, k, tot)
  PROVE  Seen(ph, m, r, pp, hs, es, l, t, k, tot)
<1>1. InGame
  BY DEF InGame, Table, Asleep, UInv, Functions
<1>2. PhaseSeen = PhaseNow
  BY <1>1 DEF PhaseSeen, PhaseNow
<1>3. HandsSeen = HandsNow /\ EcartsSeen = EcartsNow
  BY <1>1 DEF HandsSeen, HandsNow, EcartsSeen, EcartsNow, PerPlayer
<1>4. TrickSeen = TrickNow
  <2>1. PhaseSeen = "tricks" <=> InTricks
    BY <1>2 DEF PhaseNow, InTricks
  <2>2. QED
    BY <2>1 DEF TrickSeen, TrickNow, Glue
<1>5. TotalsSeen = TotalsNow
  <2>1. \A i \in Present : TotalOf(i) = hist.earned[i]
    BY DEF EInv, Table, Earned, TotalOf
  <2>2. TotalsSeen = [i \in Present |-> TotalOf(i)]
    BY <1>1 DEF TotalsSeen, PerPlayer
  <2>3. QED
    BY <2>1, <2>2 DEF TotalsNow
<1>6. QED
  BY <1>1, <1>2, <1>3, <1>4, <1>5 DEF Seen, Table, OfGame

LEMMA TableWillBeSeen ==
  ASSUME UInv', EInv', NEW ph, NEW m, NEW r, NEW pp, NEW hs, NEW es, NEW l, NEW t, NEW k, NEW tot,
         Table(ph, m, r, pp, hs, es, l, t, k, tot)'
  PROVE  Seen(ph, m, r, pp, hs, es, l, t, k, tot)'
<1>1. InGame'
  BY DEF InGame, Table, Asleep, UInv, Functions
<1>2. PhaseSeen' = PhaseNow'
  BY <1>1 DEF PhaseSeen, PhaseNow
<1>3. HandsSeen' = HandsNow' /\ EcartsSeen' = EcartsNow'
  BY <1>1 DEF HandsSeen, HandsNow, EcartsSeen, EcartsNow, PerPlayer
<1>4. TrickSeen' = TrickNow'
  <2>1. PhaseSeen' = "tricks" <=> InTricks'
    BY <1>2 DEF PhaseNow, InTricks
  <2>2. QED
    BY <2>1 DEF TrickSeen, TrickNow, Glue
<1>5. TotalsSeen' = TotalsNow'
  <2>1. \A i \in Present' : TotalOf(i)' = hist'.earned[i]
    BY DEF EInv, Table, Earned, TotalOf
  <2>2. TotalsSeen' = [i \in Present' |-> TotalOf(i)']
    BY <1>1 DEF TotalsSeen, PerPlayer
  <2>3. QED
    BY <2>1, <2>2 DEF TotalsNow
<1>6. QED
  BY <1>1, <1>2, <1>3, <1>4, <1>5 DEF Seen, Table, OfGame

\* What the players see after a step that keeps the seats.
LEMMA FamiliesAre ==
  ASSUME UInv, Seated
  PROVE  /\ HandsNow = [i \in Present |-> HandsNow[i]] /\ EcartsNow = [i \in Present |-> EcartsNow[i]]
         /\ \A c \in Playing : /\ HandsNow[SeatOf(c)] = ToSet(HandOf(c))
                               /\ EcartsNow[SeatOf(c)] = ToSet(EcartOf(c))
<1>1. \A c \in Playing : SeatOf(c) \in Present /\ Player(SeatOf(c)) = c
  BY SeatFacts DEF UInv
<1>2. QED
  BY <1>1 DEF HandsNow, EcartsNow

LEMMA FamiliesWillBe ==
  ASSUME UInv, Seated, SameSeats
  PROVE  /\ HandsNow' = [i \in Present |-> HandsNow'[i]] /\ EcartsNow' = [i \in Present |-> EcartsNow'[i]]
         /\ \A c \in Playing : /\ HandsNow'[SeatOf(c)] = ToSet(HandOf(c)')
                               /\ EcartsNow'[SeatOf(c)] = ToSet(EcartOf(c)')
<1>1. \A c \in Playing : SeatOf(c) \in Present /\ Player(SeatOf(c)) = c
  BY SeatFacts DEF UInv
<1>2. Present' = Present /\ \A i \in Present : Player(i)' = Player(i)
  BY DEF SameSeats
<1>3. HandsNow' = [i \in Present |-> HandsNow'[i]] /\ EcartsNow' = [i \in Present |-> EcartsNow'[i]]
  BY <1>2 DEF HandsNow, EcartsNow
<1>4. ASSUME NEW c \in Playing
      PROVE  /\ HandsNow'[SeatOf(c)] = ToSet(HandOf(c)')
             /\ EcartsNow'[SeatOf(c)] = ToSet(EcartOf(c)')
  <2> PICK i : i = SeatOf(c)
    OBVIOUS
  <2>1. i \in Present' /\ c = Player(i)'
    BY <1>1, <1>2
  <2>2. HandsNow'[i] = ToSet(HandOf(c)')
    BY <2>1 DEF HandsNow
  <2>3. EcartsNow'[i] = ToSet(EcartOf(c)')
    BY <2>1 DEF EcartsNow
  <2>4. QED
    BY <2>2, <2>3
<1>5. QED
  BY <1>3, <1>4

\* The trick, by the one who has the turn.
LEMMA TrickIs ==
  ASSUME UInv, Seated
  PROVE  /\ ~InTricks => TrickNow = <<>>
         /\ \A c : HasTurn(c) => TrickNow = Glue(CardsOnBoard, PlayedBy(c))
         /\ InTricks => HasTurn(WhoseTurn) /\ WhoseTurn \in Playing
<1>1. \A c : HasTurn(c) => c \in Playing
  BY TurnHolder DEF UInv
<1>2. InTricks => HasTurn(WhoseTurn)
  BY DEF HasTurn, WhoseTurn
<1>3. \A c : HasTurn(c) => InTricks /\ c = WhoseTurn
  BY DEF HasTurn, WhoseTurn
<1>4. QED
  BY <1>1, <1>2, <1>3 DEF TrickNow

LEMMA TrickWillBe ==
  ASSUME UInv', Seated'
  PROVE  /\ ~InTricks' => TrickNow' = <<>>
         /\ \A c : HasTurn(c)' => TrickNow' = Glue(CardsOnBoard', PlayedBy(c)')
         /\ InTricks' => \E c : HasTurn(c)' /\ c \in Playing'
<1>1. ASSUME NEW c, HasTurn(c)' PROVE c \in Playing'
  <2> PICK n : n = amount_players'
    OBVIOUS
  <2> PICK i : i = ((srv.current_player_turn + board.pli_size) % amount_players)'
    OBVIOUS
  <2>1. InTricks' /\ c = Player(i)'
    BY <1>1 DEF HasTurn
  <2>2. n \in Nat /\ Present' = 0..n - 1
    BY DEF Seated, AtTheTable, Present, amount_players
  <2>3. srv'.current_player_turn \in 0..n - 1 /\ board'.pli_size \in 0..n - 1
    BY <2>1, <2>2 DEF UInv, Phases
  <2>4. i \in 0..n - 1
    BY <2>2, <2>3
  <2>5. i + 1 \in DOMAIN players'
    BY <2>2, <2>4 DEF Seated, AtTheTable, amount_players
  <2>6. QED
    BY <2>1, <2>5 DEF Playing, Player
<1>2. PICK w : w = WhoseTurn'
  OBVIOUS
<1>3. InTricks' => HasTurn(w)'
  BY <1>2 DEF HasTurn, WhoseTurn
<1>4. \A c : HasTurn(c)' => InTricks' /\ c = w
  BY <1>2 DEF HasTurn, WhoseTurn
<1>5. TrickNow' = IF InTricks' THEN Glue(CardsOnBoard', PlayedBy(w)') ELSE <<>>
  BY <1>2 DEF TrickNow
<1>6. QED
  BY <1>1, <1>3, <1>4, <1>5

-----------------------------------------------------------------------------
(* Steps that the players do not see.                                      *)

Playable == srv.game_running /\ ~Asleep

SameView == /\ SameSeats /\ SameRound
            /\ srv'.updating_score = srv.updating_score /\ (InTricks' <=> InTricks)
            /\ srv'.current_player_turn = srv.current_player_turn
            /\ srv'.amount_turn = srv.amount_turn /\ hist'.earned = hist.earned
            /\ \A c \in Playing : SameHand(c) /\ SameEcart(c)
            /\ TrickNow' = TrickNow

\* Hands and ecarts that do not change.
LEMMA HandsStay ==
  ASSUME UInv, Seated, SameSeats, \A c \in Playing : SameHand(c) /\ SameEcart(c)
  PROVE  HandsNow' = HandsNow /\ EcartsNow' = EcartsNow
<1>1. \A i \in Present : \E c \in Playing : SeatOf(c) = i
  BY SeatFacts DEF UInv
<1>2. \A c \in Playing : HandsNow'[SeatOf(c)] = HandsNow[SeatOf(c)] /\ EcartsNow'[SeatOf(c)] = EcartsNow[SeatOf(c)]
  BY FamiliesAre, FamiliesWillBe DEF SameHand, SameEcart
<1>3. \A i \in Present : HandsNow'[i] = HandsNow[i] /\ EcartsNow'[i] = EcartsNow[i]
  BY <1>1, <1>2
<1>4. QED
  BY <1>3, FamiliesAre, FamiliesWillBe DEF SameSeats

LEMMA ViewStays ==
  ASSUME UInv, UInv', Seated, EInv, EInv', Playable, Playable', SameView
  PROVE  UNCHANGED Abstract!vars
<1> PICK ph, m, r, pp, hs, es, l, t, k, tot : Table(ph, m, r, pp, hs, es, l, t, k, tot)
  BY DEF Table, Playable
<1>1. Seen(ph, m, r, pp, hs, es, l, t, k, tot)
  BY TableSeen
<1>2. HandsNow' = HandsNow /\ EcartsNow' = EcartsNow
  BY HandsStay DEF SameView
<1>3. TotalsNow' = TotalsNow
  BY DEF TotalsNow, SameView, SameSeats
<1>4. PhaseNow' = PhaseNow
  BY DEF PhaseNow, SameView
<1>5. Table(ph, m, r, pp, hs, es, l, t, k, tot)'
  BY <1>2, <1>3, <1>4 DEF Table, Playable, SameView, SameSeats, SameRound
<1>6. Seen(ph, m, r, pp, hs, es, l, t, k, tot)'
  BY <1>5, TableWillBeSeen
<1>7. QED
  BY <1>1, <1>6, NothingSeen

LEMMA LobbyStays == ASSUME ~Playable, ~Playable' PROVE UNCHANGED Abstract!vars
<1>1. SeenLobby
  BY NoGameSeen DEF Playable
<1>2. SeenLobby'
  BY NoGameWillBeSeen DEF Playable
<1>3. Seen("lobby", 0, 0, 0, <<>>, <<>>, 0, <<>>, 0, <<>>)
  BY <1>1 DEF SeenLobby
<1>4. Seen("lobby", 0, 0, 0, <<>>, <<>>, 0, <<>>, 0, <<>>)'
  BY <1>2 DEF SeenLobby
<1>5. QED
  BY <1>3, <1>4, NothingSeen

\* The trick stays if the turn does and no card is played.
LEMMA TrickStays ==
  ASSUME UInv, Seated, UInv', Seated', Playing' = Playing, CardsOnBoard' = CardsOnBoard,
         \A c \in Playing : SamePlay(c), \A c : HasTurn(c)' <=> HasTurn(c), InTricks' <=> InTricks
  PROVE  TrickNow' = TrickNow
<1>1. CASE ~InTricks
  BY <1>1, TrickIs, TrickWillBe
<1>2. CASE InTricks
  <2>1. PICK c : HasTurn(c) /\ c \in Playing
    BY <1>2, TrickIs
  <2>2. TrickNow = Glue(CardsOnBoard, PlayedBy(c)) /\ TrickNow' = Glue(CardsOnBoard', PlayedBy(c)')
    BY <2>1, TrickIs, TrickWillBe
  <2>3. PlayedBy(c)' = PlayedBy(c)
    BY <2>1 DEF SamePlay
  <2>4. QED
    BY <2>2, <2>3
<1>3. QED
  BY <1>1, <1>2

-----------------------------------------------------------------------------
(* The steps of a client, as the players see them.                         *)

LEMMA AloneView ==
  ASSUME NEW c \in Clients, Alone(c)
  PROVE  /\ SameSeats /\ SameRound /\ srv' = srv /\ board' = board /\ hist' = hist
         /\ (InTricks' <=> InTricks) /\ (Playable' <=> Playable)
         /\ CardsOnBoard' = CardsOnBoard /\ Playing' = Playing
         /\ \A d : HasTurn(d)' <=> HasTurn(d)
<1>1. Kept
  BY AloneKept
<1>2. UNCHANGED serverVars
  BY DEF Alone
<1>3. SameSeats
  BY <1>2, SeatsStay DEF serverVars
<1>4. CardsOnBoard' = CardsOnBoard
  BY <1>1 DEF Kept, CardsOnBoard
<1>5. \A d : HasTurn(d)' <=> HasTurn(d)
  BY <1>2, ServerSame
<1>6. QED
  BY <1>1, <1>3, <1>4, <1>5 DEF Kept, SameRound, Playable

\* Nobody sees that a client receives a message or reports.
LEMMA HiddenSeen ==
  ASSUME UInv, UInv', Seated, Seated', EInv, EInv', Playable, NEW c \in Clients, Alone(c),
         c \in Playing => SameHand(c) /\ SameEcart(c) /\ SamePlay(c)
  PROVE  UNCHANGED Abstract!vars
<1>1. \A d \in Playing : SameHand(d) /\ SameEcart(d) /\ SamePlay(d)
  <2>1. \A d \in Playing : d \in Clients
    BY SeatFacts DEF UInv
  <2>2. QED
    BY <2>1, OthersStill DEF Still
<1>2. TrickNow' = TrickNow
  BY <1>1, AloneView, TrickStays
<1>3. SameView
  BY <1>1, <1>2, AloneView DEF SameView
<1>4. QED
  BY <1>3, AloneView, ViewStays

\* Some cards that are taken out of others.
LEMMA CardsOut ==
  ASSUME NEW all, NEW rest, NEW out, Split(all, rest, out), IsInjective(all)
  PROVE  /\ ToSet(out) \subseteq ToSet(all) /\ ToSet(rest) = ToSet(all) \ ToSet(out)
         /\ Cardinality(ToSet(out)) = Len(out)
<1>1. /\ ToSet(all) = ToSet(rest) \cup ToSet(out) /\ ToSet(rest) \cap ToSet(out) = {}
      /\ IsInjective(out) /\ out \in CardSeq
  BY DEF Split
<1> PICK z : z = Len(out)
  OBVIOUS
<1>2. z \in Nat /\ DOMAIN out = 1..z
  BY <1>1 DEF CardSeq
<1>3. \A j, k \in 1..z : out[j] = out[k] => j = k
  BY <1>1, <1>2 DEF IsInjective
<1>4. Cardinality({out[k] : k \in 1..z}) = z
  BY <1>2, <1>3, DistinctCards
<1>5. ToSet(out) = {out[k] : k \in 1..z}
  BY <1>2 DEF ToSet
<1>6. QED
  BY <1>1, <1>4, <1>5

\* Nobody has a card twice.
LEMMA HandOnce ==
  ASSUME CInv, Playable, ~srv.updating_score, NEW c \in Playing
  PROVE  IsInjective(HandOf(c))
<1>1. AllHeld
  BY DEF CInv, Playable
<1>2. HandAt(c) \in Places /\ HeldAt[HandAt(c)] = HandOf(c)
  BY PlacesAre, HeldThere
<1>3. QED
  BY <1>1, <1>2 DEF AllHeld, Conserved

\* The hand and the ecart of one player change.
LEMMA OneHand ==
  ASSUME UInv, Seated, NEW c \in Clients, c \in Playing, Alone(c),
         NEW H, ToSet(HandOf(c)') = H, NEW E, ToSet(EcartOf(c)') = E
  PROVE  /\ HandsNow' = [HandsNow EXCEPT ![SeatOf(c)] = H]
         /\ EcartsNow' = [EcartsNow EXCEPT ![SeatOf(c)] = E]
<1> PICK p : p = SeatOf(c)
  OBVIOUS
<1>1. /\ \A i \in Present : \E d \in Playing : SeatOf(d) = i
      /\ \A d \in Playing : d \in Clients /\ SeatOf(d) \in Present /\ (SeatOf(d) = p => d = c)
  BY SeatFacts DEF UInv
<1>2. HandsNow'[p] = H /\ EcartsNow'[p] = E
  BY FamiliesWillBe, AloneView
<1>3. \A i \in Present : i # p => HandsNow'[i] = HandsNow[i] /\ EcartsNow'[i] = EcartsNow[i]
  <2> SUFFICES ASSUME NEW i \in Present, i # p
               PROVE  HandsNow'[i] = HandsNow[i] /\ EcartsNow'[i] = EcartsNow[i]
    OBVIOUS
  <2>1. PICK d \in Playing : SeatOf(d) = i
    BY <1>1
  <2>2. d \in Clients /\ d # c
    BY <1>1, <2>1
  <2>3. SameHand(d) /\ SameEcart(d)
    BY <2>2, OthersStill DEF Still
  <2>4. QED
    BY <2>1, <2>3, FamiliesAre, FamiliesWillBe, AloneView DEF SameHand, SameEcart
<1>4. QED
  <2> PICK hs : hs = HandsNow
    OBVIOUS
  <2> PICK es : es = EcartsNow
    OBVIOUS
  <2> PICK gs : gs = HandsNow'
    OBVIOUS
  <2> PICK fs : fs = EcartsNow'
    OBVIOUS
  <2> PICK P : P = Present
    OBVIOUS
  <2>1. /\ hs = [i \in P |-> hs[i]] /\ es = [i \in P |-> es[i]]
        /\ gs = [i \in P |-> gs[i]] /\ fs = [i \in P |-> fs[i]]
    BY FamiliesAre, FamiliesWillBe, AloneView
  <2>2. gs[p] = H /\ fs[p] = E /\ \A i \in P : i # p => gs[i] = hs[i] /\ fs[i] = es[i]
    BY <1>2, <1>3
  <2>3. gs = [hs EXCEPT ![p] = H]
    BY <2>1, <2>2
  <2>4. fs = [es EXCEPT ![p] = E]
    BY <2>1, <2>2
  <2>5. QED
    BY <2>3, <2>4

LEMMA GivenSeen ==
  ASSUME UInv, UInv', Seated, Seated', TInv, RInv, EInv, EInv', CInv,
         NEW c \in Clients, Alone(c), GivesEcart(c)
  PROVE  Abstract!Next
<1>1. /\ c \in Playing /\ ~Asleep /\ InEcarts /\ ~InTricks /\ ~srv.updating_score /\ srv.game_running
  BY BeforeEcart, GivesRoles DEF GivesEcart, InEcarts
<1>2. PICK x \in CardSeq : /\ Len(x) = EcartSize /\ Split(HandOf(c), HandOf(c)', x)
                           /\ EcartOf(c) = <<>> /\ EcartOf(c)' = x
  BY GivesRoles
<1> PICK ph, m, r, pp, hs, es, l, t, k, tot : Table(ph, m, r, pp, hs, es, l, t, k, tot)
  BY <1>1 DEF Table
<1>3. ph = "ecarts"
  BY <1>1 DEF Table, PhaseNow
<1>4. Seen("ecarts", m, r, pp, hs, es, l, t, k, tot)
  BY <1>3, TableSeen
<1> PICK p : p = SeatOf(c)
  OBVIOUS
<1> PICK E : E = ToSet(x)
  OBVIOUS
<1>5. p \in 0..m - 1 /\ Present = 0..m - 1
  BY <1>1, SeatFacts DEF UInv, Table
<1>6. hs[p] = ToSet(HandOf(c)) /\ es[p] = {} /\ ToSet(EcartOf(c)') = E
  BY <1>1, <1>2, NoCards, FamiliesAre DEF Table
<1>7. /\ E \subseteq hs[p] /\ ToSet(HandOf(c)') = hs[p] \ E /\ Cardinality(E) = EcartSize
  BY <1>1, <1>2, <1>6, CardsOut, HandOnce DEF Playable
<1> PICK gs : gs = [hs EXCEPT ![p] = @ \ E]
  OBVIOUS
<1> PICK fs : fs = [es EXCEPT ![p] = E]
  OBVIOUS
<1>8. HandsNow' = gs /\ EcartsNow' = fs
  <2> PICK H : H = hs[p] \ E
    OBVIOUS
  <2>1. HandsNow' = [hs EXCEPT ![p] = H] /\ EcartsNow' = fs
    BY <1>1, <1>6, <1>7, OneHand DEF Table
  <2>2. QED
    BY <2>1
<1>9. \A d \in Playing : SamePlay(d)
  <2>1. SamePlay(c) /\ \A d \in Playing : d \in Clients
    BY GivesRoles, SeatFacts DEF UInv
  <2>2. QED
    BY <2>1, OthersStill DEF Still
<1>10. TrickNow' = TrickNow
  BY <1>9, AloneView, TrickStays
<1>11. PhaseNow' = PhaseNow /\ TotalsNow' = TotalsNow /\ amount_players' = amount_players
  BY AloneView DEF PhaseNow, TotalsNow, SameSeats
<1>12. Table("ecarts", m, r, pp, gs, fs, l, t, k, tot)'
  BY <1>3, <1>8, <1>10, <1>11, AloneView DEF Table, Playable
<1>13. Seen("ecarts", m, r, pp, gs, fs, l, t, k, tot)'
  BY <1>12, TableWillBeSeen
<1>14. QED
  BY <1>4, <1>5, <1>6, <1>7, <1>13, GiveSeen

LEMMA PlayedSeen ==
  ASSUME UInv, UInv', Seated, Seated', TInv, RInv, EInv, EInv', CInv,
         NEW c \in Clients, Alone(c), PlaysCard(c)
  PROVE  Abstract!Next
<1>1. /\ c \in Playing /\ ~Asleep /\ InTricks /\ SameEcart(c) /\ HasTurn(c)
      /\ ~srv.updating_score /\ srv.game_running
  BY PlaysRoles, AskedFacts DEF PlaysCard, InTricks
<1>2. PICK x \in CardSeq : /\ Len(x) = 1 /\ Split(HandOf(c), HandOf(c)', x)
                           /\ PlayedBy(c) = <<>> /\ PlayedBy(c)' = x
  BY PlaysRoles
<1> PICK ph, m, r, pp, hs, es, l, t, k, tot : Table(ph, m, r, pp, hs, es, l, t, k, tot)
  BY <1>1 DEF Table
<1>3. ph = "tricks"
  BY <1>1 DEF Table, PhaseNow
<1>4. Seen("tricks", m, r, pp, hs, es, l, t, k, tot)
  BY <1>3, TableSeen
<1> PICK p : p = SeatOf(c)
  OBVIOUS
<1> PICK card : card = x[1]
  OBVIOUS
<1>5. p \in 0..m - 1 /\ Present = 0..m - 1
  BY <1>1, SeatFacts DEF UInv, Table
<1>6. ToSet(x) = {card}
  BY <1>2 DEF ToSet, CardSeq
<1>7. hs[p] = ToSet(HandOf(c)) /\ es[p] = ToSet(EcartOf(c)) /\ ToSet(EcartOf(c)') = es[p]
  BY <1>1, FamiliesAre DEF Table, SameEcart
<1>8. card \in hs[p] /\ ToSet(HandOf(c)') = hs[p] \ {card}
  BY <1>1, <1>2, <1>6, <1>7, CardsOut, HandOnce DEF Playable
<1> PICK gs : gs = [hs EXCEPT ![p] = @ \ {card}]
  OBVIOUS
<1>9. HandsNow' = gs /\ EcartsNow' = es
  <2> PICK H : H = hs[p] \ {card}
    OBVIOUS
  <2> PICK E : E = es[p]
    OBVIOUS
  <2>1. HandsNow' = [hs EXCEPT ![p] = H] /\ EcartsNow' = [es EXCEPT ![p] = E]
    BY <1>1, <1>7, <1>8, OneHand DEF Table
  <2>2. es = [i \in Present |-> es[i]]
    BY FamiliesAre DEF Table
  <2>3. QED
    BY <2>1, <2>2
<1>10. t = CardsOnBoard /\ TrickNow' = Append(t, card)
  <2> PICK b : b = CardsOnBoard
    OBVIOUS
  <2>1. b \in CardSeq
    BY BoardSeq
  <2>2. t = Glue(b, <<>>)
    BY <1>1, <1>2, TrickIs DEF Table
  <2>3. TrickNow' = Glue(b, x)
    BY <1>1, <1>2, AloneView, TrickWillBe
  <2>4. x = <<card>>
    BY <1>2 DEF CardSeq
  <2>5. Glue(b, <<card>>) = Append(b, card) /\ Glue(b, <<>>) = b
    BY <2>1 DEF Glue, CardSeq
  <2>6. QED
    BY <2>2, <2>3, <2>4, <2>5
<1>11. Len(t) < m /\ p = (l + Len(t)) % m
  <2>1. Len(t) = board.pli_size
    BY <1>10, BoardSeq
  <2>2. board.pli_size \in 0..amount_players - 1 /\ amount_players \in Nat
    BY <1>1, SeatFacts DEF UInv, Phases
  <2>3. c = Player((srv.current_player_turn + board.pli_size) % amount_players)
    BY <1>1 DEF HasTurn
  <2>4. (srv.current_player_turn + board.pli_size) % amount_players \in Present
    BY <1>1, TurnHolder DEF UInv
  <2>5. p = (srv.current_player_turn + board.pli_size) % amount_players
    BY <2>3, <2>4, SeatFacts DEF UInv
  <2>6. QED
    BY <2>1, <2>2, <2>5 DEF Table
<1> PICK u : u = Append(t, card)
  OBVIOUS
<1>12. PhaseNow' = PhaseNow /\ TotalsNow' = TotalsNow /\ amount_players' = amount_players
  BY AloneView DEF PhaseNow, TotalsNow, SameSeats
<1>13. Table("tricks", m, r, pp, gs, es, l, u, k, tot)'
  BY <1>3, <1>9, <1>10, <1>12, AloneView DEF Table, Playable
<1>14. Seen("tricks", m, r, pp, gs, es, l, u, k, tot)'
  BY <1>13, TableWillBeSeen
<1>15. QED
  BY <1>4, <1>5, <1>8, <1>11, <1>14, PlaySeen

LEMMA ClientSeen ==
  ASSUME UInv, UInv', Seated, Seated', TInv, RInv, EInv, EInv', CInv,
         NEW c \in Clients, Alone(c), Moves(c)
  PROVE  Abstract!Next \/ UNCHANGED Abstract!vars
<1>1. CASE ~Playable
  BY <1>1, AloneView, LobbyStays
<1>2. CASE Playable /\ c \notin Playing
  BY <1>2, HiddenSeen
<1>3. CASE Playable /\ c \in Playing
  <2>1. ~Asleep
    BY <1>3 DEF Playable
  <2>2. ASSUME SameHand(c) /\ SameEcart(c) /\ SamePlay(c) PROVE UNCHANGED Abstract!vars
    BY <1>3, <2>2, HiddenSeen
  <2>3. ASSUME NEW code \in NotedCodes, Notes(c, code) PROVE UNCHANGED Abstract!vars
    BY <2>2, <2>3, NotesRoles DEF Still
  <2>4. CASE GivesEcart(c)
    BY <2>4, GivenSeen
  <2>5. CASE PlaysCard(c)
    BY <2>5, PlayedSeen
  <2>6. CASE Reports(c)
    BY <1>3, <2>1, <2>2, <2>6, ReportsRoles
  <2>7. CASE Talks(c)
    BY <1>3, <2>1, <2>2, <2>7, TalksRoles DEF Still
  <2>8. CASE Leaves(c)
    BY <1>3, <2>1, <2>8 DEF Leaves
  <2>9. QED
    BY <2>3, <2>4, <2>5, <2>6, <2>7, <2>8 DEF Moves
<1>4. QED
  BY <1>1, <1>2, <1>3

-----------------------------------------------------------------------------
(* The rounds of a game.                                                   *)

\* A game has Rounds rounds, and another one follows only before the last.
KInv ==
  /\ ~srv.game_running => srv.current_round = 0
  /\ srv.game_running /\ ~Asleep => srv.current_round \in 1..Rounds
  /\ srv.updating_score /\ ~Asleep => srv.current_round < Rounds

\* The last trick of a round ends the game after the last round, and only then.
RoundEndsHere(i) == /\ RoundEnds(i) /\ srv.amount_turn + 1 = AMOUNT_PLI
                    /\ Asleep' <=> srv.current_round = Rounds

LEMMA RoundEndsCases ==
  ASSUME UInv, Seated, NEW i, EndRound(i) \/ EndGame(i)
  PROVE  i \in Present /\ RoundEndsHere(i)
<1>1. i \in Present /\ RoundEnds(i) /\ srv.amount_turn + 1 = AMOUNT_PLI
  BY RoundEndsFacts, GameEndsFacts DEF EndRound, EndGame, LastTrick
<1>2. CASE EndRound(i)
  <2>1. ~Asleep
    BY <1>2, TrickEndFacts DEF EndRound
  <2>2. ~Asleep'
    BY <1>2, <2>1, ServedAwake DEF EndRound
  <2>3. srv.current_round # Rounds
    BY <1>2 DEF EndRound, LastRound
  <2>4. QED
    BY <1>1, <2>2, <2>3 DEF RoundEndsHere
<1>3. CASE EndGame(i)
  <2>1. Asleep'
    BY <1>3 DEF EndGame, Asleep, Seated, Shape
  <2>2. srv.current_round = Rounds
    BY <1>3 DEF EndGame, LastRound
  <2>3. QED
    BY <1>1, <2>1, <2>2 DEF RoundEndsHere
<1>4. QED
  BY <1>2, <1>3

\* Every step of the server, with the rounds.
LEMMA ServerRounds ==
  ASSUME UInv, Seated, ServerNext
  PROVE  \/ QuietStep
         \/ \E perm \in Shuffles, papayoo \in Suits : Deals(perm, papayoo)
         \/ \E i \in Present : TrickGoes(i) \/ TrickOver(i) \/ RoundEndsHere(i)
         \/ SendsBack \/ Clears \/ \E d \in Clients : Admits(d)
<1>1. CASE \E i \in Seats : EndRound(i) \/ EndGame(i)
  BY <1>1, RoundEndsCases
<1>2. CASE \E i \in Seats : TrickGoesOn(i) \/ NextTrick(i)
  BY <1>2, TrickGoesFacts, TrickOverFacts
<1>3. CASE \E i \in Seats : add_player(i) \/ receive_ecart_from_player(i) \/ update_score(i) \/ send_basic_info(i)
  BY <1>3, SignsUpFacts, GetsEcartFacts, CountsScoreFacts, InformsFacts DEF QuietStep
<1>4. CASE Select \/ NothingToDo \/ AlarmRestarts
  BY <1>4, IdlesFacts DEF QuietStep
<1>5. CASE RefuseClient
  BY <1>5, RefusesFacts DEF QuietStep
<1>6. CASE AlarmStartsGame \/ start_round
  BY <1>6, StartFacts
<1>7. CASE AddClient
  BY <1>7, AdmitsFacts
<1>8. CASE clear_lobby
  BY <1>8, ClearsFacts
<1>9. CASE send_ecart_back
  BY <1>9, SendsBackFacts
<1>10. ~Killed /\ \A i : ~remove_player(i)
  BY NobodyLeft
<1>11. QED
  BY <1>1, <1>2, <1>3, <1>4, <1>5, <1>6, <1>7, <1>8, <1>9, <1>10
     DEF ServerNext, MainLoop, AlarmHandler, Dispatch

\* What a step that moves no card leaves alone besides.
LEMMA QuietRest ==
  ASSUME QuietStep
  PROVE  /\ ~Asleep /\ ~Asleep' /\ SameRound /\ hist'.earned = hist.earned
         /\ srv'.current_player_turn = srv.current_player_turn
<1>1. CASE Idles
  BY <1>1 DEF Idles, SameTable, SameTrick, SameScores
<1>2. ASSUME NEW i \in Present, SignsUp(i) \/ Informs(i) \/ GetsEcart(i) \/ CountsScore(i)
      PROVE  /\ ~Asleep /\ ~Asleep' /\ SameRound /\ hist'.earned = hist.earned
             /\ srv'.current_player_turn = srv.current_player_turn
  BY <1>2 DEF SignsUp, Informs, GetsEcart, CountsScore, SameTable, SameTrick, SameScores
<1>3. ASSUME NEW d \in Clients, Refuses(d)
      PROVE  /\ ~Asleep /\ ~Asleep' /\ SameRound /\ hist'.earned = hist.earned
             /\ srv'.current_player_turn = srv.current_player_turn
  BY <1>3 DEF Refuses, FirstWord, SameRound
<1>4. QED
  BY <1>1, <1>2, <1>3 DEF QuietStep

LEMMA KInvServer ==
  ASSUME UInv, Seated, TInv, KInv, ServerNext
  PROVE  KInv'
<1> PICK r : r = srv.current_round
  OBVIOUS
<1>1. r \in Nat /\ Rounds \in Nat \ {0} /\ srv.game_running \in BOOLEAN /\ srv.updating_score \in BOOLEAN
      /\ (Asleep => srv.game_running) /\ (srv.updating_score => srv.game_running)
  BY ServerAssumption DEF TInv, ServerTypes, UInv, Phases
<1>2. CASE QuietStep
  <2>1. /\ ~Asleep /\ ~Asleep' /\ srv'.current_round = r /\ srv'.game_running = srv.game_running
        /\ srv'.updating_score = srv.updating_score
    BY <1>2, QuietRest, QuietPhases DEF SameRound, SamePhases
  <2>2. QED
    BY <2>1 DEF KInv
<1>3. ASSUME NEW perm \in Shuffles, NEW papayoo \in Suits, Deals(perm, papayoo) PROVE KInv'
  <2>1. /\ srv'.game_running = TRUE /\ srv'.updating_score = FALSE /\ srv'.current_round = r + 1
        /\ ~Asleep /\ (~srv.game_running \/ srv.updating_score)
    BY <1>3 DEF Deals, SameTable
  <2>2. r = 0 \/ (r < Rounds)
    BY <2>1 DEF KInv
  <2>3. QED
    BY <1>1, <2>1, <2>2 DEF KInv
<1>4. ASSUME NEW i \in Present, TrickGoes(i) \/ TrickOver(i) PROVE KInv'
  <2>1. /\ srv'.updating_score = srv.updating_score /\ SameRound /\ ~Asleep /\ ~Asleep'
    BY <1>4 DEF TrickGoes, TrickOver, TrickTaken, LaysCard, SameTable
  <2>2. QED
    BY <2>1 DEF KInv, SameRound
<1>5. ASSUME NEW i \in Present, RoundEndsHere(i) PROVE KInv'
  <2>1. /\ srv'.updating_score = TRUE /\ SameRound /\ ~Asleep /\ InTricks
        /\ (Asleep' <=> r = Rounds)
    BY <1>5 DEF RoundEndsHere, RoundEnds, TrickTaken, LaysCard, SameTable
  <2>2. r \in 1..Rounds /\ srv.game_running
    BY <2>1 DEF KInv, InTricks
  <2>3. srv'.current_round = r /\ srv'.game_running = srv.game_running
    BY <2>1 DEF SameRound
  <2>4. ~Asleep' => r < Rounds
    BY <1>1, <2>1, <2>2
  <2>5. QED
    BY <2>2, <2>3, <2>4 DEF KInv
<1>6. CASE SendsBack
  <2>1. SameRound /\ ~Asleep /\ ~Asleep' /\ InEcarts /\ InTricks'
    BY <1>6 DEF SendsBack, SameTable
  <2>2. QED
    BY <2>1 DEF KInv, SameRound, InTricks, InEcarts
<1>7. CASE Clears
  BY <1>7 DEF Clears, KInv
<1>8. ASSUME NEW d \in Clients, Admits(d) PROVE KInv'
  BY <1>8 DEF Admits, FirstWord, KInv
<1>9. QED
  BY <1>2, <1>3, <1>4, <1>5, <1>6, <1>7, <1>8, ServerRounds

LEMMA KInvNext == ASSUME Undisturbed, UInv, Seated, TInv, KInv, [Next]_vars PROVE KInv'
<1>1. CASE ServerNext
  BY <1>1, KInvServer
<1>2. CASE ClientNext
  <2>1. PICK c \in Clients : Alone(c) /\ Moves(c)
    BY <1>2, ClientMoves
  <2>2. QED
    BY <2>1, AloneKept DEF Kept, KInv
<1>3. CASE UNCHANGED vars
  BY <1>3 DEF vars, serverVars, KInv, Asleep
<1>4. QED
  BY <1>1, <1>2, <1>3 DEF Next

LEMMA KInvInit == Init => KInv
  BY DEF Init, ServerInit, KInv

-----------------------------------------------------------------------------
(* The steps of the server, as the players see them.                       *)

LEMMA QuietSeen ==
  ASSUME UInv, UInv', Seated, Seated', TInv, RInv, EInv, EInv', QuietStep
  PROVE  UNCHANGED Abstract!vars
<1>1. SamePhases /\ ~Asleep /\ ~Asleep' /\ SameRound /\ hist'.earned = hist.earned
      /\ srv'.current_player_turn = srv.current_player_turn
  BY QuietPhases, QuietRest
<1>2. CASE ~srv.game_running
  <2>1. ~Playable /\ ~Playable'
    BY <1>1, <1>2 DEF Playable, SamePhases
  <2>2. QED
    BY <2>1, LobbyStays
<1>3. CASE srv.game_running
  <2>1. Playable /\ Playable'
    BY <1>1, <1>3 DEF Playable, SamePhases
  <2>2. \A c \in Playing : SameHand(c) /\ SameEcart(c) /\ SamePlay(c)
    <3>1. \A c \in Playing : c \in Clients
      BY SeatFacts DEF UInv
    <3>2. QED
      BY <3>1, QuietRoles DEF StillAndChosen, Still
  <2>3. CardsOnBoard' = CardsOnBoard /\ Playing' = Playing
    BY <1>1 DEF SamePhases, SameSeats, CardsOnBoard
  <2>4. \A c : HasTurn(c)' <=> HasTurn(c)
    <3> SUFFICES ASSUME InTricks, NEW c PROVE HasTurn(c)' <=> HasTurn(c)
      BY <1>1 DEF HasTurn, SamePhases
    <3> PICK i : i = (srv.current_player_turn + board.pli_size) % amount_players
      OBVIOUS
    <3>1. i = ((srv.current_player_turn + board.pli_size) % amount_players)'
      BY <1>1 DEF SamePhases, SameSeats
    <3>2. i \in Present
      BY TurnHolder DEF UInv
    <3>3. Player(i)' = Player(i)
      BY <1>1, <3>2 DEF SamePhases, SameSeats
    <3>4. (HasTurn(c) <=> c = Player(i)) /\ (HasTurn(c)' <=> c = Player(i)')
      BY <1>1, <3>1 DEF HasTurn, SamePhases
    <3>5. QED
      BY <3>3, <3>4
  <2>5. TrickNow' = TrickNow
    BY <1>1, <2>2, <2>3, <2>4, TrickStays DEF SamePhases
  <2>6. SameView
    BY <1>1, <2>2, <2>5 DEF SameView, SamePhases
  <2>7. QED
    BY <2>1, <2>6, ViewStays
<1>4. QED
  BY <1>2, <1>3

LEMMA LobbySeenOn ==
  ASSUME UInv, Clears \/ \E d \in Clients : Admits(d)
  PROVE  UNCHANGED Abstract!vars
<1>1. ~Playable /\ ~Playable'
  BY DEF Clears, Admits, FirstWord, Playable
<1>2. QED
  BY <1>1, LobbyStays

\* The hands that are dealt.
LEMMA DealtSeen ==
  ASSUME UInv, Seated, TInv, RInv, NEW perm \in Shuffles, NEW papayoo, Deals(perm, papayoo),
         NEW m, m = amount_players
  PROVE  DealOf(m, HandsNow', EcartsNow')
<1>1. SameSeats /\ m \in Nat /\ m >= 2 /\ Present = 0..m - 1
  BY SeatFacts DEF UInv, Deals, SameTable
<1> PICK z : z = DeckSize \div m
  OBVIOUS
<1> PICK deck : deck = Shuffled(perm)
  OBVIOUS
<1> PICK hs : hs = HandsNow'
  OBVIOUS
<1> PICK es : es = EcartsNow'
  OBVIOUS
<1>2. /\ \A k \in 1..DeckSize : deck[k] \in Card
      /\ \A j, k \in 1..DeckSize : deck[j] = deck[k] => j = k
  BY ShuffledDeck
<1>3. ASSUME NEW i \in 0..m - 1
      PROVE  /\ z \in Nat /\ hs[i] = {deck[Spot(i, z, k)] : k \in 1..z} /\ es[i] = {}
             /\ \A k \in 1..z : Spot(i, z, k) \in 1..DeckSize
  <2> PICK h : h = Dealt(deck, m, i)
    OBVIOUS
  <2>1. /\ z \in Nat /\ h \in CardSeq /\ Len(h) = z
        /\ \A k \in 1..z : Spot(i, z, k) \in 1..DeckSize /\ h[k] = deck[Spot(i, z, k)]
    <3>1. m \in Nat \ {0}
      BY <1>1
    <3>2. /\ DeckSize \div m \in Nat
          /\ Dealt(Shuffled(perm), m, i) \in CardSeq
          /\ Len(Dealt(Shuffled(perm), m, i)) = DeckSize \div m
          /\ \A k \in 1..DeckSize \div m :
               /\ i * (DeckSize \div m) + k \in 1..DeckSize
               /\ Dealt(Shuffled(perm), m, i)[k] = Shuffled(perm)[i * (DeckSize \div m) + k]
      BY <3>1, DealtHands
    <3>3. QED
      BY <3>2 DEF Spot
  <2>2. PICK c \in Playing : SeatOf(c) = i /\ c \in Clients
    BY <1>1, SeatFacts DEF UInv
  <2>3. HandOf(c)' = h /\ EcartOf(c)' = <<>>
    BY <2>2, DealRoles
  <2>4. hs[i] = ToSet(h) /\ es[i] = {}
    BY <1>1, <2>2, <2>3, NoCards, FamiliesWillBe
  <2>5. ToSet(h) = {h[k] : k \in 1..z}
    BY <2>1 DEF ToSet, CardSeq
  <2>6. QED
    BY <2>1, <2>4, <2>5
<1>4. hs = [i \in 0..m - 1 |-> hs[i]] /\ es = [i \in 0..m - 1 |-> es[i]]
  BY <1>1, FamiliesWillBe
<1>5. es = [i \in 0..m - 1 |-> {}]
  BY <1>3, <1>4
<1>6. hs \in [0..m - 1 -> SUBSET Card]
  <2>1. \A i \in 0..m - 1 : hs[i] \in SUBSET Card
    BY <1>2, <1>3
  <2>2. QED
    BY <1>4, <2>1
<1>7. ASSUME NEW i \in 0..m - 1, NEW j \in 1..z, NEW i1 \in 0..m - 1, NEW j1 \in 1..z,
             deck[Spot(i, z, j)] = deck[Spot(i1, z, j1)]
      PROVE  i = i1 /\ j = j1
  <2>1. Spot(i, z, j) = Spot(i1, z, j1)
    BY <1>2, <1>3, <1>7
  <2>2. z \in Nat
    BY <1>3
  <2>3. \A s, t \in 0..m - 1, a, b \in 1..z : s * z + a = t * z + b => s = t /\ a = b
    BY ONLY <1>1, <2>2, Positions
  <2>4. \A s, t \in 0..m - 1, a, b \in 1..z : Spot(s, z, a) = Spot(t, z, b) => s = t /\ a = b
    BY ONLY <2>3 DEF Spot
  <2>5. QED
    BY <2>1, <2>4
<1>8. \A i \in 0..m - 1 : Cardinality(hs[i]) = z
  <2> SUFFICES ASSUME NEW i \in 0..m - 1 PROVE Cardinality(hs[i]) = z
    OBVIOUS
  <2> PICK h : h = [k \in 1..z |-> deck[Spot(i, z, k)]]
    OBVIOUS
  <2>1. \A k \in 1..z : h[k] = deck[Spot(i, z, k)]
    OBVIOUS
  <2>2. \A j, k \in 1..z : h[j] = h[k] => j = k
    BY <1>7, <2>1
  <2>3. Cardinality({h[k] : k \in 1..z}) = z
    <3>1. z \in Nat
      BY <1>3
    <3>2. QED
      BY ONLY <2>2, <3>1, DistinctCards
  <2>4. hs[i] = {h[k] : k \in 1..z}
    BY <1>3, <2>1
  <2>5. QED
    BY <2>3, <2>4
<1>9. \A p, q \in 0..m - 1 : p # q => hs[p] \cap hs[q] = {}
  BY <1>3, <1>7
<1>10. QED
  BY <1>5, <1>6, <1>8, <1>9 DEF DealOf

LEMMA DealsSeen ==
  ASSUME UInv, UInv', Seated, TInv, RInv, EInv, EInv', KInv,
         NEW perm \in Shuffles, NEW papayoo \in Suits, Deals(perm, papayoo)
  PROVE  Abstract!Next
<1> PICK m : m = amount_players
  OBVIOUS
<1> PICK r : r = srv.current_round
  OBVIOUS
<1> PICK hs : hs = HandsNow'
  OBVIOUS
<1> PICK es : es = EcartsNow'
  OBVIOUS
<1> PICK tot : tot = TotalsNow'
  OBVIOUS
<1>1. /\ SameSeats /\ m \in 2..MAX_PLAYERS /\ Present = 0..m - 1 /\ ~Asleep /\ ~Asleep'
      /\ ~InTricks /\ SameTrick
  BY SeatFacts DEF UInv, Deals, SameTable
<1>2. /\ srv'.game_running = TRUE /\ srv'.updating_score = FALSE /\ srv'.current_round = r + 1
      /\ srv'.papayoo = papayoo /\ hist'.given = {}
  BY DEF Deals
<1>3. ~InTricks'
  <2>1. 0 \in Present' /\ hist'.given = {}
    BY <1>1, <1>2 DEF SameSeats
  <2>2. QED
    BY <2>1 DEF InTricks
<1>4. srv'.current_player_turn = 0 /\ srv'.amount_turn = 0
  BY <1>1 DEF SameTrick, UInv, Phases, RInv, Counters
<1>5. DealOf(m, hs, es)
  BY DealtSeen
<1>6. TrickNow' = <<>> /\ PhaseNow' = "ecarts"
  BY <1>2, <1>3 DEF TrickNow, PhaseNow
<1> PICK r1 : r1 = r + 1
  OBVIOUS
<1>7. Table("ecarts", m, r1, papayoo, hs, es, 0, <<>>, 0, tot)'
  BY <1>1, <1>2, <1>4, <1>6 DEF Table, SameSeats
<1>8. Seen("ecarts", m, r1, papayoo, hs, es, 0, <<>>, 0, tot)'
  BY <1>7, TableWillBeSeen
<1>9. CASE ~srv.game_running
  <2>1. SeenLobby
    BY <1>9, NoGameSeen
  <2>2. r1 = 1
    BY <1>9 DEF KInv
  <2>3. tot = [p \in 0..m - 1 |-> 0]
    <3>1. hist'.earned = [i \in Seats |-> 0]
      BY <1>9 DEF Deals, UInv, Phases
    <3>2. Present' = 0..m - 1 /\ Present \subseteq Seats
      BY <1>1, SeatFacts DEF SameSeats, UInv
    <3>3. QED
      BY <1>1, <3>1, <3>2 DEF TotalsNow
  <2>4. QED
    BY <1>1, <1>5, <1>8, <2>1, <2>2, <2>3, StartSeen
<1>10. CASE srv.game_running
  <2>1. srv.updating_score /\ hist'.earned = hist.earned
    BY <1>10 DEF Deals
  <2>2. TotalsNow = tot
    BY <1>1, <2>1 DEF TotalsNow, SameSeats
  <2>3. PICK pp0, hs0, es0, l0, t0, k0 : Table("scores", m, r, pp0, hs0, es0, l0, t0, k0, tot)
    BY <1>1, <1>10, <2>1, <2>2 DEF Table, PhaseNow
  <2>4. Seen("scores", m, r, pp0, hs0, es0, l0, t0, k0, tot)
    BY <2>3, TableSeen
  <2>5. QED
    BY <1>5, <1>8, <2>4, RoundSeen
<1>11. QED
  BY <1>9, <1>10

\* The one whom player q follows in the ring.
LEMMA OnePredecessor ==
  ASSUME NEW m \in Nat \ {0}, NEW q \in 0..m - 1, NEW g, g = (q + m - 1) % m
  PROVE  g \in 0..m - 1 /\ {s \in 0..m - 1 : (s + 1) % m = q} = {g}
<1>1. g = IF q = 0 THEN m - 1 ELSE q - 1
  <2>1. CASE q = 0
    <3>1. q + m - 1 \in 0..m - 1
      BY <2>1
    <3>2. QED
      BY <2>1, <3>1
  <2>2. CASE q # 0
    <3>1. q - 1 \in 0..m - 1 /\ q + m - 1 = (q - 1) + m
      BY <2>2
    <3>2. ((q - 1) + m) % m = q - 1
      BY <3>1
    <3>3. QED
      BY <2>2, <3>1, <3>2
  <2>3. QED
    BY <2>1, <2>2
<1>2. \A s \in 0..m - 1 : (s + 1) % m = IF s = m - 1 THEN 0 ELSE s + 1
  <2> SUFFICES ASSUME NEW s \in 0..m - 1 PROVE (s + 1) % m = IF s = m - 1 THEN 0 ELSE s + 1
    OBVIOUS
  <2>1. CASE s = m - 1
    <3>1. s + 1 = m
      BY <2>1
    <3>2. m % m = 0
      OBVIOUS
    <3>3. QED
      BY <2>1, <3>1, <3>2
  <2>2. CASE s # m - 1
    <3>1. s + 1 \in 0..m - 1
      BY <2>2
    <3>2. QED
      BY <2>2, <3>1
  <2>3. QED
    BY <2>1, <2>2
<1>3. g \in 0..m - 1
  BY <1>1
<1>4. \A s \in 0..m - 1 : (s + 1) % m = q <=> s = g
  BY <1>1, <1>2
<1>5. QED
  BY <1>3, <1>4

LEMMA BackSeen ==
  ASSUME UInv, UInv', Seated, Seated', TInv, RInv, LInv, EInv, EInv', SendsBack
  PROVE  Abstract!Next
<1>1. /\ SameSeats /\ SameRound /\ SameTrick /\ SameScores /\ ~Asleep /\ ~Asleep' /\ InEcarts /\ InTricks'
      /\ hist.given = Present /\ ~InTricks /\ ~srv.updating_score /\ srv.game_running
  BY DEF SendsBack, SameTable, InEcarts
<1> PICK ph, m, r, pp, hs, es, l, t, k, tot : Table(ph, m, r, pp, hs, es, l, t, k, tot)
  BY <1>1 DEF Table
<1>2. ph = "ecarts" /\ t = <<>>
  BY <1>1, TrickIs DEF Table, PhaseNow
<1>3. Seen("ecarts", m, r, pp, hs, es, l, t, k, tot)
  BY <1>2, TableSeen
<1>4. /\ Present = 0..m - 1 /\ m \in Nat
      /\ \A c \in Playing : c \in Clients
      /\ \A q \in 0..m - 1 : \E c \in Playing : SeatOf(c) = q
  BY SeatFacts DEF UInv, Table
<1>5. \A q \in 0..m - 1 : es[q] # {}
  <2> SUFFICES ASSUME NEW q \in 0..m - 1 PROVE es[q] # {}
    OBVIOUS
  <2>1. PICK c \in Playing : SeatOf(c) = q /\ c \in Clients
    BY <1>4
  <2>2. Chosen(c)
    BY <1>1, <1>4, <2>1, EcartHeld
  <2> PICK x : x = EcartOf(c)
    OBVIOUS
  <2>3. Len(x) = EcartSize /\ x \in CardSeq /\ EcartSize \in Nat \ {0}
    BY <1>1, <2>1, <2>2, RolesSeq, CardsAssumption DEF LInv, Lengths
  <2>4. x[1] \in ToSet(x)
    BY <2>3 DEF ToSet, CardSeq
  <2>5. es[q] = ToSet(x)
    BY <2>1, FamiliesAre DEF Table
  <2>6. QED
    BY <2>4, <2>5
<1> PICK gs : gs = HandsNow'
  OBVIOUS
<1> PICK fs : fs = EcartsNow'
  OBVIOUS
<1>6. ASSUME NEW q \in 0..m - 1
      PROVE  /\ gs[q] = hs[q] \cup UNION {es[p] : p \in {s \in 0..m - 1 : (s + 1) % m = q}}
             /\ fs[q] = {}
  <2>1. PICK c \in Playing : SeatOf(c) = q /\ c \in Clients
    BY <1>4
  <2> PICK g : g = Giver(c)
    OBVIOUS
  <2> PICK d : d = Player(g)
    OBVIOUS
  <2>2. g = (q + m - 1) % m /\ d \in Playing /\ d \in Clients /\ SeatOf(d) = g
    BY <2>1, GiverSits DEF Giver, Table
  <2>3. {s \in 0..m - 1 : (s + 1) % m = q} = {g}
    <3>1. m \in Nat \ {0} /\ g = (q + m - 1) % m
      BY <1>4, <2>2
    <3>2. QED
      BY <3>1, OnePredecessor
  <2>4. HandOf(c)' = Glue(HandOf(c), EcartOf(d)) /\ EcartOf(c)' = <<>>
    BY <2>1, BackRoles
  <2>5. HandOf(c) \in CardSeq /\ EcartOf(d) \in CardSeq
    BY <2>1, <2>2, RolesSeq
  <2>6. ToSet(HandOf(c)') = ToSet(HandOf(c)) \cup ToSet(EcartOf(d))
    BY <2>4, <2>5, GlueCards
  <2>7. gs[q] = ToSet(HandOf(c)') /\ fs[q] = ToSet(EcartOf(c)')
    BY <1>1, <2>1, FamiliesWillBe
  <2>8. hs[q] = ToSet(HandOf(c)) /\ es[g] = ToSet(EcartOf(d))
    BY <2>1, <2>2, FamiliesAre DEF Table
  <2>9. gs[q] = hs[q] \cup es[g]
    BY <2>6, <2>7, <2>8
  <2>10. QED
    BY <2>3, <2>4, <2>7, <2>9, NoCards
<1>7. gs = [q \in 0..m - 1 |-> gs[q]] /\ fs = [q \in 0..m - 1 |-> fs[q]]
  BY <1>1, <1>4, FamiliesWillBe
<1>8. TrickNow' = t
  <2>1. PICK c : HasTurn(c)' /\ c \in Playing'
    BY <1>1, TrickWillBe
  <2>2. c \in Playing /\ c \in Clients
    BY <1>1, <1>4, <2>1 DEF SameSeats
  <2>3. PlayedBy(c)' = <<>>
    BY <2>2, BackRoles DEF SamePlay
  <2>4. CardsOnBoard = <<>>
    BY <1>1, BoardSeq
  <2>5. CardsOnBoard' = CardsOnBoard
    BY <1>1 DEF SameTrick, CardsOnBoard
  <2>6. TrickNow' = Glue(<<>>, <<>>)
    BY <2>1, <2>3, <2>4, <2>5, TrickWillBe
  <2>7. QED
    BY <1>2, <2>6 DEF Glue
<1>9. PhaseNow' = "tricks" /\ TotalsNow' = TotalsNow
  BY <1>1 DEF PhaseNow, TotalsNow, SameSeats, SameScores, InTricks
<1>10. Table("tricks", m, r, pp, gs, fs, l, t, k, tot)'
  BY <1>1, <1>8, <1>9 DEF Table, SameSeats, SameRound, SameTrick
<1>11. Seen("tricks", m, r, pp, gs, fs, l, t, k, tot)'
  BY <1>10, TableWillBeSeen
<1>12. gs = [q \in 0..m - 1 |->
               hs[q] \cup UNION {es[p] : p \in {s \in 0..m - 1 : (s + 1) % m = q}}]
       /\ fs = [p \in 0..m - 1 |-> {}]
  BY <1>6, <1>7
<1>13. QED
  BY <1>3, <1>5, <1>11, <1>12, ExchangeSeen

-----------------------------------------------------------------------------
\* Whose card reaches the board is who has the turn.
LEMMA LayerHasTurn ==
  ASSUME UInv, Seated, TInv, RInv, NEW i, NEW m, LaysCard(i, m), NEW c, c = Player(i)
  PROVE  /\ HasTurn(c) /\ c \in Playing /\ c \in Clients
         /\ i = (srv.current_player_turn + board.pli_size) % amount_players
         /\ TrickNow = Glue(CardsOnBoard, <<m.played.card>>)
<1>1. Hearing(i, "PLAY_CARD", m) /\ InTricks
  BY DEF LaysCard
<1>2. c \in Playing /\ c \in Clients /\ i \in Present
  BY <1>1 DEF Hearing
<1>3. PlayedBy(c) = <<m.played.card>>
  BY <1>2, LaysRoles
<1>4. i = (srv.current_player_turn + board.pli_size) % amount_players
  BY CardArrives
<1>5. HasTurn(c)
  BY <1>1, <1>4 DEF HasTurn
<1>6. QED
  BY <1>2, <1>3, <1>4, <1>5, TrickIs

\* Nobody sees that a card that has been played reaches the board.
LEMMA TrickGoesSeen ==
  ASSUME UInv, UInv', Seated, Seated', TInv, RInv, EInv, EInv', NEW i \in Present, TrickGoes(i)
  PROVE  UNCHANGED Abstract!vars
<1>1. PICK m : LaysCard(i, m)
  BY DEF TrickGoes
<1>2. /\ SameSeats /\ SameRound /\ InTricks /\ InTricks' /\ ~Asleep /\ ~Asleep'
      /\ srv'.updating_score = srv.updating_score /\ hist'.earned = hist.earned
      /\ srv'.current_player_turn = srv.current_player_turn /\ srv'.amount_turn = srv.amount_turn
  BY <1>1 DEF TrickGoes, LaysCard, SameTable
<1>3. Playable /\ Playable'
  BY <1>2 DEF Playable, InTricks, SameRound
<1>4. \A c \in Playing : c \in Clients
  BY SeatFacts DEF UInv
<1>5. \A c \in Playing : SameHand(c) /\ SameEcart(c) /\ PlayedBy(c)' = <<>>
  BY <1>4, TrickGoesRoles
<1>6. TrickNow' = TrickNow
  <2> PICK y : y = CardsOnBoard'
    OBVIOUS
  <2>1. y \in CardSeq /\ y = Glue(CardsOnBoard, <<m.played.card>>)
    <3>1. y \in CardSeq /\ Len(y) = board.pli_size + 1
          /\ \A k \in 1..board.pli_size + 1 : y[k] = board'.pli[k - 1].card
      BY <1>1, BoardGrows
    <3>2. QED
      BY <1>1, <3>1, CardGoes
  <2>2. TrickNow = y
    BY <1>1, <2>1, LayerHasTurn
  <2>3. PICK c : HasTurn(c)' /\ c \in Playing'
    BY <1>2, TrickWillBe
  <2>4. c \in Playing /\ PlayedBy(c)' = <<>>
    BY <1>2, <1>5, <2>3 DEF SameSeats
  <2>5. TrickNow' = Glue(y, <<>>)
    BY <2>3, <2>4, TrickWillBe
  <2>6. Glue(y, <<>>) = y
    BY <2>1 DEF Glue, CardSeq
  <2>7. QED
    BY <2>2, <2>5, <2>6
<1>7. SameView
  BY <1>2, <1>5, <1>6 DEF SameView
<1>8. QED
  BY <1>3, <1>7, ViewStays

-----------------------------------------------------------------------------
\* The trick that is over is the one that the players see, and who takes it has
\* played its highest card of the suit that was led.
LEMMA TrickWon ==
  ASSUME UInv, Seated, TInv, RInv, NEW i \in Present, TrickTaken(i)
  PROVE  /\ TrickNow = TrickCards(i) /\ InTricks
         /\ Wins(TrickCards(i), amount_players, srv.current_player_turn, TrickLoser(i))
<1>1. PICK m : LaysCard(i, m)
  BY DEF TrickTaken
<1> PICK n : n = amount_players
  OBVIOUS
<1> PICK s : s = srv.current_player_turn
  OBVIOUS
<1> PICK z : z = board.pli_size
  OBVIOUS
<1> PICK y : y = TrickCards(i)
  OBVIOUS
<1> PICK f : f = board'.pli
  OBVIOUS
<1> PICK p : p = TrickLoser(i)
  OBVIOUS
<1>2. /\ z + 1 = n /\ n \in Nat \ {0} /\ z = n - 1 /\ z \in Nat /\ z \in Seats /\ InTricks
      /\ s \in 0..n - 1 /\ i = (s + z) % n
      /\ f = [board.pli EXCEPT ![z] = m.played] /\ m.played.last_played = i
  <2>1. n \in Nat /\ s \in 0..n - 1 /\ z \in 0..n - 1 /\ InTricks /\ i = (s + z) % n
    BY <1>1, CardArrives
  <2>2. z + 1 = n
    BY DEF TrickTaken
  <2>3. /\ z \in Seats /\ f = [board.pli EXCEPT ![z] = m.played] /\ m.played.last_played = i
    BY <1>1 DEF LaysCard
  <2>4. QED
    BY <2>1, <2>2, <2>3
<1>3. FullBoard(i).pli = f
  BY <1>1, TrickBoard
<1>4. y = [k \in 1..n |-> f[k - 1].card] /\ y \in CardSeq /\ Len(y) = n
  BY <1>1, <1>3, TrickTypes DEF TrickCards
<1>5. TrickNow = y
  <2>1. Len(y) = z + 1 /\ \A k \in 1..z + 1 : y[k] = board'.pli[k - 1].card
    BY <1>2, <1>4
  <2>2. y = Glue(CardsOnBoard, <<m.played.card>>)
    BY <1>1, <1>4, <2>1, CardGoes
  <2>3. QED
    BY <1>1, <2>2, LayerHasTurn
<1>6. ASSUME NEW k \in 0..n - 1
      PROVE  /\ f[k] \in PlayedCard /\ f[k].last_played = (s + k) % n
  <2>1. k \in Seats
    BY <1>2, ServerAssumption DEF Seats
  <2>2. board.pli \in [Seats -> PlayedCard] /\ f \in [Seats -> PlayedCard]
    BY <1>1, TrickTypes DEF TInv, ServerTypes
  <2>3. CASE k = z
    BY <1>2, <2>1, <2>2, <2>3
  <2>4. CASE k # z
    <3>1. k \in 0..z - 1
      BY <1>2, <2>4
    <3>2. board.pli[k].last_played = (s + k) % n
      BY <1>2, <3>1 DEF RInv, Counters
    <3>3. f[k] = board.pli[k]
      BY <1>2, <2>1, <2>2, <2>4
    <3>4. QED
      BY <2>1, <2>2, <3>2, <3>3
  <2>5. QED
    BY <2>3, <2>4
<1>7. \A k \in 0..n - 1 : f[k].card.number \in Nat
  <2>1. \A x \in AnyCard : x.number \in Nat
    BY CardsAssumption DEF AnyCard, Card, NoCard
  <2>2. QED
    BY <1>6, <2>1 DEF PlayedCard
<1>8. PICK k \in 0..n - 1 :
        /\ Loser(f, n) = f[k].last_played /\ f[k].card.type = f[0].card.type
        /\ \A j \in 0..n - 1 : f[j].card.type = f[0].card.type => f[j].card.number <= f[k].card.number
  BY <1>2, <1>7, HighestOfSuitTakes
<1>9. p = (s + k) % n
  BY <1>3, <1>6, <1>8 DEF TrickLoser
<1> PICK e : e = k + 1
  OBVIOUS
<1>10. /\ e \in 1..n /\ p = (s + e - 1) % n /\ y[e] = f[k].card /\ y[1] = f[0].card
       /\ \A j \in 1..n : j - 1 \in 0..n - 1 /\ y[j] = f[j - 1].card
  <2>1. e \in 1..n /\ e - 1 = k /\ s + e - 1 = s + k /\ 1 \in 1..n
    BY <1>2
  <2>2. y[e] = f[k].card /\ y[1] = f[0].card
    BY <1>4, <2>1
  <2>3. ASSUME NEW j \in 1..n PROVE j - 1 \in 0..n - 1 /\ y[j] = f[j - 1].card
    <3>1. j - 1 \in 0..n - 1
      BY <1>2
    <3>2. y[j] = f[j - 1].card
      BY <1>4
    <3>3. QED
      BY <3>1, <3>2
  <2>4. QED
    BY <1>9, <2>1, <2>2, <2>3
<1>11. DOMAIN y = 1..n
  BY <1>4
<1>12. Wins(y, n, s, p)
  <2>1. y[e].type = y[1].type
    BY <1>8, <1>10
  <2>2. \A j \in 1..n : y[j].type = y[1].type => y[j].number <= y[e].number
    BY <1>8, <1>10
  <2>3. QED
    BY <1>4, <1>10, <1>11, <2>1, <2>2 DEF Wins
<1>13. QED
  BY <1>2, <1>5, <1>12

\* What a trick that is taken changes for the players, and what it does not.
LEMMA TakenView ==
  ASSUME UInv, UInv', Seated, Seated', TInv, RInv, NEW i \in Present,
         TrickOver(i) \/ RoundEnds(i), ~Asleep', NEW p, p = TrickLoser(i)
  PROVE  /\ HandsNow' = HandsNow /\ EcartsNow' = EcartsNow /\ TrickNow' = <<>>
         /\ TotalsNow' = [TotalsNow EXCEPT ![p] = @ + Points(TrickCards(i), srv.papayoo)]
         /\ SameSeats /\ SameRound /\ ~Asleep /\ p \in Present
<1>1. TrickTaken(i)
  BY DEF TrickOver, RoundEnds
<1>2. PICK m : LaysCard(i, m)
  BY <1>1 DEF TrickTaken
<1>3. SameSeats /\ SameRound /\ ~Asleep /\ p \in Present /\ board'.pli_size = 0
  BY <1>1, <1>2 DEF TrickTaken, LaysCard, SameTable
<1>4. \A c \in Playing : c \in Clients
  BY SeatFacts DEF UInv
<1>5. \A c \in Playing : SameHand(c) /\ SameEcart(c) /\ PlayedBy(c)' = <<>>
  <2>1. ASSUME NEW c \in Playing PROVE SameHand(c) /\ SameEcart(c) /\ PlayedBy(c)' = <<>>
    <3>1. c \in Clients
      BY <1>4
    <3>2. SameHand(c)
      BY <3>1, TrickOverRoles, RoundEndsRoles
    <3>3. QED
      BY <1>1, <3>1, <3>2, TrickTakenRoles
  <2>2. QED
    BY <2>1
<1>6. HandsNow' = HandsNow /\ EcartsNow' = EcartsNow
  BY <1>3, <1>5, HandsStay
<1>7. TrickNow' = <<>>
  <2>1. CASE ~InTricks'
    BY <2>1, TrickWillBe
  <2>2. CASE InTricks'
    <3>1. PICK c : HasTurn(c)' /\ c \in Playing'
      BY <2>2, TrickWillBe
    <3>2. PlayedBy(c)' = <<>>
      BY <1>3, <1>5, <3>1 DEF SameSeats
    <3>3. CardsOnBoard' = <<>>
      <4>1. 1..0 = {}
        OBVIOUS
      <4>2. QED
        BY <1>3, <4>1 DEF CardsOnBoard
    <3>4. TrickNow' = Glue(<<>>, <<>>)
      BY <3>1, <3>2, <3>3, TrickWillBe
    <3>5. QED
      BY <3>4 DEF Glue
  <2>3. QED
    BY <2>1, <2>2
<1>8. TotalsNow' = [TotalsNow EXCEPT ![p] = @ + Points(TrickCards(i), srv.papayoo)]
  <2> PICK x : x = Points(TrickCards(i), srv.papayoo)
    OBVIOUS
  <2> PICK f : f = hist.earned
    OBVIOUS
  <2>1. hist'.earned = [f EXCEPT ![p] = @ + x]
    BY <1>1 DEF TrickTaken
  <2>2. f \in [Seats -> Nat] /\ Present \subseteq Seats /\ Present' = Present
    BY <1>3, SeatFacts DEF TInv, ServerTypes, UInv, SameSeats
  <2>3. TotalsNow' = [j \in Present |-> hist'.earned[j]] /\ TotalsNow = [j \in Present |-> f[j]]
    BY <2>2 DEF TotalsNow
  <2>4. QED
    BY <1>3, <2>1, <2>2, <2>3
<1>9. QED
  BY <1>3, <1>6, <1>7, <1>8

LEMMA TrickOverSeen ==
  ASSUME UInv, UInv', Seated, Seated', TInv, RInv, EInv, EInv', NEW i \in Present, TrickOver(i)
  PROVE  Abstract!Next
<1> PICK p : p = TrickLoser(i)
  OBVIOUS
<1>1. /\ TrickTaken(i) /\ ~Asleep' /\ InTricks' /\ srv'.current_player_turn = p
      /\ srv.amount_turn + 1 # AMOUNT_PLI /\ srv'.amount_turn = srv.amount_turn + 1
  BY DEF TrickOver
<1>2. /\ HandsNow' = HandsNow /\ EcartsNow' = EcartsNow /\ TrickNow' = <<>>
      /\ TotalsNow' = [TotalsNow EXCEPT ![p] = @ + Points(TrickCards(i), srv.papayoo)]
      /\ SameSeats /\ SameRound /\ ~Asleep /\ p \in Present
  BY <1>1, TakenView
<1>3. /\ TrickNow = TrickCards(i) /\ InTricks
      /\ Wins(TrickCards(i), amount_players, srv.current_player_turn, p)
  BY <1>1, TrickWon
<1> PICK ph, m, r, pp, hs, es, l, t, k, tot : Table(ph, m, r, pp, hs, es, l, t, k, tot)
  BY <1>2, <1>3 DEF Table, InTricks
<1> PICK tot1 : tot1 = [tot EXCEPT ![p] = @ + Points(t, pp)]
  OBVIOUS
<1> PICK k1 : k1 = k + 1
  OBVIOUS
<1>4. ph = "tricks"
  BY <1>3 DEF Table, PhaseNow, InTricks
<1>5. Seen("tricks", m, r, pp, hs, es, l, t, k, tot)
  BY <1>4, TableSeen
<1>6. k1 < AMOUNT_PLI
  <2>1. k \in 0..AMOUNT_PLI - 1 /\ k1 # AMOUNT_PLI /\ AMOUNT_PLI \in Nat
    BY <1>1, ServerAssumption DEF Table, TInv, ServerTypes
  <2>2. QED
    BY <2>1
<1>7. PhaseNow' = "tricks"
  BY <1>1 DEF PhaseNow, InTricks
<1>8. Table("tricks", m, r, pp, hs, es, p, <<>>, k1, tot1)'
  BY <1>1, <1>2, <1>3, <1>7 DEF Table, SameSeats, SameRound, InTricks
<1>9. Seen("tricks", m, r, pp, hs, es, p, <<>>, k1, tot1)'
  BY <1>8, TableWillBeSeen
<1>10. Wins(t, m, l, p) /\ p \in 0..m - 1
  BY <1>2, <1>3, SeatFacts DEF Table, UInv
<1>11. QED
  BY <1>5, <1>6, <1>9, <1>10, NextTrickSeen

LEMMA RoundEndsSeen ==
  ASSUME UInv, UInv', Seated, Seated', TInv, RInv, EInv, EInv', KInv,
         NEW i \in Present, RoundEndsHere(i)
  PROVE  Abstract!Next
<1> PICK p : p = TrickLoser(i)
  OBVIOUS
<1>1. /\ RoundEnds(i) /\ TrickTaken(i) /\ srv'.updating_score = TRUE
      /\ srv'.amount_turn = 0 /\ srv'.current_player_turn = 0
      /\ srv.amount_turn + 1 = AMOUNT_PLI /\ (Asleep' <=> srv.current_round = Rounds)
  BY DEF RoundEndsHere, RoundEnds
<1>2. p \in Present /\ ~Asleep /\ SameRound
  BY <1>1 DEF TrickTaken, LaysCard, SameTable
<1>3. /\ TrickNow = TrickCards(i) /\ InTricks
      /\ Wins(TrickCards(i), amount_players, srv.current_player_turn, p)
  BY <1>1, TrickWon
<1> PICK ph, m, r, pp, hs, es, l, t, k, tot : Table(ph, m, r, pp, hs, es, l, t, k, tot)
  BY <1>2, <1>3 DEF Table, InTricks
<1>4. ph = "tricks"
  BY <1>3 DEF Table, PhaseNow, InTricks
<1>5. Seen("tricks", m, r, pp, hs, es, l, t, k, tot)
  BY <1>4, TableSeen
<1>6. Wins(t, m, l, p) /\ p \in 0..m - 1 /\ k + 1 = AMOUNT_PLI
  BY <1>1, <1>2, <1>3, SeatFacts DEF Table, UInv
<1>7. CASE Asleep'
  <2>1. r = Rounds
    BY <1>1, <1>7 DEF Table
  <2>2. SeenLobby'
    BY <1>7, NoGameWillBeSeen
  <2>3. QED
    BY <1>5, <1>6, <2>1, <2>2, EndGameSeen
<1>8. CASE ~Asleep'
  <2> PICK tot1 : tot1 = [tot EXCEPT ![p] = @ + Points(t, pp)]
    OBVIOUS
  <2>1. /\ HandsNow' = HandsNow /\ EcartsNow' = EcartsNow /\ TrickNow' = <<>>
        /\ TotalsNow' = [TotalsNow EXCEPT ![p] = @ + Points(TrickCards(i), srv.papayoo)]
        /\ SameSeats
    BY <1>1, <1>8, TakenView
  <2>2. r < Rounds
    <3>1. r \in 1..Rounds /\ r # Rounds /\ Rounds \in Nat
      BY <1>1, <1>8, ServerAssumption DEF Table, KInv
    <3>2. QED
      BY <3>1
  <2>3. PhaseNow' = "scores"
    BY <1>1 DEF PhaseNow
  <2>4. Table("scores", m, r, pp, hs, es, 0, <<>>, 0, tot1)'
    BY <1>1, <1>2, <1>3, <1>8, <2>1, <2>3 DEF Table, SameSeats, SameRound, InTricks
  <2>5. Seen("scores", m, r, pp, hs, es, 0, <<>>, 0, tot1)'
    BY <2>4, TableWillBeSeen
  <2>6. QED
    BY <1>5, <1>6, <2>2, <2>5, EndRoundSeen
<1>9. QED
  BY <1>7, <1>8

-----------------------------------------------------------------------------
(* Every step, as the players see it.                                      *)

LEMMA ServerSeen ==
  ASSUME UInv, UInv', Seated, Seated', TInv, RInv, LInv, EInv, EInv', KInv, ServerNext
  PROVE  Abstract!Next \/ UNCHANGED Abstract!vars
<1>1. ASSUME QuietStep PROVE UNCHANGED Abstract!vars
  BY <1>1, QuietSeen
<1>2. ASSUME NEW perm \in Shuffles, NEW papayoo \in Suits, Deals(perm, papayoo) PROVE Abstract!Next
  BY <1>2, DealsSeen
<1>3. ASSUME NEW i \in Present, TrickGoes(i) PROVE UNCHANGED Abstract!vars
  BY <1>3, TrickGoesSeen
<1>4. ASSUME NEW i \in Present, TrickOver(i) PROVE Abstract!Next
  BY <1>4, TrickOverSeen
<1>5. ASSUME NEW i \in Present, RoundEndsHere(i) PROVE Abstract!Next
  BY <1>5, RoundEndsSeen
<1>6. ASSUME SendsBack PROVE Abstract!Next
  BY <1>6, BackSeen
<1>7. ASSUME Clears \/ \E d \in Clients : Admits(d) PROVE UNCHANGED Abstract!vars
  BY <1>7, LobbySeenOn
<1>8. QED
  BY <1>1, <1>2, <1>3, <1>4, <1>5, <1>6, <1>7, ServerRounds

LEMMA StutterSeen ==
  ASSUME UInv, UInv', Seated, Seated', EInv, EInv', UNCHANGED vars
  PROVE  UNCHANGED Abstract!vars
<1>1. UNCHANGED network /\ UNCHANGED <<players, alarm, srv, board, loop, hist>> /\ cl' = cl
  BY DEF vars, serverVars, clientVars
<1>2. UNCHANGED <<conn, toClient, toServer, players, srv, board, loop, hist, cl>>
  BY <1>1 DEF network
<1>3. /\ Present' = Present /\ amount_players' = amount_players /\ Playing' = Playing
      /\ (Asleep' <=> Asleep) /\ (\A i : Player(i)' = Player(i)) /\ (\A c : SeatOf(c)' = SeatOf(c))
      /\ CardsOnBoard' = CardsOnBoard
  BY <1>2 DEF amount_players, Present, Playing, Asleep, Player, SeatOf, CardsOnBoard
<1>4. SameSeats /\ SameRound /\ (InTricks' <=> InTricks)
  BY <1>2, <1>3 DEF SameSeats, SameRound, InTricks
<1>5. \A c : SameHand(c) /\ SameEcart(c) /\ SamePlay(c)
  <2>1. ASSUME NEW c PROVE SameHand(c) /\ SameEcart(c) /\ SamePlay(c)
    <3>1. Given(c)' = Given(c)
      BY <1>2, <1>3 DEF Given
    <3>2. QED
      BY <1>2, <3>1, RolesAre, RolesWillBe DEF SameHand, SameEcart, SamePlay
  <2>2. QED
    BY <2>1
<1>6. \A c : HasTurn(c)' <=> HasTurn(c)
  <2> PICK w : w = (srv.current_player_turn + board.pli_size) % amount_players
    OBVIOUS
  <2>1. w = ((srv.current_player_turn + board.pli_size) % amount_players)'
    BY <1>2, <1>3
  <2>2. \A c : (HasTurn(c)' <=> InTricks' /\ c = Player(w)') /\ (HasTurn(c) <=> InTricks /\ c = Player(w))
    BY <2>1 DEF HasTurn
  <2>3. QED
    BY <1>3, <1>4, <2>2
<1>7. TrickNow' = TrickNow
  BY <1>3, <1>4, <1>5, <1>6, TrickStays
<1>8. SameView
  BY <1>2, <1>4, <1>5, <1>7 DEF SameView
<1>9. Playable' <=> Playable
  BY <1>2, <1>3 DEF Playable
<1>10. QED
  BY <1>8, <1>9, ViewStays, LobbyStays

\* What the steps rely on, and what each of them is for the players.
GameInv == Seated /\ UInv /\ TInv /\ RInv /\ LInv /\ EInv /\ CInv /\ KInv

LEMMA NextSeen ==
  ASSUME Undisturbed, GameInv, GameInv', [Next]_vars
  PROVE  Abstract!Next \/ UNCHANGED Abstract!vars
<1>1. /\ Seated /\ UInv /\ TInv /\ RInv /\ LInv /\ EInv /\ CInv /\ KInv
      /\ UInv' /\ Seated' /\ EInv'
  BY DEF GameInv
<1>2. CASE ServerNext
  BY <1>1, <1>2, ServerSeen
<1>3. CASE ClientNext
  <2>1. PICK c \in Clients : Alone(c) /\ Moves(c)
    BY <1>1, <1>3, ClientMoves
  <2>2. QED
    BY <1>1, <2>1, ClientSeen
<1>4. CASE UNCHANGED vars
  BY <1>1, <1>4, StutterSeen
<1>5. QED
  BY <1>2, <1>3, <1>4 DEF Next

LEMMA InitSeen == Init => Abstract!Init
<1> SUFFICES ASSUME Init PROVE Abstract!Init
  OBVIOUS
<1>1. ~srv.game_running
  BY DEF Init, ServerInit
<1>2. SeenLobby
  BY <1>1, NoGameSeen
<1>3. QED
  BY <1>2, LobbySeen DEF Abstract!Init

LEMMA GameCourse == ASSUME Undisturbed PROVE Spec => []GameInv
<1>1. Init => EInv /\ CInv /\ KInv
  BY EInvInit, CInvInit, KInvInit
<1>2. (Seated /\ UInv /\ TInv /\ RInv /\ LInv) /\ (EInv /\ CInv /\ KInv) /\ [Next]_vars
        => (EInv /\ CInv /\ KInv)'
  BY EInvNext, CInvNext, KInvNext
<1>3. (Seated /\ UInv /\ TInv /\ RInv /\ LInv) /\ (EInv /\ CInv /\ KInv) => GameInv
  BY DEF GameInv
<1>4. QED
  BY <1>1, <1>2, <1>3, LengthsCourse, PTL DEF Spec

(***************************************************************************)
(* The program implements the game: whatever the order in which the        *)
(* server (main, the handlers of serveur.c) and the clients (joueur.c)     *)
(* send and receive, every step is a step of the game of Papayoo on the    *)
(* hands, the ecarts, the trick and the points that PapayooGame reads from *)
(* the program, or none at all, as long as nobody leaves.                  *)
(***************************************************************************)
THEOREM ImplementsGameThm == ASSUME Undisturbed PROVE Spec => ImplementsGame
<1>1. Init => Abstract!Init
  BY InitSeen
<1>2. GameInv /\ GameInv' /\ [Next]_vars => [Abstract!Next]_(Abstract!vars)
  BY NextSeen
<1>3. QED
  BY <1>1, <1>2, GameCourse, PTL DEF Spec, ImplementsGame, Abstract!Spec
=============================================================================
