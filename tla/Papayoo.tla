------------------------------ MODULE Papayoo ------------------------------
(***************************************************************************)
(* The whole program: the server, its clients and the connections between  *)
(* them, over any number of games.                                         *)
(***************************************************************************)
EXTENDS Server, Client

Init == NetworkInit /\ ServerInit /\ ClientInit

Next == ServerNext \/ ClientNext

Spec == Init /\ [][Next]_vars

\* The main loop runs and the signals are delivered.
ServerFairness == /\ WF_vars(MainLoop)
                  /\ WF_vars(AlarmHandler)
                  /\ WF_vars(Killed)

\* Besides, users answer what they are asked.  Nobody is obliged to type
\* unasked or to leave.
Fairness == ServerFairness /\ \A c \in Clients : WF_vars(ClientStep(c))

ServerFairSpec == Spec /\ ServerFairness
FairSpec == Spec /\ Fairness
-----------------------------------------------------------------------------
(* Types.                                                                  *)

AnyCard == Card \cup {NoCard}
Info    == [player_index : Seats, amount_players : 0..MAX_PLAYERS, papayoo : Suits]

\* The type invariant of the server, the clients and the network together.
TypeOK ==
  /\ listening \in BOOLEAN /\ alarm \in BOOLEAN
  /\ conn \in [Clients -> ConnStates]
  /\ \A k \in DOMAIN backlog : backlog[k] \in Clients
  /\ players \in Seq([client : Clients, is_registered : BOOLEAN])
  /\ amount_players <= MAX_PLAYERS
  /\ Cardinality(Playing) = amount_players
  /\ srv.current_player_turn \in Seats /\ srv.papayoo \in Suits
  /\ srv.current_round \in 0..MaxRound /\ srv.amount_turn \in 0..AMOUNT_PLI - 1
  /\ board.scores \in [Seats -> Nat]
  /\ board.names \in [Seats -> Clients \cup {NoName}]
  /\ board.pli \in [Seats -> [card : AnyCard, last_played : Seats]]
  /\ loop.pc \in {"select", "accept", "serve", "sleep", "scores"}
  /\ \A c \in Clients : /\ cl[c].pc \in ClientLabels
                        /\ cl[c].info \in Info
                        /\ cl[c].deck \in Seq(AnyCard) /\ cl[c].plis \in Seq(AnyCard)

-----------------------------------------------------------------------------
(* The course of a game.                                                   *)

\* The right to play, wherever it is: in a question on its way, with a user who
\* chooses, or in a card on its way.
Turns(c) == Count(toClient[c], "ASK_FOR_CARD") + (IF At(c, "play") THEN 1 ELSE 0)
            + Count(toServer[c], "PLAY_CARD")

InTricks == /\ srv.game_running /\ ~srv.updating_score
            /\ hist.given = Present /\ ~srv.one_ecart_received

\* Between the exchange of the ecarts and the scores exactly one player has the
\* turn, the one that the trick on the board calls for, and at no other time
\* anybody: questions and cards are never lost, doubled or crossed.
OneTurn ==
  listening /\ loop.pc # "sleep" =>
    \A c \in Clients :
      Turns(c) = IF /\ InTricks
                    /\ c = Player((srv.current_player_turn + board.pli_size) % amount_players)
                 THEN 1 ELSE 0

\* The cards of the messages of one kind, in the order of the queue.
CardsOf(m) == IF m.code = "PLAY_CARD" THEN <<m.played.card>> ELSE m.deck

CardsIn(queue, code) ==
  LET cards[k \in 0..Len(queue)] ==
        IF k = 0 THEN <<>>
        ELSE cards[k - 1] \o (IF queue[k].code = code THEN CardsOf(queue[k]) ELSE <<>>)
  IN cards[Len(queue)]

\* What a player owns, and what it has parted with, wherever the messages are.
\* The variables of a client count from the moment it has received the deal.
NotDealtYet(c) == Count(toClient[c], "INIT_DECK") # 0

HandOf(c)   == CardsIn(toClient[c], "INIT_DECK")
               \o (IF NotDealtYet(c) THEN <<>> ELSE cl[c].deck)
               \o CardsIn(toClient[c], "ECARTS")
EcartOf(c)  == CardsIn(toServer[c], "ECART")
               \o (IF srv.one_ecart_received /\ SeatOf(c) \in hist.given
                   THEN srv.ecarts_received[SeatOf(c)] ELSE <<>>)
PlayedBy(c) == CardsIn(toServer[c], "PLAY_CARD")
PileOf(c)   == (IF NotDealtYet(c) THEN <<>> ELSE cl[c].plis) \o CardsIn(toClient[c], "ADD_PLI")

CardsOnBoard == [k \in 1..board.pli_size |-> board.pli[k - 1].card]

Places  == ({"hand", "ecart", "played", "pile"} \X Playing) \cup {<<"board", NoName>>}
Held(p) == CASE p[1] = "hand"   -> HandOf(p[2])
             [] p[1] = "ecart"  -> EcartOf(p[2])
             [] p[1] = "played" -> PlayedBy(p[2])
             [] p[1] = "pile"   -> PileOf(p[2])
             [] p[1] = "board"  -> CardsOnBoard

\* A card that has been dealt is in exactly one place: a hand, an ecart on its
\* way there or back, the board, a card or a trick on its way, or a pile.  It
\* is so for every card from the deal to the scores, whatever the order in
\* which the messages of the players arrive.
CardConservation ==
  listening /\ srv.game_running /\ ~srv.updating_score /\ loop.pc # "sleep" =>
    /\ \A p \in Places : IsInjective(Held(p))
    /\ \A p, q \in Places : p # q => ToSet(Held(p)) \cap ToSet(Held(q)) = {}
    /\ Cardinality(UNION {ToSet(Held(p)) : p \in Places})
         = amount_players * (DeckSize \div amount_players)

\* While a round is played the score of a player on the board is the points of
\* the tricks it has taken in the earlier rounds and, once it has reported
\* them, nothing else: each report is counted once and for its own player.
EarnedThisRound(c) == Points(PileOf(c), srv.papayoo)

ReportedByNow(c) ==
  SumOf([k \in DOMAIN toServer[c] |->
           IF toServer[c][k].code = "UPDATE_SCORE" THEN toServer[c][k].score ELSE 0])

ScoresAreEarned ==
  /\ srv.game_running /\ loop.pc # "sleep"
  /\ \A i \in Present : conn[Player(i)] = "open"
  =>
    \A i \in Present :
      board.scores[i] + ReportedByNow(Player(i)) + EarnedThisRound(Player(i))
        = hist.earned[i]

\* send_ecart_back runs only in a game, and when every player has given the
\* ecart of this round.
EcartBackAfterAll ==
  [][send_ecart_back => srv.game_running /\ hist.given = Present]_vars

\* A user who is asked for an ecart or a card is a player of the running game,
\* decides on the papayoo of this round and plays under the index by which the
\* server and the board know it.
ActsOnCurrentInfo ==
  \A c \in Clients :
    listening /\ loop.pc # "sleep" /\ (At(c, "ecart") \/ At(c, "play")) =>
      /\ srv.game_running /\ c \in Playing
      /\ cl[c].info = [player_index |-> SeatOf(c), amount_players |-> amount_players,
                       papayoo |-> srv.papayoo]
      /\ board.names[SeatOf(c)] = c

\* A user who is asked for a card has received the ecart of the round, and has
\* a card to play.
PlaysAFullHand ==
  \A c \in Clients : At(c, "play") => ~cl[c].waiting_for_ecart /\ cl[c].deck # <<>>

\* A game is played by those who signed up for it, two at least: nobody joins
\* while it runs, and the board names each player at its own seat, whoever has
\* left the lobby before, and in whatever order.
GameHasItsPlayers ==
  srv.game_running /\ loop.pc # "sleep" =>
    /\ amount_players >= 2
    /\ \A i \in Present : players[i + 1].is_registered /\ board.names[i] = Player(i)

\* The player announced as the winner has taken the fewest points in the game.
WinnerHasFewestPoints ==
  [][\A c \in Clients : end_client(c) =>
       LET w == FromServer(c).winner
       IN w \in Playing => \A i \in Present : hist.earned[SeatOf(w)] <= hist.earned[i]]_vars

\* A player who leaves does not take the server, and the game, with it.
ServerOutlivesGame == srv.game_running => listening

-----------------------------------------------------------------------------
(* Liveness.                                                               *)

\* Two players in the lobby suffice for a game to start.
GamesStart == amount_players >= 2 /\ ~srv.game_running ~> srv.game_running

\* A game that has started comes to its end, and every player learns it.
GamesFinish == /\ srv.game_running ~> ~srv.game_running
               /\ \A c \in Clients : srv.game_running /\ c \in Playing ~> At(c, "exited")

\* When a player leaves, the game the others are in is stopped.
DepartureEndsGame ==
  srv.game_running /\ (\E c \in Playing : conn[c] \in Gone)
    ~> ~srv.game_running \/ ~listening

\* A player who has left loses its seat, in a lobby too, though remove_player moves
\* the others up under the loop that serves them: nobody is passed over for ever.
SeatsAreFreed == \A c \in Clients : c \in Playing /\ conn[c] \in Gone
                                        ~> c \notin Playing \/ ~listening
=============================================================================
