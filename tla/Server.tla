------------------------------- MODULE Server -------------------------------
(***************************************************************************)
(* serveur.c: the lobby, the main loop around select(), the handlers of    *)
(* the messages of the clients and the course of a game.  One action per   *)
(* handler, with every function it calls; the board (ipc.c) is read and    *)
(* written at once, as SharedMemory shows it can be.  SIGALRM is taken     *)
(* between two handlers.                                                   *)
(*                                                                         *)
(* Players are numbered from 0, as in the code.                            *)
(***************************************************************************)
EXTENDS State

CONSTANTS MAX_PLAYERS,  \* size of players[] (3)
          AMOUNT_PLI,   \* tricks of a round (3)
          Rounds,       \* rounds of a game (3)
          MaxRound,     \* bound: no round beyond this one is started
          Shuffles      \* the permutations shuffle_deck may produce

ASSUME ServerAssumption ==
  /\ MAX_PLAYERS \in Nat \ {0} /\ AMOUNT_PLI \in Nat \ {0}
  /\ Rounds \in Nat \ {0} /\ MaxRound \in Nat
  /\ \A perm \in Shuffles : /\ perm \in [1..DeckSize -> 1..DeckSize]
                             /\ IsInjective(perm)

amount_players == Len(players)
Seats     == 0..MAX_PLAYERS - 1
Present   == 0..amount_players - 1
Player(i) == players[i + 1].client
SeatOf(c) == CHOOSE i \in Present : Player(i) = c
Playing   == {players[k].client : k \in DOMAIN players}

NoName   == "no name"
EmptyPli == [i \in Seats |-> [card |-> NoCard, last_played |-> 0]]

ServerInit ==
  /\ players = <<>>
  /\ alarm = FALSE
  /\ srv = [game_running |-> FALSE, papayoo |-> 0,
            one_ecart_received |-> FALSE, amount_ecart_received |-> 0,
            ecarts_received |-> [i \in Seats |-> [k \in 1..EcartSize |-> NoCard]],
            current_round |-> 0, current_player_turn |-> 0,
            amount_cards_played_this_turn |-> 0, amount_turn |-> 0,
            updating_score |-> FALSE, amount_scores_updated |-> 0]
  /\ board = [scores |-> [i \in Seats |-> 0], names |-> [i \in Seats |-> NoName],
              pli |-> EmptyPli, pli_size |-> 0]
  /\ loop = [pc |-> "select", ready |-> {}, i |-> 0]
  /\ hist = [given |-> {}, earned |-> [i \in Seats |-> 0]]

\* Where main() is, as long as no signal has ended the process.
InLoop(pc) == ServerAlive /\ loop.pc = pc

-----------------------------------------------------------------------------
(* Messages.                                                               *)

Msg(code) == [code |-> code]

\* send_message to player i; an index without a player has no socket.
ToPlayer(i, ms) == [c \in Clients |-> IF i \in Present /\ c = Player(i) THEN ms ELSE <<>>]

\* send_message_everybody, where the message may depend on the player.
ToEverybody(M(_)) == [c \in Clients |-> IF c \in Playing THEN M(SeatOf(c)) ELSE <<>>]
Announce(code)    == ToEverybody(LAMBDA i : <<Msg(code)>>)

\* Mutant: ask_for_card ignores its argument.
ask_leader(i) == ToPlayer(srv.current_player_turn, <<Msg("ASK_FOR_CARD")>>)

ask_for_card(i) == ToPlayer(i, <<Msg("ASK_FOR_CARD")>>)

BasicInfo(i, s) == [code |-> "BASIC_INFO",
                    info |-> [player_index |-> i, amount_players |-> amount_players,
                              papayoo |-> s.papayoo]]

-----------------------------------------------------------------------------
(* The lobby.                                                              *)

\* Mutant: add_client does not look at the size of players[].
LobbyNeverFull == FALSE

LobbyFull == amount_players = MAX_PLAYERS

\* The client that sets the alarm.
FirstInLobby == amount_players = 0

\* add_client, when it refuses: the new socket is never read nor closed.
RefuseClient ==
  /\ InLoop("accept")
  /\ srv.game_running \/ LobbyFull
  /\ LET c == Head(backlog) IN
       /\ conn' = [conn EXCEPT ![c] = IF @ = "backlog" THEN "refused" ELSE "none"]
       /\ toClient' = [toClient EXCEPT ![c] = IF conn[c] = "backlog"
                                              THEN Append(@, Msg("REFUSE")) ELSE @]
  /\ backlog' = Tail(backlog)
  /\ loop' = [loop EXCEPT !.pc = "serve"]
  /\ UNCHANGED <<listening, toServer, players, alarm, srv, board, hist, clientVars>>

\* add_client, when it welcomes.
AddClient ==
  /\ InLoop("accept")
  /\ ~srv.game_running
  /\ ~LobbyFull
  /\ LET c == Head(backlog) IN
       /\ players' = Append(players, [client |-> c, is_registered |-> FALSE])
       /\ conn' = [conn EXCEPT ![c] = IF @ = "backlog" THEN "open" ELSE AfterSends(@, 1)]
       /\ toClient' = [toClient EXCEPT ![c] = IF conn[c] = "backlog"
                                              THEN Append(@, Msg("OK")) ELSE @]
  /\ backlog' = Tail(backlog)
  /\ alarm' = (alarm \/ FirstInLobby)
  /\ loop' = [loop EXCEPT !.pc = "serve"]
  /\ UNCHANGED <<listening, toServer, srv, board, hist, clientVars>>

\* Mutant: one registered player is enough.
one_player_registered == \E i \in Present : players[i + 1].is_registered

all_players_registered == \A i \in Present : players[i + 1].is_registered

\* init_deck, shuffle_deck, find_papayoo, send_basic_info_everyone, deal_cards.
\* The C_INFO that start_game sends before, a third write, does no more to a
\* connection than these two.
RoundStarts(perm, papayoo, running) ==
  LET s == [srv EXCEPT !.game_running = running, !.updating_score = FALSE, !.amount_scores_updated = 0,
                       !.current_round = @ + 1, !.papayoo = papayoo]
      InitDeckOf(i) == [code |-> "INIT_DECK",
                        deck |-> Dealt(Shuffled(perm), amount_players, i)]
  IN /\ srv.current_round < MaxRound
     /\ srv' = s
     /\ ServerSend(ToEverybody(LAMBDA i : <<BasicInfo(i, s), InitDeckOf(i)>>))

\* alarm_handler and start_game, with init_shared_memory and start_round.
AlarmStartsGame ==
  /\ ServerAlive /\ alarm
  /\ ~srv.game_running
  /\ amount_players >= 2
  /\ all_players_registered
  /\ alarm' = FALSE
  /\ \E perm \in Shuffles, papayoo \in Suits : RoundStarts(perm, papayoo, TRUE)
  /\ board' = [board EXCEPT
                 !.scores = [i \in Seats |-> IF i \in Present THEN 0 ELSE @[i]],
                 !.names  = [i \in Seats |-> IF i \in Present THEN Player(i) ELSE @[i]]]
  /\ hist' = [given |-> {}, earned |-> [i \in Seats |-> 0]]
  /\ UNCHANGED <<listening, backlog, toServer, players, loop, clientVars>>

\* Mutant: alarm_handler does not set the alarm again.
AlarmGivesUp ==
  /\ ServerAlive /\ alarm
  /\ ~srv.game_running
  /\ amount_players < 2 \/ ~all_players_registered
  /\ alarm' = FALSE
  /\ ServerInforms(Playing)
  /\ UNCHANGED <<listening, backlog, toServer, players, srv, board, loop, hist, clientVars>>

\* alarm_handler, when it has to wait for players: the alarm is set again.  Its
\* first test, for a running game, never succeeds (see Lobby).
AlarmRestarts ==
  /\ ServerAlive /\ alarm
  /\ ~srv.game_running
  /\ amount_players < 2 \/ ~all_players_registered
  /\ ServerInforms(Playing)
  /\ UNCHANGED <<listening, backlog, toServer, serverVars, clientVars>>

-----------------------------------------------------------------------------
(* The main loop.                                                          *)

Select ==
  /\ InLoop("select")
  /\ LET ready == {c \in Playing : Readable(c)}
         next(pc) == loop' = [pc |-> pc, ready |-> ready, i |-> 0]
     IN \/ backlog # <<>> /\ next("accept")
        \/ backlog = <<>> /\ ready # {} /\ next("serve")
  /\ UNCHANGED <<network, players, alarm, srv, board, hist, clientVars>>

\* The players the for loop has still to serve.
ToServe == {i \in Present : i >= loop.i /\ Player(i) \in loop.ready}
Serving(i) == InLoop("serve") /\ i \in ToServe /\ \A j \in ToServe : i <= j

\* receive_message of player i, and the index of the handler in dispatcher.
Receive(i, code) == /\ Serving(i)
                    /\ ServerReceive(Player(i))
                    /\ Head(toServer[Player(i)]).code = code
                    /\ UNCHANGED <<listening, backlog, clientVars>>

Served(i)   == loop' = [loop EXCEPT !.i = i + 1]
Received(i) == Head(toServer[Player(i)])

add_player(i) ==
  /\ Receive(i, "ADD_PLAYER")
  /\ players' = [players EXCEPT ![i + 1].is_registered = TRUE]
  /\ ServerInforms({Player(i)})
  /\ Served(i)
  /\ UNCHANGED <<alarm, srv, board, hist>>

receive_ecart_from_player(i) ==
  /\ Receive(i, "ECART")
  /\ srv' = [srv EXCEPT !.one_ecart_received = TRUE,
                        !.amount_ecart_received = @ + 1,
                        !.ecarts_received[i] = Received(i).deck]
  /\ hist' = [hist EXCEPT !.given = @ \cup {i}]
  /\ Served(i)
  /\ UNCHANGED <<conn, toClient, players, alarm, board>>

\* s_write_card: the array has MAX_PLAYERS cards, and what is written past it
\* hits pli_size, which is then overwritten.
WithCard(b, played) ==
  [b EXCEPT !.pli = IF b.pli_size \in Seats THEN [@ EXCEPT ![b.pli_size] = played] ELSE @,
            !.pli_size = @ + 1]

CardsPlayed == srv.amount_cards_played_this_turn + 1

\* receive_played_card, when others have still to play.
TrickGoesOn(i) ==
  /\ Receive(i, "PLAY_CARD")
  /\ CardsPlayed # amount_players
  /\ board' = WithCard(board, Received(i).played)
  /\ srv' = [srv EXCEPT !.amount_cards_played_this_turn = CardsPlayed]
  /\ ServerSend(Then(Announce("SHOW_PLI"),
                     ask_for_card((Received(i).played.last_played + 1) % amount_players)))
  /\ Served(i)
  /\ UNCHANGED <<players, alarm, hist>>

\* The trick the last card completes, who takes it, and the C_ADD_PLI.
FullBoard(i)  == WithCard(board, Received(i).played)
TrickLoser(i) == Loser(FullBoard(i).pli, amount_players)
send_pli(i)   == ToPlayer(TrickLoser(i),
                   <<[code |-> "ADD_PLI",
                      deck |-> [k \in 1..FullBoard(i).pli_size |->
                                  FullBoard(i).pli[k - 1].card]]>>)

TrickPoints(i) == Points([k \in 1..amount_players |-> FullBoard(i).pli[k - 1].card],
                         srv.papayoo)

\* receive_played_card and end_turn: whatever follows the last card of a trick.
TrickEnds(i) ==
  /\ Receive(i, "PLAY_CARD")
  /\ CardsPlayed = amount_players
  /\ board' = [FullBoard(i) EXCEPT !.pli_size = 0]
  /\ hist' = [hist EXCEPT !.earned[TrickLoser(i)] = @ + TrickPoints(i)]
  /\ UNCHANGED <<players, alarm>>

\* Mutant: one trick too many.
OneTrickLate == srv.amount_turn = AMOUNT_PLI

\* end_turn counts the tricks of a round, end_round the rounds of a game.
LastTrick == srv.amount_turn + 1 = AMOUNT_PLI
LastRound == srv.current_round = Rounds

\* end_turn, when the loser leads the next trick.
NextTrick(i) ==
  /\ TrickEnds(i)
  /\ ~LastTrick
  /\ srv' = [srv EXCEPT !.amount_turn = @ + 1, !.amount_cards_played_this_turn = 0,
                        !.current_player_turn = TrickLoser(i)]
  /\ ServerSend(Then(send_pli(i), ask_for_card(TrickLoser(i))))
  /\ Served(i)

\* end_round and ask_for_score.
RoundOver ==
  srv' = [srv EXCEPT !.amount_turn = 0, !.amount_cards_played_this_turn = 0,
                     !.current_player_turn = 0, !.updating_score = TRUE,
                     !.one_ecart_received = FALSE, !.amount_ecart_received = 0]

\* end_turn and end_round, before the last round.
EndRound(i) ==
  /\ TrickEnds(i)
  /\ LastTrick
  /\ ~LastRound
  /\ RoundOver
  /\ ServerSend(Then(send_pli(i), Announce("ADD_SCORE")))
  /\ Served(i)

\* The first of the players with the lowest score on the board.
Winner(scores) ==
  CHOOSE i \in Present : \A j \in Present : /\ scores[i] <= scores[j]
                                            /\ j < i => scores[i] < scores[j]

\* end_turn, end_round and end_game, up to its sleep(1).
EndGame(i) ==
  /\ TrickEnds(i)
  /\ LastTrick
  /\ LastRound
  /\ RoundOver
  /\ LET EndOfGame == [code |-> "END_GAME", winner |-> Player(Winner(board.scores))]
     IN ServerSend(Then(send_pli(i), ToEverybody(LAMBDA j : <<Msg("ADD_SCORE"), EndOfGame>>)))
  /\ loop' = [loop EXCEPT !.pc = "sleep"]

\* Mutant: the new score replaces the old one.
update_score_overwrites(i) ==
  /\ Receive(i, "UPDATE_SCORE")
  /\ board' = [board EXCEPT !.scores[i] = Received(i).score]
  /\ srv' = [srv EXCEPT !.amount_scores_updated = @ + 1]
  /\ Served(i)
  /\ UNCHANGED <<conn, toClient, players, alarm, hist>>

update_score(i) ==
  /\ Receive(i, "UPDATE_SCORE")
  /\ board' = [board EXCEPT !.scores[i] = @ + Received(i).score]
  /\ srv' = [srv EXCEPT !.amount_scores_updated = @ + 1]
  /\ Served(i)
  /\ UNCHANGED <<conn, toClient, players, alarm, hist>>

\* Mutant: mess.info.player_index is left as the last broadcast set it.
send_basic_info_stale(i) ==
  /\ Receive(i, "ASK_BASIC_INFO")
  /\ IF srv.current_round = 0
     THEN ServerInforms({Player(i)})
     ELSE ServerSend(ToPlayer(i, <<BasicInfo(amount_players - 1, srv)>>))
  /\ Served(i)
  /\ UNCHANGED <<players, alarm, srv, board, hist>>

send_basic_info(i) ==
  /\ Receive(i, "ASK_BASIC_INFO")
  /\ IF srv.current_round = 0
     THEN ServerInforms({Player(i)})
     ELSE ServerSend(ToPlayer(i, <<BasicInfo(i, srv)>>))
  /\ Served(i)
  /\ UNCHANGED <<players, alarm, srv, board, hist>>

\* remove_player: the others move up; a running game is cancelled, and the
\* lobby cleared after sleep(2).
remove_player(i) ==
  /\ Serving(i)
  /\ AtEnd(Player(i))
  /\ players' = RemoveAt(players, i + 1)
  /\ LET others == Playing \ {Player(i)}
         tell   == IF srv.game_running THEN <<Msg("INFO"), Msg("CANCELLED")>>
                                       ELSE <<Msg("INFO")>>
         out    == [c \in Clients |-> IF c \in others THEN tell ELSE <<>>]
     IN /\ conn' = [c \in Clients |-> IF c = Player(i) THEN "none"
                                      ELSE AfterSends(conn[c], Len(out[c]))]
        /\ toClient' = [c \in Clients |->
                          IF srv.game_running /\ c \in others /\ conn[c] = "open"
                          THEN Append(toClient[c], Msg("CANCELLED")) ELSE toClient[c]]
  /\ loop' = IF srv.game_running THEN [loop EXCEPT !.pc = "sleep"]
                                 ELSE [loop EXCEPT !.i = i + 1]
  /\ UNCHANGED <<listening, backlog, toServer, alarm, srv, board, hist, clientVars>>

\* Mutant: game_running keeps its value.
StillRunning(s) ==
  [s EXCEPT !.updating_score = FALSE, !.amount_scores_updated = 0, !.current_round = 0,
            !.current_player_turn = 0]

\* The static variables that clear_lobby resets.  The counters of the ecarts and
\* of the trick keep their values.
Cleared(s) ==
  [s EXCEPT !.game_running = FALSE, !.updating_score = FALSE, !.amount_scores_updated = 0,
            !.current_round = 0, !.current_player_turn = 0]

\* clear_lobby and reset_players, when the sleep of end_game or remove_player
\* is over.
clear_lobby ==
  /\ InLoop("sleep")
  /\ srv' = Cleared(srv)
  /\ board' = [board EXCEPT !.scores = [i \in Seats |-> 0],
                            !.names = [i \in Seats |-> NoName], !.pli_size = 0]
  /\ ServerClose(Playing)
  /\ players' = <<>>
  /\ loop' = [loop EXCEPT !.pc = "serve"]
  /\ UNCHANGED <<listening, backlog, toClient, alarm, hist, clientVars>>

\* The end of an iteration of main(): are all the ecarts there?
AfterServing == InLoop("serve") /\ ToServe = {}

\* Mutant: the first ecart is enough.
EcartReceived == srv.one_ecart_received

EcartsComplete == srv.one_ecart_received /\ srv.amount_ecart_received = amount_players

\* Mutant: the ecarts go to the player before, as the clients show them.
send_ecart_to_previous ==
  /\ AfterServing
  /\ EcartsComplete
  /\ LET Giver(i) == (i + 1) % amount_players
         Ecart(i) == [code |-> "ECARTS", deck |-> srv.ecarts_received[Giver(i)]]
     IN ServerSend(Then(ToEverybody(LAMBDA i : <<Ecart(i)>>),
                        ask_for_card(srv.current_player_turn)))
  /\ srv' = [srv EXCEPT !.one_ecart_received = FALSE, !.amount_ecart_received = 0]
  /\ loop' = [pc |-> "scores", ready |-> {}, i |-> 0]
  /\ UNCHANGED <<listening, backlog, toServer, players, alarm, board, hist, clientVars>>

\* send_ecart_back, then ask_for_card: player i's ecart goes to player i + 1.
send_ecart_back ==
  /\ AfterServing
  /\ EcartsComplete
  /\ LET Giver(i) == (i + amount_players - 1) % amount_players
         Ecart(i) == [code |-> "ECARTS", deck |-> srv.ecarts_received[Giver(i)]]
     IN ServerSend(Then(ToEverybody(LAMBDA i : <<Ecart(i)>>),
                        ask_for_card(srv.current_player_turn)))
  /\ srv' = [srv EXCEPT !.one_ecart_received = FALSE, !.amount_ecart_received = 0]
  /\ loop' = [pc |-> "scores", ready |-> {}, i |-> 0]
  /\ UNCHANGED <<listening, backlog, toServer, players, alarm, board, hist, clientVars>>

\* ... and are all the scores there?
BeforeScores == InLoop("scores") \/ (AfterServing /\ ~EcartsComplete)

\* Mutant: the scores of all seats are awaited.
AllSeatsScored == srv.updating_score /\ srv.amount_scores_updated = MAX_PLAYERS

ScoresComplete == srv.updating_score /\ srv.amount_scores_updated = amount_players

NextIteration == loop' = [pc |-> "select", ready |-> {}, i |-> 0]

start_round ==
  /\ BeforeScores
  /\ ScoresComplete
  /\ amount_players > 0
  /\ \E perm \in Shuffles, papayoo \in Suits :
       RoundStarts(perm, papayoo, srv.game_running)
  /\ hist' = [hist EXCEPT !.given = {}]
  /\ NextIteration
  /\ UNCHANGED <<listening, backlog, toServer, players, alarm, board, clientVars>>

\* start_round without players: deal_cards divides the deck by their number.
RoundOfNobody == /\ BeforeScores
                 /\ ScoresComplete
                 /\ amount_players = 0
                 /\ ServerEnds

NothingToDo == /\ BeforeScores
               /\ ~ScoresComplete
               /\ NextIteration
               /\ UNCHANGED <<network, players, alarm, srv, board, hist, clientVars>>

-----------------------------------------------------------------------------
AlarmHandler == AlarmStartsGame \/ AlarmRestarts

Dispatch(i) == \/ add_player(i) \/ receive_ecart_from_player(i)
               \/ TrickGoesOn(i) \/ NextTrick(i) \/ EndRound(i) \/ EndGame(i)
               \/ update_score(i) \/ send_basic_info(i)

MainLoop == \/ Select \/ RefuseClient \/ AddClient
            \/ \E i \in Seats : Dispatch(i) \/ remove_player(i)
            \/ clear_lobby
            \/ send_ecart_back \/ start_round \/ NothingToDo

Killed == (ServerKilled \/ RoundOfNobody) /\ UNCHANGED <<serverVars, clientVars>>

ServerNext == \/ MainLoop
              \/ AlarmHandler
              \/ Killed
=============================================================================
