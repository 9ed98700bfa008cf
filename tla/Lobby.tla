-------------------------------- MODULE Lobby --------------------------------
(***************************************************************************)
(* The lobby of serveur.c statement by statement: add_client, the receive  *)
(* and the dispatch of main(), and remove_player, with alarm_handler       *)
(* between any two statements.  main() and the handler share players[],    *)
(* amount_players, game_running and the one global mess, of which the code *)
(* is what matters here.                                                   *)
(*                                                                         *)
(* The course of a game is in Server; here a game runs until it is over or *)
(* cancelled.  The elements of Sockets are descriptors of the server, each *)
(* with the client at its other end.                                       *)
(***************************************************************************)
EXTENDS Integers, FiniteSets, Sequences, SequencesExt

CONSTANTS Sockets,      \* bound: connections at a time
          Talkers,      \* bound: those whose users ask for the scores
          Quitters,     \* bound: those that may end before the server closes them
          NoSocket,     \* 0, the socket of a reset player
          MAX_PLAYERS   \* size of players[] (3)

ASSUME LobbyAssumption == /\ IsFiniteSet(Sockets) /\ NoSocket \notin Sockets
                          /\ Talkers \subseteq Sockets /\ Quitters \subseteq Sockets
                          /\ MAX_PLAYERS \in Nat /\ MAX_PLAYERS >= 2

VARIABLES players,         \* the array, also beyond amount_players; named: the
                           \* name is the one that the user typed
          amount_players, game_running,
          alarm,           \* SIGALRM is scheduled
          code,            \* mess.code
          main             \* where main() is, and its local variables

VARIABLES conn,            \* per socket, where the client at its other end is
          toServer,        \* per socket, the messages the server has not received
          past             \* history: who was dealt a hand, who without a name on
                           \* the board, where main() was when the game started,
                           \* and what the alarm spoilt

serverVars == <<players, amount_players, game_running, alarm, code, main>>
vars == <<serverVars, conn, toServer, past>>

Seats   == 0..MAX_PLAYERS - 1
Present == 0..amount_players - 1
Clean   == [socket |-> NoSocket, is_registered |-> FALSE, named |-> FALSE]

\* What players[i] is.  Behind the array the build has server_running, which is
\* never set, and game_running.
PlayerAt(i) == IF i \in Seats THEN players[i]
               ELSE [socket |-> NoSocket, is_registered |-> game_running, named |-> FALSE]

Init == /\ players = [i \in Seats |-> Clean]
        /\ amount_players = 0
        /\ game_running = FALSE
        /\ alarm = FALSE
        /\ code = "OK"
        /\ main = [pc |-> "select", ready |-> {}, i |-> 0, socket |-> NoSocket, j |-> 0]
        /\ conn = [k \in Sockets |-> "none"]
        /\ toServer = [k \in Sockets |-> <<>>]
        /\ past = [hands |-> <<>>, nameless |-> {}, startedAt |-> "none",
                   lost |-> {}, unheard |-> {}]

At(pc)   == main.pc = pc
Goto(pc) == main' = [main EXCEPT !.pc = pc]

-----------------------------------------------------------------------------
(* The clients.                                                            *)

Connect(k) == /\ conn[k] = "none"
              /\ \A i \in Seats : players[i].socket # k
              /\ conn' = [conn EXCEPT ![k] = "backlog"]
              /\ UNCHANGED <<serverVars, toServer, past>>

\* The user types a name.
SignUp(k) == /\ conn[k] = "welcome"
             /\ conn' = [conn EXCEPT ![k] = "member"]
             /\ toServer' = [toServer EXCEPT ![k] = Append(@, "ADD_PLAYER")]
             /\ UNCHANGED <<serverVars, past>>

\* The user asks for the scores; bound: one message at a time.
Ask(k) == /\ k \in Talkers /\ conn[k] = "member"
          /\ toServer[k] = <<>>
          /\ toServer' = [toServer EXCEPT ![k] = <<"ASK_BASIC_INFO">>]
          /\ UNCHANGED <<serverVars, conn, past>>

\* The client ends, wherever it is.
Leave(k) == /\ k \in Quitters
            /\ conn[k] \in {"backlog", "greeting", "welcome", "member", "unheard"}
            /\ conn' = [conn EXCEPT ![k] = "gone"]
            /\ UNCHANGED <<serverVars, toServer, past>>

-----------------------------------------------------------------------------
(* main(): select(), and the end of a game.                                *)

Readable(k) == toServer[k] # <<>> \/ conn[k] = "gone"
Playing     == {players[i].socket : i \in Seats} \ {NoSocket}
Accepting   == {k \in Sockets \ Playing : conn[k] \in {"backlog", "gone"}}

Select ==
  /\ At("select")
  /\ LET ready == {k \in Playing : Readable(k)}
     IN \/ \E k \in Accepting :
             main' = [main EXCEPT !.pc = "test", !.ready = ready, !.socket = k]
        \/ /\ Accepting = {} /\ ready # {}
           /\ main' = [main EXCEPT !.pc = "serve", !.ready = ready]
  /\ UNCHANGED <<players, amount_players, game_running, alarm, code, conn, toServer, past>>

\* Whom a broadcast, or a deal, goes to, in this order.
Everybody == [n \in 1..amount_players |-> players[n - 1].socket]

Dealt   == ToSet(past.hands)
Members == {k \in Sockets : conn[k] = "member"}

\* end_game, or remove_player when it cancels: clear_lobby closes every socket
\* of players[0..amount_players-1] and resets the players.
clear_lobby ==
  LET closed == {players[i].socket : i \in Present}
  IN /\ players' = [i \in Seats |-> Clean]
     /\ amount_players' = 0
     /\ game_running' = FALSE
     /\ conn' = [k \in Sockets |-> IF k \in closed THEN "none" ELSE conn[k]]
     /\ toServer' = [k \in Sockets |-> IF k \in closed THEN <<>> ELSE toServer[k]]
     /\ past' = [past EXCEPT !.hands = <<>>, !.nameless = {}, !.startedAt = "none",
                             !.lost = @ \ closed, !.unheard = @ \ closed]

\* A game comes to its end: every player has had a hand, and none has left.
\* With a player who has none the server waits for its ecart.
EndGame == /\ At("select") /\ game_running
           /\ {players[i].socket : i \in Present} \subseteq Dealt
           /\ Dealt \subseteq Members
           /\ clear_lobby
           /\ UNCHANGED <<alarm, code, main>>

-----------------------------------------------------------------------------
(* add_client.                                                             *)

\* Mutant: a running game is no obstacle.
TestRoomOnly ==
  /\ At("test")
  /\ Goto(IF amount_players = MAX_PLAYERS THEN "refuse" ELSE "count")
  /\ UNCHANGED <<players, amount_players, game_running, alarm, code, conn, toServer, past>>

\* Line 130.
TestLobby == /\ At("test")
             /\ Goto(IF game_running \/ amount_players = MAX_PLAYERS THEN "refuse" ELSE "count")
             /\ UNCHANGED <<players, amount_players, game_running, alarm, code, conn, toServer, past>>

\* On to the for loop.
ServeFirst == [main EXCEPT !.pc = "serve", !.i = 0, !.socket = NoSocket]

\* Line 131.
WriteRefuse == /\ At("refuse")
               /\ code' = "REFUSE"
               /\ Goto("turn_down")
               /\ UNCHANGED <<players, amount_players, game_running, alarm, conn, toServer, past>>

\* Line 133.  The code is C_REFUSE or the alarm's, never C_OK: the client tries again
\* on another connection; neither side closes this one, and the server never looks
\* at it again.
TurnDown == /\ At("turn_down")
            /\ conn' = [conn EXCEPT ![main.socket] = "none"]
            /\ main' = ServeFirst
            /\ UNCHANGED <<players, amount_players, game_running, alarm, code, toServer, past>>

\* Line 137: the count is stored first, then the socket.
Count == /\ At("count")
         /\ amount_players' = amount_players + 1
         /\ Goto("store")
         /\ UNCHANGED <<players, game_running, alarm, code, conn, toServer, past>>

Store == /\ At("store")
         /\ players' = [players EXCEPT ![amount_players - 1].socket = main.socket]
         /\ conn' = [conn EXCEPT ![main.socket] = IF @ = "backlog" THEN "greeting" ELSE @]
         /\ Goto("set_alarm")
         /\ UNCHANGED <<amount_players, game_running, alarm, code, toServer, past>>

\* Mutant: the second client sets the alarm.
SecondSetsAlarm ==
  /\ At("set_alarm")
  /\ alarm' = (alarm \/ amount_players = 2)
  /\ Goto("ok")
  /\ UNCHANGED <<players, amount_players, game_running, code, conn, toServer, past>>

\* Lines 138-139.
SetAlarm == /\ At("set_alarm")
            /\ alarm' = (alarm \/ amount_players = 1)
            /\ Goto("ok")
            /\ UNCHANGED <<players, amount_players, game_running, code, conn, toServer, past>>

\* Mutant: the greeting has the code of the last message.
WriteNoCode == /\ At("ok")
               /\ Goto("greet")
               /\ UNCHANGED <<players, amount_players, game_running, alarm, code, conn, toServer, past>>

\* Line 140.
WriteOk == /\ At("ok")
           /\ code' = "OK"
           /\ Goto("greet")
           /\ UNCHANGED <<players, amount_players, game_running, alarm, conn, toServer, past>>

\* Line 142.  A client whose first message is anything but C_OK connects again, and
\* leaves this connection open until it ends.  One that the alarm has written to
\* since line 137 has read that message first and does not read this one.
Greet == /\ At("greet")
         /\ conn' = [conn EXCEPT ![main.socket] =
                       IF @ # "greeting" THEN @ ELSE IF code = "OK" THEN "welcome" ELSE "unheard"]
         /\ main' = ServeFirst
         /\ UNCHANGED <<players, amount_players, game_running, alarm, code, toServer, past>>

AddClient == TestLobby \/ WriteRefuse \/ TurnDown \/ Count \/ Store \/ SetAlarm \/ WriteOk \/ Greet

-----------------------------------------------------------------------------
(* The for loop of main(): receive_message and the dispatcher.             *)

\* The players the loop has still to serve, and the one it serves next.
ToServe == {i \in Present : i >= main.i /\ players[i].socket \in main.ready}
Serves(i) == At("serve") /\ i \in ToServe /\ \A j \in ToServe : i <= j

\* Line 86, a message.
Receive(i) ==
  /\ Serves(i)
  /\ LET k == players[i].socket IN
       /\ toServer[k] # <<>>
       /\ code' = Head(toServer[k])
       /\ toServer' = [toServer EXCEPT ![k] = Tail(@)]
       /\ main' = [main EXCEPT !.pc = "dispatch", !.i = i, !.socket = k]
  /\ UNCHANGED <<players, amount_players, game_running, alarm, conn, past>>

NextPlayer == [main EXCEPT !.pc = "serve", !.i = @ + 1, !.socket = NoSocket, !.j = 0]

\* Lines 87 and 164: add_player counts the client as registered first ...
Register == /\ At("dispatch") /\ code = "ADD_PLAYER"
            /\ players' = [players EXCEPT ![main.i].is_registered = TRUE]
            /\ Goto("name")
            /\ UNCHANGED <<amount_players, game_running, alarm, code, conn, toServer, past>>

\* ... then, line 165, stores its name, which is in a copy of mess ...
StoreName == /\ At("name")
             /\ players' = [players EXCEPT ![main.i].named = TRUE]
             /\ Goto("answer")
             /\ UNCHANGED <<amount_players, game_running, alarm, code, conn, toServer, past>>

\* ... and, line 166, writes the answer.
Answer == /\ At("answer")
          /\ code' = "OK"
          /\ Goto("reply")
          /\ UNCHANGED <<players, amount_players, game_running, alarm, conn, toServer, past>>

add_player == Register \/ StoreName \/ Answer

\* Lines 87 and 769-776: send_basic_info.
AnswerInfo == /\ At("dispatch") /\ code = "ASK_BASIC_INFO"
              /\ code' = "BASIC_INFO"
              /\ Goto("reply")
              /\ UNCHANGED <<players, amount_players, game_running, alarm, conn, toServer, past>>

\* Lines 168 and 777: mess is sent as it is now, and with the alarm's last message in
\* it the player has a hand once more.
Reply == /\ At("reply")
         /\ past' = [past EXCEPT !.hands = IF code = "INIT_DECK" THEN Append(@, main.socket) ELSE @]
         /\ main' = NextPlayer
         /\ UNCHANGED <<players, amount_players, game_running, alarm, code, conn, toServer>>

\* Line 87.  C_INFO has the number of C_UPDATE_SCORE: what the alarm has made of the
\* message goes to update_score, which changes the board and answers nothing.
CountScore == /\ At("dispatch") /\ code = "INFO"
              /\ main' = NextPlayer
              /\ UNCHANGED <<players, amount_players, game_running, alarm, code, conn, toServer, past>>

\* Line 87, with the code of the last message of start_game: dispatcher has five
\* entries, and the sixth index is past its end.
WildCall == /\ At("dispatch") /\ code = "INIT_DECK"
            /\ Goto("wild")
            /\ UNCHANGED <<players, amount_players, game_running, alarm, code, conn, toServer, past>>

EndOfLoop == /\ At("serve") /\ ToServe = {}
             /\ main' = [main EXCEPT !.pc = "select", !.ready = {}, !.i = 0]
             /\ UNCHANGED <<players, amount_players, game_running, alarm, code, conn, toServer, past>>

-----------------------------------------------------------------------------
(* remove_player of main.i.                                                *)

\* Mutant: the end of file is not told from a message.
DispatchAtEnd(i) ==
  /\ Serves(i)
  /\ LET k == players[i].socket IN
       /\ toServer[k] = <<>>
       /\ main' = [main EXCEPT !.pc = "dispatch", !.i = i, !.socket = k]
  /\ UNCHANGED <<players, amount_players, game_running, alarm, code, conn, toServer, past>>

\* Lines 86 and 330: the end of file, and shutdown_socket.
Close(i) ==
  /\ Serves(i)
  /\ LET k == players[i].socket IN
       /\ toServer[k] = <<>>
       /\ conn' = [conn EXCEPT ![k] = "none"]
       /\ past' = [past EXCEPT !.lost = @ \ {k}, !.unheard = @ \ {k}]
  /\ main' = [main EXCEPT !.pc = "zero", !.i = i, !.j = i]
  /\ UNCHANGED <<players, amount_players, game_running, alarm, code, toServer>>

\* Line 331.
Zero == /\ At("zero")
        /\ players' = [players EXCEPT ![main.i].socket = NoSocket]
        /\ Goto("reset")
        /\ UNCHANGED <<amount_players, game_running, alarm, code, conn, toServer, past>>

\* Line 336.
Reset == /\ At("reset")
         /\ players' = [players EXCEPT ![main.i] = Clean]
         /\ Goto("shift")
         /\ UNCHANGED <<amount_players, game_running, alarm, code, conn, toServer, past>>

\* Mutants: the loop runs to j <= amount_players; the socket moves alone; the
\* name stays where it is.
ShiftTooFar ==
  /\ At("shift") /\ main.j <= amount_players
  /\ players' = [players EXCEPT ![main.j] = PlayerAt(main.j + 1)]
  /\ main' = [main EXCEPT !.j = @ + 1]
  /\ UNCHANGED <<amount_players, game_running, alarm, code, conn, toServer, past>>
ShiftSocket ==
  /\ At("shift") /\ main.j < amount_players
  /\ players' = [players EXCEPT ![main.j].socket = PlayerAt(main.j + 1).socket]
  /\ main' = [main EXCEPT !.j = @ + 1]
  /\ UNCHANGED <<amount_players, game_running, alarm, code, conn, toServer, past>>

ShiftWithoutName ==
  /\ At("shift") /\ main.j < amount_players
  /\ players' = [players EXCEPT ![main.j] = [PlayerAt(main.j + 1) EXCEPT !.named = players[main.j].named]]
  /\ main' = [main EXCEPT !.j = @ + 1]
  /\ UNCHANGED <<amount_players, game_running, alarm, code, conn, toServer, past>>

\* Lines 338-340: one player moves up.
Shift == /\ At("shift") /\ main.j < amount_players
         /\ players' = [players EXCEPT ![main.j] = PlayerAt(main.j + 1)]
         /\ main' = [main EXCEPT !.j = @ + 1]
         /\ UNCHANGED <<amount_players, game_running, alarm, code, conn, toServer, past>>

\* Mutant: the loop stops one player short.
UncountEarly == /\ At("shift") /\ main.j >= amount_players - 1
                /\ amount_players' = amount_players - 1
                /\ Goto("tell")
                /\ UNCHANGED <<players, game_running, alarm, code, conn, toServer, past>>

\* Line 341.
Uncount == /\ At("shift") /\ main.j = amount_players
           /\ amount_players' = amount_players - 1
           /\ Goto("tell")
           /\ UNCHANGED <<players, game_running, alarm, code, conn, toServer, past>>

\* Line 344.
WriteInfo == /\ At("tell")
             /\ code' = "INFO"
             /\ Goto("broadcast")
             /\ UNCHANGED <<players, amount_players, game_running, alarm, conn, toServer, past>>

\* Line 345: the others are told, or with the code of a hand are dealt one more.
TellOthers == /\ At("broadcast")
              /\ past' = [past EXCEPT !.hands = IF code = "INIT_DECK" THEN @ \o Everybody ELSE @]
              /\ Goto("running")
              /\ UNCHANGED <<players, amount_players, game_running, alarm, code, conn, toServer>>

\* Mutant: a running game is not cancelled.
GoesOn == /\ At("running")
          /\ main' = NextPlayer
          /\ UNCHANGED <<players, amount_players, game_running, alarm, code, conn, toServer, past>>

\* Line 346.
TestRunning == /\ At("running")
               /\ main' = IF game_running THEN [main EXCEPT !.pc = "cancel"] ELSE NextPlayer
               /\ UNCHANGED <<players, amount_players, game_running, alarm, code, conn, toServer, past>>

\* Lines 347-351.
Cancel == /\ At("cancel")
          /\ clear_lobby
          /\ code' = "CANCELLED"
          /\ main' = NextPlayer
          /\ UNCHANGED alarm

RemovePlayer == \/ (\E i \in Seats : Close(i)) \/ Zero \/ Reset \/ Shift \/ Uncount
                \/ WriteInfo \/ TellOthers \/ TestRunning \/ Cancel

-----------------------------------------------------------------------------
(* alarm_handler.                                                          *)

all_players_registered == \A i \in Present : players[i].is_registered

\* The handler writes to every seat first, also to that of a client which add_client has
\* stored and not yet greeted: it takes C_INFO for a refusal.
Ungreeted  == {k \in ToSet(Everybody) \cap Sockets : conn[k] = "greeting"}
NotGreeted == conn' = [k \in Sockets |-> IF k \in Ungreeted THEN "unheard" ELSE conn[k]]

\* What that does to the clients, and to a message that main() is about to use.
Spoilt == [past EXCEPT
  !.lost    = IF At("dispatch") /\ code = "ADD_PLAYER" THEN @ \cup {main.socket} ELSE @,
  !.unheard = @ \cup Ungreeted]

\* Mutant: it does not.
AlarmGivesUp == /\ alarm /\ ~At("wild")
                /\ ~game_running
                /\ amount_players < 2 \/ ~all_players_registered
                /\ alarm' = FALSE
                /\ code' = "INFO"
                /\ past' = Spoilt /\ NotGreeted
                /\ UNCHANGED <<players, amount_players, game_running, main, toServer>>

\* The countdown starts again.
AlarmRestarts == /\ alarm /\ ~At("wild")
                 /\ ~game_running
                 /\ amount_players < 2 \/ ~all_players_registered
                 /\ code' = "INFO"
                 /\ past' = Spoilt /\ NotGreeted
                 /\ UNCHANGED <<players, amount_players, game_running, alarm, main, toServer>>

\* start_game, which writes the names on the board, and start_round; the last
\* message is the hand of the last player.
AlarmStartsGame ==
  /\ alarm /\ ~At("wild")
  /\ ~game_running
  /\ amount_players >= 2 /\ all_players_registered
  /\ game_running' = TRUE
  /\ alarm' = FALSE
  /\ code' = "INIT_DECK"
  /\ past' = [Spoilt EXCEPT !.startedAt = main.pc,
                            !.hands = Everybody,
                            !.nameless = {players[i].socket : i \in {j \in Present : ~players[j].named}}]
  /\ NotGreeted
  /\ UNCHANGED <<players, amount_players, main, toServer>>

-----------------------------------------------------------------------------
MainStep == \/ Select \/ AddClient
            \/ (\E i \in Seats : Receive(i)) \/ add_player \/ AnswerInfo \/ Reply \/ CountScore
            \/ WildCall \/ EndOfLoop
            \/ RemovePlayer

AlarmHandler == AlarmRestarts \/ AlarmStartsGame

Next == \/ MainStep \/ EndGame \/ AlarmHandler
        \/ \E k \in Sockets : Connect(k) \/ SignUp(k) \/ Ask(k) \/ Leave(k)

Spec == Init /\ [][Next]_vars

\* main() runs and the alarm is delivered; a user who was welcomed types a name.
Fairness == /\ WF_vars(MainStep)
            /\ WF_vars(AlarmHandler)
            /\ \A k \in Sockets : WF_vars(SignUp(k))

FairSpec == Spec /\ Fairness

-----------------------------------------------------------------------------
(* Properties.                                                             *)

ConnStates == {"none", "backlog", "greeting", "welcome", "member", "unheard", "gone"}

TypeOK ==
  /\ players \in [Seats -> [socket : Sockets \cup {NoSocket}, is_registered : BOOLEAN,
                          named : BOOLEAN]]
  /\ amount_players \in 0..MAX_PLAYERS
  /\ game_running \in BOOLEAN /\ alarm \in BOOLEAN
  /\ main.i \in 0..MAX_PLAYERS /\ main.j \in 0..MAX_PLAYERS
  /\ main.socket \in Sockets \cup {NoSocket} /\ main.ready \subseteq Sockets
  /\ conn \in [Sockets -> ConnStates]

\* remove_player is past its close().
Removing == main.pc \in {"zero", "reset", "shift", "tell", "broadcast", "running", "cancel"}

\* players[] holds every connected client once, and beyond amount_players
\* nothing: a seat that a client takes is not registered under the name of the
\* one who left it.
SeatsInOrder ==
  ~Removing /\ ~At("store") =>
    /\ \A i \in Present : players[i].socket # NoSocket
    /\ \A i, j \in Present : players[i].socket = players[j].socket => i = j
    /\ \A i \in Seats \ Present : players[i] = Clean

\* "If the game is running [...] the client will be refused", serveur.c:115: who
\* plays was dealt a hand, unless the alarm started the game between the test
\* of add_client and its amount_players++.
NobodyJoinsAGame ==
  game_running /\ ~Removing => Playing = Dealt \/ past.startedAt = "count"

\* The board of a game has the name of each player, whoever left the lobby before,
\* unless the alarm started the game between the two statements of add_player.
EveryPlayerHasItsName ==
  game_running /\ ~Removing => past.nameless = {} \/ past.startedAt = "name"

\* A client that has typed its name is registered, wherever the others moved
\* its seat, unless the alarm came between the receive and the dispatcher.
SignUpCounts ==
  \A i \in Present :
    LET k == players[i].socket IN
      ~Removing /\ ~At("store") /\ conn[k] = "member" =>
         \/ players[i].is_registered
         \/ "ADD_PLAYER" \in ToSet(toServer[k])
         \/ At("dispatch") /\ main.socket = k
         \/ k \in past.lost

\* A seat belongs to a client that knows it has one, unless the alarm wrote to it
\* between the store of its socket (line 137) and its greeting (142).
SeatHolderWasWelcomed == \A k \in Sockets : conn[k] = "unheard" => k \in past.unheard

\* The alarm never interrupts a game: neither clear_lobby nor a handler of the
\* game needs to expect it.  And no lobby is without it.
AlarmInLobbyOnly ==
  /\ alarm => ~game_running
  /\ amount_players > 0 /\ ~game_running => alarm \/ main.pc \in {"store", "set_alarm"}

\* The dispatcher calls a handler that exists, unless the alarm started the game
\* between the receive and the call.
NoWildCall == At("wild") => past.startedAt = "dispatch"

OneEach == \A m, n \in DOMAIN past.hands : past.hands[m] = past.hands[n] => m = n

\* Nobody has two hands of a game, though the alarm may deal to an array with a player
\* twice in it, and leaves C_INIT_DECK_RECEIVED in mess.  A reply that is sent after the
\* alarm has started the game is a second hand: add_player and send_basic_info have
\* written the code by then.
OneHandEach == game_running /\ ~Removing => OneEach \/ past.startedAt = "reply"

\* A game that was started while a player left, or that a player leaves, ends
\* for everybody.
Broken == ~(Dealt \subseteq Members) \/ (~OneEach /\ past.startedAt # "reply")
BrokenGamesEnd == game_running /\ Broken ~> ~game_running \/ At("wild")

\* Two players in a lobby: a game starts, unless somebody leaves or one of the
\* seats is held by a client that will never register.
LobbyMoves == amount_players >= 2 /\ ~game_running
                ~> \/ game_running \/ amount_players < 2 \/ At("wild")
                   \/ \E k \in Sockets : conn[k] = "gone"
                   \/ past.lost # {} \/ past.unheard # {}
=============================================================================
