---------------------------- MODULE Lobby_proofs ----------------------------
(***************************************************************************)
(* For any number of connections and any size of players[], with SIGALRM   *)
(* between any two lines: the lobby always has its alarm and a game never  *)
(* has one; and each thing the alarm can spoil, it spoils in one place     *)
(* only.  LInv is about the alarm and the message, SInv about what a seat  *)
(* that is free, and one that is registered, looks like, WInv about the    *)
(* greeting, OInv about who holds which seat and where its sign-up is, and *)
(* DInv about the hands.                                                   *)
(***************************************************************************)
EXTENDS Lobby, TLAPS

Player    == [socket : Sockets \cup {NoSocket}, is_registered : BOOLEAN, named : BOOLEAN]
Labels    == {"select", "test", "refuse", "turn_down", "count", "store", "set_alarm", "ok", "greet",
              "serve", "dispatch", "name", "answer", "reply", "wild",
              "zero", "reset", "shift", "tell", "broadcast", "running", "cancel"}
Main      == [pc : Labels, ready : SUBSET Sockets, i : Int,
              socket : Sockets \cup {NoSocket}, j : Int]
FromUsers == {"ADD_PLAYER", "ASK_BASIC_INFO"}

Types == /\ players \in [Seats -> Player]
         /\ amount_players \in Int
         /\ game_running \in BOOLEAN /\ alarm \in BOOLEAN
         /\ main \in Main
         /\ toServer \in [Sockets -> Seq(FromUsers)]
         /\ DOMAIN past = {"hands", "nameless", "startedAt", "lost", "unheard"}

\* Between the count of add_client and its test for the first client the alarm
\* may be missing, and only then.  A game that starts under add_client has its
\* two players already.
Counts == /\ amount_players >= 0
          /\ main.pc \in {"zero", "reset", "shift"} => amount_players > 0
          /\ main.pc \in {"count", "store", "set_alarm"} /\ game_running => amount_players >= 2

AlarmSet == /\ alarm => ~game_running
            /\ amount_players > 0 /\ ~game_running =>
                 alarm \/ (main.pc \in {"store", "set_alarm"} /\ amount_players = 1)

\* The code of the hands of a new game is in mess at the dispatcher only when
\* the alarm has put it there.
Wild == At("wild") \/ (At("dispatch") /\ code = "INIT_DECK") => past.startedAt = "dispatch"

LInv == Types /\ Counts /\ AlarmSet /\ Wild

-----------------------------------------------------------------------------
LEMMA InitLInv == Init => LInv
<1> SUFFICES ASSUME Init PROVE LInv  OBVIOUS
<1>1. players \in [Seats -> Player]  BY DEF Init, Player, Clean
<1>2. main \in Main /\ main.pc = "select"  BY DEF Init, Main, Labels
<1>3. toServer \in [Sockets -> Seq(FromUsers)]
  <2>1. <<>> \in Seq(FromUsers)  OBVIOUS
  <2> QED  BY <2>1 DEF Init
<1>4. DOMAIN past = {"hands", "nameless", "startedAt", "lost", "unheard"}  BY DEF Init
<1>5. amount_players = 0 /\ game_running = FALSE /\ alarm = FALSE  BY DEF Init
<1>6. Types
  <2>1. amount_players \in Int  BY <1>5
  <2>2. game_running \in BOOLEAN /\ alarm \in BOOLEAN  BY <1>5
  <2> QED  BY <1>1, <1>2, <1>3, <1>4, <2>1, <2>2 DEF Types
<1> QED  BY <1>2, <1>5, <1>6 DEF LInv, Counts, AlarmSet, Wild, At

\* What a client does.
LEMMA ClientsLInv ==
  ASSUME LInv, NEW k \in Sockets, Connect(k) \/ SignUp(k) \/ Ask(k) \/ Leave(k)
  PROVE  LInv'
<1>1. toServer' \in [Sockets -> Seq(FromUsers)]
  <2>1. CASE Connect(k) \/ Leave(k)  BY <2>1 DEF Connect, Leave, LInv, Types
  <2>2. CASE SignUp(k)
    <3>1. Append(toServer[k], "ADD_PLAYER") \in Seq(FromUsers)
      BY DEF LInv, Types, FromUsers
    <3> QED  BY <2>2, <3>1 DEF SignUp, LInv, Types
  <2>3. CASE Ask(k)
    <3>1. <<"ASK_BASIC_INFO">> \in Seq(FromUsers)  BY DEF FromUsers
    <3> QED  BY <2>3, <3>1 DEF Ask, LInv, Types
  <2> QED  BY <2>1, <2>2, <2>3
<1>2. UNCHANGED <<serverVars, past>>
  BY DEF Connect, SignUp, Ask, Leave
<1> QED
  BY <1>1, <1>2 DEF serverVars, LInv, Types, Counts, AlarmSet, Wild, At

-----------------------------------------------------------------------------
(* main().                                                                 *)

\* Wherever the for loop goes on.
LEMMA LoopIndex ==
  ASSUME main \in Main
  PROVE  /\ ServeFirst \in Main /\ ServeFirst.pc = "serve"
         /\ NextPlayer \in Main /\ NextPlayer.pc = "serve"
         /\ [main EXCEPT !.pc = "cancel"] \in Main
         /\ [main EXCEPT !.pc = "select", !.ready = {}, !.i = 0] \in Main
<1>1. PICK none \in Int : none = 0  OBVIOUS
<1>2. ASSUME NEW i \in Int
      PROVE  /\ [main EXCEPT !.pc = "serve", !.i = i, !.socket = NoSocket] \in Main
             /\ [main EXCEPT !.pc = "serve", !.i = i, !.socket = NoSocket, !.j = none] \in Main
             /\ [main EXCEPT !.pc = "select", !.ready = {}, !.i = i] \in Main
  BY <1>1 DEF Main, Labels
<1>3. main.i \in Int /\ main.i + 1 \in Int  BY DEF Main
<1>4. ServeFirst \in Main /\ [main EXCEPT !.pc = "select", !.ready = {}, !.i = 0] \in Main
  <2>1. [main EXCEPT !.pc = "serve", !.i = none, !.socket = NoSocket] \in Main  BY <1>2
  <2>2. [main EXCEPT !.pc = "select", !.ready = {}, !.i = none] \in Main  BY <1>2
  <2> QED  BY <1>1, <2>1, <2>2 DEF ServeFirst
<1>5. NextPlayer \in Main
  <2>1. [main EXCEPT !.pc = "serve", !.i = main.i + 1, !.socket = NoSocket, !.j = none] \in Main
    BY <1>2, <1>3
  <2> QED  BY <1>1, <2>1 DEF NextPlayer
<1>6. [main EXCEPT !.pc = "cancel"] \in Main  BY DEF Main, Labels
<1>7. ServeFirst.pc = "serve" /\ NextPlayer.pc = "serve"
  BY DEF ServeFirst, NextPlayer, Main
<1> QED  BY <1>4, <1>5, <1>6, <1>7

\* A line that leaves the lobby, the alarm and the messages of the users alone.
LEMMA StepLInv ==
  ASSUME LInv, main' \in Main, players' \in [Seats -> Player],
         UNCHANGED <<amount_players, game_running, alarm, toServer>>,
         DOMAIN past' = DOMAIN past,
         \/ main'.pc \in {"test", "refuse", "turn_down", "ok", "greet", "serve", "name", "answer",
                          "reply", "select", "broadcast", "running", "cancel"}
         \/ main'.pc \in {"reset", "shift"} /\ main.pc \in {"zero", "reset", "shift"},
         main.pc \notin {"store", "set_alarm"}
  PROVE  LInv'
<1>1. Types'  BY DEF LInv, Types
<1>2. Counts'  BY DEF LInv, Counts
<1>3. AlarmSet'  BY DEF LInv, AlarmSet
<1>4. Wild'  BY DEF Wild, At
<1> QED  BY <1>1, <1>2, <1>3, <1>4 DEF LInv

\* What add_client does.
LEMMA AddClientLInv == LInv /\ AddClient => LInv'
<1> SUFFICES ASSUME LInv, AddClient PROVE LInv'  OBVIOUS
<1>0. main \in Main /\ players \in [Seats -> Player]  BY DEF LInv, Types
<1>1. CASE TestLobby
  <2>1. /\ main' \in Main /\ main.pc = "test" /\ UNCHANGED <<players, toServer, past>>
        /\ UNCHANGED <<amount_players, game_running, alarm>>
    BY <1>0, <1>1 DEF TestLobby, At, Goto, Main, Labels
  <2>2. CASE game_running
    <3>1. main'.pc = "refuse"  BY <1>0, <1>1, <2>2 DEF TestLobby, Goto, Main, Labels
    <3> QED  BY <1>0, <2>1, <3>1, StepLInv
  <2>3. CASE ~game_running
    <3>1. main'.pc \in {"refuse", "count"}  BY <1>0, <1>1 DEF TestLobby, Goto, Main, Labels
    <3>2. Types'  BY <2>1 DEF LInv, Types
    <3> QED  BY <2>1, <2>3, <3>1, <3>2 DEF LInv, Counts, AlarmSet, Wild, At
  <2> QED  BY <2>2, <2>3
<1>2. CASE TurnDown \/ Greet
  <2>1. /\ main' = ServeFirst /\ main.pc \in {"turn_down", "greet"}
        /\ UNCHANGED <<players, amount_players, game_running, alarm, toServer, past>>
    BY <1>2 DEF TurnDown, Greet, At
  <2>2. main' \in Main /\ main'.pc = "serve"  BY <1>0, <2>1, LoopIndex
  <2> QED  BY <1>0, <2>1, <2>2, StepLInv
<1>3. CASE Count
  <2>1. /\ main' \in Main /\ main.pc = "count" /\ main'.pc = "store"
        /\ amount_players' = amount_players + 1
        /\ UNCHANGED <<players, game_running, alarm, toServer, past>>
    BY <1>0, <1>3 DEF Count, At, Goto, Main, Labels
  <2>2. Types'  BY <2>1 DEF LInv, Types
  <2>3. amount_players \in Int /\ amount_players >= 0  BY DEF LInv, Types, Counts
  <2> QED  BY <2>1, <2>2, <2>3 DEF LInv, Counts, AlarmSet, Wild, At
<1>4. CASE Store
  <2>1. /\ main' \in Main /\ main.pc = "store" /\ main'.pc = "set_alarm"
        /\ UNCHANGED <<amount_players, game_running, alarm, toServer, past>>
    BY <1>0, <1>4 DEF Store, At, Goto, Main, Labels
  <2>2. players' \in [Seats -> Player]
    <3>1. players' = [players EXCEPT ![amount_players - 1].socket = main.socket]
      BY <1>4 DEF Store
    <3>2. main.socket \in Sockets \cup {NoSocket}  BY <1>0 DEF Main, Labels
    <3> QED  BY <1>0, <3>1, <3>2 DEF Player
  <2>3. Types'  BY <2>1, <2>2 DEF LInv, Types
  <2> QED  BY <2>1, <2>3 DEF LInv, Counts, AlarmSet, Wild, At
<1>5. CASE SetAlarm
  <2>1. /\ main' \in Main /\ main.pc = "set_alarm" /\ main'.pc = "ok"
        /\ alarm' = (alarm \/ amount_players = 1)
        /\ UNCHANGED <<players, amount_players, game_running, toServer, past>>
    BY <1>0, <1>5 DEF SetAlarm, At, Goto, Main, Labels
  <2>2. Types'  BY <2>1 DEF LInv, Types
  <2>3. Counts' /\ Wild'  BY <2>1 DEF LInv, Counts, Wild, At
  <2>4. amount_players = 1 => ~game_running  BY <2>1 DEF LInv, Counts
  <2>5. AlarmSet'  BY <2>1, <2>4 DEF LInv, AlarmSet
  <2> QED  BY <2>2, <2>3, <2>5 DEF LInv
<1>6. CASE WriteOk \/ WriteRefuse
  <2>1. /\ main' \in Main /\ main.pc \in {"ok", "refuse"} /\ main'.pc \in {"greet", "turn_down"}
        /\ UNCHANGED <<players, amount_players, game_running, alarm, toServer, past>>
    BY <1>0, <1>6 DEF WriteOk, WriteRefuse, At, Goto, Main, Labels
  <2> QED  BY <1>0, <2>1, StepLInv
<1> QED  BY <1>1, <1>2, <1>3, <1>4, <1>5, <1>6 DEF AddClient

\* A message from a client never has the code of a hand.
LEMMA ReceiveLInv ==
  ASSUME LInv, NEW i \in Seats, Receive(i)
  PROVE  LInv'
<1> DEFINE k == players[i].socket
<1>1. k \in Sockets /\ main \in Main
  BY DEF Receive, Serves, ToServe, LInv, Types, Main, Labels
<1>2. /\ toServer[k] \in Seq(FromUsers) /\ toServer[k] # <<>>
      /\ toServer' = [toServer EXCEPT ![k] = Tail(@)]
      /\ code' = Head(toServer[k])
      /\ main' = [main EXCEPT !.pc = "dispatch", !.i = i, !.socket = k]
      /\ UNCHANGED <<players, amount_players, game_running, alarm, conn, past>>
  BY <1>1 DEF Receive, LInv, Types
<1>3. Head(toServer[k]) \in FromUsers /\ Tail(toServer[k]) \in Seq(FromUsers)
  BY <1>2
<1>4. toServer' \in [Sockets -> Seq(FromUsers)]
  BY <1>2, <1>3 DEF LInv, Types
<1>5. main' \in Main /\ main'.pc = "dispatch"
  <2>1. i \in Int  BY DEF Seats
  <2> HIDE DEF k
  <2> QED  BY <1>1, <1>2, <2>1 DEF Main, Labels
<1>6. Types'  BY <1>2, <1>4, <1>5 DEF LInv, Types
<1>7. main.pc = "serve"  BY DEF Receive, Serves, At
<1>8. code' # "INIT_DECK"  BY <1>2, <1>3 DEF FromUsers
<1>9. Counts' /\ AlarmSet'  BY <1>2, <1>5, <1>7 DEF LInv, Counts, AlarmSet
<1>10. Wild'  BY <1>5, <1>8 DEF Wild, At
<1> QED  BY <1>6, <1>9, <1>10 DEF LInv

\* What the dispatcher calls.
Handlers == add_player \/ AnswerInfo \/ Reply \/ CountScore \/ WildCall

\* select(), the handlers that the dispatcher calls, and the end of the loop.
LEMMA ServeLInv ==
  LInv /\ (Select \/ Handlers \/ EndOfLoop) => LInv'
<1> SUFFICES ASSUME LInv, Select \/ Handlers \/ EndOfLoop
             PROVE  LInv'
  OBVIOUS
<1>0. main \in Main /\ players \in [Seats -> Player]  BY DEF LInv, Types
<1>1. CASE Select
  <2>1. Playing \subseteq Sockets  BY <1>0 DEF Playing, Player
  <2>2. /\ main' \in Main /\ main.pc = "select" /\ main'.pc \in {"test", "serve"}
    <3>1. CASE \E k \in Accepting :
                 main' = [main EXCEPT !.pc = "test",
                            !.ready = {q \in Playing : Readable(q)}, !.socket = k]
      BY <1>0, <1>1, <2>1, <3>1 DEF Select, At, Accepting, Main, Labels
    <3>2. CASE main' = [main EXCEPT !.pc = "serve", !.ready = {q \in Playing : Readable(q)}]
      BY <1>0, <1>1, <2>1, <3>2 DEF Select, At, Main, Labels
    <3> QED  BY <1>1, <3>1, <3>2 DEF Select
  <2>3. UNCHANGED <<players, amount_players, game_running, alarm, toServer, past>>
    BY <1>1 DEF Select
  <2> QED  BY <1>0, <2>2, <2>3, StepLInv
<1>2. CASE add_player
  <2>1. UNCHANGED <<amount_players, game_running, alarm, toServer, past>>
    BY <1>2 DEF add_player, Register, StoreName, Answer
  <2>2. CASE Register
    <3>1. main' \in Main /\ main.pc = "dispatch" /\ main'.pc = "name"
      BY <1>0, <2>2 DEF Register, At, Goto, Main, Labels
    <3>2. players' \in [Seats -> Player]  BY <1>0, <2>2 DEF Register, Player
    <3> QED  BY <2>1, <3>1, <3>2, StepLInv
  <2>3. CASE StoreName
    <3>1. main' \in Main /\ main.pc = "name" /\ main'.pc = "answer"
      BY <1>0, <2>3 DEF StoreName, At, Goto, Main, Labels
    <3>2. players' \in [Seats -> Player]  BY <1>0, <2>3 DEF StoreName, Player
    <3> QED  BY <2>1, <3>1, <3>2, StepLInv
  <2>4. CASE Answer
    <3>1. main' \in Main /\ main.pc = "answer" /\ main'.pc = "reply" /\ players' = players
      BY <1>0, <2>4 DEF Answer, At, Goto, Main, Labels
    <3> QED  BY <1>0, <2>1, <3>1, StepLInv
  <2> QED  BY <1>2, <2>2, <2>3, <2>4 DEF add_player
<1>3. CASE AnswerInfo \/ Reply \/ CountScore
  <2>1. /\ main.pc \in {"dispatch", "reply"} /\ main' \in Main /\ main'.pc \in {"reply", "serve"}
        /\ UNCHANGED <<players, amount_players, game_running, alarm, toServer>>
    <3>1. CASE AnswerInfo  BY <1>0, <3>1 DEF AnswerInfo, At, Goto, Main, Labels
    <3>2. CASE Reply \/ CountScore  BY <1>0, <3>2, LoopIndex DEF Reply, CountScore, At
    <3> QED  BY <1>3, <3>1, <3>2
  <2>2. DOMAIN past' = DOMAIN past  BY <1>3 DEF AnswerInfo, Reply, CountScore
  <2> QED  BY <1>0, <2>1, <2>2, StepLInv
<1>4. CASE WildCall
  <2>1. /\ main' \in Main /\ main.pc = "dispatch" /\ main'.pc = "wild" /\ code = "INIT_DECK"
        /\ UNCHANGED <<players, amount_players, game_running, alarm, toServer, past>>
    BY <1>0, <1>4 DEF WildCall, At, Goto, Main, Labels
  <2>2. Types'  BY <2>1 DEF LInv, Types
  <2> QED  BY <2>1, <2>2 DEF LInv, Counts, AlarmSet, Wild, At
<1>5. CASE EndOfLoop
  <2>1. /\ main' \in Main /\ main.pc = "serve" /\ main'.pc = "select"
        /\ UNCHANGED <<players, amount_players, game_running, alarm, toServer, past>>
    BY <1>0, <1>5, LoopIndex DEF EndOfLoop, At, Main
  <2> QED  BY <1>0, <2>1, StepLInv
<1> QED  BY <1>1, <1>2, <1>3, <1>4, <1>5 DEF Handlers

\* An empty lobby needs no alarm.
LEMMA ClearLInv ==
  ASSUME LInv, clear_lobby, main' \in Main, alarm' = alarm,
         main'.pc \in {"select", "serve"}
  PROVE  LInv'
<1>1. toServer' \in [Sockets -> Seq(FromUsers)]
  <2>1. <<>> \in Seq(FromUsers)  OBVIOUS
  <2> QED  BY <2>1 DEF clear_lobby, LInv, Types
<1>2. players' \in [Seats -> Player]  BY DEF clear_lobby, Player, Clean
<1>3. amount_players' = 0 /\ game_running' = FALSE  BY DEF clear_lobby
<1>4. DOMAIN past' = DOMAIN past  BY DEF clear_lobby
<1>5. Types'
  <2>1. amount_players' \in Int  BY <1>3
  <2>2. game_running' \in BOOLEAN /\ alarm' \in BOOLEAN  BY <1>3 DEF LInv, Types
  <2> QED  BY <1>1, <1>2, <1>4, <2>1, <2>2 DEF LInv, Types
<1> QED  BY <1>3, <1>5 DEF LInv, Counts, AlarmSet, Wild, At

LEMMA EndGameLInv == LInv /\ EndGame => LInv'
<1> SUFFICES ASSUME LInv, EndGame PROVE LInv'  OBVIOUS
<1>1. /\ clear_lobby /\ main' = main /\ alarm' = alarm /\ main.pc = "select"
  BY DEF EndGame, At
<1>2. main' \in Main /\ main'.pc = "select"  BY <1>1 DEF LInv, Types
<1> QED  BY <1>1, <1>2, ClearLInv

\* What remove_player does.
LEMMA RemovePlayerLInv == LInv /\ RemovePlayer => LInv'
<1> SUFFICES ASSUME LInv, RemovePlayer PROVE LInv'  OBVIOUS
<1>0. main \in Main /\ players \in [Seats -> Player] /\ amount_players \in Int
  BY DEF LInv, Types
<1>1. ASSUME NEW i \in Seats, Close(i) PROVE LInv'
  <2>1. i \in Int  BY DEF Seats
  <2>2. amount_players > 0  BY <1>0, <1>1 DEF Close, Serves, ToServe, Present
  <2>3. /\ main' = [main EXCEPT !.pc = "zero", !.i = i, !.j = i] /\ main.pc = "serve"
        /\ UNCHANGED <<players, amount_players, game_running, alarm, toServer>>
    BY <1>1 DEF Close, Serves, At
  <2>4. main' \in Main /\ main'.pc = "zero"  BY <1>0, <2>1, <2>3 DEF Main, Labels
  <2>5. DOMAIN past' = DOMAIN past  BY <1>1 DEF Close
  <2>6. Types'  BY <2>3, <2>4, <2>5 DEF LInv, Types
  <2> QED  BY <2>2, <2>3, <2>4, <2>6 DEF LInv, Counts, AlarmSet, Wild, At
<1>2. CASE Zero
  <2>1. /\ main' \in Main /\ main.pc = "zero" /\ main'.pc = "reset"
        /\ players' = [players EXCEPT ![main.i].socket = NoSocket]
        /\ UNCHANGED <<amount_players, game_running, alarm, toServer, past>>
    BY <1>0, <1>2 DEF Zero, At, Goto, Main, Labels
  <2>2. players' \in [Seats -> Player]  BY <1>0, <2>1 DEF Player
  <2> QED  BY <2>1, <2>2, StepLInv
<1>3. CASE Reset
  <2>1. /\ main' \in Main /\ main.pc = "reset" /\ main'.pc = "shift"
        /\ players' = [players EXCEPT ![main.i] = Clean]
        /\ UNCHANGED <<amount_players, game_running, alarm, toServer, past>>
    BY <1>0, <1>3 DEF Reset, At, Goto, Main, Labels
  <2>2. players' \in [Seats -> Player]  BY <1>0, <2>1 DEF Player, Clean
  <2> QED  BY <2>1, <2>2, StepLInv
<1>4. CASE Shift
  <2>1. /\ main' \in Main /\ main.pc = "shift" /\ main'.pc = "shift"
        /\ players' = [players EXCEPT ![main.j] = PlayerAt(main.j + 1)]
        /\ UNCHANGED <<amount_players, game_running, alarm, toServer, past>>
    BY <1>0, <1>4 DEF Shift, At, Main, Labels
  <2>2. PlayerAt(main.j + 1) \in Player
    BY <1>0 DEF PlayerAt, LInv, Types, Player
  <2>3. players' \in [Seats -> Player]  BY <1>0, <2>1, <2>2
  <2> QED  BY <2>1, <2>3, StepLInv
<1>5. CASE Uncount
  <2>1. /\ main' \in Main /\ main.pc = "shift" /\ main'.pc = "tell"
        /\ amount_players' = amount_players - 1
        /\ UNCHANGED <<players, game_running, alarm, toServer, past>>
    BY <1>0, <1>5 DEF Uncount, At, Goto, Main, Labels
  <2>2. Types'  BY <1>0, <2>1 DEF LInv, Types
  <2>3. Counts'  BY <1>0, <2>1 DEF LInv, Counts
  <2>4. AlarmSet'  BY <1>0, <2>1 DEF LInv, AlarmSet
  <2>5. Wild'  BY <2>1 DEF Wild, At
  <2> QED  BY <2>2, <2>3, <2>4, <2>5 DEF LInv
<1>6. CASE WriteInfo \/ TellOthers \/ TestRunning
  <2>1. /\ main.pc \in {"tell", "broadcast", "running"}
        /\ main' \in Main /\ main'.pc \in {"broadcast", "running", "cancel", "serve"}
    <3>1. CASE WriteInfo \/ TellOthers
      BY <1>0, <3>1 DEF WriteInfo, TellOthers, At, Goto, Main, Labels
    <3>2. CASE TestRunning
      <4>1. main.pc = "running" /\ main' = IF game_running THEN [main EXCEPT !.pc = "cancel"] ELSE NextPlayer
        BY <3>2 DEF TestRunning, At
      <4>2. [main EXCEPT !.pc = "cancel"].pc = "cancel"  BY <1>0 DEF Main
      <4> QED  BY <1>0, <4>1, <4>2, LoopIndex
    <3> QED  BY <1>6, <3>1, <3>2
  <2>2. UNCHANGED <<players, amount_players, game_running, alarm, toServer>>
    BY <1>6 DEF WriteInfo, TellOthers, TestRunning
  <2>3. DOMAIN past' = DOMAIN past  BY <1>6 DEF WriteInfo, TellOthers, TestRunning
  <2> QED  BY <1>0, <2>1, <2>2, <2>3, StepLInv
<1>7. CASE Cancel
  <2>1. clear_lobby /\ main' = NextPlayer /\ alarm' = alarm  BY <1>7 DEF Cancel
  <2>2. main' \in Main /\ main'.pc = "serve"  BY <1>0, <2>1, LoopIndex
  <2> QED  BY <2>1, <2>2, ClearLInv
<1> QED  BY <1>1, <1>2, <1>3, <1>4, <1>5, <1>6, <1>7 DEF RemovePlayer

-----------------------------------------------------------------------------
(* alarm_handler, between any two of these.                                *)

LEMMA AlarmHandlerLInv == LInv /\ AlarmHandler => LInv'
<1> SUFFICES ASSUME LInv, AlarmHandler PROVE LInv'  OBVIOUS
<1>1. CASE AlarmRestarts
  <2>1. /\ code' = "INFO" /\ past' = Spoilt /\ main.pc # "wild"
        /\ UNCHANGED <<players, amount_players, game_running, alarm, main, toServer>>
    BY <1>1 DEF AlarmRestarts, At
  <2>2. DOMAIN past' = DOMAIN past  BY <2>1 DEF Spoilt
  <2>3. Types' /\ Counts' /\ AlarmSet'  BY <2>1, <2>2 DEF LInv, Types, Counts, AlarmSet
  <2>4. Wild'  BY <2>1 DEF Wild, At
  <2> QED  BY <2>3, <2>4 DEF LInv
<1>2. CASE AlarmStartsGame
  <2>1. /\ main.pc # "wild" /\ amount_players >= 2 /\ game_running' = TRUE /\ alarm' = FALSE
        /\ UNCHANGED <<players, amount_players, main, toServer>>
    BY <1>2 DEF AlarmStartsGame, At
  <2>2. DOMAIN past' = DOMAIN past  BY <1>2 DEF AlarmStartsGame, Spoilt
  <2>3. past'.startedAt = main.pc  BY <1>2 DEF AlarmStartsGame, Spoilt, LInv, Types
  <2>4. Types'  BY <2>1, <2>2 DEF LInv, Types
  <2>5. Counts' /\ AlarmSet'  BY <2>1 DEF LInv, Counts, AlarmSet
  <2>6. Wild'  BY <2>1, <2>3 DEF Wild, At
  <2> QED  BY <2>4, <2>5, <2>6 DEF LInv
<1> QED  BY <1>1, <1>2 DEF AlarmHandler

LEMMA Invariance == Spec => []LInv
<1>1. LInv /\ [Next]_vars => LInv'
  <2> SUFFICES ASSUME LInv, [Next]_vars PROVE LInv'  OBVIOUS
  <2>1. CASE UNCHANGED vars
    BY <2>1 DEF vars, serverVars, LInv, Types, Counts, AlarmSet, Wild, At
  <2>2. CASE MainStep
    BY <2>2, AddClientLInv, ReceiveLInv, ServeLInv, RemovePlayerLInv DEF MainStep, Handlers
  <2> QED
    BY <2>1, <2>2, ClientsLInv, EndGameLInv, AlarmHandlerLInv DEF Next
<1> QED  BY <1>1, InitLInv, PTL DEF Spec

-----------------------------------------------------------------------------

\* SIGALRM never interrupts a game, and whoever waits in a lobby does not wait
\* for nothing: the alarm is set, wherever main() is.
THEOREM AlarmInLobbyOnlyThm == Spec => []AlarmInLobbyOnly
<1>1. LInv => AlarmInLobbyOnly  BY DEF LInv, AlarmSet, AlarmInLobbyOnly
<1> QED  BY <1>1, Invariance, PTL

\* The dispatcher is called with an index past its end in one way only: the alarm
\* starts a game between receive_message and the call.
THEOREM NoWildCallThm == Spec => []NoWildCall
<1>1. LInv => NoWildCall  BY DEF LInv, Wild, NoWildCall
<1> QED  BY <1>1, Invariance, PTL

-----------------------------------------------------------------------------
(* The seats.  Beyond amount_players the array is clean, except while a    *)
(* player is removed from a running game, which remove_player then ends.   *)

Beyond == \A i \in Seats \ Present : players[i] = Clean

Seated ==
  /\ amount_players \in 0..MAX_PLAYERS
  /\ main.pc = "count" => amount_players < MAX_PLAYERS
  /\ main.pc = "store" => amount_players > 0 /\ players[amount_players - 1] = Clean
  /\ main.pc \in {"zero", "reset"} => main.i \in Present /\ main.j \in Present
  /\ main.pc = "shift" => main.j \in 0..amount_players
  /\ main.pc \in {"dispatch", "name", "answer", "reply"} =>
       main.i \in Seats /\ players[main.i].socket = main.socket /\ main.socket # NoSocket

CleanBeyond ==
  /\ (main.pc \in {"tell", "broadcast", "running", "cancel"} /\ game_running) \/ Beyond
  /\ main.pc = "shift" /\ main.j = amount_players =>
       game_running \/ players[amount_players - 1] = Clean

\* A registered player has a socket, but for the moment between the two lines
\* that take them from one who left, and a name, but for the moment before
\* add_player stores it.
HasSocket(i) == players[i].is_registered =>
                  players[i].socket # NoSocket \/ (main.pc = "reset" /\ i = main.i)
HasName(i)   == players[i].is_registered =>
                  players[i].named \/ (main.pc = "name" /\ i = main.i)

Registered == \/ game_running /\ main.pc \in {"shift", "tell", "broadcast", "running", "cancel"}
              \/ \A i \in Seats : HasSocket(i) /\ HasName(i)

Hands ==
  /\ main.pc \in {"count", "store"} /\ game_running => past.startedAt = "count"
  /\ game_running /\ ~Removing => Playing = Dealt \/ past.startedAt = "count"
  /\ game_running /\ ~Removing => past.nameless = {} \/ past.startedAt = "name"

SInv == Seated /\ CleanBeyond /\ Registered /\ Hands

\* The hands are a list of sockets.
Dealing == past.hands \in Seq(Sockets \cup {NoSocket})

LEMMA InQueue ==
  ASSUME NEW S, NEW s \in Seq(S), NEW e
  PROVE  /\ ToSet(<<e>>) = {e}
         /\ ToSet(Append(s, e)) = ToSet(s) \cup {e}
         /\ s # <<>> => ToSet(s) = {Head(s)} \cup ToSet(Tail(s))
<1>1. ToSet(<<e>>) = {e}  BY DEF ToSet
<1>2. ToSet(Append(s, e)) = ToSet(s) \cup {e}
  <2>1. /\ DOMAIN Append(s, e) = DOMAIN s \cup {Len(s) + 1}
        /\ Append(s, e)[Len(s) + 1] = e
        /\ \A i \in DOMAIN s : Append(s, e)[i] = s[i]
    OBVIOUS
  <2> QED  BY <2>1 DEF ToSet
<1>3. ASSUME s # <<>> PROVE ToSet(s) = {Head(s)} \cup ToSet(Tail(s))
  <2>1. /\ 1 \in DOMAIN s /\ Head(s) = s[1] /\ DOMAIN s = 1..Len(s) /\ Len(s) \in Nat
        /\ DOMAIN Tail(s) = 1..(Len(s) - 1)
        /\ \A i \in 1..(Len(s) - 1) : Tail(s)[i] = s[i + 1]
    BY <1>3
  <2>2. ToSet(Tail(s)) \subseteq ToSet(s)  BY <2>1 DEF ToSet
  <2>3. ASSUME NEW m \in ToSet(s), m # s[1] PROVE m \in ToSet(Tail(s))
    <3>1. PICK i \in 1..Len(s) : s[i] = m  BY <2>1 DEF ToSet
    <3>2. i # 1  BY <2>3, <3>1
    <3>3. i - 1 \in 1..(Len(s) - 1) /\ (i - 1) + 1 = i  BY <2>1, <3>1, <3>2
    <3>4. Tail(s)[i - 1] = m  BY <2>1, <3>1, <3>3
    <3> QED  BY <2>1, <3>3, <3>4 DEF ToSet
  <2>4. s[1] \in ToSet(s)  BY <2>1 DEF ToSet
  <2> QED  BY <2>1, <2>2, <2>3, <2>4
<1> QED  BY <1>1, <1>2, <1>3

LEMMA InitSInv == Init => SInv
<1> SUFFICES ASSUME Init PROVE SInv  OBVIOUS
<1>1. /\ players = [i \in Seats |-> Clean] /\ amount_players = 0 /\ game_running = FALSE
      /\ main.pc = "select"
  BY DEF Init
<1>2. \A i \in Seats : players[i] = Clean /\ players[i].is_registered = FALSE
  BY <1>1 DEF Clean
<1>3. Seated  BY <1>1, LobbyAssumption DEF Seated
<1>4. CleanBeyond /\ Registered
  BY <1>1, <1>2 DEF CleanBeyond, Beyond, Registered, HasSocket, HasName
<1> QED  BY <1>1, <1>3, <1>4 DEF SInv, Hands

\* What the seats depend on.
seatVars == <<players, amount_players, game_running, past.hands, past.nameless, past.startedAt>>

\* A line that changes none of it, and that neither begins nor ends what the
\* invariant speaks of.
LEMMA StepSInv ==
  ASSUME SInv, UNCHANGED seatVars,
         ~Removing, main.pc # "name",
         main'.pc \in {"select", "test", "refuse", "turn_down", "set_alarm", "ok", "greet", "serve",
                      "wild"}
  PROVE  SInv'
<1>1. Beyond  BY DEF SInv, CleanBeyond, Removing
<1>2. \A i \in Seats : players[i].is_registered => players[i].socket # NoSocket /\ players[i].named
  BY DEF SInv, Registered, HasSocket, HasName, Removing
<1>3. Seated'  BY DEF SInv, Seated, seatVars
<1>4. CleanBeyond'  BY <1>1 DEF CleanBeyond, Beyond, Present, seatVars
<1>5. Registered'  BY <1>2 DEF Registered, HasSocket, HasName, seatVars
<1>6. Playing' = Playing /\ Dealt' = Dealt  BY DEF Playing, Dealt, seatVars
<1>7. Hands'  BY <1>6 DEF SInv, Hands, Removing, seatVars
<1> QED  BY <1>3, <1>4, <1>5, <1>7 DEF SInv

LEMMA AddClientSInv == LInv /\ SInv /\ AddClient => SInv'
<1> SUFFICES ASSUME LInv, SInv, AddClient PROVE SInv'  OBVIOUS
<1>0. main \in Main /\ players \in [Seats -> Player] /\ amount_players \in Int
  BY DEF LInv, Types
<1>1. CASE TestLobby
  <2>1. /\ main.pc = "test" /\ main'.pc \in {"refuse", "count"}
        /\ main'.pc = "count" => ~game_running /\ amount_players # MAX_PLAYERS
        /\ UNCHANGED seatVars
    BY <1>0, <1>1 DEF TestLobby, At, Goto, Main, seatVars
  <2>2. CASE main'.pc = "refuse"  BY <2>1, <2>2, StepSInv DEF Removing
  <2>3. CASE main'.pc = "count"
    <3>1. Seated'  BY <2>1, <2>3, LobbyAssumption DEF SInv, Seated, seatVars
    <3>2. CleanBeyond'
      BY <2>1, <2>3 DEF SInv, CleanBeyond, Beyond, Present, seatVars
    <3>3. Registered'
      BY <2>1, <2>3 DEF SInv, Registered, HasSocket, HasName, seatVars
    <3>4. Hands'  BY <2>1, <2>3 DEF Hands, seatVars
    <3> QED  BY <3>1, <3>2, <3>3, <3>4 DEF SInv
  <2> QED  BY <2>1, <2>2, <2>3
<1>2. CASE WriteRefuse \/ TurnDown \/ SetAlarm \/ WriteOk \/ Greet
  <2>1. /\ main.pc \in {"refuse", "turn_down", "set_alarm", "ok", "greet"}
        /\ main'.pc \in {"serve", "turn_down", "ok", "greet"}
        /\ UNCHANGED seatVars
    BY <1>0, <1>2, LoopIndex
    DEF WriteRefuse, TurnDown, SetAlarm, WriteOk, Greet, At, Goto, Main, seatVars
  <2> QED  BY <2>1, StepSInv DEF Removing
<1>3. CASE Count
  <2>1. /\ main.pc = "count" /\ main'.pc = "store" /\ amount_players' = amount_players + 1
        /\ UNCHANGED <<players, game_running, past>>
    BY <1>0, <1>3 DEF Count, At, Goto, Main
  <2>2. amount_players \in Seats \ Present /\ amount_players \in 0..MAX_PLAYERS
    BY <1>0, <2>1, LobbyAssumption DEF SInv, Seated, Seats, Present
  <2>3. Beyond  BY <2>1 DEF SInv, CleanBeyond
  <2>4. Seated'
    <3>1. players'[amount_players' - 1] = Clean
      BY <1>0, <2>1, <2>2, <2>3 DEF Beyond
    <3> QED  BY <2>1, <2>2, <3>1, LobbyAssumption DEF Seats, Seated
  <2>5. CleanBeyond'
    BY <1>0, <2>1, <2>3 DEF CleanBeyond, Beyond, Present
  <2>6. Registered'  BY <2>1 DEF SInv, Registered, HasSocket, HasName
  <2>7. Hands'  BY <2>1 DEF SInv, Hands, Removing, At
  <2> QED  BY <2>4, <2>5, <2>6, <2>7 DEF SInv
<1>4. CASE Store
  <2>1. /\ main.pc = "store" /\ main'.pc = "set_alarm"
        /\ players' = [players EXCEPT ![amount_players - 1].socket = main.socket]
        /\ UNCHANGED <<amount_players, game_running, past>>
    BY <1>0, <1>4 DEF Store, At, Goto, Main
  <2>2. /\ amount_players - 1 \in Present /\ Present \subseteq Seats
        /\ players[amount_players - 1] = Clean
    BY <1>0, <2>1, LobbyAssumption DEF SInv, Seated, Seats, Present
  <2>3. Beyond /\ \A i \in Seats : HasSocket(i) /\ HasName(i)
    BY <2>1 DEF SInv, CleanBeyond, Registered
  <2>4. /\ players'[amount_players - 1].is_registered = FALSE
        /\ \A i \in Seats : i # amount_players - 1 => players'[i] = players[i]
    BY <1>0, <2>1, <2>2 DEF Clean
  <2>5. Seated'  BY <2>1 DEF SInv, Seated
  <2>6. CleanBeyond'
    BY <2>1, <2>2, <2>3, <2>4 DEF CleanBeyond, Beyond, Present
  <2>7. Registered'
    BY <2>1, <2>3, <2>4 DEF Registered, HasSocket, HasName
  <2>8. Hands'  BY <2>1 DEF SInv, Hands, Removing, At
  <2> QED  BY <2>5, <2>6, <2>7, <2>8 DEF SInv
<1> QED  BY <1>1, <1>2, <1>3, <1>4 DEF AddClient

LEMMA ServeSInv ==
  LInv /\ SInv /\ Dealing /\ (Select \/ (\E i \in Seats : Receive(i)) \/ Handlers \/ EndOfLoop)
    => SInv'
<1> SUFFICES ASSUME LInv, SInv, Dealing,
                    Select \/ (\E i \in Seats : Receive(i)) \/ Handlers \/ EndOfLoop
             PROVE  SInv'
  OBVIOUS
<1>0. main \in Main /\ players \in [Seats -> Player]  BY DEF LInv, Types
<1>1. CASE Select \/ CountScore \/ WildCall \/ EndOfLoop
  <2>1. /\ main.pc \in {"select", "dispatch", "serve"}
        /\ main'.pc \in {"test", "serve", "wild", "select"}
        /\ UNCHANGED seatVars
    BY <1>0, <1>1, LoopIndex DEF Select, CountScore, WildCall, EndOfLoop, At, Goto, Main, seatVars
  <2> QED  BY <2>1, StepSInv DEF Removing
<1>2. ASSUME NEW i \in Seats, Receive(i) PROVE SInv'
  <2>1. /\ main.pc = "serve" /\ main'.pc = "dispatch" /\ main'.i = i
        /\ main'.socket = players[i].socket
        /\ UNCHANGED seatVars
    BY <1>0, <1>2 DEF Receive, Serves, At, Main, seatVars
  <2>2. players[i].socket # NoSocket
    BY <1>0, <1>2, LobbyAssumption DEF Receive, Serves, ToServe, Main
  <2>3. Seated'  BY <2>1, <2>2 DEF SInv, Seated, seatVars
  <2>4. CleanBeyond'  BY <2>1 DEF SInv, CleanBeyond, Beyond, Present, seatVars
  <2>5. Registered'  BY <2>1 DEF SInv, Registered, HasSocket, HasName, seatVars
  <2>6. Playing' = Playing /\ Dealt' = Dealt  BY <2>1 DEF Playing, Dealt, seatVars
  <2>7. Hands'  BY <2>1, <2>6 DEF SInv, Hands, Removing, seatVars
  <2> QED  BY <2>3, <2>4, <2>5, <2>7 DEF SInv
<1>3. CASE Register \/ StoreName
  <2>1. /\ main.pc \in {"dispatch", "name"}
        /\ \/ /\ main'.pc = "name" /\ main.pc = "dispatch"
              /\ players' = [players EXCEPT ![main.i].is_registered = TRUE]
           \/ /\ main'.pc = "answer" /\ main.pc = "name"
              /\ players' = [players EXCEPT ![main.i].named = TRUE]
        /\ main'.i = main.i /\ main'.socket = main.socket
        /\ UNCHANGED <<amount_players, game_running, past>>
    BY <1>0, <1>3 DEF Register, StoreName, At, Goto, Main
  <2>2. /\ main.i \in Seats /\ players[main.i].socket = main.socket
        /\ players[main.i].socket # NoSocket
    BY <2>1 DEF SInv, Seated
  <2>3. Beyond /\ \A i \in Seats : HasSocket(i) /\ HasName(i)
    BY <2>1 DEF SInv, CleanBeyond, Registered
  <2>4. main.i \in Present
    BY <2>2, <2>3 DEF Beyond, Clean
  <2>5. /\ \A i \in Seats : players'[i].socket = players[i].socket
        /\ \A i \in Seats : i # main.i => players'[i] = players[i]
        /\ main'.pc = "answer" => players'[main.i].named
    BY <1>0, <2>1, <2>2 DEF Player
  <2>6. Seated'  BY <2>1, <2>2, <2>5 DEF SInv, Seated
  <2>7. CleanBeyond'  BY <2>1, <2>3, <2>4, <2>5 DEF CleanBeyond, Beyond, Present
  <2>8. Registered'  BY <2>1, <2>2, <2>3, <2>5 DEF Registered, HasSocket, HasName
  <2>9. Playing' = Playing  BY <2>5 DEF Playing
  <2>10. Hands'  BY <2>1, <2>9 DEF SInv, Hands, Removing, Dealt
  <2> QED  BY <2>6, <2>7, <2>8, <2>10 DEF SInv
<1>4. CASE Answer \/ AnswerInfo \/ Reply
  <2>1. /\ main.pc \in {"dispatch", "answer", "reply"} /\ main'.pc \in {"reply", "serve"}
        /\ main'.pc = "reply" => main'.i = main.i /\ main'.socket = main.socket
        /\ UNCHANGED <<players, amount_players, game_running>>
    BY <1>0, <1>4, LoopIndex DEF Answer, AnswerInfo, Reply, At, Goto, Main
  <2>2. past'.startedAt = past.startedAt /\ past'.nameless = past.nameless
    BY <1>4 DEF Answer, AnswerInfo, Reply, LInv, Types
  <2>3. Seated'  BY <2>1 DEF SInv, Seated
  <2>4. CleanBeyond'  BY <2>1 DEF SInv, CleanBeyond, Beyond, Present
  <2>5. Registered'  BY <2>1 DEF SInv, Registered, HasSocket, HasName
  <2>6. Playing' = Playing  BY <2>1 DEF Playing
  <2>7. Dealt' = Dealt \/ Dealt' = Dealt \cup {main.socket}
    <3>1. past'.hands = past.hands \/ past'.hands = Append(past.hands, main.socket)
      BY <1>4 DEF Answer, AnswerInfo, Reply, LInv, Types
    <3>2. ToSet(Append(past.hands, main.socket)) = ToSet(past.hands) \cup {main.socket}
      BY InQueue DEF Dealing
    <3> QED  BY <3>1, <3>2 DEF Dealt
  <2>8. Dealt' # Dealt => main.socket \in Playing
    <3>1. main.i \in Seats /\ players[main.i].socket = main.socket /\ main.socket # NoSocket
      BY <2>1 DEF SInv, Seated
    <3> QED  BY <3>1 DEF Playing
  <2>9. Hands'  BY <2>1, <2>2, <2>6, <2>7, <2>8 DEF SInv, Hands, Removing
  <2> QED  BY <2>3, <2>4, <2>5, <2>9 DEF SInv
<1> QED  BY <1>1, <1>2, <1>3, <1>4 DEF Handlers, add_player

\* An empty lobby is in order.
LEMMA ClearSInv ==
  ASSUME clear_lobby, main'.pc \in {"select", "serve"}
  PROVE  SInv'
<1>1. /\ players' = [i \in Seats |-> Clean] /\ amount_players' = 0 /\ game_running' = FALSE
  BY DEF clear_lobby
<1>2. \A i \in Seats : players'[i] = Clean /\ players'[i].is_registered = FALSE
  BY <1>1 DEF Clean
<1>3. Seated'  BY <1>1, LobbyAssumption DEF Seated
<1>4. CleanBeyond' /\ Registered'
  BY <1>1, <1>2 DEF CleanBeyond, Beyond, Registered, HasSocket, HasName
<1> QED  BY <1>1, <1>3, <1>4 DEF SInv, Hands

LEMMA RemovePlayerSInv == LInv /\ SInv /\ RemovePlayer => SInv'
<1> SUFFICES ASSUME LInv, SInv, RemovePlayer PROVE SInv'  OBVIOUS
<1>0. /\ main \in Main /\ players \in [Seats -> Player] /\ amount_players \in 0..MAX_PLAYERS
      /\ Present \subseteq Seats
  BY LobbyAssumption DEF LInv, Types, SInv, Seated, Seats, Present
<1>1. ASSUME NEW i \in Seats, Close(i) PROVE SInv'
  <2>1. /\ main.pc = "serve" /\ main'.pc = "zero" /\ main'.i = i /\ main'.j = i
        /\ i \in Present /\ UNCHANGED <<players, amount_players, game_running>>
    BY <1>0, <1>1 DEF Close, Serves, ToServe, At, Main
  <2>2. Seated'  BY <1>0, <2>1 DEF Seated, Present
  <2>3. CleanBeyond'  BY <2>1 DEF SInv, CleanBeyond, Beyond, Present
  <2>4. Registered'  BY <2>1 DEF SInv, Registered, HasSocket, HasName
  <2>5. Hands'  BY <2>1 DEF Hands, Removing
  <2> QED  BY <2>2, <2>3, <2>4, <2>5 DEF SInv
<1>2. CASE Zero \/ Reset
  <2>1. /\ main.pc \in {"zero", "reset"} /\ main'.i = main.i /\ main'.j = main.j
        /\ main'.pc = IF main.pc = "zero" THEN "reset" ELSE "shift"
        /\ players' = IF main.pc = "zero" THEN [players EXCEPT ![main.i].socket = NoSocket]
                                          ELSE [players EXCEPT ![main.i] = Clean]
        /\ UNCHANGED <<amount_players, game_running>>
    BY <1>0, <1>2 DEF Zero, Reset, At, Goto, Main
  <2>2. main.i \in Present /\ main.j \in Present  BY <2>1 DEF SInv, Seated
  <2>3. Beyond /\ \A i \in Seats : HasSocket(i) /\ HasName(i)
    BY <2>1 DEF SInv, CleanBeyond, Registered
  <2>4. /\ \A i \in Seats : i # main.i => players'[i] = players[i]
        /\ main.pc = "reset" => players'[main.i].is_registered = FALSE
        /\ main.pc = "zero" => /\ players'[main.i].is_registered = players[main.i].is_registered
                               /\ players'[main.i].named = players[main.i].named
    BY <1>0, <2>1, <2>2 DEF Clean, Player
  <2>5. Seated'  BY <1>0, <2>1, <2>2 DEF Seated, Present
  <2>6. CleanBeyond'
    <3>1. Beyond'  BY <2>1, <2>2, <2>3, <2>4 DEF Beyond, Present
    <3>2. main'.j # amount_players'  BY <1>0, <2>1, <2>2 DEF Present
    <3> QED  BY <3>1, <3>2 DEF CleanBeyond
  <2>7. Registered'
    <3>1. \A i \in Seats : HasSocket(i)' /\ HasName(i)'
      <4> TAKE i \in Seats
      <4>1. CASE i = main.i  BY <2>1, <2>3, <2>4, <4>1 DEF HasSocket, HasName
      <4>2. CASE i # main.i  BY <2>1, <2>3, <2>4, <4>2 DEF HasSocket, HasName
      <4> QED  BY <4>1, <4>2
    <3> QED  BY <3>1 DEF Registered
  <2>8. Hands'  BY <2>1 DEF Hands, Removing
  <2> QED  BY <2>5, <2>6, <2>7, <2>8 DEF SInv
<1>3. CASE Shift
  <2>1. /\ main.pc = "shift" /\ main'.pc = "shift" /\ main.j < amount_players
        /\ main'.j = main.j + 1
        /\ players' = [players EXCEPT ![main.j] = PlayerAt(main.j + 1)]
        /\ UNCHANGED <<amount_players, game_running>>
    BY <1>0, <1>3 DEF Shift, At, Main
  <2>2. main.j \in Present /\ main.j + 1 \in 1..amount_players
    BY <1>0, <2>1 DEF SInv, Seated, Present
  <2>3. Beyond  BY <2>1 DEF SInv, CleanBeyond
  <2>4. /\ \A i \in Seats : i # main.j => players'[i] = players[i]
        /\ players'[main.j] = PlayerAt(main.j + 1)
    BY <1>0, <2>1, <2>2
  <2>5. Seated'  BY <1>0, <2>1, <2>2 DEF Seated
  <2>6. CleanBeyond'
    <3>1. Beyond'  BY <2>1, <2>2, <2>3, <2>4 DEF Beyond, Present
    <3>2. ASSUME main.j + 1 = amount_players, ~game_running
          PROVE  players'[amount_players - 1] = Clean
      <4>1. PlayerAt(amount_players) = Clean
        <5>1. CASE amount_players \in Seats
          <6>1. amount_players \notin Present  BY <1>0 DEF Present
          <6> QED  BY <2>3, <5>1, <6>1 DEF PlayerAt, Beyond
        <5>2. CASE amount_players \notin Seats
          <6>1. game_running = FALSE  BY <3>2 DEF LInv, Types
          <6> QED  BY <5>2, <6>1 DEF PlayerAt, Clean
        <5> QED  BY <5>1, <5>2
      <4>2. amount_players - 1 = main.j  BY <1>0, <2>2, <3>2 DEF Present
      <4> QED  BY <2>4, <3>2, <4>1, <4>2
    <3> QED  BY <2>1, <3>1, <3>2 DEF CleanBeyond
  <2>7. Registered'
    <3>1. CASE game_running  BY <2>1, <3>1 DEF Registered
    <3>2. CASE ~game_running
      <4>1. \A i \in Seats : players[i].is_registered =>
              players[i].socket # NoSocket /\ players[i].named
        BY <2>1, <3>2 DEF SInv, Registered, HasSocket, HasName
      <4>2. PlayerAt(main.j + 1).is_registered =>
              PlayerAt(main.j + 1).socket # NoSocket /\ PlayerAt(main.j + 1).named
        BY <3>2, <4>1 DEF PlayerAt
      <4> QED  BY <2>1, <2>4, <4>1, <4>2 DEF Registered, HasSocket, HasName
    <3> QED  BY <3>1, <3>2
  <2>8. Hands'  BY <2>1 DEF Hands, Removing
  <2> QED  BY <2>5, <2>6, <2>7, <2>8 DEF SInv
<1>4. CASE Uncount
  <2>1. /\ main.pc = "shift" /\ main'.pc = "tell" /\ main.j = amount_players
        /\ amount_players' = amount_players - 1
        /\ UNCHANGED <<players, game_running>>
    BY <1>0, <1>4 DEF Uncount, At, Goto, Main
  <2>2. amount_players > 0  BY <2>1 DEF LInv, Counts
  <2>3. Seated'  BY <1>0, <2>1, <2>2, LobbyAssumption DEF Seated
  <2>4. CleanBeyond'
    <3>1. CASE game_running  BY <2>1, <3>1 DEF CleanBeyond
    <3>2. CASE ~game_running
      <4>1. Beyond /\ players[amount_players - 1] = Clean
        BY <2>1, <3>2 DEF SInv, CleanBeyond
      <4>2. Beyond'
        BY <1>0, <2>1, <4>1 DEF Beyond, Present, Seats
      <4> QED  BY <2>1, <4>2 DEF CleanBeyond
    <3> QED  BY <3>1, <3>2
  <2>5. Registered'  BY <2>1 DEF SInv, Registered, HasSocket, HasName
  <2>6. Hands'  BY <2>1 DEF Hands, Removing
  <2> QED  BY <2>3, <2>4, <2>5, <2>6 DEF SInv
<1>5. CASE WriteInfo \/ TellOthers \/ TestRunning
  <2>1. /\ main.pc \in {"tell", "broadcast", "running"}
        /\ main'.pc \in {"broadcast", "running"} \cup {IF game_running THEN "cancel" ELSE "serve"}
        /\ UNCHANGED <<players, amount_players, game_running>>
    BY <1>0, <1>5, LoopIndex DEF WriteInfo, TellOthers, TestRunning, At, Goto, Main
  <2>2. Seated'  BY <2>1 DEF SInv, Seated
  <2>3. CleanBeyond'  BY <2>1 DEF SInv, CleanBeyond, Beyond, Present
  <2>4. Registered'  BY <2>1 DEF SInv, Registered, HasSocket, HasName
  <2>5. Hands'  BY <2>1 DEF Hands, Removing
  <2> QED  BY <2>2, <2>3, <2>4, <2>5 DEF SInv
<1>6. CASE Cancel
  <2>1. clear_lobby /\ main'.pc = "serve"
    BY <1>0, <1>6, LoopIndex DEF Cancel
  <2> QED  BY <2>1, ClearSInv
<1> QED  BY <1>1, <1>2, <1>3, <1>4, <1>5, <1>6 DEF RemovePlayer

\* Those who have a seat when the alarm starts a game are those it deals to.
LEMMA AlarmHandlerSInv == LInv /\ SInv /\ AlarmHandler => SInv'
<1> SUFFICES ASSUME LInv, SInv, AlarmHandler PROVE SInv'  OBVIOUS
<1>0. /\ DOMAIN past = {"hands", "nameless", "startedAt", "lost", "unheard"}
      /\ players \in [Seats -> Player] /\ amount_players \in 0..MAX_PLAYERS
  BY DEF LInv, Types, SInv, Seated
<1>1. CASE AlarmRestarts
  <2>1. UNCHANGED <<players, amount_players, game_running, main, past.hands, past.nameless,
                   past.startedAt>>
    BY <1>0, <1>1 DEF AlarmRestarts, Spoilt
  <2>2. Playing' = Playing /\ Dealt' = Dealt  BY <2>1 DEF Playing, Dealt
  <2> QED
    BY <2>1, <2>2 DEF SInv, Seated, CleanBeyond, Beyond, Present, Registered, HasSocket, HasName,
                      Hands, Removing
<1>2. CASE AlarmStartsGame
  <2>1. /\ ~game_running /\ game_running' = TRUE /\ amount_players >= 2 /\ all_players_registered
        /\ UNCHANGED <<players, amount_players, main>>
    BY <1>2 DEF AlarmStartsGame
  <2>2. past'.startedAt = main.pc
    BY <1>0, <1>2 DEF AlarmStartsGame, Spoilt
  <2>3. past'.hands = [m \in 1..amount_players |-> players[m - 1].socket]
    BY <1>0, <1>2 DEF AlarmStartsGame, Spoilt, Everybody
  <2>4. Seated' /\ Registered'  BY <2>1 DEF SInv, Seated, Registered, HasSocket, HasName, Present
  <2>5. CleanBeyond'  BY <2>1 DEF SInv, CleanBeyond, Beyond, Present
  <2>6. ASSUME ~Removing PROVE Playing' = Dealt' /\ main.pc # "store"
    <3>1. Beyond /\ \A i \in Seats : HasSocket(i) /\ HasName(i)
      BY <2>1, <2>6 DEF SInv, CleanBeyond, Registered, Removing
    <3>2. \A i \in Present : i \in Seats /\ players[i].socket # NoSocket
      <4> TAKE i \in Present
      <4>1. i \in Seats  BY <1>0, LobbyAssumption DEF Present, Seats
      <4>2. players[i].is_registered  BY <2>1 DEF all_players_registered
      <4> QED  BY <2>6, <3>1, <4>1, <4>2 DEF HasSocket, HasName, Removing
    <3>3. \A i \in Seats \ Present : players[i].socket = NoSocket
      BY <3>1 DEF Beyond, Clean
    <3>4. Playing' = {players[i].socket : i \in Present}
      BY <2>1, <3>2, <3>3 DEF Playing
    <3>5. Dealt' = {players[m - 1].socket : m \in 1..amount_players}
      BY <2>3 DEF Dealt, ToSet
    <3>6. Present = {m - 1 : m \in 1..amount_players}
      BY <1>0 DEF Present
    <3>7. main.pc # "store"
      <4> SUFFICES ASSUME main.pc = "store" PROVE FALSE  OBVIOUS
      <4>1. amount_players - 1 \in Present  BY <1>0, <2>1 DEF Present
      <4>2. players[amount_players - 1] = Clean  BY DEF SInv, Seated
      <4> QED  BY <2>1, <4>1, <4>2 DEF all_players_registered, Clean
    <3> QED  BY <3>4, <3>5, <3>6, <3>7
  <2>7. ASSUME ~Removing PROVE past'.nameless = {} \/ main.pc = "name"
    <3>1. past'.nameless = {players[i].socket : i \in {j \in Present : ~players[j].named}}
      BY <1>0, <1>2 DEF AlarmStartsGame, Spoilt
    <3>2. \A i \in Present : i \in Seats /\ players[i].is_registered
      BY <1>0, <2>1, LobbyAssumption DEF Present, Seats, all_players_registered
    <3>3. \A i \in Seats : HasName(i)
      BY <2>1, <2>7 DEF SInv, Registered, Removing
    <3> QED  BY <3>1, <3>2, <3>3 DEF HasName
  <2>8. Hands'  BY <2>1, <2>2, <2>6, <2>7 DEF Hands, Removing
  <2> QED  BY <2>4, <2>5, <2>8 DEF SInv
<1> QED  BY <1>1, <1>2 DEF AlarmHandler

\* Whoever is in the array can be dealt to.
LEMMA EverybodyIsSockets ==
  ASSUME LInv, SInv
  PROVE  Everybody \in Seq(Sockets \cup {NoSocket})
<1>1. amount_players \in Nat /\ amount_players <= MAX_PLAYERS /\ MAX_PLAYERS \in Nat
  BY LobbyAssumption DEF SInv, Seated
<1>2. \A n \in 1..amount_players : players[n - 1].socket \in Sockets \cup {NoSocket}
  BY <1>1 DEF LInv, Types, Player, Seats
<1> QED  BY <1>1, <1>2 DEF Everybody

LEMMA DealingNext == LInv /\ SInv /\ Dealing /\ [Next]_vars => Dealing'
<1> SUFFICES ASSUME LInv, SInv, Dealing, [Next]_vars PROVE Dealing'  OBVIOUS
<1>1. DOMAIN past = {"hands", "nameless", "startedAt", "lost", "unheard"}  BY DEF LInv, Types
<1>2. CASE EndGame \/ Cancel
  <2>1. past'.hands = <<>>  BY <1>1, <1>2 DEF EndGame, Cancel, clear_lobby
  <2> QED  BY <2>1 DEF Dealing
<1>3. CASE AlarmStartsGame
  <2>1. past'.hands = Everybody  BY <1>1, <1>3 DEF AlarmStartsGame, Spoilt
  <2> QED  BY <2>1, EverybodyIsSockets DEF Dealing
<1>4. CASE Reply
  <2>1. past'.hands \in {past.hands, Append(past.hands, main.socket)}  BY <1>1, <1>4 DEF Reply
  <2>2. main.socket \in Sockets \cup {NoSocket}  BY DEF LInv, Types, Main
  <2> QED  BY <2>1, <2>2 DEF Dealing
<1>5. CASE TellOthers
  <2>1. past'.hands \in {past.hands, past.hands \o Everybody}  BY <1>1, <1>5 DEF TellOthers
  <2>2. ASSUME NEW S, NEW a \in Seq(S), NEW b \in Seq(S) PROVE a \o b \in Seq(S)  OBVIOUS
  <2>3. past.hands \o Everybody \in Seq(Sockets \cup {NoSocket})
    BY <2>2, EverybodyIsSockets DEF Dealing
  <2> QED  BY <2>1, <2>3 DEF Dealing
<1>6. CASE AlarmRestarts \/ \E i \in Seats : Close(i)
  <2>1. past'.hands = past.hands  BY <1>1, <1>6 DEF AlarmRestarts, Spoilt, Close
  <2> QED  BY <2>1 DEF Dealing
<1>7. CASE \/ UNCHANGED vars \/ Select \/ AddClient \/ (\E i \in Seats : Receive(i)) \/ add_player
           \/ AnswerInfo \/ CountScore \/ WildCall \/ EndOfLoop
           \/ Zero \/ Reset \/ Shift \/ Uncount \/ WriteInfo \/ TestRunning
           \/ \E k \in Sockets : Connect(k) \/ SignUp(k) \/ Ask(k) \/ Leave(k)
  <2>1. past' = past
    BY <1>7 DEF vars, Select, AddClient, TestLobby, WriteRefuse, TurnDown, Count, Store, SetAlarm,
                WriteOk, Greet, Receive, add_player, Register, StoreName, Answer, AnswerInfo,
                CountScore, WildCall, EndOfLoop, Zero, Reset, Shift, Uncount, WriteInfo, TestRunning,
                Connect, SignUp, Ask, Leave
  <2> QED  BY <2>1 DEF Dealing
<1> QED
  BY <1>2, <1>3, <1>4, <1>5, <1>6, <1>7 DEF Next, MainStep, RemovePlayer, AlarmHandler

LEMMA SeatsInvariance == Spec => [](SInv /\ Dealing)
<1>1. LInv /\ SInv /\ Dealing /\ [Next]_vars => SInv'
  <2> SUFFICES ASSUME LInv, SInv, Dealing, [Next]_vars PROVE SInv'  OBVIOUS
  <2>1. CASE UNCHANGED vars \/ \E k \in Sockets : Connect(k) \/ SignUp(k) \/ Ask(k) \/ Leave(k)
    <3>1. UNCHANGED <<players, amount_players, game_running, main, past>>
      BY <2>1 DEF vars, serverVars, Connect, SignUp, Ask, Leave
    <3>2. Playing' = Playing /\ Dealt' = Dealt  BY <3>1 DEF Playing, Dealt
    <3> QED
      BY <3>1, <3>2 DEF SInv, Seated, CleanBeyond, Beyond, Present, Registered, HasSocket, HasName,
                        Hands, Removing
  <2>2. CASE EndGame
    <3>1. clear_lobby /\ main'.pc = "select"  BY <2>2 DEF EndGame, At
    <3> QED  BY <3>1, ClearSInv
  <2>3. CASE MainStep
    BY <2>3, AddClientSInv, ServeSInv, RemovePlayerSInv DEF MainStep, Handlers
  <2> QED  BY <2>1, <2>2, <2>3, AlarmHandlerSInv DEF Next
<1>2. Init => Dealing  BY DEF Init, Dealing
<1> QED  BY <1>1, <1>2, InitSInv, DealingNext, Invariance, PTL DEF Spec

-----------------------------------------------------------------------------

\* Whoever has a seat while a game runs was dealt a hand, for any number of
\* clients that come and go and with the alarm on any line but one.
THEOREM NobodyJoinsAGameThm == Spec => []NobodyJoinsAGame
<1>1. SInv => NobodyJoinsAGame  BY DEF SInv, Hands, NobodyJoinsAGame
<1> QED  BY <1>1, SeatsInvariance, PTL

\* Whoever left the lobby before, and on whatever line the alarm comes but one, a
\* game knows the names of its players.
THEOREM EveryPlayerHasItsNameThm == Spec => []EveryPlayerHasItsName
<1>1. SInv => EveryPlayerHasItsName  BY DEF SInv, Hands, EveryPlayerHasItsName
<1> QED  BY <1>1, SeatsInvariance, PTL

-----------------------------------------------------------------------------
(* The greeting.                                                           *)

\* The client that add_client is about to greet sits on the last seat, where every
\* broadcast of the alarm finds it: if it still waits for its greeting, the alarm has
\* not come since line 137, and the code of mess is the one that line 140 has stored.
WInv == /\ conn \in [Sockets -> ConnStates]
        /\ SeatHolderWasWelcomed
        /\ main.pc \in {"set_alarm", "ok", "greet"} =>
             amount_players > 0 /\ players[amount_players - 1].socket = main.socket
        /\ At("greet") /\ main.socket \in Sockets /\ conn[main.socket] = "greeting" => code = "OK"

\* Most lines greet nobody.
LEMMA StepWInv ==
  ASSUME WInv, conn' \in [Sockets -> ConnStates],
         \A k \in Sockets : conn'[k] = "unheard" => k \in past'.unheard,
         main'.pc \notin {"set_alarm", "ok", "greet"}
  PROVE  WInv'
  BY DEF WInv, SeatHolderWasWelcomed, At

LEMMA InitWInv == Init => WInv
  BY DEF Init, WInv, SeatHolderWasWelcomed, ConnStates, At

\* What the broadcast of the alarm does to the clients.
LEMMA AlarmIsHeard ==
  ASSUME LInv, conn \in [Sockets -> ConnStates], AlarmHandler
  PROVE  /\ conn' \in [Sockets -> ConnStates]
         /\ UNCHANGED <<players, amount_players, main, toServer>>
         /\ \A k \in Sockets : conn'[k] = IF k \in Ungreeted THEN "unheard" ELSE conn[k]
         /\ past'.unheard = past.unheard \cup Ungreeted
<1>1. UNCHANGED <<players, amount_players, main, toServer>> /\ NotGreeted
  BY DEF AlarmHandler, AlarmRestarts, AlarmStartsGame
<1>2. DOMAIN past = {"hands", "nameless", "startedAt", "lost", "unheard"}  BY DEF LInv, Types
<1>3. past'.unheard = Spoilt.unheard
  BY <1>2 DEF AlarmHandler, AlarmRestarts, AlarmStartsGame, Spoilt
<1>4. Spoilt.unheard = past.unheard \cup Ungreeted  BY <1>2 DEF Spoilt
<1> QED  BY <1>1, <1>3, <1>4 DEF NotGreeted, ConnStates

\* A client that was not welcomed has the alarm to blame.
LEMMA NextWInv == LInv /\ SInv /\ WInv /\ [Next]_vars => WInv'
<1> SUFFICES ASSUME LInv, SInv, WInv, [Next]_vars PROVE WInv'  OBVIOUS
<1>0. /\ main \in Main /\ conn \in [Sockets -> ConnStates]
      /\ DOMAIN past = {"hands", "nameless", "startedAt", "lost", "unheard"}
      /\ \A k \in Sockets : conn[k] = "unheard" => k \in past.unheard
  BY DEF LInv, Types, WInv, SeatHolderWasWelcomed
<1>1. CASE UNCHANGED vars
  BY <1>1 DEF vars, serverVars, WInv, SeatHolderWasWelcomed, At
<1>2. ASSUME NEW k \in Sockets, Connect(k) \/ SignUp(k) \/ Ask(k) \/ Leave(k) PROVE WInv'
  <2>1. UNCHANGED <<players, amount_players, main, code, past>>
    BY <1>2 DEF Connect, SignUp, Ask, Leave, serverVars
  <2>2. conn' = conn \/ \E new \in ConnStates \ {"unheard", "greeting"} :
                           conn' = [conn EXCEPT ![k] = new]
    BY <1>2 DEF Connect, SignUp, Ask, Leave, ConnStates
  <2>3. /\ conn' \in [Sockets -> ConnStates]
        /\ \A q \in Sockets : conn'[q] \in {"unheard", "greeting"} => conn'[q] = conn[q]
    BY <1>0, <2>2
  <2> QED  BY <2>1, <2>3 DEF WInv, SeatHolderWasWelcomed, At
<1>3. CASE \/ Select \/ TestLobby \/ WriteRefuse \/ Count \/ (\E i \in Seats : Receive(i))
           \/ Handlers \/ EndOfLoop
           \/ Zero \/ Reset \/ Shift \/ Uncount \/ WriteInfo \/ TellOthers \/ TestRunning
  <2>1. conn' = conn
    BY <1>3 DEF Select, TestLobby, WriteRefuse, Count, Receive, Handlers, add_player, Register,
                StoreName, Answer, AnswerInfo, Reply, CountScore, WildCall, EndOfLoop,
                Zero, Reset, Shift, Uncount, WriteInfo, TellOthers, TestRunning
  <2>2. past'.unheard = past.unheard
    <3>1. CASE Reply \/ TellOthers  BY <1>0, <3>1 DEF Reply, TellOthers
    <3>2. CASE \/ Select \/ TestLobby \/ WriteRefuse \/ Count \/ (\E i \in Seats : Receive(i))
               \/ add_player \/ AnswerInfo \/ CountScore \/ WildCall \/ EndOfLoop
               \/ Zero \/ Reset \/ Shift \/ Uncount \/ WriteInfo \/ TestRunning
      BY <3>2 DEF Select, TestLobby, WriteRefuse, Count, Receive, add_player, Register,
                  StoreName, Answer, AnswerInfo, CountScore, WildCall, EndOfLoop,
                  Zero, Reset, Shift, Uncount, WriteInfo, TestRunning
    <3> QED  BY <1>3, <3>1, <3>2 DEF Handlers
  <2>3. main'.pc \notin {"set_alarm", "ok", "greet"}
    <3>1. CASE Reply \/ CountScore \/ EndOfLoop
      BY <1>0, <3>1, LoopIndex DEF Reply, CountScore, EndOfLoop, Main
    <3>2. CASE \/ Select \/ TestLobby \/ WriteRefuse \/ Count \/ add_player \/ AnswerInfo \/ WildCall
      BY <1>0, <3>2 DEF Select, TestLobby, WriteRefuse, Count, add_player, Register, StoreName, Answer,
                        AnswerInfo, WildCall, Goto, Main
    <3>3. ASSUME NEW i \in Seats, Receive(i) PROVE main'.pc = "dispatch"
      BY <1>0, <3>3 DEF Receive, Main
    <3>4. CASE Zero \/ Reset \/ Shift \/ Uncount \/ WriteInfo \/ TellOthers \/ TestRunning
      BY <1>0, <3>4, LoopIndex
      DEF Zero, Reset, Shift, Uncount, WriteInfo, TellOthers, TestRunning, At, Goto, Main
    <3> QED  BY <1>3, <3>1, <3>2, <3>3, <3>4 DEF Handlers
  <2> QED  BY <1>0, <2>1, <2>2, <2>3, StepWInv
<1>4. CASE TurnDown
  <2>1. past' = past /\ main'.pc = "serve" /\ conn' = [conn EXCEPT ![main.socket] = "none"]
    BY <1>0, <1>4, LoopIndex DEF TurnDown
  <2> QED  BY <1>0, <2>1, StepWInv DEF ConnStates
<1>5. CASE Store
  <2>1. /\ past' = past /\ main'.pc = "set_alarm" /\ main'.socket = main.socket /\ main.pc = "store"
        /\ conn' = [conn EXCEPT ![main.socket] = IF @ = "backlog" THEN "greeting" ELSE @]
        /\ players' = [players EXCEPT ![amount_players - 1].socket = main.socket]
        /\ amount_players' = amount_players
    BY <1>0, <1>5 DEF Store, At, Goto, Main
  <2>2. /\ conn' \in [Sockets -> ConnStates]
        /\ \A k \in Sockets : conn'[k] = "unheard" => conn[k] = "unheard"
    BY <1>0, <2>1 DEF ConnStates
  <2>3. amount_players > 0 /\ amount_players - 1 \in Seats
    BY <2>1, LobbyAssumption DEF SInv, Seated, Seats
  <2>4. players'[amount_players - 1].socket = main.socket
    BY <2>1, <2>3 DEF LInv, Types, Player
  <2> QED  BY <1>0, <2>1, <2>2, <2>3, <2>4 DEF WInv, SeatHolderWasWelcomed, At
<1>6. CASE SetAlarm \/ WriteOk
  <2>1. /\ main.pc \in {"set_alarm", "ok"} /\ main'.socket = main.socket
        /\ main'.pc = "ok" \/ (main'.pc = "greet" /\ code' = "OK")
        /\ UNCHANGED <<players, amount_players, conn, past>>
    BY <1>0, <1>6 DEF SetAlarm, WriteOk, At, Goto, Main
  <2> QED  BY <2>1 DEF WInv, SeatHolderWasWelcomed, At
<1>7. CASE Greet
  <2>1. /\ past' = past /\ main'.pc = "serve" /\ At("greet")
        /\ conn' = [conn EXCEPT ![main.socket] =
                      IF @ # "greeting" THEN @ ELSE IF code = "OK" THEN "welcome" ELSE "unheard"]
    BY <1>0, <1>7, LoopIndex DEF Greet
  <2>2. conn' \in [Sockets -> ConnStates]
    BY <1>0, <2>1 DEF ConnStates
  <2>3. \A k \in Sockets : conn'[k] = "unheard" => conn[k] = "unheard"
    BY <1>0, <2>1 DEF WInv
  <2> QED  BY <1>0, <2>1, <2>2, <2>3, StepWInv
<1>8. ASSUME NEW i \in Seats, Close(i) PROVE WInv'
  <2>1. PICK k : k = players[i].socket  OBVIOUS
  <2>2. /\ conn' = [conn EXCEPT ![k] = "none"] /\ past'.unheard = past.unheard \ {k}
        /\ main'.pc = "zero"
    BY <1>0, <1>8, <2>1 DEF Close, Main
  <2> QED  BY <1>0, <2>2, StepWInv DEF ConnStates
<1>9. CASE EndGame \/ Cancel
  <2>1. clear_lobby /\ main'.pc \in {"select", "serve"}
    BY <1>0, <1>9, LoopIndex DEF EndGame, Cancel, At
  <2>2. PICK closed : /\ conn' = [k \in Sockets |-> IF k \in closed THEN "none" ELSE conn[k]]
                      /\ past'.unheard = past.unheard \ closed
    BY <1>0, <2>1 DEF clear_lobby
  <2> QED  BY <1>0, <2>1, <2>2, StepWInv DEF ConnStates
<1>10. CASE AlarmHandler
  <2>1. /\ conn' \in [Sockets -> ConnStates]
        /\ UNCHANGED <<players, amount_players, main>>
        /\ \A k \in Sockets : conn'[k] = IF k \in Ungreeted THEN "unheard" ELSE conn[k]
        /\ past'.unheard = past.unheard \cup Ungreeted
    BY <1>0, <1>10, AlarmIsHeard
  <2>2. ASSUME At("greet"), main.socket \in Sockets, conn[main.socket] = "greeting"
        PROVE  main.socket \in Ungreeted
    <3>1. amount_players > 0 /\ players[amount_players - 1].socket = main.socket
      BY <2>2 DEF WInv, At
    <3>2. amount_players \in 1..amount_players  BY <3>1 DEF LInv, Types
    <3>3. DOMAIN Everybody = 1..amount_players /\ Everybody[amount_players] = main.socket
      BY <3>1, <3>2 DEF Everybody
    <3>4. main.socket \in ToSet(Everybody)  BY <3>2, <3>3 DEF ToSet
    <3> QED  BY <2>2, <3>4 DEF Ungreeted
  <2> QED  BY <1>0, <2>1, <2>2 DEF WInv, SeatHolderWasWelcomed, At
<1> QED
  BY <1>1, <1>2, <1>3, <1>4, <1>5, <1>6, <1>7, <1>8, <1>9, <1>10
  DEF Next, MainStep, AddClient, RemovePlayer, Handlers

LEMMA Welcomes == Spec => []WInv
<1> QED  BY InitWInv, NextWInv, Invariance, SeatsInvariance, PTL DEF Spec

\* Whoever holds a seat without knowing had the alarm's message before its greeting.
THEOREM SeatHolderWasWelcomedThm == Spec => []SeatHolderWasWelcomed
<1>1. WInv => SeatHolderWasWelcomed  BY DEF WInv
<1> QED  BY <1>1, Welcomes, PTL

-----------------------------------------------------------------------------
(* Who holds which seat.                                                   *)

\* Counted by amount_players, but not yet taken, or no longer: the seat that
\* add_client is about to store a socket in, and the one that the shift of
\* remove_player has not yet closed.
Hole == CASE main.pc = "store" -> amount_players - 1
          [] main.pc = "reset" -> main.i
          [] main.pc = "shift" -> IF main.j < amount_players THEN main.j ELSE amount_players - 1
          [] OTHER -> -1
Held == Present \ {Hole}

Indices ==
  /\ main.i \in 0..MAX_PLAYERS /\ main.j \in 0..MAX_PLAYERS
  /\ Removing \/ main.pc \in {"dispatch", "name", "answer", "reply"} => main.i \in Seats
  /\ main.pc \in {"zero", "reset"} => main.j = main.i
  /\ main.pc = "dispatch" => main.i \in Present /\ players[main.i].socket = main.socket

\* Every seat that is held is held by a connection, and by one of its own; what
\* add_client is about to seat has no seat.
Occupied == \A i \in Held : /\ players[i].socket # NoSocket
                            /\ \A j \in Held : players[i].socket = players[j].socket => i = j
Accepted == main.pc \in {"test", "refuse", "count", "store"} =>
              main.socket \in Sockets \ Playing /\ conn[main.socket] \in {"backlog", "gone"}

\* Where the sign-up of a client that has typed its name is.
SignedUp(i) ==
  conn[players[i].socket] = "member" =>
    \/ players[i].is_registered
    \/ "ADD_PLAYER" \in ToSet(toServer[players[i].socket])
    \/ main.pc = "dispatch" /\ code = "ADD_PLAYER" /\ main.i = i
    \/ players[i].socket \in past.lost

OInv == Indices /\ Occupied /\ Accepted /\ \A i \in Held : SignedUp(i)

NoHole == Labels \ {"store", "reset", "shift"}

\* What the earlier invariants say, for use below.
LEMMA Context ==
  ASSUME LInv, SInv, WInv
  PROVE  /\ main \in Main /\ players \in [Seats -> Player] /\ amount_players \in 0..MAX_PLAYERS
         /\ Present \subseteq Seats /\ conn \in [Sockets -> ConnStates]
         /\ toServer \in [Sockets -> Seq(FromUsers)]
         /\ DOMAIN past = {"hands", "nameless", "startedAt", "lost", "unheard"}
         /\ MAX_PLAYERS \in Nat /\ MAX_PLAYERS >= 2 /\ NoSocket \notin Sockets
  BY LobbyAssumption DEF LInv, Types, SInv, Seated, WInv, Present, Seats

LEMMA NobodyMissing ==
  ASSUME main.pc \in NoHole
  PROVE  Held = Present
<1>1. Hole = -1  BY DEF Hole, NoHole
<1> QED  BY <1>1 DEF Held, Present

LEMMA NobodyMissingNext ==
  ASSUME main'.pc \in NoHole
  PROVE  Held' = Present'
<1>1. Hole' = -1  BY DEF Hole, NoHole
<1> QED  BY <1>1 DEF Held, Present

LEMMA HeldSocket ==
  ASSUME LInv, SInv, WInv, OInv, NEW i \in Held
  PROVE  i \in Seats /\ players[i].socket \in Sockets
<1>1. i \in Seats  BY Context DEF Held
<1>2. players[i].socket \in Sockets \cup {NoSocket}  BY <1>1, Context DEF Player
<1> QED  BY <1>1, <1>2 DEF OInv, Occupied

\* Lines that move nobody.
LEMMA StillOInv ==
  ASSUME OInv, UNCHANGED <<players, amount_players>>,
         main.pc \in NoHole, main'.pc \in NoHole, Indices', Accepted',
         \A i \in Present : SignedUp(i)'
  PROVE  OInv'
<1>1. Held = Present /\ Held' = Present  BY NobodyMissing, NobodyMissingNext DEF Present
<1>2. Occupied'  BY <1>1 DEF OInv, Occupied
<1> QED  BY <1>1, <1>2 DEF OInv

\* Lines that do not touch what a client has sent.
LEMMA SignUpStays ==
  ASSUME UNCHANGED <<players, conn, toServer, past.lost>>,
         main.pc # "dispatch" \/ code # "ADD_PLAYER",
         NEW i, SignedUp(i)
  PROVE  SignedUp(i)'
  BY DEF SignedUp

LEMMA InitOInv == Init => OInv
<1> SUFFICES ASSUME Init PROVE OInv  OBVIOUS
<1>1. main.pc = "select" /\ main.i = 0 /\ main.j = 0 /\ amount_players = 0  BY DEF Init
<1>2. Present = {}  BY <1>1 DEF Present
<1>3. Indices  BY <1>1, LobbyAssumption DEF Indices, Removing
<1> QED  BY <1>1, <1>2, <1>3 DEF OInv, Occupied, Accepted, Held

\* What the clients do.
LEMMA ClientsOInv ==
  ASSUME LInv, SInv, WInv, OInv, NEW k \in Sockets, Connect(k) \/ SignUp(k) \/ Ask(k) \/ Leave(k)
  PROVE  OInv'
<1>1. UNCHANGED <<players, amount_players, main, code, past>>
  BY DEF Connect, SignUp, Ask, Leave, serverVars
<1>2. Held' = Held  BY <1>1 DEF Held, Hole, Present
<1>3. Indices' /\ Occupied'  BY <1>1, <1>2 DEF OInv, Indices, Occupied, Removing, Present
<1>4. Accepted'
  <2>1. Playing' = Playing  BY <1>1 DEF Playing
  <2>2. \A q \in Sockets : conn[q] \in {"backlog", "gone"} => conn'[q] \in {"backlog", "gone"}
    BY Context DEF Connect, SignUp, Ask, Leave
  <2> QED  BY <1>1, <2>1, <2>2 DEF OInv, Accepted
<1>5. ASSUME NEW i \in Held PROVE SignedUp(i)'
  <2>1. PICK q \in Sockets : q = players[i].socket  BY HeldSocket
  <2>2. SignedUp(i)  BY DEF OInv
  <2>3. toServer[q] \in Seq(FromUsers) /\ toServer[k] \in Seq(FromUsers)  BY Context
  <2>4. CASE SignUp(k)
    <3>1. /\ conn' = [conn EXCEPT ![k] = "member"]
          /\ toServer' = [toServer EXCEPT ![k] = Append(@, "ADD_PLAYER")]
      BY <2>4 DEF SignUp
    <3>2. CASE q = k
      <4>1. toServer'[q] = Append(toServer[q], "ADD_PLAYER")  BY <3>1, <3>2, Context
      <4>2. "ADD_PLAYER" \in ToSet(toServer'[q])
        <5>1. ToSet(Append(toServer[q], "ADD_PLAYER")) = ToSet(toServer[q]) \cup {"ADD_PLAYER"}
          BY <2>3, InQueue
        <5> QED  BY <4>1, <5>1
      <4> QED  BY <1>1, <2>1, <4>2 DEF SignedUp
    <3>3. CASE q # k
      <4>1. toServer'[q] = toServer[q] /\ conn'[q] = conn[q]  BY <3>1, <3>3, Context
      <4> QED  BY <1>1, <2>1, <2>2, <4>1 DEF SignedUp
    <3> QED  BY <3>2, <3>3
  <2>5. CASE Ask(k)
    <3>1. toServer[k] = <<>> /\ conn' = conn /\ \A r \in Sockets : r # k => toServer'[r] = toServer[r]
      BY <2>5, Context DEF Ask
    <3>2. ToSet(<<>>) = {}  BY DEF ToSet
    <3> QED  BY <1>1, <2>1, <2>2, <3>1, <3>2 DEF SignedUp
  <2>6. CASE Connect(k) \/ Leave(k)
    <3>1. toServer' = toServer /\ (conn'[q] = "member" => conn[q] = "member")
      BY <2>6, Context DEF Connect, Leave
    <3> QED  BY <1>1, <2>1, <2>2, <3>1 DEF SignedUp
  <2> QED  BY <2>4, <2>5, <2>6
<1> QED  BY <1>2, <1>3, <1>4, <1>5 DEF OInv

\* A place in the for loop.
LEMMA LoopPlaces ==
  ASSUME main \in Main, MAX_PLAYERS \in Nat
  PROVE  /\ ServeFirst.i = 0 /\ ServeFirst.j = main.j
         /\ NextPlayer.i = main.i + 1 /\ NextPlayer.j = 0
         /\ main.i \in Seats => main.i + 1 \in 0..MAX_PLAYERS
<1>1. ServeFirst.i = 0 /\ ServeFirst.j = main.j  BY DEF ServeFirst, Main
<1>2. NextPlayer.i = main.i + 1 /\ NextPlayer.j = 0  BY DEF NextPlayer, Main
<1>3. main.i \in Seats => main.i + 1 \in 0..MAX_PLAYERS  BY DEF Seats
<1> QED  BY <1>1, <1>2, <1>3

\* add_client.
LEMMA AddClientOInv == LInv /\ SInv /\ WInv /\ OInv /\ AddClient => OInv'
<1> SUFFICES ASSUME LInv, SInv, WInv, OInv, AddClient PROVE OInv'  OBVIOUS
<1>0. main \in Main /\ MAX_PLAYERS \in Nat  BY Context
<1>1. CASE TestLobby \/ WriteRefuse \/ SetAlarm \/ WriteOk
  <2>1. /\ main.pc \in {"test", "refuse", "set_alarm", "ok"}
        /\ main'.pc \in {"refuse", "turn_down", "count", "ok", "greet"}
        /\ main.pc # "test" => main'.pc \in {"turn_down", "ok", "greet"}
        /\ main'.i = main.i /\ main'.j = main.j /\ main'.socket = main.socket
        /\ UNCHANGED <<players, amount_players, conn, toServer, past>>
    BY <1>0, <1>1 DEF TestLobby, WriteRefuse, SetAlarm, WriteOk, At, Goto, Main
  <2>2. main.pc \in NoHole /\ main'.pc \in NoHole  BY <2>1 DEF NoHole, Labels
  <2>3. Playing' = Playing  BY <2>1 DEF Playing
  <2>4. Indices' /\ Accepted'
    BY <2>1, <2>3 DEF OInv, Indices, Accepted, Removing
  <2>5. \A i \in Present : SignedUp(i)'
    BY <2>1, <2>2, NobodyMissing, SignUpStays DEF OInv
  <2> QED  BY <2>1, <2>2, <2>4, <2>5, StillOInv
<1>2. CASE TurnDown \/ Greet
  <2>1. /\ main.pc \in {"turn_down", "greet"} /\ main'.pc = "serve" /\ main'.i = 0 /\ main'.j = main.j
        /\ UNCHANGED <<players, amount_players, toServer, past>>
    BY <1>0, <1>2, LoopIndex, LoopPlaces DEF TurnDown, Greet, At
  <2>2. main.pc \in NoHole /\ main'.pc \in NoHole  BY <2>1 DEF NoHole, Labels
  <2>3. Indices'
    <3>1. 0 \in 0..MAX_PLAYERS  BY <1>0
    <3> QED  BY <2>1, <3>1 DEF OInv, Indices, Removing
  <2>4. Accepted'  BY <2>1 DEF Accepted
  <2>5. \A q \in Sockets : conn'[q] = "member" => conn[q] = "member"
    BY <1>2, Context DEF TurnDown, Greet
  <2>6. \A i \in Present : SignedUp(i)'
    <3> TAKE i \in Present
    <3>1. i \in Held  BY <2>2, NobodyMissing
    <3>2. SignedUp(i) /\ players[i].socket \in Sockets  BY <3>1, HeldSocket DEF OInv
    <3> QED  BY <2>1, <2>5, <3>2 DEF SignedUp
  <2> QED  BY <2>1, <2>2, <2>3, <2>4, <2>6, StillOInv
<1>3. CASE Count
  <2>1. /\ main.pc = "count" /\ main'.pc = "store" /\ amount_players' = amount_players + 1
        /\ main'.i = main.i /\ main'.j = main.j /\ main'.socket = main.socket
        /\ UNCHANGED <<players, conn, toServer, past>>
    BY <1>0, <1>3 DEF Count, At, Goto, Main
  <2>2. Held' = Held
    <3>1. Held = Present  BY <2>1, NobodyMissing DEF NoHole, Labels
    <3>2. Hole' = amount_players  BY <2>1, Context DEF Hole
    <3>3. Present' = 0..amount_players  BY <2>1, Context DEF Present
    <3>4. Held' = (0..amount_players) \ {amount_players}  BY <3>2, <3>3 DEF Held
    <3>5. amount_players \in Nat  BY Context
    <3>6. (0..amount_players) \ {amount_players} = 0..(amount_players - 1)  BY <3>5
    <3> QED  BY <3>1, <3>4, <3>6 DEF Present
  <2>3. Playing' = Playing  BY <2>1 DEF Playing
  <2>4. Indices' /\ Accepted'
    BY <2>1, <2>3 DEF OInv, Indices, Accepted, Removing
  <2>5. Occupied'  BY <2>1, <2>2 DEF OInv, Occupied
  <2>6. \A i \in Held : SignedUp(i)'  BY <2>1, SignUpStays DEF OInv
  <2> QED  BY <2>2, <2>4, <2>5, <2>6 DEF OInv
<1>4. CASE Store
  <2>1. /\ main.pc = "store" /\ main'.pc = "set_alarm"
        /\ main'.i = main.i /\ main'.j = main.j
        /\ players' = [players EXCEPT ![amount_players - 1].socket = main.socket]
        /\ conn' = [conn EXCEPT ![main.socket] = IF @ = "backlog" THEN "greeting" ELSE @]
        /\ UNCHANGED <<amount_players, toServer, past>>
    BY <1>0, <1>4 DEF Store, At, Goto, Main
  <2>2. PICK new : new = amount_players - 1  OBVIOUS
  <2>3. /\ new \in Seats /\ new \in Present /\ Held = Present \ {new}
    <3>1. amount_players > 0  BY <2>1 DEF SInv, Seated
    <3>2. Hole = new  BY <2>1, <2>2 DEF Hole
    <3>3. new \in 0..(amount_players - 1)  BY <2>2, <3>1, Context
    <3> QED  BY <3>2, <3>3, Context DEF Held, Present
  <2>4. main.socket \in Sockets \ Playing /\ conn[main.socket] \in {"backlog", "gone"}
    BY <2>1 DEF OInv, Accepted
  <2>5. /\ players'[new].socket = main.socket
        /\ \A i \in Held : players'[i] = players[i]
    BY <2>1, <2>2, <2>3, Context DEF Player
  <2>6. Held' = Present
    <3>1. main'.pc \in NoHole  BY <2>1 DEF NoHole, Labels
    <3> QED  BY <2>1, <3>1, NobodyMissingNext DEF Present
  <2>7. \A i \in Held : players[i].socket \in Playing
    <3> TAKE i \in Held
    <3>1. i \in Seats /\ players[i].socket \in Sockets  BY HeldSocket
    <3> QED  BY <3>1, Context DEF Playing
  <2>8. Occupied'
    <3>1. main.socket # NoSocket  BY <2>4, Context
    <3>2. \A i \in Present : players'[i].socket # NoSocket
      BY <2>3, <2>5, <3>1 DEF OInv, Occupied
    <3>3. \A i, j \in Present : players'[i].socket = players'[j].socket => i = j
      <4> TAKE i, j \in Present
      <4>1. CASE i = new /\ j # new
        <5>1. players'[j].socket \in Playing  BY <2>3, <2>5, <2>7, <4>1
        <5> QED  BY <2>4, <2>5, <4>1, <5>1
      <4>2. CASE j = new /\ i # new
        <5>1. players'[i].socket \in Playing  BY <2>3, <2>5, <2>7, <4>2
        <5> QED  BY <2>4, <2>5, <4>2, <5>1
      <4>3. CASE i # new /\ j # new
        BY <2>3, <2>5, <4>3 DEF OInv, Occupied
      <4> QED  BY <4>1, <4>2, <4>3
    <3> QED  BY <2>6, <3>2, <3>3 DEF Occupied
  <2>9. Indices' /\ Accepted'
    BY <2>1 DEF OInv, Indices, Accepted, Removing
  <2>10. \A i \in Present : SignedUp(i)'
    <3> TAKE i \in Present
    <3>1. CASE i = new
      <4>1. conn'[main.socket] # "member"  BY <2>1, <2>4, Context
      <4> QED  BY <2>5, <3>1, <4>1 DEF SignedUp
    <3>2. CASE i # new
      <4>1. i \in Held /\ SignedUp(i) /\ players[i].socket \in Sockets
        BY <2>3, <3>2, HeldSocket DEF OInv
      <4>2. players[i].socket # main.socket  BY <2>4, <2>7, <4>1
      <4>3. conn'[players[i].socket] = conn[players[i].socket]  BY <2>1, <4>1, <4>2, Context
      <4>4. players'[i] = players[i]  BY <2>5, <4>1
      <4> QED  BY <2>1, <4>1, <4>3, <4>4 DEF SignedUp
    <3> QED  BY <3>1, <3>2
  <2> QED  BY <2>6, <2>8, <2>9, <2>10 DEF OInv
<1> QED  BY <1>1, <1>2, <1>3, <1>4 DEF AddClient

\* The receive: a sign-up goes from the socket to mess.
LEMMA ReceiveOInv ==
  ASSUME LInv, SInv, WInv, OInv, NEW i \in Seats, Receive(i)
  PROVE  OInv'
<1>0. main \in Main /\ MAX_PLAYERS \in Nat  BY Context
<1>1. PICK k : k = players[i].socket  OBVIOUS
<1>2. /\ main.pc = "serve" /\ i \in Present /\ toServer[k] # <<>>
      /\ code' = Head(toServer[k]) /\ toServer' = [toServer EXCEPT ![k] = Tail(@)]
      /\ main'.pc = "dispatch" /\ main'.i = i /\ main'.j = main.j
      /\ UNCHANGED <<players, amount_players, conn, past>> /\ main'.socket = k
  BY <1>0, <1>1 DEF Receive, Serves, ToServe, At, Main
<1>3. main.pc \in NoHole /\ main'.pc \in NoHole  BY <1>2 DEF NoHole, Labels
<1>4. Held = Present  BY <1>3, NobodyMissing
<1>5. k \in Sockets /\ toServer[k] \in Seq(FromUsers)
  BY <1>1, <1>2, <1>4, HeldSocket, Context
<1>6. Indices'
  <2>1. i \in 0..MAX_PLAYERS  BY <1>0 DEF Seats
  <2> QED  BY <1>1, <1>2, <2>1 DEF OInv, Indices, Removing, Present
<1>7. Accepted'  BY <1>2 DEF Accepted
<1>8. \A j \in Present : SignedUp(j)'
  <2> TAKE j \in Present
  <2>1. SignedUp(j) /\ players[j].socket \in Sockets  BY <1>4, HeldSocket DEF OInv
  <2>2. CASE j = i
    <3>1. ToSet(toServer[k]) = {Head(toServer[k])} \cup ToSet(Tail(toServer[k]))
      BY <1>2, <1>5, InQueue
    <3>2. toServer'[k] = Tail(toServer[k])  BY <1>2, <1>5, Context
    <3>3. "ADD_PLAYER" \in ToSet(toServer[k]) =>
            code' = "ADD_PLAYER" \/ "ADD_PLAYER" \in ToSet(toServer'[k])
      BY <1>2, <3>1, <3>2
    <3> QED  BY <1>1, <1>2, <2>1, <2>2, <3>3 DEF SignedUp
  <2>3. CASE j # i
    <3>1. players[j].socket # k  BY <1>1, <1>2, <1>4, <2>3 DEF OInv, Occupied
    <3>2. toServer'[players[j].socket] = toServer[players[j].socket]
      BY <1>2, <2>1, <3>1, Context
    <3> QED  BY <1>2, <2>1, <3>2 DEF SignedUp
  <2> QED  BY <2>2, <2>3
<1> QED  BY <1>2, <1>3, <1>6, <1>7, <1>8, StillOInv

\* select(), the handlers and the end of the loop.
LEMMA ServeOInv ==
  LInv /\ SInv /\ WInv /\ OInv /\ (Select \/ Handlers \/ EndOfLoop) => OInv'
<1> SUFFICES ASSUME LInv, SInv, WInv, OInv, Select \/ Handlers \/ EndOfLoop
             PROVE  OInv'
  OBVIOUS
<1>0. main \in Main /\ MAX_PLAYERS \in Nat  BY Context
<1>1. CASE Select
  <2>1. /\ main.pc = "select" /\ main'.pc \in {"test", "serve"} /\ main'.i = main.i /\ main'.j = main.j
        /\ main'.pc = "test" => main'.socket \in Accepting
        /\ UNCHANGED <<players, amount_players, conn, toServer, past>>
    BY <1>0, <1>1 DEF Select, At, Main
  <2>2. main.pc \in NoHole /\ main'.pc \in NoHole  BY <2>1 DEF NoHole, Labels
  <2>3. Playing' = Playing  BY <2>1 DEF Playing
  <2>4. Indices' /\ Accepted'
    BY <2>1, <2>3 DEF OInv, Indices, Accepted, Accepting, Removing
  <2>5. \A i \in Present : SignedUp(i)'
    BY <2>1, <2>2, NobodyMissing, SignUpStays DEF OInv
  <2> QED  BY <2>1, <2>2, <2>4, <2>5, StillOInv
<1>2. CASE Answer \/ AnswerInfo \/ Reply \/ CountScore \/ WildCall \/ EndOfLoop
  <2>1. /\ main.pc \in {"dispatch", "answer", "reply", "serve"}
        /\ main'.pc \in {"reply", "serve", "wild", "select"}
        /\ main.pc = "dispatch" => code # "ADD_PLAYER"
        /\ UNCHANGED <<players, amount_players, conn, toServer>>
    BY <1>0, <1>2, LoopIndex
    DEF Answer, AnswerInfo, Reply, CountScore, WildCall, EndOfLoop, At, Goto, Main
  <2>2. main.pc \in NoHole /\ main'.pc \in NoHole  BY <2>1 DEF NoHole, Labels
  <2>3. past'.lost = past.lost
    BY <1>2, Context DEF Answer, AnswerInfo, Reply, CountScore, WildCall, EndOfLoop
  <2>4. /\ main'.i \in 0..MAX_PLAYERS /\ main'.j \in 0..MAX_PLAYERS
        /\ main'.pc = "reply" => main'.i \in Seats
    <3>1. 0 \in 0..MAX_PLAYERS  BY <1>0
    <3>2. main.i \in 0..MAX_PLAYERS /\ main.j \in 0..MAX_PLAYERS
          /\ (main.pc \in {"dispatch", "answer", "reply"} => main.i \in Seats)
      BY DEF OInv, Indices
    <3>3. CASE Reply \/ CountScore
      <4>1. main.pc \in {"dispatch", "reply"} /\ main' = NextPlayer
        BY <3>3 DEF Reply, CountScore, At
      <4> QED  BY <1>0, <3>1, <3>2, <4>1, LoopPlaces, LoopIndex
    <3>4. CASE WildCall \/ EndOfLoop
      <4>1. main'.i \in {0, main.i} /\ main'.j = main.j /\ main'.pc # "reply"
        BY <1>0, <3>4 DEF WildCall, EndOfLoop, Goto, Main
      <4> QED  BY <3>1, <3>2, <4>1
    <3>5. CASE Answer \/ AnswerInfo
      <4>1. main'.i = main.i /\ main'.j = main.j /\ main.pc \in {"dispatch", "answer"}
        BY <1>0, <3>5 DEF Answer, AnswerInfo, At, Goto, Main
      <4> QED  BY <3>2, <4>1
    <3> QED  BY <1>2, <3>3, <3>4, <3>5
  <2>5. Indices' /\ Accepted'
    BY <2>1, <2>4 DEF Indices, Accepted, Removing
  <2>6. \A i \in Present : SignedUp(i)'
    BY <2>1, <2>2, <2>3, NobodyMissing, SignUpStays DEF OInv
  <2> QED  BY <2>1, <2>2, <2>5, <2>6, StillOInv
<1>3. CASE Register \/ StoreName
  <2>1. /\ main.pc \in {"dispatch", "name"} /\ main'.pc \in {"name", "answer"}
        /\ \/ /\ main.pc = "dispatch"
              /\ players' = [players EXCEPT ![main.i].is_registered = TRUE]
           \/ /\ main.pc = "name"
              /\ players' = [players EXCEPT ![main.i].named = TRUE]
        /\ main'.i = main.i /\ main'.j = main.j
        /\ UNCHANGED <<amount_players, conn, toServer, past>>
    BY <1>0, <1>3 DEF Register, StoreName, At, Goto, Main
  <2>2. main.pc \in NoHole /\ main'.pc \in NoHole  BY <2>1 DEF NoHole, Labels
  <2>3. main.i \in Seats /\ main.i \in 0..MAX_PLAYERS /\ main.j \in 0..MAX_PLAYERS
    BY <2>1 DEF OInv, Indices
  <2>4. Indices' /\ Accepted'
    BY <2>1, <2>3 DEF Indices, Accepted, Removing
  <2>5. \A i \in Seats : /\ players'[i].socket = players[i].socket
                         /\ players[i].is_registered => players'[i].is_registered
                         /\ main.pc = "dispatch" /\ i = main.i => players'[i].is_registered
    <3>0. players \in [Seats -> Player]  BY Context
    <3>1. CASE main.pc = "dispatch"
      <4>1. players' = [players EXCEPT ![main.i].is_registered = TRUE]  BY <2>1, <3>1
      <4> QED  BY <2>3, <3>0, <4>1 DEF Player
    <3>2. CASE main.pc = "name"
      <4>1. players' = [players EXCEPT ![main.i].named = TRUE]  BY <2>1, <3>2
      <4> QED  BY <2>3, <3>0, <3>2, <4>1 DEF Player
    <3> QED  BY <2>1, <3>1, <3>2
  <2>6. Held = Present /\ Held' = Present
    BY <2>1, <2>2, NobodyMissing, NobodyMissingNext DEF Present
  <2>7. \A i \in Present : i \in Seats  BY Context
  <2>8. Occupied'  BY <2>5, <2>6, <2>7 DEF OInv, Occupied
  <2>9. \A i \in Present : SignedUp(i)'
    <3> TAKE i \in Present
    <3>1. SignedUp(i)  BY <2>6 DEF OInv
    <3>2. i \in Seats  BY <2>7
    <3> QED  BY <2>1, <2>5, <3>1, <3>2 DEF SignedUp
  <2> QED  BY <2>4, <2>6, <2>8, <2>9 DEF OInv
<1> QED  BY <1>1, <1>2, <1>3 DEF Handlers, add_player

\* An empty lobby.
LEMMA ClearOInv ==
  ASSUME clear_lobby, Indices', main'.pc \in {"select", "serve"}
  PROVE  OInv'
<1>1. Present' = {}  BY DEF clear_lobby, Present
<1> QED  BY <1>1 DEF OInv, Held, Occupied, Accepted

\* remove_player: the seat that is not held moves behind the last player.
LEMMA RemovePlayerOInv == LInv /\ SInv /\ WInv /\ OInv /\ RemovePlayer => OInv'
<1> SUFFICES ASSUME LInv, SInv, WInv, OInv, RemovePlayer PROVE OInv'  OBVIOUS
<1>0. main \in Main /\ MAX_PLAYERS \in Nat  BY Context
<1>1. ASSUME NEW i \in Seats, Close(i) PROVE OInv'
  <2>1. PICK k : k = players[i].socket  OBVIOUS
  <2>2. /\ main.pc = "serve" /\ i \in Present /\ toServer[k] = <<>>
        /\ conn' = [conn EXCEPT ![k] = "none"] /\ past'.lost = past.lost \ {k}
        /\ main'.pc = "zero" /\ main'.i = i /\ main'.j = i
        /\ UNCHANGED <<players, amount_players, toServer>>
    BY <1>0, <1>1, <2>1, Context DEF Close, Serves, ToServe, At, Main
  <2>3. main.pc \in NoHole /\ main'.pc \in NoHole  BY <2>2 DEF NoHole, Labels
  <2>4. Held = Present  BY <2>3, NobodyMissing
  <2>5. Indices'
    <3>1. i \in 0..MAX_PLAYERS  BY <1>0 DEF Seats
    <3> QED  BY <2>2, <3>1 DEF Indices
  <2>6. Accepted'  BY <2>2 DEF Accepted
  <2>7. \A j \in Present : SignedUp(j)'
    <3> TAKE j \in Present
    <3>1. SignedUp(j) /\ players[j].socket \in Sockets  BY <2>4, HeldSocket DEF OInv
    <3>2. CASE j = i
      <4>1. conn'[k] = "none"  BY <2>1, <2>2, <3>1, <3>2, Context
      <4> QED  BY <2>1, <2>2, <3>2, <4>1 DEF SignedUp
    <3>3. CASE j # i
      <4>1. players[j].socket # k  BY <2>1, <2>2, <2>4, <3>3 DEF OInv, Occupied
      <4>2. conn'[players[j].socket] = conn[players[j].socket]  BY <2>2, <3>1, <4>1, Context
      <4> QED  BY <2>2, <3>1, <4>1, <4>2 DEF SignedUp
    <3> QED  BY <3>2, <3>3
  <2> QED  BY <2>2, <2>3, <2>5, <2>6, <2>7, StillOInv
<1>2. CASE Zero \/ Reset
  <2>1. /\ main.pc \in {"zero", "reset"} /\ main'.i = main.i /\ main'.j = main.j
        /\ main'.pc = IF main.pc = "zero" THEN "reset" ELSE "shift"
        /\ \A i \in Seats : i # main.i => players'[i] = players[i]
        /\ UNCHANGED <<amount_players, conn, toServer, past>>
    BY <1>0, <1>2, Context DEF Zero, Reset, At, Goto, Main
  <2>2. main.i \in Present /\ main.j = main.i
    BY <2>1 DEF SInv, Seated, OInv, Indices
  <2>3. Hole' = main.i
    <3>1. main'.pc = "shift" => main'.j < amount_players'
      BY <2>1, <2>2, Context DEF Present
    <3> QED  BY <2>1, <2>2, <3>1 DEF Hole
  <2>4. Held' = Present \ {main.i}  BY <2>1, <2>3 DEF Held, Present
  <2>5. \A i \in Held' : i \in Held /\ i \in Seats /\ players'[i] = players[i]
    <3>1. main.pc = "zero" => Held = Present  BY NobodyMissing DEF NoHole, Labels
    <3>2. main.pc = "reset" => Held = Present \ {main.i}  BY DEF Held, Hole
    <3> QED  BY <2>1, <2>4, <3>1, <3>2, Context
  <2>6. Occupied'  BY <2>5 DEF OInv, Occupied
  <2>7. Indices' /\ Accepted'  BY <2>1 DEF OInv, Indices, Accepted, Removing
  <2>8. \A i \in Held' : SignedUp(i)'  BY <2>1, <2>5 DEF OInv, SignedUp
  <2> QED  BY <2>6, <2>7, <2>8 DEF OInv
<1>3. CASE Shift
  <2>1. /\ main.pc = "shift" /\ main'.pc = "shift" /\ main.j < amount_players
        /\ main'.i = main.i /\ main'.j = main.j + 1
        /\ players' = [players EXCEPT ![main.j] = PlayerAt(main.j + 1)]
        /\ UNCHANGED <<amount_players, conn, toServer, past>>
    BY <1>0, <1>3 DEF Shift, At, Main
  <2>2. main.j \in Nat /\ main.j \in Seats /\ amount_players \in Nat /\ amount_players <= MAX_PLAYERS
    BY <1>0, <2>1, Context DEF SInv, Seated, Seats
  <2>3. Held = Present \ {main.j}  BY <2>1 DEF Held, Hole
  <2>4. Held' = Present \ {IF main.j + 1 < amount_players THEN main.j + 1 ELSE main.j}
    <3>1. Hole' = IF main.j + 1 < amount_players THEN main.j + 1 ELSE amount_players - 1
      BY <2>1 DEF Hole
    <3>2. main.j + 1 < amount_players \/ amount_players - 1 = main.j
      BY <2>1, <2>2
    <3> QED  BY <2>1, <3>1, <3>2 DEF Held, Present
  \* Who sits on i after the step sat on from[i] before.
  <2>5. PICK from : from = [i \in Present |-> IF i = main.j THEN main.j + 1 ELSE i]  OBVIOUS
  <2>6. \A i \in Held' : /\ i \in Present /\ from[i] \in Held
                         /\ players'[i] = players[from[i]]
    <3> TAKE i \in Held'
    <3>1. i \in Present /\ i \in Seats  BY <2>4, Context
    <3>2. CASE i = main.j
      <4>1. main.j + 1 < amount_players  BY <2>4, <3>2
      <4>2. main.j + 1 \in Present  BY <2>2, <4>1 DEF Present
      <4>3. main.j + 1 \in Seats /\ main.j + 1 # main.j  BY <2>2, <4>2, Context
      <4>4. players'[main.j] = players[main.j + 1]
        BY <2>1, <2>2, <4>3, Context DEF PlayerAt
      <4> QED  BY <2>3, <2>5, <3>1, <3>2, <4>2, <4>3, <4>4
    <3>3. CASE i # main.j
      <4>1. players'[i] = players[i]  BY <2>1, <3>1, <3>3, Context
      <4> QED  BY <2>3, <2>5, <3>1, <3>3, <4>1
    <3> QED  BY <3>2, <3>3
  <2>7. \A i, j \in Held' : from[i] = from[j] => i = j
    <3>1. \A i, j \in Present : from[i] = from[j] => i = j \/ main.j + 1 \in {i, j}
      BY <2>2, <2>5
    <3>2. main.j + 1 \in Held' => main.j \notin Held'
      <4>1. main.j + 1 \in Present => main.j + 1 < amount_players
        BY <2>2 DEF Present
      <4> QED  BY <2>2, <2>4, <4>1
    <3>3. \A i, j \in Held' : from[i] = from[j] /\ i # j => main.j \in {i, j} /\ main.j + 1 \in {i, j}
      BY <2>2, <2>5, <2>6, <3>1
    <3> QED  BY <3>2, <3>3
  <2>8. Occupied'
    <3> SUFFICES ASSUME NEW i \in Held'
                 PROVE  /\ players'[i].socket # NoSocket
                        /\ \A j \in Held' : players'[i].socket = players'[j].socket => i = j
      BY DEF Occupied
    <3>1. players'[i].socket # NoSocket  BY <2>6 DEF OInv, Occupied
    <3>2. ASSUME NEW j \in Held', players'[i].socket = players'[j].socket PROVE i = j
      <4>1. from[i] = from[j]  BY <2>6, <3>2 DEF OInv, Occupied
      <4> QED  BY <2>7, <4>1
    <3> QED  BY <3>1, <3>2
  <2>9. Indices' /\ Accepted'
    <3>1. main.j + 1 \in 0..MAX_PLAYERS  BY <1>0, <2>1, <2>2
    <3> QED  BY <2>1, <3>1 DEF OInv, Indices, Accepted, Removing
  <2>10. \A i \in Held' : SignedUp(i)'
    <3> TAKE i \in Held'
    <3>1. SignedUp(from[i])  BY <2>6 DEF OInv
    <3> QED  BY <2>1, <2>6, <3>1 DEF SignedUp
  <2> QED  BY <2>8, <2>9, <2>10 DEF OInv
<1>4. CASE Uncount
  <2>1. /\ main.pc = "shift" /\ main'.pc = "tell" /\ main.j = amount_players
        /\ amount_players' = amount_players - 1 /\ main'.i = main.i /\ main'.j = main.j
        /\ UNCHANGED <<players, conn, toServer, past>>
    BY <1>0, <1>4 DEF Uncount, At, Goto, Main
  <2>2. Held' = Held
    <3>1. Held = Present \ {amount_players - 1}  BY <2>1, Context DEF Held, Hole
    <3>2. Held' = Present'  BY <2>1, NobodyMissingNext DEF NoHole, Labels
    <3>3. amount_players \in Nat  BY Context
    <3>4. (0..(amount_players - 1)) \ {amount_players - 1} = 0..((amount_players - 1) - 1)
      BY <3>3
    <3> QED  BY <2>1, <3>1, <3>2, <3>4 DEF Present
  <2>3. Occupied'  BY <2>1, <2>2 DEF OInv, Occupied
  <2>4. Indices' /\ Accepted'  BY <2>1 DEF OInv, Indices, Accepted, Removing
  <2>5. \A i \in Held : SignedUp(i)'  BY <2>1, SignUpStays DEF OInv
  <2> QED  BY <2>2, <2>3, <2>4, <2>5 DEF OInv
<1>5. CASE WriteInfo \/ TellOthers \/ TestRunning
  <2>1. /\ main.pc \in {"tell", "broadcast", "running"}
        /\ main'.pc \in {"broadcast", "running", "cancel", "serve"}
        /\ main'.pc # "serve" => main'.i = main.i /\ main'.j = main.j
        /\ main'.pc = "serve" => main'.i = main.i + 1 /\ main'.j = 0
    <3>1. CASE WriteInfo \/ TellOthers
      BY <1>0, <3>1 DEF WriteInfo, TellOthers, At, Goto, Main
    <3>2. CASE TestRunning
      BY <1>0, <3>2, LoopIndex, LoopPlaces DEF TestRunning, At, Main
    <3> QED  BY <1>5, <3>1, <3>2
  <2>2. UNCHANGED <<players, amount_players, conn, toServer, past.lost>>
    BY <1>5, Context DEF WriteInfo, TellOthers, TestRunning
  <2>3. main.pc \in NoHole /\ main'.pc \in NoHole  BY <2>1 DEF NoHole, Labels
  <2>4. main.i \in Seats /\ main.i \in 0..MAX_PLAYERS /\ main.j \in 0..MAX_PLAYERS
    BY <2>1 DEF OInv, Indices, Removing
  <2>5. Indices' /\ Accepted'
    <3>1. main.i + 1 \in 0..MAX_PLAYERS /\ 0 \in 0..MAX_PLAYERS
      BY <1>0, <2>4 DEF Seats
    <3> QED  BY <2>1, <2>4, <3>1 DEF Indices, Accepted, Removing
  <2>6. \A i \in Present : SignedUp(i)'
    BY <2>1, <2>2, <2>3, NobodyMissing, SignUpStays DEF OInv
  <2> QED  BY <2>2, <2>3, <2>5, <2>6, StillOInv
<1>6. CASE Cancel
  <2>1. clear_lobby /\ main'.pc = "serve" /\ main'.i = main.i + 1 /\ main'.j = 0 /\ main.pc = "cancel"
    BY <1>0, <1>6, LoopIndex, LoopPlaces DEF Cancel, At
  <2>2. main.i + 1 \in 0..MAX_PLAYERS /\ 0 \in 0..MAX_PLAYERS
    BY <1>0, <2>1, LoopPlaces DEF OInv, Indices, Removing
  <2> QED  BY <2>1, <2>2, ClearOInv DEF Indices, Removing
<1> QED  BY <1>1, <1>2, <1>3, <1>4, <1>5, <1>6 DEF RemovePlayer

\* The alarm spoils what is in mess, and past records whose it was.
LEMMA AlarmHandlerOInv == LInv /\ SInv /\ WInv /\ OInv /\ AlarmHandler => OInv'
<1> SUFFICES ASSUME LInv, SInv, WInv, OInv, AlarmHandler PROVE OInv'  OBVIOUS
<1>1. /\ UNCHANGED <<players, amount_players, main, toServer>>
      /\ \A k \in Sockets : conn'[k] = IF k \in Ungreeted THEN "unheard" ELSE conn[k]
  BY AlarmIsHeard DEF WInv
<1>0. /\ \A k \in Sockets : conn'[k] = "member" => conn[k] = "member"
      /\ \A k \in Sockets : conn[k] \in {"backlog", "gone"} => conn'[k] = conn[k]
  BY <1>1 DEF Ungreeted
<1>2. /\ past.lost \subseteq past'.lost
      /\ main.pc = "dispatch" /\ code = "ADD_PLAYER" => main.socket \in past'.lost
  <2>1. past'.lost = Spoilt.lost
    BY Context DEF AlarmHandler, AlarmRestarts, AlarmStartsGame, Spoilt
  <2>2. Spoilt.lost = IF At("dispatch") /\ code = "ADD_PLAYER" THEN past.lost \cup {main.socket}
                                                              ELSE past.lost
    BY Context DEF Spoilt
  <2> QED  BY <2>1, <2>2 DEF At
<1>3. Held' = Held  BY <1>1 DEF Held, Hole, Present
<1>4. Playing' = Playing  BY <1>1 DEF Playing
<1>5. Indices' /\ Accepted' /\ Occupied'
  BY <1>0, <1>1, <1>3, <1>4 DEF OInv, Indices, Accepted, Occupied, Removing, Present
<1>6. \A i \in Held : SignedUp(i)'
  <2> TAKE i \in Held
  <2>1. SignedUp(i)  BY DEF OInv
  <2>2. main.pc = "dispatch" /\ main.i = i => players[i].socket = main.socket
    BY DEF OInv, Indices
  <2>3. players[i].socket \in Sockets  BY HeldSocket
  <2> QED  BY <1>0, <1>1, <1>2, <2>1, <2>2, <2>3 DEF SignedUp
<1> QED  BY <1>3, <1>5, <1>6 DEF OInv

LEMMA OrderInvariance == Spec => []OInv
<1>1. LInv /\ SInv /\ WInv /\ OInv /\ [Next]_vars => OInv'
  <2> SUFFICES ASSUME LInv, SInv, WInv, OInv, [Next]_vars PROVE OInv'  OBVIOUS
  <2>1. CASE UNCHANGED vars
    <3>1. UNCHANGED <<players, amount_players, main, conn, toServer, code, past>>
      BY <2>1 DEF vars, serverVars
    <3>2. Held' = Held /\ Playing' = Playing  BY <3>1 DEF Held, Hole, Present, Playing
    <3>3. Indices' /\ Accepted' /\ Occupied'
      BY <3>1, <3>2 DEF OInv, Indices, Accepted, Occupied, Removing, Present
    <3>4. \A i \in Held : SignedUp(i)'  BY <3>1 DEF OInv, SignedUp
    <3> QED  BY <3>2, <3>3, <3>4 DEF OInv
  <2>2. CASE EndGame
    <3>1. clear_lobby /\ main' = main /\ main.pc = "select"  BY <2>2 DEF EndGame, At
    <3>2. Indices'  BY <3>1 DEF OInv, Indices, Removing
    <3> QED  BY <3>1, <3>2, ClearOInv
  <2>3. CASE MainStep
    BY <2>3, AddClientOInv, ReceiveOInv, ServeOInv, RemovePlayerOInv DEF MainStep, Handlers
  <2> QED  BY <2>1, <2>2, <2>3, ClientsOInv, AlarmHandlerOInv DEF Next
<1> QED  BY <1>1, InitOInv, Invariance, SeatsInvariance, Welcomes, PTL DEF Spec

-----------------------------------------------------------------------------

\* Indices stay in the array, also those of the shift, and every client is
\* somewhere.
THEOREM TypeOKThm == Spec => []TypeOK
<1>1. LInv /\ SInv /\ WInv /\ OInv => TypeOK
  <2> SUFFICES ASSUME LInv, SInv, WInv, OInv PROVE TypeOK  OBVIOUS
  <2>1. /\ main.socket \in Sockets \cup {NoSocket} /\ main.ready \subseteq Sockets
    BY Context DEF Main
  <2>2. game_running \in BOOLEAN /\ alarm \in BOOLEAN  BY DEF LInv, Types
  <2>3. main.i \in 0..MAX_PLAYERS /\ main.j \in 0..MAX_PLAYERS  BY DEF OInv, Indices
  <2> QED  BY <2>1, <2>2, <2>3, Context DEF TypeOK, Player
<1> QED  BY <1>1, Invariance, SeatsInvariance, Welcomes, OrderInvariance, PTL

\* The seats are taken from the first on, each by another client, whoever left.
THEOREM SeatsInOrderThm == Spec => []SeatsInOrder
<1>1. LInv /\ SInv /\ WInv /\ OInv => SeatsInOrder
  <2> SUFFICES ASSUME LInv, SInv, WInv, OInv, ~Removing, ~At("store")
               PROVE  /\ \A i \in Present : players[i].socket # NoSocket
                      /\ \A i, j \in Present : players[i].socket = players[j].socket => i = j
                      /\ \A i \in Seats \ Present : players[i] = Clean
    BY DEF SeatsInOrder
  <2>1. main.pc \in NoHole  BY Context DEF NoHole, Removing, At, Main
  <2>2. Held = Present  BY <2>1, NobodyMissing
  <2> QED  BY <2>2 DEF OInv, Occupied, SInv, CleanBeyond, Beyond, Removing
<1> QED  BY <1>1, Invariance, SeatsInvariance, Welcomes, OrderInvariance, PTL

\* A sign-up is lost in one place only.
THEOREM SignUpCountsThm == Spec => []SignUpCounts
<1>1. LInv /\ SInv /\ WInv /\ OInv => SignUpCounts
  <2> SUFFICES ASSUME LInv, SInv, WInv, OInv, NEW i \in Present, ~Removing, ~At("store"),
                      conn[players[i].socket] = "member"
               PROVE  \/ players[i].is_registered
                      \/ "ADD_PLAYER" \in ToSet(toServer[players[i].socket])
                      \/ At("dispatch") /\ main.socket = players[i].socket
                      \/ players[i].socket \in past.lost
    BY DEF SignUpCounts
  <2>1. main.pc \in NoHole  BY Context DEF NoHole, Removing, At, Main
  <2>2. SignedUp(i)  BY <2>1, NobodyMissing DEF OInv
  <2>3. main.pc = "dispatch" /\ main.i = i => main.socket = players[i].socket
    BY DEF OInv, Indices
  <2> QED  BY <2>2, <2>3 DEF SignedUp, At
<1> QED  BY <1>1, Invariance, SeatsInvariance, Welcomes, OrderInvariance, PTL

-----------------------------------------------------------------------------
(* The hands.                                                              *)

\* Only the alarm leaves the code of a hand in mess, and then the game began under
\* the reply.
DInv == /\ OneHandEach
        /\ At("reply") /\ code = "INIT_DECK" => past.startedAt = "reply"

\* Most lines deal nothing, and those that make mess the reply write its code.
LEMMA StepDInv ==
  ASSUME DInv, past'.hands = past.hands, past'.startedAt = past.startedAt,
         ~(game_running' /\ ~Removing') \/ (game_running /\ ~Removing),
         main'.pc = "reply" => code' # "INIT_DECK"
  PROVE  DInv'
  BY DEF DInv, OneHandEach, OneEach, At

LEMMA InitDInv == Init => DInv
  BY DEF Init, DInv, OneHandEach, At

\* The alarm deals to every seat, and outside remove_player nobody has two.
LEMMA AlarmHandlerDInv == LInv /\ SInv /\ WInv /\ OInv /\ DInv /\ AlarmHandler => DInv'
<1> SUFFICES ASSUME LInv, SInv, WInv, OInv, DInv, AlarmHandler PROVE DInv'  OBVIOUS
<1>0. main \in Main /\ DOMAIN past = {"hands", "nameless", "startedAt", "lost", "unheard"}
  BY Context
<1>1. CASE AlarmRestarts
  <2>1. /\ past'.hands = past.hands /\ past'.startedAt = past.startedAt
        /\ game_running' = game_running /\ main' = main /\ code' = "INFO"
    BY <1>0, <1>1 DEF AlarmRestarts, Spoilt
  <2> QED  BY <2>1, StepDInv DEF Removing
<1>2. CASE AlarmStartsGame
  <2>1. /\ amount_players >= 2 /\ all_players_registered
        /\ UNCHANGED <<players, amount_players, main>>
    BY <1>2 DEF AlarmStartsGame
  <2>2. past'.startedAt = main.pc /\ past'.hands = Everybody
    BY <1>0, <1>2 DEF AlarmStartsGame, Spoilt
  <2>3. ASSUME ~Removing PROVE OneEach'
    <3>1. main.pc # "store"
      <4> SUFFICES ASSUME main.pc = "store" PROVE FALSE  OBVIOUS
      <4>1. amount_players - 1 \in Present  BY <2>1, Context DEF Present
      <4>2. players[amount_players - 1] = Clean  BY DEF SInv, Seated
      <4> QED  BY <2>1, <4>1, <4>2 DEF all_players_registered, Clean
    <3>2. Held = Present  BY <1>0, <2>3, <3>1, NobodyMissing DEF NoHole, Removing, Main
    <3>3. DOMAIN past'.hands = 1..amount_players
          /\ \A n \in 1..amount_players : past'.hands[n] = players[n - 1].socket
      BY <2>2 DEF Everybody
    <3>4. \A n \in 1..amount_players : n - 1 \in Held
      BY <3>2, Context DEF Present
    <3>5. ASSUME NEW m \in 1..amount_players, NEW n \in 1..amount_players,
                 past'.hands[m] = past'.hands[n]
          PROVE  m = n
      <4>1. m - 1 = n - 1  BY <3>3, <3>4, <3>5 DEF OInv, Occupied
      <4> QED  BY <4>1
    <3> QED  BY <3>3, <3>5 DEF OneEach
  <2> QED  BY <2>1, <2>2, <2>3 DEF DInv, OneHandEach, Removing, At
<1> QED  BY <1>1, <1>2 DEF AlarmHandler

LEMMA DealsInvariance == Spec => []DInv
<1>1. LInv /\ SInv /\ WInv /\ OInv /\ DInv /\ [Next]_vars => DInv'
  <2> SUFFICES ASSUME LInv, SInv, WInv, OInv, DInv, [Next]_vars PROVE DInv'  OBVIOUS
  <2>0. main \in Main /\ DOMAIN past = {"hands", "nameless", "startedAt", "lost", "unheard"}
    BY Context
  <2>1. CASE UNCHANGED vars \/ \E k \in Sockets : Connect(k) \/ SignUp(k) \/ Ask(k) \/ Leave(k)
    <3>1. UNCHANGED <<game_running, code, main, past>>
      BY <2>1 DEF vars, serverVars, Connect, SignUp, Ask, Leave
    <3> QED  BY <3>1 DEF DInv, OneHandEach, OneEach, Removing, At
  <2>2. CASE EndGame \/ Cancel
    <3>1. game_running' = FALSE /\ main'.pc # "reply"
      BY <2>0, <2>2, LoopIndex DEF EndGame, Cancel, clear_lobby, At
    <3> QED  BY <3>1 DEF DInv, OneHandEach, At
  <2>3. CASE Reply
    <3>1. /\ main.pc = "reply" /\ main'.pc = "serve" /\ UNCHANGED <<game_running, code>>
          /\ past'.startedAt = past.startedAt
          /\ code # "INIT_DECK" => past'.hands = past.hands
      BY <2>0, <2>3, LoopIndex DEF Reply, At
    <3>2. CASE code = "INIT_DECK"
      <4>1. past'.startedAt = "reply"  BY <3>1, <3>2 DEF DInv, At
      <4> QED  BY <3>1, <4>1 DEF DInv, OneHandEach, At
    <3>3. CASE code # "INIT_DECK"  BY <3>1, <3>3, StepDInv DEF Removing
    <3> QED  BY <3>2, <3>3
  <2>4. CASE TellOthers
    <3>1. main'.pc = "running"  BY <2>0, <2>4 DEF TellOthers, Goto, Main, Labels
    <3> QED  BY <3>1 DEF DInv, OneHandEach, Removing, At
  <2>5. CASE TestRunning
    <3>1. /\ main'.pc \in {"cancel", "serve"} /\ (game_running => main'.pc = "cancel")
          /\ game_running' = game_running
      BY <2>0, <2>5, LoopIndex DEF TestRunning, Main, Labels
    <3> QED  BY <3>1 DEF DInv, OneHandEach, Removing, At
  <2>6. CASE (\E i \in Seats : Close(i)) \/ Zero \/ Reset \/ Shift \/ Uncount \/ WriteInfo
    <3>1. main'.pc \in {"zero", "reset", "shift", "tell", "broadcast"}
      BY <2>0, <2>6 DEF Close, Zero, Reset, Shift, Uncount, WriteInfo, Goto, At, Main, Labels
    <3> QED  BY <3>1 DEF DInv, OneHandEach, Removing, At
  <2>7. CASE AddClient \/ Select \/ (\E i \in Seats : Receive(i)) \/ add_player \/ AnswerInfo
             \/ CountScore \/ WildCall \/ EndOfLoop
    <3>1. UNCHANGED <<game_running, past>> /\ ~Removing
      BY <2>7
      DEF AddClient, TestLobby, WriteRefuse, TurnDown, Count, Store, SetAlarm, WriteOk, Greet,
          Select, Receive, Serves, add_player, Register, StoreName, Answer, AnswerInfo,
          CountScore, WildCall, EndOfLoop, At, Removing
    <3>2. CASE AddClient
      <4>1. main'.pc # "reply"
        BY <2>0, <3>2, LoopIndex
        DEF AddClient, TestLobby, WriteRefuse, TurnDown, Count, Store, SetAlarm, WriteOk, Greet,
            Goto, Main
      <4> QED  BY <3>1, <4>1, StepDInv
    <3>3. CASE Select \/ (\E i \in Seats : Receive(i)) \/ Register \/ StoreName \/ CountScore
               \/ WildCall \/ EndOfLoop
      <4>1. main'.pc # "reply"
        BY <2>0, <3>3, LoopIndex
        DEF Select, Receive, Register, StoreName, CountScore, WildCall, EndOfLoop, Goto, Main
      <4> QED  BY <3>1, <4>1, StepDInv
    <3>4. CASE Answer \/ AnswerInfo
      <4>1. code' # "INIT_DECK"  BY <3>4 DEF Answer, AnswerInfo
      <4> QED  BY <3>1, <4>1, StepDInv
    <3> QED  BY <2>7, <3>2, <3>3, <3>4 DEF add_player
  <2> QED
    BY <2>1, <2>2, <2>3, <2>4, <2>5, <2>6, <2>7, AlarmHandlerDInv DEF Next, MainStep, RemovePlayer
<1> QED  BY <1>1, InitDInv, Invariance, SeatsInvariance, Welcomes, OrderInvariance, PTL DEF Spec

\* Whatever the alarm makes of mess and of a half-removed player, nobody plays with two
\* hands, unless it started the game under a reply.
THEOREM OneHandEachThm == Spec => []OneHandEach
<1>1. DInv => OneHandEach  BY DEF DInv
<1> QED  BY <1>1, DealsInvariance, PTL
=============================================================================
