------------------------------- MODULE Client -------------------------------
(***************************************************************************)
(* joueur.c: connecting, signing up, the main loop, and the two functions  *)
(* that wait for the user.  What a user types is any legal choice; a line  *)
(* typed while nothing is asked, and leaving, are actions of their own.    *)
(***************************************************************************)
EXTENDS State

CONSTANTS Lines,     \* the lines users type unasked: "s", "other"
          Typists,   \* the clients whose users type them
          MaxLines,  \* bound: how many each of these types
          Quitters   \* the clients that may leave at any moment

ASSUME ClientAssumption == /\ MaxLines \in Nat
                           /\ Lines \subseteq {"s", "other"}
                           /\ Typists \subseteq Clients
                           /\ Quitters \subseteq Clients

ClientLabels == {"connect", "greet", "signup", "main", "ecart", "play", "exited"}

ClientInit ==
  /\ cl = [c \in Clients |->
             [pc |-> "connect", deck |-> <<>>, plis |-> <<>>,
              info |-> [player_index |-> 0, amount_players |-> 0, papayoo |-> 0],
              mSent |-> [code |-> "ADD_PLAYER"], waiting_for_ecart |-> FALSE]]
  /\ typed = [c \in Clients |-> 0]

At(c, label)   == cl[c].pc = label
Goto(c, label) == cl' = [cl EXCEPT ![c].pc = label]

-----------------------------------------------------------------------------
(* try_to_connect and signup.                                              *)

Connect(c) == /\ At(c, "connect")
              /\ OpenConnection(c)
              /\ Goto(c, "greet")
              /\ UNCHANGED <<typed, serverVars>>

ConnectFails(c) == /\ At(c, "connect")
                   /\ ~listening
                   /\ Goto(c, "exited")
                   /\ UNCHANGED <<network, typed, serverVars>>

Greeting(c, code) == /\ At(c, "greet")
                     /\ ClientReceive(c)
                     /\ Head(toClient[c]).code = code
                     /\ UNCHANGED <<listening, backlog, conn, toServer, typed, serverVars>>

Welcomed(c) == Greeting(c, "OK") /\ Goto(c, "signup")

\* The socket is not closed; the next attempt, 5 seconds later, opens another.
Refused(c) == Greeting(c, "REFUSE") /\ Goto(c, "connect")

GreetingLost(c) == /\ At(c, "greet")
                   /\ toClient[c] = <<>> /\ conn[c] = "dropped"
                   /\ Goto(c, "connect")
                   /\ UNCHANGED <<network, typed, serverVars>>

\* Every send goes through the static variable mSent, which keeps its value.
AfterSend(c) == IF ClientDies(c) THEN "exited" ELSE "main"

Send(c, m, fields) ==
  /\ ClientSend(c, m)
  /\ cl' = [cl EXCEPT ![c] = [fields EXCEPT !.pc = AfterSend(c), !.mSent = m]]
  /\ UNCHANGED <<listening, backlog, typed, serverVars>>

signup(c) == /\ At(c, "signup")
             /\ Send(c, [code |-> "ADD_PLAYER"], cl[c])
             /\ UNCHANGED toClient

-----------------------------------------------------------------------------
(* The messages of the server, in the switch of main().                    *)

FromServer(c) == Head(toClient[c])

Receives(c, code) == /\ At(c, "main")
                     /\ ClientReceive(c)
                     /\ FromServer(c).code = code

\* A message that only changes the variables of the client.
Handles(c, code) == /\ Receives(c, code)
                    /\ UNCHANGED <<listening, backlog, conn, toServer, typed, serverVars>>

\* init_deck, which goes on to ask the user for the ecart.
init_deck(c) ==
  /\ Handles(c, "INIT_DECK")
  /\ cl' = [cl EXCEPT ![c].deck = FromServer(c).deck, ![c].pc = "ecart"]

add_new_ecart(c) ==
  /\ Handles(c, "ECARTS")
  /\ cl[c].info.amount_players # 0
  /\ cl' = [cl EXCEPT ![c].deck = @ \o FromServer(c).deck, ![c].waiting_for_ecart = FALSE]

\* add_new_ecart computes the giver modulo info.amount_players; before the first
\* game that is a division by zero, and the process ends.
DivisionByZero(c) ==
  /\ At(c, "main")
  /\ toClient[c] # <<>> /\ FromServer(c).code = "ECARTS"
  /\ cl[c].info.amount_players = 0
  /\ ClientClose(c)
  /\ Goto(c, "exited")
  /\ UNCHANGED <<listening, backlog, toServer, typed, serverVars>>

receive_info(c) ==
  /\ Handles(c, "BASIC_INFO")
  /\ cl' = [cl EXCEPT ![c].info = FromServer(c).info]

asked_for_card(c) == Handles(c, "ASK_FOR_CARD") /\ Goto(c, "play")

show_pli(c) == Handles(c, "SHOW_PLI") /\ UNCHANGED cl

add_pli(c) ==
  /\ Handles(c, "ADD_PLI")
  /\ cl' = [cl EXCEPT ![c].plis = @ \o FromServer(c).deck]

add_score(c) ==
  /\ Receives(c, "ADD_SCORE")
  /\ Send(c, [code |-> "UPDATE_SCORE", score |-> Points(cl[c].plis, cl[c].info.papayoo)],
          [cl[c] EXCEPT !.plis = <<>>])

\* C_GAME_CANCELLED: the socket is closed, and try_to_connect and signup start
\* again; nothing else is reset.
game_cancelled(c) ==
  /\ At(c, "main")
  /\ toClient[c] # <<>> /\ FromServer(c).code = "CANCELLED"
  /\ ClientClose(c)
  /\ Goto(c, "connect")
  /\ UNCHANGED <<listening, backlog, toServer, typed, serverVars>>

end_client(c) ==
  /\ At(c, "main")
  /\ toClient[c] # <<>> /\ FromServer(c).code = "END_GAME"
  /\ ClientClose(c)
  /\ Goto(c, "exited")
  /\ UNCHANGED <<listening, backlog, toServer, typed, serverVars>>

-----------------------------------------------------------------------------
(* The user.                                                               *)

\* The cards at the positions in I, in the order of the deck.
CardsAt(deck, I) ==
  LET nth(k) == CHOOSE i \in I : Cardinality({j \in I : j < i}) = k - 1
  IN [k \in 1..Cardinality(I) |-> deck[nth(k)]]

\* Mutant: remove_ecart forgets to take the chosen cards out of the deck.
send_ecart_kept(c) ==
  /\ At(c, "ecart")
  /\ \E I \in SUBSET DOMAIN cl[c].deck :
       /\ Cardinality(I) = EcartSize
       /\ Send(c, [code |-> "ECART", deck |-> CardsAt(cl[c].deck, I)],
               [cl[c] EXCEPT !.waiting_for_ecart = TRUE])
  /\ UNCHANGED toClient

\* send_ecart, convert_input_to_integer_array and remove_ecart: the user has
\* typed EcartSize different numbers of cards.
send_ecart(c) ==
  /\ At(c, "ecart")
  /\ \E I \in SUBSET DOMAIN cl[c].deck :
       /\ Cardinality(I) = EcartSize
       /\ Send(c, [code |-> "ECART", deck |-> CardsAt(cl[c].deck, I)],
               [cl[c] EXCEPT !.deck = CardsAt(@, DOMAIN @ \ I),
                             !.waiting_for_ecart = TRUE])
  /\ UNCHANGED toClient

\* play_card and remove_card.  With an empty deck no number is accepted, and
\* the client never leaves play_card.
play_card(c) ==
  /\ At(c, "play")
  /\ \E k \in DOMAIN cl[c].deck :
       Send(c, [code |-> "PLAY_CARD",
                played |-> [card |-> cl[c].deck[k],
                            last_played |-> cl[c].info.player_index]],
            [cl[c] EXCEPT !.deck = RemoveAt(@, k)])
  /\ UNCHANGED toClient

\* A line typed while main() waits in select().
Types(c, line) == /\ line \in Lines
                  /\ c \in Typists
                  /\ typed[c] < MaxLines
                  /\ At(c, "main")
                  /\ typed' = [typed EXCEPT ![c] = @ + 1]
                  /\ UNCHANGED <<listening, backlog, toClient, serverVars>>

\* "s": the user asks for the scores.
ask_basic_info(c) == /\ Types(c, "s")
                     /\ ClientSend(c, [code |-> "ASK_BASIC_INFO"])
                     /\ cl' = [cl EXCEPT ![c].mSent = [code |-> "ASK_BASIC_INFO"],
                                         ![c].pc = AfterSend(c)]

\* Anything else: the if has no braces, and mSent is sent once more.
resend(c) == /\ Types(c, "other")
             /\ ClientSend(c, cl[c].mSent)
             /\ Goto(c, AfterSend(c))

\* End of file on stdin, or a signal, wherever the client is.
quit(c) == /\ c \in Quitters
           /\ ~At(c, "exited")
           /\ ClientClose(c)
           /\ Goto(c, "exited")
           /\ UNCHANGED <<listening, backlog, toServer, typed, serverVars>>

-----------------------------------------------------------------------------
Connects(c) == \/ Connect(c) \/ ConnectFails(c) \/ Welcomed(c) \/ Refused(c)
               \/ GreetingLost(c) \/ signup(c)

Reacts(c) == \/ init_deck(c) \/ add_new_ecart(c) \/ DivisionByZero(c) \/ receive_info(c)
             \/ asked_for_card(c) \/ show_pli(c) \/ add_pli(c) \/ add_score(c)
             \/ game_cancelled(c) \/ end_client(c)

Answers(c) == send_ecart(c) \/ play_card(c)

Disturbs(c) == ask_basic_info(c) \/ resend(c) \/ quit(c)

ClientStep(c) == Connects(c) \/ Reacts(c) \/ Answers(c)

ClientNext == \E c \in Clients : ClientStep(c) \/ Disturbs(c)
=============================================================================
