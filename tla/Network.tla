------------------------------ MODULE Network ------------------------------
(***************************************************************************)
(* socket.c: the connections between the clients and the server, as TCP    *)
(* behaves on one host.  Every message is one struct, sent and received    *)
(* whole and in order.  A client has at most one connection at a time.     *)
(***************************************************************************)
EXTENDS Naturals, Sequences, SequencesExt

CONSTANT Clients

VARIABLES listening,  \* the server's socket accepts connections
          backlog,    \* clients whose connection waits for accept(), in order
          conn,       \* per client, the state of its connection
          toServer,   \* per client, messages the server has not received yet
          toClient    \* per client, messages the client has not received yet

network == <<listening, backlog, conn, toServer, toClient>>

\* "closed", the client has left and the server does not know; "reset", the
\* server has written to it since; "pipe", the server has written to it again;
\* "dropped", the server has closed it and the client does not know; "broken",
\* the client has written to it since; "refused", open but never served.
Gone       == {"closed", "reset", "pipe"}
ConnStates == {"none", "backlog", "open", "dropped", "broken", "refused"} \cup Gone

NetworkInit == /\ listening = TRUE
               /\ backlog = <<>>
               /\ conn = [c \in Clients |-> "none"]
               /\ toServer = [c \in Clients |-> <<>>]
               /\ toClient = [c \in Clients |-> <<>>]

\* How many messages of one kind a queue holds.
Count(queue, code) == Cardinality({k \in DOMAIN queue : queue[k].code = code})

-----------------------------------------------------------------------------
(* Client side.                                                            *)

\* connect_to_server
OpenConnection(c) == /\ listening
                     /\ conn' = [conn EXCEPT ![c] = "backlog"]
                     /\ backlog' = Append(backlog, c)
                     /\ toServer' = [toServer EXCEPT ![c] = <<>>]
                     /\ toClient' = [toClient EXCEPT ![c] = <<>>]
                     /\ UNCHANGED listening

ClientReceive(c) == /\ toClient[c] # <<>>
                    /\ toClient' = [toClient EXCEPT ![c] = Tail(@)]

\* send_message.  What is written to a connection the server has dropped is
\* lost; SIGPIPE is not caught, and the second such write ends the client.
ClientSend(c, m) ==
  /\ toServer' = IF conn[c] = "open" THEN [toServer EXCEPT ![c] = Append(@, m)] ELSE toServer
  /\ conn' = [conn EXCEPT ![c] = IF @ = "dropped" THEN "broken" ELSE @]

ClientDies(c) == conn[c] = "broken"

\* shutdown_socket, or the kernel when the process ends.
ClientClose(c) ==
  /\ conn' = [conn EXCEPT ![c] = IF @ \in {"open", "backlog"} THEN "closed" ELSE "none"]
  /\ toClient' = [toClient EXCEPT ![c] = <<>>]

-----------------------------------------------------------------------------
(* Server side.                                                            *)

\* What select() reports of a connection: a message, or its end.
Readable(c) == toServer[c] # <<>> \/ conn[c] \in Gone

\* Mutant: receive_message tests its result for 0 alone, and not for -1, a reset.
AtEndOfFile(c) == toServer[c] = <<>> /\ conn[c] = "closed"

\* The end of file, or a reset.
AtEnd(c) == toServer[c] = <<>> /\ conn[c] \in Gone

ServerReceive(c) == /\ toServer[c] # <<>>
                    /\ toServer' = [toServer EXCEPT ![c] = Tail(@)]

\* A connection after k more send_message() on it.
AfterSends(state, k) ==
  CASE state = "closed" /\ k = 1 -> "reset"
    [] state = "closed" /\ k > 1 -> "pipe"
    [] state = "reset"  /\ k > 0 -> "pipe"
    [] OTHER                     -> state

\* What o1 says to each client, followed by what o2 says.
Then(o1, o2) == [c \in Clients |-> o1[c] \o o2[c]]

\* The server sends out[c] to every client c.
ServerSend(out) ==
  /\ toClient' = [c \in Clients |-> IF conn[c] = "open" THEN toClient[c] \o out[c]
                                                        ELSE toClient[c]]
  /\ conn' = [c \in Clients |-> AfterSends(conn[c], Len(out[c]))]

\* The server sends to the clients in C one message that they print and forget
\* (C_INFO, C_SIGNED_UP, C_NO_INFO): only the write itself matters.
ServerInforms(C) ==
  /\ conn' = [c \in Clients |-> IF c \in C THEN AfterSends(conn[c], 1) ELSE conn[c]]
  /\ UNCHANGED toClient

\* The server closes the connections of the clients in C; a client that has
\* already replaced its connection is not concerned.
ServerClose(C) ==
  /\ conn' = [c \in Clients |->
                IF c \in C /\ conn[c] = "open" THEN "dropped"
                ELSE IF c \in C /\ conn[c] \in Gone /\ c \notin ToSet(backlog) THEN "none"
                ELSE conn[c]]
  /\ toServer' = [c \in Clients |-> IF c \in C THEN <<>> ELSE toServer[c]]

\* SIGPIPE is not caught: the second write to a connection that the client has
\* closed ends the server.
ServerAlive == listening /\ \A c \in Clients : conn[c] # "pipe"

\* The process of the server ends, and the kernel ends its connections.
ServerEnds ==
  /\ listening' = FALSE
  /\ backlog' = <<>>
  /\ conn' = [c \in Clients |-> CASE conn[c] \in {"open", "backlog", "refused"} -> "dropped"
                                  [] conn[c] \in Gone -> "none"
                                  [] OTHER -> conn[c]]
  /\ toServer' = [c \in Clients |-> <<>>]
  /\ UNCHANGED toClient

ServerKilled == listening /\ ~ServerAlive /\ ServerEnds
=============================================================================
