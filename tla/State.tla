------------------------------- MODULE State -------------------------------
(***************************************************************************)
(* The variables of the two programs, so that an action of one can say     *)
(* that it leaves the other alone.                                         *)
(***************************************************************************)
EXTENDS Cards, Network

VARIABLES players,  \* players[0..amount_players-1]: [client, is_registered]
          alarm,    \* SIGALRM is scheduled
          srv,      \* the other static variables of serveur.c
          board,    \* struct s_mem
          loop,     \* where main() is, the sockets select() reported, and i
          hist      \* history, for the properties: whose ecart of this round
                    \* arrived, and the points each player has taken

VARIABLES cl,       \* per client, where it is and its static variables
          typed     \* per client, the lines typed unasked

serverVars == <<players, alarm, srv, board, loop, hist>>
clientVars == <<cl, typed>>
vars       == <<network, serverVars, clientVars>>
=============================================================================
