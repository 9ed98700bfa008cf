------------------------------ MODULE Shutdown ------------------------------
(***************************************************************************)
(* interrupt_handler of serveur.c: SIGINT, SIGTERM or SIGQUIT reaches the  *)
(* server on any line, inside a call of ipc.c too, and the handler itself  *)
(* writes to the board, takes the semaphores away and returns.  A handler  *)
(* blocks its own signal and SIGALRM, not the two others, so one of these  *)
(* can interrupt it.                                                       *)
(*                                                                         *)
(* pc[Server] of SharedMemory is where the interrupted code is: main() or  *)
(* alarm_handler, whatever they were doing; "idle" is outside ipc.c.       *)
(***************************************************************************)
EXTENDS SharedMemory, Sequences

CONSTANTS Signals,       \* SIGINT, SIGTERM, SIGQUIT
          HandlerWrites  \* bound: the writes of clear_lobby (7 in the code)

ASSUME ShutdownAssumption == HandlerWrites \in Nat \ {0}

VARIABLES frames,         \* the handlers that run, the innermost last
          server_socket,  \* the descriptor of that name is open
          seats,          \* the clients of players[]
          stale,          \* players[] names a descriptor that is closed, or one twice
          written,        \* of seats, who has left and been written to since
          removed,        \* what kill_ipcs has removed
          told            \* the clients that were sent C_SERVER_SHUT_DOWN

handlerVars  == <<frames, server_socket, seats, stale, written, removed, told>>
boardVars    == <<mutex_mem, mutex_rc, rc, board, copy, val, pending>>
shutdownVars == <<vars, handlerVars>>

ShutdownInit == /\ Init
                /\ frames = <<>>
                /\ server_socket = TRUE
                /\ seats = Clients
                /\ stale = FALSE
                /\ written = {}
                /\ removed = {}
                /\ told = {}

-----------------------------------------------------------------------------
(* The processes of SharedMemory, as long as the semaphores are there.     *)

\* Which semaphore the next line of ipc.c of a process operates on.
UsesMem(p) == \/ pc[p] \in {"w_lock", "w_close"}
              \/ pc[p] = "r_first" /\ rc = 1
              \/ pc[p] = "r_last" /\ rc = 0
UsesRc(p)  == pc[p] \in {"r_lock", "r_open", "r_relock", "r_close"}

SemopFails(p) == \/ UsesMem(p) /\ "mutex_mem" \in removed
                 \/ UsesRc(p) /\ "mutex_rc" \in removed

\* The interrupted code goes on when its handlers have returned.
Runs(p) == p = Server => frames = <<>>

\* Between close() and the new value of players[] the server does nothing else.
Settled == ~stale

Takes(p) == Runs(p) /\ ~SemopFails(p) /\ Acquire(p) /\ UNCHANGED handlerVars
Passes(p) == Runs(p) /\ ~SemopFails(p) /\ Release(p) /\ UNCHANGED handlerVars
Asks(p)  == Runs(p) /\ (p = Server => Settled) /\ ReadCall(p) /\ UNCHANGED handlerVars

MainWriteCall == Runs(Server) /\ Settled /\ (\E v \in Data : WriteCall(v)) /\ UNCHANGED handlerVars
MainWriteLock == Runs(Server) /\ ~SemopFails(Server) /\ WriteLock /\ UNCHANGED handlerVars
MainWrites    == /\ Runs(Server) /\ ~SemopFails(Server)
                 /\ WriteLo \/ WriteHi \/ WriteClose
                 /\ UNCHANGED handlerVars

\* send_message to some players, C_INFO that makes them read the board among them.  The
\* first write to the connection of a player who has left is answered by a reset ...
MainSends ==
  /\ Runs(Server) /\ alive[Server] /\ pc[Server] = "idle"
  /\ Settled
  /\ \E to \in SUBSET seats :
       /\ to \cap written = {}
       /\ \A c \in to : alive[c] => pending[c] + ReadsPerMessage <= MaxPending
       /\ pending' = [c \in Clients |-> IF c \in to /\ alive[c] THEN pending[c] + ReadsPerMessage
                                                               ELSE pending[c]]
       /\ written' = written \cup {c \in to : ~alive[c]}
  /\ UNCHANGED <<sems, rc, board, pc, copy, val, alive, frames, server_socket, seats, stale, removed, told>>

ServerExits == alive' = [alive EXCEPT ![Server] = FALSE]

\* ... and the second raises SIGPIPE, which nothing catches.
MainDiesOfPipe == /\ Runs(Server) /\ alive[Server] /\ pc[Server] = "idle"
                  /\ Settled
                  /\ written # {}
                  /\ ServerExits
                  /\ UNCHANGED <<boardVars, pc, handlerVars>>

\* down() and up() of a semaphore that is gone: exit(EXIT_FAILURE).
DiesOfSemop(p) == /\ alive[p] /\ Runs(p)
                  /\ SemopFails(p)
                  /\ alive' = [alive EXCEPT ![p] = FALSE]
                  /\ UNCHANGED <<boardVars, pc, handlerVars>>

\* remove_player, from shutdown_socket to the end of the shift, and clear_lobby,
\* from its first shutdown_socket to reset_players: players[] still names
\* descriptors that are closed.
MainCloses == /\ Runs(Server) /\ alive[Server] /\ pc[Server] = "idle"
              /\ Settled /\ seats # {}
              /\ stale' = TRUE
              /\ UNCHANGED <<vars, frames, server_socket, seats, written, removed, told>>

MainSettles == /\ Runs(Server) /\ alive[Server] /\ pc[Server] = "idle"
               /\ stale
               /\ stale' = FALSE
               /\ seats' \in {{}} \cup {seats \ {c} : c \in {d \in seats : ~alive[d]}}
               /\ written' = written \cap seats'
               /\ UNCHANGED <<vars, frames, server_socket, removed, told>>

\* add_client; the client has done with what it was sent in an earlier game.
MainWelcomes(c) == /\ Runs(Server) /\ alive[Server] /\ pc[Server] = "idle"
                   /\ server_socket /\ Settled
                   /\ c \notin seats /\ alive[c] /\ pc[c] = "idle" /\ pending[c] = 0
                   /\ seats' = seats \cup {c}
                   /\ UNCHANGED <<vars, frames, server_socket, stale, written, removed, told>>

\* select() finds a closed descriptor: EBADF, and main() calls shutdown_server.
\* That ends at the first down() of clear_lobby, as MainWriteCall and DiesOfSemop.
MainShutsDown == /\ Runs(Server) /\ Settled /\ ~server_socket
                 /\ WriteCall(InitData)
                 /\ UNCHANGED handlerVars

\* Mutant: the client prints the message, like C_INFO, and waits for the next.
ShutDownIgnored(c) == alive[c] /\ pc[c] = "idle" /\ c \in told /\ UNCHANGED shutdownVars

\* C_SERVER_SHUT_DOWN, behind the messages sent before it.
ShutDownReceived(c) == /\ alive[c] /\ pc[c] = "idle"
                       /\ c \in told /\ pending[c] = 0
                       /\ alive' = [alive EXCEPT ![c] = FALSE]
                       /\ UNCHANGED <<boardVars, pc, handlerVars>>

-----------------------------------------------------------------------------
(* interrupt_handler.                                                      *)

Depth == Len(frames)
Inner == frames[Depth]

\* Mutant: SA_NODEFER, the handler does not block its own signal.
InterruptAgain(s) ==
  /\ alive[Server]
  /\ frames' = Append(frames, [signal |-> s, at |-> "close", writes |-> HandlerWrites])
  /\ UNCHANGED <<vars, server_socket, seats, stale, written, removed, told>>

\* A signal is delivered, unless its own handler runs.
Interrupt(s) ==
  /\ alive[Server]
  /\ \A k \in DOMAIN frames : frames[k].signal # s
  /\ frames' = Append(frames, [signal |-> s, at |-> "close", writes |-> HandlerWrites])
  /\ UNCHANGED <<vars, server_socket, seats, stale, written, removed, told>>

\* The innermost handler goes from one line to the next.
Step(from, to) == /\ alive[Server] /\ frames # <<>>
                  /\ Inner.at = from
                  /\ frames' = [frames EXCEPT ![Depth].at = to]

\* Mutant: the handler leaves server_socket alone.
CloseNothing == /\ Step("close", "tell")
                /\ UNCHANGED <<vars, server_socket, seats, stale, written, removed, told>>

\* shutdown_socket(server_socket), the first time ...
CloseServerSocket == /\ Step("close", "tell")
                     /\ server_socket
                     /\ server_socket' = FALSE
                     /\ UNCHANGED <<vars, seats, stale, written, removed, told>>

\* ... and when it is closed already: exit(EXIT_FAILURE).
CloseFails == /\ alive[Server] /\ frames # <<>> /\ Inner.at = "close"
              /\ ~server_socket
              /\ ServerExits
              /\ UNCHANGED <<boardVars, pc, handlerVars>>

\* send_message_everybody: every player is told, or some when the interrupted code
\* was about to drop the others ...
Tell == /\ Step("tell", "lock")
        /\ Settled => written = {}
        /\ told' \in IF stale THEN SUBSET seats ELSE {seats}
        /\ written' = written \cup {c \in told' : ~alive[c]}
        /\ UNCHANGED <<vars, server_socket, seats, stale, removed>>

\* ... and SIGPIPE ends the server at the first of those it has written to already.
TellFails == /\ alive[Server] /\ frames # <<>> /\ Inner.at = "tell"
             /\ written # {}
             /\ told' \in SUBSET (seats \ written)
             /\ ServerExits
             /\ UNCHANGED <<boardVars, pc, frames, server_socket, seats, stale, written, removed>>

\* Mutant: clear_lobby writes without the semaphore.
HandlerTakesNothing == /\ Step("lock", "lo")
                       /\ UNCHANGED <<vars, server_socket, seats, stale, written, removed, told>>

\* clear_lobby: down(), both halves of what is written, up(), for every write.
HandlerLock == /\ Step("lock", "lo")
               /\ "mutex_mem" \notin removed
               /\ DownMem
               /\ UNCHANGED <<mutex_rc, rc, board, pc, copy, val, pending, alive>>
               /\ UNCHANGED <<server_socket, seats, stale, written, removed, told>>

HandlerLo == /\ Step("lo", "hi")
             /\ board' = [board EXCEPT !.lo = InitData]
             /\ UNCHANGED <<sems, rc, pc, copy, val, pending, alive>>
             /\ UNCHANGED <<server_socket, seats, stale, written, removed, told>>

HandlerHi == /\ Step("hi", "unlock")
             /\ board' = [board EXCEPT !.hi = InitData]
             /\ UNCHANGED <<sems, rc, pc, copy, val, pending, alive>>
             /\ UNCHANGED <<server_socket, seats, stale, written, removed, told>>

HandlerUnlock ==
  /\ alive[Server] /\ frames # <<>> /\ Inner.at = "unlock"
  /\ frames' = [frames EXCEPT ![Depth].writes = @ - 1,
                              ![Depth].at = IF Inner.writes > 1 THEN "lock" ELSE "hang_up"]
  /\ UpMem
  /\ UNCHANGED <<mutex_rc, rc, board, pc, copy, val, pending, alive>>
  /\ UNCHANGED <<server_socket, seats, stale, written, removed, told>>

\* clear_lobby: shutdown_socket for every player, and reset_players ...
HangUp == /\ Step("hang_up", "remove_mem")
          /\ Settled
          /\ seats' = {} /\ written' = {}
          /\ UNCHANGED <<vars, server_socket, stale, removed, told>>

\* ... which exits at a descriptor that is closed already.
HangUpFails == /\ alive[Server] /\ frames # <<>> /\ Inner.at = "hang_up"
               /\ stale
               /\ ServerExits
               /\ UNCHANGED <<boardVars, pc, handlerVars>>

Remove(from, to, ipc) == /\ Step(from, to)
                         /\ removed' = removed \cup {ipc}
                         /\ UNCHANGED <<vars, server_socket, seats, stale, written, told>>

\* Mutant: kill_ipcs forgets the second semaphore.
KillOne == \/ Remove("remove_mem", "remove_rc", "mutex_mem")
           \/ Remove("remove_rc", "remove_seg", "mutex_mem")
           \/ Remove("remove_seg", "return", "segments")

\* kill_ipcs.
KillIpcs == \/ Remove("remove_mem", "remove_rc", "mutex_mem")
            \/ Remove("remove_rc", "remove_seg", "mutex_rc")
            \/ Remove("remove_seg", "return", "segments")

HandlerReturns == /\ alive[Server] /\ frames # <<>> /\ Inner.at = "return"
                  /\ frames' = SubSeq(frames, 1, Depth - 1)
                  /\ UNCHANGED <<vars, server_socket, seats, stale, written, removed, told>>

HandlerStep == \/ CloseServerSocket \/ CloseFails \/ Tell \/ TellFails
               \/ HandlerLo \/ HandlerHi \/ HandlerUnlock
               \/ HangUp \/ HangUpFails \/ KillIpcs \/ HandlerReturns

-----------------------------------------------------------------------------
ClientLeaves(c) == ClientExit(c) /\ UNCHANGED handlerVars

ShutdownNext ==
  \/ \E p \in Proc : Takes(p) \/ Passes(p) \/ Asks(p) \/ DiesOfSemop(p)
  \/ MainWriteCall \/ MainWriteLock \/ MainWrites \/ MainSends \/ MainDiesOfPipe
  \/ MainCloses \/ MainSettles \/ MainShutsDown
  \/ \E c \in Clients : MainWelcomes(c) \/ ShutDownReceived(c) \/ ClientLeaves(c)
  \/ \E s \in Signals : Interrupt(s)
  \/ HandlerLock \/ HandlerStep

\* As in SharedMemory; the lines of a handler and of main() are executed.
ShutdownFairness ==
  /\ \A p \in Proc : SF_shutdownVars(Takes(p)) /\ WF_shutdownVars(Passes(p) \/ DiesOfSemop(p))
  /\ SF_shutdownVars(MainWriteLock)
  /\ WF_shutdownVars(MainWrites \/ MainSettles \/ MainShutsDown)
  /\ \A c \in Clients : WF_shutdownVars(Asks(c) \/ ShutDownReceived(c))
  /\ SF_shutdownVars(HandlerLock)
  /\ WF_shutdownVars(HandlerStep)

ShutdownSpec == ShutdownInit /\ [][ShutdownNext]_shutdownVars /\ ShutdownFairness

-----------------------------------------------------------------------------
(* Properties.                                                             *)

HandlerLabels == {"close", "tell", "lock", "lo", "hi", "unlock", "hang_up",
                  "remove_mem", "remove_rc", "remove_seg", "return"}
Ipcs == {"mutex_mem", "mutex_rc", "segments"}

\* The type invariant: the board's own, and no signal twice on the stack.
ShutdownTypeOK ==
  /\ TypeOK
  /\ \A k \in DOMAIN frames : /\ frames[k].signal \in Signals
                              /\ frames[k].at \in HandlerLabels
                              /\ frames[k].writes \in 0..HandlerWrites
                              /\ \A j \in DOMAIN frames :
                                   frames[j].signal = frames[k].signal => j = k
  /\ server_socket \in BOOLEAN /\ stale \in BOOLEAN
  /\ seats \subseteq Clients /\ written \subseteq seats
  /\ removed \subseteq Ipcs /\ told \subseteq Clients

\* clear_lobby runs in a handler over an interrupted board call: whatever line
\* the server was on, nobody is in the middle of a copy while it writes, the
\* interrupted call of the server included.
HandlerWritesAlone ==
  (\E k \in DOMAIN frames : frames[k].at \in {"lo", "hi"}) =>
    \A p \in Proc : alive[p] => ~Reading(p) /\ ~Writing(p)

\* "ipcs killing (no dirty ipcs remain after execution)", src/README.md:11.  The
\* server leaves none behind, with three exceptions: a second signal interrupted
\* the handler of the first, the signal came while players[] named closed
\* descriptors, or a player has left whom the server has written to since, and still
\* had a seat: the next write to it, in main() or in the handler, is the end.
NoIpcRemains ==
  ~alive[Server] => removed = Ipcs \/ Depth >= 2 \/ stale \/ written # {}

\* A process that has ended inside ipc.c keeps a semaphore, or is counted, until
\* the semaphores are removed: a client that exited, or the server, when a second
\* signal ended it with the first one's handler or the interrupted call inside.
InsideIpc(p) == \/ pc[p] \notin {"idle", "r_lock", "w_lock"}
                \/ p = Server /\ \E k \in DOMAIN frames : frames[k].at \in {"lo", "hi", "unlock"}
Abandoned == removed # Ipcs /\ \E p \in Proc : ~alive[p] /\ InsideIpc(p)

\* The handler waits for mutex_mem, and the code it interrupted holds it, or
\* holds mutex_rc that the readers need to give it back.
HandlerStuck == /\ frames # <<>> /\ Inner.at = "lock"
                /\ mutex_mem = 0
                /\ pc[Server] \notin {"idle", "r_lock", "w_lock"}

\* A signal ends the server, although interrupt_handler returns into the code it
\* interrupted; the one exception is the handler that waits for its own process.
SignalEndsServer == frames # <<>> ~> ~alive[Server] \/ HandlerStuck \/ Abandoned

\* A client that was sent C_SERVER_SHUT_DOWN ends, also when the semaphores
\* disappear while it waits for one.
ClientsFollow ==
  \A c \in Clients : c \in told ~> ~alive[c] \/ HandlerStuck \/ Abandoned
=============================================================================
