--------------------------- MODULE Shutdown_proofs ---------------------------
(***************************************************************************)
(* Proofs about Shutdown: for any number of clients, of signals and of     *)
(* writes in clear_lobby, a handler that interrupts a call of ipc.c writes *)
(* to the board alone, and a server that ends has removed what it created, *)
(* up to the three exceptions that NoIpcRemains names.                     *)
(*                                                                         *)
(* Invariance of SharedMemory does not carry over as it is: the handler    *)
(* itself takes and releases mutex_mem, and it leaves the halves of the    *)
(* board different on behalf of a server whose pc is elsewhere.  What      *)
(* carries over is Locks; HandlerOwns says who holds mutex_mem besides.    *)
(***************************************************************************)
EXTENDS Shutdown, SharedMemory_proofs, SequenceTheorems

Frame == [signal : Signals, at : HandlerLabels, writes : 0..HandlerWrites]

\* The stack of handlers.  A handler that is not done with clear_lobby has a
\* write to make.
Unwritten == {"close", "tell", "lock", "lo", "hi", "unlock"}
Handlers ==
  /\ frames \in Seq(Frame)
  /\ \A j, k \in DOMAIN frames : frames[j].signal = frames[k].signal => j = k
  /\ \A k \in DOMAIN frames : frames[k].at \in Unwritten => frames[k].writes >= 1
  /\ server_socket \in BOOLEAN /\ stale \in BOOLEAN
  /\ seats \subseteq Clients /\ written \subseteq seats
  /\ removed \subseteq Ipcs /\ told \subseteq Clients

\* The handler that has the semaphore has it for itself.
InSection  == {"lo", "hi", "unlock"}
BoardIsOurs == mutex_mem = 0 /\ ~ReadersHold /\ pc[Server] \notin InWrite
HandlerOwns == (\E k \in DOMAIN frames : frames[k].at \in InSection) => BoardIsOurs

\* What kill_ipcs has removed when a handler is on a line.
RemovedAt == [l \in HandlerLabels \ {"close"} |->
                CASE l = "remove_rc"  -> {"mutex_mem"}
                  [] l = "remove_seg" -> {"mutex_mem", "mutex_rc"}
                  [] l = "return"     -> Ipcs
                  [] OTHER            -> {}]

\* Only one handler ever gets past the closing of server_socket, and what is
\* removed is what that one has removed.
Past(k) == frames[k].at # "close"
Teardown ==
  /\ \A j, k \in DOMAIN frames : Past(j) /\ Past(k) => j = k
  /\ \A k \in DOMAIN frames : Past(k) => ~server_socket /\ removed = RemovedAt[frames[k].at]
  /\ server_socket => removed = {}
  /\ ~server_socket => removed = Ipcs \/ \E k \in DOMAIN frames : Past(k)

\* The inductive invariant.
ShutdownInv == Locks /\ Handlers /\ HandlerOwns /\ Teardown /\ NoIpcRemains

-----------------------------------------------------------------------------
(* The stack of handlers.                                                  *)

\* A handler goes from one line to the next: it is the innermost, and the
\* others stay where they are.
LEMMA Moved ==
  ASSUME Handlers, NEW from, NEW to \in HandlerLabels, Step(from, to)
  PROVE  /\ Depth \in DOMAIN frames /\ frames[Depth].at = from
         /\ frames' \in Seq(Frame) /\ DOMAIN frames' = DOMAIN frames
         /\ Len(frames') = Len(frames)
         /\ frames'[Depth] = [frames[Depth] EXCEPT !.at = to]
         /\ \A k \in DOMAIN frames : k # Depth => frames'[k] = frames[k]
<1>1. frames \in Seq(Frame) /\ frames # <<>>
  BY DEF Handlers, Step
<1>2. Depth \in DOMAIN frames /\ frames[Depth] \in Frame
  BY <1>1 DEF Depth
<1>3. [frames[Depth] EXCEPT !.at = to] \in Frame
  BY <1>2 DEF Frame
<1>4. frames' = [frames EXCEPT ![Depth] = [frames[Depth] EXCEPT !.at = to]]
  BY DEF Step
<1>5. frames' \in Seq(Frame) /\ Len(frames') = Len(frames)
  BY <1>1, <1>2, <1>3, <1>4, ExceptSeq
<1>6. DOMAIN frames' = DOMAIN frames
  BY <1>4
<1>7. frames[Depth].at = from
  BY DEF Step, Inner
<1> QED
  BY <1>2, <1>4, <1>5, <1>6, <1>7

\* What Moved says, per field of a frame.
LEMMA MovedFields ==
  ASSUME Handlers, NEW from, NEW to \in HandlerLabels, Step(from, to)
  PROVE  /\ \A k \in DOMAIN frames : /\ frames'[k].signal = frames[k].signal
                                     /\ frames'[k].writes = frames[k].writes
                                     /\ k # Depth => frames'[k].at = frames[k].at
         /\ frames'[Depth].at = to
<1>1. \A k \in DOMAIN frames : frames[k] \in Frame
  BY DEF Handlers
<1>2. Depth \in DOMAIN frames
  BY Moved
<1>3. frames'[Depth] = [frames[Depth] EXCEPT !.at = to]
  BY Moved
<1>4. \A k \in DOMAIN frames : k # Depth => frames'[k] = frames[k]
  BY Moved
<1> QED
  BY <1>1, <1>2, <1>3, <1>4 DEF Frame

\* A move keeps the stack well formed; it does not go back to a write.
LEMMA HandlersMove ==
  ASSUME Handlers, NEW from, NEW to \in HandlerLabels, Step(from, to),
         to \in Unwritten => from \in Unwritten,
         server_socket' \in BOOLEAN, stale' \in BOOLEAN,
         seats' \subseteq Clients, written' \subseteq seats',
         removed' \subseteq Ipcs, told' \subseteq Clients
  PROVE  Handlers'
<1>1. frames' \in Seq(Frame) /\ DOMAIN frames' = DOMAIN frames
  BY Moved
<1>2. Depth \in DOMAIN frames /\ frames[Depth].at = from
  BY Moved
<1>3. \A k \in DOMAIN frames : /\ frames'[k].signal = frames[k].signal
                               /\ frames'[k].writes = frames[k].writes
                               /\ k # Depth => frames'[k].at = frames[k].at
  BY MovedFields
<1>4. frames'[Depth].at = to
  BY MovedFields
<1>5. \A j, k \in DOMAIN frames' : frames'[j].signal = frames'[k].signal => j = k
  BY <1>1, <1>3 DEF Handlers
<1>6. \A k \in DOMAIN frames' : frames'[k].at \in Unwritten => frames'[k].writes >= 1
  BY <1>1, <1>2, <1>3, <1>4 DEF Handlers
<1> QED
  BY <1>1, <1>5, <1>6 DEF Handlers, Unwritten

\* A handler past the first line that moves on, and removes what comes next.
LEMMA TeardownMoves ==
  ASSUME Handlers, Teardown, NEW from \in HandlerLabels \ {"close"},
         NEW to \in HandlerLabels \ {"close"}, Step(from, to),
         UNCHANGED server_socket,
         removed = RemovedAt[from] => removed' = RemovedAt[to]
  PROVE  Teardown'
<1>1. DOMAIN frames' = DOMAIN frames
  BY Moved
<1>2. Depth \in DOMAIN frames /\ frames[Depth].at = from
  BY Moved
<1>3. \A k \in DOMAIN frames : k # Depth => frames'[k].at = frames[k].at
  BY MovedFields
<1>4. frames'[Depth].at = to
  BY MovedFields
<1>5. \A k \in DOMAIN frames : Past(k)' <=> Past(k)
  BY <1>2, <1>3, <1>4 DEF Past
<1>6. \A k \in DOMAIN frames : Past(k) => k = Depth
  BY <1>2 DEF Teardown, Past
<1>7. ~server_socket /\ removed = RemovedAt[from]
  BY <1>2 DEF Teardown, Past
<1>8. \A k \in DOMAIN frames' : Past(k)' => k = Depth
  BY <1>1, <1>5, <1>6
<1>9. \A k \in DOMAIN frames' : k = Depth => Past(k)'
  BY <1>4 DEF Past
<1>10. ~server_socket' /\ removed' = RemovedAt[frames'[Depth].at]
  BY <1>4, <1>7
<1>11. RemovedAt' = RemovedAt
  BY DEF RemovedAt
<1> QED
  BY <1>1, <1>2, <1>8, <1>9, <1>10, <1>11 DEF Teardown

\* A handler that moves outside the section of clear_lobby, or inside it.
LEMMA OwnsMove ==
  ASSUME Handlers, HandlerOwns, NEW from, NEW to \in HandlerLabels, Step(from, to),
         to \in InSection => from \in InSection,
         BoardIsOurs => BoardIsOurs'
  PROVE  HandlerOwns'
<1>1. DOMAIN frames' = DOMAIN frames
  BY Moved
<1>2. Depth \in DOMAIN frames /\ frames[Depth].at = from
  BY Moved
<1>3. \A k \in DOMAIN frames : k # Depth => frames'[k].at = frames[k].at
  BY MovedFields
<1>4. frames'[Depth].at = to
  BY MovedFields
<1> QED
  BY <1>1, <1>2, <1>3, <1>4 DEF HandlerOwns

-----------------------------------------------------------------------------
(* The semaphores, under steps of the processes and of the handler.        *)

\* Only alive changes.
LEMMA LocksOfSurvivors ==
  ASSUME Locks, NEW p \in Proc, alive' = [alive EXCEPT ![p] = FALSE],
         UNCHANGED <<boardVars, pc>>
  PROVE  Locks'
<1>1. /\ mutex_mem' = mutex_mem /\ mutex_rc' = mutex_rc /\ rc' = rc /\ board' = board
      /\ copy' = copy /\ val' = val /\ pending' = pending /\ pc' = pc
  BY DEF boardVars
<1>2. TypeOK'
  BY <1>1 DEF Locks, TypeOK
<1>3. Counted' = Counted
  BY <1>1 DEF Counted
<1> QED
  BY <1>1, <1>2, <1>3 DEF Locks, RcExact, MemOwned, ReadersHold

\* mutex_mem goes to the handler and comes back, with no reader and no writer in
\* the board; or the handler writes a half.
LEMMA LocksOfHandler ==
  ASSUME Locks, mutex_mem' \in {0, 1}, board' \in Halves,
         UNCHANGED <<mutex_rc, rc, pc, copy, val, pending, alive>>,
         mutex_mem' = mutex_mem \/ (~ReadersHold /\ pc[Server] \notin InWrite)
  PROVE  Locks'
<1>1. TypeOK'
  BY DEF Locks, TypeOK
<1>2. Counted' = Counted
  BY DEF Counted
<1>3. RcExact'
  BY <1>2 DEF Locks, RcExact
<1>4. ReadersHold' = ReadersHold
  BY DEF ReadersHold
<1>5. MemOwned'
  BY <1>4 DEF Locks, MemOwned
<1> QED
  BY <1>1, <1>3, <1>5 DEF Locks

\* A process that is not in the board cannot get there while mutex_mem is taken
\* and neither the readers nor the interrupted write have it.
LEMMA OursKept ==
  ASSUME Locks, BoardIsOurs, [Next]_vars
  PROVE  BoardIsOurs'
<1>1. CASE UNCHANGED vars
  BY <1>1 DEF vars, BoardIsOurs, ReadersHold
<1>2. ASSUME NEW p \in Proc, ReadCall(p) \/ Acquire(p) \/ Release(p)
      PROVE  BoardIsOurs'
  <2> USE DEF Locks
  <2>1. CASE ReadCall(p) \/ ReadLock(p)
    BY <2>1 DEF TypeOK, BoardIsOurs, ReadersHold, ReadCall, ReadLock, Goto, sems, DownRc, InBoard, InWrite, Proc
  <2>2. CASE ReadCount(p)
    <3>1. ASSUME rc + 1 > 1 PROVE FALSE
      <4>1. PICK q \in Counted : TRUE
        BY <3>1, CountTells DEF RcExact, TypeOK
      <4>2. q \in Proc /\ pc[q] = "r_first"
        BY <4>1 DEF Counted, BoardIsOurs, ReadersHold
      <4> QED
        BY <2>2, <4>2 DEF RcExact, RcSection, ReadCount, Goto
    <3>2. \A q \in Proc : pc[q] \in RcSection => q = p
      BY <2>2 DEF RcExact, ReadCount, Goto, RcSection
    <3> QED
      BY <2>2, <3>1, <3>2
      DEF TypeOK, BoardIsOurs, ReadersHold, ReadCount, Goto, sems, InBoard, InWrite, RcSection, Proc
  <2>3. CASE ReadFirst(p)
    <3>1. rc # 1
      BY <2>3 DEF ReadFirst, FirstReader, DownMem, BoardIsOurs
    <3>2. p \in Counted
      BY <2>3 DEF ReadFirst, Goto, Counted
    <3>3. ReadersHold
      BY <2>3, <3>1, <3>2, CountTells DEF RcExact, ReadersHold, ReadFirst, Goto
    <3> QED
      BY <3>3 DEF BoardIsOurs
  <2>4. CASE ReadOpen(p) \/ ReadLo(p) \/ ReadHi(p) \/ ReadRelock(p) \/ ReadUncount(p)
    <3>1. pc[p] \in InBoard
      BY <2>4 DEF ReadOpen, ReadLo, ReadHi, ReadRelock, ReadUncount, Goto, InBoard
    <3> QED
      BY <3>1 DEF BoardIsOurs, ReadersHold
  <2>5. CASE ReadLast(p)
    <3>1. rc # 0
      BY <2>5 DEF ReadLast, Goto, BoardIsOurs, ReadersHold
    <3> QED
      BY <2>5, <3>1
      DEF TypeOK, BoardIsOurs, ReadersHold, ReadLast, LastReader, Goto, sems, InBoard, InWrite, Proc
  <2>6. CASE ReadClose(p)
    BY <2>6 DEF TypeOK, BoardIsOurs, ReadersHold, ReadClose, Goto, sems, UpRc, InBoard, InWrite, Proc
  <2> QED
    BY <1>2, <2>1, <2>2, <2>3, <2>4, <2>5, <2>6 DEF Acquire, Release
<1>3. ASSUME NEW v \in Data, WriteCall(v)
      PROVE  BoardIsOurs'
  BY <1>3 DEF Locks, TypeOK, BoardIsOurs, ReadersHold, WriteCall, Goto, sems, InBoard, InWrite, Proc
<1>4. ASSUME Write PROVE FALSE
  BY <1>4 DEF Write, WriteLock, WriteLo, WriteHi, WriteClose, Goto, DownMem, BoardIsOurs, InWrite
<1>5. CASE Broadcast
  BY <1>5 DEF Locks, TypeOK, BoardIsOurs, ReadersHold, Broadcast, Goto, sems, InBoard, InWrite, Proc
<1>6. ASSUME NEW c \in Clients, ClientExit(c)
      PROVE  BoardIsOurs'
  BY <1>6 DEF ClientExit, sems, BoardIsOurs, ReadersHold
<1> QED
  BY <1>1, <1>2, <1>3, <1>4, <1>5, <1>6 DEF Next, Calls

-----------------------------------------------------------------------------
(* Preservation.                                                           *)

\* The server starts with no handler and everything open.
LEMMA ShutdownInvInit == ShutdownInit => ShutdownInv
<1> SUFFICES ASSUME ShutdownInit PROVE ShutdownInv
  OBVIOUS
<1>1. Locks
  BY InvInit DEF ShutdownInit, Inv, Locks
<1>2. /\ frames = <<>> /\ server_socket = TRUE /\ stale = FALSE /\ seats = Clients /\ written = {}
      /\ removed = {} /\ told = {}
  BY DEF ShutdownInit
<1>3. Handlers
  <2>1. frames \in Seq(Frame) /\ DOMAIN frames = {}
    BY <1>2
  <2>2. stale \in BOOLEAN /\ server_socket \in BOOLEAN
    BY <1>2
  <2> QED
    BY <1>2, <2>1, <2>2 DEF Handlers
<1>5. HandlerOwns /\ Teardown
  BY <1>2 DEF HandlerOwns, Teardown
<1>4. NoIpcRemains
  BY DEF ShutdownInit, Init, NoIpcRemains, Proc
<1> QED
  BY <1>1, <1>3, <1>4, <1>5 DEF ShutdownInv

\* A step that leaves the handlers and the server's life alone keeps what is
\* said of them.
LEMMA HandlersRest ==
  ASSUME ShutdownInv, UNCHANGED handlerVars, alive'[Server] = alive[Server]
  PROVE  Handlers' /\ Teardown' /\ NoIpcRemains'
<1>1. /\ frames' = frames /\ server_socket' = server_socket /\ stale' = stale
      /\ seats' = seats /\ written' = written /\ removed' = removed /\ told' = told
  BY DEF handlerVars
<1>2. Handlers'
  BY <1>1 DEF ShutdownInv, Handlers
<1>3. Teardown'
  BY <1>1 DEF ShutdownInv, Teardown, Past, RemovedAt
<1>4. NoIpcRemains'
  BY <1>1 DEF ShutdownInv, NoIpcRemains, Depth
<1> QED
  BY <1>2, <1>3, <1>4

\* main(), alarm_handler and the clients, on any line of ipc.c.
LEMMA BoardSteps ==
  ASSUME ShutdownInv, [Next]_vars, UNCHANGED handlerVars, alive'[Server] = alive[Server]
  PROVE  ShutdownInv'
<1>1. Locks'
  BY LocksNext DEF ShutdownInv
<1>2. BoardIsOurs => BoardIsOurs'
  BY OursKept DEF ShutdownInv
<1>3. HandlerOwns'
  BY <1>2 DEF ShutdownInv, HandlerOwns, handlerVars
<1> QED
  BY <1>1, <1>3, HandlersRest DEF ShutdownInv

\* A process dies of a missing semaphore, of a message, or in its handler; if it
\* is the server, nothing of it remains or an exception is met.
LEMMA Deaths ==
  ASSUME ShutdownInv, NEW p \in Proc, alive' = [alive EXCEPT ![p] = FALSE],
         UNCHANGED <<boardVars, pc, frames, server_socket, seats, stale, written, removed>>,
         told' \subseteq Clients,
         p = Server => removed = Ipcs \/ Depth >= 2 \/ stale \/ written # {}
  PROVE  ShutdownInv'
<1>1. /\ frames' = frames /\ server_socket' = server_socket /\ stale' = stale
      /\ seats' = seats /\ written' = written /\ removed' = removed
  OBVIOUS
<1>2. Locks'
  BY LocksOfSurvivors DEF ShutdownInv
<1>3. Handlers'
  BY <1>1 DEF ShutdownInv, Handlers
<1>4. Teardown'
  BY <1>1 DEF ShutdownInv, Teardown, Past, RemovedAt
<1>5. mutex_mem' = mutex_mem /\ rc' = rc /\ pc' = pc
  BY DEF boardVars
<1>6. HandlerOwns'
  BY <1>1, <1>5 DEF ShutdownInv, HandlerOwns, BoardIsOurs, ReadersHold
<1>7. p # Server => alive'[Server] = alive[Server]
  BY DEF ShutdownInv, Locks, TypeOK, Proc
<1>8. NoIpcRemains'
  BY <1>1, <1>7 DEF ShutdownInv, NoIpcRemains, Depth
<1> QED
  BY <1>2, <1>3, <1>4, <1>6, <1>8 DEF ShutdownInv

\* Only the seats change, by a server that lives.
LEMMA SeatsChange ==
  ASSUME ShutdownInv, alive[Server], UNCHANGED <<vars, frames, server_socket, removed, told>>,
         stale' \in BOOLEAN, seats' \subseteq Clients, written' \subseteq seats'
  PROVE  ShutdownInv'
<1>1. frames' = frames /\ server_socket' = server_socket /\ removed' = removed /\ told' = told
  OBVIOUS
<1>2. mutex_mem' = mutex_mem /\ rc' = rc /\ pc' = pc /\ alive' = alive
  BY DEF vars
<1>3. Locks'
  BY LocksNext DEF ShutdownInv
<1>4. Handlers'
  <2>1. frames \in Seq(Frame) /\ server_socket \in BOOLEAN
    BY DEF ShutdownInv, Handlers
  <2>2. removed \subseteq Ipcs /\ told \subseteq Clients
    BY DEF ShutdownInv, Handlers
  <2>3. /\ \A j, k \in DOMAIN frames : frames[j].signal = frames[k].signal => j = k
        /\ \A k \in DOMAIN frames : frames[k].at \in Unwritten => frames[k].writes >= 1
    BY DEF ShutdownInv, Handlers
  <2> QED
    BY <1>1, <2>1, <2>2, <2>3 DEF Handlers, Unwritten
<1>5. Teardown'
  <2>1. Teardown /\ RemovedAt' = RemovedAt
    BY DEF ShutdownInv, RemovedAt
  <2>2. \A k \in DOMAIN frames : Past(k)' <=> Past(k)
    BY <1>1 DEF Past
  <2> QED
    BY <1>1, <2>1, <2>2 DEF Teardown
<1>6. HandlerOwns'
  BY <1>1, <1>2 DEF ShutdownInv, HandlerOwns, BoardIsOurs, ReadersHold
<1>7. NoIpcRemains'
  BY <1>2 DEF NoIpcRemains
<1> QED
  BY <1>3, <1>4, <1>5, <1>6, <1>7 DEF ShutdownInv

\* A signal puts one more handler on the stack, on its first line.
LEMMA Interrupted ==
  ASSUME ShutdownInv, NEW s \in Signals, Interrupt(s)
  PROVE  ShutdownInv'
<1>1. PICK f : f = [signal |-> s, at |-> "close", writes |-> HandlerWrites]
  OBVIOUS
<1>2. f \in Frame /\ f.signal = s /\ f.at = "close" /\ f.writes >= 1
  BY <1>1, ShutdownAssumption DEF Frame, HandlerLabels
<1>3. frames \in Seq(Frame) /\ frames' = Append(frames, f)
  BY <1>1 DEF Interrupt, ShutdownInv, Handlers
<1>4. /\ frames' \in Seq(Frame) /\ DOMAIN frames' = DOMAIN frames \cup {Len(frames) + 1}
      /\ frames'[Len(frames) + 1] = f
      /\ \A k \in DOMAIN frames : k # Len(frames) + 1 /\ frames'[k] = frames[k]
  BY <1>2, <1>3
<1>5. /\ server_socket' = server_socket /\ stale' = stale
      /\ seats' = seats /\ written' = written /\ removed' = removed /\ told' = told /\ UNCHANGED vars
  BY DEF Interrupt
<1>6. \A k \in DOMAIN frames : frames[k].signal # s
  BY DEF Interrupt
<1>7. Handlers'
  <2>1. \A j, k \in DOMAIN frames' : frames'[j].signal = frames'[k].signal => j = k
    BY <1>2, <1>4, <1>6 DEF ShutdownInv, Handlers
  <2>2. \A k \in DOMAIN frames' : frames'[k].at \in Unwritten => frames'[k].writes >= 1
    BY <1>2, <1>4 DEF ShutdownInv, Handlers
  <2> QED
    BY <1>4, <1>5, <2>1, <2>2 DEF ShutdownInv, Handlers, Unwritten
<1>8. Locks'
  BY <1>5, LocksNext DEF ShutdownInv
<1>9. HandlerOwns'
  <2>1. BoardIsOurs' = BoardIsOurs
    BY <1>5 DEF vars, BoardIsOurs, ReadersHold
  <2>2. (\E k \in DOMAIN frames' : frames'[k].at \in InSection)
           => \E k \in DOMAIN frames : frames[k].at \in InSection
    BY <1>2, <1>4 DEF InSection
  <2> QED
    BY <2>1, <2>2 DEF ShutdownInv, HandlerOwns
<1>10. Teardown'
  <2>1. \A k \in DOMAIN frames' : Past(k)' => k \in DOMAIN frames /\ Past(k)
    BY <1>2, <1>4 DEF Past
  <2>2. \A k \in DOMAIN frames : Past(k) => k \in DOMAIN frames' /\ Past(k)'
    BY <1>4 DEF Past
  <2>3. \A k \in DOMAIN frames : frames'[k] = frames[k]
    BY <1>4
  <2>4. RemovedAt' = RemovedAt
    BY DEF RemovedAt
  <2> QED
    BY <1>5, <2>1, <2>2, <2>3, <2>4 DEF ShutdownInv, Teardown
<1>11. NoIpcRemains'
  BY <1>5 DEF Interrupt, vars, NoIpcRemains
<1> QED
  BY <1>7, <1>8, <1>9, <1>10, <1>11 DEF ShutdownInv

-----------------------------------------------------------------------------
(* interrupt_handler, line by line.                                        *)

\* No handler in the section: mutex_mem is the processes' affair.
LEMMA StepsOutside ==
  ASSUME ShutdownInv, NEW from \in HandlerLabels, NEW to \in HandlerLabels,
         Step(from, to), to \notin InSection, UNCHANGED vars
  PROVE  Locks' /\ HandlerOwns' /\ NoIpcRemains'
<1>1. Locks'
  BY LocksNext DEF ShutdownInv
<1>2. mutex_mem' = mutex_mem /\ rc' = rc /\ pc' = pc /\ alive' = alive
  BY DEF vars
<1>3. BoardIsOurs' = BoardIsOurs
  BY <1>2 DEF BoardIsOurs, ReadersHold
<1>4. HandlerOwns'
  BY <1>3, OwnsMove DEF ShutdownInv
<1>5. alive[Server]
  BY DEF Step
<1> QED
  BY <1>1, <1>2, <1>4, <1>5 DEF NoIpcRemains

\* shutdown_socket(server_socket): the first handler to get past its first line.
LEMMA ClosingServerSocket ==
  ASSUME ShutdownInv, CloseServerSocket
  PROVE  ShutdownInv'
<1>1. Step("close", "tell") /\ {"close", "tell"} \subseteq HandlerLabels
  BY DEF CloseServerSocket, HandlerLabels
<1>2. /\ server_socket = TRUE /\ server_socket' = FALSE /\ UNCHANGED vars
      /\ stale' = stale /\ seats' = seats /\ written' = written /\ removed' = removed /\ told' = told
  BY DEF CloseServerSocket, ShutdownInv, Handlers
<1>3. Locks' /\ HandlerOwns' /\ NoIpcRemains'
  BY <1>1, <1>2, StepsOutside DEF InSection
<1>4. Handlers'
  <2>1. /\ server_socket' \in BOOLEAN /\ stale' \in BOOLEAN
        /\ seats' \subseteq Clients /\ written' \subseteq seats'
        /\ removed' \subseteq Ipcs /\ told' \subseteq Clients
    BY <1>2 DEF ShutdownInv, Handlers
  <2> QED
    BY <1>1, <2>1, HandlersMove DEF ShutdownInv, Unwritten
<1>5. Teardown'
  <2>1. DOMAIN frames' = DOMAIN frames
    BY <1>1, Moved DEF ShutdownInv
  <2>2. Depth \in DOMAIN frames
    BY <1>1, Moved DEF ShutdownInv
  <2>3. \A k \in DOMAIN frames : k # Depth => frames'[k].at = frames[k].at
    BY <1>1, MovedFields DEF ShutdownInv
  <2>4. frames'[Depth].at = "tell"
    BY <1>1, MovedFields DEF ShutdownInv
  <2>5. \A k \in DOMAIN frames : frames[k].at = "close"
    BY <1>2 DEF ShutdownInv, Teardown, Past
  <2>6. \A k \in DOMAIN frames' : Past(k)' <=> k = Depth
    BY <2>1, <2>3, <2>4, <2>5 DEF Past
  <2>7. removed' = {} /\ RemovedAt' = RemovedAt /\ RemovedAt["tell"] = {}
    BY <1>2 DEF ShutdownInv, Teardown, RemovedAt, HandlerLabels
  <2> QED
    BY <1>2, <2>1, <2>2, <2>4, <2>6, <2>7 DEF Teardown
<1> QED
  BY <1>3, <1>4, <1>5 DEF ShutdownInv

\* send_message_everybody and the hanging up of clear_lobby.
LEMMA TellingAndHangingUp ==
  ASSUME ShutdownInv, Tell \/ HangUp
  PROVE  ShutdownInv'
<1>1. PICK from \in {"tell", "hang_up"}, to \in {"lock", "remove_mem"} :
        /\ from = "tell" <=> to = "lock"
        /\ Step(from, to)
  BY DEF Tell, HangUp
<1>2. /\ {from, to} \subseteq HandlerLabels \ {"close"}
      /\ to \notin InSection
      /\ to \in Unwritten => from \in Unwritten
  BY <1>1 DEF HandlerLabels, InSection, Unwritten
<1>3. UNCHANGED vars /\ server_socket' = server_socket /\ removed' = removed
  BY DEF Tell, HangUp
<1>4. /\ stale' \in BOOLEAN /\ seats' \subseteq Clients /\ written' \subseteq seats'
      /\ told' \subseteq Clients
  <2>1. CASE Tell
    <3>1. seats' = seats /\ stale' = stale /\ told' \subseteq seats
      BY <2>1 DEF Tell
    <3>2. written' = written \cup {c \in told' : ~alive[c]}
      BY <2>1 DEF Tell
    <3> QED
      BY <3>1, <3>2 DEF ShutdownInv, Handlers
  <2>2. CASE HangUp
    BY <2>2 DEF HangUp, ShutdownInv, Handlers
  <2> QED
    BY <2>1, <2>2
<1>5. Locks' /\ HandlerOwns' /\ NoIpcRemains'
  BY <1>1, <1>2, <1>3, StepsOutside
<1>6. server_socket' \in BOOLEAN /\ removed' \subseteq Ipcs
  BY <1>3 DEF ShutdownInv, Handlers
<1>7. Handlers'
  BY <1>1, <1>2, <1>4, <1>6, HandlersMove DEF ShutdownInv
<1>8. RemovedAt[from] = RemovedAt[to]
  BY <1>1 DEF RemovedAt, HandlerLabels
<1>9. Teardown'
  BY <1>1, <1>2, <1>3, <1>8, TeardownMoves DEF ShutdownInv
<1> QED
  BY <1>5, <1>7, <1>9 DEF ShutdownInv

\* kill_ipcs, in its order.
LEMMA Killing ==
  ASSUME ShutdownInv, KillIpcs
  PROVE  ShutdownInv'
<1> DEFINE After == [l \in {"remove_mem", "remove_rc", "remove_seg"} |->
                       CASE l = "remove_mem" -> "remove_rc"
                         [] l = "remove_rc"  -> "remove_seg"
                         [] l = "remove_seg" -> "return"]
           Kills == [l \in {"remove_mem", "remove_rc", "remove_seg"} |->
                       CASE l = "remove_mem" -> "mutex_mem"
                         [] l = "remove_rc"  -> "mutex_rc"
                         [] l = "remove_seg" -> "segments"]
<1>1. PICK from \in {"remove_mem", "remove_rc", "remove_seg"} :
        Remove(from, After[from], Kills[from])
  BY DEF KillIpcs
<1>2. PICK to : to = After[from]
  OBVIOUS
<1>3. /\ {from, to} \subseteq HandlerLabels \ {"close"}
      /\ to \notin InSection /\ to \notin Unwritten
  BY <1>2 DEF HandlerLabels, InSection, Unwritten
<1>4. /\ Step(from, to) /\ UNCHANGED vars /\ server_socket' = server_socket
      /\ stale' = stale /\ seats' = seats /\ written' = written /\ told' = told
      /\ removed' = removed \cup {Kills[from]}
  BY <1>1, <1>2 DEF Remove
<1>5. Locks' /\ HandlerOwns' /\ NoIpcRemains'
  BY <1>3, <1>4, StepsOutside
<1>6. Kills[from] \in Ipcs
  BY DEF Ipcs
<1>7. /\ server_socket' \in BOOLEAN /\ stale' \in BOOLEAN
      /\ seats' \subseteq Clients /\ written' \subseteq seats'
      /\ removed' \subseteq Ipcs /\ told' \subseteq Clients
  BY <1>4, <1>6 DEF ShutdownInv, Handlers
<1>8. Handlers'
  BY <1>3, <1>4, <1>7, HandlersMove DEF ShutdownInv
<1>9. RemovedAt[to] = RemovedAt[from] \cup {Kills[from]}
  BY <1>2 DEF RemovedAt, HandlerLabels, Ipcs
<1>10. Teardown'
  BY <1>3, <1>4, <1>9, TeardownMoves DEF ShutdownInv
<1> QED
  BY <1>5, <1>8, <1>10 DEF ShutdownInv

\* down(), and a half of what clear_lobby writes: the board is the handler's.
LEMMA HandlerWriting ==
  ASSUME ShutdownInv, HandlerLock \/ HandlerLo \/ HandlerHi
  PROVE  ShutdownInv'
<1>1. PICK from \in {"lock", "lo", "hi"}, to \in InSection :
        /\ from = "lock" <=> HandlerLock
        /\ Step(from, to)
  <2>1. CASE HandlerLock
    BY <2>1 DEF HandlerLock, HandlerLo, HandlerHi, InSection
  <2>2. CASE ~HandlerLock
    BY <2>2 DEF HandlerLo, HandlerHi, InSection
  <2> QED
    BY <2>1, <2>2
<1>2. {from, to} \subseteq (HandlerLabels \ {"close"}) \cap Unwritten
  BY <1>1 DEF HandlerLabels, InSection, Unwritten
<1>3. /\ UNCHANGED <<mutex_rc, rc, pc, copy, val, pending, alive>>
      /\ server_socket' = server_socket /\ stale' = stale
      /\ seats' = seats /\ written' = written /\ removed' = removed /\ told' = told
  BY DEF HandlerLock, HandlerLo, HandlerHi, sems
<1>4. board' \in Halves
  BY DataAssumption DEF HandlerLock, HandlerLo, HandlerHi, ShutdownInv, Locks, TypeOK, Halves
<1>5. BoardIsOurs'
  <2>1. mutex_mem' = 0 /\ ~ReadersHold /\ pc[Server] \notin InWrite
    <3>1. CASE HandlerLock
      BY <3>1 DEF HandlerLock, DownMem, ShutdownInv, Locks, TypeOK, MemOwned
    <3>2. CASE ~HandlerLock
      <4>1. from \in InSection /\ mutex_mem' = mutex_mem
        BY <1>1, <3>2 DEF InSection, HandlerLo, HandlerHi, sems
      <4>2. Depth \in DOMAIN frames /\ frames[Depth].at = from
        BY <1>1, <1>2, Moved DEF ShutdownInv
      <4> QED
        BY <4>1, <4>2 DEF ShutdownInv, HandlerOwns, BoardIsOurs
    <3> QED
      BY <3>1, <3>2
  <2> QED
    BY <1>3, <2>1 DEF BoardIsOurs, ReadersHold
<1>6. Locks'
  <2>1. mutex_mem' \in {0, 1} /\ ~ReadersHold /\ pc[Server] \notin InWrite
    BY <1>3, <1>5 DEF BoardIsOurs, ReadersHold
  <2> QED
    BY <1>3, <1>4, <2>1, LocksOfHandler DEF ShutdownInv
<1>7. Handlers'
  <2>1. /\ server_socket' \in BOOLEAN /\ stale' \in BOOLEAN
        /\ seats' \subseteq Clients /\ written' \subseteq seats'
        /\ removed' \subseteq Ipcs /\ told' \subseteq Clients
    BY <1>3 DEF ShutdownInv, Handlers
  <2> QED
    BY <1>1, <1>2, <2>1, HandlersMove DEF ShutdownInv
<1>8. HandlerOwns'
  BY <1>5 DEF HandlerOwns
<1>9. RemovedAt[from] = RemovedAt[to]
  BY <1>1 DEF RemovedAt, HandlerLabels, InSection
<1>10. Teardown'
  BY <1>1, <1>2, <1>3, <1>9, TeardownMoves DEF ShutdownInv
<1>11. NoIpcRemains'
  BY <1>1, <1>3 DEF Step, NoIpcRemains
<1> QED
  BY <1>6, <1>7, <1>8, <1>10, <1>11 DEF ShutdownInv

\* up(), after a write of clear_lobby.
LEMMA HandlerUnlocking ==
  ASSUME ShutdownInv, HandlerUnlock
  PROVE  ShutdownInv'
<1>1. PICK f : f = [frames[Depth] EXCEPT !.writes = @ - 1,
                      !.at = IF Inner.writes > 1 THEN "lock" ELSE "hang_up"]
  OBVIOUS
<1>2. frames \in Seq(Frame) /\ Depth \in DOMAIN frames /\ frames[Depth] \in Frame
  BY DEF HandlerUnlock, ShutdownInv, Handlers, Depth
<1>3. frames[Depth].at = "unlock" /\ frames[Depth].writes >= 1
  BY <1>2 DEF HandlerUnlock, Inner, ShutdownInv, Handlers, Unwritten
<1>4. /\ f \in Frame /\ f.signal = frames[Depth].signal
      /\ f.at \in {"lock", "hang_up"}
      /\ f.at = "lock" => f.writes >= 1
  <2>1. frames[Depth].writes \in 0..HandlerWrites
    BY <1>2 DEF Frame
  <2>2. frames[Depth].writes - 1 \in 0..HandlerWrites
    BY <1>3, <2>1, ShutdownAssumption
  <2>3. f = [signal |-> frames[Depth].signal, writes |-> frames[Depth].writes - 1,
             at |-> IF frames[Depth].writes > 1 THEN "lock" ELSE "hang_up"]
    BY <1>1, <1>2 DEF Frame, Inner
  <2>4. frames[Depth].signal \in Signals
    BY <1>2 DEF Frame
  <2>5. f \in Frame
    BY <2>2, <2>3, <2>4 DEF Frame, HandlerLabels
  <2>6. frames[Depth].writes > 1 => frames[Depth].writes - 1 >= 1
    BY <2>1
  <2> QED
    BY <2>3, <2>5, <2>6
<1>5. frames' = [frames EXCEPT ![Depth] = f]
  BY <1>1 DEF HandlerUnlock
<1>6. /\ frames' \in Seq(Frame) /\ DOMAIN frames' = DOMAIN frames
      /\ frames'[Depth] = f
      /\ \A k \in DOMAIN frames : k # Depth => frames'[k] = frames[k]
  BY <1>2, <1>4, <1>5, ExceptSeq
<1>7. /\ UNCHANGED <<mutex_rc, rc, board, pc, copy, val, pending, alive>>
      /\ server_socket' = server_socket /\ stale' = stale
      /\ seats' = seats /\ written' = written /\ removed' = removed /\ told' = told /\ alive[Server]
  BY DEF HandlerUnlock
<1>8. BoardIsOurs /\ mutex_mem' = 1
  BY <1>2, <1>3 DEF ShutdownInv, HandlerOwns, InSection, BoardIsOurs, HandlerUnlock, UpMem
<1>9. Locks'
  <2>1. board' \in Halves
    BY <1>7 DEF ShutdownInv, Locks, TypeOK
  <2> QED
    BY <1>7, <1>8, <2>1, LocksOfHandler DEF ShutdownInv, BoardIsOurs
<1>10. Handlers'
  <2>1. \A j, k \in DOMAIN frames' : frames'[j].signal = frames'[k].signal => j = k
    BY <1>2, <1>4, <1>6 DEF ShutdownInv, Handlers
  <2>2. \A k \in DOMAIN frames' : frames'[k].at \in Unwritten => frames'[k].writes >= 1
    BY <1>2, <1>4, <1>6 DEF ShutdownInv, Handlers, Unwritten
  <2> QED
    BY <1>6, <1>7, <2>1, <2>2 DEF ShutdownInv, Handlers, Unwritten
<1>11. \A k \in DOMAIN frames : Past(k) => k = Depth
  BY <1>2, <1>3 DEF ShutdownInv, Teardown, Past
<1>12. \A k \in DOMAIN frames' : Past(k)' <=> k = Depth
  BY <1>2, <1>4, <1>6, <1>11 DEF Past
<1>13. HandlerOwns'
  BY <1>2, <1>4, <1>6, <1>12 DEF HandlerOwns, InSection, Past
<1>14. Teardown'
  <2>1. ~server_socket /\ removed = RemovedAt["unlock"]
    BY <1>2, <1>3 DEF ShutdownInv, Teardown, Past
  <2>2. RemovedAt["unlock"] = RemovedAt[f.at] /\ RemovedAt' = RemovedAt
    BY <1>4 DEF RemovedAt, HandlerLabels
  <2> QED
    BY <1>2, <1>6, <1>7, <1>12, <2>1, <2>2 DEF Teardown
<1>15. NoIpcRemains'
  BY <1>7 DEF NoIpcRemains
<1> QED
  BY <1>9, <1>10, <1>13, <1>14, <1>15 DEF ShutdownInv

\* The innermost handler returns, with nothing left to remove.
LEMMA Returning ==
  ASSUME ShutdownInv, HandlerReturns
  PROVE  ShutdownInv'
<1>1. frames \in Seq(Frame) /\ Depth \in DOMAIN frames /\ frames[Depth].at = "return"
  BY DEF HandlerReturns, Inner, ShutdownInv, Handlers, Depth
<1>2. /\ frames' \in Seq(Frame) /\ DOMAIN frames' = DOMAIN frames \ {Depth}
      /\ \A k \in DOMAIN frames' : frames'[k] = frames[k]
  <2>1. Depth \in Nat \ {0} /\ DOMAIN frames = 1..Depth /\ frames' = SubSeq(frames, 1, Depth - 1)
    BY <1>1 DEF Depth, HandlerReturns
  <2>2. \A i \in 1..(Depth - 1) : i \in DOMAIN frames /\ frames[i] \in Frame
    BY <1>1, <2>1
  <2>3. frames' \in Seq(Frame)
    BY <2>1, <2>2, SubSeqProperties
  <2>4. Len(frames') = Depth - 1
    BY <2>1, <2>2, SubSeqProperties
  <2>5. \A i \in 1..(Depth - 1) : frames'[i] = frames[i]
    BY <2>1
  <2> QED
    BY <2>1, <2>3, <2>4, <2>5
<1>3. /\ server_socket' = server_socket /\ stale' = stale
      /\ seats' = seats /\ written' = written /\ removed' = removed /\ told' = told
      /\ UNCHANGED vars /\ alive[Server]
  BY DEF HandlerReturns
<1>4. ~server_socket /\ removed = Ipcs
  BY <1>1 DEF ShutdownInv, Teardown, Past, RemovedAt, HandlerLabels
<1>5. Handlers'
  BY <1>2, <1>3 DEF ShutdownInv, Handlers
<1>6. Locks'
  BY <1>3, LocksNext DEF ShutdownInv
<1>7. HandlerOwns'
  <2>1. BoardIsOurs' = BoardIsOurs
    BY <1>3 DEF vars, BoardIsOurs, ReadersHold
  <2> QED
    BY <1>2, <2>1 DEF ShutdownInv, HandlerOwns
<1>8. Teardown'
  <2>1. \A k \in DOMAIN frames' : k \in DOMAIN frames /\ ~Past(k)'
    BY <1>1, <1>2 DEF ShutdownInv, Teardown, Past
  <2> QED
    BY <1>3, <1>4, <2>1 DEF Teardown, Ipcs
<1>9. NoIpcRemains'
  BY <1>3 DEF NoIpcRemains, vars
<1> QED
  BY <1>5, <1>6, <1>7, <1>8, <1>9 DEF ShutdownInv

-----------------------------------------------------------------------------

\* A process that finds a semaphore gone, and the last messages of a client.
LEMMA DeathSteps ==
  ASSUME ShutdownInv, NEW p \in Proc,
         DiesOfSemop(p) \/ (p \in Clients /\ ShutDownReceived(p))
  PROVE  ShutdownInv'
<1>1. /\ alive' = [alive EXCEPT ![p] = FALSE] /\ told' \subseteq Clients
      /\ UNCHANGED <<boardVars, pc, frames, server_socket, seats, stale, written, removed>>
  BY DEF DiesOfSemop, ShutDownReceived, handlerVars, ShutdownInv, Handlers
<1>2. ASSUME p = Server PROVE removed = Ipcs
  <2>1. frames = <<>> /\ removed # {}
    BY <1>2, ClientsAssumption DEF DiesOfSemop, Runs, SemopFails
  <2>2. server_socket => removed = {}
    BY DEF ShutdownInv, Teardown
  <2>3. ~server_socket => removed = Ipcs \/ \E k \in DOMAIN frames : Past(k)
    BY DEF ShutdownInv, Teardown
  <2> QED
    BY <2>1, <2>2, <2>3 DEF ShutdownInv, Handlers
<1> QED
  BY <1>1, <1>2, Deaths

\* The end of the server in its handler: exit(EXIT_FAILURE) at a descriptor that is
\* closed, or SIGPIPE.
LEMMA HandlerDeaths ==
  ASSUME ShutdownInv, CloseFails \/ HangUpFails \/ TellFails
  PROVE  ShutdownInv'
<1>1. /\ alive' = [alive EXCEPT ![Server] = FALSE] /\ told' \subseteq Clients
      /\ UNCHANGED <<boardVars, pc, frames, server_socket, seats, stale, written, removed>>
  BY DEF CloseFails, HangUpFails, TellFails, ServerExits, handlerVars, ShutdownInv, Handlers
<1>2. removed = Ipcs \/ Depth >= 2 \/ stale \/ written # {}
  <2>1. CASE HangUpFails \/ TellFails
    BY <2>1 DEF HangUpFails, TellFails
  <2>2. CASE CloseFails
    <3>1. ~server_socket /\ frames # <<>> /\ frames[Depth].at = "close"
      BY <2>2 DEF CloseFails, Inner
    <3>2. ASSUME NEW k \in DOMAIN frames, Past(k) PROVE Depth >= 2
      <4>1. k # Depth
        BY <3>1, <3>2 DEF Past
      <4> QED
        BY <4>1 DEF Depth, ShutdownInv, Handlers
    <3> QED
      BY <3>1, <3>2 DEF ShutdownInv, Teardown
  <2> QED
    BY <2>1, <2>2
<1>3. Server \in Proc
  BY DEF Proc
<1> QED
  BY <1>1, <1>2, <1>3, Deaths

\* main(), alarm_handler and the clients.
LEMMA ProcessSteps ==
  ASSUME ShutdownInv,
         \/ \E p \in Proc : Takes(p) \/ Passes(p) \/ Asks(p)
         \/ MainWriteCall \/ MainWriteLock \/ MainWrites \/ MainShutsDown
         \/ \E c \in Clients : ClientLeaves(c)
  PROVE  ShutdownInv'
<1>1. UNCHANGED handlerVars
  BY DEF Takes, Passes, Asks, MainWriteCall, MainWriteLock, MainWrites,
         MainShutsDown, ClientLeaves
<1>2. CASE \E p \in Proc : Takes(p) \/ Passes(p) \/ Asks(p)
  <2>1. PICK p \in Proc : ReadCall(p) \/ Acquire(p) \/ Release(p)
    BY <1>2 DEF Takes, Passes, Asks
  <2>2. alive' = alive
    BY <2>1 DEF ReadCall, Acquire, Release, ReadLock, ReadFirst, ReadRelock, ReadCount,
                ReadOpen, ReadLo, ReadHi, ReadUncount, ReadLast, ReadClose, Goto
  <2>3. Next
    BY <2>1 DEF Next, Calls
  <2> QED
    BY <1>1, <2>2, <2>3, BoardSteps
<1>3. CASE MainWriteCall \/ MainWriteLock \/ MainWrites \/ MainShutsDown
  <2>1. (\E v \in Data : WriteCall(v)) \/ Write
    BY <1>3, DataAssumption
    DEF MainWriteCall, MainWriteLock, MainWrites, MainShutsDown, Write
  <2>2. alive' = alive
    BY <2>1 DEF WriteCall, Write, WriteLock, WriteLo, WriteHi, WriteClose, Goto
  <2>3. Next
    BY <2>1 DEF Next, Calls
  <2> QED
    BY <1>1, <2>2, <2>3, BoardSteps
<1>4. CASE \E c \in Clients : ClientLeaves(c)
  <2>1. PICK c \in Clients : ClientExit(c)
    BY <1>4 DEF ClientLeaves
  <2>2. alive'[Server] = alive[Server]
    BY <2>1, ClientsAssumption DEF ClientExit, ShutdownInv, Locks, TypeOK, Proc
  <2>3. Next
    BY <2>1 DEF Next
  <2> QED
    BY <1>1, <2>2, <2>3, BoardSteps
<1> QED
  BY <1>2, <1>3, <1>4

\* remove_player, clear_lobby and add_client, in main().
LEMMA SeatSteps ==
  ASSUME ShutdownInv, MainCloses \/ MainSettles \/ \E c \in Clients : MainWelcomes(c)
  PROVE  ShutdownInv'
<1>1. alive[Server] /\ UNCHANGED <<vars, frames, server_socket, removed, told>>
  BY DEF MainCloses, MainSettles, MainWelcomes
<1>2. stale' \in BOOLEAN /\ seats' \subseteq Clients /\ written' \subseteq seats'
  BY DEF MainCloses, MainSettles, MainWelcomes, ShutdownInv, Handlers
<1> QED
  BY <1>1, <1>2, SeatsChange

\* A message to some players: the board and its semaphores have nothing to do with it.
LEMMA Sending ==
  ASSUME ShutdownInv, MainSends
  PROVE  ShutdownInv'
<1>1. PICK to \in SUBSET seats :
        /\ \A c \in to : alive[c] => pending[c] + ReadsPerMessage <= MaxPending
        /\ pending' = [c \in Clients |-> IF c \in to /\ alive[c] THEN pending[c] + ReadsPerMessage
                                                                ELSE pending[c]]
        /\ written' = written \cup {c \in to : ~alive[c]}
  BY DEF MainSends
<1>2. /\ mutex_mem' = mutex_mem /\ mutex_rc' = mutex_rc /\ rc' = rc /\ board' = board
      /\ pc' = pc /\ copy' = copy /\ val' = val /\ alive' = alive
      /\ frames' = frames /\ server_socket' = server_socket /\ stale' = stale /\ seats' = seats
      /\ removed' = removed /\ told' = told
  BY DEF MainSends, sems
<1>3. pending' \in [Clients -> Nat]
  <2>1. pending \in [Clients -> Nat]
    BY DEF ShutdownInv, Locks, TypeOK
  <2> QED
    BY <1>1, <2>1 DEF ReadsPerMessage
<1>4. Locks'
  <2>1. TypeOK'
    BY <1>2, <1>3 DEF ShutdownInv, Locks, TypeOK
  <2>2. Counted' = Counted
    BY <1>2 DEF Counted
  <2> QED
    BY <1>2, <2>1, <2>2 DEF ShutdownInv, Locks, RcExact, MemOwned, ReadersHold
<1>5. Handlers'
  BY <1>1, <1>2 DEF ShutdownInv, Handlers
<1>6. HandlerOwns'
  BY <1>2 DEF ShutdownInv, HandlerOwns, BoardIsOurs, ReadersHold
<1>7. Teardown'
  BY <1>2 DEF ShutdownInv, Teardown, Past, RemovedAt
<1>8. NoIpcRemains'
  BY <1>2 DEF MainSends, NoIpcRemains
<1> QED
  BY <1>4, <1>5, <1>6, <1>7, <1>8 DEF ShutdownInv

\* The second message to a player who has left.
LEMMA DyingOfPipe ==
  ASSUME ShutdownInv, MainDiesOfPipe
  PROVE  ShutdownInv'
<1>1. /\ alive' = [alive EXCEPT ![Server] = FALSE] /\ written # {} /\ told' \subseteq Clients
      /\ UNCHANGED <<boardVars, pc, frames, server_socket, seats, stale, written, removed>>
  BY DEF MainDiesOfPipe, ServerExits, handlerVars, ShutdownInv, Handlers
<1> QED
  BY <1>1, Deaths DEF Proc

\* Every step preserves the invariant, whatever line a signal arrives on.
LEMMA ShutdownInvNext == ShutdownInv /\ [ShutdownNext]_shutdownVars => ShutdownInv'
<1> SUFFICES ASSUME ShutdownInv, [ShutdownNext]_shutdownVars PROVE ShutdownInv'
  OBVIOUS
<1>1. ASSUME \/ \E p \in Proc : Takes(p) \/ Passes(p) \/ Asks(p)
             \/ MainWriteCall \/ MainWriteLock \/ MainWrites \/ MainShutsDown
             \/ \E c \in Clients : ClientLeaves(c)
      PROVE  ShutdownInv'
  BY <1>1, ProcessSteps
<1>2. ASSUME NEW p \in Proc, DiesOfSemop(p) PROVE ShutdownInv'
  BY <1>2, DeathSteps
<1>3. ASSUME NEW c \in Clients, ShutDownReceived(c) PROVE ShutdownInv'
  BY <1>3, DeathSteps DEF Proc
<1>4. ASSUME \/ MainCloses \/ MainSettles
             \/ \E c \in Clients : MainWelcomes(c)
      PROVE  ShutdownInv'
  BY <1>4, SeatSteps
<1>8. CASE MainSends \/ MainDiesOfPipe
  BY <1>8, Sending, DyingOfPipe
<1>5. ASSUME NEW s \in Signals, Interrupt(s) PROVE ShutdownInv'
  BY <1>5, Interrupted
<1>6. CASE HandlerLock \/ HandlerStep
  BY <1>6, ClosingServerSocket, HandlerDeaths, TellingAndHangingUp, HandlerWriting,
     HandlerUnlocking, Killing, Returning
  DEF HandlerStep
<1>7. CASE UNCHANGED shutdownVars
  <2>1. UNCHANGED handlerVars /\ UNCHANGED vars
    BY <1>7 DEF shutdownVars
  <2>2. alive' = alive
    BY <2>1 DEF vars
  <2> QED
    BY <2>1, <2>2, BoardSteps
<1> QED
  BY <1>1, <1>2, <1>3, <1>4, <1>5, <1>6, <1>7, <1>8 DEF ShutdownNext

\* The server, its handlers and its clients keep the invariant.
THEOREM ShutdownInvariance == ShutdownSpec => []ShutdownInv
<1> QED
  BY ShutdownInvInit, ShutdownInvNext, PTL DEF ShutdownSpec

\* The stack of handlers has each signal once, and no semaphore exceeds one,
\* the handler's down() and up() included.
THEOREM ShutdownTypeOKThm == ShutdownSpec => []ShutdownTypeOK
<1>1. ShutdownInv => ShutdownTypeOK
  <2> SUFFICES ASSUME ShutdownInv PROVE ShutdownTypeOK
    OBVIOUS
  <2>1. \A k \in DOMAIN frames : frames[k] \in Frame
    BY DEF ShutdownInv, Handlers
  <2>2. \A k \in DOMAIN frames : /\ frames[k].signal \in Signals
                                 /\ frames[k].at \in HandlerLabels
                                 /\ frames[k].writes \in 0..HandlerWrites
    BY <2>1 DEF Frame
  <2>3. \A j, k \in DOMAIN frames : frames[j].signal = frames[k].signal => j = k
    BY DEF ShutdownInv, Handlers
  <2> QED
    BY <2>2, <2>3 DEF ShutdownInv, Locks, Handlers, ShutdownTypeOK
<1> QED
  BY <1>1, ShutdownInvariance, PTL

\* While clear_lobby writes in a handler nobody, the interrupted call included,
\* is in the middle of a copy.
THEOREM HandlerWritesAloneThm == ShutdownSpec => []HandlerWritesAlone
<1>1. ShutdownInv => HandlerWritesAlone
  <2> SUFFICES ASSUME ShutdownInv, NEW k \in DOMAIN frames, frames[k].at \in {"lo", "hi"},
                      NEW p \in Proc
               PROVE  ~Reading(p) /\ ~Writing(p)
    BY DEF HandlerWritesAlone
  <2>1. BoardIsOurs
    BY DEF ShutdownInv, HandlerOwns, InSection
  <2>2. ~Reading(p)
    BY <2>1 DEF BoardIsOurs, ReadersHold, Reading, InBoard
  <2>3. Writing(p) => p = Server
    BY DEF ShutdownInv, Locks, TypeOK, Writing, WriterLabels, Proc
  <2> QED
    BY <2>1, <2>2, <2>3 DEF BoardIsOurs, Writing, InWrite
<1> QED
  BY <1>1, ShutdownInvariance, PTL

\* A server that has ended has removed semaphores and segments, unless a second
\* signal interrupted the first one's handler, players[] named a closed descriptor
\* when the signal came, or SIGPIPE ended it: a player who had left, and to whom it
\* had written since, still had its seat.
THEOREM NoIpcRemainsThm == ShutdownSpec => []NoIpcRemains
<1>1. ShutdownInv => NoIpcRemains
  BY DEF ShutdownInv
<1> QED
  BY <1>1, ShutdownInvariance, PTL
=============================================================================
