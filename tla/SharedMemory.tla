---------------------------- MODULE SharedMemory ----------------------------
(***************************************************************************)
(* ipc.c: the board (struct s_mem) in System V shared memory, read by the  *)
(* server and by every client and written by the server alone, protected   *)
(* by Courtois' readers/writers algorithm over two semaphores and a reader *)
(* count that is itself in shared memory.  One action per semop and per    *)
(* access to shared memory.  What a call transfers is larger than a word,  *)
(* so a copy into or out of the board takes two steps, one for each half.  *)
(*                                                                         *)
(* The four s_read_* functions have the same body up to the field they     *)
(* copy, and so have the s_write_* functions: one reader and one writer    *)
(* stand for all of them.                                                  *)
(***************************************************************************)
EXTENDS Integers, FiniteSets

CONSTANTS Clients,    \* the processes that run joueur
          Server,     \* the process that runs serveur
          Quitters,   \* bound: the clients that a signal may end
          Data,       \* what can be written to the board
          InitData,   \* the contents of a new segment
          MaxPending  \* bound: board reads that queued messages can ask of a client

ASSUME ClientsAssumption == IsFiniteSet(Clients) /\ Server \notin Clients
ASSUME QuittersAssumption == Quitters \subseteq Clients
ASSUME DataAssumption == InitData \in Data
ASSUME PendingAssumption == MaxPending \in Nat

Proc == Clients \cup {Server}

VARIABLES mutex_mem,  \* value of the semaphore that protects the board
          mutex_rc,   \* value of the semaphore that protects rc
          rc,         \* number of readers, in shared memory
          board,      \* the board, as two halves
          pc,         \* per process, the next line of ipc.c it executes
          copy,       \* per process, the private buffer a read fills
          val,        \* the argument of the server's current write
          pending,    \* per client, the reads that messages in its socket will cause
          alive       \* per process, FALSE once the process has exited

vars == <<mutex_mem, mutex_rc, rc, board, pc, copy, val, pending, alive>>
sems == <<mutex_mem, mutex_rc>>

Whole(d) == [lo |-> d, hi |-> d]

Init == /\ mutex_mem = 1
        /\ mutex_rc = 1
        /\ rc = 0
        /\ board = Whole(InitData)
        /\ pc = [p \in Proc |-> "idle"]
        /\ copy = [p \in Proc |-> Whole(InitData)]
        /\ val = InitData
        /\ pending = [c \in Clients |-> 0]
        /\ alive = [p \in Proc |-> TRUE]

-----------------------------------------------------------------------------
(* down() and up() on a semaphore, and the control flow of one process.    *)

Goto(p, from, to) == /\ alive[p]
                     /\ pc[p] = from
                     /\ pc' = [pc EXCEPT ![p] = to]
                     /\ UNCHANGED alive

DownMem == mutex_mem > 0 /\ mutex_mem' = mutex_mem - 1
UpMem   == mutex_mem' = mutex_mem + 1
DownRc  == mutex_rc > 0 /\ mutex_rc' = mutex_rc - 1
UpRc    == mutex_rc' = mutex_rc + 1

-----------------------------------------------------------------------------
(* s_read_scores, s_read_names, s_read_cards, s_read_cards_size            *)

\* A client reads only to handle a message of the server; the server reads
\* whenever its handlers do.
ReadCall(p) == /\ Goto(p, "idle", "r_lock")
               /\ p \in Clients => pending[p] > 0
               /\ pending' = IF p \in Clients THEN [pending EXCEPT ![p] = @ - 1]
                                              ELSE pending
               /\ UNCHANGED <<sems, rc, board, copy, val>>

ReadLock(p) == /\ Goto(p, "r_lock", "r_count")
               /\ DownRc
               /\ UNCHANGED <<mutex_mem, rc, board, copy, val, pending>>

ReadCount(p) == /\ Goto(p, "r_count", "r_first")
                /\ rc' = rc + 1
                /\ UNCHANGED <<sems, board, copy, val, pending>>

\* Mutant: the count is compared with its value before the increment.
FirstReaderStale == IF rc = 0 THEN DownMem ELSE UNCHANGED mutex_mem

\* The first reader takes the board, and waits for it with mutex_rc held.
FirstReader == IF rc = 1 THEN DownMem ELSE UNCHANGED mutex_mem

ReadFirst(p) == /\ Goto(p, "r_first", "r_open")
                /\ FirstReader
                /\ UNCHANGED <<mutex_rc, rc, board, copy, val, pending>>

ReadOpen(p) == /\ Goto(p, "r_open", "r_lo")
               /\ UpRc
               /\ UNCHANGED <<mutex_mem, rc, board, copy, val, pending>>

ReadLo(p) == /\ Goto(p, "r_lo", "r_hi")
             /\ copy' = [copy EXCEPT ![p].lo = board.lo]
             /\ UNCHANGED <<sems, rc, board, val, pending>>

ReadHi(p) == /\ Goto(p, "r_hi", "r_relock")
             /\ copy' = [copy EXCEPT ![p].hi = board.hi]
             /\ UNCHANGED <<sems, rc, board, val, pending>>

ReadRelock(p) == /\ Goto(p, "r_relock", "r_uncount")
                 /\ DownRc
                 /\ UNCHANGED <<mutex_mem, rc, board, copy, val, pending>>

\* Mutant: the departing reader is not taken off the count.
ReadUncountLost(p) == /\ Goto(p, "r_uncount", "r_last")
                      /\ UNCHANGED <<sems, rc, board, copy, val, pending>>

ReadUncount(p) == /\ Goto(p, "r_uncount", "r_last")
                  /\ rc' = rc - 1
                  /\ UNCHANGED <<sems, board, copy, val, pending>>

\* Mutants: every reader gives the board back; the last reader but one does
\* too; none does.
LastReaderAlways == UpMem
LastReaderEarly  == IF rc <= 1 /\ mutex_mem = 0 THEN UpMem ELSE UNCHANGED mutex_mem
LastReaderNever  == UNCHANGED mutex_mem

\* The last reader gives the board back.
LastReader == IF rc = 0 THEN UpMem ELSE UNCHANGED mutex_mem

ReadLast(p) == /\ Goto(p, "r_last", "r_close")
               /\ LastReader
               /\ UNCHANGED <<mutex_rc, rc, board, copy, val, pending>>

ReadClose(p) == /\ Goto(p, "r_close", "idle")
                /\ UpRc
                /\ UNCHANGED <<mutex_mem, rc, board, copy, val, pending>>

-----------------------------------------------------------------------------
(* s_write_name, s_write_score, s_write_card, s_reset_card_size            *)

WriteCall(v) == /\ Goto(Server, "idle", "w_lock")
                /\ val' = v
                /\ UNCHANGED <<sems, rc, board, copy, pending>>

\* Mutant: a write that does not take the semaphore when readers hold it.
WriteLockFree == /\ Goto(Server, "w_lock", "w_lo")
                 /\ IF rc = 0 THEN DownMem ELSE UNCHANGED mutex_mem
                 /\ UNCHANGED <<mutex_rc, rc, board, copy, val, pending>>

WriteLock == /\ Goto(Server, "w_lock", "w_lo")
             /\ DownMem
             /\ UNCHANGED <<mutex_rc, rc, board, copy, val, pending>>

WriteLo == /\ Goto(Server, "w_lo", "w_hi")
           /\ board' = [board EXCEPT !.lo = val]
           /\ UNCHANGED <<sems, rc, copy, val, pending>>

WriteHi == /\ Goto(Server, "w_hi", "w_close")
           /\ board' = [board EXCEPT !.hi = val]
           /\ UNCHANGED <<sems, rc, copy, val, pending>>

WriteClose == /\ Goto(Server, "w_close", "idle")
              /\ UpMem
              /\ UNCHANGED <<mutex_rc, rc, board, copy, val, pending>>

-----------------------------------------------------------------------------
(* The callers.                                                            *)

\* A C_SHOW_PLI (or C_BASIC_INFO) broadcast makes every client read the board
\* twice: the cards and their number, or the names and the scores.
ReadsPerMessage == 2

Broadcast ==
  /\ Goto(Server, "idle", "idle")
  /\ \A c \in Clients : alive[c] => pending[c] + ReadsPerMessage <= MaxPending
  /\ pending' = [c \in Clients |-> IF alive[c] THEN pending[c] + ReadsPerMessage
                                               ELSE pending[c]]
  /\ UNCHANGED <<sems, rc, board, copy, val>>

\* SIGINT, SIGTERM, SIGQUIT or SIGSEGV at a client, at any line: its handler
\* closes the socket and exits.  The semaphore operations carry no SEM_UNDO:
\* what the process held stays held, and rc keeps counting it.
ClientExit(c) == /\ c \in Quitters /\ alive[c]
                 /\ alive' = [alive EXCEPT ![c] = FALSE]
                 /\ UNCHANGED <<sems, rc, board, pc, copy, val, pending>>

\* The server dies without kill_ipcs (SIGKILL, SIGPIPE, or one of its
\* exit(EXIT_FAILURE)) and is started again: create_segment finds the old
\* segments and leaves their contents, init_semaphores sets both values to 1.
ServerRestart == /\ pc' = [pc EXCEPT ![Server] = "idle"]
                 /\ mutex_mem' = 1
                 /\ mutex_rc' = 1
                 /\ UNCHANGED <<rc, board, copy, val, pending, alive>>

Acquire(p) == ReadLock(p) \/ ReadFirst(p) \/ ReadRelock(p)

Release(p) == \/ ReadCount(p) \/ ReadOpen(p) \/ ReadLo(p) \/ ReadHi(p)
              \/ ReadUncount(p) \/ ReadLast(p) \/ ReadClose(p)

Write == WriteLock \/ WriteLo \/ WriteHi \/ WriteClose

Calls == \/ \E p \in Proc : ReadCall(p) \/ Acquire(p) \/ Release(p)
         \/ \E v \in Data : WriteCall(v)
         \/ Write
         \/ Broadcast

Next == Calls \/ \E c \in Clients : ClientExit(c)

Spec == Init /\ [][Next]_vars

\* The kernel queues the processes that wait on a semaphore first come first
\* served, hence strong fairness of every down(); a process between two
\* semaphore operations runs.  Calling and broadcasting are never obliged.
Fairness == /\ \A p \in Proc : SF_vars(Acquire(p)) /\ WF_vars(Release(p))
            /\ SF_vars(WriteLock)
            /\ WF_vars(WriteLo \/ WriteHi \/ WriteClose)
            /\ \A c \in Clients : WF_vars(ReadCall(c))

FairSpec == Spec /\ Fairness

RestartSpec == Init /\ [][Next \/ ServerRestart]_vars

-----------------------------------------------------------------------------
(* Properties.                                                             *)

ReaderLabels == {"r_lock", "r_count", "r_first", "r_open", "r_lo", "r_hi",
                 "r_relock", "r_uncount", "r_last", "r_close"}
WriterLabels == {"w_lock", "w_lo", "w_hi", "w_close"}

Halves == [lo : Data, hi : Data]

\* The type invariant: both semaphores are binary, rc counts at most the
\* processes, and only the server is ever in a write.
TypeOK ==
  /\ mutex_mem \in {0, 1}
  /\ mutex_rc \in {0, 1}
  /\ rc \in Nat
  /\ board \in Halves
  /\ pc \in [Proc -> {"idle"} \cup ReaderLabels \cup WriterLabels]
  /\ \A c \in Clients : pc[c] \notin WriterLabels
  /\ copy \in [Proc -> Halves]
  /\ val \in Data
  /\ pending \in [Clients -> Nat]
  /\ alive \in [Proc -> BOOLEAN]

Reading(p) == pc[p] \in {"r_lo", "r_hi"}
Writing(p) == pc[p] \in {"w_lo", "w_hi"}

\* While the server copies into the board no process copies out of it, also
\* after clients have exited at arbitrary lines of ipc.c.
Exclusion == \A p, q \in Proc : Reading(p) => ~Writing(q)

\* A completed read holds a value the server wrote as a whole, never the
\* first half of one write with the second half of another.
NoTornRead == \A p \in Proc : pc[p] # "r_hi" => copy[p].lo = copy[p].hi

\* Why Exclusion and NoTornRead hold, in a form every step preserves.
RcSection == {"r_count", "r_first", "r_open", "r_uncount", "r_last", "r_close"}
InBoard   == {"r_open", "r_lo", "r_hi", "r_relock", "r_uncount"}
InWrite   == {"w_lo", "w_hi", "w_close"}

\* The processes rc counts.
Counted == {p \in Proc : pc[p] \in InBoard \cup {"r_first"}}

\* The readers, as a group, hold mutex_mem.
ReadersHold == \/ \E p \in Proc : pc[p] \in InBoard
               \/ \E p \in Proc : pc[p] = "r_first" /\ rc > 1
               \/ \E p \in Proc : pc[p] = "r_last" /\ rc = 0

\* rc is the number of readers between its increment and its decrement, and
\* mutex_rc really makes its holder the only one to touch it.
RcExact == /\ rc = Cardinality(Counted)
           /\ \A p, q \in Proc :
                pc[p] \in RcSection /\ pc[q] \in RcSection => p = q
           /\ (\E p \in Proc : pc[p] \in RcSection) => mutex_rc = 0

\* mutex_mem is taken exactly while the readers or the writer hold it.
MemOwned == /\ ReadersHold \/ pc[Server] \in InWrite => mutex_mem = 0
            /\ ~(ReadersHold /\ pc[Server] \in InWrite)

\* The halves differ only in the middle of a copy, and a half-made copy agrees
\* with the half of the board it was made from.
HalvesAgree == /\ pc[Server] # "w_hi" => board.lo = board.hi
               /\ pc[Server] = "w_hi" => board.lo = val
               /\ \A p \in Proc : IF pc[p] = "r_hi" THEN copy[p].lo = board.lo
                                                    ELSE copy[p].lo = copy[p].hi
               /\ pc[Server] = "w_close" => board.hi = val

\* The inductive invariant: the count is exact, the board has one kind of
\* holder at a time, and the two halves of every copy agree accordingly.
Inv == TypeOK /\ RcExact /\ MemOwned /\ HalvesAgree

(* The refinement mapping: a write takes effect when its second half is     *)
(* stored, a read when its second half is loaded.                          *)

StatusOf(l) ==
  CASE l = "idle" -> "idle"
    [] l \in {"r_lock", "r_count", "r_first", "r_open", "r_lo", "r_hi"} -> "reading"
    [] l \in {"w_lock", "w_lo", "w_hi"} -> "writing"
    [] OTHER -> "returning"

Status == [p \in Proc |-> StatusOf(pc[p])]
Value  == IF pc[Server] = "w_hi" THEN Whole(board.hi) ELSE board
Result == [p \in Proc |-> IF pc[p] = "r_hi" THEN Whole(copy[p].hi) ELSE copy[p]]

AB == INSTANCE AtomicBoard
        WITH Writer <- Server,    Data <- {Whole(d) : d \in Data},
             value <- Value,      InitData <- Whole(InitData),
             pending <- Whole(val),
             result <- Result,    status <- Status

\* Whatever the interleaving, the two-step copies under the semaphores of
\* ipc.c implement the one-step reads and writes of AtomicBoard.
ImplementsAtomicBoard == AB!Spec

\* A client has exited on a line where it holds a semaphore or is counted as a
\* reader.
LeftInside == \E c \in Clients : ~alive[c] /\ pc[c] \notin {"idle", "r_lock"}

\* Every read and every write returns, unless a client has exited inside ipc.c:
\* as the clients read only in answer to messages of the server, they cannot
\* keep a waiting writer out for ever.
EveryCallReturns ==
  \A p \in Proc : pc[p] # "idle" ~> pc[p] = "idle" \/ ~alive[p] \/ LeftInside
=============================================================================
