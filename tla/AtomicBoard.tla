---------------------------- MODULE AtomicBoard ----------------------------
(***************************************************************************)
(* What ipc.c promises to its callers: the shared board behaves as one     *)
(* register.  A call of an s_read_* or s_write_* function begins, takes    *)
(* effect at a single instant, and returns; whatever other processes do,   *)
(* a read returns a value that was once written as a whole.                *)
(***************************************************************************)
CONSTANTS Proc, Writer, Data, InitData

VARIABLES value,    \* the contents of the board
          pending,  \* the argument of the write in progress
          result,   \* per process, what its last read returned
          status    \* per process, "idle", "reading", "writing" or "returning"

vars == <<value, pending, result, status>>

Init == /\ value = InitData
        /\ pending = InitData
        /\ result = [p \in Proc |-> InitData]
        /\ status = [p \in Proc |-> "idle"]

Move(p, from, to) == /\ status[p] = from
                     /\ status' = [status EXCEPT ![p] = to]

BeginRead(p) == /\ Move(p, "idle", "reading")
                /\ UNCHANGED <<value, pending, result>>

Read(p) == /\ Move(p, "reading", "returning")
           /\ result' = [result EXCEPT ![p] = value]
           /\ UNCHANGED <<value, pending>>

BeginWrite(v) == /\ Move(Writer, "idle", "writing")
                 /\ pending' = v
                 /\ UNCHANGED <<value, result>>

Write == /\ Move(Writer, "writing", "returning")
         /\ value' = pending
         /\ UNCHANGED <<pending, result>>

Return(p) == /\ Move(p, "returning", "idle")
             /\ UNCHANGED <<value, pending, result>>

Next == \/ \E p \in Proc : BeginRead(p) \/ Read(p) \/ Return(p)
        \/ \E v \in Data : BeginWrite(v)
        \/ Write

Spec == Init /\ [][Next]_vars
=============================================================================
