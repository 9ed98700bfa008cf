------------------------ MODULE SharedMemory_proofs ------------------------
(***************************************************************************)
(* Proofs about SharedMemory, for any finite number of clients, any data   *)
(* and any bound on the pending reads: Inv is inductive, hence the type    *)
(* invariant, Exclusion and NoTornRead; and the specification implements   *)
(* AtomicBoard.                                                            *)
(***************************************************************************)
EXTENDS SharedMemory, FiniteSetTheorems, TLAPS

\* There are finitely many processes, so those that rc counts are countable.
LEMMA CountedFinite == IsFiniteSet(Proc) /\ IsFiniteSet(Counted)
<1>1. IsFiniteSet(Proc)
  BY ClientsAssumption, FS_AddElement DEF Proc
<1>2. Counted \subseteq Proc
  BY DEF Counted
<1> QED
  BY <1>1, <1>2, FS_Subset

\* What an exact count tells: zero means nobody, one means nobody else.
LEMMA CountTells ==
  ASSUME rc = Cardinality(Counted)
  PROVE  /\ rc \in Nat
         /\ rc = 0 <=> Counted = {}
         /\ \A p, q \in Counted : rc = 1 => p = q
<1>1. rc \in Nat /\ (rc = 0 <=> Counted = {})
  BY CountedFinite, FS_CardinalityType, FS_EmptySet
<1>2. ASSUME NEW p \in Counted, NEW q \in Counted, rc = 1
      PROVE  p = q
  <2>1. PICK x : Counted = {x}
    BY <1>2, CountedFinite, FS_Singleton
  <2> QED
    BY <2>1
<1> QED
  BY <1>1, <1>2

\* The invariant holds of a new segment with new semaphores.
LEMMA InvInit == Init => Inv
<1> SUFFICES ASSUME Init PROVE Inv
  OBVIOUS
<1>1. TypeOK
  BY ClientsAssumption, DataAssumption
  DEF Init, TypeOK, Whole, Halves, ReaderLabels, WriterLabels, Proc
<1>2. Counted = {}
  BY DEF Init, Counted, InBoard, Proc
<1>3. RcExact
  BY <1>2, FS_EmptySet DEF Init, RcExact, RcSection, Proc
<1>4. MemOwned
  BY DEF Init, MemOwned, ReadersHold, InBoard, InWrite, Proc
<1>5. HalvesAgree
  BY DEF Init, HalvesAgree, Whole, Proc
<1> QED
  BY <1>1, <1>3, <1>4, <1>5 DEF Inv

-----------------------------------------------------------------------------
(* Preservation, one lemma for each group of lines of ipc.c: the part of   *)
(* the invariant that is about the semaphores and the count depends on     *)
(* nothing else, the part about the halves of the board on both.           *)

Locks == TypeOK /\ RcExact /\ MemOwned

\* A process starts a read.
LEMMA ReadCallInv ==
  ASSUME Locks, NEW p \in Proc, ReadCall(p)
  PROVE  Locks' /\ (HalvesAgree => HalvesAgree')
<1> USE DEF Locks
<1>1. TypeOK'
  BY ClientsAssumption DEF TypeOK, ReadCall, Goto, sems, ReaderLabels, WriterLabels, Proc
<1>2. Counted' = Counted
  BY DEF TypeOK, ReadCall, Goto, sems, Counted, InBoard, Proc
<1>3. RcExact'
  BY <1>2 DEF TypeOK, RcExact, ReadCall, Goto, sems, RcSection, Proc
<1>4. MemOwned'
  BY DEF TypeOK, MemOwned, ReadersHold, ReadCall, Goto, sems, InBoard, InWrite, Proc
<1>5. ASSUME HalvesAgree PROVE HalvesAgree'
  BY <1>5 DEF TypeOK, HalvesAgree, ReadCall, Goto, sems, Proc
<1> QED
  BY <1>1, <1>3, <1>4, <1>5

\* mutex_rc is taken before the increment.
LEMMA ReadLockInv ==
  ASSUME Locks, NEW p \in Proc, ReadLock(p)
  PROVE  Locks' /\ (HalvesAgree => HalvesAgree')
<1> USE DEF Locks
<1>1. TypeOK'
  BY ClientsAssumption DEF TypeOK, ReadLock, Goto, sems, DownRc, ReaderLabels, WriterLabels, Proc
<1>2. Counted' = Counted
  BY DEF TypeOK, ReadLock, Goto, sems, DownRc, Counted, InBoard, Proc
<1>3. RcExact'
  BY <1>2 DEF TypeOK, RcExact, ReadLock, Goto, sems, DownRc, RcSection, Proc
<1>4. MemOwned'
  BY DEF TypeOK, MemOwned, ReadersHold, ReadLock, Goto, sems, DownRc, InBoard, InWrite, Proc
<1>5. ASSUME HalvesAgree PROVE HalvesAgree'
  BY <1>5 DEF TypeOK, HalvesAgree, ReadLock, Goto, sems, DownRc, Proc
<1> QED
  BY <1>1, <1>3, <1>4, <1>5

\* The increment, by the only process inside mutex_rc.
LEMMA ReadCountInv ==
  ASSUME Locks, NEW p \in Proc, ReadCount(p)
  PROVE  Locks' /\ (HalvesAgree => HalvesAgree')
<1> USE DEF Locks
<1>1. TypeOK'
  BY ClientsAssumption DEF TypeOK, ReadCount, Goto, sems, ReaderLabels, WriterLabels, Proc
<1>2. /\ Counted' = Counted \cup {p}
      /\ p \notin Counted
  BY DEF TypeOK, ReadCount, Goto, Counted, InBoard
<1>3. RcExact'
  <2>1. Cardinality(Counted') = rc + 1
    BY <1>2, CountedFinite, FS_AddElement DEF RcExact
  <2> QED
    BY <1>2, <2>1 DEF TypeOK, RcExact, ReadCount, Goto, sems, RcSection
<1>4. MemOwned'
  <2>1. ReadersHold' => ReadersHold
    <3>1. SUFFICES ASSUME pc'[p] = "r_first", rc + 1 > 1,
                          \A q \in Proc : pc[q] \notin InBoard
                   PROVE  FALSE
      BY DEF TypeOK, RcExact, RcSection, ReadersHold, ReadCount, Goto, InBoard
    <3>2. PICK q \in Counted : TRUE
      BY <3>1, CountTells DEF RcExact
    <3>3. q \in Proc /\ pc[q] = "r_first"
      BY <3>1, <3>2 DEF Counted
    <3> QED
      BY <3>3 DEF RcExact, RcSection, ReadCount, Goto
  <2> QED
    BY <2>1 DEF TypeOK, MemOwned, ReadCount, Goto, sems, InWrite
<1>5. ASSUME HalvesAgree PROVE HalvesAgree'
  BY <1>5 DEF TypeOK, HalvesAgree, ReadCount, Goto, sems, Proc
<1> QED
  BY <1>1, <1>3, <1>4, <1>5

\* The first reader takes mutex_mem; a later one finds it taken.
LEMMA ReadFirstInv ==
  ASSUME Locks, NEW p \in Proc, ReadFirst(p)
  PROVE  Locks' /\ (HalvesAgree => HalvesAgree')
<1> USE DEF Locks
<1>1. TypeOK'
  BY ClientsAssumption DEF TypeOK, ReadFirst, Goto, sems, FirstReader, DownMem, ReaderLabels, WriterLabels, Proc
<1>2. Counted' = Counted
  BY DEF TypeOK, ReadFirst, Goto, sems, FirstReader, DownMem, Counted, InBoard, Proc
<1>3. RcExact'
  BY <1>2 DEF TypeOK, RcExact, ReadFirst, Goto, sems, FirstReader, DownMem, RcSection, Proc
<1>4. MemOwned'
  <2>1. p \in Counted
    BY DEF ReadFirst, Goto, Counted
  <2>2. CASE rc = 1
    <3>1. \A q \in Proc : pc[q] \in InBoard \cup {"r_first"} => q = p
      BY <2>1, <2>2, CountTells DEF RcExact, Counted
    <3>2. pc[Server] \notin InWrite
      BY <2>2 DEF MemOwned, ReadFirst, FirstReader, DownMem, TypeOK
    <3> QED
      BY <2>2, <3>1, <3>2
      DEF TypeOK, MemOwned, ReadersHold, ReadFirst, FirstReader, DownMem, Goto,
          InBoard, InWrite, Proc
  <2>3. CASE rc # 1
    <3>1. ReadersHold
      BY <2>1, <2>3, CountTells DEF RcExact, ReadersHold, ReadFirst, Goto
    <3> QED
      BY <2>3, <3>1 DEF TypeOK, MemOwned, ReadFirst, FirstReader, Goto, InWrite, Proc
  <2> QED
    BY <2>2, <2>3
<1>5. ASSUME HalvesAgree PROVE HalvesAgree'
  BY <1>5 DEF TypeOK, HalvesAgree, ReadFirst, Goto, sems, FirstReader, DownMem, Proc
<1> QED
  BY <1>1, <1>3, <1>4, <1>5

\* mutex_rc is released, the board is held.
LEMMA ReadOpenInv ==
  ASSUME Locks, NEW p \in Proc, ReadOpen(p)
  PROVE  Locks' /\ (HalvesAgree => HalvesAgree')
<1> USE DEF Locks
<1>0. mutex_rc = 0
  BY DEF RcExact, ReadOpen, Goto, RcSection
<1>1. TypeOK'
  BY <1>0, ClientsAssumption DEF TypeOK, ReadOpen, Goto, sems, UpRc, ReaderLabels, WriterLabels, Proc
<1>2. Counted' = Counted
  BY DEF TypeOK, ReadOpen, Goto, sems, UpRc, Counted, InBoard, Proc
<1>3. RcExact'
  BY <1>2 DEF TypeOK, RcExact, ReadOpen, Goto, UpRc, RcSection, Proc
<1>4. MemOwned'
  BY DEF TypeOK, MemOwned, ReadersHold, ReadOpen, Goto, sems, UpRc, InBoard, InWrite, Proc
<1>5. ASSUME HalvesAgree PROVE HalvesAgree'
  BY <1>5 DEF TypeOK, HalvesAgree, ReadOpen, Goto, sems, UpRc, Proc
<1> QED
  BY <1>1, <1>3, <1>4, <1>5

\* The first half of a copy, made while no write is in progress.
LEMMA ReadLoInv ==
  ASSUME Locks, NEW p \in Proc, ReadLo(p)
  PROVE  Locks' /\ (HalvesAgree => HalvesAgree')
<1> USE DEF Locks
<1>1. TypeOK'
  BY ClientsAssumption DEF TypeOK, ReadLo, Goto, sems, Halves, ReaderLabels, WriterLabels, Proc
<1>2. Counted' = Counted
  BY DEF TypeOK, ReadLo, Goto, sems, Counted, InBoard, Proc
<1>3. RcExact'
  BY <1>2 DEF TypeOK, RcExact, ReadLo, Goto, sems, RcSection, Proc
<1>4. MemOwned'
  BY DEF TypeOK, MemOwned, ReadersHold, ReadLo, Goto, sems, InBoard, InWrite, Proc
<1>5. ASSUME HalvesAgree PROVE HalvesAgree'
  BY <1>5 DEF TypeOK, HalvesAgree, ReadLo, Goto, sems, Proc
<1> QED
  BY <1>1, <1>3, <1>4, <1>5

\* The second half: the server is not in a write, so the halves agree.
LEMMA ReadHiInv ==
  ASSUME Locks, NEW p \in Proc, ReadHi(p)
  PROVE  Locks' /\ (HalvesAgree => HalvesAgree')
<1> USE DEF Locks
<1>1. TypeOK'
  BY ClientsAssumption DEF TypeOK, ReadHi, Goto, sems, Halves, ReaderLabels, WriterLabels, Proc
<1>2. Counted' = Counted
  BY DEF TypeOK, ReadHi, Goto, sems, Counted, InBoard, Proc
<1>3. RcExact'
  BY <1>2 DEF TypeOK, RcExact, ReadHi, Goto, sems, RcSection, Proc
<1>4. MemOwned'
  BY DEF TypeOK, MemOwned, ReadersHold, ReadHi, Goto, sems, InBoard, InWrite, Proc
<1>5. ASSUME HalvesAgree PROVE HalvesAgree'
  <2>1. ReadersHold
    BY DEF ReadersHold, ReadHi, Goto, InBoard
  <2>2. pc[Server] \notin InWrite
    BY <2>1 DEF MemOwned
  <2> QED
    BY <1>5, <2>2 DEF TypeOK, HalvesAgree, ReadHi, Goto, sems, InWrite, Halves, Proc
<1> QED
  BY <1>1, <1>3, <1>4, <1>5

\* mutex_rc is taken again before the decrement.
LEMMA ReadRelockInv ==
  ASSUME Locks, NEW p \in Proc, ReadRelock(p)
  PROVE  Locks' /\ (HalvesAgree => HalvesAgree')
<1> USE DEF Locks
<1>1. TypeOK'
  BY ClientsAssumption DEF TypeOK, ReadRelock, Goto, sems, DownRc, ReaderLabels, WriterLabels, Proc
<1>2. Counted' = Counted
  BY DEF TypeOK, ReadRelock, Goto, sems, DownRc, Counted, InBoard, Proc
<1>3. RcExact'
  BY <1>2 DEF TypeOK, RcExact, ReadRelock, Goto, sems, DownRc, RcSection, Proc
<1>4. MemOwned'
  BY DEF TypeOK, MemOwned, ReadersHold, ReadRelock, Goto, sems, DownRc, InBoard, InWrite, Proc
<1>5. ASSUME HalvesAgree PROVE HalvesAgree'
  BY <1>5 DEF TypeOK, HalvesAgree, ReadRelock, Goto, sems, DownRc, Proc
<1> QED
  BY <1>1, <1>3, <1>4, <1>5

\* The decrement, by the only process inside mutex_rc.
LEMMA ReadUncountInv ==
  ASSUME Locks, NEW p \in Proc, ReadUncount(p)
  PROVE  Locks' /\ (HalvesAgree => HalvesAgree')
<1> USE DEF Locks
<1>0. rc > 0
  BY CountTells DEF RcExact, ReadUncount, Goto, Counted, InBoard
<1>1. TypeOK'
  BY CountTells, <1>0, ClientsAssumption DEF TypeOK, ReadUncount, Goto, sems, ReaderLabels, WriterLabels, Proc
<1>2. /\ Counted' = Counted \ {p}
      /\ p \in Counted
  BY DEF TypeOK, ReadUncount, Goto, Counted, InBoard
<1>3. RcExact'
  <2>1. Cardinality(Counted') = rc - 1
    BY <1>2, CountedFinite, FS_RemoveElement DEF RcExact
  <2> QED
    BY <1>2, <2>1 DEF TypeOK, RcExact, ReadUncount, Goto, sems, RcSection
<1>4. MemOwned'
  <2>1. ReadersHold
    BY DEF ReadersHold, ReadUncount, Goto, InBoard
  <2> QED
    BY <2>1 DEF TypeOK, MemOwned, ReadUncount, Goto, sems, InWrite, Proc
<1>5. ASSUME HalvesAgree PROVE HalvesAgree'
  BY <1>5 DEF TypeOK, HalvesAgree, ReadUncount, Goto, sems, Proc
<1> QED
  BY <1>1, <1>3, <1>4, <1>5

\* The last reader releases mutex_mem, and only the last.
LEMMA ReadLastInv ==
  ASSUME Locks, NEW p \in Proc, ReadLast(p)
  PROVE  Locks' /\ (HalvesAgree => HalvesAgree')
<1> USE DEF Locks
<1>0. rc = 0 => mutex_mem = 0
  BY DEF MemOwned, ReadersHold, ReadLast, Goto
<1>1. TypeOK'
  BY <1>0, ClientsAssumption DEF TypeOK, ReadLast, Goto, sems, LastReader, UpMem, ReaderLabels, WriterLabels, Proc
<1>2. Counted' = Counted
  BY DEF TypeOK, ReadLast, Goto, sems, LastReader, UpMem, Counted, InBoard, Proc
<1>3. RcExact'
  BY <1>2 DEF TypeOK, RcExact, ReadLast, Goto, sems, LastReader, UpMem, RcSection, Proc
<1>4. MemOwned'
  <2>1. CASE rc = 0
    <3>1. \A q \in Proc : pc[q] \notin InBoard \cup {"r_first"}
      BY <2>1, CountTells DEF RcExact, Counted
    <3>2. pc[Server] \notin InWrite
      BY <2>1 DEF MemOwned, ReadersHold, ReadLast, Goto
    <3> QED
      BY <2>1, <3>1, <3>2
      DEF TypeOK, RcExact, RcSection, MemOwned, ReadersHold, ReadLast, LastReader,
          UpMem, Goto, InBoard, InWrite, Proc
  <2>2. CASE rc # 0
    <3>1. PICK q \in Counted : TRUE
      BY <2>2, CountTells DEF RcExact
    <3>2. ReadersHold
      BY <3>1 DEF Counted, RcExact, RcSection, ReadersHold, ReadLast, Goto, InBoard
    <3> QED
      BY <2>2, <3>2 DEF TypeOK, MemOwned, ReadLast, LastReader, Goto, InWrite, Proc
  <2> QED
    BY <2>1, <2>2
<1>5. ASSUME HalvesAgree PROVE HalvesAgree'
  BY <1>5 DEF TypeOK, HalvesAgree, ReadLast, Goto, sems, LastReader, UpMem, Proc
<1> QED
  BY <1>1, <1>3, <1>4, <1>5

\* mutex_rc is released and the read returns.
LEMMA ReadCloseInv ==
  ASSUME Locks, NEW p \in Proc, ReadClose(p)
  PROVE  Locks' /\ (HalvesAgree => HalvesAgree')
<1> USE DEF Locks
<1>0. mutex_rc = 0
  BY DEF RcExact, ReadClose, Goto, RcSection
<1>1. TypeOK'
  BY <1>0, ClientsAssumption DEF TypeOK, ReadClose, Goto, sems, UpRc, ReaderLabels, WriterLabels, Proc
<1>2. Counted' = Counted
  BY DEF TypeOK, ReadClose, Goto, sems, UpRc, Counted, InBoard, Proc
<1>3. RcExact'
  BY <1>2 DEF TypeOK, RcExact, ReadClose, Goto, UpRc, RcSection, Proc
<1>4. MemOwned'
  BY DEF TypeOK, MemOwned, ReadersHold, ReadClose, Goto, sems, UpRc, InBoard, InWrite, Proc
<1>5. ASSUME HalvesAgree PROVE HalvesAgree'
  BY <1>5 DEF TypeOK, HalvesAgree, ReadClose, Goto, sems, UpRc, Proc
<1> QED
  BY <1>1, <1>3, <1>4, <1>5

\* The server starts a write.
LEMMA WriteCallInv ==
  ASSUME Locks, NEW v \in Data, WriteCall(v)
  PROVE  Locks' /\ (HalvesAgree => HalvesAgree')
<1> USE DEF Locks
<1>1. TypeOK'
  BY ClientsAssumption DEF TypeOK, WriteCall, Goto, sems, ReaderLabels, WriterLabels, Proc
<1>2. Counted' = Counted
  BY DEF TypeOK, WriteCall, Goto, Counted, InBoard, Proc
<1>3. RcExact'
  BY <1>2 DEF TypeOK, RcExact, WriteCall, Goto, sems, RcSection, Proc
<1>4. MemOwned'
  BY DEF TypeOK, MemOwned, ReadersHold, WriteCall, Goto, sems, InBoard, InWrite, Proc
<1>5. ASSUME HalvesAgree PROVE HalvesAgree'
  BY <1>5 DEF TypeOK, HalvesAgree, WriteCall, Goto, sems, Proc
<1> QED
  BY <1>1, <1>3, <1>4, <1>5

\* The writer takes mutex_mem, so no reader holds it.
LEMMA WriteLockInv ==
  ASSUME Locks, WriteLock
  PROVE  Locks' /\ (HalvesAgree => HalvesAgree')
<1> USE DEF Locks
<1>1. TypeOK'
  BY ClientsAssumption DEF TypeOK, WriteLock, Goto, sems, DownMem, ReaderLabels, WriterLabels, Proc
<1>2. Counted' = Counted
  BY DEF TypeOK, WriteLock, Goto, sems, DownMem, Counted, InBoard, Proc
<1>3. RcExact'
  BY <1>2 DEF TypeOK, RcExact, WriteLock, Goto, sems, DownMem, RcSection, Proc
<1>4. MemOwned'
  BY DEF TypeOK, MemOwned, ReadersHold, WriteLock, Goto, sems, DownMem, InBoard, InWrite, Proc
<1>5. ASSUME HalvesAgree PROVE HalvesAgree'
  BY <1>5 DEF TypeOK, HalvesAgree, WriteLock, Goto, sems, DownMem, Proc
<1> QED
  BY <1>1, <1>3, <1>4, <1>5

\* The first half of a write: no reader is in the middle of a copy.
LEMMA WriteLoInv ==
  ASSUME Locks, WriteLo
  PROVE  Locks' /\ (HalvesAgree => HalvesAgree')
<1> USE DEF Locks
<1>1. TypeOK'
  BY ClientsAssumption DEF TypeOK, WriteLo, Goto, sems, Halves, ReaderLabels, WriterLabels, Proc
<1>2. Counted' = Counted
  BY DEF TypeOK, WriteLo, Goto, sems, Counted, InBoard, Proc
<1>3. RcExact'
  BY <1>2 DEF TypeOK, RcExact, WriteLo, Goto, sems, RcSection, Proc
<1>4. MemOwned'
  BY DEF TypeOK, MemOwned, ReadersHold, WriteLo, Goto, sems, InBoard, InWrite, Proc
<1>5. ASSUME HalvesAgree PROVE HalvesAgree'
  <2>1. ~ReadersHold
    BY DEF MemOwned, WriteLo, Goto, InWrite
  <2>2. \A p \in Proc : pc[p] # "r_hi"
    BY <2>1 DEF ReadersHold, InBoard
  <2> QED
    BY <1>5, <2>2, ClientsAssumption DEF TypeOK, HalvesAgree, WriteLo, Goto, sems, Halves, Proc
<1> QED
  BY <1>1, <1>3, <1>4, <1>5

\* The second half of a write.
LEMMA WriteHiInv ==
  ASSUME Locks, WriteHi
  PROVE  Locks' /\ (HalvesAgree => HalvesAgree')
<1> USE DEF Locks
<1>1. TypeOK'
  BY ClientsAssumption DEF TypeOK, WriteHi, Goto, sems, Halves, ReaderLabels, WriterLabels, Proc
<1>2. Counted' = Counted
  BY DEF TypeOK, WriteHi, Goto, sems, Counted, InBoard, Proc
<1>3. RcExact'
  BY <1>2 DEF TypeOK, RcExact, WriteHi, Goto, sems, RcSection, Proc
<1>4. MemOwned'
  BY DEF TypeOK, MemOwned, ReadersHold, WriteHi, Goto, sems, InBoard, InWrite, Proc
<1>5. ASSUME HalvesAgree PROVE HalvesAgree'
  <2>1. ~ReadersHold
    BY DEF MemOwned, WriteHi, Goto, InWrite
  <2>2. \A p \in Proc : pc[p] # "r_hi"
    BY <2>1 DEF ReadersHold, InBoard
  <2> QED
    BY <1>5, <2>2, ClientsAssumption DEF TypeOK, HalvesAgree, WriteHi, Goto, sems, Halves, Proc
<1> QED
  BY <1>1, <1>3, <1>4, <1>5

\* The writer releases mutex_mem.
LEMMA WriteCloseInv ==
  ASSUME Locks, WriteClose
  PROVE  Locks' /\ (HalvesAgree => HalvesAgree')
<1> USE DEF Locks
<1>0. mutex_mem = 0
  BY DEF MemOwned, WriteClose, Goto, InWrite
<1>1. TypeOK'
  BY <1>0, ClientsAssumption DEF TypeOK, WriteClose, Goto, sems, UpMem, ReaderLabels, WriterLabels, Proc
<1>2. Counted' = Counted
  BY DEF TypeOK, WriteClose, Goto, sems, UpMem, Counted, InBoard, Proc
<1>3. RcExact'
  BY <1>2 DEF TypeOK, RcExact, WriteClose, Goto, sems, UpMem, RcSection, Proc
<1>4. MemOwned'
  BY DEF TypeOK, MemOwned, ReadersHold, WriteClose, Goto, sems, UpMem, InBoard, InWrite, Proc
<1>5. ASSUME HalvesAgree PROVE HalvesAgree'
  BY <1>5 DEF TypeOK, HalvesAgree, WriteClose, Goto, sems, UpMem, Proc
<1> QED
  BY <1>1, <1>3, <1>4, <1>5

\* Messages leave everything but the pending reads as it was.
LEMMA BroadcastInv ==
  ASSUME Locks, Broadcast
  PROVE  Locks' /\ (HalvesAgree => HalvesAgree')
<1> USE DEF Locks
<1>1. TypeOK'
  BY ClientsAssumption DEF TypeOK, Broadcast, Goto, sems, ReadsPerMessage, ReaderLabels, WriterLabels, Proc
<1>2. Counted' = Counted
  BY DEF TypeOK, Broadcast, Goto, sems, ReadsPerMessage, Counted, InBoard, Proc
<1>3. RcExact'
  BY <1>2 DEF TypeOK, RcExact, Broadcast, Goto, sems, ReadsPerMessage, RcSection, Proc
<1>4. MemOwned'
  BY DEF TypeOK, MemOwned, ReadersHold, Broadcast, Goto, sems, ReadsPerMessage, InBoard, InWrite, Proc
<1>5. ASSUME HalvesAgree PROVE HalvesAgree'
  BY <1>5 DEF TypeOK, HalvesAgree, Broadcast, Goto, sems, ReadsPerMessage, Proc
<1> QED
  BY <1>1, <1>3, <1>4, <1>5

\* A client that dies keeps what it holds.
LEMMA ClientExitInv ==
  ASSUME Locks, NEW c \in Clients, ClientExit(c)
  PROVE  Locks' /\ (HalvesAgree => HalvesAgree')
<1> USE DEF Locks, ClientExit, sems
<1>1. TypeOK'
  BY DEF TypeOK
<1>2. Counted' = Counted
  BY DEF Counted
<1> QED
  BY <1>1, <1>2 DEF RcExact, MemOwned, ReadersHold, HalvesAgree

\* A step of nothing that Inv speaks of.
LEMMA StutterInv ==
  ASSUME Locks, UNCHANGED vars
  PROVE  Locks' /\ (HalvesAgree => HalvesAgree')
<1>1. Counted' = Counted
  BY DEF Counted, vars
<1> QED
  BY <1>1 DEF Locks, vars, TypeOK, RcExact, MemOwned, ReadersHold, HalvesAgree

-----------------------------------------------------------------------------

\* No step breaks what the semaphores and the count protect, and none that
\* finds the halves in agreement leaves them in disagreement.
LEMMA LocksNext == Locks /\ [Next]_vars => Locks' /\ (HalvesAgree => HalvesAgree')
<1> DEFINE Kept == Locks' /\ (HalvesAgree => HalvesAgree')
<1> SUFFICES ASSUME Locks, [Next]_vars PROVE Kept
  OBVIOUS
<1>1. ASSUME NEW p \in Proc, ReadCall(p) \/ Acquire(p) \/ Release(p)
      PROVE  Kept
  BY <1>1, ReadCallInv, ReadLockInv, ReadCountInv, ReadFirstInv, ReadOpenInv,
     ReadLoInv, ReadHiInv, ReadRelockInv, ReadUncountInv, ReadLastInv, ReadCloseInv
  DEF Acquire, Release
<1>2. ASSUME NEW v \in Data, WriteCall(v)
      PROVE  Kept
  BY <1>2, WriteCallInv
<1>3. CASE Write
  BY <1>3, WriteLockInv, WriteLoInv, WriteHiInv, WriteCloseInv DEF Write
<1>4. CASE Broadcast
  BY <1>4, BroadcastInv
<1>5. ASSUME NEW c \in Clients, ClientExit(c)
      PROVE  Kept
  BY <1>5, ClientExitInv
<1>6. CASE UNCHANGED vars
  BY <1>6, StutterInv
<1> QED
  BY <1>1, <1>2, <1>3, <1>4, <1>5, <1>6 DEF Next, Calls

\* Every step preserves Inv: no interleaving, and no client that exits at an
\* arbitrary line of ipc.c, breaks it.
LEMMA InvNext == Inv /\ [Next]_vars => Inv'
<1>1. Inv <=> Locks /\ HalvesAgree
  BY DEF Inv, Locks
<1>2. Inv' <=> Locks' /\ HalvesAgree'
  BY DEF Inv, Locks
<1> QED
  BY <1>1, <1>2, LocksNext

\* The readers/writers algorithm of ipc.c keeps its invariant.
THEOREM Invariance == Spec => []Inv
<1> QED
  BY InvInit, InvNext, PTL DEF Spec

\* Every variable of ipc.c stays in its type: in particular no semaphore ever
\* exceeds one, that is no up() is executed without the matching down().
THEOREM TypeCorrectness == Spec => []TypeOK
<1>1. Inv => TypeOK
  BY DEF Inv
<1> QED
  BY <1>1, Invariance, PTL

\* While the server copies into the board nobody copies out of it.
THEOREM MutualExclusion == Spec => []Exclusion
<1>1. Inv => Exclusion
  <2> SUFFICES ASSUME Inv, NEW p \in Proc, NEW q \in Proc, Reading(p), Writing(q)
               PROVE  FALSE
    BY DEF Exclusion
  <2>1. ReadersHold
    BY DEF Reading, ReadersHold, InBoard
  <2>2. q = Server
    BY DEF Inv, TypeOK, Writing, WriterLabels, Proc
  <2> QED
    BY <2>1, <2>2 DEF Inv, MemOwned, Writing, InWrite
<1> QED
  BY <1>1, Invariance, PTL

\* No s_read_* function returns half of one write and half of another.
THEOREM ReadsAreWhole == Spec => []NoTornRead
<1>1. Inv => NoTornRead
  BY DEF Inv, HalvesAgree, NoTornRead
<1> QED
  BY <1>1, Invariance, PTL

-----------------------------------------------------------------------------
(* Refinement.                                                             *)

\* Two halves that agree are a whole.
LEMMA WholeHalves ==
  ASSUME NEW h \in Halves, h.lo = h.hi
  PROVE  h = Whole(h.hi) /\ h = Whole(h.lo)
  BY DEF Halves, Whole


\* A new segment is a new register.
LEMMA RefineInit == Init => AB!Init
  BY ClientsAssumption
  DEF Init, AB!Init, Whole, Status, StatusOf, Value, Result, Proc

\* A step that moves one process and copies nothing.
LEMMA RefineMove ==
  ASSUME Inv, NEW p \in Proc, NEW from, NEW to, Goto(p, from, to),
         UNCHANGED <<board, copy, val>>,
         from \notin {"r_hi", "w_hi"}, to \notin {"r_hi", "w_hi"}
  PROVE  /\ Value' = Value
         /\ Result' = Result
         /\ Status' = [Status EXCEPT ![p] = StatusOf(to)]
         /\ Status[p] = StatusOf(from)
  BY DEF Inv, TypeOK, Goto, Value, Result, Status, Proc

\* A step that does not change a status, the board or a buffer is a stutter.
LEMMA RefineQuiet ==
  ASSUME Inv, NEW p \in Proc, NEW from, NEW to, Goto(p, from, to),
         UNCHANGED <<board, copy, val>>,
         from \notin {"r_hi", "w_hi"}, to \notin {"r_hi", "w_hi"},
         StatusOf(to) = StatusOf(from)
  PROVE  UNCHANGED AB!vars
<1>1. Status' = Status
  BY RefineMove DEF Status
<1> QED
  BY <1>1, RefineMove DEF AB!vars

\* The start of a read is BeginRead.
LEMMA RefineReadCall ==
  ASSUME Inv, NEW p \in Proc, ReadCall(p)
  PROVE  AB!BeginRead(p)
<1>1. StatusOf("idle") = "idle" /\ StatusOf("r_lock") = "reading"
  BY DEF StatusOf
<1>2. Goto(p, "idle", "r_lock") /\ UNCHANGED <<board, copy, val>>
  BY DEF ReadCall
<1>3. /\ Value' = Value
      /\ Result' = Result
      /\ Status' = [Status EXCEPT ![p] = "reading"]
      /\ Status[p] = "idle"
  BY <1>1, <1>2, RefineMove
<1> QED
  BY <1>2, <1>3 DEF AB!BeginRead, AB!Move

\* Reading half a value is not visible; reading the other half is the read.
LEMMA RefineReadLo ==
  ASSUME Inv, NEW p \in Proc, ReadLo(p)
  PROVE  UNCHANGED AB!vars
<1> USE DEF Inv
<1>1. /\ pc' = [pc EXCEPT ![p] = "r_hi"] /\ pc[p] = "r_lo"
      /\ copy' = [copy EXCEPT ![p].lo = board.lo]
      /\ UNCHANGED <<board, val>>
  BY DEF ReadLo, Goto
<1>2. Status' = Status
  BY <1>1 DEF TypeOK, Status, StatusOf
<1>3. Value' = Value
  BY <1>1 DEF TypeOK, Value, Proc
<1>4. \A q \in Proc : q # p => Result'[q] = Result[q]
  BY <1>1 DEF TypeOK, Result
<1>5. Result'[p] = Result[p]
  <2>1. Result[p] = copy[p] /\ copy[p] \in Halves /\ copy[p].lo = copy[p].hi
    BY <1>1 DEF TypeOK, HalvesAgree, Result
  <2>2. copy'[p].hi = copy[p].hi
    BY <1>1 DEF TypeOK, Halves
  <2>3. Result'[p] = Whole(copy[p].hi)
    BY <1>1, <2>2 DEF TypeOK, Result
  <2> QED
    BY <2>1, <2>3, WholeHalves
<1>6. Result' = Result
  BY <1>4, <1>5 DEF Result
<1> QED
  BY <1>1, <1>2, <1>3, <1>6 DEF AB!vars

\* Loading the second half is Read: the copy is then the whole board.
LEMMA RefineReadHi ==
  ASSUME Inv, Inv', NEW p \in Proc, ReadHi(p)
  PROVE  AB!Read(p)
<1> USE DEF Inv
<1>1. /\ pc' = [pc EXCEPT ![p] = "r_relock"] /\ pc[p] = "r_hi"
      /\ copy' = [copy EXCEPT ![p].hi = board.hi]
      /\ UNCHANGED <<board, val>>
  BY DEF ReadHi, Goto
<1>2. pc[Server] \notin InWrite
  BY <1>1 DEF MemOwned, ReadersHold, InBoard
<1>3. Status[p] = "reading" /\ Status' = [Status EXCEPT ![p] = "returning"]
  BY <1>1 DEF TypeOK, Status, StatusOf
<1>4. Value = board /\ Value' = board
  BY <1>1, <1>2 DEF TypeOK, Value, InWrite, Proc
<1>5. copy'[p] = board
  <2>1. board \in Halves /\ board.lo = board.hi /\ copy[p].lo = board.lo
    BY <1>1, <1>2 DEF TypeOK, HalvesAgree, InWrite
  <2>2. copy'[p] \in Halves /\ copy'[p].hi = board.hi /\ copy'[p].lo = board.lo
    BY <1>1, <2>1 DEF TypeOK, Halves
  <2> QED
    BY <2>1, <2>2 DEF Halves
<1>6. \A q \in Proc : q # p => Result'[q] = Result[q]
  BY <1>1 DEF TypeOK, Result
<1>7. Result'[p] = board
  BY <1>1, <1>5 DEF TypeOK, Result
<1>8. Result' = [Result EXCEPT ![p] = Value]
  BY <1>4, <1>6, <1>7 DEF Result
<1> QED
  BY <1>1, <1>3, <1>4, <1>8 DEF AB!Read, AB!Move

\* The start of a write is BeginWrite.
LEMMA RefineWriteCall ==
  ASSUME Inv, NEW v \in Data, WriteCall(v)
  PROVE  AB!BeginWrite(Whole(v))
<1> USE DEF Inv
<1>1. /\ pc' = [pc EXCEPT ![Server] = "w_lock"] /\ pc[Server] = "idle"
      /\ val' = v /\ UNCHANGED <<board, copy>>
  BY DEF WriteCall, Goto
<1>2. Status[Server] = "idle" /\ Status' = [Status EXCEPT ![Server] = "writing"]
  BY <1>1 DEF TypeOK, Status, StatusOf, Proc
<1>3. Value' = Value /\ Result' = Result
  BY <1>1 DEF TypeOK, Value, Result, Proc
<1> QED
  BY <1>1, <1>2, <1>3 DEF AB!BeginWrite, AB!Move, Whole

\* Storing half a value is not visible; storing the other half is the write.
LEMMA RefineWriteLo ==
  ASSUME Inv, WriteLo
  PROVE  UNCHANGED AB!vars
<1> USE DEF Inv
<1>1. /\ pc' = [pc EXCEPT ![Server] = "w_hi"] /\ pc[Server] = "w_lo"
      /\ board' = [board EXCEPT !.lo = val] /\ UNCHANGED <<copy, val>>
  BY DEF WriteLo, Goto
<1>2. Status' = Status
  BY <1>1 DEF TypeOK, Status, StatusOf, Proc
<1>3. Value' = Value
  <2>1. Value = board /\ board \in Halves /\ board.lo = board.hi
    BY <1>1 DEF TypeOK, Value, HalvesAgree
  <2>2. Value' = Whole(board.hi)
    BY <1>1, <2>1 DEF TypeOK, Value, Proc, Halves
  <2> QED
    BY <2>1, <2>2, WholeHalves
<1>4. Result' = Result
  BY <1>1 DEF TypeOK, Result, Proc
<1> QED
  BY <1>1, <1>2, <1>3, <1>4 DEF AB!vars

\* Storing the second half is Write: the board is then the whole value.
LEMMA RefineWriteHi ==
  ASSUME Inv, WriteHi
  PROVE  AB!Write
<1> USE DEF Inv
<1>1. /\ pc' = [pc EXCEPT ![Server] = "w_close"] /\ pc[Server] = "w_hi"
      /\ board' = [board EXCEPT !.hi = val] /\ UNCHANGED <<copy, val>>
  BY DEF WriteHi, Goto
<1>2. Status[Server] = "writing" /\ Status' = [Status EXCEPT ![Server] = "returning"]
  BY <1>1 DEF TypeOK, Status, StatusOf, Proc
<1>3. Value' = Whole(val)
  <2>1. board' \in Halves /\ board'.lo = val /\ board'.hi = val
    BY <1>1 DEF TypeOK, HalvesAgree, Halves
  <2>2. Value' = board'
    BY <1>1 DEF TypeOK, Value, Proc
  <2> QED
    BY <2>1, <2>2 DEF Halves, Whole
<1>4. Result' = Result
  BY <1>1 DEF TypeOK, Result, Proc
<1> QED
  BY <1>1, <1>2, <1>3, <1>4 DEF AB!Write, AB!Move

\* The return of a call, of either kind.
LEMMA RefineReturn ==
  ASSUME Inv, NEW p \in Proc, ReadClose(p) \/ (p = Server /\ WriteClose)
  PROVE  AB!Return(p)
<1> USE DEF Inv
<1>1. PICK from \in {"r_close", "w_close"} :
        /\ Goto(p, from, "idle")
        /\ UNCHANGED <<board, copy, val>>
  BY DEF ReadClose, WriteClose
<1>2. StatusOf(from) = "returning" /\ StatusOf("idle") = "idle"
  BY DEF StatusOf
<1>3. /\ Value' = Value
      /\ Result' = Result
      /\ Status' = [Status EXCEPT ![p] = "idle"]
      /\ Status[p] = "returning"
  BY <1>1, <1>2, RefineMove
<1> QED
  BY <1>1, <1>3 DEF AB!Return, AB!Move

\* Taking and giving back the semaphores is not visible.
LEMMA RefineSemaphores ==
  ASSUME Inv, NEW p \in Proc,
         \/ ReadLock(p) \/ ReadCount(p) \/ ReadFirst(p) \/ ReadOpen(p)
         \/ ReadRelock(p) \/ ReadUncount(p) \/ ReadLast(p)
         \/ p = Server /\ WriteLock
  PROVE  UNCHANGED AB!vars
<1>1. \A l \in {"r_lock", "r_count", "r_first", "r_open", "r_lo"} :
        StatusOf(l) = "reading"
  BY DEF StatusOf
<1>2. \A l \in {"r_relock", "r_uncount", "r_last", "r_close"} :
        StatusOf(l) = "returning"
  BY DEF StatusOf
<1>3. \A l \in {"w_lock", "w_lo"} : StatusOf(l) = "writing"
  BY DEF StatusOf
<1>4. CASE ReadLock(p) \/ ReadCount(p) \/ ReadFirst(p) \/ ReadOpen(p)
  <2>1. PICK from \in {"r_lock", "r_count", "r_first", "r_open"},
             to \in {"r_count", "r_first", "r_open", "r_lo"} : Goto(p, from, to)
    BY <1>4 DEF ReadLock, ReadCount, ReadFirst, ReadOpen
  <2> QED
    BY <1>1, <1>4, <2>1, RefineQuiet DEF ReadLock, ReadCount, ReadFirst, ReadOpen
<1>5. CASE ReadRelock(p) \/ ReadUncount(p) \/ ReadLast(p)
  <2>1. PICK from \in {"r_relock", "r_uncount", "r_last"},
             to \in {"r_uncount", "r_last", "r_close"} : Goto(p, from, to)
    BY <1>5 DEF ReadRelock, ReadUncount, ReadLast
  <2> QED
    BY <1>2, <1>5, <2>1, RefineQuiet DEF ReadRelock, ReadUncount, ReadLast
<1>6. CASE p = Server /\ WriteLock
  BY <1>3, <1>6, RefineQuiet DEF WriteLock
<1> QED
  BY <1>4, <1>5, <1>6

\* Every step of ipc.c is a step of the register or invisible to it.
LEMMA RefineNext == Inv /\ Inv' /\ [Next]_vars => [AB!Next]_(AB!vars)
<1> SUFFICES ASSUME Inv, Inv', [Next]_vars PROVE [AB!Next]_(AB!vars)
  OBVIOUS
<1>1. ASSUME NEW p \in Proc, ReadCall(p) \/ Acquire(p) \/ Release(p)
      PROVE  [AB!Next]_(AB!vars)
  <2>1. CASE ReadCall(p)
    BY <2>1, RefineReadCall DEF AB!Next
  <2>2. CASE ReadHi(p)
    BY <2>2, RefineReadHi DEF AB!Next
  <2>3. CASE ReadClose(p)
    BY <2>3, RefineReturn DEF AB!Next
  <2>4. CASE ReadLo(p)
    BY <2>4, RefineReadLo
  <2> QED
    BY <1>1, <2>1, <2>2, <2>3, <2>4, RefineSemaphores DEF Acquire, Release
<1>2. ASSUME NEW v \in Data, WriteCall(v)
      PROVE  [AB!Next]_(AB!vars)
  BY <1>2, RefineWriteCall DEF AB!Next
<1>3. CASE Write
  <2>1. Server \in Proc
    BY DEF Proc
  <2> QED
    BY <1>3, <2>1, RefineWriteLo, RefineWriteHi, RefineReturn, RefineSemaphores
    DEF Write, AB!Next
<1>4. CASE Broadcast
  <2>1. Server \in Proc /\ Goto(Server, "idle", "idle") /\ UNCHANGED <<board, copy, val>>
    BY <1>4 DEF Broadcast, Proc
  <2> QED
    BY <2>1, RefineQuiet
<1>5. ASSUME NEW c \in Clients, ClientExit(c)
      PROVE  [AB!Next]_(AB!vars)
  BY <1>5 DEF ClientExit, AB!vars, Value, Result, Status
<1>6. CASE UNCHANGED vars
  BY <1>6 DEF vars, AB!vars, Value, Result, Status
<1> QED
  BY <1>1, <1>2, <1>3, <1>4, <1>5, <1>6 DEF Next, Calls

\* The s_read_* and s_write_* functions of any number of processes behave as
\* reads and writes of one register that take effect at a single instant.
THEOREM Refinement == Spec => ImplementsAtomicBoard
<1> QED
  BY Invariance, RefineInit, RefineNext, PTL DEF Spec, ImplementsAtomicBoard, AB!Spec
=============================================================================
