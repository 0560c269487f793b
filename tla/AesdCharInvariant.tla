------------------------- MODULE AesdCharInvariant --------------------------
(* Theorems about the driver, for every ring size, number of threads, files  *)
(* and blocks, and every size of writes and reads.  First types, mutual      *)
(* exclusion and the bounds of the find loop; then the contents of the       *)
(* device: the kept entries are the end of the stream of accepted bytes, a   *)
(* scan knows where it stands in them, and every block of memory has one     *)
(* owner.                                                                    *)
EXTENDS AesdChar, CircularBufferProofs

\* What the scan of aesd_read has established: it has not passed the byte it
\* looks for, and when it has hit, the entry it points to holds that byte.
ScanBounds ==
    \A t \in Threads :
        /\ pc[t] \in Scanning => scan[t].bytes_counted <= fpos[t]
        /\ pc[t] = "r_copy" => ScanHits(buffer, scan[t], fpos[t])

Inv == TypeOK /\ MutualExclusion /\ ScanBounds

-----------------------------------------------------------------------------
LEMMA RingType == TypeOK => Ring \in Buffers(Pointers) /\ Base \in Nat
<1> SUFFICES ASSUME TypeOK PROVE Ring \in Buffers(Pointers) /\ Base \in Nat
  OBVIOUS
<1>1. buffer \in Buffers(Pointers) /\ at \in [Offsets -> Nat] /\ total \in Nat
  BY DEF TypeOK
<1>2. Ring \in Buffers(Pointers)
  BY <1>1, AdvanceType DEF Ring
<1>3. Ring.out_offs \in Offsets
  BY <1>2 DEF Buffers
<1> QED
  BY <1>1, <1>2, <1>3 DEF Base

\* What aesd_read copies when the scan has hit: an offset inside the entry and
\* a length that stays inside it.
LEMMA CopyBounds ==
  ASSUME TypeOK, ScanBounds, NEW t \in Threads, pc[t] = "r_copy"
  PROVE  /\ Found(t) \in Entries(Pointers)
         /\ Offset(t) \in Nat /\ Clip(t) \in Nat
         /\ Offset(t) < Found(t).size
         /\ Offset(t) + Clip(t) <= Found(t).size
         /\ From(t) \in Nat
<1>1. scan[t] \in Scans /\ fpos[t] \in Nat /\ count[t] \in Nat
  BY DEF TypeOK
<1>2. scan[t].cur_offs \in Offsets /\ scan[t].bytes_counted \in Nat
  BY <1>1 DEF Scans
<1>3. Found(t) \in Entries(Pointers)
  BY <1>2 DEF Found, TypeOK, Buffers
<1>4. Found(t).size \in Nat
  BY <1>3 DEF Entries
<1>5. /\ scan[t].bytes_counted <= fpos[t]
      /\ fpos[t] < scan[t].bytes_counted + Found(t).size
  BY DEF ScanBounds, Scanning, ScanHits, Found
<1>6. Offset(t) \in Nat /\ Offset(t) < Found(t).size
  BY <1>1, <1>2, <1>4, <1>5 DEF Offset
<1>7. Clip(t) \in Nat /\ Offset(t) + Clip(t) <= Found(t).size
  BY <1>1, <1>4, <1>6 DEF Clip
<1>8. From(t) \in Nat
  BY <1>2, <1>6 DEF From, TypeOK
<1> QED
  BY <1>3, <1>6, <1>7, <1>8

-----------------------------------------------------------------------------
LEMMA InitInv == Init => Inv
<1> SUFFICES ASSUME Init PROVE Inv
  OBVIOUS
<1>1. TypeOK
  BY MaxAssumption, AesdCharAssumption
  DEF Init, TypeOK, InitBuffer, Buffers, Entries, Offsets, Pointers, NoScan,
      Scans, NoAnswer, Answer, Rets
<1>2. MutualExclusion
  BY AesdCharAssumption DEF Init, MutualExclusion, Critical, Scanning
<1>3. ScanBounds
  BY DEF Init, ScanBounds, Scanning
<1> QED
  BY <1>1, <1>2, <1>3 DEF Inv

LEMMA TypeStep == Inv /\ [Next]_vars => TypeOK'
<1> SUFFICES ASSUME TypeOK, ScanBounds, [Next]_vars PROVE TypeOK'
  BY DEF Inv
<1> USE DEF TypeOK
<1>1. ASSUME NEW f \in Files, Open(f) PROVE TypeOK'
  BY <1>1, RingType DEF Open, device, args
<1>2. ASSUME NEW f \in Files, Release(f) PROVE TypeOK'
  BY <1>2 DEF Release, device, args, history
<1>3. ASSUME NEW t \in Threads, NEW f \in Files, NEW n \in Sizes,
             WriteCall(t, f, n)
      PROVE  TypeOK'
  BY <1>3, AesdCharAssumption
  DEF WriteCall, Enter, Goto, Writing, device, files, history
<1>4. ASSUME NEW t \in Threads, NEW f \in Files, NEW n \in Counts,
             ReadCall(t, f, n)
      PROVE  TypeOK'
  BY <1>4, AesdCharAssumption DEF ReadCall, Enter, Goto, device, files, history
<1>5. ASSUME NEW t \in Threads, NEW f \in Files, NEW q \in Positions,
             NEW n \in Counts, PreadCall(t, f, q, n)
      PROVE  TypeOK'
  BY <1>5, AesdCharAssumption DEF PreadCall, Enter, Goto, device, files, history
<1>6. ASSUME NEW t \in Threads, WriteAlloc(t) PROVE TypeOK'
  BY <1>6 DEF WriteAlloc, Goto, Writing, Pointers, device, files, args, history
<1>7. ASSUME NEW t \in Threads, WriteNoMem(t) PROVE TypeOK'
  BY <1>7 DEF WriteNoMem, Goto, NoMem, Answer, Rets, Pointers, device, files,
              args, history
<1>8. ASSUME NEW t \in Threads, WriteCopy(t) PROVE TypeOK'
  BY <1>8 DEF WriteCopy, Goto, Writing, device, files, args, history
<1>9. ASSUME NEW t \in Threads, WriteFault(t) PROVE TypeOK'
  BY <1>9 DEF WriteFault, Goto, Fault, Answer, Rets, Pointers, device, files,
              args, history
<1>10. ASSUME NEW t \in Threads, WriteLock(t) PROVE TypeOK'
  BY <1>10 DEF WriteLock, Lock, Goto, Writing, files, args, history
<1>11. ASSUME NEW t \in Threads, WriteStore(t) PROVE TypeOK'
  <2>1. buffer.in_offs \in Offsets
    BY DEF Buffers
  <2>2. [buffptr |-> kbuf[t], size |-> count[t]] \in Entries(Pointers)
    BY DEF Entries
  <2>3. buffer' \in Buffers(Pointers)
    BY <1>11, <2>2, StoreType DEF WriteStore
  <2>4. at' \in [Offsets -> Nat] /\ total' \in Nat
    BY <1>11, <2>1 DEF WriteStore
  <2>5. answer' \in [Threads -> [ret : Rets, data : Pointers, offset : Nat, len : Nat]]
    BY <1>11 DEF WriteStore, Wrote, Answer, Rets, Pointers
  <2>6. pc' \in [Threads -> {"idle", "ret", "r_lock"} \cup Critical \cup Writing]
    BY <1>11 DEF WriteStore, Goto, Critical
  <2> QED
    BY <1>11, <2>3, <2>4, <2>5, <2>6 DEF WriteStore, files, args
<1>12. ASSUME NEW t \in Threads, WriteAdvance(t) PROVE TypeOK'
  BY <1>12, AdvanceType DEF WriteAdvance, Goto, Critical, Pointers, files, args, history
<1>13. ASSUME NEW t \in Threads, WriteUnlock(t) PROVE TypeOK'
  BY <1>13 DEF WriteUnlock, Goto, files, args, history
<1>14. ASSUME NEW t \in Threads, ReadLock(t) PROVE TypeOK'
  BY <1>14, ScanStartType
  DEF ReadLock, Lock, Goto, Critical, Scanning, files, args, history
<1>15. ASSUME NEW t \in Threads, ReadMiss(t) PROVE TypeOK'
  BY <1>15 DEF ReadMiss, Goto, Critical, Eof, Answer, Rets, Pointers, device,
               files, args, history
<1>16. ASSUME NEW t \in Threads, ReadHit(t) PROVE TypeOK'
  BY <1>16 DEF ReadHit, Goto, Critical, Scanning, device, files, args, history
<1>17. ASSUME NEW t \in Threads, ReadNext(t) PROVE TypeOK'
  BY <1>17, ScanNextType DEF ReadNext, device, files, args, history
<1>18. ASSUME NEW t \in Threads, ReadCopy(t) PROVE TypeOK'
  <2>1. /\ Found(t) \in Entries(Pointers) /\ Offset(t) \in Nat
        /\ Clip(t) \in Nat /\ From(t) \in Nat
    BY <1>18, CopyBounds DEF ReadCopy
  <2>2. answer' \in [Threads -> [ret : Rets, data : Pointers, offset : Nat, len : Nat]]
    BY <1>18, <2>1 DEF ReadCopy, Answer, Rets, Entries
  <2>3. fpos' \in [Threads -> Nat] /\ last' \in [Files -> [end : Nat, base : Nat]]
    <3>1. fpos' \in [Threads -> Nat]
      BY <1>18, <2>1 DEF ReadCopy
    <3>2. Base \in Nat /\ From(t) + Clip(t) \in Nat
      BY <2>1, RingType
    <3>3. last' \in [Files -> [end : Nat, base : Nat]]
      BY <1>18, <3>2 DEF ReadCopy
    <3> QED
      BY <3>1, <3>3
  <2>4. pc' \in [Threads -> {"idle", "ret", "r_lock"} \cup Critical \cup Writing]
    BY <1>18 DEF ReadCopy, Goto, Critical
  <2> QED
    BY <1>18, <2>2, <2>3, <2>4 DEF ReadCopy, device, files
<1>19. ASSUME NEW t \in Threads, ReadFault(t) PROVE TypeOK'
  BY <1>19 DEF ReadFault, Goto, Critical, Fault, Answer, Rets, Pointers, device,
               files, args, history
<1>20. ASSUME NEW t \in Threads, ReadUnlock(t) PROVE TypeOK'
  <2>1. NoScan \in Scans
    BY MaxAssumption DEF NoScan, Scans, Offsets
  <2> QED
    BY <1>20, <2>1 DEF ReadUnlock, Goto, files, args, history
<1>21. ASSUME NEW t \in Threads, Return(t) PROVE TypeOK'
  BY <1>21 DEF Return, Goto, NoAnswer, Answer, Rets, Pointers, device, history
<1>22. CASE UNCHANGED vars
  BY <1>22 DEF vars, device, files, args, history
<1> QED
  BY <1>1, <1>2, <1>3, <1>4, <1>5, <1>6, <1>7, <1>8, <1>9, <1>10, <1>11, <1>12,
     <1>13, <1>14, <1>15, <1>16, <1>17, <1>18, <1>19, <1>20, <1>21, <1>22
  DEF Next, Call, Step

-----------------------------------------------------------------------------
\* Every step is a call entering the driver, a step of a thread inside it, or
\* an open, a release or a stutter, none of which moves a thread.
LEMMA MutexStep == Inv /\ [Next]_vars => MutualExclusion'
<1> SUFFICES ASSUME TypeOK, MutualExclusion, [Next]_vars
             PROVE  MutualExclusion'
  BY DEF Inv
<1>0. /\ pc \in [Threads -> {"idle", "ret", "r_lock"} \cup Critical \cup Writing]
      /\ NULL \notin Threads
  BY AesdCharAssumption DEF TypeOK
<1> USE DEF MutualExclusion, Critical, Scanning, Goto
<1>1. CASE \E f \in Files : Open(f) \/ Release(f)
  BY <1>1, <1>0 DEF Open, Release, device
<1>2. CASE \E t \in Threads : Call(t)
  BY <1>2, <1>0 DEF Call, WriteCall, ReadCall, PreadCall, Enter, device
<1>3. ASSUME NEW t \in Threads, WriteAlloc(t) PROVE MutualExclusion'
  BY <1>3, <1>0 DEF WriteAlloc, device
<1>4. ASSUME NEW t \in Threads, WriteNoMem(t) PROVE MutualExclusion'
  BY <1>4, <1>0 DEF WriteNoMem, device
<1>5. ASSUME NEW t \in Threads, WriteCopy(t) PROVE MutualExclusion'
  BY <1>5, <1>0 DEF WriteCopy, device
<1>6. ASSUME NEW t \in Threads, WriteFault(t) PROVE MutualExclusion'
  BY <1>6, <1>0 DEF WriteFault, device
<1>7. ASSUME NEW t \in Threads, WriteLock(t) PROVE MutualExclusion'
  BY <1>7, <1>0 DEF WriteLock, Lock
<1>8. ASSUME NEW t \in Threads, WriteStore(t) PROVE MutualExclusion'
  BY <1>8, <1>0 DEF WriteStore
<1>9. ASSUME NEW t \in Threads, WriteAdvance(t) PROVE MutualExclusion'
  BY <1>9, <1>0 DEF WriteAdvance
<1>10. ASSUME NEW t \in Threads, WriteUnlock(t) PROVE MutualExclusion'
  BY <1>10, <1>0 DEF WriteUnlock
<1>11. ASSUME NEW t \in Threads, ReadLock(t) PROVE MutualExclusion'
  BY <1>11, <1>0 DEF ReadLock, Lock
<1>12. ASSUME NEW t \in Threads, ReadMiss(t) PROVE MutualExclusion'
  BY <1>12, <1>0 DEF ReadMiss, device
<1>13. ASSUME NEW t \in Threads, ReadHit(t) PROVE MutualExclusion'
  BY <1>13, <1>0 DEF ReadHit, device
<1>14. ASSUME NEW t \in Threads, ReadNext(t) PROVE MutualExclusion'
  BY <1>14, <1>0 DEF ReadNext, device
<1>15. ASSUME NEW t \in Threads, ReadCopy(t) PROVE MutualExclusion'
  BY <1>15, <1>0 DEF ReadCopy, device
<1>16. ASSUME NEW t \in Threads, ReadFault(t) PROVE MutualExclusion'
  BY <1>16, <1>0 DEF ReadFault, device
<1>17. ASSUME NEW t \in Threads, ReadUnlock(t) PROVE MutualExclusion'
  BY <1>17, <1>0 DEF ReadUnlock
<1>18. ASSUME NEW t \in Threads, Return(t) PROVE MutualExclusion'
  BY <1>18, <1>0 DEF Return, device
<1>19. CASE UNCHANGED vars
  BY <1>19, <1>0 DEF vars, device
<1> QED
  BY <1>1, <1>2, <1>3, <1>4, <1>5, <1>6, <1>7, <1>8, <1>9, <1>10, <1>11, <1>12, <1>13, <1>14, <1>15, <1>16, <1>17, <1>18, <1>19 DEF Next, Step

\* While a thread scans it holds the mutex, so the ring stands still.
LEMMA ScanStep == Inv /\ [Next]_vars => ScanBounds'
<1> SUFFICES ASSUME TypeOK, MutualExclusion, ScanBounds, [Next]_vars,
                    NEW u \in Threads
             PROVE  /\ pc'[u] \in Scanning => scan'[u].bytes_counted <= fpos'[u]
                    /\ pc'[u] = "r_copy" => ScanHits(buffer', scan'[u], fpos'[u])
  BY DEF Inv, ScanBounds
<1> DEFINE Goal == /\ pc'[u] \in Scanning => scan'[u].bytes_counted <= fpos'[u]
                   /\ pc'[u] = "r_copy" => ScanHits(buffer', scan'[u], fpos'[u])
<1>0. /\ pc \in [Threads -> {"idle", "ret", "r_lock"} \cup Critical \cup Writing]
      /\ fpos \in [Threads -> Nat] /\ scan \in [Threads -> Scans]
      /\ pc[u] \in Scanning => scan[u].bytes_counted <= fpos[u]
      /\ pc[u] = "r_copy" => ScanHits(buffer, scan[u], fpos[u])
  BY DEF TypeOK, ScanBounds
<1> USE DEF Scanning, Goto
<1>1. CASE \E f \in Files : Open(f) \/ Release(f)
  BY <1>1, <1>0 DEF Open, Release, device, args
<1>2. CASE \E t \in Threads : Call(t)
  BY <1>2, <1>0 DEF Call, WriteCall, ReadCall, PreadCall, Enter, device
<1>3. ASSUME NEW t \in Threads, WriteAlloc(t) PROVE Goal
  BY <1>3, <1>0 DEF WriteAlloc, device, args
<1>4. ASSUME NEW t \in Threads, WriteNoMem(t) PROVE Goal
  BY <1>4, <1>0 DEF WriteNoMem, device, args
<1>5. ASSUME NEW t \in Threads, WriteCopy(t) PROVE Goal
  BY <1>5, <1>0 DEF WriteCopy, device, args
<1>6. ASSUME NEW t \in Threads, WriteFault(t) PROVE Goal
  BY <1>6, <1>0 DEF WriteFault, device, args
<1>7. ASSUME NEW t \in Threads, WriteLock(t) PROVE Goal
  BY <1>7, <1>0 DEF WriteLock, Lock, args
<1>8. ASSUME NEW t \in Threads, WriteStore(t) PROVE Goal
  BY <1>8, <1>0 DEF WriteStore, MutualExclusion, Critical, args
<1>9. ASSUME NEW t \in Threads, WriteAdvance(t) PROVE Goal
  BY <1>9, <1>0 DEF WriteAdvance, MutualExclusion, Critical, args
<1>10. ASSUME NEW t \in Threads, WriteUnlock(t) PROVE Goal
  BY <1>10, <1>0 DEF WriteUnlock, args
<1>11. ASSUME NEW t \in Threads, ReadLock(t) PROVE Goal
  BY <1>11, <1>0 DEF ReadLock, Lock, ScanStart, Scans, args
<1>12. ASSUME NEW t \in Threads, ReadMiss(t) PROVE Goal
  BY <1>12, <1>0 DEF ReadMiss, device, args
<1>13. ASSUME NEW t \in Threads, ReadHit(t) PROVE Goal
  BY <1>13, <1>0 DEF ReadHit, device, args
<1>14. ASSUME NEW t \in Threads, ReadNext(t) PROVE Goal
  <2>1. CASE u # t
    BY <1>14, <1>0, <2>1 DEF ReadNext, device, args
  <2>2. CASE u = t
    <3>1. /\ pc[t] = "r_scan" /\ pc' = pc /\ buffer' = buffer /\ fpos' = fpos
          /\ scan'[t] = ScanNext(buffer, scan[t])
          /\ ~(fpos[t] < scan[t].bytes_counted + buffer.entry[scan[t].cur_offs].size)
      BY <1>14, <1>0 DEF ReadNext, ScanHits, device, args
    <3>2. scan[t].cur_offs \in Offsets /\ scan[t].bytes_counted \in Nat
      BY <1>0 DEF Scans
    <3>3. buffer.entry[scan[t].cur_offs].size \in Nat /\ fpos[t] \in Nat
      BY <3>2, <1>0 DEF TypeOK, Buffers, Entries
    <3>4. scan'[t].bytes_counted <= fpos'[t]
      BY <3>1, <3>2, <3>3 DEF ScanNext
    <3> QED
      BY <2>2, <3>1, <3>4
  <2> QED
    BY <2>1, <2>2
<1>15. ASSUME NEW t \in Threads, ReadCopy(t) PROVE Goal
  BY <1>15, <1>0 DEF ReadCopy, device
<1>16. ASSUME NEW t \in Threads, ReadFault(t) PROVE Goal
  BY <1>16, <1>0 DEF ReadFault, device, args
<1>17. ASSUME NEW t \in Threads, ReadUnlock(t) PROVE Goal
  BY <1>17, <1>0 DEF ReadUnlock, args
<1>18. ASSUME NEW t \in Threads, Return(t) PROVE Goal
  BY <1>18, <1>0 DEF Return, device
<1>19. CASE UNCHANGED vars
  BY <1>19, <1>0 DEF vars, device, args
<1> QED
  BY <1>1, <1>2, <1>3, <1>4, <1>5, <1>6, <1>7, <1>8, <1>9, <1>10, <1>11, <1>12, <1>13, <1>14, <1>15, <1>16, <1>17, <1>18, <1>19 DEF Next, Step

-----------------------------------------------------------------------------
THEOREM Invariance == Spec => []Inv
<1>1. Init => Inv
  BY InitInv
<1>2. Inv /\ [Next]_vars => Inv'
  BY TypeStep, MutexStep, ScanStep DEF Inv
<1> QED
  BY <1>1, <1>2, PTL DEF Spec

\* Every variable keeps its type: no offset leaves the ring, no scan runs past
\* MAX entries, no length is negative.
THEOREM TypeCorrectness == Spec => []TypeOK
<1>1. Inv => TypeOK
  BY DEF Inv
<1> QED
  BY <1>1, Invariance, PTL

\* aesd_mutex excludes: the threads inside the ring are exactly its owner.
THEOREM Exclusion == Spec => []MutualExclusion
<1>1. Inv => MutualExclusion
  BY DEF Inv
<1> QED
  BY <1>1, Invariance, PTL

-----------------------------------------------------------------------------

Packet(t) == [data |-> kbuf[t], size |-> count[t], at |-> total]

PacketType == [data : Pointers, size : Nat, at : Nat]

RingShape == Shape(buffer)

-----------------------------------------------------------------------------
LEMMA KeptType ==
  ASSUME TypeOK, RingShape
  PROVE  /\ Ring \in Buffers(Pointers) /\ Shape(Ring) /\ Ring.entry = buffer.entry
         /\ Packets \in [Offsets -> PacketType]
         /\ Kept \in Seq(PacketType)
         /\ Len(Kept) = Count(Ring) /\ Len(Kept) \in 0 .. MAX
         /\ \A k \in 1 .. Len(Kept) : Kept[k] = Packets[Slot(Ring, k - 1)]
         /\ Base = IF Len(Kept) = 0 THEN total ELSE Kept[1].at
<1>1. Ring \in Buffers(Pointers)
  BY RingType
<1>2. Shape(Ring) /\ Ring.entry = buffer.entry
  <2>1. buffer \in Buffers(Pointers)
    BY DEF TypeOK
  <2>2. Shape(Advance(buffer))
    BY <2>1, AdvanceShape DEF RingShape
  <2>3. Advance(buffer).entry = buffer.entry
    BY <2>1 DEF Advance, Buffers
  <2> QED
    BY <2>2, <2>3 DEF Ring, RingShape
<1>3. Packets \in [Offsets -> PacketType]
  <2>1. \A s \in Offsets : buffer.entry[s] \in Entries(Pointers) /\ at[s] \in Nat
    BY DEF TypeOK, Buffers
  <2> QED
    BY <2>1 DEF Packets, PacketType, Entries
<1>4. Count(Ring) \in 0 .. MAX
  BY <1>1, <1>2, ShapeCount
<1>5. \A k \in 1 .. Count(Ring) : k - 1 \in 0 .. MAX /\ Slot(Ring, k - 1) \in Offsets
  <2>1. \A k \in 1 .. Count(Ring) : k - 1 \in 0 .. MAX
    BY <1>4, MaxAssumption
  <2> QED
    BY <1>1, <2>1, SlotIs
<1>6. /\ Kept = [k \in 1 .. Count(Ring) |-> Packets[Slot(Ring, k - 1)]]
      /\ Kept \in Seq(PacketType) /\ Len(Kept) = Count(Ring)
  <2> DEFINE K == Kept
             P == Packets
  <2> HIDE DEF P
  <2>1. K = [k \in 1 .. Count(Ring) |-> P[Slot(Ring, k - 1)]]
    BY DEF Kept, InOrder, P
  <2>2. K \in [1 .. Count(Ring) -> PacketType] /\ Count(Ring) \in Nat
    BY <1>3, <1>4, <1>5, <2>1 DEF P
  <2> HIDE DEF K
  <2>3. K \in Seq(PacketType) /\ Len(K) = Count(Ring)
    BY <2>2
  <2> QED
    BY <2>1, <2>3 DEF K, P
<1>7. Base = IF Len(Kept) = 0 THEN total ELSE Kept[1].at
  <2>1. CASE Count(Ring) = 0
    BY <1>6, <2>1 DEF Base
  <2>2. CASE Count(Ring) # 0
    <3>1. Ring.out_offs \in Offsets
      BY <1>1 DEF Buffers
    <3>2. Slot(Ring, 0) = Ring.out_offs
      BY <1>1, <3>1, SlotIs, MaxAssumption DEF Offsets
    <3>3. 1 \in 1 .. Count(Ring) /\ 1 - 1 = 0
      BY <1>4, <2>2
    <3>4. Kept[1] = Packets[Ring.out_offs]
      BY <1>6, <3>2, <3>3
    <3>5. Packets[Ring.out_offs].at = at[Ring.out_offs]
      BY <3>1 DEF Packets
    <3>6. Base = at[Ring.out_offs]
      BY <2>2 DEF Base
    <3>7. Len(Kept) # 0
      BY <1>6, <2>2
    <3> QED
      BY <3>4, <3>5, <3>6, <3>7
  <2> QED
    BY <2>1, <2>2
<1> QED
  BY <1>1, <1>2, <1>3, <1>4, <1>6, <1>7

\* No step but those of add_entry changes what the device holds.
LEMMA KeptSame ==
  ASSUME buffer' = buffer, at' = at,
         \A t \in Threads : pc'[t] = "w_advance" <=> pc[t] = "w_advance"
  PROVE  Ring' = Ring /\ Kept' = Kept
<1>1. Ring' = Ring
  BY DEF Ring
<1>2. Packets' = Packets
  BY DEF Packets
<1> QED
  BY <1>1, <1>2 DEF Kept

\* The store into the ring is the instant a write is accepted ...
LEMMA KeptStore ==
  ASSUME Inv, RingShape, NEW t \in Threads, WriteStore(t)
  PROVE  Kept' = Push(Kept, Packet(t))
<1>1. TypeOK /\ MutualExclusion
  BY DEF Inv
<1>2. buffer \in Buffers(Pointers) /\ Shape(buffer) /\ buffer.in_offs \in Offsets
  BY <1>1 DEF TypeOK, RingShape, Buffers
<1>3. \A u \in Threads : pc[u] # "w_advance"
  BY <1>1 DEF WriteStore, MutualExclusion, Critical, Scanning
<1>4. Ring = buffer
  BY <1>3 DEF Ring
<1>5. Ring' = Advance(buffer')
  <2>1. pc'[t] = "w_advance"
    BY <1>1 DEF WriteStore, Goto, TypeOK
  <2> QED
    BY <2>1 DEF Ring
<1>6. /\ buffer' = Store(buffer, [buffptr |-> kbuf[t], size |-> count[t]])
      /\ buffer'.entry = [buffer.entry EXCEPT ![buffer.in_offs] =
                              [buffptr |-> kbuf[t], size |-> count[t]]]
      /\ buffer'.in_offs = buffer.in_offs /\ buffer'.out_offs = buffer.out_offs
      /\ buffer'.full = buffer.full
  BY <1>2 DEF WriteStore, Store, Buffers
<1>7. \A s \in Offsets :
          Packets'[s] = IF s = buffer.in_offs THEN Packet(t) ELSE Packets[s]
  <2>1. at' = [at EXCEPT ![buffer.in_offs] = total]
    BY DEF WriteStore
  <2>2. buffer.entry \in [Offsets -> Entries(Pointers)] /\ at \in [Offsets -> Nat]
    BY <1>1 DEF TypeOK, Buffers
  <2>3. Packets' = [s \in Offsets |-> [data |-> buffer'.entry[s].buffptr,
                                       size |-> buffer'.entry[s].size,
                                       at   |-> at'[s]]]
    BY DEF Packets
  <2>4. \A s \in Offsets :
           /\ buffer'.entry[s] = IF s = buffer.in_offs
                                 THEN [buffptr |-> kbuf[t], size |-> count[t]]
                                 ELSE buffer.entry[s]
           /\ at'[s] = IF s = buffer.in_offs THEN total ELSE at[s]
    BY <1>6, <2>1, <2>2
  <2> QED
    BY <2>3, <2>4 DEF Packet, Packets
<1>8. InOrder(Advance(buffer'), Packets') = InOrder(Advance(buffer), Packets')
  BY <1>2, <1>6 DEF Advance, InOrder, Count, Slot, Buffers
<1>9. /\ Packets \in [Offsets -> PacketType] /\ Packet(t) \in PacketType
      /\ Packets' \in [Offsets -> PacketType]
  <2>1. Packets \in [Offsets -> PacketType] /\ Packet(t) \in PacketType
    BY <1>1, KeptType DEF Packet, PacketType, TypeOK
  <2>2. Packets' = [s \in Offsets |-> Packets'[s]]
    BY DEF Packets
  <2> QED
    BY <1>7, <2>1, <2>2
<1>10. InOrder(Advance(buffer), Packets') = Push(InOrder(buffer, Packets), Packet(t))
  BY <1>2, <1>7, <1>9, PushInOrder
<1> QED
  BY <1>4, <1>5, <1>8, <1>10 DEF Kept

\* ... and moving the offsets, still under the mutex, changes nothing more.
LEMMA KeptAdvance ==
  ASSUME Inv, NEW t \in Threads, WriteAdvance(t)
  PROVE  Ring' = Ring /\ Kept' = Kept
<1>1. TypeOK /\ MutualExclusion
  BY DEF Inv
<1>2. \A u \in Threads : u # t => pc[u] # "w_advance"
  BY <1>1 DEF WriteAdvance, MutualExclusion, Critical, Scanning
<1>3. \A u \in Threads : pc'[u] # "w_advance"
  BY <1>1, <1>2 DEF WriteAdvance, Goto, TypeOK
<1>4. Ring = Advance(buffer) /\ Ring' = buffer' /\ buffer' = Advance(buffer)
  BY <1>3 DEF Ring, WriteAdvance
<1>5. Packets' = Packets
  <2>1. buffer'.entry = buffer.entry /\ at' = at
    BY <1>1 DEF WriteAdvance, Advance, TypeOK, Buffers, history
  <2> QED
    BY <2>1 DEF Packets
<1> QED
  BY <1>4, <1>5 DEF Kept

-----------------------------------------------------------------------------
\* The packets of window w are consecutive and end at the n-th accepted byte.
StreamOK(w, n) ==
    /\ \A k \in 1 .. Len(w) : w[k].at + w[k].size <= n
    /\ \A j, k \in 1 .. Len(w) : j < k => w[j].at + w[j].size <= w[k].at
    /\ \A k \in 1 .. Len(w) :
          w[k].at + w[k].size = IF k = Len(w) THEN n ELSE w[k + 1].at

LEMMA PushKeeps ==
  ASSUME NEW w \in Seq(PacketType), Len(w) <= MAX, NEW e \in PacketType
  PROVE  \A k \in 1 .. Len(Push(w, e)) - 1 :
            Push(w, e)[k] = IF Len(w) < MAX THEN w[k] ELSE w[k + 1]
<1> DEFINE v == Push(w, e)
<1>1. v = Push(w, e)
  OBVIOUS
<1> HIDE DEF v
<1>2. \A k \in 1 .. Len(v) - 1 : v[k] = IF Len(w) < MAX THEN w[k] ELSE w[k + 1]
  BY <1>1, PushElements, SMTT(60)
<1> QED
  BY <1>1, <1>2, Zenon

LEMMA StreamPush ==
  ASSUME NEW w \in Seq(PacketType), Len(w) <= MAX, NEW n \in Nat,
         StreamOK(w, n), NEW e \in PacketType, e.at = n
  PROVE  StreamOK(Push(w, e), n + e.size)
<1> DEFINE v == Push(w, e)
           d == IF Len(w) < MAX THEN 0 ELSE 1
<1>1. Len(w) \in Nat /\ MAX \in Nat /\ MAX > 0
  BY LenProperties, MaxAssumption
<1>2. /\ Len(v) = Len(w) + 1 - d /\ v[Len(v)] = e
      /\ \A k \in 1 .. Len(v) - 1 : v[k] = w[k + d]
  <2>1. v = Push(w, e)
    OBVIOUS
  <2> HIDE DEF v
  <2>2. Len(v) = IF Len(w) < MAX THEN Len(w) + 1 ELSE Len(w)
    BY <2>1, PushElements
  <2>3. v[Len(v)] = e
    BY <2>1, PushElements
  <2>4. \A k \in 1 .. Len(v) - 1 : v[k] = IF Len(w) < MAX THEN w[k] ELSE w[k + 1]
    BY <2>1, PushKeeps
  <2>5. CASE Len(w) < MAX
    BY <1>1, <2>2, <2>3, <2>4, <2>5
  <2>6. CASE ~(Len(w) < MAX)
    BY <1>1, <2>2, <2>3, <2>4, <2>6
  <2> QED
    BY <2>5, <2>6
<1>3. \A k \in 1 .. Len(w) : w[k] \in PacketType
  BY ElementOfSeq
<1>4. /\ d \in {0, 1} /\ (d = 0 \/ Len(w) >= 1)
      /\ \A k \in 1 .. Len(v) - 1 : k + d \in 1 .. Len(w)
  BY <1>1, <1>2
<1> HIDE DEF v, d
<1>5. /\ Len(v) \in Nat /\ e.at \in Nat /\ e.size \in Nat
      /\ \A k \in 1 .. Len(w) : w[k].at \in Nat /\ w[k].size \in Nat
  BY <1>1, <1>2, <1>3, <1>4 DEF PacketType
<1>6. \A k \in 1 .. Len(v) - 1 : v[k].at + v[k].size <= n
  BY <1>2, <1>4 DEF StreamOK
<1>7. \A k \in 1 .. Len(v) : v[k].at + v[k].size <= n + e.size
  <2>1. ASSUME NEW k \in 1 .. Len(v) - 1
        PROVE  v[k].at + v[k].size <= n + e.size
    <3>1. v[k].at \in Nat /\ v[k].size \in Nat
      BY <1>2, <1>4, <1>5
    <3>2. v[k].at + v[k].size <= n
      BY <1>6
    <3>3. e.size \in Nat
      BY <1>5
    <3> QED
      BY <3>1, <3>2, <3>3
  <2>2. v[Len(v)].at + v[Len(v)].size <= n + e.size
    BY <1>2, <1>5
  <2> QED
    BY <1>5, <2>1, <2>2
<1>8. \A j, k \in 1 .. Len(v) : j < k => v[j].at + v[j].size <= v[k].at
  <2>1. SUFFICES ASSUME NEW j \in 1 .. Len(v), NEW k \in 1 .. Len(v), j < k
                 PROVE  v[j].at + v[j].size <= v[k].at
    OBVIOUS
  <2>2. j \in 1 .. Len(v) - 1
    BY <1>5, <2>1
  <2>3. CASE k = Len(v)
    BY <1>2, <1>6, <2>2, <2>3
  <2>4. CASE k # Len(v)
    <3>1. k \in 1 .. Len(v) - 1 /\ j + d < k + d
      BY <1>4, <1>5, <2>1, <2>4
    <3> QED
      BY <1>2, <1>4, <2>2, <3>1 DEF StreamOK
  <2> QED
    BY <2>3, <2>4
<1>9. \A k \in 1 .. Len(v) :
         v[k].at + v[k].size = IF k = Len(v) THEN n + e.size ELSE v[k + 1].at
  <2>1. SUFFICES ASSUME NEW k \in 1 .. Len(v)
                 PROVE  v[k].at + v[k].size =
                           IF k = Len(v) THEN n + e.size ELSE v[k + 1].at
    OBVIOUS
  <2>2. CASE k = Len(v)
    BY <1>2, <2>2
  <2>3. CASE k # Len(v)
    <3>1. /\ k \in 1 .. Len(v) - 1 /\ k + d \in 1 .. Len(w)
          /\ v[k] = w[k + d]
      BY <1>2, <1>4, <1>5, <2>3
    <3>2. w[k + d].at + w[k + d].size =
             IF k + d = Len(w) THEN n ELSE w[k + d + 1].at
      BY <3>1 DEF StreamOK
    <3>3. CASE k + 1 = Len(v)
      <4>1. k + d = Len(w)
        BY <1>1, <1>2, <1>4, <3>3
      <4> QED
        BY <1>2, <2>3, <3>1, <3>2, <3>3, <4>1
    <3>4. CASE k + 1 # Len(v)
      <4>1. /\ k + 1 \in 1 .. Len(v) - 1 /\ k + 1 + d = k + d + 1
            /\ k + d # Len(w)
        BY <1>1, <1>2, <1>4, <1>5, <3>1, <3>4
      <4>2. v[k + 1] = w[k + d + 1]
        BY <1>2, <4>1
      <4> QED
        BY <2>3, <3>1, <3>2, <4>1, <4>2
    <3> QED
      BY <3>3, <3>4
  <2> QED
    BY <2>2, <2>3
<1>10. StreamOK(v, n + e.size)
  BY <1>7, <1>8, <1>9 DEF StreamOK
<1> QED
  BY <1>10 DEF v

-----------------------------------------------------------------------------
Stream == StreamOK(Kept, total)

\* Where the scan of thread t stands: at the i-th kept packet, having counted
\* the bytes of those before it.
ScanAt(t) ==
    /\ scan[t].i <= Count(buffer)
    /\ scan[t].cur_offs = Slot(buffer, scan[t].i)
    /\ scan[t].bytes_counted =
          (IF scan[t].i = Len(Kept) THEN total ELSE Kept[scan[t].i + 1].at) - Base

ScanPlace == \A t \in Threads : pc[t] \in Scanning => ScanAt(t)

DeviceInv == RingShape /\ Stream /\ ScanPlace

\* Every step outside add_entry leaves the ring alone.
Quiet == /\ buffer' = buffer /\ at' = at /\ total' = total
         /\ \A t \in Threads : pc'[t] = "w_advance" <=> pc[t] = "w_advance"

LEMMA QuietSteps ==
  ASSUME Inv, [Next]_vars
  PROVE  Quiet \/ \E t \in Threads : WriteStore(t) \/ WriteAdvance(t)
<1>0. pc \in [Threads -> {"idle", "ret", "r_lock"} \cup Critical \cup Writing]
  BY DEF Inv, TypeOK
<1> USE DEF Quiet, Goto
<1>1. ASSUME NEW f \in Files, Open(f) \/ Release(f) PROVE Quiet
  BY <1>1, <1>0 DEF Open, Release, device, history
<1>2. ASSUME NEW t \in Threads, Call(t) PROVE Quiet
  BY <1>2, <1>0 DEF Call, WriteCall, ReadCall, PreadCall, Enter, device, history
<1>3. ASSUME NEW t \in Threads, WriteAlloc(t) PROVE Quiet
  BY <1>3, <1>0 DEF WriteAlloc, device, history
<1>4. ASSUME NEW t \in Threads, WriteNoMem(t) PROVE Quiet
  BY <1>4, <1>0 DEF WriteNoMem, device, history
<1>5. ASSUME NEW t \in Threads, WriteCopy(t) PROVE Quiet
  BY <1>5, <1>0 DEF WriteCopy, device, history
<1>6. ASSUME NEW t \in Threads, WriteFault(t) PROVE Quiet
  BY <1>6, <1>0 DEF WriteFault, device, history
<1>7. ASSUME NEW t \in Threads, WriteLock(t) PROVE Quiet
  BY <1>7, <1>0 DEF WriteLock, Lock, history
<1>8. ASSUME NEW t \in Threads, WriteUnlock(t) PROVE Quiet
  BY <1>8, <1>0 DEF WriteUnlock, history
<1>9. ASSUME NEW t \in Threads, ReadLock(t) PROVE Quiet
  BY <1>9, <1>0 DEF ReadLock, Lock, history
<1>10. ASSUME NEW t \in Threads, ReadMiss(t) PROVE Quiet
  BY <1>10, <1>0 DEF ReadMiss, device, history
<1>11. ASSUME NEW t \in Threads, ReadHit(t) PROVE Quiet
  BY <1>11, <1>0 DEF ReadHit, device, history
<1>12. ASSUME NEW t \in Threads, ReadNext(t) PROVE Quiet
  BY <1>12, <1>0 DEF ReadNext, device, history
<1>13. ASSUME NEW t \in Threads, ReadCopy(t) PROVE Quiet
  BY <1>13, <1>0 DEF ReadCopy, device
<1>14. ASSUME NEW t \in Threads, ReadFault(t) PROVE Quiet
  BY <1>14, <1>0 DEF ReadFault, device, history
<1>15. ASSUME NEW t \in Threads, ReadUnlock(t) PROVE Quiet
  BY <1>15, <1>0 DEF ReadUnlock, history
<1>16. ASSUME NEW t \in Threads, Return(t) PROVE Quiet
  BY <1>16, <1>0 DEF Return, device, history
<1>17. CASE UNCHANGED vars
  BY <1>17, <1>0 DEF vars, device, history
<1> QED
  BY <1>1, <1>2, <1>3, <1>4, <1>5, <1>6, <1>7, <1>8, <1>9, <1>10, <1>11,
     <1>12, <1>13, <1>14, <1>15, <1>16, <1>17 DEF Next, Step

\* How a thread comes to be scanning.
LEMMA ScanSteps ==
  ASSUME Inv, [Next]_vars, NEW t \in Threads, pc'[t] \in Scanning
  PROVE  \/ pc[t] \in Scanning /\ scan'[t] = scan[t]
         \/ ReadLock(t)
         \/ ReadNext(t)
<1>0. /\ pc \in [Threads -> {"idle", "ret", "r_lock"} \cup Critical \cup Writing]
      /\ scan \in [Threads -> Scans]
  BY DEF Inv, TypeOK
<1> DEFINE Goal == \/ pc[t] \in Scanning /\ scan'[t] = scan[t]
                   \/ ReadLock(t) \/ ReadNext(t)
<1> USE DEF Scanning, Goto
<1>1. ASSUME NEW f \in Files, Open(f) \/ Release(f) PROVE Goal
  BY <1>1, <1>0 DEF Open, Release, history
<1>2. ASSUME NEW u \in Threads, Call(u) PROVE Goal
  BY <1>2, <1>0 DEF Call, WriteCall, ReadCall, PreadCall, Enter
<1>3. ASSUME NEW u \in Threads, WriteAlloc(u) PROVE Goal
  BY <1>3, <1>0 DEF WriteAlloc
<1>4. ASSUME NEW u \in Threads, WriteNoMem(u) PROVE Goal
  BY <1>4, <1>0 DEF WriteNoMem
<1>5. ASSUME NEW u \in Threads, WriteCopy(u) PROVE Goal
  BY <1>5, <1>0 DEF WriteCopy
<1>6. ASSUME NEW u \in Threads, WriteFault(u) PROVE Goal
  BY <1>6, <1>0 DEF WriteFault
<1>7. ASSUME NEW u \in Threads, WriteLock(u) PROVE Goal
  BY <1>7, <1>0 DEF WriteLock, Lock
<1>8. ASSUME NEW u \in Threads, WriteStore(u) PROVE Goal
  BY <1>8, <1>0 DEF WriteStore
<1>9. ASSUME NEW u \in Threads, WriteAdvance(u) PROVE Goal
  BY <1>9, <1>0 DEF WriteAdvance
<1>10. ASSUME NEW u \in Threads, WriteUnlock(u) PROVE Goal
  BY <1>10, <1>0 DEF WriteUnlock
<1>11. ASSUME NEW u \in Threads, ReadLock(u) PROVE Goal
  BY <1>11, <1>0 DEF ReadLock, Lock
<1>12. ASSUME NEW u \in Threads, ReadMiss(u) PROVE Goal
  BY <1>12, <1>0 DEF ReadMiss
<1>13. ASSUME NEW u \in Threads, ReadHit(u) PROVE Goal
  BY <1>13, <1>0 DEF ReadHit
<1>14. ASSUME NEW u \in Threads, ReadNext(u) PROVE Goal
  BY <1>14, <1>0 DEF ReadNext
<1>15. ASSUME NEW u \in Threads, ReadCopy(u) PROVE Goal
  BY <1>15, <1>0 DEF ReadCopy
<1>16. ASSUME NEW u \in Threads, ReadFault(u) PROVE Goal
  BY <1>16, <1>0 DEF ReadFault
<1>17. ASSUME NEW u \in Threads, ReadUnlock(u) PROVE Goal
  BY <1>17, <1>0 DEF ReadUnlock
<1>18. ASSUME NEW u \in Threads, Return(u) PROVE Goal
  BY <1>18, <1>0 DEF Return
<1>19. CASE UNCHANGED vars
  BY <1>19, <1>0 DEF vars
<1> QED
  BY <1>1, <1>2, <1>3, <1>4, <1>5, <1>6, <1>7, <1>8, <1>9, <1>10, <1>11,
     <1>12, <1>13, <1>14, <1>15, <1>16, <1>17, <1>18, <1>19 DEF Next, Step

\* What a thread knows while it scans: the ring it sees is the whole ring.
LEMMA Scanned ==
  ASSUME Inv, DeviceInv, NEW t \in Threads, pc[t] \in Scanning
  PROVE  /\ Ring = buffer /\ Len(Kept) = Count(buffer)
         /\ scan[t].i \in 0 .. Len(Kept)
         /\ ScanEnds(buffer, scan[t]) <=> scan[t].i = Len(Kept)
         /\ scan[t].i < Len(Kept) =>
               LET p == Kept[scan[t].i + 1]
               IN  /\ p \in PacketType
                   /\ p.data = Found(t).buffptr
                   /\ p.size = Found(t).size
                   /\ p.at = at[scan[t].cur_offs]
                   /\ scan[t].bytes_counted = p.at - Base
<1>0. TypeOK /\ MutualExclusion /\ ScanAt(t) /\ RingShape
  BY DEF Inv, DeviceInv, ScanPlace
<1>1. Ring = buffer
  BY <1>0 DEF Ring, MutualExclusion, Critical, Scanning
<1>2. /\ buffer \in Buffers(Pointers) /\ Shape(buffer) /\ scan[t] \in Scans
  BY <1>0 DEF TypeOK, RingShape
<1>3. /\ Len(Kept) = Count(buffer) /\ Len(Kept) \in 0 .. MAX
      /\ Kept \in Seq(PacketType)
      /\ \A k \in 1 .. Len(Kept) : Kept[k] = Packets[Slot(buffer, k - 1)]
  BY <1>0, <1>1, KeptType
<1>4. scan[t].i \in 0 .. Len(Kept)
  BY <1>0, <1>2, <1>3 DEF Scans, ScanAt
<1>5. ScanEnds(buffer, scan[t]) <=> scan[t].i = Len(Kept)
  BY <1>0, <1>2, <1>3, ScanEndsAtCount DEF ScanAt
<1>6. ASSUME scan[t].i < Len(Kept)
      PROVE  LET p == Kept[scan[t].i + 1]
             IN  /\ p \in PacketType
                 /\ p.data = Found(t).buffptr
                 /\ p.size = Found(t).size
                 /\ p.at = at[scan[t].cur_offs]
                 /\ scan[t].bytes_counted = p.at - Base
  <2>1. /\ scan[t].i + 1 \in 1 .. Len(Kept) /\ scan[t].i + 1 - 1 = scan[t].i
        /\ scan[t].i # Len(Kept)
    BY <1>3, <1>4, <1>6
  <2>2. Kept[scan[t].i + 1] = Packets[scan[t].cur_offs]
    <3> DEFINE k == scan[t].i + 1
    <3>1. k \in 1 .. Len(Kept) /\ k - 1 = scan[t].i
      BY <1>3, <1>4, <2>1
    <3> HIDE DEF k
    <3>2. Kept[k] = Packets[Slot(buffer, k - 1)]
      BY <1>3, <3>1
    <3> QED
      BY <1>0, <3>1, <3>2 DEF ScanAt, k
  <2>3. scan[t].cur_offs \in Offsets
    BY <1>2 DEF Scans
  <2>4. Kept[scan[t].i + 1] \in PacketType
    BY <1>3, <2>1, ElementOfSeq
  <2>5. scan[t].bytes_counted = Kept[scan[t].i + 1].at - Base
    BY <1>0, <2>1 DEF ScanAt
  <2> QED
    BY <2>2, <2>3, <2>4, <2>5 DEF Packets, Found
<1> QED
  BY <1>1, <1>3, <1>4, <1>5, <1>6

LEMMA DeviceStep == Inv /\ DeviceInv /\ [Next]_vars => DeviceInv'
<1> SUFFICES ASSUME Inv, DeviceInv, [Next]_vars PROVE DeviceInv'
  OBVIOUS
<1>0. /\ TypeOK /\ MutualExclusion /\ TypeOK' /\ MutualExclusion'
      /\ RingShape /\ Stream /\ ScanPlace
  BY TypeStep, MutexStep DEF Inv, DeviceInv
<1>1. CASE Quiet
  <2>1. Ring' = Ring /\ Kept' = Kept /\ Base' = Base
    <3>1. Ring' = Ring /\ Kept' = Kept
      BY <1>1, KeptSame DEF Quiet
    <3> QED
      BY <1>1, <3>1 DEF Quiet, Base
  <2>2. RingShape' /\ Stream'
    BY <1>0, <1>1, <2>1 DEF Quiet, RingShape, Stream
  <2>3. ASSUME NEW t \in Threads, pc'[t] \in Scanning PROVE ScanAt(t)'
    <3>1. CASE pc[t] \in Scanning /\ scan'[t] = scan[t]
      BY <1>0, <1>1, <2>1, <3>1 DEF Quiet, ScanPlace, ScanAt
    <3>2. CASE ReadLock(t)
      <4>1. buffer \in Buffers(Pointers) /\ buffer.out_offs \in Offsets
        BY <1>0 DEF TypeOK, Buffers
      <4>2. scan'[t] = [i |-> 0, cur_offs |-> buffer.out_offs, bytes_counted |-> 0]
        BY <1>0, <3>2 DEF ReadLock, ScanStart, TypeOK
      <4>3. Slot(buffer, 0) = buffer.out_offs
        BY <4>1, SlotIs, MaxAssumption DEF Offsets
      <4>4. Count(buffer) >= 0 /\ 0 \in Int
        BY <1>0, <4>1, ShapeCount DEF RingShape
      <4>5. (IF 0 = Len(Kept) THEN total ELSE Kept[1].at) - Base = 0
        <5>1. Base = IF Len(Kept) = 0 THEN total ELSE Kept[1].at
          BY <1>0, KeptType
        <5>2. Base \in Nat
          BY <1>0, RingType
        <5> QED
          BY <5>1, <5>2
      <4> QED
        BY <1>1, <2>1, <4>2, <4>3, <4>4, <4>5 DEF Quiet, ScanAt
    <3>3. CASE ReadNext(t)
      <4>1. pc[t] \in Scanning
        BY <3>3 DEF ReadNext, Scanning
      <4> DEFINE i == scan[t].i
                 p == Kept[i + 1]
      <4>2. /\ scan[t] \in Scans /\ buffer \in Buffers(Pointers)
            /\ ScanAt(t) /\ Shape(buffer)
        BY <1>0, <4>1 DEF TypeOK, ScanPlace, RingShape
      <4>3. /\ Len(Kept) = Count(buffer) /\ i \in 0 .. Len(Kept)
            /\ i # Len(Kept) /\ Len(Kept) \in 0 .. MAX
        BY <1>0, <3>3, <4>1, Scanned, KeptType DEF ReadNext
      <4>4. /\ p \in PacketType /\ p.size = Found(t).size
            /\ scan[t].bytes_counted = p.at - Base
        BY <4>1, <4>3, Scanned
      <4>5. p.at + p.size = IF i + 1 = Len(Kept) THEN total ELSE Kept[i + 2].at
        <5>1. i + 1 \in 1 .. Len(Kept) /\ i + 1 + 1 = i + 2
          BY <4>3
        <5> QED
          BY <1>0, <5>1 DEF Stream, StreamOK
      <4>6. scan'[t] = ScanNext(buffer, scan[t])
        BY <1>0, <3>3 DEF ReadNext, TypeOK
      <4>7. (scan[t].cur_offs + 1) % MAX = Slot(buffer, i + 1)
        BY <4>2, <4>3, SlotNext, MaxAssumption DEF ScanAt
      <4>8. p.at \in Nat /\ p.size \in Nat /\ Base \in Nat /\ i + 1 + 1 = i + 2
        <5>1. p.at \in Nat /\ p.size \in Nat
          BY <4>4 DEF PacketType
        <5>2. Base \in Nat
          BY <1>0, RingType
        <5>3. i + 1 + 1 = i + 2
          BY <4>3
        <5> QED
          BY <5>1, <5>2, <5>3
      <4>9. scan'[t].bytes_counted =
               (IF i + 1 = Len(Kept) THEN total ELSE Kept[i + 2].at) - Base
        <5>1. scan'[t].bytes_counted = scan[t].bytes_counted + p.size
          BY <4>4, <4>6 DEF ScanNext, Found
        <5> DEFINE x == IF i + 1 = Len(Kept) THEN total ELSE Kept[i + 2].at
        <5>2. p.at + p.size = x
          BY <4>5
        <5> HIDE DEF x, p
        <5>3. scan'[t].bytes_counted = (p.at - Base) + p.size
          BY <4>4, <5>1
        <5>4. scan'[t].bytes_counted = x - Base
          BY <4>8, <5>2, <5>3
        <5> QED
          BY <5>4 DEF x
      <4>10. /\ scan'[t].i = i + 1 /\ i + 1 <= Count(buffer)
             /\ scan'[t].cur_offs = Slot(buffer, i + 1)
        BY <4>3, <4>6, <4>7 DEF ScanNext
      <4> QED
        BY <1>1, <2>1, <4>8, <4>9, <4>10 DEF Quiet, ScanAt
    <3> QED
      BY <2>3, <3>1, <3>2, <3>3, ScanSteps
  <2> QED
    BY <2>2, <2>3 DEF DeviceInv, ScanPlace
<1>2. ASSUME NEW t \in Threads, WriteStore(t) \/ WriteAdvance(t)
      PROVE  DeviceInv'
  <2>1. pc'[t] \in {"w_advance", "w_unlock"}
    BY <1>0, <1>2 DEF WriteStore, WriteAdvance, Goto, TypeOK
  <2>2. ScanPlace'
    <3>1. owner' = t
      BY <1>0, <2>1 DEF MutualExclusion, Critical
    <3> QED
      BY <1>0, <2>1, <3>1 DEF ScanPlace, MutualExclusion, Critical, Scanning
  <2>3. buffer \in Buffers(Pointers)
    BY <1>0 DEF TypeOK
  <2>4. CASE WriteStore(t)
    <3>1. RingShape'
      BY <1>0, <2>3, <2>4 DEF RingShape, WriteStore, Store, Shape, Buffers
    <3>2. /\ Kept \in Seq(PacketType) /\ Len(Kept) <= MAX /\ total \in Nat
          /\ Packet(t) \in PacketType
      BY <1>0, KeptType, MaxAssumption DEF TypeOK, Packet, PacketType
    <3>3. Packet(t).at = total /\ Packet(t).size = count[t]
      BY DEF Packet
    <3>4. total' = total + count[t]
      BY <2>4 DEF WriteStore
    <3>5. StreamOK(Push(Kept, Packet(t)), total + count[t])
      BY <1>0, <3>2, <3>3, StreamPush DEF Stream
    <3>6. Stream'
      BY <1>0, <2>4, <3>4, <3>5, KeptStore DEF Stream
    <3> QED
      BY <2>2, <3>1, <3>6 DEF DeviceInv
  <2>5. CASE WriteAdvance(t)
    <3>1. RingShape'
      BY <1>0, <2>3, <2>5, AdvanceShape DEF RingShape, WriteAdvance
    <3>2. Stream'
      BY <1>0, <2>5, KeptAdvance DEF Stream, WriteAdvance, history
    <3> QED
      BY <2>2, <3>1, <3>2 DEF DeviceInv
  <2> QED
    BY <1>2, <2>4, <2>5
<1> QED
  BY <1>1, <1>2, QuietSteps

LEMMA DeviceInit == Init => DeviceInv
<1> SUFFICES ASSUME Init PROVE DeviceInv
  OBVIOUS
<1>1. RingShape
  BY DEF Init, RingShape, Shape, InitBuffer
<1>2. Ring = InitBuffer
  BY DEF Init, Ring
<1>3. Count(Ring) = 0
  BY <1>2, MaxAssumption DEF Count, InitBuffer
<1>4. TypeOK
  BY InitInv DEF Inv
<1>5. Len(Kept) = 0
  BY <1>1, <1>3, <1>4, KeptType
<1>6. Stream
  BY <1>5 DEF Stream, StreamOK
<1>7. ScanPlace
  BY DEF Init, ScanPlace, Scanning
<1> QED
  BY <1>1, <1>6, <1>7 DEF DeviceInv

-----------------------------------------------------------------------------
(* The memory behind the entries.                                            *)
Holding == {"w_copy", "w_lock", "w_store"}

\* b is in the hands of a writer that will put it in the ring, or free it.
Held(b) == \E t \in Threads : pc[t] \in Holding /\ kbuf[t] = b

InRing(b) == \E k \in 1 .. Len(Kept) : Kept[k].data = b

HoldOK(t) ==
    IF pc[t] \in Holding
    THEN /\ kbuf[t] \in Blocks \cup {ZERO_SIZE_PTR}
         /\ kbuf[t] = ZERO_SIZE_PTR <=> count[t] = 0
         /\ kbuf[t] \in Blocks =>
               heap[kbuf[t]] = IF pc[t] = "w_copy" THEN "raw" ELSE "filled"
    ELSE pc[t] = "w_advance" \/ kbuf[t] = NULL

HoldersDiffer == \A t, u \in Threads :
    /\ t # u /\ pc[t] \in Holding /\ pc[u] \in Holding /\ kbuf[t] \in Blocks
    => kbuf[t] # kbuf[u]

KeptDiffer == \A j, k \in 1 .. Len(Kept) :
    j < k /\ Kept[j].data \in Blocks => Kept[j].data # Kept[k].data

BlockOK(b) ==
    /\ b \in dropped => heap[b] = "filled" /\ ~Held(b) /\ ~InRing(b)
    /\ InRing(b) => heap[b] = "filled" /\ ~Held(b)
    /\ heap[b] # "free" => b \in dropped \/ Held(b) \/ InRing(b)
    /\ Held(b) => heap[b] # "free"

HeapInv == /\ \A t \in Threads : HoldOK(t)
           /\ HoldersDiffer
           /\ KeptDiffer
           /\ \A b \in Blocks : BlockOK(b)

\* A step that changes neither the heap nor what writers hold.
HeapQuiet ==
    /\ heap' = heap /\ kbuf' = kbuf /\ dropped' = dropped
    /\ \A t \in Threads : /\ pc'[t] \in Holding <=> pc[t] \in Holding
                          /\ pc'[t] = "w_copy" <=> pc[t] = "w_copy"
                          /\ pc[t] \in Holding => count'[t] = count[t]

LEMMA HeapSame == HeapInv /\ Quiet /\ HeapQuiet => HeapInv'
<1> SUFFICES ASSUME HeapInv, Quiet, HeapQuiet PROVE HeapInv'
  OBVIOUS
<1> USE DEF HeapQuiet
<1>1. Kept' = Kept
  BY KeptSame DEF Quiet
<1>2. \A b \in Blocks : (Held(b)' <=> Held(b)) /\ (InRing(b)' <=> InRing(b))
  BY <1>1 DEF Held, InRing
<1>3. \A t \in Threads : HoldOK(t)'
  BY DEF HeapInv, HoldOK, Quiet
<1>4. HoldersDiffer' /\ KeptDiffer'
  BY <1>1 DEF HeapInv, HoldersDiffer, KeptDiffer
<1>5. \A b \in Blocks : BlockOK(b)'
  BY <1>2 DEF HeapInv, BlockOK
<1> QED
  BY <1>3, <1>4, <1>5 DEF HeapInv

\* A step of thread t that changes the heap but not the ring: what it must
\* show is about t and about the block it changes.
LEMMA HeapOne ==
  ASSUME Inv, HeapInv, Quiet, dropped' = dropped, NEW t \in Threads,
         pc' = [pc EXCEPT ![t] = pc'[t]], kbuf' = [kbuf EXCEPT ![t] = kbuf'[t]],
         count' = count, HoldOK(t)',
         \A u \in Threads \ {t} :
            pc[u] \in Holding /\ kbuf[u] \in Blocks =>
               /\ heap'[kbuf[u]] = heap[kbuf[u]]
               /\ pc'[t] \in Holding => kbuf'[t] # kbuf[u],
         \A b \in Blocks : heap'[b] # heap[b] =>
               /\ b \notin dropped /\ ~InRing(b)
               /\ heap'[b] = "free" <=> ~(pc'[t] \in Holding /\ kbuf'[t] = b),
         \A b \in Blocks : heap'[b] = heap[b] =>
               ((pc'[t] \in Holding /\ kbuf'[t] = b) <=>
                (pc[t] \in Holding /\ kbuf[t] = b))
  PROVE  HeapInv'
<1>0. /\ pc \in [Threads -> {"idle", "ret", "r_lock"} \cup Critical \cup Writing]
      /\ kbuf \in [Threads -> Pointers]
  BY DEF Inv, TypeOK
<1>1. Kept' = Kept
  BY KeptSame DEF Quiet
<1>2. \A u \in Threads \ {t} : pc'[u] = pc[u] /\ kbuf'[u] = kbuf[u]
  BY <1>0
<1>3. \A u \in Threads : HoldOK(u)'
  BY <1>2 DEF HeapInv, HoldOK
<1>4. HoldersDiffer'
  <2>1. SUFFICES ASSUME NEW u \in Threads, NEW v \in Threads, u # v,
                        pc'[u] \in Holding, pc'[v] \in Holding, kbuf'[u] \in Blocks
                 PROVE  kbuf'[u] # kbuf'[v]
    BY DEF HoldersDiffer
  <2>2. CASE u # t /\ v # t
    BY <1>2, <2>1, <2>2 DEF HeapInv, HoldersDiffer
  <2>3. CASE u = t
    BY <1>2, <2>1, <2>3
  <2>4. CASE v = t
    BY <1>2, <2>1, <2>4
  <2> QED
    BY <2>2, <2>3, <2>4
<1>5. KeptDiffer'
  BY <1>1 DEF HeapInv, KeptDiffer
<1>6. ASSUME NEW b \in Blocks PROVE BlockOK(b)'
  <2>1. InRing(b)' <=> InRing(b)
    BY <1>1 DEF InRing
  <2>2. Held(b)' <=> \/ pc'[t] \in Holding /\ kbuf'[t] = b
                     \/ \E u \in Threads \ {t} : pc[u] \in Holding /\ kbuf[u] = b
    BY <1>2 DEF Held
  <2>3. Held(b) <=> \/ pc[t] \in Holding /\ kbuf[t] = b
                    \/ \E u \in Threads \ {t} : pc[u] \in Holding /\ kbuf[u] = b
    BY DEF Held
  <2>4. BlockOK(b)
    BY DEF HeapInv
  <2>5. CASE heap'[b] = heap[b]
    <3>1. Held(b)' <=> Held(b)
      BY <2>2, <2>3, <2>5
    <3> QED
      BY <2>1, <2>4, <2>5, <3>1 DEF BlockOK
  <2>6. CASE heap'[b] # heap[b]
    <3>1. \A u \in Threads \ {t} : ~(pc[u] \in Holding /\ kbuf[u] = b)
      BY <2>6
    <3>2. Held(b)' <=> heap'[b] # "free"
      BY <2>2, <2>6, <3>1
    <3> QED
      BY <2>1, <2>6, <3>2 DEF BlockOK
  <2> QED
    BY <2>5, <2>6
<1> QED
  BY <1>3, <1>4, <1>5, <1>6 DEF HeapInv

LEMMA HeapQuietSteps ==
  ASSUME Inv, [Next]_vars
  PROVE  \/ HeapQuiet
         \/ \E t \in Threads : \/ WriteAlloc(t) \/ WriteCopy(t) \/ WriteFault(t)
                               \/ WriteStore(t) \/ WriteAdvance(t)
<1>0. /\ pc \in [Threads -> {"idle", "ret", "r_lock"} \cup Critical \cup Writing]
      /\ count \in [Threads -> Nat]
  BY DEF Inv, TypeOK
<1> USE DEF HeapQuiet, Holding, Goto
<1>1. ASSUME NEW f \in Files, Open(f) \/ Release(f) PROVE HeapQuiet
  BY <1>1, <1>0 DEF Open, Release, args, history
<1>2. ASSUME NEW t \in Threads, Call(t) PROVE HeapQuiet
  BY <1>2, <1>0 DEF Call, WriteCall, ReadCall, PreadCall, Enter, history
<1>3. ASSUME NEW t \in Threads, WriteNoMem(t) PROVE HeapQuiet
  BY <1>3, <1>0 DEF WriteNoMem, args, history
<1>4. ASSUME NEW t \in Threads, WriteLock(t) PROVE HeapQuiet
  BY <1>4, <1>0 DEF WriteLock, Lock, args, history
<1>5. ASSUME NEW t \in Threads, WriteUnlock(t) PROVE HeapQuiet
  BY <1>5, <1>0 DEF WriteUnlock, args, history
<1>6. ASSUME NEW t \in Threads, ReadLock(t) PROVE HeapQuiet
  BY <1>6, <1>0 DEF ReadLock, Lock, args, history
<1>7. ASSUME NEW t \in Threads, ReadMiss(t) PROVE HeapQuiet
  BY <1>7, <1>0 DEF ReadMiss, args, history
<1>8. ASSUME NEW t \in Threads, ReadHit(t) PROVE HeapQuiet
  BY <1>8, <1>0 DEF ReadHit, args, history
<1>9. ASSUME NEW t \in Threads, ReadNext(t) PROVE HeapQuiet
  BY <1>9, <1>0 DEF ReadNext, args, history
<1>10. ASSUME NEW t \in Threads, ReadCopy(t) PROVE HeapQuiet
  BY <1>10, <1>0 DEF ReadCopy
<1>11. ASSUME NEW t \in Threads, ReadFault(t) PROVE HeapQuiet
  BY <1>11, <1>0 DEF ReadFault, args, history
<1>12. ASSUME NEW t \in Threads, ReadUnlock(t) PROVE HeapQuiet
  BY <1>12, <1>0 DEF ReadUnlock, args, history
<1>13. ASSUME NEW t \in Threads, Return(t) PROVE HeapQuiet
  BY <1>13, <1>0 DEF Return, history
<1>14. CASE UNCHANGED vars
  BY <1>14, <1>0 DEF vars, args, history
<1> QED
  BY <1>1, <1>2, <1>3, <1>4, <1>5, <1>6, <1>7, <1>8, <1>9, <1>10, <1>11,
     <1>12, <1>13, <1>14 DEF Next, Step

\* Push shifts the packets it keeps by at most one place.
LEMMA PushShift ==
  ASSUME NEW w \in Seq(PacketType), Len(w) <= MAX, NEW e \in PacketType,
         NEW v, v = Push(w, e), NEW d, d = IF Len(w) < MAX THEN 0 ELSE 1
  PROVE  /\ Len(v) \in Nat /\ Len(v) = Len(w) + 1 - d /\ Len(v) > 0
         /\ v[Len(v)] = e
         /\ \A k \in 1 .. Len(v) - 1 : v[k] = w[k + d] /\ k + d \in 1 .. Len(w)
         /\ d \in {0, 1}
<1>1. Len(w) \in Nat /\ MAX \in Nat /\ MAX > 0
  BY LenProperties, MaxAssumption
<1>2. Len(v) = IF Len(w) < MAX THEN Len(w) + 1 ELSE Len(w)
  BY PushElements
<1>3. \A k \in 1 .. Len(v) - 1 : v[k] = IF Len(w) < MAX THEN w[k] ELSE w[k + 1]
  BY PushKeeps
<1>4. v[Len(v)] = e
  BY PushElements
<1>5. CASE Len(w) < MAX
  BY <1>1, <1>2, <1>3, <1>4, <1>5
<1>6. CASE ~(Len(w) < MAX)
  BY <1>1, <1>2, <1>3, <1>4, <1>6
<1> QED
  BY <1>5, <1>6

LEMMA HeapStep == Inv /\ DeviceInv /\ HeapInv /\ [Next]_vars => HeapInv'
<1> SUFFICES ASSUME Inv, DeviceInv, HeapInv, [Next]_vars PROVE HeapInv'
  OBVIOUS
<1>0. /\ pc \in [Threads -> {"idle", "ret", "r_lock"} \cup Critical \cup Writing]
      /\ kbuf \in [Threads -> Pointers] /\ heap \in [Blocks -> {"free", "raw", "filled"}]
      /\ TypeOK /\ MutualExclusion /\ RingShape
      /\ NULL \notin Blocks /\ ZERO_SIZE_PTR \notin Blocks /\ NULL # ZERO_SIZE_PTR
  BY AesdCharAssumption DEF Inv, TypeOK, DeviceInv
<1>1. ASSUME NEW t \in Threads, WriteAlloc(t) PROVE HeapInv'
  <2>1. Quiet /\ dropped' = dropped /\ count' = count
    BY <1>0, <1>1 DEF WriteAlloc, Quiet, Goto, device, args, history
  <2>2. PICK c \in Blocks \cup {ZERO_SIZE_PTR} :
           /\ c = ZERO_SIZE_PTR <=> count[t] = 0
           /\ c \in Blocks => heap[c] = "free"
           /\ kbuf' = [kbuf EXCEPT ![t] = c]
           /\ heap' = [b \in Blocks |-> IF b = c THEN "raw" ELSE heap[b]]
    BY <1>1 DEF WriteAlloc
  <2>3. /\ pc[t] = "w_alloc" /\ pc' = [pc EXCEPT ![t] = "w_copy"]
        /\ pc'[t] = "w_copy" /\ kbuf'[t] = c
    BY <1>0, <1>1, <2>2 DEF WriteAlloc, Goto
  <2>4. HoldOK(t)'
    BY <1>0, <2>1, <2>2, <2>3 DEF HoldOK, Holding
  <2>5. \A u \in Threads : pc[u] \in Holding /\ kbuf[u] \in Blocks => heap[kbuf[u]] # "free"
    BY DEF HeapInv, HoldOK
  <2>6. \A b \in Blocks : heap'[b] # heap[b] => b = c /\ heap[b] = "free" /\ heap'[b] = "raw"
    BY <2>2
  <2>7. \A b \in Blocks : heap[b] = "free" => b \notin dropped /\ ~InRing(b)
    BY DEF HeapInv, BlockOK
  <2>8. \A u \in Threads \ {t} :
           pc[u] \in Holding /\ kbuf[u] \in Blocks =>
              heap'[kbuf[u]] = heap[kbuf[u]] /\ kbuf'[t] # kbuf[u]
    BY <2>2, <2>3, <2>5, <2>6
  <2>9. \A b \in Blocks : heap'[b] = heap[b] => b # c
    BY <2>2
  <2> QED
    BY <2>1, <2>2, <2>3, <2>4, <2>6, <2>7, <2>8, <2>9, HeapOne DEF Holding
<1>2. ASSUME NEW t \in Threads, WriteCopy(t) PROVE HeapInv'
  <2>1. Quiet /\ dropped' = dropped /\ count' = count /\ kbuf' = kbuf
    BY <1>0, <1>2 DEF WriteCopy, Quiet, Goto, device, args, history
  <2>2. /\ pc[t] = "w_copy" /\ pc' = [pc EXCEPT ![t] = "w_lock"]
        /\ pc'[t] = "w_lock"
        /\ heap' = [b \in Blocks |-> IF b = kbuf[t] THEN "filled" ELSE heap[b]]
    BY <1>0, <1>2 DEF WriteCopy, Goto
  <2>3. HoldOK(t)'
    BY <2>1, <2>2 DEF HeapInv, HoldOK, Holding
  <2>4. \A b \in Blocks : heap'[b] # heap[b] => b = kbuf[t] /\ heap'[b] = "filled"
    BY <2>2
  <2>5. \A b \in Blocks : b = kbuf[t] => Held(b) /\ b \notin dropped /\ ~InRing(b)
    BY <2>2 DEF HeapInv, BlockOK, Held, Holding
  <2>6. \A u \in Threads \ {t} :
           pc[u] \in Holding /\ kbuf[u] \in Blocks =>
              heap'[kbuf[u]] = heap[kbuf[u]] /\ kbuf[t] # kbuf[u]
    BY <2>2, <2>4 DEF HeapInv, HoldersDiffer, Holding
  <2>7. kbuf' = [kbuf EXCEPT ![t] = kbuf'[t]]
    BY <1>0, <2>1
  <2> QED
    BY <2>1, <2>2, <2>3, <2>4, <2>5, <2>6, <2>7, HeapOne DEF Holding
<1>3. ASSUME NEW t \in Threads, WriteFault(t) PROVE HeapInv'
  <2>1. Quiet /\ dropped' = dropped /\ count' = count
    BY <1>0, <1>3 DEF WriteFault, Quiet, Goto, device, args, history
  <2>2. /\ pc[t] = "w_copy" /\ pc' = [pc EXCEPT ![t] = "ret"] /\ pc'[t] = "ret"
        /\ kbuf' = [kbuf EXCEPT ![t] = NULL] /\ kbuf'[t] = NULL
        /\ heap' = [heap EXCEPT ![kbuf[t]] = "free"]
        /\ kbuf[t] \in Blocks
    BY <1>0, <1>3 DEF WriteFault, Goto, HeapInv, HoldOK, Holding
  <2>3. HoldOK(t)'
    BY <2>2 DEF HoldOK, Holding
  <2>4. /\ \A b \in Blocks : heap'[b] # heap[b] => b = kbuf[t]
        /\ heap'[kbuf[t]] = "free" /\ heap[kbuf[t]] # "free"
    BY <1>0, <2>2 DEF HeapInv, HoldOK, Holding
  <2>5. \A b \in Blocks : b = kbuf[t] => Held(b) /\ b \notin dropped /\ ~InRing(b)
    BY <2>2 DEF HeapInv, BlockOK, Held, Holding
  <2>6. \A u \in Threads \ {t} :
           pc[u] \in Holding /\ kbuf[u] \in Blocks =>
              heap'[kbuf[u]] = heap[kbuf[u]] /\ kbuf[t] # kbuf[u]
    BY <2>2, <2>4 DEF HeapInv, HoldersDiffer, Holding
  <2> QED
    BY <2>1, <2>2, <2>3, <2>4, <2>5, <2>6, HeapOne DEF Holding
<1>4. ASSUME NEW t \in Threads, WriteStore(t) PROVE HeapInv'
  <2> DEFINE K == Kept
             J == Kept'
             d == IF Len(K) < MAX THEN 0 ELSE 1
  <2>1. /\ K \in Seq(PacketType) /\ Len(K) \in 0 .. MAX /\ Packet(t) \in PacketType
        /\ MAX \in Nat /\ MAX > 0
    BY <1>0, KeptType, MaxAssumption DEF Packet, PacketType, TypeOK
  <2>2. J = Push(K, Packet(t)) /\ Packet(t).data = kbuf[t]
    BY <1>0, <1>4, KeptStore DEF Packet
  <2>3. /\ heap' = heap /\ kbuf' = kbuf /\ count' = count
        /\ pc[t] = "w_store" /\ pc' = [pc EXCEPT ![t] = "w_advance"]
        /\ pc'[t] = "w_advance"
        /\ \A u \in Threads \ {t} : pc'[u] = pc[u]
    BY <1>0, <1>4 DEF WriteStore, Goto, args
  <2>4. /\ kbuf[t] \in Blocks =>
              /\ heap[kbuf[t]] = "filled" /\ Held(kbuf[t])
              /\ ~InRing(kbuf[t]) /\ kbuf[t] \notin dropped
    BY <2>3 DEF HeapInv, HoldOK, Holding, BlockOK, Held
  <2>5. /\ Len(J) \in Nat /\ Len(J) = Len(K) + 1 - d /\ Len(J) > 0
        /\ J[Len(J)] = Packet(t)
        /\ \A k \in 1 .. Len(J) - 1 : J[k] = K[k + d] /\ k + d \in 1 .. Len(K)
        /\ d \in {0, 1}
    <3> DEFINE e == Packet(t)
    <3>1. J = Push(K, e) /\ K \in Seq(PacketType) /\ e \in PacketType /\ Len(K) <= MAX
          /\ d = IF Len(K) < MAX THEN 0 ELSE 1
      BY <2>1, <2>2
    <3> HIDE DEF e, J, K, d
    <3>2. /\ Len(J) \in Nat /\ Len(J) = Len(K) + 1 - d /\ Len(J) > 0
          /\ J[Len(J)] = e
          /\ \A k \in 1 .. Len(J) - 1 : J[k] = K[k + d] /\ k + d \in 1 .. Len(K)
          /\ d \in {0, 1}
      BY <3>1, PushShift
    <3> QED
      BY <3>2 DEF e
  <2>15. d \in Nat /\ (d = 0 \/ d = 1) /\ Len(J) \in Nat /\ Len(K) \in Nat
         /\ Len(J) = Len(K) + 1 - d
    BY <2>1, <2>5
  <2>6. dropped' = IF d = 1 THEN dropped \cup ({K[1].data} \cap Blocks) ELSE dropped
    <3>1. /\ buffer \in Buffers(Pointers) /\ Shape(buffer)
          /\ buffer.in_offs \in Offsets /\ buffer.full \in BOOLEAN
      BY <1>0 DEF TypeOK, RingShape, Buffers
    <3>2. Ring = buffer
      BY <1>0, <2>3 DEF Ring, MutualExclusion, Critical
    <3>3. Len(K) = IF buffer.full THEN MAX ELSE buffer.in_offs
      BY <1>0, <3>1, <3>2, KeptType, ShapeCount
    <3>4. buffer.full <=> d = 1
      BY <2>1, <3>1, <3>3 DEF Offsets
    <3>5. ASSUME buffer.full
          PROVE  K[1].data = buffer.entry[buffer.in_offs].buffptr
      <4>1. 1 \in 1 .. Len(K) /\ 1 - 1 = 0
        BY <2>1, <3>3, <3>5
      <4>2. K[1] = Packets[Slot(buffer, 0)]
        BY <1>0, <3>2, <4>1, KeptType
      <4>3. Slot(buffer, 0) = buffer.in_offs
        BY <3>1, <3>5, SlotIs, MaxAssumption DEF Shape, Offsets
      <4> QED
        BY <3>1, <4>2, <4>3 DEF Packets
    <3> QED
      BY <1>4, <3>4, <3>5 DEF WriteStore
  <2> HIDE DEF J, K, d
  <2>7. \A b \in Blocks : InRing(b)' <=> \/ b = kbuf[t]
                                        \/ \E k \in 1 .. Len(J) - 1 : K[k + d].data = b
    <3>1. \A b : InRing(b)' <=> \E k \in 1 .. Len(J) : J[k].data = b
      BY DEF InRing, J
    <3>2. \A k \in 1 .. Len(J) : k = Len(J) \/ k \in 1 .. Len(J) - 1
      BY <2>5
    <3>3. Len(J) \in 1 .. Len(J) /\ \A k \in 1 .. Len(J) - 1 : k \in 1 .. Len(J)
      BY <2>5
    <3> QED
      BY <2>2, <2>5, <3>1, <3>2, <3>3
  <2>8. \A b \in Blocks : InRing(b) <=> \E k \in 1 .. Len(K) : K[k].data = b
    BY DEF InRing, K
  <2>9. \A i, k \in 1 .. Len(K) :
           i < k /\ K[i].data \in Blocks => K[i].data # K[k].data
    BY DEF HeapInv, KeptDiffer, K
  <2>10. \A b \in Blocks : Held(b)' <=> Held(b) /\ b # kbuf[t]
    BY <2>3 DEF Held, Holding, HeapInv, HoldersDiffer
  <2>11. \A u \in Threads : HoldOK(u)'
    BY <2>3 DEF HeapInv, HoldOK, Holding
  <2>12. HoldersDiffer'
    BY <2>3 DEF HeapInv, HoldersDiffer, Holding
  <2>13. KeptDiffer'
    <3>1. SUFFICES ASSUME NEW i \in 1 .. Len(J), NEW k \in 1 .. Len(J), i < k,
                          J[i].data \in Blocks
                   PROVE  J[i].data # J[k].data
      BY DEF KeptDiffer, J
    <3>2. i \in 1 .. Len(J) - 1
      BY <2>5, <3>1
    <3>3. J[i] = K[i + d] /\ i + d \in 1 .. Len(K)
      BY <2>5, <3>2
    <3>4. CASE k = Len(J)
      BY <2>2, <2>4, <2>5, <2>8, <3>1, <3>3, <3>4
    <3>5. CASE k # Len(J)
      <4>1. k \in 1 .. Len(J) - 1 /\ i + d < k + d
        BY <2>15, <3>1, <3>5
      <4> QED
        BY <2>5, <2>9, <3>1, <3>3, <4>1
    <3> QED
      BY <3>4, <3>5
  <2>14. ASSUME NEW b \in Blocks PROVE BlockOK(b)'
    <3>1. BlockOK(b)
      BY DEF HeapInv
    <3>2. InRing(b)' => b = kbuf[t] \/ InRing(b)
      BY <2>5, <2>7, <2>8
    <3>3. CASE b = kbuf[t]
      <4>1. b \notin dropped'
        <5>1. 1 \in 1 .. Len(K) \/ d = 0
          BY <2>1, <2>5
        <5> QED
          BY <2>4, <2>6, <2>8, <3>3, <5>1
      <4> QED
        BY <2>3, <2>4, <2>7, <2>10, <3>3, <4>1 DEF BlockOK
    <3>4. CASE b # kbuf[t] /\ d = 1 /\ K[1].data = b
      <4>1. 1 \in 1 .. Len(K) /\ InRing(b)
        <5>1. 1 \in 1 .. Len(K)
          BY <2>1, <2>5, <3>4
        <5> QED
          BY <2>8, <3>4, <5>1
      <4>2. ~InRing(b)'
        <5>1. ASSUME NEW k \in 1 .. Len(J) - 1 PROVE K[k + d].data # b
          <6>1. k + d \in 1 .. Len(K) /\ 1 < k + d
            BY <2>5, <3>4
          <6> QED
            BY <2>9, <3>4, <4>1, <6>1
        <5> QED
          BY <2>7, <3>4, <5>1
      <4>3. b \in dropped'
        BY <2>6, <3>4
      <4> QED
        BY <2>3, <2>10, <3>1, <3>4, <4>1, <4>2, <4>3 DEF BlockOK
    <3>5. CASE b # kbuf[t] /\ ~(d = 1 /\ K[1].data = b)
      <4>1. InRing(b) => InRing(b)'
        <5>1. SUFFICES ASSUME NEW k \in 1 .. Len(K), K[k].data = b PROVE InRing(b)'
          BY <2>8
        <5>2. k - d \in 1 .. Len(J) - 1 /\ (k - d) + d = k
          <6>1. CASE d = 0
            BY <2>15, <5>1, <6>1
          <6>2. CASE d = 1
            <7>1. k # 1
              BY <3>5, <5>1, <6>2
            <7> QED
              BY <2>15, <5>1, <6>2, <7>1
          <6> QED
            BY <2>15, <6>1, <6>2
        <5> QED
          BY <2>7, <5>1, <5>2
      <4>2. b \in dropped' <=> b \in dropped
        BY <2>6, <3>5
      <4> QED
        BY <2>3, <2>10, <3>1, <3>2, <3>5, <4>1, <4>2 DEF BlockOK
    <3> QED
      BY <3>3, <3>4, <3>5
  <2> QED
    BY <2>11, <2>12, <2>13, <2>14 DEF HeapInv
<1>5. ASSUME NEW t \in Threads, WriteAdvance(t) PROVE HeapInv'
  <2>1. /\ Kept' = Kept /\ heap' = heap /\ dropped' = dropped /\ count' = count
        /\ pc[t] = "w_advance" /\ pc' = [pc EXCEPT ![t] = "w_unlock"]
        /\ kbuf' = [kbuf EXCEPT ![t] = NULL]
    BY <1>5, KeptAdvance DEF WriteAdvance, Goto, args, history
  <2>2. /\ \A u \in Threads \ {t} : pc'[u] = pc[u] /\ kbuf'[u] = kbuf[u]
        /\ pc'[t] = "w_unlock" /\ kbuf'[t] = NULL
    BY <1>0, <2>1
  <2>3. \A u \in Threads : HoldOK(u)'
    BY <2>1, <2>2 DEF HeapInv, HoldOK, Holding
  <2>4. HoldersDiffer' /\ KeptDiffer'
    BY <2>1, <2>2 DEF HeapInv, HoldersDiffer, KeptDiffer, Holding
  <2>5. \A b \in Blocks : (Held(b)' <=> Held(b)) /\ (InRing(b)' <=> InRing(b))
    BY <2>1, <2>2 DEF Held, InRing, Holding
  <2>6. \A b \in Blocks : BlockOK(b)'
    BY <2>1, <2>5 DEF HeapInv, BlockOK
  <2> QED
    BY <2>3, <2>4, <2>6 DEF HeapInv
<1>6. CASE HeapQuiet
  <2>1. CASE Quiet
    BY <1>6, <2>1, HeapSame
  <2>2. ASSUME NEW t \in Threads, WriteStore(t) \/ WriteAdvance(t) PROVE HeapInv'
    BY <1>4, <1>5, <2>2
  <2> QED
    BY <2>1, <2>2, QuietSteps
<1> QED
  BY <1>1, <1>2, <1>3, <1>4, <1>5, <1>6, HeapQuietSteps

LEMMA HeapInit == Init => HeapInv
<1> SUFFICES ASSUME Init PROVE HeapInv
  OBVIOUS
<1>1. /\ \A t \in Threads : pc[t] = "idle" /\ kbuf[t] = NULL
      /\ \A b \in Blocks : heap[b] = "free"
      /\ dropped = {}
  BY DEF Init
<1>2. Len(Kept) = 0
  <2>1. buffer = InitBuffer /\ Ring = buffer
    BY <1>1 DEF Init, Ring
  <2>2. Count(Ring) = 0
    BY <2>1, MaxAssumption DEF InitBuffer, Count
  <2>3. TypeOK /\ RingShape
    BY InitInv, DeviceInit DEF Inv, DeviceInv
  <2> QED
    BY <2>2, <2>3, KeptType
<1>3. \A b : ~InRing(b) /\ ~Held(b)
  BY <1>1, <1>2 DEF InRing, Held, Holding
<1>4. (\A t \in Threads : HoldOK(t)) /\ HoldersDiffer
  BY <1>1 DEF HoldOK, HoldersDiffer, Holding
<1>5. KeptDiffer
  BY <1>2 DEF KeptDiffer
<1>6. \A b \in Blocks : BlockOK(b)
  BY <1>1, <1>3 DEF BlockOK
<1> QED
  BY <1>4, <1>5, <1>6 DEF HeapInv

-----------------------------------------------------------------------------
FullInv == Inv /\ DeviceInv /\ HeapInv

\* The invariant of the driver: types, the mutex, the scan, the stream of
\* accepted bytes and the owners of the blocks, in every reachable state.
THEOREM FullInvariance == Spec => []FullInv
<1>1. Init => FullInv
  BY InitInv, DeviceInit, HeapInit DEF FullInv
<1>2. FullInv /\ [Next]_vars => FullInv'
  <2> SUFFICES ASSUME Inv, DeviceInv, HeapInv, [Next]_vars PROVE FullInv'
    BY DEF FullInv
  <2>1. Inv'
    BY TypeStep, MutexStep, ScanStep DEF Inv
  <2> QED
    BY <2>1, DeviceStep, HeapStep DEF FullInv
<1> QED
  BY <1>1, <1>2, PTL DEF Spec

\* Under any number of concurrent writers and readers the ring holds the end
\* of the stream of accepted writes, in order and without gaps.
THEOREM StreamKept == Spec => []KeptIsEndOfStream
<1>1. FullInv => KeptIsEndOfStream
  BY DEF FullInv, DeviceInv, Stream, StreamOK, KeptIsEndOfStream
<1> QED
  BY <1>1, FullInvariance, PTL

\* No block is shared, freed while the ring points at it, or lost other than
\* by an overwrite.
THEOREM MemoryOwned == Spec => []EveryBlockHasOneOwner
<1>1. FullInv => EveryBlockHasOneOwner
  <2> SUFFICES ASSUME FullInv PROVE EveryBlockHasOneOwner
    OBVIOUS
  <2>1. /\ \A t \in Threads : HoldOK(t)
        /\ HoldersDiffer
        /\ \A b \in Blocks : BlockOK(b)
        /\ dropped \subseteq Blocks
        /\ NULL \notin Blocks
    BY AesdCharAssumption DEF FullInv, HeapInv, Inv, TypeOK
  <2>2. \A t \in Threads : kbuf[t] \in Blocks /\ pc[t] \in Writing => pc[t] \in Holding
    BY <2>1 DEF HoldOK, Holding, Writing
  <2>8. Holding \subseteq Writing
    BY DEF Holding, Writing
  <2>3. HeldBlocks = {b \in Blocks : Held(b)}
    <3>1. \A b : b \in HeldBlocks <=>
                 b \in Blocks /\ \E t \in Threads : pc[t] \in Writing /\ kbuf[t] = b
      BY DEF HeldBlocks
    <3>2. ASSUME NEW b \in Blocks
          PROVE  (\E t \in Threads : pc[t] \in Writing /\ kbuf[t] = b) <=> Held(b)
      BY <2>2, <2>8 DEF Held
    <3> QED
      BY <3>1, <3>2
  <2>4. KeptBlocks = {b \in Blocks : InRing(b)}
    BY DEF KeptBlocks, InRing
  <2>5. Allocated = KeptBlocks \cup HeldBlocks \cup dropped
    BY <2>1, <2>3, <2>4 DEF Allocated, BlockOK
  <2>6. /\ KeptBlocks \cap HeldBlocks = {}
        /\ dropped \cap (KeptBlocks \cup HeldBlocks) = {}
        /\ \A b \in KeptBlocks : heap[b] = "filled"
    BY <2>1, <2>3, <2>4 DEF BlockOK
  <2>7. \A t, u \in Threads : /\ {pc[t], pc[u]} \subseteq Writing
                              /\ kbuf[t] = kbuf[u] /\ kbuf[t] \in Blocks
                              => t = u
    <3>1. SUFFICES ASSUME NEW t \in Threads, NEW u \in Threads,
                          pc[t] \in Writing, pc[u] \in Writing,
                          kbuf[t] = kbuf[u], kbuf[t] \in Blocks, t # u
                   PROVE  FALSE
      OBVIOUS
    <3>2. pc[t] \in Holding /\ pc[u] \in Holding
      BY <2>2, <3>1
    <3> QED
      BY <2>1, <3>1, <3>2 DEF HoldersDiffer
  <2> QED
    BY <2>5, <2>6, <2>7 DEF EveryBlockHasOneOwner
<1> QED
  BY <1>1, FullInvariance, PTL
=============================================================================
