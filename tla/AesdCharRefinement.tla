------------------------- MODULE AesdCharRefinement -------------------------
(* The driver implements CharDevice, and a reader that shares its file with  *)
(* nobody reads on from where it was, for every number of threads and files. *)
EXTENDS AesdCharInvariant

\* A write is accepted where its entry is stored, a read is answered where the
\* found bytes are copied or the scan ends; no other step is seen by the callers
\* of the device but the entry into a call and its return.

\* What the callers of the device see thread u doing depends on these alone.
SameCall(u) == /\ pc'[u] = pc[u] /\ fpos'[u] = fpos[u]
               /\ count'[u] = count[u] /\ answer'[u] = answer[u]

LEMMA CallOne ==
  ASSUME NEW t \in Threads, \A u \in Threads \ {t} : SameCall(u)
  PROVE  AbsCall' = [AbsCall EXCEPT ![t] = AbsCall'[t]]
<1>1. \A u \in Threads \ {t} : AbsCall'[u] = AbsCall[u]
  BY DEF SameCall, AbsCall
<1>2. /\ AbsCall = [u \in Threads |-> AbsCall[u]]
      /\ AbsCall' = [u \in Threads |-> AbsCall'[u]]
  BY DEF AbsCall
<1> DEFINE A == AbsCall
           B == AbsCall'
<1> HIDE DEF A, B
<1>3. /\ A = [u \in Threads |-> A[u]] /\ B = [u \in Threads |-> B[u]]
      /\ \A u \in Threads \ {t} : B[u] = A[u]
  BY <1>1, <1>2 DEF A, B
<1>4. B = [A EXCEPT ![t] = B[t]]
  BY <1>3
<1> QED
  BY <1>4 DEF A, B

\* The three phases of a call.
LEMMA CallPhase ==
  ASSUME NEW t \in Threads
  PROVE  /\ pc[t] = "idle" => AbsCall[t] = Device!Idle
         /\ pc[t] \in Reading => AbsCall[t] = Device!Asked("read", fpos[t], count[t])
         /\ pc[t] \in Writing => AbsCall[t] = Device!Asked("write", fpos[t], count[t])
         /\ pc[t] \notin {"idle"} \cup Reading \cup Writing =>
               AbsCall[t] = Device!Done(answer[t])
  BY DEF AbsCall, Reading, Writing, Scanning, Device!Idle, Device!Asked, Device!Done

LEMMA CallPhaseNext ==
  ASSUME NEW t \in Threads
  PROVE  /\ pc'[t] = "idle" => AbsCall'[t] = Device!Idle
         /\ pc'[t] \in Reading => AbsCall'[t] = Device!Asked("read", fpos'[t], count'[t])
         /\ pc'[t] \in Writing => AbsCall'[t] = Device!Asked("write", fpos'[t], count'[t])
         /\ pc'[t] \notin {"idle"} \cup Reading \cup Writing =>
               AbsCall'[t] = Device!Done(answer'[t])
  BY DEF AbsCall, Reading, Writing, Scanning, Device!Idle, Device!Asked, Device!Done

\* Only the store of a new entry changes what the device holds.
LEMMA WindowSteps ==
  ASSUME FullInv, [Next]_vars
  PROVE  \/ Kept' = Kept /\ total' = total
         \/ \E t \in Threads : WriteStore(t)
<1>1. CASE Quiet
  BY <1>1, KeptSame DEF Quiet
<1>2. ASSUME NEW t \in Threads, WriteAdvance(t) PROVE Kept' = Kept /\ total' = total
  BY <1>2, KeptAdvance DEF WriteAdvance, history, FullInv, DeviceInv
<1> QED
  BY <1>1, <1>2, QuietSteps DEF FullInv

\* The entry whose scan hit is the packet that holds the byte asked for.
LEMMA CopyAnswers ==
  ASSUME FullInv, NEW t \in Threads, pc[t] = "r_copy"
  PROVE  \E k \in 1 .. Len(Kept) :
            /\ Device!Holds(Kept, k, fpos[t])
            /\ Device!Part(Kept, k, fpos[t], count[t]) =
                  Answer("ok", Found(t).buffptr, Offset(t), Clip(t))
<1>1. /\ Inv /\ DeviceInv /\ TypeOK /\ ScanBounds /\ RingShape
      /\ pc[t] \in Scanning
  BY DEF FullInv, Inv, DeviceInv, Scanning
<1>2. ScanHits(buffer, scan[t], fpos[t])
  BY <1>1 DEF ScanBounds
<1>3. /\ scan[t].i \in 0 .. Len(Kept)
      /\ ScanEnds(buffer, scan[t]) <=> scan[t].i = Len(Kept)
      /\ Len(Kept) \in 0 .. MAX /\ Len(Kept) \in Nat
  BY <1>1, Scanned, KeptType, MaxAssumption
<1>4. /\ scan[t].i < Len(Kept) /\ Len(Kept) # 0
      /\ scan[t].i + 1 \in 1 .. Len(Kept)
  BY <1>2, <1>3 DEF ScanHits
<1> DEFINE k == scan[t].i + 1
           p == Kept[k]
<1>5. /\ p \in PacketType /\ p.data = Found(t).buffptr /\ p.size = Found(t).size
      /\ scan[t].bytes_counted = p.at - Base
  BY <1>1, <1>4, Scanned
<1>6. Base = Kept[1].at /\ Base \in Nat
  BY <1>1, <1>4, KeptType, RingType
<1>7. /\ Offset(t) \in Nat /\ Offset(t) < Found(t).size
      /\ fpos[t] \in Nat /\ count[t] \in Nat /\ p.size \in Nat /\ p.at \in Nat
  BY <1>1, <1>5, CopyBounds DEF TypeOK, PacketType
<1>8. k \in 1 .. Len(Kept)
  BY <1>4
<1> HIDE DEF k, p
<1>9. Kept[k] = p
  BY DEF p
<1>10. Offset(t) = fpos[t] - (p.at - Kept[1].at)
  BY <1>5, <1>6 DEF Offset
<1>11. Device!Holds(Kept, k, fpos[t])
  BY <1>5, <1>6, <1>7, <1>9, <1>10 DEF Device!Holds
<1>12. Device!Part(Kept, k, fpos[t], count[t]) =
          Answer("ok", Found(t).buffptr, Offset(t), Clip(t))
  BY <1>5, <1>9, <1>10 DEF Device!Part, Device!Answer, Answer, Clip
<1> QED
  BY <1>8, <1>11, <1>12

\* A scan that reached the end has passed every packet.
LEMMA MissAnswers ==
  ASSUME FullInv, NEW t \in Threads, pc[t] = "r_scan", ScanEnds(buffer, scan[t])
  PROVE  \A k \in 1 .. Len(Kept) : ~Device!Holds(Kept, k, fpos[t])
<1>1. /\ Inv /\ DeviceInv /\ TypeOK /\ ScanBounds /\ RingShape /\ Stream
      /\ pc[t] \in Scanning /\ ScanAt(t)
  BY DEF FullInv, Inv, DeviceInv, Scanning, ScanPlace
<1>2. scan[t].i = Len(Kept)
  BY <1>1, Scanned
<1>3. scan[t].bytes_counted = total - Base
  BY <1>1, <1>2 DEF ScanAt
<1>4. scan[t].bytes_counted <= fpos[t] /\ fpos[t] \in Nat /\ total \in Nat
  BY <1>1 DEF ScanBounds, TypeOK
<1> SUFFICES ASSUME NEW k \in 1 .. Len(Kept) PROVE ~Device!Holds(Kept, k, fpos[t])
  OBVIOUS
<1>5. Len(Kept) # 0 /\ Kept \in Seq(PacketType)
  BY <1>1, KeptType
<1>6. Base = Kept[1].at /\ Base \in Nat
  BY <1>1, <1>5, KeptType, RingType
<1>7. Kept[k].at + Kept[k].size <= total
  BY <1>1 DEF Stream, StreamOK
<1>8. Kept[k] \in PacketType
  BY <1>5, ElementOfSeq
<1>9. Kept[k].at \in Nat /\ Kept[k].size \in Nat
  BY <1>8 DEF PacketType
<1>10. Kept[k].at - Kept[1].at + Kept[k].size <= fpos[t]
  <2> DEFINE a == Kept[k].at
             z == Kept[k].size
             b == Kept[1].at
  <2>1. /\ a \in Nat /\ z \in Nat /\ b \in Nat /\ a + z <= total
        /\ total - b <= fpos[t]
    BY <1>3, <1>4, <1>6, <1>7, <1>9
  <2> HIDE DEF a, z, b
  <2>2. a - b + z <= fpos[t]
    BY <1>4, <2>1
  <2> QED
    BY <2>2 DEF a, z, b
<1>11. ~(fpos[t] < Kept[k].at - Kept[1].at + Kept[k].size)
  BY <1>4, <1>6, <1>9, <1>10
<1> QED
  BY <1>11 DEF Device!Holds

-----------------------------------------------------------------------------
LEMMA RefineInit == Init => Device!Init
<1> SUFFICES ASSUME Init PROVE Device!Init
  OBVIOUS
<1>1. Kept = << >>
  <2>1. buffer = InitBuffer /\ Ring = buffer
    BY DEF Init, Ring
  <2>2. Count(Ring) = 0
    BY <2>1, MaxAssumption DEF InitBuffer, Count
  <2>3. TypeOK /\ RingShape
    BY InitInv, DeviceInit DEF Inv, DeviceInv
  <2>4. Len(Kept) = 0 /\ Kept \in Seq(PacketType)
    BY <2>2, <2>3, KeptType
  <2> QED
    BY <2>4, EmptySeq
<1>2. AbsCall = [t \in Threads |-> Device!Idle]
  BY DEF Init, AbsCall, Device!Idle
<1> QED
  BY <1>1, <1>2 DEF Init, Device!Init

\* The store is where a write takes effect for the callers.
LEMMA RefineStore ==
  ASSUME FullInv, NEW t \in Threads, WriteStore(t)
  PROVE  Device!AcceptWrite(t)
<1>1. /\ Inv /\ TypeOK /\ DeviceInv /\ RingShape
      /\ pc \in [Threads -> {"idle", "ret", "r_lock"} \cup Critical \cup Writing]
      /\ answer \in [Threads -> [ret : Rets, data : Pointers, offset : Nat, len : Nat]]
      /\ HoldOK(t) /\ \A b \in Blocks : BlockOK(b)
  BY DEF FullInv, Inv, TypeOK, DeviceInv, HeapInv
<1>2. /\ pc[t] = "w_store" /\ pc'[t] = "w_advance"
      /\ answer'[t] = Wrote(count[t])
      /\ total' = total + count[t]
      /\ \A u \in Threads \ {t} : SameCall(u)
  BY <1>1 DEF WriteStore, Goto, SameCall, args
<1>3. AbsCall[t] = Device!Asked("write", fpos[t], count[t])
  BY <1>2, CallPhase DEF Writing
<1>4. AbsCall' = [AbsCall EXCEPT ![t] = Device!Done(Device!Wrote(count[t]))]
  <2>1. AbsCall'[t] = Device!Done(answer'[t])
    BY <1>2, CallPhaseNext DEF Writing, Reading, Scanning
  <2>2. answer'[t] = Device!Wrote(count[t])
    BY <1>2 DEF Wrote, Answer, Device!Wrote, Device!Answer
  <2> QED
    BY <1>2, <2>1, <2>2, CallOne
<1>5. Kept' = Device!Push(Kept, Packet(t))
  BY <1>1, KeptStore DEF Push, Device!Push
<1>6. /\ kbuf[t] \in Blocks \cup {ZERO_SIZE_PTR}
      /\ kbuf[t] = ZERO_SIZE_PTR <=> count[t] = 0
  BY <1>1, <1>2 DEF HoldOK, Holding
<1>7. kbuf[t] # ZERO_SIZE_PTR => \A k \in 1 .. Len(Kept) : Kept[k].data # kbuf[t]
  <2>1. ASSUME kbuf[t] \in Blocks PROVE ~InRing(kbuf[t])
    BY <1>1, <1>2, <2>1 DEF BlockOK, Held, Holding
  <2> QED
    BY <1>6, <2>1 DEF InRing
<1>8. AbsCall[t].phase = "asked" /\ AbsCall[t].op = "write" /\ AbsCall[t].count = count[t]
  BY <1>3 DEF Device!Asked
<1> QED
  BY <1>2, <1>4, <1>5, <1>6, <1>7, <1>8 DEF Device!AcceptWrite, Packet

LEMMA RefineStep ==
  ASSUME FullInv, [Next]_vars
  PROVE  [Device!Next]_Device!vars
<1>0. /\ Inv /\ TypeOK /\ DeviceInv
      /\ pc \in [Threads -> {"idle", "ret", "r_lock"} \cup Critical \cup Writing]
      /\ count \in [Threads -> Nat] /\ fpos \in [Threads -> Nat]
      /\ pos \in [Files -> Nat]
      /\ answer \in [Threads -> [ret : Rets, data : Pointers, offset : Nat, len : Nat]]
      /\ Sizes \subseteq Nat /\ Counts \subseteq Nat /\ Positions \subseteq Nat
  BY AesdCharAssumption DEF FullInv, Inv, TypeOK, DeviceInv
<1> DEFINE Same == Kept' = Kept /\ total' = total
<1>1. ASSUME NEW t \in Threads, WriteStore(t) PROVE Device!Next
  BY <1>1, RefineStore DEF Device!Next
<1> SUFFICES ASSUME Same PROVE [Device!Next]_Device!vars
  BY <1>1, WindowSteps
<1> DEFINE Stutter == UNCHANGED Device!vars
           Quietly(t) == /\ \A u \in Threads \ {t} : SameCall(u)
                         /\ AbsCall'[t] = AbsCall[t]
<1>2. ASSUME NEW t \in Threads, Quietly(t) PROVE Stutter
  <2>1. AbsCall' = [AbsCall EXCEPT ![t] = AbsCall[t]]
    BY <1>2, CallOne
  <2>2. AbsCall' = AbsCall
    BY <2>1 DEF AbsCall
  <2> QED
    BY <2>2 DEF Device!vars
<1>3. ASSUME NEW f \in Files, Open(f) \/ Release(f) PROVE Stutter
  BY <1>3 DEF Open, Release, args, AbsCall, Device!vars
<1>4. ASSUME NEW t \in Threads, Call(t) PROVE Device!Next
  <2>1. /\ pc[t] = "idle" /\ pc'[t] \in {"w_alloc", "r_lock"}
        /\ fpos'[t] \in Nat /\ count'[t] \in Nat
        /\ \A u \in Threads \ {t} : SameCall(u)
    BY <1>0, <1>4 DEF Call, WriteCall, ReadCall, PreadCall, Enter, Goto, SameCall
  <2>2. AbsCall[t] = Device!Idle
    BY <2>1, CallPhase
  <2>3. AbsCall'[t] \in Device!Requests
    <3>1. \E op \in {"read", "write"} :
             AbsCall'[t] = Device!Asked(op, fpos'[t], count'[t])
      BY <2>1, CallPhaseNext DEF Reading, Writing
    <3> QED
      BY <2>1, <3>1 DEF Device!Asked, Device!Requests
  <2>4. Device!Ask(t)
    BY <2>1, <2>2, <2>3, CallOne DEF Device!Ask
  <2> QED
    BY <2>4 DEF Device!Next
<1>5. ASSUME NEW t \in Threads,
             WriteAlloc(t) \/ WriteCopy(t) \/ WriteLock(t)
      PROVE  Stutter
  <2>1. /\ pc[t] \in Writing /\ pc'[t] \in Writing
        /\ fpos' = fpos /\ count' = count
        /\ \A u \in Threads \ {t} : SameCall(u)
    BY <1>0, <1>5
    DEF WriteAlloc, WriteCopy, WriteLock, Lock, Goto, SameCall, Writing, args
  <2> QED
    BY <1>2, <2>1, CallPhase, CallPhaseNext
<1>6. ASSUME NEW t \in Threads,
             WriteAdvance(t) \/ WriteUnlock(t) \/ ReadUnlock(t)
      PROVE  Stutter
  <2>1. /\ pc[t] \in {"w_advance", "w_unlock", "r_unlock"}
        /\ pc'[t] \in {"w_unlock", "ret"}
        /\ answer' = answer
        /\ \A u \in Threads \ {t} : SameCall(u)
    BY <1>0, <1>6 DEF WriteAdvance, WriteUnlock, ReadUnlock, Goto, SameCall, args
  <2>2. AbsCall[t] = Device!Done(answer[t]) /\ AbsCall'[t] = Device!Done(answer'[t])
    BY <2>1, CallPhase, CallPhaseNext DEF Reading, Writing, Scanning
  <2> QED
    BY <1>2, <2>1, <2>2
<1>7. ASSUME NEW t \in Threads,
             ReadLock(t) \/ ReadHit(t) \/ ReadNext(t)
      PROVE  Stutter
  <2>1. /\ pc[t] \in Reading /\ pc'[t] \in Reading
        /\ fpos' = fpos /\ count' = count
        /\ \A u \in Threads \ {t} : SameCall(u)
    BY <1>0, <1>7
    DEF ReadLock, ReadHit, ReadNext, Lock, Goto, SameCall, Reading, Scanning, args
  <2> QED
    BY <1>2, <2>1, CallPhase, CallPhaseNext
<1>8. ASSUME NEW t \in Threads, WriteNoMem(t) \/ WriteFault(t) PROVE Device!Next
  <2>1. /\ pc[t] \in Writing /\ pc'[t] = "ret" /\ count[t] > 0
        /\ answer'[t] \in {Fault, NoMem}
        /\ \A u \in Threads \ {t} : SameCall(u)
    BY <1>0, <1>8 DEF WriteNoMem, WriteFault, Goto, SameCall, Writing, args
  <2>2. /\ AbsCall[t] = Device!Asked("write", fpos[t], count[t])
        /\ AbsCall'[t] = Device!Done(answer'[t])
    BY <2>1, CallPhase, CallPhaseNext DEF Reading, Writing, Scanning
  <2>3. Fault = Device!Fault /\ NoMem = Device!NoMem
    BY DEF Fault, NoMem, Answer, Device!Fault, Device!NoMem, Device!Answer
  <2>4. Device!Refuse(t)
    BY <2>1, <2>2, <2>3, CallOne DEF Device!Refuse, Device!Asked
  <2> QED
    BY <2>4 DEF Device!Next
<1>9. ASSUME NEW t \in Threads, ReadFault(t) PROVE Device!Next
  <2>1. /\ pc[t] = "r_copy" /\ pc'[t] = "r_unlock" /\ Clip(t) > 0
        /\ answer'[t] = Fault
        /\ \A u \in Threads \ {t} : SameCall(u)
    BY <1>0, <1>9 DEF ReadFault, Goto, SameCall, args
  <2>2. count[t] > 0
    <3>1. Clip(t) \in Nat /\ count[t] \in Nat
      BY <1>0, <2>1, CopyBounds DEF Inv
    <3>2. Clip(t) = count[t] \/ count[t] > Clip(t)
      BY DEF Clip
    <3> QED
      BY <2>1, <3>1, <3>2
  <2>3. /\ AbsCall[t] = Device!Asked("read", fpos[t], count[t])
        /\ AbsCall'[t] = Device!Done(answer'[t])
    BY <2>1, CallPhase, CallPhaseNext DEF Reading, Writing, Scanning
  <2>4. Fault = Device!Fault
    BY DEF Fault, Answer, Device!Fault, Device!Answer
  <2>5. Device!Refuse(t)
    BY <2>1, <2>2, <2>3, <2>4, CallOne DEF Device!Refuse, Device!Asked
  <2> QED
    BY <2>5 DEF Device!Next
<1>10. ASSUME NEW t \in Threads, ReadMiss(t) PROVE Device!Next
  <2>1. /\ pc[t] = "r_scan" /\ pc'[t] = "r_unlock" /\ ScanEnds(buffer, scan[t])
        /\ answer'[t] = Eof
        /\ \A u \in Threads \ {t} : SameCall(u)
    BY <1>0, <1>10 DEF ReadMiss, Goto, SameCall, args
  <2>2. /\ AbsCall[t] = Device!Asked("read", fpos[t], count[t])
        /\ AbsCall'[t] = Device!Done(answer'[t])
    BY <2>1, CallPhase, CallPhaseNext DEF Reading, Writing, Scanning
  <2>3. Eof = Device!Eof
    BY DEF Eof, Answer, Device!Eof, Device!Answer
  <2>4. /\ AbsCall[t].phase = "asked" /\ AbsCall[t].op = "read"
        /\ AbsCall[t].fpos = fpos[t]
    BY <2>2 DEF Device!Asked
  <2>5. AbsCall' = [AbsCall EXCEPT ![t] = Device!Done(Device!Eof)]
    BY <2>1, <2>2, <2>3, CallOne
  <2>6. \A k \in 1 .. Len(Kept) : ~Device!Holds(Kept, k, fpos[t])
    BY <2>1, MissAnswers
  <2>7. Device!AnswerEof(t)
    BY <2>4, <2>5, <2>6 DEF Device!AnswerEof
  <2> QED
    BY <2>7 DEF Device!Next
<1>11. ASSUME NEW t \in Threads, ReadCopy(t) PROVE Device!Next
  <2>1. /\ pc[t] = "r_copy" /\ pc'[t] = "r_unlock"
        /\ answer'[t] = Answer("ok", Found(t).buffptr, Offset(t), Clip(t))
        /\ \A u \in Threads \ {t} : SameCall(u)
    BY <1>0, <1>11 DEF ReadCopy, Goto, SameCall
  <2>2. /\ AbsCall[t] = Device!Asked("read", fpos[t], count[t])
        /\ AbsCall'[t] = Device!Done(answer'[t])
    BY <2>1, CallPhase, CallPhaseNext DEF Reading, Writing, Scanning
  <2>3. PICK k \in 1 .. Len(Kept) :
           /\ Device!Holds(Kept, k, fpos[t])
           /\ Device!Part(Kept, k, fpos[t], count[t]) = answer'[t]
    BY <2>1, CopyAnswers
  <2>4. /\ AbsCall[t].phase = "asked" /\ AbsCall[t].op = "read"
        /\ AbsCall[t].fpos = fpos[t] /\ AbsCall[t].count = count[t]
    BY <2>2 DEF Device!Asked
  <2>5. AbsCall' = [AbsCall EXCEPT ![t] =
                       Device!Done(Device!Part(Kept, k, fpos[t], count[t]))]
    BY <2>1, <2>2, <2>3, CallOne
  <2>6. Device!AnswerRead(t)
    BY <2>3, <2>4, <2>5 DEF Device!AnswerRead
  <2> QED
    BY <2>6 DEF Device!Next
<1>12. ASSUME NEW t \in Threads, Return(t) PROVE Device!Next
  <2>1. /\ pc[t] = "ret" /\ pc'[t] = "idle"
        /\ \A u \in Threads \ {t} : SameCall(u)
    BY <1>0, <1>12 DEF Return, Goto, SameCall
  <2>2. AbsCall[t] = Device!Done(answer[t]) /\ AbsCall'[t] = Device!Idle
    BY <2>1, CallPhase, CallPhaseNext DEF Reading, Writing, Scanning
  <2>3. Device!Return(t)
    BY <2>1, <2>2, CallOne DEF Device!Return, Device!Done
  <2> QED
    BY <2>3 DEF Device!Next
<1>13. CASE UNCHANGED vars
  BY <1>13 DEF vars, args, AbsCall, Device!vars
<1> QED
  BY <1>1, <1>3, <1>4, <1>5, <1>6, <1>7, <1>8, <1>9, <1>10, <1>11, <1>12, <1>13
  DEF Next, Step

\* Concurrent calls on the driver behave as if each had happened at one
\* instant on the device of the last MAX writes, for any number of threads,
\* files and blocks, any ring size and any sizes of reads and writes.
THEOREM Refinement == Spec => ImplementsDevice
<1>1. Spec => Device!Init /\ [][Device!Next]_Device!vars
  BY RefineInit, RefineStep, FullInvariance, PTL DEF Spec
<1> QED
  BY <1>1 DEF ImplementsDevice, Device!Spec

-----------------------------------------------------------------------------
\* A file nobody shares is read on from where it was left.

InsideFile(t, f) == pc[t] # "idle" /\ file[t] = f

\* f_pos counts from the start of the text, which moves; last says where the
\* text started when a byte was last delivered.
AtEnd(f, x) == last[f].base + x = last[f].end

\* A call is inside a file that stays open, alone in it unless it is shared.
CallOK(t) ==
    /\ pc[t] # "idle" => file[t] \in open
    /\ pc[t] \in {"idle"} \cup Reading \cup Writing => answer[t].ret = "none"
    /\ \A u \in Threads : 
          u # t /\ pc[t] # "idle" /\ pc[u] # "idle" /\ file[u] = file[t] => file[t] \in Shared

\* Its position is the one the file will have, if it is not a pread.
PlaceOK(t) ==
    pc[t] # "idle" /\ file[t] \notin Shared /\ seq[t] => AtEnd(file[t], fpos[t])

\* f_pos is behind only until a call that moved it has returned.
FileOK(f) ==
    /\ f \in open => last[f].base <= Base
    /\ f \in open \ Shared =>
          \/ AtEnd(f, pos[f])
          \/ \E t \in Threads : InsideFile(t, f) /\ seq[t] /\ answer[t].ret = "ok"

ReadsInv == /\ \A t \in Threads : CallOK(t) /\ PlaceOK(t)
            /\ \A f \in Files : FileOK(f)
-----------------------------------------------------------------------------
\* The byte a thread is about to copy, in everything ever written.
LEMMA FromIs ==
  ASSUME Inv, DeviceInv, NEW t \in Threads, pc[t] = "r_copy"
  PROVE  From(t) = Base + fpos[t]
<1>1. TypeOK /\ ScanBounds /\ pc[t] \in Scanning
  BY DEF Inv, Scanning
<1>2. ScanHits(buffer, scan[t], fpos[t])
  BY <1>1 DEF ScanBounds
<1>3. scan[t].i \in 0 .. Len(Kept) /\ scan[t].i # Len(Kept) /\ Len(Kept) \in Nat
  BY <1>1, <1>2, Scanned, KeptType, MaxAssumption DEF ScanHits, DeviceInv
<1>4. scan[t].bytes_counted = at[scan[t].cur_offs] - Base
  BY <1>1, <1>3, Scanned
<1>5. Base \in Nat /\ fpos[t] \in Nat /\ at[scan[t].cur_offs] \in Nat
  BY <1>1, RingType DEF TypeOK, Scans
<1> QED
  BY <1>4, <1>5 DEF From, Offset

\* The oldest packet after one more.
LEMMA PushFirst ==
  ASSUME NEW w \in Seq(PacketType), Len(w) \in 0 .. MAX, NEW e \in PacketType
  PROVE  /\ Len(Push(w, e)) # 0
         /\ Len(w) = 0 => Push(w, e)[1] = e
         /\ Len(w) # 0 /\ Len(w) < MAX => Push(w, e)[1] = w[1]
         /\ Len(w) = MAX => Push(w, e)[1] = IF MAX = 1 THEN e ELSE w[2]
<1> DEFINE v == Push(w, e)
<1>1. v = Push(w, e)
  OBVIOUS
<1>2. Len(w) <= MAX /\ Len(w) \in Nat /\ MAX \in Nat /\ MAX > 0
  BY MaxAssumption
<1> HIDE DEF v
<1>3. Len(v) = IF Len(w) < MAX THEN Len(w) + 1 ELSE Len(w)
  BY <1>1, <1>2, PushElements
<1>4. v[Len(v)] = e
  BY <1>1, <1>2, PushElements
<1>5. \A k \in 1 .. Len(v) - 1 : v[k] = IF Len(w) < MAX THEN w[k] ELSE w[k + 1]
  BY <1>1, <1>2, PushKeeps, Zenon
<1>6. /\ Len(v) # 0
      /\ Len(w) = 0 => v[1] = e
      /\ Len(w) # 0 /\ Len(w) < MAX => v[1] = w[1]
      /\ Len(w) = MAX => v[1] = IF MAX = 1 THEN e ELSE w[2]
  BY <1>2, <1>3, <1>4, <1>5
<1> QED
  BY <1>1, <1>6, Zenon

\* The text only ever loses its oldest bytes.
LEMMA BaseGrows ==
  ASSUME Inv, DeviceInv, [Next]_vars
  PROVE  Base \in Nat /\ Base' \in Nat /\ Base <= Base'
<1>1. TypeOK /\ TypeOK' /\ RingShape /\ RingShape' /\ Stream
  BY TypeStep, DeviceStep DEF Inv, DeviceInv
<1>2. Base \in Nat /\ Base' \in Nat
  <2>1. TypeOK' => (Base \in Nat)'
    BY RingType, PTL
  <2> QED
    BY <1>1, <2>1, RingType
<1>3. CASE Quiet
  <2>1. Ring' = Ring
    BY <1>3, KeptSame DEF Quiet
  <2>2. Base' = Base
    BY <1>3, <2>1 DEF Quiet, Base
  <2> QED
    BY <1>2, <2>2
<1>4. ASSUME NEW t \in Threads, WriteAdvance(t) PROVE Base <= Base'
  <2>1. Ring' = Ring /\ at' = at /\ total' = total
    BY <1>4, KeptAdvance DEF WriteAdvance, history
  <2> QED
    BY <1>2, <2>1 DEF Base
<1>5. ASSUME NEW t \in Threads, WriteStore(t) PROVE Base <= Base'
  <2> DEFINE p == Packet(t)
  <2>1. /\ Kept \in Seq(PacketType) /\ Len(Kept) \in 0 .. MAX /\ p \in PacketType
        /\ p.at = total /\ total \in Nat /\ MAX \in Nat /\ MAX > 0
        /\ Len(Kept) \in Nat
    <3>1. p \in PacketType /\ p.at = total /\ total \in Nat
      BY <1>1 DEF Packet, PacketType, TypeOK
    <3>2. Kept \in Seq(PacketType) /\ Len(Kept) \in 0 .. MAX
      BY <1>1, KeptType
    <3> QED
      BY <3>1, <3>2, MaxAssumption
  <2>2. Kept' = Push(Kept, p)
    BY <1>1, <1>5, KeptStore
  <2> HIDE DEF p
  <2>3. /\ Len(Kept') # 0
        /\ Len(Kept) = 0 => Kept'[1] = p
        /\ Len(Kept) # 0 /\ Len(Kept) < MAX => Kept'[1] = Kept[1]
        /\ Len(Kept) = MAX => Kept'[1] = IF MAX = 1 THEN p ELSE Kept[2]
    BY <2>1, <2>2, PushFirst
  <2>4. /\ Base = IF Len(Kept) = 0 THEN total ELSE Kept[1].at
        /\ Base' = Kept'[1].at
    <3>1. TypeOK' /\ RingShape' => (Base = IF Len(Kept) = 0 THEN total ELSE Kept[1].at)'
      BY KeptType, PTL
    <3> QED
      BY <1>1, <2>3, <3>1, KeptType
  <2>5. CASE Len(Kept) = 0
    BY <2>1, <2>3, <2>4, <2>5
  <2>6. CASE Len(Kept) # 0 /\ Len(Kept) < MAX
    BY <1>2, <2>1, <2>3, <2>4, <2>6
  <2>7. CASE Len(Kept) = MAX
    <3>0. 1 \in 1 .. Len(Kept)
      BY <2>1, <2>7
    <3>1. Kept[1] \in PacketType /\ 1 \in 1 .. Len(Kept)
      BY <2>1, <3>0, ElementOfSeq
    <3>2. Kept[1].at + Kept[1].size = IF 1 = Len(Kept) THEN total ELSE Kept[2].at
      BY <1>1, <3>1 DEF Stream, StreamOK
    <3>3. Kept'[1].at = IF 1 = Len(Kept) THEN total ELSE Kept[2].at
      BY <2>1, <2>3, <2>7
    <3>4. Kept[1].at \in Nat /\ Kept[1].size \in Nat
      BY <3>1 DEF PacketType
    <3> QED
      BY <1>2, <2>1, <2>4, <2>7, <3>2, <3>3, <3>4
  <2> QED
    BY <2>1, <2>5, <2>6, <2>7
<1> QED
  BY <1>2, <1>3, <1>4, <1>5, QuietSteps

-----------------------------------------------------------------------------
\* Most of what a thread does in the driver moves no position.
Plain(t) ==
    /\ UNCHANGED <<open, pos, last, file, seq, fpos>>
    /\ pc[t] # "idle" /\ pc'[t] # "idle"
    /\ \A u \in Threads : u # t => pc'[u] = pc[u] /\ answer'[u] = answer[u]
    /\ answer[t].ret = "ok" => answer'[t].ret = "ok"
    /\ pc'[t] \in Reading \cup Writing =>
          pc[t] \in Reading \cup Writing /\ answer'[t] = answer[t]

LEMMA PlainSteps ==
  ASSUME Inv, ReadsInv, NEW t \in Threads, Step(t)
  PROVE  Plain(t) \/ ReadCopy(t) \/ Return(t)
<1>0. /\ pc \in [Threads -> {"idle", "ret", "r_lock"} \cup Critical \cup Writing]
      /\ answer \in [Threads -> [ret : Rets, data : Pointers, offset : Nat, len : Nat]]
      /\ pc[t] \in Reading \cup Writing => answer[t].ret # "ok"
  BY DEF Inv, TypeOK, ReadsInv, CallOK
<1> USE DEF Plain, Goto, Reading, Writing, Scanning
<1>1. CASE WriteAlloc(t)
  BY <1>0, <1>1 DEF WriteAlloc, files, args, history
<1>2. CASE WriteNoMem(t)
  BY <1>0, <1>2 DEF WriteNoMem, files, args, history
<1>3. CASE WriteCopy(t)
  BY <1>0, <1>3 DEF WriteCopy, files, args, history
<1>4. CASE WriteFault(t)
  BY <1>0, <1>4 DEF WriteFault, files, args, history
<1>5. CASE WriteLock(t)
  BY <1>0, <1>5 DEF WriteLock, Lock, files, args, history
<1>6. CASE WriteStore(t)
  BY <1>0, <1>6 DEF WriteStore, files, args
<1>7. CASE WriteAdvance(t)
  BY <1>0, <1>7 DEF WriteAdvance, files, args, history
<1>8. CASE WriteUnlock(t)
  BY <1>0, <1>8 DEF WriteUnlock, files, args, history
<1>9. CASE ReadLock(t)
  BY <1>0, <1>9 DEF ReadLock, Lock, files, args, history
<1>10. CASE ReadMiss(t)
  BY <1>0, <1>10 DEF ReadMiss, files, args, history
<1>11. CASE ReadHit(t)
  BY <1>0, <1>11 DEF ReadHit, files, args, history
<1>12. CASE ReadNext(t)
  BY <1>0, <1>12 DEF ReadNext, files, args, history
<1>13. CASE ReadFault(t)
  BY <1>0, <1>13 DEF ReadFault, files, args, history
<1>14. CASE ReadUnlock(t)
  BY <1>0, <1>14 DEF ReadUnlock, files, args, history
<1> QED
  BY <1>1, <1>2, <1>3, <1>4, <1>5, <1>6, <1>7, <1>8, <1>9, <1>10, <1>11, <1>12,
     <1>13, <1>14 DEF Step

-----------------------------------------------------------------------------
\* What the steps below share: the types of the fields they move.
ReadsTypes ==
    /\ file \in [Threads -> Files \cup {NULL}] /\ open \subseteq Files /\ NULL \notin Files
    /\ seq \in [Threads -> BOOLEAN]
    /\ fpos \in [Threads -> Nat] /\ pos \in [Files -> Nat]
    /\ last \in [Files -> [end : Nat, base : Nat]]
    /\ pc \in [Threads -> {"idle", "ret", "r_lock"} \cup Critical \cup Writing]
    /\ answer \in [Threads -> [ret : Rets, data : Pointers, offset : Nat, len : Nat]]
    /\ Base \in Nat /\ Base' \in Nat /\ Base <= Base'

LEMMA PlainKeeps ==
  ASSUME ReadsTypes, ReadsInv, NEW t \in Threads, Plain(t) PROVE ReadsInv'
<1>1. ASSUME NEW u \in Threads PROVE CallOK(u)' /\ PlaceOK(u)'
  BY <1>1 DEF ReadsTypes, ReadsInv, Plain, CallOK, PlaceOK, AtEnd, Reading, Writing, Scanning
<1>2. ASSUME NEW f \in Files PROVE FileOK(f)'
  <2>1. f \in open => last[f].base <= Base'
    BY DEF ReadsTypes, ReadsInv, FileOK
  <2>2. ASSUME NEW u \in Threads, InsideFile(u, f), seq[u], answer[u].ret = "ok"
        PROVE  (InsideFile(u, f) /\ seq[u] /\ answer[u].ret = "ok")'
    BY <2>2 DEF Plain, InsideFile
  <2> QED
    BY <2>1, <2>2 DEF ReadsInv, Plain, FileOK, AtEnd
<1> QED
  BY <1>1, <1>2 DEF ReadsInv

LEMMA OpenKeeps ==
  ASSUME ReadsTypes, ReadsInv, NEW f \in Files, Open(f) PROVE ReadsInv'
<1>1. /\ f \notin open /\ open' = open \cup {f} /\ pos' = [pos EXCEPT ![f] = 0]
      /\ last' = [last EXCEPT ![f] = [end |-> Base, base |-> Base]]
      /\ pc' = pc /\ file' = file /\ seq' = seq /\ fpos' = fpos /\ answer' = answer
  BY DEF Open, args
<1>2. ASSUME NEW u \in Threads PROVE CallOK(u)' /\ PlaceOK(u)'
  BY <1>1, <1>2 DEF ReadsTypes, ReadsInv, CallOK, PlaceOK, AtEnd
<1>3. ASSUME NEW g \in Files PROVE FileOK(g)'
  <2>1. CASE g = f
    BY <1>1, <2>1 DEF ReadsTypes, FileOK, AtEnd
  <2>2. CASE g # f
    <3>1. g \in open => last'[g].base <= Base'
      BY <1>1, <2>2 DEF ReadsTypes, ReadsInv, FileOK
    <3> QED
      BY <1>1, <2>2, <3>1 DEF ReadsTypes, ReadsInv, FileOK, AtEnd, InsideFile
  <2> QED
    BY <2>1, <2>2
<1> QED
  BY <1>2, <1>3 DEF ReadsInv

LEMMA ReleaseKeeps ==
  ASSUME ReadsTypes, ReadsInv, NEW f \in Files, Release(f) PROVE ReadsInv'
<1>1. /\ ~InCall(f) /\ open' = open \ {f} /\ pos' = pos /\ last' = last
      /\ pc' = pc /\ file' = file /\ seq' = seq /\ fpos' = fpos /\ answer' = answer
  BY DEF Release, args, history
<1>2. ASSUME NEW u \in Threads PROVE CallOK(u)' /\ PlaceOK(u)'
  BY <1>1, <1>2 DEF ReadsTypes, ReadsInv, CallOK, PlaceOK, AtEnd, InCall
<1>3. ASSUME NEW g \in Files PROVE FileOK(g)'
  <2>1. g \in open' => last'[g].base <= Base'
    BY <1>1 DEF ReadsTypes, ReadsInv, FileOK
  <2> QED
    BY <1>1, <2>1 DEF ReadsInv, FileOK, AtEnd, InsideFile
<1> QED
  BY <1>2, <1>3 DEF ReadsInv

\* A call that enters finds the file where the last one left it, as it is alone.
LEMMA EnterKeeps ==
  ASSUME ReadsTypes, ReadsInv, NEW t \in Threads, Call(t) PROVE ReadsInv'
<1>1. PICK f \in Files, s \in BOOLEAN, p \in Nat, n \in Nat, l \in {"w_alloc", "r_lock"} :
          Enter(t, f, s, p, n) /\ Goto(t, l) /\ (s => p = pos[f])
  BY AesdCharAssumption DEF Call, WriteCall, ReadCall, PreadCall, ReadsTypes
<1>2. /\ pc[t] = "idle" /\ f \in open /\ (f \in Shared \/ ~InCall(f))
      /\ pc' = [pc EXCEPT ![t] = l]
      /\ file' = [file EXCEPT ![t] = f] /\ seq' = [seq EXCEPT ![t] = s]
      /\ fpos' = [fpos EXCEPT ![t] = p]
      /\ open' = open /\ pos' = pos /\ last' = last /\ answer' = answer
  BY <1>1 DEF Enter, Goto, files, history
<1>3. answer[t].ret = "none" /\ l # "idle"
  BY <1>2 DEF ReadsInv, CallOK
<1>4. f \notin Shared => AtEnd(f, pos[f])
  BY <1>2 DEF ReadsInv, FileOK, InCall, InsideFile
<1>5. ASSUME NEW u \in Threads PROVE CallOK(u)' /\ PlaceOK(u)'
  <2>1. CASE u = t
    <3>1. CallOK(t)'
      BY <1>2, <1>3 DEF ReadsTypes, CallOK, InCall
    <3>2. PlaceOK(t)'
      BY <1>1, <1>2, <1>4 DEF ReadsTypes, PlaceOK, AtEnd
    <3> QED
      BY <2>1, <3>1, <3>2
  <2>2. CASE u # t
    <3>1. pc'[u] = pc[u] /\ file'[u] = file[u] /\ seq'[u] = seq[u] /\ fpos'[u] = fpos[u]
      BY <1>2, <2>2 DEF ReadsTypes
    <3>2. CallOK(u)'
      BY <1>2, <1>3, <2>2, <3>1 DEF ReadsTypes, ReadsInv, CallOK, InCall
    <3>3. PlaceOK(u)'
      BY <1>2, <3>1 DEF ReadsInv, PlaceOK, AtEnd
    <3> QED
      BY <3>2, <3>3
  <2> QED
    BY <2>1, <2>2
<1>6. ASSUME NEW g \in Files PROVE FileOK(g)'
  <2>1. g \in open => last[g].base <= Base'
    BY DEF ReadsTypes, ReadsInv, FileOK
  <2>2. ASSUME NEW u \in Threads, InsideFile(u, g), seq[u], answer[u].ret = "ok"
        PROVE  (InsideFile(u, g) /\ seq[u] /\ answer[u].ret = "ok")'
    BY <1>2, <1>3, <2>2 DEF ReadsTypes, InsideFile
  <2> QED
    BY <1>2, <2>1, <2>2 DEF ReadsInv, FileOK, AtEnd
<1> QED
  BY <1>5, <1>6 DEF ReadsInv

LEMMA CopyKeeps ==
  ASSUME ReadsTypes, ReadsInv, Inv, DeviceInv, NEW t \in Threads, ReadCopy(t)
  PROVE  ReadsInv'
<1>1. /\ pc[t] = "r_copy" /\ pc' = [pc EXCEPT ![t] = "r_unlock"]
      /\ answer'[t].ret = "ok" /\ \A u \in Threads : u # t => answer'[u] = answer[u]
      /\ fpos' = [fpos EXCEPT ![t] = @ + Clip(t)]
      /\ last' = IF seq[t]
                 THEN [last EXCEPT ![file[t]] = [end |-> From(t) + Clip(t), base |-> Base]]
                 ELSE last
      /\ open' = open /\ pos' = pos /\ file' = file /\ seq' = seq
  BY DEF ReadCopy, Goto, Answer, files, ReadsTypes
<1>2. /\ file[t] \in open /\ file[t] \in Files
      /\ \A u \in Threads : u # t /\ pc[u] # "idle" /\ file[u] = file[t] => file[t] \in Shared
  BY <1>1 DEF ReadsInv, CallOK, ReadsTypes
<1>3. From(t) + Clip(t) = Base + (fpos[t] + Clip(t))
  <2>1. From(t) = Base + fpos[t] /\ Clip(t) \in Nat
    BY <1>1, FromIs, CopyBounds DEF Inv
  <2> QED
    BY <2>1 DEF ReadsTypes
<1>4. ASSUME NEW u \in Threads PROVE CallOK(u)' /\ PlaceOK(u)'
  <2>1. CallOK(u)'
    BY <1>1 DEF ReadsTypes, ReadsInv, CallOK, Reading, Writing, Scanning
  <2>2. PlaceOK(u)'
    <3>1. CASE u = t
      BY <1>1, <1>2, <1>3, <3>1 DEF ReadsTypes, PlaceOK, AtEnd
    <3>2. CASE u # t
      BY <1>1, <1>2, <3>2 DEF ReadsTypes, ReadsInv, PlaceOK, AtEnd
    <3> QED
      BY <3>1, <3>2
  <2> QED
    BY <2>1, <2>2
<1>5. ASSUME NEW g \in Files PROVE FileOK(g)'
  <2>1. CASE seq[t] /\ g = file[t]
    <3>1. (InsideFile(t, g) /\ seq[t] /\ answer[t].ret = "ok")' /\ last'[g].base = Base
      BY <1>1, <1>2, <2>1 DEF ReadsTypes, InsideFile
    <3> QED
      BY <3>1 DEF ReadsTypes, FileOK
  <2>2. CASE ~(seq[t] /\ g = file[t])
    <3>1. last'[g] = last[g]
      BY <1>1, <1>2, <2>2 DEF ReadsTypes
    <3>2. g \in open => last[g].base <= Base'
      BY DEF ReadsTypes, ReadsInv, FileOK
    <3>3. ASSUME NEW u \in Threads, InsideFile(u, g), seq[u], answer[u].ret = "ok"
          PROVE  (InsideFile(u, g) /\ seq[u] /\ answer[u].ret = "ok")'
      BY <1>1, <3>3 DEF ReadsTypes, InsideFile
    <3> QED
      BY <1>1, <3>1, <3>2, <3>3 DEF ReadsInv, FileOK, AtEnd
  <2> QED
    BY <2>1, <2>2
<1> QED
  BY <1>4, <1>5 DEF ReadsInv

LEMMA ReturnKeeps ==
  ASSUME ReadsTypes, ReadsInv, NEW t \in Threads, Return(t) PROVE ReadsInv'
<1>1. /\ pc[t] = "ret" /\ pc' = [pc EXCEPT ![t] = "idle"]
      /\ pos' = IF seq[t] /\ answer[t].ret = "ok"
                THEN [pos EXCEPT ![file[t]] = fpos[t]] ELSE pos
      /\ answer'[t].ret = "none" /\ \A u \in Threads : u # t => answer'[u] = answer[u]
      /\ \A u \in Threads : u # t => /\ file'[u] = file[u] /\ seq'[u] = seq[u]
                                    /\ fpos'[u] = fpos[u] /\ pc'[u] = pc[u]
      /\ open' = open /\ last' = last
  BY DEF Return, Goto, NoAnswer, Answer, history, ReadsTypes
<1>2. /\ file[t] \in open /\ file[t] \in Files
      /\ \A u \in Threads : u # t /\ pc[u] # "idle" /\ file[u] = file[t] => file[t] \in Shared
      /\ file[t] \notin Shared /\ seq[t] => AtEnd(file[t], fpos[t])
  BY <1>1 DEF ReadsInv, CallOK, PlaceOK, ReadsTypes
<1>3. pc'[t] = "idle"
  BY <1>1 DEF ReadsTypes
<1>4. ASSUME NEW u \in Threads PROVE CallOK(u)' /\ PlaceOK(u)'
  <2>1. CASE u = t
    BY <1>1, <1>3, <2>1 DEF CallOK, PlaceOK
  <2>2. CASE u # t
    BY <1>1, <1>3, <2>2 DEF ReadsInv, CallOK, PlaceOK, AtEnd
  <2> QED
    BY <2>1, <2>2
<1>5. ASSUME NEW g \in Files PROVE FileOK(g)'
  <2>1. g \in open => last[g].base <= Base'
    BY DEF ReadsTypes, ReadsInv, FileOK
  <2>2. ASSUME g \in open \ Shared
        PROVE  \/ AtEnd(g, pos[g])'
               \/ \E u \in Threads : (InsideFile(u, g) /\ seq[u] /\ answer[u].ret = "ok")'
    <3>1. CASE g = file[t]
      <4>1. CASE seq[t] /\ answer[t].ret = "ok"
        BY <1>1, <1>2, <2>2, <3>1, <4>1 DEF ReadsTypes, AtEnd
      <4>2. CASE ~(seq[t] /\ answer[t].ret = "ok")
        <5>1. AtEnd(g, pos[g])
          BY <1>2, <2>2, <3>1, <4>2 DEF ReadsInv, FileOK, InsideFile
        <5> QED
          BY <1>1, <4>2, <5>1 DEF AtEnd
      <4> QED
        BY <4>1, <4>2
    <3>2. CASE g # file[t]
      <4>1. pos'[g] = pos[g]
        BY <1>1, <1>2, <3>2 DEF ReadsTypes
      <4>2. ASSUME NEW u \in Threads, InsideFile(u, g), seq[u], answer[u].ret = "ok"
            PROVE  (InsideFile(u, g) /\ seq[u] /\ answer[u].ret = "ok")'
        BY <1>1, <3>2, <4>2 DEF InsideFile
      <4> QED
        BY <1>1, <2>2, <4>1, <4>2 DEF ReadsInv, FileOK, AtEnd
    <3> QED
      BY <3>1, <3>2
  <2> QED
    BY <1>1, <2>1, <2>2 DEF FileOK
<1> QED
  BY <1>4, <1>5 DEF ReadsInv

LEMMA ReadsStep == Inv /\ DeviceInv /\ ReadsInv /\ [Next]_vars => ReadsInv'
<1> SUFFICES ASSUME Inv, DeviceInv, ReadsInv, [Next]_vars PROVE ReadsInv'
  OBVIOUS
<1>1. ReadsTypes
  BY BaseGrows, AesdCharAssumption DEF ReadsTypes, Inv, TypeOK
<1>2. CASE UNCHANGED vars
  <2>1. Base' = Base
    BY <1>2 DEF vars, device, history, Base, Ring
  <2> QED
    BY <1>2, <2>1 DEF vars, files, args, history, ReadsInv, CallOK, PlaceOK, FileOK,
                      AtEnd, InsideFile
<1> QED
  BY <1>1, <1>2, OpenKeeps, ReleaseKeeps, EnterKeeps, PlainSteps, PlainKeeps, CopyKeeps,
     ReturnKeeps DEF Next

LEMMA ReadsInit == Init => ReadsInv
<1> SUFFICES ASSUME Init PROVE ReadsInv
  OBVIOUS
<1>1. \A t \in Threads : CallOK(t) /\ PlaceOK(t)
  BY DEF Init, CallOK, PlaceOK, NoAnswer, Answer
<1>2. \A f \in Files : FileOK(f)
  BY DEF Init, FileOK
<1> QED
  BY <1>1, <1>2 DEF ReadsInv

\* Who reads on in a file nobody shares is given no byte twice and, until one
\* of them is overwritten, misses none.
THEOREM ReadsGoOn == Spec => ReadsContinue
<1>1. FullInv /\ ReadsInv /\ [Next]_vars => ReadsInv'
  BY ReadsStep DEF FullInv
<1>2. ASSUME FullInv, ReadsInv, NEW t \in Threads, ReadCopy(t), seq[t],
             file[t] \notin Shared
      PROVE  /\ From(t) >= last[file[t]].end
             /\ Base = last[file[t]].base => From(t) = last[file[t]].end
  <2>1. /\ pc[t] = "r_copy" /\ Inv /\ DeviceInv /\ TypeOK
    BY <1>2 DEF ReadCopy, FullInv, Inv
  <2>2. /\ file[t] \in open /\ file[t] \in Files
        /\ AtEnd(file[t], fpos[t]) /\ last[file[t]].base <= Base
    BY <1>2, <2>1 DEF ReadsInv, CallOK, PlaceOK, FileOK, TypeOK
  <2>3. /\ fpos[t] \in Nat /\ Base \in Nat
        /\ last[file[t]].end \in Nat /\ last[file[t]].base \in Nat
    BY <2>1, <2>2, RingType DEF TypeOK
  <2>4. From(t) = Base + fpos[t]
    BY <2>1, FromIs
  <2> QED
    BY <2>2, <2>3, <2>4 DEF AtEnd
<1>3. FullInv /\ ReadsInv =>
        [\A t \in Threads :
            LET l == last[file[t]]
            IN  /\ ReadCopy(t) /\ seq[t] /\ file[t] \notin Shared
                => /\ From(t) >= l.end
                   /\ Base = l.base => From(t) = l.end]_vars
  BY <1>2
<1> QED
  BY <1>1, <1>3, ReadsInit, FullInvariance, PTL DEF Spec, ReadsContinue
=============================================================================
