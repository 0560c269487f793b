------------------------------ MODULE AesdChar ------------------------------
(* The aesdchar driver (aesdchar.c) under concurrent system calls.  Threads  *)
(* are tasks inside open, release, read, pread and write on /dev/aesdchar;   *)
(* a step is what one thread does between two points where another thread    *)
(* can run: the kmalloc, the user copy, taking the mutex, each access to the *)
(* ring, releasing the mutex, returning through the VFS.                     *)
EXTENDS CircularBuffer

CONSTANTS Threads, Files,
          Shared,        \* the open files several threads use at once
          Blocks,        \* the memory kmalloc has to give
          ZERO_SIZE_PTR, \* what kmalloc(0) returns
          Sizes,         \* counts passed to write
          Counts,        \* counts passed to read and pread
          Positions      \* positions passed to pread

ASSUME AesdCharAssumption ==
    /\ Shared \subseteq Files
    /\ Sizes \subseteq Nat /\ Counts \subseteq Nat /\ Positions \subseteq Nat
    /\ NULL \notin Threads \cup Files \cup Blocks \cup {ZERO_SIZE_PTR}
    /\ ZERO_SIZE_PTR \notin Blocks

VARIABLES
    buffer,   \* the static ring
    owner,    \* who holds aesd_mutex, NULL when nobody does
    heap,     \* state of each block: free, allocated ("raw"), or copied into
    open,     \* the open files
    pos,      \* f_pos of each file
    pc,       \* where each thread is
    file, seq, count, fpos,  \* its arguments; seq: read or write, not pread
    kbuf,     \* aesd_write: what kmalloc returned
    scan,     \* aesd_read: locals of the find loop
    answer,   \* the value its call will return
    at,       \* history: bytes accepted before the entry in each slot
    total,    \* history: bytes accepted since the module was loaded
    dropped,  \* history: blocks whose entry was overwritten
    last      \* history: per file, the end of the last bytes delivered and
              \* the start of the text at that time

device  == <<buffer, owner>>
files   == <<open, pos>>
args    == <<file, seq, count, fpos>>
history == <<at, total, dropped, last>>
vars == <<device, heap, files, pc, args, kbuf, scan, answer, history>>

Pointers == Blocks \cup {ZERO_SIZE_PTR, NULL}

Answer(ret, d, off, len) == [ret |-> ret, data |-> d, offset |-> off, len |-> len]

NoAnswer == Answer("none", NULL, 0, 0)
Eof      == Answer("ok", NULL, 0, 0)
Fault    == Answer("EFAULT", NULL, 0, 0)
NoMem    == Answer("ENOMEM", NULL, 0, 0)
Wrote(n) == Answer("ok", NULL, 0, n)

NoScan == [i |-> 0, cur_offs |-> 0, bytes_counted |-> 0]

\* The ring as the mutex protects it: with the offsets of a half-done
\* add_entry already moved.
Ring == IF \E t \in Threads : pc[t] = "w_advance" THEN Advance(buffer) ELSE buffer

\* The first byte the device still holds, counted from the first ever written.
Base == IF Count(Ring) = 0 THEN total ELSE at[Ring.out_offs]

Goto(t, l) == pc' = [pc EXCEPT ![t] = l]

-----------------------------------------------------------------------------
Init ==
    /\ buffer = InitBuffer
    /\ owner = NULL
    /\ heap = [b \in Blocks |-> "free"]
    /\ open = {}
    /\ pos = [f \in Files |-> 0]
    /\ pc = [t \in Threads |-> "idle"]
    /\ file = [t \in Threads |-> NULL]
    /\ seq = [t \in Threads |-> TRUE]
    /\ count = [t \in Threads |-> 0]
    /\ fpos = [t \in Threads |-> 0]
    /\ kbuf = [t \in Threads |-> NULL]
    /\ scan = [t \in Threads |-> NoScan]
    /\ answer = [t \in Threads |-> NoAnswer]
    /\ at = [s \in Offsets |-> 0]
    /\ total = 0
    /\ dropped = {}
    /\ last = [f \in Files |-> [end |-> 0, base |-> 0]]

-----------------------------------------------------------------------------
\* open and release do nothing of their own; the VFS starts f_pos at 0 and
\* calls release when no call is inside the file any more.
InCall(f) == \E t \in Threads : pc[t] # "idle" /\ file[t] = f

Open(f) ==
    /\ f \notin open
    /\ open' = open \cup {f}
    /\ pos' = [pos EXCEPT ![f] = 0]
    /\ last' = [last EXCEPT ![f] = [end |-> Base, base |-> Base]]
    /\ UNCHANGED <<device, heap, pc, args, kbuf, scan, answer, at, total, dropped>>

Release(f) ==
    /\ f \in open /\ ~InCall(f)
    /\ open' = open \ {f}
    /\ UNCHANGED <<device, heap, pos, pc, args, kbuf, scan, answer, history>>

\* The VFS enters the driver with a copy of f_pos; character devices have no
\* lock on it.
Enter(t, f, s, p, n) ==
    /\ pc[t] = "idle" /\ f \in open /\ (f \in Shared \/ ~InCall(f))
    /\ file' = [file EXCEPT ![t] = f]
    /\ seq' = [seq EXCEPT ![t] = s]
    /\ fpos' = [fpos EXCEPT ![t] = p]
    /\ count' = [count EXCEPT ![t] = n]
    /\ UNCHANGED <<device, heap, files, kbuf, scan, answer, history>>

\* The VFS stores the position back after read and write, not after pread,
\* and only when the driver did not return an error.
Return(t) ==
    /\ pc[t] = "ret"
    /\ pos' = IF seq[t] /\ answer[t].ret = "ok"
              THEN [pos EXCEPT ![file[t]] = fpos[t]] ELSE pos
    /\ Goto(t, "idle")
    /\ file' = [file EXCEPT ![t] = NULL]
    /\ seq' = [seq EXCEPT ![t] = TRUE]
    /\ fpos' = [fpos EXCEPT ![t] = 0]
    /\ count' = [count EXCEPT ![t] = 0]
    /\ answer' = [answer EXCEPT ![t] = NoAnswer]
    /\ UNCHANGED <<device, heap, open, kbuf, scan, history>>

-----------------------------------------------------------------------------
\* aesd_write.
WriteCall(t, f, n) == Enter(t, f, TRUE, pos[f], n) /\ Goto(t, "w_alloc")

\* kmalloc(0) needs no memory and cannot fail.
WriteAlloc(t) ==
    /\ pc[t] = "w_alloc"
    /\ \E b \in Blocks \cup {ZERO_SIZE_PTR} :
           /\ b = ZERO_SIZE_PTR <=> count[t] = 0
           /\ b \in Blocks => heap[b] = "free"
           /\ kbuf' = [kbuf EXCEPT ![t] = b]
           /\ heap' = [c \in Blocks |-> IF c = b THEN "raw" ELSE heap[c]]
    /\ Goto(t, "w_copy")
    /\ UNCHANGED <<device, files, args, scan, answer, history>>

WriteNoMem(t) ==
    /\ pc[t] = "w_alloc" /\ count[t] > 0
    /\ answer' = [answer EXCEPT ![t] = NoMem]
    /\ Goto(t, "ret")
    /\ UNCHANGED <<device, heap, files, args, kbuf, scan, history>>

WriteCopy(t) ==
    /\ pc[t] = "w_copy"
    /\ heap' = [b \in Blocks |-> IF b = kbuf[t] THEN "filled" ELSE heap[b]]
    /\ Goto(t, "w_lock")
    /\ UNCHANGED <<device, files, args, kbuf, scan, answer, history>>

\* Mutant of WriteFault: returns -EFAULT without the kfree.
WriteFaultLeaks(t) ==
    /\ pc[t] = "w_copy" /\ count[t] > 0
    /\ kbuf' = [kbuf EXCEPT ![t] = NULL]
    /\ answer' = [answer EXCEPT ![t] = Fault]
    /\ Goto(t, "ret")
    /\ UNCHANGED <<device, heap, files, args, scan, history>>

WriteFault(t) ==
    /\ pc[t] = "w_copy" /\ count[t] > 0
    /\ heap' = [heap EXCEPT ![kbuf[t]] = "free"]
    /\ kbuf' = [kbuf EXCEPT ![t] = NULL]
    /\ answer' = [answer EXCEPT ![t] = Fault]
    /\ Goto(t, "ret")
    /\ UNCHANGED <<device, files, args, scan, history>>

\* Mutant of Lock: the mutex is not waited for.
LockUnchecked(t, from, to) == pc[t] = from /\ owner' = t /\ Goto(t, to)

Lock(t, from, to) ==
    /\ pc[t] = from /\ owner = NULL
    /\ owner' = t
    /\ Goto(t, to)

WriteLock(t) ==
    /\ Lock(t, "w_lock", "w_store")
    /\ UNCHANGED <<buffer, heap, files, args, kbuf, scan, answer, history>>

WriteStore(t) ==
    /\ pc[t] = "w_store"
    /\ buffer' = Store(buffer, [buffptr |-> kbuf[t], size |-> count[t]])
    /\ at' = [at EXCEPT ![buffer.in_offs] = total]
    /\ total' = total + count[t]
    /\ dropped' = IF buffer.full
                  THEN dropped \cup ({buffer.entry[buffer.in_offs].buffptr} \cap Blocks)
                  ELSE dropped
    /\ answer' = [answer EXCEPT ![t] = Wrote(count[t])]
    /\ Goto(t, "w_advance")
    /\ UNCHANGED <<owner, heap, files, args, kbuf, scan, last>>

WriteAdvance(t) ==
    /\ pc[t] = "w_advance"
    /\ buffer' = Advance(buffer)
    /\ kbuf' = [kbuf EXCEPT ![t] = NULL]
    /\ Goto(t, "w_unlock")
    /\ UNCHANGED <<owner, heap, files, args, scan, answer, history>>

WriteUnlock(t) ==
    /\ pc[t] = "w_unlock"
    /\ owner' = NULL
    /\ Goto(t, "ret")
    /\ UNCHANGED <<buffer, heap, files, args, kbuf, scan, answer, history>>

-----------------------------------------------------------------------------
\* aesd_read.
ReadCall(t, f, n)     == Enter(t, f, TRUE, pos[f], n) /\ Goto(t, "r_lock")
PreadCall(t, f, p, n) == Enter(t, f, FALSE, p, n) /\ Goto(t, "r_lock")

ReadLock(t) ==
    /\ Lock(t, "r_lock", "r_scan")
    /\ scan' = [scan EXCEPT ![t] = ScanStart(buffer)]
    /\ UNCHANGED <<buffer, heap, files, args, kbuf, answer, history>>

\* Mutant of ReadMiss: returns 0 at once instead of going to out.
ReadMissKeepsLock(t) ==
    /\ pc[t] = "r_scan" /\ ScanEnds(buffer, scan[t])
    /\ answer' = [answer EXCEPT ![t] = Eof]
    /\ Goto(t, "ret")
    /\ UNCHANGED <<device, heap, files, args, kbuf, scan, history>>

ReadMiss(t) ==
    /\ pc[t] = "r_scan" /\ ScanEnds(buffer, scan[t])
    /\ answer' = [answer EXCEPT ![t] = Eof]
    /\ Goto(t, "r_unlock")
    /\ UNCHANGED <<device, heap, files, args, kbuf, scan, history>>

ReadHit(t) ==
    /\ pc[t] = "r_scan" /\ ScanHits(buffer, scan[t], fpos[t])
    /\ Goto(t, "r_copy")
    /\ UNCHANGED <<device, heap, files, args, kbuf, scan, answer, history>>

ReadNext(t) ==
    /\ pc[t] = "r_scan" /\ ~ScanEnds(buffer, scan[t])
    /\ ~ScanHits(buffer, scan[t], fpos[t])
    /\ scan' = [scan EXCEPT ![t] = ScanNext(buffer, scan[t])]
    /\ UNCHANGED <<device, heap, files, pc, args, kbuf, answer, history>>

\* Mutant of Offset: copies from buffptr instead of buffptr + entry_offset.
OffsetZero(t) == 0

\* Mutant of Clip: clips to the size of the entry, not to what is left of it.
ClipToEntry(t) == LET n == buffer.entry[scan[t].cur_offs].size
                  IN  IF count[t] > n THEN n ELSE count[t]

\* The entry, through the pointer the scan returned; the offset in it; and how
\* much of it is copied.
Found(t)  == buffer.entry[scan[t].cur_offs]
Offset(t) == fpos[t] - scan[t].bytes_counted
Clip(t)   == IF count[t] > Found(t).size - Offset(t)
             THEN Found(t).size - Offset(t) ELSE count[t]

\* Position, in everything ever written, of the first byte thread t copies.
From(t) == at[scan[t].cur_offs] + Offset(t)

ReadCopy(t) ==
    /\ pc[t] = "r_copy"
    /\ answer' = [answer EXCEPT ![t] =
                     Answer("ok", Found(t).buffptr, Offset(t), Clip(t))]
    /\ fpos' = [fpos EXCEPT ![t] = @ + Clip(t)]
    /\ last' = IF seq[t]
               THEN [last EXCEPT ![file[t]] =
                        [end |-> From(t) + Clip(t), base |-> Base]]
               ELSE last
    /\ Goto(t, "r_unlock")
    /\ UNCHANGED <<device, heap, files, file, seq, count, kbuf, scan, at, total, dropped>>

ReadFault(t) ==
    /\ pc[t] = "r_copy" /\ Clip(t) > 0
    /\ answer' = [answer EXCEPT ![t] = Fault]
    /\ Goto(t, "r_unlock")
    /\ UNCHANGED <<device, heap, files, args, kbuf, scan, history>>

ReadUnlock(t) ==
    /\ pc[t] = "r_unlock"
    /\ owner' = NULL
    /\ scan' = [scan EXCEPT ![t] = NoScan]
    /\ Goto(t, "ret")
    /\ UNCHANGED <<buffer, heap, files, args, kbuf, answer, history>>

-----------------------------------------------------------------------------
Call(t) == \E f \in Files :
              \/ \E n \in Sizes : WriteCall(t, f, n)
              \/ \E n \in Counts : ReadCall(t, f, n)
              \/ \E p \in Positions, n \in Counts : PreadCall(t, f, p, n)

\* What thread t does of itself once it is inside a call.
Step(t) == \/ WriteAlloc(t) \/ WriteNoMem(t) \/ WriteCopy(t) \/ WriteFault(t)
           \/ WriteLock(t) \/ WriteStore(t) \/ WriteAdvance(t) \/ WriteUnlock(t)
           \/ ReadLock(t) \/ ReadMiss(t) \/ ReadHit(t) \/ ReadNext(t)
           \/ ReadCopy(t) \/ ReadFault(t) \/ ReadUnlock(t) \/ Return(t)

Next == \/ \E f \in Files : Open(f) \/ Release(f)
        \/ \E t \in Threads : Call(t) \/ Step(t)

Spec == Init /\ [][Next]_vars

\* A thread in the driver keeps running, and the kernel mutex does not let a
\* waiter be overtaken for ever.
Fairness == \A t \in Threads : /\ WF_vars(Step(t))
                               /\ SF_vars(WriteLock(t) \/ ReadLock(t))

FairSpec == Spec /\ Fairness

-----------------------------------------------------------------------------
Scanning == {"r_scan", "r_copy"}
Critical == {"w_store", "w_advance", "w_unlock", "r_unlock"} \cup Scanning
Reading  == {"r_lock"} \cup Scanning
Writing  == {"w_alloc", "w_copy", "w_lock", "w_store"}

Rets == {"none", "ok", "EFAULT", "ENOMEM"}

TypeOK ==
    /\ buffer \in Buffers(Pointers)
    /\ owner \in Threads \cup {NULL}
    /\ heap \in [Blocks -> {"free", "raw", "filled"}]
    /\ open \subseteq Files
    /\ pos \in [Files -> Nat]
    /\ pc \in [Threads -> {"idle", "ret", "r_lock"} \cup Critical \cup Writing]
    /\ file \in [Threads -> Files \cup {NULL}]
    /\ seq \in [Threads -> BOOLEAN]
    /\ count \in [Threads -> Nat]
    /\ fpos \in [Threads -> Nat]
    /\ kbuf \in [Threads -> Pointers]
    /\ scan \in [Threads -> Scans]
    /\ answer \in [Threads -> [ret : Rets, data : Pointers, offset : Nat, len : Nat]]
    /\ at \in [Offsets -> Nat]
    /\ total \in Nat
    /\ dropped \subseteq Blocks
    /\ last \in [Files -> [end : Nat, base : Nat]]

\* aesd_mutex does what the code relies on: whoever touches the ring, in
\* aesd_read or in aesd_write, holds it, so no two threads do at once.
MutualExclusion == \A t \in Threads : pc[t] \in Critical <=> owner = t

\* The entries of the ring as the callers of the device see them, by slot and
\* from the oldest to the newest.
Packets == [s \in Offsets |-> [data |-> buffer.entry[s].buffptr,
                              size |-> buffer.entry[s].size,
                              at   |-> at[s]]]

Kept == InOrder(Ring, Packets)

\* Whatever the interleaving of writers, the kept entries are consecutive
\* pieces of the stream of accepted bytes and reach up to its last byte: no
\* write is lost, doubled or out of order in the ring.
KeptIsEndOfStream ==
    \A k \in 1 .. Len(Kept) :
        Kept[k].at + Kept[k].size =
            IF k = Len(Kept) THEN total ELSE Kept[k + 1].at

KeptBlocks == {Kept[k].data : k \in 1 .. Len(Kept)} \cap Blocks
HeldBlocks == {kbuf[t] : t \in {u \in Threads : pc[u] \in Writing}} \cap Blocks
Allocated  == {b \in Blocks : heap[b] # "free"}

\* Each block has one owner: it is free, in the hands of one writer, in the
\* ring, or (the driver never frees it) dropped by an overwrite.  So the ring
\* never points at memory that was freed or is still being filled by
\* copy_from_user, and a failed write leaves nothing allocated.
EveryBlockHasOneOwner ==
    /\ Allocated = KeptBlocks \cup HeldBlocks \cup dropped
    /\ KeptBlocks \cap HeldBlocks = {}
    /\ dropped \cap (KeptBlocks \cup HeldBlocks) = {}
    /\ \A t, u \in Threads :
           /\ {pc[t], pc[u]} \subseteq Writing
           /\ kbuf[t] = kbuf[u] /\ kbuf[t] \in Blocks
           => t = u
    /\ \A b \in KeptBlocks : heap[b] = "filled"

\* The memory of an entry has a lifetime managed by the caller of add_entry
\* (the comment on aesd_circular_buffer_add_entry), who must free what an
\* overwrite displaces: every allocated block is reachable.  aesd_write does
\* not do it, so the runs refute this.
NothingLeaks == Allocated \subseteq KeptBlocks \cup HeldBlocks

\* A process that reads a file it does not share gets each byte at most once,
\* and as long as nothing was evicted in between it gets all of them, in
\* order, across the ends of entries, short reads, faults and other threads'
\* writes and preads.
ReadsContinue ==
    [][\A t \in Threads :
          LET l == last[file[t]]
          IN  /\ ReadCopy(t) /\ seq[t] /\ file[t] \notin Shared
              => /\ From(t) >= l.end
                 /\ Base = l.base => From(t) = l.end]_vars

\* Every system call on the device comes back.
CallsReturn == \A t \in Threads : pc[t] # "idle" ~> pc[t] = "idle"

AbsCall ==
    [t \in Threads |->
        IF pc[t] = "idle" THEN [phase |-> "idle"]
        ELSE IF pc[t] \in Reading \cup Writing
        THEN [phase |-> "asked",
              op    |-> IF pc[t] \in Reading THEN "read" ELSE "write",
              fpos  |-> fpos[t], count |-> count[t]]
        ELSE [phase |-> "done", answer |-> answer[t]]]

Device == INSTANCE CharDevice WITH
              Data <- Blocks, NoData <- ZERO_SIZE_PTR,
              window <- Kept, call <- AbsCall

\* The driver implements the device CharDevice describes: concurrent calls
\* behave as if each read and each write happened at one instant between its
\* entry and its return.
ImplementsDevice == Device!Spec
=============================================================================
