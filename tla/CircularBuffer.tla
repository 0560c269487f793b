--------------------------- MODULE CircularBuffer ---------------------------
(* The ring of write commands of the aesdchar driver                         *)
(* (aesd-circular-buffer.c/.h).  A buffer is a record with the fields of     *)
(* struct aesd_circular_buffer; the functions of the file are operators.     *)
(* The loop of ..._find_entry_offset_for_fpos is given by its start, its two *)
(* exits and its step, so that the driver can run it one iteration at a time.*)
EXTENDS Integers, Sequences

CONSTANTS MAX,      \* AESDCHAR_MAX_WRITE_OPERATIONS_SUPPORTED
          NULL      \* the null pointer memset leaves in buffptr

\* in_offs and out_offs are uint8_t: a larger ring would wrap them early.
ASSUME MaxAssumption == MAX \in 1..256

Offsets == 0 .. MAX - 1

Entries(Ptr) == [buffptr : Ptr, size : Nat]

Buffers(Ptr) == [entry : [Offsets -> Entries(Ptr)],
                 in_offs : Offsets, out_offs : Offsets, full : BOOLEAN]

-----------------------------------------------------------------------------
InitBuffer == [entry |-> [s \in Offsets |-> [buffptr |-> NULL, size |-> 0]],
               in_offs |-> 0, out_offs |-> 0, full |-> FALSE]

\* Mutant of IsEmpty: forgets that a full ring also has equal offsets.
IsEmptyByOffsets(b) == b.in_offs = b.out_offs

IsEmpty(b) == ~b.full /\ b.in_offs = b.out_offs

\* add_entry in its two halves: the slot is overwritten, then the offsets move.
Store(b, e) == [b EXCEPT !.entry = [@ EXCEPT ![b.in_offs] = e]]

\* Mutant of Advance: in_offs is not wrapped.
AdvanceUnwrapped(b) ==
    LET in == b.in_offs + 1
    IN  [b EXCEPT !.in_offs = in, !.full = @ \/ in = b.out_offs]

\* Mutant of Advance: a full ring overwrites its oldest entry but keeps
\* out_offs on it.
AdvanceKeepsOldest(b) ==
    LET in == (b.in_offs + 1) % MAX
    IN  [b EXCEPT !.in_offs = in, !.full = @ \/ in = b.out_offs]

Advance(b) ==
    LET in  == (b.in_offs + 1) % MAX
        out == IF b.full THEN (b.out_offs + 1) % MAX ELSE b.out_offs
    IN  [b EXCEPT !.in_offs = in, !.out_offs = out, !.full = @ \/ in = out]

AddEntry(b, e) == Advance(Store(b, e))

-----------------------------------------------------------------------------
\* The scan of find_entry_offset_for_fpos: its locals, its exits, its step.
Scans == [i : 0 .. MAX, cur_offs : Offsets, bytes_counted : Nat]

ScanStart(b) == [i |-> 0, cur_offs |-> b.out_offs, bytes_counted |-> 0]

ScanEnds(b, s) == s.i = MAX \/ (~b.full /\ s.cur_offs = b.in_offs)

\* Mutant of ScanHits: <= where the code has <.
ScanHitsOneLate(b, s, char_offset) ==
    /\ ~ScanEnds(b, s)
    /\ char_offset <= s.bytes_counted + b.entry[s.cur_offs].size

ScanHits(b, s, char_offset) ==
    /\ ~ScanEnds(b, s)
    /\ char_offset < s.bytes_counted + b.entry[s.cur_offs].size

ScanNext(b, s) == [i |-> s.i + 1,
                   cur_offs |-> (s.cur_offs + 1) % MAX,
                   bytes_counted |-> s.bytes_counted + b.entry[s.cur_offs].size]

-----------------------------------------------------------------------------
(* What the ring stands for: the entries from the oldest to the newest.      *)
Count(b) == IF b.full THEN MAX ELSE (b.in_offs - b.out_offs) % MAX

\* The offsets of a ring from which nothing is ever taken out: the oldest entry
\* stays in slot 0 until the ring is full, and is then the next overwritten.
Shape(b) == IF b.full THEN b.in_offs = b.out_offs ELSE b.out_offs = 0

Slot(b, i) == (b.out_offs + i) % MAX

\* Any contents g of the slots, read from the oldest slot to the newest.
InOrder(b, g) == [k \in 1 .. Count(b) |-> g[Slot(b, k - 1)]]

Window(b) == InOrder(b, b.entry)

\* A window of at most MAX items after one more: the oldest makes room.
Push(w, e) == IF Len(w) < MAX THEN Append(w, e) ELSE Append(Tail(w), e)
=============================================================================
