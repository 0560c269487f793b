------------------------------ MODULE RingUse -------------------------------
(* One caller at a time uses the ring: the situation of the unit tests of    *)
(* aesd-circular-buffer.c, for every sequence of calls instead of a few.     *)
EXTENDS CircularBuffer, SequencesExt, FiniteSetsExt

CONSTANTS Sizes,    \* sizes of the entries that are added
          MaxAdds   \* bound: calls of add_entry since the last init

ASSUME RingUseAssumption == Sizes \subseteq Nat /\ MaxAdds \in Nat

VARIABLES buffer,   \* struct aesd_circular_buffer
          log       \* history: every entry added since init, oldest first

vars == <<buffer, log>>

\* One whole call: the iterations of the loop up to the first exit or hit.
FindEntry(b, char_offset) ==
    LET loop[i \in 0 .. MAX] ==
            IF i = 0 THEN ScanStart(b) ELSE ScanNext(b, loop[i - 1])
        stop == Min({i \in 0 .. MAX : \/ ScanEnds(b, loop[i])
                                      \/ ScanHits(b, loop[i], char_offset)})
        s    == loop[stop]
    IN  IF ScanEnds(b, s) THEN NULL
        ELSE [entry  |-> b.entry[s.cur_offs],
              offset |-> char_offset - s.bytes_counted]

-----------------------------------------------------------------------------
Init == buffer = InitBuffer /\ log = << >>

Add(n) ==
    /\ Len(log) < MaxAdds
    /\ LET e == [buffptr |-> Len(log) + 1, size |-> n]
       IN  buffer' = AddEntry(buffer, e) /\ log' = Append(log, e)

Reinit ==
    /\ log # << >>
    /\ buffer' = InitBuffer
    /\ log' = << >>

Next == Reinit \/ \E n \in Sizes : Add(n)

Spec == Init /\ [][Next]_vars

-----------------------------------------------------------------------------
TypeOK ==
    /\ buffer \in Buffers(Nat \cup {NULL})
    /\ log \in Seq(Entries(Nat))

\* The last MAX entries of the log: what the header promises is kept.
EndOf(s) == SubSeq(s, IF Len(s) > MAX THEN Len(s) - MAX + 1 ELSE 1, Len(s))

LastWrites == EndOf(log)

\* The text the kept entries make when concatenated, each byte named by its
\* entry and its place there.
Bytes == FlattenSeq([k \in 1 .. Len(LastWrites) |->
             [j \in 1 .. LastWrites[k].size |->
                 [entry |-> LastWrites[k], offset |-> j - 1]]])

\* The ring holds exactly the last MAX entries added, oldest first, however
\* often in_offs and out_offs have wrapped (add_entry, lines 47-64).
WindowIsLastWrites == Window(buffer) = LastWrites

\* find_entry_offset_for_fpos (lines 14-45) answers for every offset, the
\* first one past the end included, the byte at that offset of the
\* concatenated text: empty entries are never returned, the scan passes the
\* wrap, and it stops at in_offs when the ring is not full.
FindIsByteAtOffset ==
    \A off \in 0 .. Len(Bytes) + 1 :
        FindEntry(buffer, off) =
            IF off < Len(Bytes) THEN Bytes[off + 1] ELSE NULL

\* aesd_circular_buffer_empty (lines 71-74) is true exactly of a ring to
\* which nothing was added: in_offs = out_offs alone does not tell it from a
\* full one.
EmptyIffUnused == IsEmpty(buffer) <=> log = << >>
=============================================================================
