------------------------ MODULE CircularBufferProofs ------------------------
(* Lemmas about the ring of aesd-circular-buffer.c, for every MAX.           *)
EXTENDS CircularBuffer, SequenceTheorems, TLAPS

\* The ring arithmetic (i + 1) % MAX, without division: an offset is its own
\* remainder, and one step past the end is 0.
LEMMA OffsetMod == \A x \in Offsets : x % MAX = x
  BY MaxAssumption DEF Offsets

LEMMA WrapMod == \A x \in MAX .. 2 * MAX - 1 : x % MAX = x - MAX
  BY MaxAssumption

LEMMA ModRange == \A x \in Nat : x % MAX \in Offsets
  BY MaxAssumption DEF Offsets

\* Every operation on the ring keeps its fields in range: in_offs and out_offs
\* always index the entry array.
LEMMA StoreType ==
  ASSUME NEW Ptr, NEW b \in Buffers(Ptr), NEW e \in Entries(Ptr)
  PROVE  Store(b, e) \in Buffers(Ptr)
  BY DEF Store, Buffers

LEMMA AdvanceType ==
  ASSUME NEW Ptr, NEW b \in Buffers(Ptr)
  PROVE  Advance(b) \in Buffers(Ptr)
<1>1. b.in_offs + 1 \in Nat /\ b.out_offs + 1 \in Nat
  BY DEF Buffers, Offsets
<1>2. (b.in_offs + 1) % MAX \in Offsets /\ (b.out_offs + 1) % MAX \in Offsets
  BY <1>1, ModRange
<1> QED
  BY <1>2 DEF Advance, Buffers

LEMMA ScanStartType ==
  ASSUME NEW Ptr, NEW b \in Buffers(Ptr)
  PROVE  ScanStart(b) \in Scans
  BY MaxAssumption DEF ScanStart, Scans, Buffers

LEMMA ScanNextType ==
  ASSUME NEW Ptr, NEW b \in Buffers(Ptr), NEW s \in Scans, ~ScanEnds(b, s)
  PROVE  ScanNext(b, s) \in Scans
<1>1. s.i + 1 \in 0 .. MAX
  BY MaxAssumption DEF Scans, ScanEnds
<1>2. (s.cur_offs + 1) % MAX \in Offsets
  <2>1. s.cur_offs + 1 \in Nat
    BY DEF Scans, Offsets
  <2> QED
    BY <2>1, ModRange
<1>3. s.bytes_counted + b.entry[s.cur_offs].size \in Nat
  BY DEF Scans, Buffers, Entries
<1> QED
  BY <1>1, <1>2, <1>3 DEF ScanNext, Scans

-----------------------------------------------------------------------------
\* A ring from which nothing is taken out keeps its shape.
LEMMA AdvanceShape ==
  ASSUME NEW Ptr, NEW b \in Buffers(Ptr), Shape(b)
  PROVE  Shape(Advance(b))
<1>1. b.full \in BOOLEAN
  BY DEF Buffers
<1>2. CASE b.full
  BY <1>2 DEF Shape, Advance, Buffers
<1>3. CASE ~b.full
  BY <1>3, <1>1 DEF Shape, Advance, Buffers
<1> QED
  BY <1>1, <1>2, <1>3

\* How many entries such a ring holds.
LEMMA ShapeCount ==
  ASSUME NEW Ptr, NEW b \in Buffers(Ptr), Shape(b)
  PROVE  /\ Count(b) = IF b.full THEN MAX ELSE b.in_offs
         /\ Count(b) \in 0 .. MAX
<1>1. b.in_offs \in Offsets /\ b.out_offs \in Offsets /\ b.full \in BOOLEAN
  BY DEF Buffers
<1>2. CASE b.full
  BY <1>2, MaxAssumption DEF Count
<1>3. CASE ~b.full
  <2>1. b.in_offs - b.out_offs = b.in_offs
    BY <1>1, <1>3, MaxAssumption DEF Shape, Offsets
  <2>2. Count(b) = b.in_offs
    BY <1>1, <1>3, <2>1, OffsetMod DEF Count
  <2> QED
    BY <1>1, <1>3, <2>2, MaxAssumption DEF Offsets
<1> QED
  BY <1>1, <1>2, <1>3

\* The slot of the i-th entry, without division.
LEMMA SlotIs ==
  ASSUME NEW Ptr, NEW b \in Buffers(Ptr), NEW i \in 0 .. MAX
  PROVE  /\ Slot(b, i) = IF b.out_offs + i < MAX THEN b.out_offs + i
                         ELSE b.out_offs + i - MAX
         /\ Slot(b, i) \in Offsets
<1>1. b.out_offs \in 0 .. MAX - 1 /\ MAX \in Nat /\ MAX > 0
  BY MaxAssumption DEF Buffers, Offsets
<1>2. CASE b.out_offs + i < MAX
  <2>1. b.out_offs + i \in Offsets
    BY <1>1, <1>2 DEF Offsets
  <2> QED
    BY <1>2, <2>1, OffsetMod DEF Slot
<1>3. CASE ~(b.out_offs + i < MAX)
  <2>1. b.out_offs + i \in MAX .. 2 * MAX - 1
    BY <1>1, <1>3
  <2>2. Slot(b, i) = b.out_offs + i - MAX
    BY <1>1, <2>1, WrapMod DEF Slot
  <2> QED
    BY <1>1, <1>3, <2>2 DEF Offsets
<1> QED
  BY <1>2, <1>3

LEMMA NextOffset ==
  ASSUME NEW x \in Offsets
  PROVE  /\ (x + 1) % MAX = IF x + 1 < MAX THEN x + 1 ELSE 0
         /\ (x + 1) % MAX \in Offsets
<1>1. MAX \in Nat /\ MAX > 0 /\ x \in 0 .. MAX - 1
  BY MaxAssumption DEF Offsets
<1>2. CASE x + 1 < MAX
  <2>1. x + 1 \in Offsets
    BY <1>1, <1>2 DEF Offsets
  <2> QED
    BY <1>2, <2>1, OffsetMod
<1>3. CASE ~(x + 1 < MAX)
  <2>1. x + 1 \in MAX .. 2 * MAX - 1 /\ x + 1 - MAX = 0
    BY <1>1, <1>3
  <2> QED
    BY <1>1, <1>3, <2>1, WrapMod DEF Offsets
<1> QED
  BY <1>2, <1>3

-----------------------------------------------------------------------------
\* A sequence known element by element is an Append, or an Append to a Tail.
LEMMA IsAppend ==
  ASSUME NEW S, NEW w \in Seq(S), NEW v \in Seq(S), NEW e \in S,
         Len(v) = Len(w) + 1,
         \A k \in 1 .. Len(w) : v[k] = w[k],
         v[Len(w) + 1] = e
  PROVE  v = Append(w, e)
<1> DEFINE x == Append(w, e)
<1>1. /\ x \in Seq(S) /\ Len(x) = Len(w) + 1
      /\ \A k \in 1 .. Len(w) : x[k] = w[k]
      /\ x[Len(w) + 1] = e
  OBVIOUS
<1> HIDE DEF x
<1>2. Len(w) \in Nat
  BY LenProperties
<1>3. \A k \in 1 .. Len(v) : v[k] = x[k]
  BY <1>1, <1>2
<1>4. v = x
  BY <1>1, <1>3, SeqEqual, ZenonT(30)
<1> QED
  BY <1>4 DEF x

LEMMA IsAppendTail ==
  ASSUME NEW S, NEW w \in Seq(S), NEW v \in Seq(S), NEW e \in S,
         Len(v) = Len(w), Len(w) # 0,
         \A k \in 1 .. Len(w) - 1 : v[k] = w[k + 1],
         v[Len(w)] = e
  PROVE  v = Append(Tail(w), e)
<1> DEFINE x == Tail(w)
<1>1. w # << >>
  BY EmptySeq
<1>2. /\ x \in Seq(S) /\ Len(x) = Len(w) - 1
      /\ \A k \in 1 .. Len(x) : x[k] = w[k + 1]
  BY <1>1, HeadTailProperties, ZenonT(30)
<1> HIDE DEF x
<1>3. Len(w) \in Nat
  BY LenProperties
<1>4. /\ Len(v) = Len(x) + 1 /\ v[Len(x) + 1] = e
      /\ \A k \in 1 .. Len(x) : v[k] = x[k]
  BY <1>2, <1>3
<1>5. v = Append(x, e)
  BY <1>2, <1>4, IsAppend
<1> QED
  BY <1>5 DEF x

-----------------------------------------------------------------------------
\* Refinement of the ring to a window: writing slot in_offs and moving the
\* offsets appends to what is read in order, and drops the oldest entry exactly
\* when there are MAX.  g is anything kept per slot.
LEMMA PushInOrder ==
  ASSUME NEW Ptr, NEW b \in Buffers(Ptr), Shape(b),
         NEW S, NEW g \in [Offsets -> S], NEW e \in S, NEW h \in [Offsets -> S],
         \A s \in Offsets : h[s] = IF s = b.in_offs THEN e ELSE g[s]
  PROVE  InOrder(Advance(b), h) = Push(InOrder(b, g), e)
<1> DEFINE a == Advance(b)
           w == InOrder(b, g)
           v == InOrder(a, h)
<1>1. b.in_offs \in Offsets /\ b.out_offs \in Offsets /\ b.full \in BOOLEAN
      /\ MAX \in Nat /\ MAX > 0
  BY MaxAssumption DEF Buffers
<1>2. a \in Buffers(Ptr) /\ Shape(a)
  BY AdvanceType, AdvanceShape
<1>3. /\ Count(b) = IF b.full THEN MAX ELSE b.in_offs
      /\ Count(a) = IF a.full THEN MAX ELSE a.in_offs
      /\ Count(b) \in 0 .. MAX /\ Count(a) \in 0 .. MAX
  BY <1>2, ShapeCount
<1>4. /\ a.in_offs = IF b.in_offs + 1 < MAX THEN b.in_offs + 1 ELSE 0
      /\ a.out_offs = IF b.full
                      THEN IF b.out_offs + 1 < MAX THEN b.out_offs + 1 ELSE 0
                      ELSE b.out_offs
      /\ a.full <=> b.full \/ a.in_offs = a.out_offs
  BY <1>1, NextOffset DEF Advance, Buffers
<1>5. /\ w = [k \in 1 .. Count(b) |-> g[Slot(b, k - 1)]]
      /\ w \in Seq(S) /\ Len(w) = Count(b)
  <2>1. \A k \in 1 .. Count(b) : Slot(b, k - 1) \in Offsets
    BY <1>1, <1>3, SlotIs
  <2>2. w = [k \in 1 .. Count(b) |-> g[Slot(b, k - 1)]]
    BY DEF InOrder
  <2>3. w \in [1 .. Count(b) -> S] /\ Count(b) \in Nat
    BY <1>3, <2>1, <2>2
  <2> HIDE DEF w
  <2> QED
    BY <2>2, <2>3
<1>8. /\ v = [k \in 1 .. Count(a) |-> h[Slot(a, k - 1)]]
      /\ v \in Seq(S) /\ Len(v) = Count(a)
  <2>1. \A k \in 1 .. Count(a) : Slot(a, k - 1) \in Offsets
    BY <1>1, <1>2, <1>3, SlotIs
  <2>2. h \in [Offsets -> S]
    BY <1>1
  <2> HIDE DEF a
  <2>3. v = [k \in 1 .. Count(a) |-> h[Slot(a, k - 1)]]
    BY DEF InOrder
  <2>4. v \in [1 .. Count(a) -> S] /\ Count(a) \in Nat
    BY <1>3, <2>1, <2>2, <2>3
  <2> HIDE DEF v
  <2> QED
    BY <2>3, <2>4
<1>6. CASE ~b.full
  <2>1. Count(a) = Count(b) + 1 /\ Count(b) < MAX /\ b.out_offs = 0
        /\ a.out_offs = 0 /\ b.in_offs = Count(b)
    BY <1>1, <1>3, <1>4, <1>6 DEF Shape, Offsets
  <2>2. ASSUME NEW k \in 1 .. Count(b)
        PROVE  Slot(b, k - 1) = k - 1 /\ Slot(a, k - 1) = k - 1
    <3>1. k - 1 \in 0 .. MAX /\ k - 1 < MAX
      BY <1>1, <1>3
    <3>2. /\ Slot(b, k - 1) = IF b.out_offs + (k - 1) < MAX THEN b.out_offs + (k - 1)
                              ELSE b.out_offs + (k - 1) - MAX
          /\ Slot(a, k - 1) = IF a.out_offs + (k - 1) < MAX THEN a.out_offs + (k - 1)
                              ELSE a.out_offs + (k - 1) - MAX
      BY <1>2, <3>1, SlotIs
    <3> QED
      BY <2>1, <3>1, <3>2
  <2>3. Slot(a, Count(a) - 1) = Count(b)
    BY <1>1, <1>2, <1>3, <2>1, SlotIs
  <2>4. \A k \in 1 .. Count(b) : v[k] = w[k]
    <3>1. ASSUME NEW k \in 1 .. Count(b) PROVE h[k - 1] = g[k - 1]
      <4>1. k - 1 \in Offsets /\ k - 1 # b.in_offs
        BY <1>1, <1>3, <2>1 DEF Offsets
      <4> QED
        BY <4>1
    <3>2. ASSUME NEW k \in 1 .. Count(b) PROVE v[k] = h[k - 1]
      <4>1. k \in 1 .. Count(a)
        BY <1>3, <2>1
      <4> QED
        BY <1>8, <2>2, <4>1
    <3> QED
      BY <1>5, <2>2, <3>1, <3>2
  <2>5. v[Count(b) + 1] = e
    <3>1. Count(b) + 1 \in 1 .. Count(a)
      BY <1>3, <2>1
    <3>2. v[Count(b) + 1] = h[Count(b)]
      BY <1>8, <2>1, <2>3, <3>1
    <3> QED
      BY <1>1, <2>1, <3>2
  <2>6. Len(w) < MAX /\ Len(v) = Len(w) + 1 /\ Len(w) = Count(b)
    BY <1>5, <1>8, <2>1
  <2> HIDE DEF v, w
  <2>7. v = Append(w, e)
    <3>1. /\ \A k \in 1 .. Len(w) : v[k] = w[k]
          /\ v[Len(w) + 1] = e
      BY <2>4, <2>5, <2>6
    <3>2. v \in Seq(S) /\ w \in Seq(S) /\ e \in S
      BY <1>5, <1>8
    <3> QED
      BY <2>6, <3>1, <3>2, IsAppend
  <2> QED
    BY <2>6, <2>7 DEF Push, v, w
<1>7. CASE b.full
  <2>1. Count(a) = MAX /\ Count(b) = MAX /\ b.in_offs = b.out_offs
    BY <1>3, <1>4, <1>7 DEF Shape
  <2>2. \A k \in 1 .. MAX - 1 : /\ Slot(a, k - 1) = Slot(b, k)
                                /\ Slot(b, k) # b.in_offs
                                /\ Slot(b, k) \in Offsets
    <3>1. SUFFICES ASSUME NEW k \in 1 .. MAX - 1
                   PROVE  /\ Slot(a, k - 1) = Slot(b, k)
                          /\ Slot(b, k) # b.in_offs /\ Slot(b, k) \in Offsets
      OBVIOUS
    <3>2. k \in 0 .. MAX /\ k - 1 \in 0 .. MAX /\ k \in Nat
      BY <1>1
    <3>3. /\ Slot(b, k) = IF b.out_offs + k < MAX THEN b.out_offs + k
                          ELSE b.out_offs + k - MAX
          /\ Slot(b, k) \in Offsets
      BY <3>2, SlotIs
    <3>4. Slot(a, k - 1) = IF a.out_offs + (k - 1) < MAX THEN a.out_offs + (k - 1)
                           ELSE a.out_offs + (k - 1) - MAX
      BY <1>2, <3>2, SlotIs
    <3>5. b.out_offs \in 0 .. MAX - 1 /\ MAX \in Nat /\ k \in 1 .. MAX - 1
      BY <1>1 DEF Offsets
    <3>6. a.out_offs = IF b.out_offs + 1 < MAX THEN b.out_offs + 1 ELSE 0
      BY <1>4, <1>7
    <3> HIDE DEF a
    <3>7. CASE b.out_offs + 1 < MAX
      BY <2>1, <3>3, <3>4, <3>5, <3>6, <3>7
    <3>8. CASE ~(b.out_offs + 1 < MAX)
      BY <2>1, <3>3, <3>4, <3>5, <3>6, <3>8
    <3> QED
      BY <3>7, <3>8
  <2>3. Slot(a, MAX - 1) = b.in_offs
    <3>1. Slot(a, MAX - 1) = IF a.out_offs + (MAX - 1) < MAX
                             THEN a.out_offs + (MAX - 1)
                             ELSE a.out_offs + (MAX - 1) - MAX
      BY <1>1, <1>2, SlotIs
    <3> QED
      BY <1>1, <1>4, <1>7, <2>1, <3>1 DEF Offsets
  <2>4. \A k \in 1 .. MAX - 1 : v[k] = w[k + 1]
    <3>1. SUFFICES ASSUME NEW k \in 1 .. MAX - 1 PROVE v[k] = w[k + 1]
      OBVIOUS
    <3>2. k \in 1 .. Count(a) /\ k + 1 \in 1 .. Count(b) /\ k + 1 - 1 = k
      BY <1>1, <2>1
    <3>3. v[k] = h[Slot(b, k)]
      BY <1>8, <2>2, <3>2
    <3>4. w[k + 1] = g[Slot(b, k)]
      BY <1>5, <3>2
    <3>5. h[Slot(b, k)] = g[Slot(b, k)]
      BY <2>2
    <3> QED
      BY <3>3, <3>4, <3>5
  <2>5. v[MAX] = e
    <3>1. MAX \in 1 .. Count(a)
      BY <1>1, <2>1
    <3> QED
      BY <1>1, <1>8, <2>3, <3>1
  <2>6. Len(w) = MAX /\ Len(v) = MAX
    BY <1>5, <1>8, <2>1
  <2> HIDE DEF v, w
  <2>7. v = Append(Tail(w), e)
    <3>1. /\ Len(v) = Len(w) /\ Len(w) # 0
          /\ \A k \in 1 .. Len(w) - 1 : v[k] = w[k + 1]
          /\ v[Len(w)] = e
      BY <1>1, <2>4, <2>5, <2>6
    <3>2. v \in Seq(S) /\ w \in Seq(S) /\ e \in S
      BY <1>5, <1>8
    <3> QED
      BY <3>1, <3>2, IsAppendTail
  <2>8. ~(Len(w) < MAX)
    BY <1>1, <2>6
  <2> QED
    BY <2>7, <2>8 DEF Push, v, w
<1> QED
  BY <1>6, <1>7

\* The elements of a window after one more: all of them, but for the oldest if
\* there were MAX, and the new one at the end.
LEMMA PushElements ==
  ASSUME NEW S, NEW w \in Seq(S), NEW e \in S, Len(w) <= MAX,
         NEW v, v = Push(w, e)
  PROVE  /\ v \in Seq(S)
         /\ Len(v) = IF Len(w) < MAX THEN Len(w) + 1 ELSE Len(w)
         /\ \A k \in 1 .. Len(v) - 1 : v[k] = IF Len(w) < MAX THEN w[k] ELSE w[k + 1]
         /\ v[Len(v)] = e
<1>1. Len(w) \in Nat /\ MAX \in Nat /\ MAX > 0
  BY LenProperties, MaxAssumption
<1>2. CASE Len(w) < MAX
  <2>1. /\ Append(w, e) \in Seq(S) /\ Len(Append(w, e)) = Len(w) + 1
        /\ \A k \in 1 .. Len(w) : Append(w, e)[k] = w[k]
        /\ Append(w, e)[Len(w) + 1] = e
    OBVIOUS
  <2> QED
    BY <1>1, <1>2, <2>1 DEF Push
<1>3. CASE ~(Len(w) < MAX)
  <2> DEFINE x == Tail(w)
  <2>1. w # << >>
    BY <1>1, <1>3, EmptySeq
  <2>2. /\ x \in Seq(S) /\ Len(x) = Len(w) - 1
        /\ \A k \in 1 .. Len(x) : x[k] = w[k + 1]
    BY <2>1, HeadTailProperties, ZenonT(30)
  <2> HIDE DEF x
  <2>3. /\ Append(x, e) \in Seq(S) /\ Len(Append(x, e)) = Len(x) + 1
        /\ \A k \in 1 .. Len(x) : Append(x, e)[k] = x[k]
        /\ Append(x, e)[Len(x) + 1] = e
    BY <2>2
  <2>4. Push(w, e) = Append(x, e)
    BY <1>3 DEF Push, x
  <2> QED
    BY <1>1, <1>3, <2>2, <2>3, <2>4
<1> QED
  BY <1>2, <1>3

-----------------------------------------------------------------------------
\* The cursor of the scan steps from the slot of one entry to that of the next.
LEMMA SlotNext ==
  ASSUME NEW Ptr, NEW b \in Buffers(Ptr), NEW i \in 0 .. MAX - 1
  PROVE  (Slot(b, i) + 1) % MAX = Slot(b, i + 1)
<1>1. MAX \in Nat /\ MAX > 0 /\ i \in 0 .. MAX /\ i + 1 \in 0 .. MAX
      /\ b.out_offs \in 0 .. MAX - 1
  BY MaxAssumption DEF Buffers, Offsets
<1>2. /\ Slot(b, i) = IF b.out_offs + i < MAX THEN b.out_offs + i
                      ELSE b.out_offs + i - MAX
      /\ Slot(b, i) \in Offsets
  BY <1>1, SlotIs
<1>3. Slot(b, i + 1) = IF b.out_offs + (i + 1) < MAX THEN b.out_offs + (i + 1)
                       ELSE b.out_offs + (i + 1) - MAX
  BY <1>1, SlotIs
<1>4. (Slot(b, i) + 1) % MAX = IF Slot(b, i) + 1 < MAX THEN Slot(b, i) + 1 ELSE 0
  BY <1>2, NextOffset
<1> QED
  BY <1>1, <1>2, <1>3, <1>4

\* The two exits of the loop together mean: every entry has been looked at.
LEMMA ScanEndsAtCount ==
  ASSUME NEW Ptr, NEW b \in Buffers(Ptr), Shape(b), NEW s \in Scans,
         s.i <= Count(b), s.cur_offs = Slot(b, s.i)
  PROVE  ScanEnds(b, s) <=> s.i = Count(b)
<1>1. /\ b.full \in BOOLEAN /\ b.in_offs \in 0 .. MAX - 1 /\ s.i \in 0 .. MAX
      /\ MAX \in Nat /\ MAX > 0
  BY MaxAssumption DEF Buffers, Offsets, Scans
<1>2. Count(b) = IF b.full THEN MAX ELSE b.in_offs
  BY ShapeCount
<1>3. CASE b.full
  BY <1>1, <1>2, <1>3 DEF ScanEnds
<1>4. CASE ~b.full
  <2>1. b.out_offs = 0
    BY <1>4 DEF Shape
  <2>2. Slot(b, s.i) = IF b.out_offs + s.i < MAX THEN b.out_offs + s.i
                       ELSE b.out_offs + s.i - MAX
    BY <1>1, SlotIs
  <2>3. s.cur_offs = s.i /\ s.i # MAX
    BY <1>1, <1>2, <1>4, <2>1, <2>2
  <2> QED
    BY <1>2, <1>4, <2>3 DEF ScanEnds
<1> QED
  BY <1>1, <1>3, <1>4
=============================================================================
