---------------------------- MODULE RingUseProofs ---------------------------
(* Whatever is added to the ring, and however large it is, it holds the last *)
(* writes in order, knows when it is empty, and finds the byte at any offset *)
(* of the text they make.                                                    *)
EXTENDS RingUse, CircularBufferProofs, WellFoundedInduction

Pointers == Nat \cup {NULL}

\* What a call of add_entry leaves intact: the last writes in order, and the
\* offsets a ring has from which nothing is ever taken out, without which the
\* entry that is overwritten need not be the oldest.
RingInv == TypeOK /\ Shape(buffer) /\ WindowIsLastWrites

-----------------------------------------------------------------------------
\* The end of a sequence, element by element.
LEMMA EndOfIs ==
  ASSUME NEW S, NEW s \in Seq(S)
  PROVE  /\ EndOf(s) \in Seq(S)
         /\ Len(EndOf(s)) = IF Len(s) > MAX THEN MAX ELSE Len(s)
         /\ \A k \in 1 .. Len(EndOf(s)) : EndOf(s)[k] = s[k + (Len(s) - Len(EndOf(s)))]
<1> DEFINE n == Len(s)
           first == IF n > MAX THEN n - MAX + 1 ELSE 1
           x == SubSeq(s, first, n)
<1>1. n \in Nat /\ MAX \in Nat /\ MAX > 0
  BY LenProperties, MaxAssumption
<1>2. first \in Int /\ first >= 1 /\ n - first + 1 = IF n > MAX THEN MAX ELSE n
  BY <1>1
<1>3. \A i \in first .. n : s[i] \in S
  BY <1>1, <1>2, ElementOfSeq
<1> HIDE DEF first
<1>4. /\ x \in Seq(S)
      /\ Len(x) = IF first <= n THEN n - first + 1 ELSE 0
      /\ \A k \in 1 .. n - first + 1 : x[k] = s[first + k - 1]
  BY <1>1, <1>2, <1>3, SubSeqProperties
<1> HIDE DEF x, n
<1>5. Len(x) = n - first + 1
  BY <1>1, <1>2, <1>4
<1>6. \A k \in 1 .. Len(x) : x[k] = s[k + (n - Len(x))]
  <2> TAKE k \in 1 .. Len(x)
  <2>1. k \in Int /\ first + k - 1 = k + (n - Len(x))
    BY <1>1, <1>2, <1>5
  <2> QED
    BY <1>4, <1>5, <2>1
<1> QED
  BY <1>2, <1>4, <1>5, <1>6 DEF EndOf, x, first, n

\* One more element pushes the end of the sequence.
LEMMA EndOfPush ==
  ASSUME NEW S, NEW s \in Seq(S), NEW e \in S
  PROVE  EndOf(Append(s, e)) = Push(EndOf(s), e)
<1> DEFINE n == Len(s)
           t == Append(s, e)
           w == EndOf(s)
           v == EndOf(t)
<1>1. n \in Nat /\ MAX \in Nat /\ MAX > 0
  BY LenProperties, MaxAssumption
<1>2. /\ t \in Seq(S) /\ Len(t) = n + 1 /\ t[n + 1] = e
      /\ \A k \in 1 .. n : t[k] = s[k]
  OBVIOUS
<1> HIDE DEF t
<1>3. /\ w \in Seq(S) /\ Len(w) = IF n > MAX THEN MAX ELSE n
      /\ \A k \in 1 .. Len(w) : w[k] = s[k + (n - Len(w))]
  BY EndOfIs
<1>4. /\ v \in Seq(S) /\ Len(v) = IF n + 1 > MAX THEN MAX ELSE n + 1
      /\ \A k \in 1 .. Len(v) : v[k] = t[k + (n + 1 - Len(v))]
  <2>1. /\ v \in Seq(S) /\ Len(v) = IF Len(t) > MAX THEN MAX ELSE Len(t)
        /\ \A k \in 1 .. Len(v) : v[k] = t[k + (Len(t) - Len(v))]
    BY <1>2, EndOfIs
  <2> QED
    BY <1>2, <2>1
<1> HIDE DEF v, w, n
<1>5. v[Len(v)] = e
  <2>1. Len(v) \in 1 .. Len(v) /\ Len(v) + (n + 1 - Len(v)) = n + 1
    BY <1>1, <1>4
  <2> QED
    BY <1>2, <1>4, <2>1
<1>6. CASE n < MAX
  <2>1. Len(w) = n /\ Len(v) = n + 1
    BY <1>1, <1>3, <1>4, <1>6
  <2>2. \A k \in 1 .. Len(w) : v[k] = w[k]
    <3> TAKE k \in 1 .. Len(w)
    <3>1. k + (n - Len(w)) = k /\ k + (n + 1 - Len(v)) = k
      BY <1>1, <2>1
    <3>2. k \in 1 .. n /\ k \in 1 .. Len(v)
      BY <1>1, <2>1
    <3> QED
      BY <1>2, <1>3, <1>4, <3>1, <3>2
  <2>3. w \in Seq(S) /\ v \in Seq(S) /\ Len(v) = Len(w) + 1 /\ v[Len(w) + 1] = e
    BY <1>3, <1>4, <1>5, <2>1
  <2>4. v = Append(w, e)
    BY <2>2, <2>3, IsAppend
  <2>5. Len(w) < MAX
    BY <1>6, <2>1
  <2> QED
    BY <2>4, <2>5 DEF Push, t, v, w
<1>7. CASE n >= MAX
  <2>1. Len(w) = MAX /\ Len(v) = MAX
    BY <1>1, <1>3, <1>4, <1>7
  <2>2. \A k \in 1 .. Len(w) - 1 : v[k] = w[k + 1]
    <3> TAKE k \in 1 .. Len(w) - 1
    <3>1. (k + 1) + (n - Len(w)) = k + (n + 1 - Len(v))
      BY <1>1, <2>1
    <3>2. /\ k + 1 \in 1 .. Len(w) /\ k \in 1 .. Len(v)
          /\ (k + 1) + (n - Len(w)) \in 1 .. n
      BY <1>1, <1>7, <2>1
    <3>3. w[k + 1] = s[(k + 1) + (n - Len(w))]
      BY <1>3, <3>2
    <3>4. v[k] = t[(k + 1) + (n - Len(w))]
      BY <1>4, <3>1, <3>2
    <3> QED
      BY <1>2, <3>2, <3>3, <3>4
  <2>3. /\ w \in Seq(S) /\ v \in Seq(S)
        /\ Len(v) = Len(w) /\ Len(w) # 0 /\ v[Len(w)] = e
    BY <1>1, <1>3, <1>4, <1>5, <2>1
  <2>4. v = Append(Tail(w), e)
    BY <2>2, <2>3, IsAppendTail
  <2>5. ~(Len(w) < MAX)
    BY <1>1, <2>1
  <2> QED
    BY <2>4, <2>5 DEF Push, t, v, w
<1> QED
  BY <1>1, <1>6, <1>7

\* add_entry pushes the window of the ring.
LEMMA AddPushes ==
  ASSUME NEW b \in Buffers(Pointers), Shape(b), NEW e \in Entries(Pointers)
  PROVE  /\ AddEntry(b, e) \in Buffers(Pointers) /\ Shape(AddEntry(b, e))
         /\ Window(AddEntry(b, e)) = Push(Window(b), e)
<1> DEFINE c == Store(b, e)
<1>1. /\ c \in Buffers(Pointers) /\ Shape(c)
      /\ InOrder(c, b.entry) = InOrder(b, b.entry)
      /\ c.in_offs = b.in_offs
  BY StoreType DEF Store, Shape, InOrder, Slot, Count, Buffers
<1>2. \A s \in Offsets : c.entry[s] = IF s = c.in_offs THEN e ELSE b.entry[s]
  BY DEF Store, Buffers
<1>3. c.entry \in [Offsets -> Entries(Pointers)] /\ b.entry \in [Offsets -> Entries(Pointers)]
  BY <1>1 DEF Buffers
<1>4. Advance(c).entry = c.entry
  BY <1>1 DEF Advance, Buffers
<1> HIDE DEF c
<1>5. InOrder(Advance(c), c.entry) = Push(InOrder(c, b.entry), e)
  BY <1>1, <1>2, <1>3, PushInOrder
<1>6. Advance(c) \in Buffers(Pointers) /\ Shape(Advance(c))
  BY <1>1, AdvanceType, AdvanceShape
<1> QED
  BY <1>1, <1>4, <1>5, <1>6 DEF AddEntry, Window, c

-----------------------------------------------------------------------------
LEMMA EmptyRing ==
  ASSUME buffer = InitBuffer, log = << >> PROVE RingInv
<1>1. InitBuffer \in Buffers(Pointers) /\ Shape(InitBuffer)
  BY MaxAssumption DEF InitBuffer, Buffers, Offsets, Entries, Pointers, Shape
<1>2. Count(InitBuffer) = 0
  BY <1>1, ShapeCount DEF InitBuffer
<1>3. Window(InitBuffer) = << >>
  BY <1>2 DEF Window, InOrder
<1>4. EndOf(<< >>) = << >>
  <2>1. << >> \in Seq({}) /\ Len(<< >>) = 0 /\ ~(0 > MAX)
    BY MaxAssumption
  <2>2. EndOf(<< >>) \in Seq({}) /\ Len(EndOf(<< >>)) = 0
    BY <2>1, EndOfIs
  <2> QED
    BY <2>2, EmptySeq
<1> QED
  BY <1>1, <1>3, <1>4 DEF RingInv, TypeOK, WindowIsLastWrites, LastWrites, Pointers

LEMMA AddKeeps ==
  ASSUME RingInv, NEW n \in Sizes, Add(n) PROVE RingInv'
<1> DEFINE e == [buffptr |-> Len(log) + 1, size |-> n]
<1>1. /\ buffer \in Buffers(Pointers) /\ Shape(buffer) /\ log \in Seq(Entries(Nat))
      /\ Window(buffer) = EndOf(log)
  BY DEF RingInv, TypeOK, WindowIsLastWrites, LastWrites, Pointers
<1>2. e \in Entries(Nat) /\ e \in Entries(Pointers)
  BY <1>1, LenProperties, RingUseAssumption DEF Entries, Pointers
<1>3. buffer' = AddEntry(buffer, e) /\ log' = Append(log, e)
  BY DEF Add
<1> HIDE DEF e
<1>4. /\ buffer' \in Buffers(Pointers) /\ Shape(buffer')
      /\ Window(buffer') = Push(Window(buffer), e)
  BY <1>1, <1>2, <1>3, AddPushes
<1>5. log' \in Seq(Entries(Nat)) /\ EndOf(log') = Push(EndOf(log), e)
  BY <1>1, <1>2, <1>3, EndOfPush
<1> QED
  BY <1>1, <1>4, <1>5 DEF RingInv, TypeOK, WindowIsLastWrites, LastWrites, Pointers

LEMMA RingInvariance == Spec => []RingInv
<1>1. Init => RingInv
  BY EmptyRing DEF Init
<1>2. ASSUME RingInv, [Next]_vars PROVE RingInv'
  <2>1. CASE Reinit
    <3>1. (buffer = InitBuffer /\ log = << >>)' => RingInv'
      BY EmptyRing, PTL
    <3> QED
      BY <2>1, <3>1 DEF Reinit
  <2>2. ASSUME NEW n \in Sizes, Add(n) PROVE RingInv'
    BY <1>2, <2>2, AddKeeps
  <2>3. CASE UNCHANGED vars
    BY <1>2, <2>3 DEF vars, RingInv, TypeOK, WindowIsLastWrites, LastWrites
  <2> QED
    BY <1>2, <2>1, <2>2, <2>3 DEF Next
<1> QED
  BY <1>1, <1>2, PTL DEF Spec

-----------------------------------------------------------------------------
\* Both offsets index the array, whatever its size and however often they have
\* wrapped.
THEOREM TypeCorrect == Spec => []TypeOK
<1>1. RingInv => TypeOK
  BY DEF RingInv
<1> QED
  BY <1>1, RingInvariance, PTL

\* A ring of any size holds exactly the last MAX entries added, oldest first,
\* after any number of calls.
THEOREM LastWritesKept == Spec => []WindowIsLastWrites
<1>1. RingInv => WindowIsLastWrites
  BY DEF RingInv
<1> QED
  BY <1>1, RingInvariance, PTL

\* A ring is taken for empty exactly when nothing was added to it.
THEOREM EmptyKnown == Spec => []EmptyIffUnused
<1>1. ASSUME RingInv PROVE EmptyIffUnused
  <2>1. /\ buffer \in Buffers(Pointers) /\ Shape(buffer) /\ log \in Seq(Entries(Nat))
        /\ Window(buffer) = EndOf(log)
    BY <1>1 DEF RingInv, TypeOK, WindowIsLastWrites, LastWrites, Pointers
  <2>2. /\ Count(buffer) = IF buffer.full THEN MAX ELSE buffer.in_offs
        /\ Count(buffer) \in Nat /\ MAX \in Nat /\ MAX > 0
    BY <2>1, ShapeCount, MaxAssumption
  <2>3. Len(Window(buffer)) = Count(buffer)
    BY <2>2 DEF Window, InOrder
  <2>4. Count(buffer) = 0 <=> Len(log) = 0
    BY <2>1, <2>2, <2>3, EndOfIs, LenProperties
  <2>5. IsEmpty(buffer) <=> Count(buffer) = 0
    BY <2>1, <2>2 DEF IsEmpty, Shape, Buffers
  <2> QED
    BY <2>1, <2>4, <2>5, EmptySeq DEF EmptyIffUnused
<1> QED
  BY <1>1, RingInvariance, PTL

-----------------------------------------------------------------------------
(* Recursion.  Induction is taken from WFMin and stated of sets, which the   *)
(* provers can instantiate.                                                  *)
LEMMA Least ==
  ASSUME NEW T, T \subseteq Nat, T # {}
  PROVE  Min(T) \in T /\ \A y \in T : Min(T) <= y
<1> DEFINE R == OpToRel(<, Nat)
<1>1. IsWellFoundedOn(R, Nat)
  BY NatLessThanWellFounded
<1>2. R = {ss \in Nat \X Nat : ss[1] < ss[2]}
  BY DEF OpToRel
<1>3. \A x, y \in Nat : <<x, y>> \in R <=> x < y
  BY <1>2
<1> HIDE DEF R
<1>4. PICK x \in T : \A y \in T : ~ (<<y, x>> \in R)
  BY <1>1, WFMin
<1>5. ASSUME NEW y \in T PROVE x <= y
  <2>1. x \in Nat /\ y \in Nat /\ ~ (<<y, x>> \in R)
    BY <1>4
  <2>2. ~ (y < x)
    BY <1>3, <2>1
  <2> QED
    BY <2>1, <2>2
<1> QED
  BY <1>4, <1>5 DEF Min

LEMMA SetInduction ==
  ASSUME NEW S, 0 \in S, \A n \in Nat : n \in S => n + 1 \in S
  PROVE  Nat \subseteq S
<1> SUFFICES ASSUME Nat \ S # {} PROVE FALSE
  OBVIOUS
<1> DEFINE x == Min(Nat \ S)
<1>1. x \in Nat /\ x \notin S /\ \A y \in Nat \ S : x <= y
  BY Least
<1> HIDE DEF x
<1>2. x - 1 \in Nat /\ ~ (x <= x - 1)
  BY <1>1
<1>3. (x - 1) + 1 \in S
  BY <1>1, <1>2
<1> QED
  BY <1>1, <1>3

\* f is given by its start and its step.
Run(f, n, X, x, step) == /\ f \in [0 .. n -> X] /\ f[0] = x
                         /\ \A i \in 1 .. n : f[i] = step[<<i, f[i - 1]>>]

LEMMA Recursion ==
  ASSUME NEW X, NEW x \in X, NEW step \in [Nat \X X -> X], NEW n \in Nat
  PROVE  \E f : Run(f, n, X, x, step)
<1> DEFINE S == {m \in Nat : \E f : Run(f, m, X, x, step)}
<1>1. 0 \in S
  <2>1. Run([i \in 0 .. 0 |-> x], 0, X, x, step)
    BY DEF Run
  <2> QED
    BY <2>1
<1>2. ASSUME NEW m \in Nat, m \in S PROVE m + 1 \in S
  <2>1. PICK f : Run(f, m, X, x, step)
    BY <1>2
  <2> DEFINE y == step[<<m + 1, f[m]>>]
             g == [i \in 0 .. m + 1 |-> IF i = m + 1 THEN y ELSE f[i]]
  <2>2. f[m] \in X /\ y \in X
    BY <2>1 DEF Run
  <2>3. g \in [0 .. m + 1 -> X]
    BY <2>1, <2>2 DEF Run
  <2>4. g[0] = x
    BY <2>1 DEF Run
  <2>5. ASSUME NEW i \in 1 .. m + 1 PROVE g[i] = step[<<i, g[i - 1]>>]
    <3>1. i - 1 \in 0 .. m /\ g[i - 1] = f[i - 1]
      OBVIOUS
    <3>2. CASE i = m + 1
      <4>1. g[i] = y /\ i - 1 = m
        BY <3>2
      <4> QED
        BY <3>1, <3>2, <4>1
    <3>3. CASE i \in 1 .. m
      BY <2>1, <3>1, <3>3 DEF Run
    <3> QED
      BY <3>2, <3>3
  <2> HIDE DEF g
  <2>6. Run(g, m + 1, X, x, step)
    BY <2>3, <2>4, <2>5 DEF Run
  <2> QED
    BY <2>6
<1>3. Nat \subseteq S
  <2> HIDE DEF S
  <2> QED
    BY <1>1, <1>2, SetInduction
<1>4. n \in S
  BY <1>3
<1> QED
  BY <1>4

-----------------------------------------------------------------------------
(* The loop of find_entry_offset_for_fpos, for every ring.                   *)
Turn == [i : Nat, cur_offs : Offsets, bytes_counted : Nat]

LEMMA TurnType ==
  ASSUME NEW b \in Buffers(Pointers)
  PROVE  ScanStart(b) \in Turn /\ \A s \in Turn : ScanNext(b, s) \in Turn
<1>1. ScanStart(b) \in Turn
  BY DEF ScanStart, Turn, Buffers
<1>2. ASSUME NEW s \in Turn PROVE ScanNext(b, s) \in Turn
  <2>1. s.i \in Nat /\ s.cur_offs \in Offsets /\ s.bytes_counted \in Nat
    BY DEF Turn
  <2>2. s.i + 1 \in Nat /\ (s.cur_offs + 1) % MAX \in Offsets
    BY <2>1, NextOffset
  <2>3. s.bytes_counted + b.entry[s.cur_offs].size \in Nat
    BY <2>1 DEF Buffers, Entries
  <2> QED
    BY <2>2, <2>3 DEF ScanNext, Turn
<1> QED
  BY <1>1, <1>2

\* The turns of the loop, and what is answered from them.
Stops(b, off, l) == {i \in 0 .. MAX : ScanEnds(b, l[i]) \/ ScanHits(b, l[i], off)}

Answer(b, off, s) == IF ScanEnds(b, s) THEN NULL
                     ELSE [entry |-> b.entry[s.cur_offs], offset |-> off - s.bytes_counted]

Turns(b, off, l) == /\ l \in [0 .. MAX -> Turn]
                    /\ l[0] = ScanStart(b)
                    /\ \A i \in 1 .. MAX : l[i] = ScanNext(b, l[i - 1])
                    /\ FindEntry(b, off) = Answer(b, off, l[Min(Stops(b, off, l))])

LEMMA LoopTurns ==
  ASSUME NEW b \in Buffers(Pointers), NEW off
  PROVE  \E l : Turns(b, off, l)
<1> DEFINE Body(l) == [i \in 0 .. MAX |-> IF i = 0 THEN ScanStart(b) ELSE ScanNext(b, l[i - 1])]
           loop == CHOOSE l : l = Body(l)
           step == [p \in Nat \X Turn |-> ScanNext(b, p[2])]
<1>1. MAX \in Nat
  BY MaxAssumption
<1>2. step \in [Nat \X Turn -> Turn]
  BY TurnType
<1>3. \A i \in Nat, s \in Turn : step[<<i, s>>] = ScanNext(b, s)
  OBVIOUS
<1> HIDE DEF step
<1>4. PICK f : Run(f, MAX, Turn, ScanStart(b), step)
  BY <1>1, <1>2, TurnType, Recursion, Zenon
<1>5. /\ f \in [0 .. MAX -> Turn] /\ f[0] = ScanStart(b)
      /\ \A i \in 1 .. MAX : f[i] = step[<<i, f[i - 1]>>]
  BY <1>4 DEF Run
<1>6. ASSUME NEW i \in 1 .. MAX PROVE f[i] = ScanNext(b, f[i - 1])
  <2>1. i \in Nat /\ i - 1 \in 0 .. MAX
    BY <1>1
  <2>2. f[i - 1] \in Turn
    BY <1>5, <2>1
  <2>3. f[i] = step[<<i, f[i - 1]>>]
    BY <1>5
  <2> QED
    BY <1>3, <2>1, <2>2, <2>3
<1>7. f = Body(f)
  <2>1. ASSUME NEW i \in 0 .. MAX
        PROVE  f[i] = IF i = 0 THEN ScanStart(b) ELSE ScanNext(b, f[i - 1])
    <3>1. i # 0 => i \in 1 .. MAX
      BY <1>1
    <3> QED
      BY <1>5, <1>6, <3>1
  <2> QED
    BY <1>5, <2>1
<1>8. loop = Body(loop)
  <2> HIDE DEF Body
  <2> QED
    BY <1>7
<1>9. FindEntry(b, off) = Answer(b, off, loop[Min(Stops(b, off, loop))])
  BY DEF FindEntry, Answer, Stops
<1> HIDE DEF loop
<1>10. loop[0] = ScanStart(b) /\ \A i \in 1 .. MAX : loop[i] = ScanNext(b, loop[i - 1])
  <2>1. \A i \in 0 .. MAX : loop[i] = IF i = 0 THEN ScanStart(b) ELSE ScanNext(b, loop[i - 1])
    BY <1>8
  <2>2. 0 \in 0 .. MAX /\ \A i \in 1 .. MAX : i \in 0 .. MAX /\ i # 0
    BY <1>1
  <2> QED
    BY <2>1, <2>2
<1>11. loop \in [0 .. MAX -> Turn]
  <2> DEFINE S == {i \in Nat : i <= MAX => loop[i] \in Turn}
  <2>1. 0 \in S
    BY <1>10, TurnType
  <2>2. ASSUME NEW i \in Nat, i \in S PROVE i + 1 \in S
    <3>1. SUFFICES ASSUME i + 1 <= MAX PROVE loop[i + 1] \in Turn
      OBVIOUS
    <3>2. i + 1 \in 1 .. MAX /\ (i + 1) - 1 = i /\ i <= MAX
      BY <1>1, <3>1
    <3>3. loop[i] \in Turn
      BY <2>2, <3>2
    <3>4. loop[i + 1] = ScanNext(b, loop[i])
      BY <1>10, <3>2
    <3> QED
      BY <3>3, <3>4, TurnType
  <2>3. Nat \subseteq S
    <3> HIDE DEF S
    <3> QED
      BY <2>1, <2>2, SetInduction
  <2>4. \A i \in 0 .. MAX : loop[i] \in Turn
    BY <1>1, <2>3
  <2> QED
    BY <1>8, <2>4
<1>12. Turns(b, off, loop)
  BY <1>9, <1>10, <1>11 DEF Turns
<1> QED
  BY <1>12

\* Concatenation, one sequence at a time.
Joined(text, S, seqs) ==
    /\ text \in [0 .. Len(seqs) -> Seq(S)]
    /\ text[0] = << >>
    /\ \A i \in 1 .. Len(seqs) : text[i] = text[i - 1] \o seqs[i]
    /\ FlattenSeq(seqs) = text[Len(seqs)]

LEMMA Flattened ==
  ASSUME NEW S, NEW seqs \in Seq(Seq(S))
  PROVE  \E text : Joined(text, S, seqs)
<1> DEFINE n == Len(seqs)
           Body(l) == [i \in 1 .. n |-> IF i = 1 THEN seqs[i] ELSE l[i - 1] \o seqs[i]]
           fl == CHOOSE l : l = Body(l)
           step == [p \in Nat \X Seq(S) |-> IF p[1] \in 1 .. n THEN p[2] \o seqs[p[1]] ELSE << >>]
<1>1. n \in Nat /\ << >> \in Seq(S) /\ \A i \in 1 .. n : seqs[i] \in Seq(S)
  BY EmptySeq
<1>2. FlattenSeq(seqs) = IF n = 0 THEN seqs ELSE fl[n]
  BY DEF FlattenSeq
<1>3. n = 0 => seqs = << >>
  BY EmptySeq
<1> HIDE DEF n
<1>4. ASSUME NEW i \in Nat, NEW s \in Seq(S) PROVE (IF i \in 1 .. n THEN s \o seqs[i] ELSE << >>) \in Seq(S)
  BY <1>1, ConcatProperties
<1>5. step \in [Nat \X Seq(S) -> Seq(S)]
  BY <1>4
<1>6. ASSUME NEW i \in 1 .. n, NEW s \in Seq(S) PROVE step[<<i, s>>] = s \o seqs[i]
  <2>1. <<i, s>> \in Nat \X Seq(S)
    BY <1>1
  <2> QED
    BY <2>1
<1> HIDE DEF step
<1>7. PICK f : Run(f, n, Seq(S), << >>, step)
  BY <1>1, <1>5, Recursion, Zenon
<1>8. /\ f \in [0 .. n -> Seq(S)] /\ f[0] = << >>
      /\ \A i \in 1 .. n : f[i] = step[<<i, f[i - 1]>>]
  BY <1>7 DEF Run
<1>9. ASSUME NEW i \in 1 .. n PROVE f[i] = f[i - 1] \o seqs[i]
  <2>1. f[i - 1] \in Seq(S)
    BY <1>1, <1>8
  <2> QED
    BY <1>6, <1>8, <2>1
<1>10. CASE n = 0
  <2>1. FlattenSeq(seqs) = f[n]
    BY <1>2, <1>3, <1>8, <1>10
  <2> QED
    BY <1>8, <1>9, <2>1 DEF n, Joined
<1>11. CASE n > 0
  <2> DEFINE g == [i \in 1 .. n |-> f[i]]
  <2>1. << >> \o seqs[1] = seqs[1]
    BY <1>1, <1>11, ConcatEmptySeq
  <2>2. g = Body(g)
    <3>1. ASSUME NEW i \in 1 .. n PROVE f[i] = IF i = 1 THEN seqs[i] ELSE g[i - 1] \o seqs[i]
      <4>1. CASE i = 1
        <5>1. f[i] = f[i - 1] \o seqs[i]
          BY <1>9
        <5>2. i - 1 = 0
          BY <4>1
        <5> QED
          BY <1>8, <2>1, <4>1, <5>1, <5>2
      <4>2. CASE i # 1
        <5>1. i - 1 \in 1 .. n
          BY <1>1, <4>2
        <5>2. g[i - 1] = f[i - 1]
          BY <5>1
        <5> QED
          BY <1>9, <4>2, <5>2
      <4> QED
        BY <4>1, <4>2
    <3> QED
      BY <3>1
  <2>3. fl = Body(fl)
    <3> HIDE DEF Body, g
    <3> QED
      BY <2>2
  <2> HIDE DEF fl, g
  <2>4. fl[1] = seqs[1] /\ \A i \in 2 .. n : fl[i] = fl[i - 1] \o seqs[i]
    <3>1. \A i \in 1 .. n : fl[i] = IF i = 1 THEN seqs[i] ELSE fl[i - 1] \o seqs[i]
      BY <2>3
    <3>2. 1 \in 1 .. n /\ \A i \in 2 .. n : i \in 1 .. n /\ i # 1
      BY <1>1, <1>11
    <3> QED
      BY <3>1, <3>2
  <2> DEFINE U == {i \in Nat : i + 1 <= n => fl[i + 1] = f[i + 1]}
  <2>5. 0 \in U
    <3>1. 1 \in 1 .. n
      BY <1>1, <1>11
    <3>2. f[1] = f[1 - 1] \o seqs[1]
      BY <1>9, <3>1, Zenon
    <3>3. 1 - 1 = 0 /\ 0 + 1 = 1
      OBVIOUS
    <3>4. fl[1] = f[1]
      BY <1>8, <2>1, <2>4, <3>2, <3>3
    <3> QED
      BY <3>3, <3>4
  <2>6. ASSUME NEW i \in Nat, i \in U PROVE i + 1 \in U
    <3>1. SUFFICES ASSUME i + 2 <= n PROVE fl[i + 2] = f[i + 2]
      <4>1. (i + 1) + 1 = i + 2
        OBVIOUS
      <4> QED
        BY <4>1
    <3>2. i + 2 \in 2 .. n /\ i + 2 \in 1 .. n /\ (i + 2) - 1 = i + 1 /\ i + 1 <= n
      BY <1>1, <3>1
    <3>3. fl[i + 1] = f[i + 1]
      BY <2>6, <3>2
    <3>4. fl[i + 2] = fl[i + 1] \o seqs[i + 2]
      BY <2>4, <3>2
    <3>5. f[i + 2] = f[i + 1] \o seqs[i + 2]
      BY <1>9, <3>2
    <3> QED
      BY <3>3, <3>4, <3>5
  <2>7. Nat \subseteq U
    <3> HIDE DEF U
    <3> QED
      BY <2>5, <2>6, SetInduction
  <2>8. fl[n] = f[n]
    <3>1. n - 1 \in Nat /\ (n - 1) + 1 = n /\ n <= n
      BY <1>1, <1>11
    <3>2. n - 1 \in U
      BY <2>7, <3>1
    <3> QED
      BY <3>1, <3>2
  <2>9. FlattenSeq(seqs) = f[n]
    BY <1>2, <1>11, <2>8
  <2> QED
    BY <1>8, <1>9, <2>9 DEF n, Joined
<1> QED
  <2>1. n = 0 \/ n > 0
    BY <1>1
  <2> QED
    BY <1>10, <1>11, <2>1

\* A concatenation that goes on keeps what it has.
StartsWith(s, t) == Len(t) <= Len(s) /\ \A k \in 1 .. Len(t) : s[k] = t[k]

LEMMA Growing ==
  ASSUME NEW S, NEW n \in Nat, NEW seqs, NEW text \in [0 .. n -> Seq(S)],
         \A i \in 1 .. n : seqs[i] \in Seq(S) /\ text[i] = text[i - 1] \o seqs[i]
  PROVE  \A j \in 0 .. n : \A i \in 0 .. j : StartsWith(text[j], text[i])
<1> DEFINE P(i, j) == StartsWith(text[j], text[i])
           J == {j \in Nat : j <= n => \A i \in 0 .. j : P(i, j)}
<1>1. 0 \in J
  <2>1. Len(text[0]) \in Nat /\ \A i \in 0 .. 0 : i = 0
    OBVIOUS
  <2> QED
    BY <2>1 DEF StartsWith
<1>2. ASSUME NEW j \in Nat, j \in J PROVE j + 1 \in J
  <2> SUFFICES ASSUME j + 1 <= n, NEW i \in 0 .. j + 1 PROVE P(i, j + 1)
    OBVIOUS
  <2> DEFINE u == text[j]
             v == seqs[j + 1]
             w == text[j + 1]
  <2>1. j + 1 \in 1 .. n /\ (j + 1) - 1 = j /\ j \in 0 .. n
    OBVIOUS
  <2>2. u \in Seq(S) /\ v \in Seq(S) /\ w = u \o v
    BY <2>1
  <2> HIDE DEF u, v, w
  <2>3. /\ Len(w) = Len(u) + Len(v) /\ Len(u) \in Nat /\ Len(v) \in Nat
        /\ \A k \in 1 .. Len(u) + Len(v) : w[k] = IF k <= Len(u) THEN u[k] ELSE v[k - Len(u)]
    BY <2>2, ConcatProperties
  <2>4. Len(u) <= Len(w) /\ Len(w) \in Nat
    BY <2>3
  <2>5. ASSUME NEW k \in 1 .. Len(u) PROVE w[k] = u[k]
    <3>1. k \in 1 .. Len(u) + Len(v) /\ k <= Len(u)
      BY <2>3
    <3> QED
      BY <2>3, <3>1
  <2>6. CASE i = j + 1
    <3>1. text[i] = w
      BY <2>6 DEF w
    <3> QED
      BY <2>4, <3>1 DEF w, StartsWith
  <2>7. CASE i \in 0 .. j
    <3>1. P(i, j) /\ j <= n
      BY <1>2, <2>1, <2>7
    <3>2. Len(text[i]) <= Len(u) /\ \A k \in 1 .. Len(text[i]) : u[k] = text[i][k]
      BY <3>1 DEF u, StartsWith
    <3>3. Len(text[i]) \in Nat
      BY <2>1, <2>7
    <3>4. Len(text[i]) <= Len(w)
      BY <2>3, <2>4, <3>2, <3>3
    <3>5. ASSUME NEW k \in 1 .. Len(text[i]) PROVE w[k] = text[i][k]
      <4>1. k \in 1 .. Len(u)
        BY <2>3, <3>2, <3>3
      <4> QED
        BY <2>5, <3>2, <4>1
    <3> QED
      BY <3>4, <3>5 DEF w, StartsWith
  <2> QED
    BY <2>6, <2>7
<1>3. Nat \subseteq J
  <2> HIDE DEF J
  <2> QED
    BY <1>1, <1>2, SetInduction
<1>4. ASSUME NEW j \in 0 .. n, NEW i \in 0 .. j PROVE P(i, j)
  <2>1. j \in Nat /\ j <= n
    OBVIOUS
  <2>2. j \in J
    BY <1>3, <2>1
  <2> QED
    BY <2>1, <2>2
<1>5. \A j \in 0 .. n : \A i \in 0 .. j : StartsWith(text[j], text[i])
  BY <1>4
<1> HIDE DEF J, P
<1> QED
  BY <1>5

-----------------------------------------------------------------------------
(* What the loop has counted is the text it has passed.                      *)
Byte == [entry : Entries(Nat), offset : Nat]

Part(e) == [j \in 1 .. e.size |-> [entry |-> e, offset |-> j - 1]]

Parts == [k \in 1 .. Len(LastWrites) |-> Part(LastWrites[k])]

LEMMA LastWritesAre ==
  ASSUME RingInv
  PROVE  /\ LastWrites \in Seq(Entries(Nat)) /\ Len(LastWrites) = Count(buffer)
         /\ Count(buffer) \in 0 .. MAX
         /\ \A k \in 1 .. Count(buffer) : LastWrites[k] = buffer.entry[Slot(buffer, k - 1)]
<1>1. LastWrites \in Seq(Entries(Nat))
  BY EndOfIs DEF RingInv, TypeOK, LastWrites
<1>2. Count(buffer) \in 0 .. MAX
  BY ShapeCount DEF RingInv, TypeOK
<1>3. LastWrites = [k \in 1 .. Count(buffer) |-> buffer.entry[Slot(buffer, k - 1)]]
  BY DEF RingInv, WindowIsLastWrites, Window, InOrder
<1>4. Len(LastWrites) = Count(buffer)
  <2>1. Count(buffer) \in Nat /\ DOMAIN LastWrites = 1 .. Count(buffer)
    BY <1>2, <1>3, MaxAssumption
  <2>2. Len(LastWrites) \in Nat /\ DOMAIN LastWrites = 1 .. Len(LastWrites)
    BY <1>1
  <2> QED
    BY <2>1, <2>2
<1> QED
  BY <1>1, <1>2, <1>3, <1>4

LEMMA PartIs ==
  ASSUME NEW e \in Entries(Nat)
  PROVE  Part(e) \in Seq(Byte) /\ Len(Part(e)) = e.size /\ e.size \in Nat
<1>1. e.size \in Nat
  BY DEF Entries
<1>2. ASSUME NEW j \in 1 .. e.size PROVE [entry |-> e, offset |-> j - 1] \in Byte
  <2>1. j - 1 \in Nat
    BY <1>1
  <2> QED
    BY <2>1 DEF Byte
<1>3. Part(e) \in [1 .. e.size -> Byte]
  BY <1>2 DEF Part
<1> QED
  BY <1>1, <1>3, SeqDef, LenProperties

LEMMA PartsAre ==
  ASSUME RingInv
  PROVE  /\ Parts \in Seq(Seq(Byte)) /\ Len(Parts) = Count(buffer)
         /\ Bytes = FlattenSeq(Parts)
<1>1. /\ LastWrites \in Seq(Entries(Nat)) /\ Len(LastWrites) = Count(buffer)
      /\ Count(buffer) \in Nat
  BY LastWritesAre, MaxAssumption
<1>2. \A k \in 1 .. Count(buffer) : LastWrites[k] \in Entries(Nat)
  BY <1>1
<1>3. \A k \in 1 .. Count(buffer) : Part(LastWrites[k]) \in Seq(Byte)
  BY <1>2, PartIs
<1>4. Parts \in [1 .. Count(buffer) -> Seq(Byte)]
  BY <1>1, <1>3 DEF Parts
<1>5. Bytes = FlattenSeq(Parts)
  BY DEF Bytes, Parts, Part
<1> QED
  BY <1>1, <1>4, <1>5, SeqDef, LenProperties

\* The text grows by the part of the next entry.
LEMMA NextPart ==
  ASSUME RingInv, NEW text, Joined(text, Byte, Parts), NEW i \in 0 .. Count(buffer) - 1
  PROVE  LET e == buffer.entry[Slot(buffer, i)]
         IN  /\ e = LastWrites[i + 1] /\ e.size \in Nat
             /\ Part(e) \in Seq(Byte) /\ Len(Part(e)) = e.size
             /\ text[i] \in Seq(Byte) /\ Len(text[i]) \in Nat
             /\ text[i + 1] = text[i] \o Part(e)
             /\ Len(text[i + 1]) = Len(text[i]) + e.size
<1> DEFINE n == Count(buffer)
           e == buffer.entry[Slot(buffer, i)]
<1>1. /\ n \in 0 .. MAX /\ Len(LastWrites) = n /\ LastWrites \in Seq(Entries(Nat))
      /\ \A k \in 1 .. n : LastWrites[k] = buffer.entry[Slot(buffer, k - 1)]
  BY LastWritesAre
<1>2. Len(Parts) = n
  BY PartsAre
<1> HIDE DEF n
<1>3. n \in Nat /\ i \in 0 .. n - 1
  BY <1>1, MaxAssumption DEF n
<1>4. i \in 0 .. n /\ i + 1 \in 1 .. n /\ (i + 1) - 1 = i
  BY <1>3
<1>5. e = LastWrites[i + 1] /\ LastWrites[i + 1] \in Entries(Nat)
  BY <1>1, <1>4
<1>6. text[i] \in Seq(Byte) /\ text[i + 1] = text[i] \o Parts[i + 1]
  BY <1>2, <1>4 DEF Joined
<1>7. Parts[i + 1] = Part(e)
  BY <1>1, <1>4, <1>5 DEF Parts
<1> HIDE DEF e
<1>8. Part(e) \in Seq(Byte) /\ Len(Part(e)) = e.size /\ e.size \in Nat
  BY <1>5, PartIs
<1>9. Len(text[i] \o Part(e)) = Len(text[i]) + Len(Part(e))
  BY <1>6, <1>8, ConcatProperties, Zenon
<1>10. Len(text[i]) \in Nat
  BY <1>6
<1> QED
  BY <1>5, <1>6, <1>7, <1>8, <1>9, <1>10 DEF e

\* At turn i the loop is at the i-th entry and has counted the text before it.
LEMMA Counted ==
  ASSUME RingInv, NEW off, NEW l, Turns(buffer, off, l), NEW text, Joined(text, Byte, Parts)
  PROVE  \A i \in 0 .. Count(buffer) :
            l[i].i = i /\ l[i].cur_offs = Slot(buffer, i) /\ l[i].bytes_counted = Len(text[i])
<1> DEFINE n == Count(buffer)
           C(i) == l[i].i = i /\ l[i].cur_offs = Slot(buffer, i) /\ l[i].bytes_counted = Len(text[i])
           U == {i \in Nat : i <= n => C(i)}
<1>1. buffer \in Buffers(Pointers) /\ buffer.out_offs \in Offsets
  BY DEF RingInv, TypeOK, Pointers, Buffers
<1>2. n \in 0 .. MAX /\ n \in Nat /\ MAX \in Nat
  BY LastWritesAre, MaxAssumption
<1>3. text[0] = << >>
  BY DEF Joined
<1>4. l[0] = ScanStart(buffer) /\ \A i \in 1 .. MAX : l[i] = ScanNext(buffer, l[i - 1])
  BY DEF Turns
<1> HIDE DEF n
<1>5. 0 \in U
  <2>1. Slot(buffer, 0) = buffer.out_offs
    BY <1>1, OffsetMod, MaxAssumption DEF Slot, Offsets
  <2> QED
    BY <1>3, <1>4, <2>1 DEF ScanStart
<1>6. ASSUME NEW i \in Nat, i \in U PROVE i + 1 \in U
  <2>1. SUFFICES ASSUME i + 1 <= n PROVE C(i + 1)
    OBVIOUS
  <2>2. /\ i \in 0 .. n /\ i \in 0 .. MAX - 1 /\ i + 1 \in 1 .. MAX
        /\ i \in 0 .. n - 1 /\ (i + 1) - 1 = i
    BY <1>2, <2>1
  <2>3. C(i)
    BY <1>6, <2>2
  <2>4. l[i + 1] = ScanNext(buffer, l[i])
    BY <1>4, <2>2
  <2>5. (Slot(buffer, i) + 1) % MAX = Slot(buffer, i + 1)
    BY <1>1, <2>2, SlotNext
  <2>6. Len(text[i + 1]) = Len(text[i]) + buffer.entry[Slot(buffer, i)].size
    BY <2>2, NextPart DEF n
  <2> QED
    BY <2>3, <2>4, <2>5, <2>6 DEF ScanNext
<1>7. Nat \subseteq U
  <2> HIDE DEF U
  <2> QED
    BY <1>5, <1>6, SetInduction
<1>8. ASSUME NEW i \in 0 .. n PROVE C(i)
  <2>1. i \in Nat /\ i <= n
    BY <1>2
  <2> QED
    BY <1>7, <2>1
<1> QED
  BY <1>8 DEF n

\* Where the loop ends, and where it hits.
LEMMA Exits ==
  ASSUME RingInv, NEW off \in Nat, NEW l, Turns(buffer, off, l),
         NEW text, Joined(text, Byte, Parts), NEW i \in 0 .. Count(buffer)
  PROVE  /\ ScanEnds(buffer, l[i]) <=> i = Count(buffer)
         /\ i # Count(buffer) =>
               (ScanHits(buffer, l[i], off) <=> off < Len(text[i + 1]))
<1> DEFINE n == Count(buffer)
<1>1. buffer \in Buffers(Pointers) /\ Shape(buffer)
  BY DEF RingInv, TypeOK, Pointers
<1>2. n \in 0 .. MAX /\ n \in Nat /\ MAX \in Nat
  BY LastWritesAre, MaxAssumption
<1>3. l[i].i = i /\ l[i].cur_offs = Slot(buffer, i) /\ l[i].bytes_counted = Len(text[i])
  BY Counted
<1>4. l[i] \in Scans
  <2>1. i \in 0 .. MAX
    BY <1>2
  <2>2. l[i] \in Turn
    BY <2>1 DEF Turns
  <2> QED
    BY <1>3, <2>1, <2>2 DEF Turn, Scans
<1>5. ScanEnds(buffer, l[i]) <=> i = n
  <2>1. l[i].i <= n
    BY <1>2, <1>3
  <2> QED
    BY <1>1, <1>3, <1>4, <2>1, ScanEndsAtCount
<1>6. ASSUME i # n PROVE ScanHits(buffer, l[i], off) <=> off < Len(text[i + 1])
  <2>1. i \in 0 .. n - 1
    BY <1>2, <1>6
  <2>2. Len(text[i + 1]) = Len(text[i]) + buffer.entry[Slot(buffer, i)].size
    BY <2>1, NextPart
  <2> QED
    BY <1>3, <1>5, <1>6, <2>2 DEF ScanHits
<1> QED
  BY <1>5, <1>6 DEF n

\* The answer to one offset.
LEMMA FindOne ==
  ASSUME RingInv, NEW off \in Nat
  PROVE  FindEntry(buffer, off) = IF off < Len(Bytes) THEN Bytes[off + 1] ELSE NULL
<1> DEFINE n == Count(buffer)
<1>1. n \in 0 .. MAX /\ n \in Nat /\ MAX \in Nat
  BY LastWritesAre, MaxAssumption
<1>2. buffer \in Buffers(Pointers)
  BY DEF RingInv, TypeOK, Pointers
<1>3. PICK l : Turns(buffer, off, l)
  BY <1>2, LoopTurns, Zenon
<1>4. Parts \in Seq(Seq(Byte)) /\ Len(Parts) = n /\ Bytes = FlattenSeq(Parts)
  BY PartsAre
<1>5. PICK text : Joined(text, Byte, Parts)
  BY <1>4, Flattened, Zenon
<1>6. /\ text \in [0 .. n -> Seq(Byte)] /\ text[0] = << >> /\ Bytes = text[n]
      /\ \A i \in 1 .. n : text[i] = text[i - 1] \o Parts[i]
  BY <1>4, <1>5 DEF Joined
<1>7. \A i \in 0 .. n : ScanEnds(buffer, l[i]) <=> i = n
  BY <1>3, <1>5, Exits
<1>8. \A i \in 0 .. n - 1 : ScanHits(buffer, l[i], off) <=> off < Len(text[i + 1])
  <2> TAKE i \in 0 .. n - 1
  <2>1. i \in 0 .. n /\ i # n
    BY <1>1
  <2> QED
    BY <1>3, <1>5, <2>1, Exits
<1> DEFINE T == Stops(buffer, off, l)
           m == Min(T)
<1>9. T \subseteq Nat /\ n \in T
  BY <1>1, <1>7 DEF Stops
<1>10. m \in T /\ \A y \in T : m <= y
  <2> HIDE DEF T
  <2> QED
    BY <1>9, Least
<1> HIDE DEF n, m
<1>11. m \in 0 .. n
  BY <1>1, <1>9, <1>10 DEF Stops
<1>12. FindEntry(buffer, off) = Answer(buffer, off, l[m])
  BY <1>3 DEF Turns, m
<1>13. Len(text[m]) <= off
  <2>1. CASE m = 0
    BY <1>6, <2>1
  <2>2. CASE m # 0
    <3>1. m - 1 \in 0 .. n - 1 /\ m - 1 \in 0 .. MAX /\ (m - 1) + 1 = m /\ ~ (m <= m - 1)
      BY <1>1, <1>11, <2>2
    <3>2. m - 1 \notin T
      BY <1>10, <3>1
    <3>3. ~ ScanHits(buffer, l[m - 1], off)
      BY <3>1, <3>2 DEF Stops
    <3>4. ~ (off < Len(text[m]))
      BY <1>8, <3>1, <3>3
    <3>5. Len(text[m]) \in Nat
      BY <1>6, <1>11
    <3> QED
      BY <3>4, <3>5
  <2> QED
    BY <2>1, <2>2
<1>14. CASE m = n
  <2>1. ScanEnds(buffer, l[m])
    BY <1>7, <1>11, <1>14
  <2>2. FindEntry(buffer, off) = NULL
    BY <1>12, <2>1 DEF Answer
  <2>3. Len(Bytes) <= off /\ Len(Bytes) \in Nat
    BY <1>6, <1>11, <1>13, <1>14
  <2> QED
    BY <2>2, <2>3
<1>15. CASE m # n
  <2> DEFINE e == buffer.entry[Slot(buffer, m)]
             u == text[m]
  <2>1. m \in 0 .. n - 1 /\ m \in 0 .. n /\ m + 1 \in 0 .. n
    BY <1>1, <1>11, <1>15
  <2>2. ~ ScanEnds(buffer, l[m])
    BY <1>7, <1>15, <2>1
  <2>3. ScanHits(buffer, l[m], off)
    BY <1>10, <2>2 DEF Stops
  <2>4. off < Len(text[m + 1])
    BY <1>8, <2>1, <2>3
  <2>5. l[m].cur_offs = Slot(buffer, m) /\ l[m].bytes_counted = Len(u)
    BY <1>3, <1>5, <2>1, Counted DEF n
  <2>6. FindEntry(buffer, off) = [entry |-> e, offset |-> off - Len(u)]
    BY <1>12, <2>2, <2>5 DEF Answer
  <2>7. /\ e.size \in Nat /\ Part(e) \in Seq(Byte) /\ Len(Part(e)) = e.size
        /\ u \in Seq(Byte) /\ Len(u) \in Nat
        /\ text[m + 1] = u \o Part(e) /\ Len(text[m + 1]) = Len(u) + e.size
    BY <1>5, <2>1, NextPart DEF n
  <2> HIDE DEF e, u
  <2>8. /\ off + 1 \in 1 .. Len(u) + e.size /\ ~ (off + 1 <= Len(u))
        /\ (off + 1) - Len(u) \in 1 .. e.size
        /\ ((off + 1) - Len(u)) - 1 = off - Len(u)
    <3>1. Len(u) <= off /\ off < Len(u) + e.size
      BY <1>13, <2>4, <2>7 DEF u
    <3> DEFINE a == Len(u)
               z == e.size
    <3>2. a \in Nat /\ z \in Nat /\ a <= off /\ off < a + z
      BY <2>7, <3>1
    <3> HIDE DEF a, z
    <3>3. /\ off + 1 \in 1 .. a + z /\ ~ (off + 1 <= a)
          /\ (off + 1) - a \in 1 .. z /\ ((off + 1) - a) - 1 = off - a
      BY <3>2
    <3> QED
      BY <3>3 DEF a, z
  <2>9. (u \o Part(e))[off + 1] = Part(e)[(off + 1) - Len(u)]
    BY <2>7, <2>8, ConcatProperties
  <2>10. Part(e)[(off + 1) - Len(u)] = [entry |-> e, offset |-> off - Len(u)]
    BY <2>8 DEF Part
  <2>11. StartsWith(text[n], text[m + 1])
    <3>1. \A i \in 1 .. n : Parts[i] \in Seq(Byte) /\ text[i] = text[i - 1] \o Parts[i]
      BY <1>4, <1>6
    <3>2. n \in 0 .. n /\ m + 1 \in 0 .. n
      BY <1>1, <2>1
    <3> QED
      BY <1>1, <1>6, <3>1, <3>2, Growing
  <2>12. Len(text[m + 1]) <= Len(Bytes) /\ Bytes[off + 1] = text[m + 1][off + 1]
    BY <1>6, <2>7, <2>8, <2>11 DEF StartsWith
  <2>13. off < Len(Bytes)
    <3>1. Len(Bytes) \in Nat
      BY <1>1, <1>6
    <3> QED
      BY <2>4, <2>7, <2>12, <3>1
  <2> QED
    BY <2>6, <2>7, <2>9, <2>10, <2>12, <2>13
<1> QED
  BY <1>14, <1>15

\* find_entry_offset_for_fpos answers, for every ring the driver's calls can
\* make and every offset up to one past the end, the byte at that offset of
\* the concatenated writes, and NULL behind the last one.
THEOREM FindRight == Spec => []FindIsByteAtOffset
<1>1. RingInv => FindIsByteAtOffset
  <2> SUFFICES ASSUME RingInv, NEW off \in 0 .. Len(Bytes) + 1
               PROVE  FindEntry(buffer, off) =
                         IF off < Len(Bytes) THEN Bytes[off + 1] ELSE NULL
    BY DEF FindIsByteAtOffset
  <2> QED
    BY FindOne
<1> QED
  BY <1>1, RingInvariance, PTL
=============================================================================
