----------------------------- MODULE CharDevice -----------------------------
(* What /dev/aesdchar promises its callers: the device is the text of the    *)
(* last MAX writes.  A write is accepted whole, at one instant, or not at    *)
(* all; a read is answered, at one instant, from the one write its position  *)
(* falls in.  Nothing here knows of a ring, a lock, a pointer or a loop.     *)
EXTENDS Integers, Sequences

CONSTANTS Threads, MAX,
          Data,     \* payloads of non-empty writes
          NoData,   \* the payload of an empty write
          NULL      \* no payload: the answer of a read past the end

VARIABLES window,   \* the writes the device holds, oldest first; "at" is the
                    \* number of bytes the device had accepted before this one
          total,    \* bytes accepted since the device was created
          call      \* what each thread asked, or was answered

vars == <<window, total, call>>

Packets == [data : Data \cup {NoData}, size : Nat, at : Nat]

Answer(ret, d, off, len) == [ret |-> ret, data |-> d, offset |-> off, len |-> len]

Eof    == Answer("ok", NULL, 0, 0)
Fault  == Answer("EFAULT", NULL, 0, 0)
NoMem  == Answer("ENOMEM", NULL, 0, 0)
Wrote(n) == Answer("ok", NULL, 0, n)

Requests == [phase : {"asked"}, op : {"read", "write"}, fpos : Nat, count : Nat]

Idle == [phase |-> "idle"]
Asked(op, p, n) == [phase |-> "asked", op |-> op, fpos |-> p, count |-> n]
Done(a) == [phase |-> "done", answer |-> a]

Push(w, e) == IF Len(w) < MAX THEN Append(w, e) ELSE Append(Tail(w), e)

\* Packet k holds the byte at position p of the text.
Holds(w, k, p) == /\ w[k].at - w[1].at <= p
                  /\ p < w[k].at - w[1].at + w[k].size

\* From packet k, at position p, at most n bytes and never past the packet.
Part(w, k, p, n) ==
    LET off == p - (w[k].at - w[1].at)
    IN  Answer("ok", w[k].data, off,
               IF n > w[k].size - off THEN w[k].size - off ELSE n)

-----------------------------------------------------------------------------
Init ==
    /\ window = << >>
    /\ total = 0
    /\ call = [t \in Threads |-> Idle]

Ask(t) ==
    /\ call[t] = Idle
    /\ call'[t] \in Requests
    /\ call' = [call EXCEPT ![t] = call'[t]]
    /\ UNCHANGED <<window, total>>

AcceptWrite(t) ==
    /\ call[t].phase = "asked" /\ call[t].op = "write"
    /\ LET n == call[t].count
       IN  /\ \E d \in Data \cup {NoData} :
                 /\ d = NoData <=> n = 0
                 /\ d # NoData => \A k \in 1 .. Len(window) : window[k].data # d
                 /\ window' = Push(window, [data |-> d, size |-> n, at |-> total])
           /\ total' = total + n
           /\ call' = [call EXCEPT ![t] = Done(Wrote(n))]

AnswerRead(t) ==
    /\ call[t].phase = "asked" /\ call[t].op = "read"
    /\ \E k \in 1 .. Len(window) :
           /\ Holds(window, k, call[t].fpos)
           /\ call' = [call EXCEPT ![t] =
                          Done(Part(window, k, call[t].fpos, call[t].count))]
    /\ UNCHANGED <<window, total>>

AnswerEof(t) ==
    /\ call[t].phase = "asked" /\ call[t].op = "read"
    /\ \A k \in 1 .. Len(window) : ~Holds(window, k, call[t].fpos)
    /\ call' = [call EXCEPT ![t] = Done(Eof)]
    /\ UNCHANGED <<window, total>>

Refuse(t) ==
    /\ call[t].phase = "asked" /\ call[t].count > 0
    /\ \/ call' = [call EXCEPT ![t] = Done(Fault)]
       \/ call[t].op = "write" /\ call' = [call EXCEPT ![t] = Done(NoMem)]
    /\ UNCHANGED <<window, total>>

Return(t) ==
    /\ call[t].phase = "done"
    /\ call' = [call EXCEPT ![t] = Idle]
    /\ UNCHANGED <<window, total>>

Next == \E t \in Threads : \/ Ask(t) \/ AcceptWrite(t) \/ AnswerRead(t)
                           \/ AnswerEof(t) \/ Refuse(t) \/ Return(t)

Spec == Init /\ [][Next]_vars
=============================================================================
