------------------------ MODULE ThreadedServerProofs ------------------------
(* Theorems about the threaded server, for every number of clients, every    *)
(* length of requests and buffers, and whatever goes wrong.                  *)
EXTENDS ThreadedServer, SequenceTheorems, TLAPS

InList(c) == \E i \in 1 .. Len(list) : list[i] = c

\* thread_list has each thread once, and not the one that is not listed yet;
\* it is empty when the process is gone.
ListOK ==
    /\ new # NULL <=> main \in {"setup", "add"}
    /\ main # "cleanup" => curr = 1
    /\ main \in {"exited", "down"} => list = << >> /\ ~handling
    /\ \A i, j \in 1 .. Len(list) : list[i] = list[j] => i = j
    /\ ~InList(new)

\* A thread exists, or was to exist, from Spawn until it is joined, and its
\* connection is open from Accept until then.
ConnOK(c) ==
    /\ conn[c] = "open" <=> InList(c) \/ c = new
    /\ pc[c] \in Alive \cup {"unborn"} <=> InList(c) \/ (c = new /\ main = "add")
    /\ conn[c] \in {"none", "queued"} \/ (c = new /\ main = "setup") => pc[c] = "none"
    /\ peer[c] = "off" => conn[c] = "none"

\* file_mutex is held exactly where the file is used.
MutexOK ==
    /\ \A c \in Clients : mutex = c <=> pc[c] \in InFile
    /\ mutex = Timer <=> timer \in {"append", "unlock"}

\* What the end of main has seen to, from each step on.
EndOK ==
    /\ main \in {"join_timer", "join", "exited", "down"} =>
          ~listening /\ \A c \in Clients : conn[c] # "queued"
    /\ main \in {"join", "exited"} => timer \in {"done", "unborn"}
    /\ main = "down" => timer = "off"
    /\ main = "exited" => ~present /\ file = << >>

Before == {"none", "unborn", "start", "recv", "lock", "append"}
InHand == {"start", "recv", "lock", "append", "read", "send"}
After  == {"unlock", "bail", "log", "done", "joined"}

\* Where a thread is tells how far its client is served.
FateOK(c) ==
    /\ pc[c] \in Before => due[c] = NULL /\ got[c] = << >>
    /\ pc[c] \in InHand => fate[c] = "none"
    /\ pc[c] = "none" /\ conn[c] # "closed" => fate[c] = "none"
    /\ pc[c] \in After => fate[c] # "none"
    /\ pc[c] \in {"lock", "append"} => used[c] \in 1 .. MaxParts

\* While a thread replies the file does not change, and what was sent and what
\* is in filebuf are the file up to the offset.
ReplyOK(c) ==
    pc[c] \in {"read", "send"} =>
        /\ due[c] = file /\ off[c] <= Len(file)
        /\ Len(got[c]) <= off[c]
        /\ \A i \in 1 .. Len(got[c]) : got[c][i] = file[i]
        /\ pc[c] = "read" => Len(got[c]) = off[c]
        /\ pc[c] = "send" =>
              /\ chunk[c] # << >> /\ Len(got[c]) + Len(chunk[c]) = off[c]
              /\ \A i \in 1 .. Len(chunk[c]) : chunk[c][i] = file[Len(got[c]) + i]

ServerInv == /\ TypeOK /\ ListOK /\ MutexOK /\ EndOK
             /\ \A c \in Clients : ConnOK(c) /\ FateOK(c) /\ ReplyOK(c)

-----------------------------------------------------------------------------

\* Which variables each kind of step leaves alone.
ByThread(c) == ThreadStep(c) /\ ~BrokenPipe(c)
ByMain == (MainStep /\ ~JoinCrashes) \/ AcceptRunsOut
ByClient == \E c \in Clients : Client(c) /\ Aside

LEMMA NextKinds ==
  ASSUME [Next]_vars
  PROVE  \/ ByMain \/ Signal \/ HandlerEnds \/ Start \/ Die
         \/ TimerStep \/ ByClient
         \/ \E c \in Clients : ByThread(c)
         \/ UNCHANGED vars
  BY DEF Next, MainStep, ThreadStep, ByMain, ByThread, ByClient, JoinCrashes, BrokenPipe

LEMMA ThreadFrame ==
  ASSUME NEW c \in Clients, ByThread(c)
  PROVE  /\ UNCHANGED <<main, new, list, curr, exit_requested, listening, handling, conn, peer, sent,
                      timer, stamps, run>>
  BY DEF ByThread, ThreadStep, process, signal, data, clock, locals, notes, history, peers, PutReply, 
     Begin, NoBuffer, Recv, RecvNothing, Lock, AppendRequest, AppendFails, ReopenFails, Read, ReadEnds,
     ReadFails, Send, SendFails, Unlock, LogClosed

LEMMA TimerFrame ==
  ASSUME TimerStep
  PROVE  UNCHANGED <<main, new, list, curr, exit_requested, listening, handling, peers, pc, used, off, chunk, notes>>
  BY DEF TimerStep, Tick, process, signal, locals, notes, TimerLoop, TimerWakes, TimerLocks, AppendStamp, StampFails, TimerUnlocks

LEMMA ClientFrame ==
  ASSUME ByClient
  PROVE  UNCHANGED <<main, new, list, curr, exit_requested, handling, listening, mutex, present, file, timer, stamps, pc, used, off, chunk, run, due, got, short, fate>>
  BY DEF ByClient, Aside, process, work, data, clock, locals, notes, history, Client, Connect, SendPart, EndSend, Hangup, TakeReply

LEMMA MainFrame ==
  ASSUME ByMain
  PROVE  UNCHANGED <<exit_requested, handling, mutex, timer, stamps, used, off, chunk, run, due, got, short>>
  BY DEF ByMain, MainStep, process, signal, work, data, clock, locals, notes, history, MainLoop, AcceptFails, AcceptRunsOut, NoThreadInfo, Spawn, AddThread, CleanupSkips, CleanupJoins,
   CleanupEnds, Shutdown, JoinTimer, JoinThread, Finish, Accept

-----------------------------------------------------------------------------
LEMMA PushFront ==
  ASSUME NEW S, NEW s \in Seq(S), NEW e \in S
  PROVE  /\ <<e>> \o s \in Seq(S)
         /\ Len(<<e>> \o s) = Len(s) + 1
         /\ \A i \in 1 .. Len(s) + 1 : (<<e>> \o s)[i] = IF i = 1 THEN e ELSE s[i - 1]
<1>1. <<e>> \in Seq(S) /\ Len(<<e>>) = 1 /\ <<e>>[1] = e
  OBVIOUS
<1>2. /\ <<e>> \o s \in Seq(S) /\ Len(<<e>> \o s) = Len(<<e>>) + Len(s)
      /\ \A i \in 1 .. Len(<<e>>) + Len(s) :
            (<<e>> \o s)[i] = IF i <= Len(<<e>>) THEN <<e>>[i] ELSE s[i - Len(<<e>>)]
  BY <1>1, ConcatProperties
<1>3. Len(s) \in Nat
  OBVIOUS
<1> DEFINE t == <<e>> \o s
<1> HIDE DEF t
<1>4. \A i \in 1 .. Len(s) + 1 : t[i] = IF i = 1 THEN e ELSE s[i - 1]
  BY <1>1, <1>2, <1>3 DEF t
<1> QED
  BY <1>1, <1>2, <1>3, <1>4 DEF t

LEMMA UnlinkedIs ==
  ASSUME NEW S, NEW s \in Seq(S), NEW i \in 1 .. Len(s)
  PROVE  /\ Unlinked(s, i) \in Seq(S)
         /\ Len(Unlinked(s, i)) = Len(s) - 1
         /\ \A k \in 1 .. Len(s) - 1 : Unlinked(s, i)[k] = IF k < i THEN s[k] ELSE s[k + 1]
<1> DEFINE a == SubSeq(s, 1, i - 1)
           b == SubSeq(s, i + 1, Len(s))
<1>1. Len(s) \in Nat /\ i \in Nat
  OBVIOUS
<1>2. \A k \in 1 .. Len(s) : s[k] \in S
  OBVIOUS
<1>3. /\ a \in Seq(S) /\ Len(a) = i - 1
      /\ \A k \in 1 .. i - 1 : a[k] = s[k]
  BY <1>1, <1>2, SubSeqProperties
<1>4. /\ b \in Seq(S) /\ Len(b) = Len(s) - i
      /\ \A k \in 1 .. Len(s) - i : b[k] = s[i + k]
  BY <1>1, <1>2, SubSeqProperties
<1> HIDE DEF a, b
<1>5. /\ a \o b \in Seq(S) /\ Len(a \o b) = Len(a) + Len(b)
      /\ \A k \in 1 .. Len(a) + Len(b) :
            (a \o b)[k] = IF k <= Len(a) THEN a[k] ELSE b[k - Len(a)]
  BY <1>3, <1>4, ConcatProperties
<1> DEFINE t == a \o b
<1>6. t = Unlinked(s, i)
  BY DEF Unlinked, a, b
<1> HIDE DEF t
<1>7. t \in Seq(S) /\ Len(t) = Len(s) - 1
  BY <1>1, <1>3, <1>4, <1>5 DEF t
<1>8. ASSUME NEW k \in 1 .. Len(s) - 1 PROVE t[k] = IF k < i THEN s[k] ELSE s[k + 1]
  <2>1. t[k] = IF k <= i - 1 THEN a[k] ELSE b[k - (i - 1)]
    BY <1>1, <1>3, <1>4, <1>5 DEF t
  <2>2. CASE k < i
    BY <1>1, <1>3, <2>1, <2>2
  <2>3. CASE ~(k < i)
    <3>1. k - (i - 1) \in 1 .. Len(s) - i /\ i + (k - (i - 1)) = k + 1
      BY <1>1, <2>3
    <3> QED
      BY <1>1, <1>4, <2>1, <2>3, <3>1
  <2> QED
    BY <2>2, <2>3
<1> QED
  BY <1>6, <1>7, <1>8

\* What CleanupJoins and JoinThread leave of a list that has each entry once.
LEMMA UnlinkedList ==
  ASSUME MainTypeOK, ListOK, NEW i \in 1 .. Len(list), list' = Unlinked(list, i)
  PROVE  /\ list' \in Seq(Clients) /\ Len(list') = Len(list) - 1
         /\ \A j, k \in 1 .. Len(list') : list'[j] = list'[k] => j = k
         /\ list[i] \in Clients
         /\ \A c : InList(c)' <=> InList(c) /\ c # list[i]
<1>1. list \in Seq(Clients) /\ Len(list) \in Nat /\ i \in Nat /\ list[i] \in Clients
  BY DEF MainTypeOK
<1>2. /\ list' \in Seq(Clients) /\ Len(list') = Len(list) - 1
      /\ \A k \in 1 .. Len(list) - 1 : list'[k] = IF k < i THEN list[k] ELSE list[k + 1]
  BY <1>1, UnlinkedIs
<1>3. \A j, k \in 1 .. Len(list) : list[j] = list[k] => j = k
  BY DEF ListOK
<1>4. ASSUME NEW j \in 1 .. Len(list'), NEW k \in 1 .. Len(list'), list'[j] = list'[k]
      PROVE  j = k
  BY <1>1, <1>2, <1>3, <1>4
<1>5. ASSUME NEW c, NEW k \in 1 .. Len(list'), list'[k] = c PROVE InList(c) /\ c # list[i]
  BY <1>1, <1>2, <1>3, <1>5 DEF InList
<1>6. ASSUME NEW c, NEW k \in 1 .. Len(list), list[k] = c, c # list[i]
      PROVE  \E j \in 1 .. Len(list') : list'[j] = c
  <2>1. CASE k < i
    BY <1>1, <1>2, <1>6, <2>1
  <2>2. CASE k > i
    <3>1. k - 1 \in 1 .. Len(list') /\ ~(k - 1 < i) /\ (k - 1) + 1 = k
      BY <1>1, <1>2, <2>2
    <3> QED
      BY <1>2, <1>6, <3>1
  <2> QED
    BY <1>1, <1>6, <2>1, <2>2
<1> QED
  BY <1>1, <1>2, <1>4, <1>5, <1>6 DEF InList

LEMMA PushedList ==
  ASSUME MainTypeOK, ListOK, new # NULL, list' = <<new>> \o list
  PROVE  /\ list' \in Seq(Clients) /\ Len(list') = Len(list) + 1
         /\ \A j, k \in 1 .. Len(list') : list'[j] = list'[k] => j = k
         /\ \A c : InList(c)' <=> InList(c) \/ c = new
<1>1. list \in Seq(Clients) /\ Len(list) \in Nat /\ new \in Clients
  BY DEF MainTypeOK
<1>2. /\ list' \in Seq(Clients) /\ Len(list') = Len(list) + 1
      /\ \A i \in 1 .. Len(list) + 1 : list'[i] = IF i = 1 THEN new ELSE list[i - 1]
  BY <1>1, PushFront
<1>3. /\ \A j, k \in 1 .. Len(list) : list[j] = list[k] => j = k
      /\ \A k \in 1 .. Len(list) : list[k] # new
  BY DEF ListOK, InList
<1>4. ASSUME NEW j \in 1 .. Len(list'), NEW k \in 1 .. Len(list'), list'[j] = list'[k]
      PROVE  j = k
  BY <1>1, <1>2, <1>3, <1>4
<1>5. ASSUME NEW c, NEW k \in 1 .. Len(list'), list'[k] = c PROVE InList(c) \/ c = new
  BY <1>1, <1>2, <1>5 DEF InList
<1>6. ASSUME NEW c, NEW k \in 1 .. Len(list), list[k] = c
      PROVE  \E j \in 1 .. Len(list') : list'[j] = c
  <2>1. k + 1 \in 1 .. Len(list') /\ k + 1 # 1 /\ (k + 1) - 1 = k
    BY <1>1, <1>2
  <2> QED
    BY <1>2, <1>6, <2>1
<1>7. 1 \in 1 .. Len(list') /\ list'[1] = new
  BY <1>1, <1>2
<1> QED
  BY <1>2, <1>4, <1>5, <1>6, <1>7 DEF InList

\* JoinThread takes the head of the list.
LEMMA TailUnlinks ==
  ASSUME NEW S, NEW s \in Seq(S), s # << >>
  PROVE  Len(s) \in Nat /\ 1 \in 1 .. Len(s) /\ Tail(s) = Unlinked(s, 1) /\ Head(s) = s[1]
<1>1. Len(s) \in Nat \ {0}
  BY EmptySeq
<1>2. Tail(s) = SubSeq(s, 2, Len(s))
  BY TailIsSubSeq
<1>3. SubSeq(s, 2, Len(s)) \in Seq(S)
  BY <1>2, HeadTailProperties
<1>4. SubSeq(s, 1, 1 - 1) = << >>
  BY SubSeqEmpty
<1>5. Unlinked(s, 1) = << >> \o SubSeq(s, 2, Len(s))
  BY <1>4 DEF Unlinked
<1>6. << >> \o SubSeq(s, 2, Len(s)) = SubSeq(s, 2, Len(s))
  BY <1>3, ConcatEmptySeq
<1>7. Head(s) = s[1]
  BY <1>1
<1> QED
  BY <1>1, <1>2, <1>5, <1>6, <1>7

-----------------------------------------------------------------------------
\* The list and the place of main.
LEMMA MainKeeps ==
  ASSUME ServerInv, [Next]_vars
  PROVE  MainTypeOK' /\ ListOK'
<1>1. MainTypeOK /\ ListOK /\ NULL \notin Clients
  BY ThreadedServerAssumption DEF ServerInv, TypeOK
<1> USE <1>1
<1>2. CASE UNCHANGED <<main, new, list, curr, exit_requested, handling>>
  BY <1>2 DEF MainTypeOK, ListOK, InList
<1>3. CASE TimerStep \/ ByClient \/ \E c \in Clients : ByThread(c)
  BY <1>2, <1>3, ThreadFrame, TimerFrame, ClientFrame
<1>4. CASE Signal
  BY <1>4 DEF Signal, Running, process, MainTypeOK, ListOK, InList
<1>5. CASE HandlerEnds
  <2>1. handling' = FALSE /\ UNCHANGED <<main, new, list, curr, exit_requested>>
    BY <1>5 DEF HandlerEnds, process
  <2>2. MainTypeOK'
    BY <2>1 DEF MainTypeOK
  <2> QED
    BY <2>1, <2>2 DEF ListOK, InList
<1>6. CASE Start
  <2>1. /\ main \in {"exited", "down"} /\ main' = "loop" /\ exit_requested' = FALSE
        /\ UNCHANGED <<new, list, curr, handling>>
    BY <1>6 DEF Start, Running
  <2>2. MainTypeOK'
    BY <2>1 DEF MainTypeOK, MainLabels
  <2>3. new = NULL
    BY <2>1 DEF ListOK
  <2> QED
    BY <2>1, <2>2, <2>3 DEF ListOK, InList
<1>7. CASE Die
  <2>1. /\ main' = "down" /\ new' = NULL /\ list' = << >> /\ curr' = 1
        /\ exit_requested' = FALSE /\ handling' = FALSE
    BY <1>7 DEF Die
  <2>2. list' \in Seq(Clients) /\ Len(list') = 0
    BY <2>1, EmptySeq
  <2>3. MainTypeOK'
    <3>1. curr' \in 1 .. Len(list') + 1
      BY <2>1, <2>2
    <3> QED
      BY <2>1, <2>2, <3>1 DEF MainTypeOK, MainLabels
  <2>4. \A c : ~InList(c)'
    BY <2>2 DEF InList
  <2>5. \A i, j \in 1 .. Len(list') : list'[i] = list'[j] => i = j
    BY <2>2
  <2> QED
    BY <2>1, <2>3, <2>4, <2>5 DEF ListOK
<1>8. CASE ByMain
  <2>1. exit_requested' = exit_requested /\ handling' = handling
    BY <1>8, MainFrame
  <2> USE <2>1
  <2>2. CASE MainLoop
    BY <2>2 DEF MainLoop, At, MainTypeOK, MainLabels, ListOK, InList
  <2>3. CASE AcceptFails \/ AcceptRunsOut
    BY <2>3 DEF AcceptFails, AcceptRunsOut, At, MainTypeOK, MainLabels, ListOK, InList
  <2>4. ASSUME NEW c \in Clients, Accept(c) PROVE MainTypeOK' /\ ListOK'
    <3>1. conn[c] # "open"
      BY <2>4 DEF Accept, TakeFromQueue, Queued
    <3>2. ~InList(c)
      BY <3>1 DEF ServerInv, ConnOK
    <3> QED
      BY <2>4, <3>2 DEF Accept, At, MainTypeOK, MainLabels, ListOK, InList
  <2>5. CASE NoThreadInfo
    BY <2>5 DEF NoThreadInfo, At, MainTypeOK, MainLabels, ListOK, InList
  <2>6. CASE Spawn
    BY <2>6 DEF Spawn, At, MainTypeOK, MainLabels, ListOK, InList
  <2>7. CASE AddThread
    <3>1. /\ main = "add" /\ main' = "cleanup" /\ new # NULL /\ new' = NULL /\ curr' = 1
          /\ list' = <<new>> \o list /\ ~handling
      BY <2>7 DEF AddThread, At, ListOK
    <3>2. /\ list' \in Seq(Clients) /\ Len(list') = Len(list) + 1 /\ Len(list) \in Nat
          /\ \A j, k \in 1 .. Len(list') : list'[j] = list'[k] => j = k
      BY <3>1, PushedList DEF MainTypeOK
    <3>3. ~InList(NULL)'
      BY <3>2 DEF InList
    <3> QED
      BY <3>1, <3>2, <3>3 DEF MainTypeOK, MainLabels, ListOK, InList
  <2>8. CASE CleanupSkips
    BY <2>8 DEF CleanupSkips, At, MainTypeOK, MainLabels, ListOK, InList
  <2>9. CASE CleanupJoins
    <3>1. /\ main = "cleanup" /\ main' = main /\ new = NULL /\ new' = new /\ curr' = curr
          /\ curr \in 1 .. Len(list) /\ list' = Unlinked(list, curr) /\ Len(list) \in Nat
      BY <2>9 DEF CleanupJoins, At, ListOK, MainTypeOK
    <3>2. /\ list' \in Seq(Clients) /\ Len(list') = Len(list) - 1
          /\ \A j, k \in 1 .. Len(list') : list'[j] = list'[k] => j = k
      BY <3>1, UnlinkedList
    <3>3. ~InList(NULL)'
      BY <3>2 DEF InList
    <3> QED
      BY <3>1, <3>2, <3>3 DEF MainTypeOK, MainLabels, ListOK, InList
  <2>10. CASE CleanupEnds
    BY <2>10 DEF CleanupEnds, At, MainTypeOK, MainLabels, ListOK, InList
  <2>11. CASE Shutdown \/ JoinTimer
    BY <2>11 DEF Shutdown, JoinTimer, At, MainTypeOK, MainLabels, ListOK, InList
  <2>12. CASE JoinThread
    <3>1. /\ main = "join" /\ main' = main /\ new = NULL /\ new' = new /\ curr' = curr
          /\ curr = 1 /\ list # << >> /\ list' = Tail(list) /\ list \in Seq(Clients)
      BY <2>12 DEF JoinThread, At, ListOK, MainTypeOK
    <3>2. 1 \in 1 .. Len(list) /\ list' = Unlinked(list, 1)
      BY <3>1, TailUnlinks
    <3>3. /\ list' \in Seq(Clients) /\ Len(list') \in Nat
          /\ \A j, k \in 1 .. Len(list') : list'[j] = list'[k] => j = k
      BY <3>2, UnlinkedList
    <3>4. ~InList(NULL)'
      BY <3>3 DEF InList
    <3> QED
      BY <3>1, <3>3, <3>4 DEF MainTypeOK, MainLabels, ListOK, InList
  <2>13. CASE Finish
    BY <2>13 DEF Finish, At, MainTypeOK, MainLabels, ListOK, InList
  <2> QED
    BY <1>8, <2>2, <2>3, <2>4, <2>5, <2>6, <2>7, <2>8, <2>9, <2>10, <2>11, <2>12, <2>13
    DEF ByMain, MainStep
<1>9. CASE UNCHANGED vars
  BY <1>2, <1>9 DEF vars, process, signal
<1> QED
  BY <1>3, <1>4, <1>5, <1>6, <1>7, <1>8, <1>9, NextKinds

LEMMA ClosesType ==
  ASSUME PeersTypeOK, NEW S, Close(S)
  PROVE  /\ conn' \in [Clients -> {"none", "queued", "open", "closed"}]
         /\ peer' \in [Clients -> {"off", "on", "eof", "gone"}]
         /\ sent' \in [Clients -> 0 .. MaxParts] /\ unread' \in [Clients -> 0 .. Window]
         /\ \A c \in Clients : conn'[c] = IF c \in S THEN "closed" ELSE conn[c]
<1>1. conn' \in [Clients -> {"none", "queued", "open", "closed"}] 
  BY DEF PeersTypeOK, Close
<1>2. peer' \in [Clients -> {"off", "on", "eof", "gone"}]
  BY DEF PeersTypeOK, Close
<1>3. sent' \in [Clients -> 0 .. MaxParts]
  BY SocketPeersAssumption DEF PeersTypeOK, Close
<1>4. unread' \in [Clients -> 0 .. Window]
  BY SocketPeersAssumption DEF PeersTypeOK, Close
<1> QED
  BY <1>1, <1>2, <1>3, <1>4 DEF Close

LEMMA FailsType ==
  ASSUME fate \in [Clients -> Fates], NEW S, Fails(S)
  PROVE  /\ fate' \in [Clients -> Fates]
         /\ \A c \in Clients : fate'[c] = IF c \in S /\ fate[c] = "none" THEN "failed" ELSE fate[c]
  BY DEF Fails, Fates

\* The peers are typed, and conn changes as said.
LEMMA PeersKeep ==
  ASSUME ServerInv, [Next]_vars
  PROVE  PeersTypeOK'
<1>1. PeersTypeOK /\ MainTypeOK
  BY DEF ServerInv, TypeOK
<1> USE <1>1, SocketPeersAssumption
<1>2. CASE UNCHANGED <<listening, peers>>
  BY <1>2 DEF PeersTypeOK, peers
<1>3. CASE listening' \in BOOLEAN /\ \E S : Close(S)
  BY <1>3, ClosesType DEF PeersTypeOK
<1>4. ASSUME NEW c \in Clients, Client(c) PROVE PeersTypeOK'
  <2>1. CASE Connect(c)
    BY <2>1 DEF Connect, PeersTypeOK
  <2>2. CASE SendPart(c)
    BY <2>2 DEF SendPart, PeersTypeOK
  <2>3. CASE EndSend(c)
    BY <2>3 DEF EndSend, PeersTypeOK
  <2>4. CASE Hangup(c)
    BY <2>4 DEF Hangup, PeersTypeOK
  <2>5. CASE TakeReply(c)
    BY <2>5 DEF TakeReply, PeersTypeOK
  <2> QED
    BY <1>4, <2>1, <2>2, <2>3, <2>4, <2>5 DEF Client
<1>5. ASSUME NEW c \in Clients, ByThread(c) PROVE PeersTypeOK'
  <2>1. CASE Send(c)
    BY <2>1 DEF Send, PutReply, PeersTypeOK
  <2>2. CASE ~Send(c)
    <3>1. unread' = unread
      BY <1>5, <2>2 DEF ByThread, ThreadStep, peers, 
     Begin, NoBuffer, Recv, RecvNothing, Lock, AppendRequest, AppendFails, ReopenFails, Read, ReadEnds,
     ReadFails, SendFails, Unlock, LogClosed
    <3> QED
      BY <1>2, <1>5, <3>1, ThreadFrame DEF peers
  <2> QED
    BY <2>1, <2>2
<1>6. CASE ByMain
  <2>1. ASSUME NEW c \in Clients, Accept(c) PROVE PeersTypeOK'
    BY <2>1 DEF Accept, TakeFromQueue, PeersTypeOK
  <2>2. CASE NoThreadInfo \/ CleanupJoins \/ JoinThread
    BY <1>3, <2>2 DEF NoThreadInfo, CleanupJoins, JoinThread, signal, PeersTypeOK
  <2>3. CASE Shutdown
    BY <1>3, <2>3 DEF Shutdown, StopListening
  <2>4. CASE MainLoop \/ AcceptFails \/ AcceptRunsOut \/ Spawn \/ AddThread \/ CleanupSkips \/ CleanupEnds \/ JoinTimer \/ Finish
    BY <1>2, <2>4 DEF MainLoop, AcceptFails, AcceptRunsOut, Spawn, AddThread, CleanupSkips, CleanupEnds, JoinTimer, Finish, signal
  <2> QED
    BY <1>6, <2>1, <2>2, <2>3, <2>4 DEF ByMain, MainStep
<1>7. CASE HandlerEnds
  BY <1>3, <1>7 DEF HandlerEnds, StopListening
<1>8. CASE Die
  BY <1>3, <1>8 DEF Die, CloseAll
<1>9. CASE Signal
  BY <1>2, <1>9 DEF Signal
<1>10. CASE Start
  BY <1>10 DEF Start, PeersTypeOK, peers
<1>11. CASE TimerStep
  BY <1>2, <1>11, TimerFrame
<1>12. CASE UNCHANGED vars
  BY <1>2, <1>12 DEF vars, signal
<1> QED
  BY <1>4, <1>5, <1>6, <1>7, <1>8, <1>9, <1>10, <1>11, <1>12, NextKinds DEF ByClient

\* The file, its mutex and the timestamp thread.
LEMMA FileKeeps ==
  ASSUME ServerInv, [Next]_vars
  PROVE  FileTypeOK'
<1>1. FileTypeOK /\ ThreadTypeOK /\ MainTypeOK /\ \A c \in Clients : FateOK(c)
  BY DEF ServerInv, TypeOK
<1> USE <1>1, ThreadedServerAssumption, SocketPeersAssumption
<1>2. CASE UNCHANGED <<mutex, present, file, timer, stamps>>
  BY <1>2 DEF FileTypeOK
<1>3. CASE TimerStep
  <2>1. Stamp \in Items
    BY DEF Items
  <2>2. CASE AppendStamp
    BY <2>1, <2>2 DEF AppendStamp, Tick, FileTypeOK
  <2>3. CASE StampFails
    <3>1. present' \in BOOLEAN
      BY <2>3 DEF StampFails, FileTypeOK
    <3> QED
      BY <2>3, <3>1 DEF StampFails, Tick, FileTypeOK
  <2>4. CASE TimerLoop \/ TimerWakes \/ TimerLocks \/ TimerUnlocks
    BY <2>4 DEF TimerLoop, TimerWakes, TimerLocks, TimerUnlocks, Tick, data, FileTypeOK
  <2> QED
    BY <1>3, <2>2, <2>3, <2>4 DEF TimerStep
<1>4. ASSUME NEW c \in Clients, ByThread(c) PROVE FileTypeOK'
  <2>1. timer' = timer /\ stamps' = stamps
    BY <1>4, ThreadFrame
  <2> USE <2>1
  <2>2. CASE Lock(c) \/ Unlock(c) \/ AppendFails(c)
    BY <2>2 DEF Lock, Unlock, AppendFails, data, FileTypeOK
  <2>3. CASE AppendRequest(c)
    <3>1. used[c] \in 1 .. MaxParts
      BY <2>3 DEF FateOK, AppendRequest
    <3>2. PICK n \in 1 .. used[c] : file' = file \o SubSeq(Message(c), 1, n)
      BY <2>3 DEF AppendRequest
    <3>3. n \in 1 .. MaxParts /\ MaxParts \in Nat
      BY <3>1
    <3>4. \A i \in 1 .. n : Message(c)[i] \in Items
      BY <3>3 DEF Message, Items
    <3>5. SubSeq(Message(c), 1, n) \in Seq(Items)
      BY <3>3, <3>4, SubSeqProperties
    <3>6. file' \in Seq(Items)
      BY <3>2, <3>5, ConcatProperties DEF FileTypeOK
    <3> QED
      BY <2>3, <3>6 DEF AppendRequest, FileTypeOK
  <2>4. CASE \/ Begin(c) \/ NoBuffer(c) \/ Recv(c) \/ RecvNothing(c) \/ ReopenFails(c) \/ Read(c) \/ ReadEnds(c)
             \/ ReadFails(c) \/ Send(c) \/ SendFails(c) \/ LogClosed(c)
    BY <1>2, <2>4 DEF Begin, NoBuffer, Recv, RecvNothing, ReopenFails, Read, ReadEnds, ReadFails, Send, SendFails, LogClosed, data
  <2> QED
    BY <1>4, <2>2, <2>3, <2>4 DEF ByThread, ThreadStep
<1>5. CASE ByMain
  <2>1. CASE Finish
    <3>1. present' = FALSE /\ file' = << >> /\ UNCHANGED <<mutex, timer, stamps>>
      BY <1>5, <2>1, MainFrame DEF Finish
    <3>2. file' \in Seq(Items)
      BY <3>1, EmptySeq
    <3>3. present' \in BOOLEAN
      BY <3>1
    <3> QED
      BY <3>1, <3>2, <3>3 DEF FileTypeOK
  <2>2. CASE ~Finish
    <3>1. data' = data
      BY <1>5, <2>2 DEF ByMain, MainStep, work, data, MainLoop, AcceptFails, AcceptRunsOut, NoThreadInfo, Spawn, AddThread, CleanupSkips, CleanupJoins,
   CleanupEnds, Shutdown, JoinTimer, JoinThread, Accept
    <3> QED
      BY <1>2, <1>5, <3>1, MainFrame DEF data
  <2> QED
    BY <2>1, <2>2
<1>6. CASE Signal \/ HandlerEnds
  BY <1>2, <1>6 DEF Signal, HandlerEnds, work, data, clock
<1>7. CASE Start
  BY <1>7 DEF Start, Created, data, FileTypeOK
<1>8. CASE Die
  BY <1>8 DEF Die, data, FileTypeOK
<1>9. CASE ByClient
  BY <1>2, <1>9, ClientFrame
<1>10. CASE UNCHANGED vars
  BY <1>2, <1>10 DEF vars, work, data, clock
<1> QED
  BY <1>3, <1>4, <1>5, <1>6, <1>7, <1>8, <1>9, <1>10, NextKinds

\* The threads and what is noted of their clients.
LEMMA ThreadsKeep ==
  ASSUME ServerInv, [Next]_vars
  PROVE  ThreadTypeOK' /\ NotesTypeOK'
<1>1. FileTypeOK /\ ThreadTypeOK /\ NotesTypeOK /\ MainTypeOK /\ PeersTypeOK /\ FileTypeOK'
  BY FileKeeps DEF ServerInv, TypeOK
<1> USE <1>1, ThreadedServerAssumption, SocketPeersAssumption
<1>2. CASE UNCHANGED <<pc, used, off, chunk, run, due, got, fate, short>>
  BY <1>2 DEF ThreadTypeOK, NotesTypeOK
<1>3. CASE TimerStep \/ ByClient \/ Signal
  BY <1>2, <1>3, TimerFrame, ClientFrame DEF Signal, work, locals, notes, history
<1>4. CASE HandlerEnds
  <2>1. UNCHANGED <<pc, used, off, chunk, run, due, got, short>> /\ fate' \in [Clients -> Fates]
    BY <1>4, FailsType DEF HandlerEnds, StopListening, work, locals, history, NotesTypeOK
  <2> QED
    BY <2>1 DEF ThreadTypeOK, NotesTypeOK
<1>5. CASE Start
  <2>1. UNCHANGED <<pc, used, off, chunk, due, got, fate, short>> /\ run' \in 1 .. MaxRuns
    BY <1>5 DEF Start, locals, NotesTypeOK
  <2> QED
    BY <2>1 DEF ThreadTypeOK, NotesTypeOK
<1>6. CASE Die
  <2>1. UNCHANGED <<run, due, got, short>> /\ fate' \in [Clients -> Fates]
    BY <1>6, FailsType DEF Die, history, NotesTypeOK
  <2>2. pc' \in [Clients -> {"none", "unborn", "joined"} \cup Alive]
    BY <1>6 DEF Die
  <2>3. used' \in [Clients -> 0 .. MaxParts]
    BY <1>6 DEF Die, Forget, ThreadTypeOK
  <2>4. off' \in [Clients -> Nat]
    BY <1>6 DEF Die, Forget, ThreadTypeOK
  <2>5. chunk' \in [Clients -> Seq(Items)]
    BY <1>6 DEF Die, Forget, ThreadTypeOK
  <2> QED
    BY <2>1, <2>2, <2>3, <2>4, <2>5 DEF ThreadTypeOK, NotesTypeOK
<1>7. CASE ByMain
  <2>1. UNCHANGED <<used, off, chunk, run, due, got, short>>
    BY <1>7, MainFrame
  <2>2. pc' \in [Clients -> {"none", "unborn", "joined"} \cup Alive]
    <3>1. CASE Spawn \/ CleanupJoins \/ JoinThread
      BY <3>1 DEF Spawn, CleanupJoins, JoinThread, Goto, ThreadTypeOK, Alive
    <3>2. CASE pc' = pc
      BY <3>2 DEF ThreadTypeOK
    <3>3. CASE ~(Spawn \/ CleanupJoins \/ JoinThread)
      BY <1>7, <3>2, <3>3 DEF ByMain, MainStep, work, MainLoop, AcceptFails, AcceptRunsOut, NoThreadInfo,
         AddThread, CleanupSkips, CleanupEnds, Shutdown, JoinTimer, Finish, Accept
    <3> QED
      BY <3>1, <3>3
  <2>3. fate' \in [Clients -> Fates]
    <3>1. CASE NoThreadInfo \/ Shutdown \/ JoinThread
      BY <3>1, FailsType DEF NoThreadInfo, Shutdown, StopListening, JoinThread, NotesTypeOK
    <3>2. CASE fate' = fate
      BY <3>2 DEF NotesTypeOK
    <3>3. CASE ~(NoThreadInfo \/ Shutdown \/ JoinThread)
      BY <1>7, <3>2, <3>3 DEF ByMain, MainStep, notes, MainLoop, AcceptFails, AcceptRunsOut,
         Spawn, AddThread, CleanupSkips, CleanupJoins, CleanupEnds, JoinTimer, Finish, Accept
    <3> QED
      BY <3>1, <3>3
  <2> QED
    BY <2>1, <2>2, <2>3 DEF ThreadTypeOK, NotesTypeOK
<1>8. ASSUME NEW c \in Clients, ByThread(c) PROVE ThreadTypeOK' /\ NotesTypeOK'
  <2>1. run' = run
    BY <1>8, ThreadFrame
  <2>2. CASE Begin(c) \/ NoBuffer(c) \/ RecvNothing(c) \/ AppendFails(c) \/ ReopenFails(c) \/ ReadFails(c) \/ SendFails(c)
    <3>1. /\ UNCHANGED <<used, off, chunk, due, got, short>>
          /\ fate' = fate \/ Fails({c})
          /\ \E l \in {"log", "recv", "done", "bail", "unlock"} : pc' = [pc EXCEPT ![c] = l]
      BY <2>2 DEF Begin, NoBuffer, RecvNothing, AppendFails, ReopenFails, ReadFails, SendFails, Goto, locals, history
    <3>2. pc' \in [Clients -> {"none", "unborn", "joined"} \cup Alive]
      BY <3>1 DEF ThreadTypeOK, Alive, InFile
    <3>3. fate' \in [Clients -> Fates]
      BY <3>1, FailsType DEF NotesTypeOK
    <3> QED
      BY <2>1, <3>1, <3>2, <3>3 DEF ThreadTypeOK, NotesTypeOK
  <2>3. CASE Recv(c)
    <3>1. UNCHANGED <<off, chunk, due, got, fate, short>> /\ pc' = [pc EXCEPT ![c] = "lock"]
      BY <2>3 DEF Recv, Goto, notes, history
    <3>2. pc' \in [Clients -> {"none", "unborn", "joined"} \cup Alive]
      BY <3>1 DEF ThreadTypeOK, Alive
    <3>3. used' \in [Clients -> 0 .. MaxParts]
      BY <2>3 DEF Recv, Min2, ThreadTypeOK, PeersTypeOK
    <3> QED
      BY <2>1, <3>1, <3>2, <3>3 DEF ThreadTypeOK, NotesTypeOK
  <2>4. CASE Lock(c) \/ LogClosed(c)
    <3>1. /\ UNCHANGED <<used, off, chunk, due, got, fate, short>>
          /\ \E l \in {"append", "done"} : pc' = [pc EXCEPT ![c] = l]
      BY <2>4 DEF Lock, LogClosed, Goto, locals, notes, history
    <3>2. pc' \in [Clients -> {"none", "unborn", "joined"} \cup Alive]
      BY <3>1 DEF ThreadTypeOK, Alive, InFile
    <3> QED
      BY <2>1, <3>1, <3>2 DEF ThreadTypeOK, NotesTypeOK
  <2>5. CASE AppendRequest(c)
    <3>1. /\ UNCHANGED <<used, chunk, got, fate>> /\ pc' = [pc EXCEPT ![c] = "read"]
          /\ off' = [off EXCEPT ![c] = 0] /\ due' = [due EXCEPT ![c] = file']
      BY <2>5 DEF AppendRequest, Goto
    <3>2. pc' \in [Clients -> {"none", "unborn", "joined"} \cup Alive]
      BY <3>1 DEF ThreadTypeOK, Alive, InFile
    <3>3. off' \in [Clients -> Nat]
      BY <3>1 DEF ThreadTypeOK
    <3>4. file' \in Seq(Items) /\ short' \subseteq short \cup {c}
      BY <2>5 DEF FileTypeOK, AppendRequest
    <3>5. due' \in [Clients -> Seq(Items) \cup {NULL}]
      BY <3>1, <3>4 DEF NotesTypeOK
    <3> QED
      BY <2>1, <3>1, <3>2, <3>3, <3>4, <3>5 DEF ThreadTypeOK, NotesTypeOK
  <2>6. CASE Read(c)
    <3> DEFINE n == Min2(off[c] + ChunkParts, Len(file))
    <3>1. /\ UNCHANGED <<used, due, got, fate, short>> /\ pc' = [pc EXCEPT ![c] = "send"]
          /\ chunk' = [chunk EXCEPT ![c] = SubSeq(file, off[c] + 1, n)]
          /\ off' = [off EXCEPT ![c] = n]
      BY <2>6 DEF Read, Goto, notes, history
    <3>2. pc' \in [Clients -> {"none", "unborn", "joined"} \cup Alive]
      BY <3>1 DEF ThreadTypeOK, Alive, InFile
    <3>3. off[c] \in Nat /\ Len(file) \in Nat /\ file \in Seq(Items)
      BY DEF ThreadTypeOK, FileTypeOK
    <3>4. n \in Nat /\ n <= Len(file)
      BY <3>3 DEF Min2
    <3> HIDE DEF n
    <3>5. \A i \in off[c] + 1 .. n : file[i] \in Items
      BY <3>3, <3>4
    <3>6. SubSeq(file, off[c] + 1, n) \in Seq(Items)
      BY <3>3, <3>4, <3>5, SubSeqProperties
    <3>7. chunk' \in [Clients -> Seq(Items)]
      BY <3>1, <3>6 DEF ThreadTypeOK
    <3>8. off' \in [Clients -> Nat]
      BY <3>1, <3>4 DEF ThreadTypeOK
    <3> QED
      BY <2>1, <3>1, <3>2, <3>7, <3>8 DEF ThreadTypeOK, NotesTypeOK
  <2>7. CASE ReadEnds(c)
    <3>1. /\ UNCHANGED <<used, off, chunk, due, got, short>> /\ pc' = [pc EXCEPT ![c] = "unlock"]
          /\ fate' = [fate EXCEPT ![c] = "replied"]
      BY <2>7 DEF ReadEnds, Goto, locals, history
    <3>2. pc' \in [Clients -> {"none", "unborn", "joined"} \cup Alive]
      BY <3>1 DEF ThreadTypeOK, Alive, InFile
    <3>3. fate' \in [Clients -> Fates]
      BY <3>1 DEF NotesTypeOK, Fates
    <3> QED
      BY <2>1, <3>1, <3>2, <3>3 DEF ThreadTypeOK, NotesTypeOK
  <2>8. CASE Send(c)
    <3>1. /\ UNCHANGED <<used, off, due, fate, short>>
          /\ got' = [got EXCEPT ![c] = Append(@, Head(chunk[c]))]
          /\ chunk' = [chunk EXCEPT ![c] = Tail(@)]
          /\ \E l \in {"read", "send"} : pc' = [pc EXCEPT ![c] = l]
      BY <2>8 DEF Send, Goto
    <3>2. pc' \in [Clients -> {"none", "unborn", "joined"} \cup Alive]
      BY <3>1 DEF ThreadTypeOK, Alive, InFile
    <3>3. chunk[c] \in Seq(Items) /\ chunk[c] # << >> /\ got[c] \in Seq(Items)
      BY <2>8 DEF Send, ServerInv, ReplyOK, ThreadTypeOK, NotesTypeOK
    <3>4. Head(chunk[c]) \in Items /\ Tail(chunk[c]) \in Seq(Items)
      BY <3>3, HeadTailProperties
    <3>5. Append(got[c], Head(chunk[c])) \in Seq(Items)
      BY <3>3, <3>4
    <3>6. got' \in [Clients -> Seq(Items)]
      BY <3>1, <3>5 DEF NotesTypeOK
    <3>7. chunk' \in [Clients -> Seq(Items)]
      BY <3>1, <3>4 DEF ThreadTypeOK
    <3> QED
      BY <2>1, <3>1, <3>2, <3>6, <3>7 DEF ThreadTypeOK, NotesTypeOK
  <2>9. CASE Unlock(c)
    <3>1. /\ UNCHANGED <<due, got, fate, short>>
          /\ \E l \in {"done", "log"} : pc' = [pc EXCEPT ![c] = l]
      BY <2>9 DEF Unlock, Goto, notes, history
    <3>2. pc' \in [Clients -> {"none", "unborn", "joined"} \cup Alive]
      BY <3>1 DEF ThreadTypeOK, Alive
    <3>3. used' \in [Clients -> 0 .. MaxParts]
      BY <2>9 DEF Unlock, Forget, ThreadTypeOK
    <3>4. off' \in [Clients -> Nat]
      BY <2>9 DEF Unlock, Forget, ThreadTypeOK
    <3>5. chunk' \in [Clients -> Seq(Items)]
      BY <2>9 DEF Unlock, Forget, ThreadTypeOK
    <3> QED
      BY <2>1, <3>1, <3>2, <3>3, <3>4, <3>5 DEF ThreadTypeOK, NotesTypeOK
  <2> QED
    BY <1>8, <2>2, <2>3, <2>4, <2>5, <2>6, <2>7, <2>8, <2>9 DEF ByThread, ThreadStep
<1>9. CASE UNCHANGED vars
  BY <1>2, <1>9 DEF vars, work, locals, notes, history
<1> QED
  BY <1>3, <1>4, <1>5, <1>6, <1>7, <1>8, <1>9, NextKinds

-----------------------------------------------------------------------------
\* What a thread's step does to the others and to the mutex.
LEMMA ThreadOthers ==
  ASSUME TypeOK, NEW c \in Clients, ByThread(c), NEW d \in Clients \ {c}
  PROVE  UNCHANGED <<pc[d], used[d], off[d], chunk[d], due[d], got[d], fate[d]>>
<1>1. ThreadTypeOK /\ NotesTypeOK
  BY DEF TypeOK
<1> USE <1>1 DEF ThreadTypeOK, NotesTypeOK
<1>2. CASE \/ Begin(c) \/ NoBuffer(c) \/ RecvNothing(c) \/ AppendFails(c) \/ ReopenFails(c)
           \/ ReadFails(c) \/ SendFails(c) \/ ReadEnds(c)
  BY <1>2 DEF Begin, NoBuffer, RecvNothing, AppendFails, ReopenFails, ReadFails, SendFails,
     ReadEnds, Goto, Fails, locals, history
<1>3. CASE Recv(c) \/ Lock(c) \/ LogClosed(c) \/ Read(c)
  BY <1>3 DEF Recv, Lock, LogClosed, Read, Goto, locals, notes, history
<1>4. CASE AppendRequest(c) \/ Send(c)
  BY <1>4 DEF AppendRequest, Send, Goto
<1>5. CASE Unlock(c)
  BY <1>5 DEF Unlock, Forget, Goto, notes, history
<1> QED
  BY <1>2, <1>3, <1>4, <1>5 DEF ByThread, ThreadStep

LEMMA ThreadMutex ==
  ASSUME TypeOK, NEW c \in Clients, ByThread(c)
  PROVE  \/ mutex' = mutex /\ (pc'[c] \in InFile <=> pc[c] \in InFile)
         \/ mutex = NULL /\ mutex' = c /\ pc[c] \notin InFile /\ pc'[c] \in InFile
         \/ mutex' = NULL /\ pc[c] \in InFile /\ pc'[c] \notin InFile
<1>1. ThreadTypeOK
  BY DEF TypeOK
<1> USE <1>1 DEF ThreadTypeOK, Goto, InFile
<1>2. CASE Begin(c) \/ NoBuffer(c) \/ Recv(c) \/ RecvNothing(c) \/ LogClosed(c)
  BY <1>2 DEF Begin, NoBuffer, Recv, RecvNothing, LogClosed
<1>3. CASE \/ AppendFails(c) \/ ReopenFails(c) \/ Read(c) \/ ReadFails(c) \/ SendFails(c)
           \/ ReadEnds(c) \/ AppendRequest(c) \/ Send(c)
  BY <1>3 DEF AppendFails, ReopenFails, Read, ReadFails, SendFails, ReadEnds, AppendRequest, Send
<1>4. CASE Lock(c)
  BY <1>4 DEF Lock
<1>5. CASE Unlock(c)
  BY <1>5 DEF Unlock
<1> QED
  BY <1>2, <1>3, <1>4, <1>5 DEF ByThread, ThreadStep

\* Main only starts threads and joins those that have ended.
LEMMA MainThreads ==
  ASSUME ServerInv, ByMain, NEW c \in Clients
  PROVE  \/ pc'[c] = pc[c]
         \/ Spawn /\ c = new /\ pc[c] = "none" /\ pc'[c] \in {"start", "unborn"}
         \/ (CleanupJoins \/ JoinThread) /\ pc[c] \in {"done", "unborn"} /\ pc'[c] = "joined"
<1>1. ThreadTypeOK /\ MainTypeOK /\ ListOK /\ PeersTypeOK /\ \A d \in Clients : ConnOK(d)
  BY DEF ServerInv, TypeOK
<1> USE <1>1
<1>2. CASE Spawn
  <2>1. new \in Clients /\ main = "setup" /\ ~InList(new)
    BY <1>2 DEF Spawn, At, MainTypeOK, ListOK
  <2>2. pc[new] = "none"
    BY <2>1 DEF ConnOK
  <2>3. PICK l \in {"start", "unborn"} : pc' = [pc EXCEPT ![new] = l]
    BY <1>2 DEF Spawn, Goto
  <2> QED
    BY <1>2, <2>1, <2>2, <2>3 DEF ThreadTypeOK
<1>3. CASE CleanupJoins
  BY <1>3 DEF CleanupJoins, Goto, ThreadTypeOK
<1>4. CASE JoinThread
  BY <1>4 DEF JoinThread, Goto, ThreadTypeOK
<1>5. CASE ~(Spawn \/ CleanupJoins \/ JoinThread)
  BY <1>5 DEF ByMain, MainStep, work, MainLoop, AcceptFails, AcceptRunsOut, NoThreadInfo,
     AddThread, CleanupSkips, CleanupEnds, Shutdown, JoinTimer, Finish, Accept
<1> QED
  BY <1>2, <1>3, <1>4, <1>5

LEMMA MutexKeeps ==
  ASSUME ServerInv, [Next]_vars
  PROVE  MutexOK'
<1>1. TypeOK /\ MutexOK /\ ListOK /\ EndOK /\ NULL \notin Clients /\ Timer # NULL /\ Timer \notin Clients
  BY ThreadedServerAssumption DEF ServerInv
<1> USE <1>1
<1>2. CASE UNCHANGED <<mutex, timer, pc>>
  BY <1>2 DEF MutexOK
<1>3. ASSUME NEW c \in Clients, ByThread(c) PROVE MutexOK'
  <2>1. timer' = timer
    BY <1>3, ThreadFrame
  <2>2. \A d \in Clients \ {c} : pc'[d] = pc[d]
    BY <1>3, ThreadOthers
  <2> QED
    BY <1>3, <2>1, <2>2, ThreadMutex DEF MutexOK
<1>4. CASE TimerStep
  <2>1. pc' = pc
    BY <1>4, TimerFrame
  <2> QED
    BY <1>4, <2>1 DEF TimerStep, TimerLoop, TimerWakes, TimerLocks, AppendStamp, StampFails,
       TimerUnlocks, Tick, MutexOK
<1>5. CASE ByMain
  <2>1. mutex' = mutex /\ timer' = timer
    BY <1>5, MainFrame
  <2>2. \A c \in Clients : pc'[c] \in InFile <=> pc[c] \in InFile
    BY <1>5, MainThreads DEF InFile
  <2> QED
    BY <2>1, <2>2 DEF MutexOK
<1>6. CASE ByClient \/ Signal \/ HandlerEnds \/ UNCHANGED vars
  BY <1>2, <1>6, ClientFrame DEF Signal, HandlerEnds, vars, work, clock
<1>7. CASE Start
  <2>1. mutex' = mutex /\ pc' = pc /\ timer' \in {"check", "unborn"} /\ timer \in {"done", "unborn", "off"}
    BY <1>7 DEF Start, Running, EndOK, Created
  <2> QED
    BY <2>1 DEF MutexOK
<1>8. CASE Die
  BY <1>8 DEF Die, MutexOK, InFile
<1> QED
  BY <1>3, <1>4, <1>5, <1>6, <1>7, <1>8, NextKinds

LEMMA EndKeeps ==
  ASSUME ServerInv, [Next]_vars
  PROVE  EndOK'
<1>1. /\ TypeOK /\ MainTypeOK /\ PeersTypeOK /\ ListOK /\ EndOK
      /\ \A c \in Clients : ConnOK(c)
  BY DEF ServerInv, TypeOK
<1> USE <1>1
<1>2. CASE UNCHANGED <<main, listening, conn, timer, present, file>>
  BY <1>2 DEF EndOK
<1>3. ASSUME NEW c \in Clients, ByThread(c) PROVE EndOK'
  <2>1. UNCHANGED <<main, listening, conn, timer>>
    BY <1>3, ThreadFrame
  <2>2. pc[c] \in Alive
    BY <1>3 DEF ByThread, ThreadStep, Begin, NoBuffer, Recv, RecvNothing, Lock, AppendRequest,
       AppendFails, ReopenFails, Read, ReadEnds, ReadFails, Send, SendFails, Unlock, LogClosed,
       Alive, InFile
  <2>3. InList(c) \/ main = "add"
    BY <2>2 DEF ConnOK
  <2>4. main # "exited"
    BY <2>3 DEF ListOK, InList
  <2> QED
    BY <2>1, <2>4 DEF EndOK
<1>4. CASE TimerStep
  <2>1. UNCHANGED <<main, listening, conn>>
    BY <1>4, TimerFrame DEF peers
  <2>2. timer \notin {"done", "unborn", "off"}
    BY <1>4 DEF TimerStep, TimerLoop, TimerWakes, TimerLocks, AppendStamp, StampFails,
       TimerUnlocks, Tick
  <2> QED
    BY <2>1, <2>2 DEF EndOK
<1>5. CASE ByMain
  <2>1. timer' = timer
    BY <1>5, MainFrame
  <2> USE <2>1
  <2>2. CASE CleanupSkips \/ CleanupEnds \/ CleanupJoins \/ MainLoop \/ AcceptFails \/ AcceptRunsOut
             \/ NoThreadInfo \/ Spawn \/ AddThread \/ \E c \in Clients : Accept(c)
    <3>1. main' \notin {"join_timer", "join", "exited", "down"}
      BY <2>2 DEF At, CleanupSkips, CleanupEnds, CleanupJoins, MainLoop, AcceptFails,
         AcceptRunsOut, NoThreadInfo, Spawn, AddThread, Accept
    <3> QED
      BY <3>1 DEF EndOK
  <2>3. CASE Shutdown
    <3>1. main' = "join_timer" /\ listening' = FALSE /\ Close(Queued)
      BY <2>3 DEF Shutdown, StopListening
    <3>2. \A c \in Clients : conn'[c] = IF c \in Queued THEN "closed" ELSE conn[c]
      BY <3>1, ClosesType
    <3> QED
      BY <3>1, <3>2 DEF EndOK, Queued
  <2>4. CASE JoinTimer
    <3>1. main = "join_timer" /\ timer \in {"done", "unborn"} /\ main' = "join" /\ UNCHANGED <<listening, conn>>
      BY <2>4 DEF JoinTimer, At, signal, peers
    <3> QED
      BY <3>1 DEF EndOK
  <2>5. CASE JoinThread
    <3>1. main = "join" /\ main' = "join" /\ listening' = listening /\ Close({Head(list)})
      BY <2>5 DEF JoinThread, At, signal
    <3>2. \A c \in Clients : conn'[c] \in {"closed", conn[c]}
      BY <3>1, ClosesType
    <3> QED
      BY <3>1, <3>2 DEF EndOK
  <2>6. CASE Finish
    <3>1. /\ main = "join" /\ main' = "exited" /\ present' = FALSE /\ file' = << >>
          /\ UNCHANGED <<listening, conn>>
      BY <2>6 DEF Finish, At, signal, peers
    <3> QED
      BY <3>1 DEF EndOK
  <2> QED
    BY <1>5, <2>2, <2>3, <2>4, <2>5, <2>6 DEF ByMain, MainStep
<1>6. ASSUME NEW c \in Clients, Client(c), Aside PROVE EndOK'
  <2>1. UNCHANGED <<main, listening, timer, present, file>>
    BY <1>6, ClientFrame DEF ByClient
  <2>2. conn' = conn \/ listening
    BY <1>6 DEF Client, Connect, SendPart, EndSend, Hangup, TakeReply
  <2> QED
    BY <2>1, <2>2 DEF EndOK
<1>7. CASE Signal \/ UNCHANGED vars
  BY <1>2, <1>7 DEF Signal, vars, process, signal, work, data, clock, peers
<1>8. CASE HandlerEnds
  <2>1. /\ UNCHANGED <<main, timer, present, file>>
        /\ listening' = FALSE /\ Close(Queued)
    BY <1>8 DEF HandlerEnds, StopListening, process, work, data, clock
  <2>2. \A c \in Clients : conn'[c] \in {"closed", conn[c]}
    BY <2>1, ClosesType
  <2> QED
    BY <2>1, <2>2 DEF EndOK
<1>9. CASE Start
  <2>1. main' = "loop"
    BY <1>9 DEF Start
  <2> QED
    BY <2>1 DEF EndOK
<1>10. CASE Die
  <2>1. /\ main' = "down" /\ timer' = "off" /\ listening' = FALSE
        /\ Close({c \in Clients : conn[c] # "none"})
    BY <1>10 DEF Die, CloseAll
  <2>2. \A c \in Clients : conn'[c] \in {"closed", "none"}
    BY <2>1, ClosesType
  <2> QED
    BY <2>1, <2>2 DEF EndOK
<1> QED
  BY <1>3, <1>4, <1>5, <1>6, <1>7, <1>8, <1>9, <1>10, NextKinds DEF ByClient

LEMMA ThreadAlive ==
  ASSUME TypeOK, NEW c \in Clients, ByThread(c)
  PROVE  pc[c] \in Alive /\ pc'[c] \in Alive
<1>1. pc[c] \in Alive
  BY DEF ByThread, ThreadStep, Begin, NoBuffer, Recv, RecvNothing, Lock, AppendRequest, AppendFails,
     ReopenFails, Read, ReadEnds, ReadFails, Send, SendFails, Unlock, LogClosed, Alive, InFile
<1>2. \E l \in Alive : Goto(c, l)
  BY DEF ByThread, ThreadStep, Begin, NoBuffer, Recv, RecvNothing, Lock, AppendRequest, AppendFails,
     ReopenFails, Read, ReadEnds, ReadFails, Send, SendFails, Unlock, LogClosed, Alive, InFile
<1>3. \A l : Goto(c, l) => pc'[c] = l
  BY DEF Goto, TypeOK, ThreadTypeOK
<1> QED
  BY <1>1, <1>2, <1>3

\* Closing what is in the queue touches no listed connection.
LEMMA QueueCloses ==
  ASSUME ServerInv, Close(Queued), UNCHANGED <<new, list, pc>>, main \in {"setup", "add"} => main' = main,
         main' \in {"setup", "add"} => main' = main, NEW c \in Clients
  PROVE  ConnOK(c)'
<1>1. PeersTypeOK /\ ConnOK(c)
  BY DEF ServerInv, TypeOK
<1>2. conn'[c] = IF conn[c] = "queued" THEN "closed" ELSE conn[c]
  BY <1>1, ClosesType DEF Queued
<1>3. peer'[c] = "off" => peer[c] = "off" /\ conn'[c] = conn[c]
  BY DEF Close
<1> QED
  BY <1>1, <1>2, <1>3 DEF ConnOK, InList

LEMMA ConnKeeps ==
  ASSUME ServerInv, [Next]_vars, NEW c \in Clients
  PROVE  ConnOK(c)'
<1>1. /\ TypeOK /\ MainTypeOK /\ PeersTypeOK /\ ThreadTypeOK /\ ListOK /\ EndOK /\ ConnOK(c)
      /\ NULL \notin Clients
  BY ThreadedServerAssumption DEF ServerInv, TypeOK
<1> USE <1>1
<1>2. CASE UNCHANGED <<main, new, list, conn, peer, pc>>
  BY <1>2 DEF ConnOK, InList
<1>3. ASSUME NEW d \in Clients, ByThread(d) PROVE ConnOK(c)'
  <2>1. UNCHANGED <<main, new, list, conn, peer>>
    BY <1>3, ThreadFrame
  <2>2. CASE c = d
    BY <1>3, <2>1, <2>2, ThreadAlive DEF ConnOK, InList, Alive, InFile
  <2>3. CASE c # d
    <3>1. pc'[c] = pc[c]
      BY <1>3, <2>3, ThreadOthers
    <3> QED
      BY <2>1, <3>1 DEF ConnOK, InList
  <2> QED
    BY <2>2, <2>3
<1>4. CASE TimerStep \/ Signal \/ UNCHANGED vars
  BY <1>2, <1>4, TimerFrame DEF Signal, vars, process, peers, work
<1>5. ASSUME NEW d \in Clients, Client(d), Aside PROVE ConnOK(c)'
  <2>1. UNCHANGED <<main, new, list, pc>>
    BY <1>5, ClientFrame DEF ByClient
  <2>2. CASE Connect(d)
    BY <2>1, <2>2 DEF Connect, ConnOK, InList, PeersTypeOK
  <2>3. CASE SendPart(d) \/ EndSend(d) \/ Hangup(d) \/ TakeReply(d)
    <3>1. conn' = conn /\ (peer'[c] = peer[c] \/ peer'[c] # "off")
      BY <2>3 DEF SendPart, EndSend, Hangup, TakeReply, PeersTypeOK
    <3> QED
      BY <2>1, <3>1 DEF ConnOK, InList
  <2> QED
    BY <1>5, <2>2, <2>3 DEF Client
<1>6. CASE ByMain
  <2>1. CASE MainLoop \/ AcceptFails \/ AcceptRunsOut \/ CleanupSkips \/ CleanupEnds \/ JoinTimer \/ Finish
    <3>1. /\ UNCHANGED <<new, list, conn, peer, pc>>
          /\ main \notin {"setup", "add"} /\ main' \notin {"setup", "add"}
      BY <2>1 DEF MainLoop, AcceptFails, AcceptRunsOut, CleanupSkips, CleanupEnds, JoinTimer, Finish,
         At, signal, work, peers
    <3> QED
      BY <3>1 DEF ConnOK, InList
  <2>2. ASSUME NEW d \in Clients, Accept(d) PROVE ConnOK(c)'
    <3>1. /\ main = "accept" /\ main' = "setup" /\ new' = d /\ UNCHANGED <<list, peer, pc>>
          /\ conn[d] = "queued" /\ conn' = [conn EXCEPT ![d] = "open"]
      BY <2>2 DEF Accept, At, TakeFromQueue, Queued, work
    <3>2. new = NULL /\ conn'[c] = IF c = d THEN "open" ELSE conn[c]
      BY <3>1 DEF ListOK, PeersTypeOK
    <3>3. InList(c)' <=> InList(c)
      BY <3>1 DEF InList
    <3> QED
      BY <3>1, <3>2, <3>3 DEF ConnOK, Alive, InFile
  <2>3. CASE NoThreadInfo
    <3>1. /\ main = "setup" /\ main' = "loop" /\ new' = NULL /\ UNCHANGED <<list, pc>> /\ Close({new})
      BY <2>3 DEF NoThreadInfo, At, work
    <3>2. conn'[c] = IF c = new THEN "closed" ELSE conn[c]
      BY <3>1, ClosesType
    <3>3. ~InList(new) /\ (InList(c)' <=> InList(c)) /\ (peer'[c] = "off" => c # new /\ peer[c] = "off")
      BY <3>1 DEF InList, ListOK, Close
    <3> QED
      BY <3>1, <3>2, <3>3 DEF ConnOK, Alive, InFile
  <2>4. CASE Spawn
    <3>1. /\ main = "setup" /\ main' = "add" /\ UNCHANGED <<new, list, conn, peer>>
      BY <2>4 DEF Spawn, At, peers
    <3>2. /\ c = new => pc'[c] \in {"start", "unborn"}
          /\ c # new => pc'[c] = pc[c]
      BY <2>4 DEF Spawn, Goto, ThreadTypeOK
    <3>3. InList(c)' <=> InList(c)
      BY <3>1 DEF InList
    <3> QED
      BY <3>1, <3>2, <3>3 DEF ConnOK, ListOK, Alive
  <2>5. CASE AddThread
    <3>1. /\ main = "add" /\ main' = "cleanup" /\ new # NULL /\ new' = NULL
          /\ list' = <<new>> \o list /\ UNCHANGED <<conn, peer, pc>>
      BY <2>5 DEF AddThread, At, ListOK, work, peers
    <3>2. InList(c)' <=> InList(c) \/ c = new
      BY <3>1, PushedList
    <3> QED
      BY <3>1, <3>2 DEF ConnOK
  <2>6. ASSUME NEW i \in 1 .. Len(list), list' = Unlinked(list, i), Goto(list[i], "joined"),
               Close({list[i]}), UNCHANGED <<main, new>>, main \in {"cleanup", "join"}
        PROVE  ConnOK(c)'
    <3>1. list[i] \in Clients /\ (InList(c)' <=> InList(c) /\ c # list[i])
      BY <2>6, UnlinkedList
    <3>2. new = NULL
      BY <2>6 DEF ListOK
    <3>3. conn'[c] = IF c = list[i] THEN "closed" ELSE conn[c]
      BY <2>6, ClosesType
    <3>4. peer'[c] = "off" => c # list[i] /\ peer[c] = "off"
      BY <2>6 DEF Close
    <3>5. pc'[c] = IF c = list[i] THEN "joined" ELSE pc[c]
      BY <2>6, <3>1 DEF Goto, ThreadTypeOK
    <3> QED
      BY <2>6, <3>1, <3>2, <3>3, <3>4, <3>5 DEF ConnOK, Alive, InFile
  <2>7. CASE CleanupJoins
    <3>1. curr \in 1 .. Len(list)
      BY <2>7 DEF CleanupJoins, MainTypeOK
    <3> QED
      BY <2>6, <2>7, <3>1 DEF CleanupJoins, At
  <2>8. CASE JoinThread
    <3>1. 1 \in 1 .. Len(list) /\ Tail(list) = Unlinked(list, 1) /\ Head(list) = list[1]
      BY <2>8, TailUnlinks DEF JoinThread, MainTypeOK
    <3> QED
      BY <2>6, <2>8, <3>1 DEF JoinThread, At
  <2>9. CASE Shutdown
    <3>1. /\ main = "shutdown" /\ main' = "join_timer" /\ UNCHANGED <<new, list, pc>> /\ Close(Queued)
      BY <2>9 DEF Shutdown, At, StopListening, work
    <3> QED
      BY <3>1, QueueCloses
  <2> QED
    BY <1>6, <2>1, <2>2, <2>3, <2>4, <2>5, <2>7, <2>8, <2>9 DEF ByMain, MainStep
<1>7. CASE HandlerEnds
  <2>1. Close(Queued) /\ UNCHANGED <<main, new, list, pc>>
    BY <1>7 DEF HandlerEnds, StopListening, process, work
  <2> QED
    BY <2>1, QueueCloses
<1>8. CASE Start
  <2>1. /\ main \in {"down", "exited"} /\ main' = "loop" /\ UNCHANGED <<new, list, conn, peer, pc>>
    BY <1>8 DEF Start, Running, peers
  <2> QED
    BY <2>1 DEF ConnOK, InList
<1>9. CASE Die
  <2>1. /\ main' = "down" /\ new' = NULL /\ list' = << >>
        /\ pc'[c] = IF pc[c] = "none" THEN "none" ELSE "joined"
    BY <1>9 DEF Die
  <2>2. ~InList(c)'
    BY <2>1 DEF InList
  <2>3. /\ conn'[c] = IF conn[c] # "none" THEN "closed" ELSE "none"
        /\ peer'[c] = "off" => conn'[c] = "none"
    BY <1>9 DEF Die, CloseAll, Close
  <2> QED
    BY <2>1, <2>2, <2>3 DEF ConnOK, Alive, InFile
<1> QED
  BY <1>3, <1>4, <1>5, <1>6, <1>7, <1>8, <1>9, NextKinds DEF ByClient

-----------------------------------------------------------------------------
LEMMA FateKeeps ==
  ASSUME ServerInv, [Next]_vars, NEW c \in Clients
  PROVE  FateOK(c)'
<1>1. /\ TypeOK /\ MainTypeOK /\ PeersTypeOK /\ ThreadTypeOK /\ NotesTypeOK /\ ListOK
      /\ ConnOK(c) /\ FateOK(c) /\ NULL \notin Clients
  BY ThreadedServerAssumption DEF ServerInv, TypeOK
<1> USE <1>1 DEF FateOK, Before, InHand, After
<1>2. CASE /\ UNCHANGED <<pc[c], used[c], due[c], got[c], fate[c]>>
           /\ conn'[c] # "closed" => conn[c] # "closed"
  BY <1>2
<1>3. ASSUME NEW d \in Clients, ByThread(d), c # d PROVE FateOK(c)'
  BY <1>2, <1>3, ThreadFrame, ThreadOthers
<1>4. ASSUME ByThread(c) PROVE FateOK(c)'
  <2>1. CASE Begin(c) \/ RecvNothing(c)
    BY <2>1 DEF Begin, RecvNothing, Goto, Fails, locals, history, ThreadTypeOK, NotesTypeOK
  <2>2. CASE NoBuffer(c) \/ AppendFails(c) \/ ReopenFails(c) \/ ReadFails(c) \/ SendFails(c)
    BY <2>2 DEF NoBuffer, AppendFails, ReopenFails, ReadFails, SendFails, Goto, Fails,
       locals, history, ThreadTypeOK, NotesTypeOK
  <2>3. CASE Recv(c)
    <3>1. used'[c] = Min2(sent[c], BufParts) /\ sent[c] \in 1 .. MaxParts
      BY <2>3 DEF Recv, ThreadTypeOK, PeersTypeOK
    <3>2. used'[c] \in 1 .. MaxParts
      BY <3>1, SocketPeersAssumption, ThreadedServerAssumption DEF Min2
    <3> QED
      BY <2>3, <3>2 DEF Recv, Goto, notes, history, ThreadTypeOK
  <2>4. CASE Lock(c) \/ LogClosed(c)
    BY <2>4 DEF Lock, LogClosed, Goto, locals, notes, history, ThreadTypeOK
  <2>5. CASE AppendRequest(c) \/ Send(c)
    BY <2>5 DEF AppendRequest, Send, Goto, ThreadTypeOK
  <2>6. CASE Read(c)
    BY <2>6 DEF Read, Goto, notes, history, ThreadTypeOK
  <2>7. CASE ReadEnds(c)
    BY <2>7 DEF ReadEnds, Goto, history, ThreadTypeOK, NotesTypeOK
  <2>8. CASE Unlock(c)
    BY <2>8 DEF Unlock, Goto, notes, history, ThreadTypeOK
  <2> QED
    BY <1>4, <2>1, <2>2, <2>3, <2>4, <2>5, <2>6, <2>7, <2>8 DEF ByThread, ThreadStep
<1>5. CASE TimerStep \/ Signal \/ Start \/ UNCHANGED vars
  BY <1>2, <1>5, TimerFrame DEF Signal, Start, vars, work, locals, notes, history, peers
<1>6. ASSUME NEW d \in Clients, Client(d), Aside PROVE FateOK(c)'
  <2>1. UNCHANGED <<pc, used, due, got, fate>>
    BY <1>6, ClientFrame DEF ByClient
  <2>2. conn'[c] # "closed" => conn[c] # "closed"
    <3>1. CASE Connect(d)
      BY <3>1 DEF Connect, ConnOK, PeersTypeOK
    <3>2. CASE conn' = conn
      BY <3>2
    <3> QED
      BY <1>6, <3>1, <3>2 DEF Client, SendPart, EndSend, Hangup, TakeReply
  <2> QED
    BY <1>2, <2>1, <2>2
<1>7. ASSUME Fails(Queued), Close(Queued), UNCHANGED <<pc, used, due, got>> PROVE FateOK(c)'
  <2>1. fate'[c] = IF c \in Queued /\ fate[c] = "none" THEN "failed" ELSE fate[c]
    BY <1>7, FailsType DEF NotesTypeOK
  <2>2. conn'[c] = IF c \in Queued THEN "closed" ELSE conn[c]
    BY <1>7, ClosesType
  <2>3. c \in Queued => pc[c] = "none"
    BY DEF Queued, ConnOK
  <2> QED
    BY <1>7, <2>1, <2>2, <2>3
<1>8. CASE HandlerEnds
  BY <1>7, <1>8 DEF HandlerEnds, StopListening, work, locals, history
<1>9. CASE ByMain
  <2>1. UNCHANGED <<used, due, got>>
    BY <1>9, MainFrame
  <2> USE <2>1
  <2>2. CASE \/ MainLoop \/ AcceptFails \/ AcceptRunsOut \/ AddThread \/ CleanupSkips \/ CleanupEnds
             \/ JoinTimer \/ Finish
    <3>1. UNCHANGED <<pc, fate, conn>>
      BY <2>2 DEF MainLoop, AcceptFails, AcceptRunsOut, AddThread, CleanupSkips, CleanupEnds,
         JoinTimer, Finish, signal, work, notes, peers
    <3> QED
      BY <1>2, <3>1
  <2>3. ASSUME NEW d \in Clients, Accept(d) PROVE FateOK(c)'
    BY <1>2, <2>3 DEF Accept, TakeFromQueue, Queued, work, notes, PeersTypeOK
  <2>4. CASE NoThreadInfo
    <3>1. Close({new}) /\ Fails({new}) /\ main = "setup" /\ pc' = pc
      BY <2>4 DEF NoThreadInfo, At, work
    <3>2. fate'[c] = IF c = new /\ fate[c] = "none" THEN "failed" ELSE fate[c]
      BY <3>1, FailsType DEF NotesTypeOK
    <3>3. conn'[c] = IF c = new THEN "closed" ELSE conn[c]
      BY <3>1, ClosesType
    <3>4. c = new => pc[c] = "none"
      BY <3>1 DEF ConnOK
    <3> QED
      BY <3>1, <3>2, <3>3, <3>4
  <2>5. CASE Spawn
    <3>1. main = "setup" /\ UNCHANGED <<conn, fate>>
      BY <2>5 DEF Spawn, At, notes, peers
    <3>2. c # new => pc'[c] = pc[c]
      BY <2>5 DEF Spawn, Goto, ThreadTypeOK
    <3>3. c = new => pc'[c] \in {"start", "unborn"} /\ pc[c] = "none" /\ conn[c] = "open"
      BY <2>5, <3>1 DEF Spawn, Goto, ThreadTypeOK, ConnOK
    <3> QED
      BY <3>1, <3>2, <3>3
  <2>6. CASE CleanupJoins \/ JoinThread
    <3>1. \E S : Close(S)
      BY <2>6 DEF CleanupJoins, JoinThread
    <3>2. conn'[c] # "closed" => conn[c] # "closed"
      BY <3>1 DEF Close
    <3>3. CASE CleanupJoins
      BY <2>1, <3>2, <3>3 DEF CleanupJoins, Goto, notes, ThreadTypeOK
    <3>4. CASE JoinThread
      <4>1. c # Head(list) => fate'[c] = fate[c] /\ pc'[c] = pc[c]
        BY <3>4 DEF JoinThread, Fails, Goto, NotesTypeOK, ThreadTypeOK
      <4>2. c = Head(list) => fate'[c] # "none" /\ pc'[c] = "joined"
        BY <3>4 DEF JoinThread, Fails, Goto, NotesTypeOK, ThreadTypeOK
      <4> QED
        BY <2>1, <3>2, <4>1, <4>2
    <3> QED
      BY <2>6, <3>3, <3>4
  <2>7. CASE Shutdown
    BY <1>7, <2>7 DEF Shutdown, StopListening, work
  <2> QED
    BY <1>9, <2>2, <2>3, <2>4, <2>5, <2>6, <2>7 DEF ByMain, MainStep
<1>10. CASE Die
  <2>1. /\ UNCHANGED <<due, got>>
        /\ pc'[c] = IF pc[c] = "none" THEN "none" ELSE "joined"
    BY <1>10 DEF Die, history
  <2>2. conn'[c] = IF conn[c] # "none" THEN "closed" ELSE "none"
    BY <1>10 DEF Die, CloseAll, Close
  <2>3. fate'[c] = IF conn[c] # "none" /\ fate[c] = "none" THEN "failed" ELSE fate[c]
    BY <1>10, FailsType DEF Die, NotesTypeOK
  <2>4. pc[c] # "none" => conn[c] # "none"
    BY DEF ConnOK
  <2> QED
    BY <2>1, <2>2, <2>3, <2>4
<1> QED
  BY <1>3, <1>4, <1>5, <1>6, <1>8, <1>9, <1>10, NextKinds DEF ByClient

\* While one thread replies nothing else writes to the file.
LEMMA FileHeld ==
  ASSUME ServerInv, [Next]_vars, NEW c \in Clients, pc[c] \in {"read", "send"}
  PROVE  file' = file
<1>1. /\ TypeOK /\ MutexOK /\ ListOK /\ ConnOK(c) /\ NULL \notin Clients \cup {Timer} /\ Timer \notin Clients
  BY ThreadedServerAssumption DEF ServerInv
<1>2. mutex = c
  BY <1>1 DEF MutexOK, InFile
<1>3. ASSUME NEW d \in Clients, ByThread(d) PROVE file' = file
  <2>1. CASE AppendRequest(d)
    <3>1. mutex = d
      BY <1>1, <2>1 DEF AppendRequest, MutexOK, InFile
    <3> QED
      BY <1>2, <2>1, <3>1 DEF AppendRequest
  <2>2. CASE ~AppendRequest(d)
    BY <1>3, <2>2 DEF ByThread, ThreadStep, data, Begin, NoBuffer, Recv, RecvNothing, Lock, AppendFails,
       ReopenFails, Read, ReadEnds, ReadFails, Send, SendFails, Unlock, LogClosed
  <2> QED
    BY <2>1, <2>2
<1>4. CASE TimerStep
  <2>1. timer # "append"
    BY <1>1, <1>2 DEF MutexOK
  <2> QED
    BY <1>4, <2>1 DEF TimerStep, TimerLoop, TimerWakes, TimerLocks, AppendStamp, StampFails,
       TimerUnlocks, Tick, data
<1>5. CASE ByMain
  <2>1. CASE Finish
    <3>1. list = << >> /\ main = "join"
      BY <2>1 DEF Finish, At
    <3>2. ~InList(c)
      BY <3>1 DEF InList
    <3> QED
      BY <1>1, <3>1, <3>2 DEF ConnOK, Alive, InFile
  <2>2. CASE ~Finish
    BY <1>5, <2>2 DEF ByMain, MainStep, work, data, MainLoop, AcceptFails, AcceptRunsOut,
       NoThreadInfo, Spawn, AddThread, CleanupSkips, CleanupJoins, CleanupEnds, Shutdown,
       JoinTimer, JoinThread, Accept
  <2> QED
    BY <2>1, <2>2
<1>6. CASE ByClient \/ Signal \/ HandlerEnds \/ Start \/ Die \/ UNCHANGED vars
  BY <1>6, ClientFrame DEF Signal, HandlerEnds, Start, Die, vars, work, data
<1> QED
  BY <1>3, <1>4, <1>5, <1>6, NextKinds

LEMMA ReplyKeeps ==
  ASSUME ServerInv, [Next]_vars, NEW c \in Clients
  PROVE  ReplyOK(c)'
<1>1. /\ TypeOK /\ FileTypeOK /\ ThreadTypeOK /\ NotesTypeOK /\ FateOK(c) /\ ReplyOK(c)
      /\ FileTypeOK' /\ NULL \notin Clients
  BY FileKeeps, ThreadedServerAssumption DEF ServerInv, TypeOK
<1> USE <1>1
<1>2. CASE pc'[c] \notin {"read", "send"}
  BY <1>2 DEF ReplyOK
<1>3. CASE pc[c] \in {"read", "send"} /\ UNCHANGED <<pc[c], off[c], chunk[c], due[c], got[c]>>
  BY <1>3, FileHeld DEF ReplyOK
<1>4. CASE UNCHANGED <<pc[c], off[c], chunk[c], due[c], got[c]>>
  BY <1>2, <1>3, <1>4
<1>5. ASSUME NEW d \in Clients, ByThread(d), c # d PROVE ReplyOK(c)'
  BY <1>4, <1>5, ThreadOthers
<1>6. ASSUME ByThread(c) PROVE ReplyOK(c)'
  <2>1. CASE \/ Begin(c) \/ NoBuffer(c) \/ Recv(c) \/ RecvNothing(c) \/ Lock(c) \/ AppendFails(c)
             \/ ReopenFails(c) \/ ReadEnds(c) \/ ReadFails(c) \/ SendFails(c) \/ Unlock(c) \/ LogClosed(c)
    BY <1>2, <2>1 DEF Begin, NoBuffer, Recv, RecvNothing, Lock, AppendFails, ReopenFails, ReadEnds,
       ReadFails, SendFails, Unlock, LogClosed, Goto, ThreadTypeOK
  <2>2. CASE AppendRequest(c)
    <3>1. pc'[c] = "read" /\ due'[c] = file' /\ off'[c] = 0 /\ got'[c] = << >>
      BY <2>2 DEF AppendRequest, Goto, FateOK, Before, ThreadTypeOK, NotesTypeOK
    <3>2. Len(file') \in Nat /\ Len(got'[c]) = 0
      BY <3>1 DEF FileTypeOK
    <3> QED
      BY <3>1, <3>2 DEF ReplyOK
  <2>3. CASE Read(c)
    <3> DEFINE o == off[c]
               n == Min2(off[c] + ChunkParts, Len(file))
               s == SubSeq(file, o + 1, n)
    <3>1. /\ pc[c] = "read" /\ pc'[c] = "send" /\ o < Len(file)
          /\ due'[c] = due[c] /\ got'[c] = got[c] /\ off'[c] = n /\ chunk'[c] = s
          /\ file' = file
      BY <2>3 DEF Read, Goto, notes, history, data, ThreadTypeOK
    <3>2. /\ due[c] = file /\ Len(got[c]) = o
          /\ \A i \in 1 .. Len(got[c]) : got[c][i] = file[i]
      BY <3>1 DEF ReplyOK
    <3>3. o \in Nat /\ Len(file) \in Nat /\ file \in Seq(Items)
      BY DEF ThreadTypeOK, FileTypeOK
    <3>4. n \in Nat /\ o < n /\ n <= Len(file)
      <4>1. ChunkParts \in Nat \ {0}
        BY ThreadedServerAssumption
      <4>2. CASE o + ChunkParts < Len(file)
        <5>1. n = o + ChunkParts
          BY <4>2 DEF Min2
        <5> QED
          BY <3>3, <4>1, <4>2, <5>1
      <4>3. CASE ~(o + ChunkParts < Len(file))
        <5>1. n = Len(file)
          BY <4>3 DEF Min2
        <5> QED
          BY <3>1, <3>3, <5>1
      <4> QED
        BY <4>2, <4>3
    <3> HIDE DEF n, o
    <3>5. \A i \in o + 1 .. n : file[i] \in Items
      BY <3>3, <3>4
    <3>6. /\ s \in Seq(Items) /\ Len(s) = n - o
          /\ \A i \in 1 .. n - o : s[i] = file[o + i]
      <4>1. n - (o + 1) + 1 = n - o /\ o + 1 \in Nat /\ ~(o + 1 > n + 1)
        BY <3>3, <3>4
      <4>2. \A i \in 1 .. n - o : (o + 1) + i - 1 = o + i
        BY <3>3, <3>4
      <4> QED
        BY <3>3, <3>4, <3>5, <4>1, <4>2, SubSeqProperties
    <3>7. s # << >> /\ o + Len(s) = n /\ o <= n
      BY <3>3, <3>4, <3>6
    <3> HIDE DEF s
    <3> QED
      BY <3>1, <3>2, <3>4, <3>6, <3>7 DEF ReplyOK
  <2>4. CASE Send(c)
    <3> DEFINE g == got[c]
               h == chunk[c]
    <3>1. /\ pc[c] = "send" /\ pc'[c] = (IF Len(h) = 1 THEN "read" ELSE "send")
          /\ due'[c] = due[c] /\ off'[c] = off[c] /\ file' = file
          /\ got'[c] = Append(g, Head(h)) /\ chunk'[c] = Tail(h)
      BY <2>4 DEF Send, Goto, data, ThreadTypeOK, NotesTypeOK
    <3>2. /\ due[c] = file /\ off[c] <= Len(file)
          /\ h # << >> /\ Len(g) + Len(h) = off[c]
          /\ \A i \in 1 .. Len(g) : g[i] = file[i]
          /\ \A i \in 1 .. Len(h) : h[i] = file[Len(g) + i]
      BY <3>1 DEF ReplyOK
    <3>3. /\ g \in Seq(Items) /\ h \in Seq(Items) /\ off[c] \in Nat /\ Len(file) \in Nat
          /\ Len(g) \in Nat /\ Len(h) \in Nat
      BY DEF ThreadTypeOK, NotesTypeOK, FileTypeOK
    <3> HIDE DEF g, h
    <3>4. /\ Len(h) # 0 /\ Head(h) = h[1] /\ Head(h) \in Items
      BY <3>2, <3>3
    <3>5. /\ Tail(h) \in Seq(Items) /\ Len(Tail(h)) = Len(h) - 1
          /\ \A i \in 1 .. Len(h) - 1 : Tail(h)[i] = h[i + 1]
      BY <3>2, <3>3, HeadTailProperties
    <3>6. /\ Append(g, Head(h)) \in Seq(Items) /\ Len(Append(g, Head(h))) = Len(g) + 1
          /\ \A i \in 1 .. Len(g) : Append(g, Head(h))[i] = g[i]
          /\ Append(g, Head(h))[Len(g) + 1] = Head(h)
      BY <3>3, <3>4, AppendProperties
    <3> DEFINE a == Append(g, Head(h))
               t == Tail(h)
    <3>7. Head(h) = file[Len(g) + 1]
      <4>1. 1 \in 1 .. Len(h)
        BY <3>3, <3>4
      <4>2. h[1] = file[Len(g) + 1]
        BY <3>2, <4>1
      <4> QED
        BY <3>4, <4>2
    <3> HIDE DEF a, t
    <3>8. ASSUME NEW i \in 1 .. Len(a) PROVE a[i] = file[i]
      <4>1. /\ Len(a) = Len(g) + 1 /\ a[Len(g) + 1] = Head(h)
            /\ \A j \in 1 .. Len(g) : a[j] = g[j]
        BY <3>6 DEF a
      <4>2. i \in 1 .. Len(g) \/ i = Len(g) + 1
        BY <3>3, <4>1
      <4> QED
        BY <3>2, <3>7, <4>1, <4>2
    <3>9. \A i \in 1 .. Len(t) : t[i] = file[Len(a) + i]
      <4> SUFFICES ASSUME NEW i \in 1 .. Len(t) PROVE t[i] = file[Len(a) + i]
        OBVIOUS
      <4>1. i \in 1 .. Len(h) - 1 /\ i + 1 \in 1 .. Len(h) /\ Len(g) + (i + 1) = Len(a) + i
        BY <3>3, <3>5, <3>6 DEF a, t
      <4>2. t[i] = h[i + 1]
        BY <3>5, <4>1 DEF t
      <4> QED
        BY <3>2, <4>1, <4>2
    <3>10. /\ Len(a) + Len(t) = off[c] /\ Len(a) <= off[c]
           /\ pc'[c] = "read" => Len(a) = off[c]
           /\ pc'[c] = "send" => t # << >>
      <4>1. Len(a) = Len(g) + 1 /\ Len(t) = Len(h) - 1
        BY <3>5, <3>6 DEF a, t
      <4>2. pc'[c] = "read" => Len(h) = 1
        BY <3>1
      <4>3. pc'[c] = "send" => Len(t) # 0
        BY <3>1, <3>3, <4>1
      <4>4. Len(t) # 0 => t # << >>
        OBVIOUS
      <4>5. Len(a) + Len(t) = off[c] /\ Len(a) <= off[c]
        BY <3>2, <3>3, <3>4, <4>1
      <4>6. Len(h) = 1 => Len(a) = off[c]
        BY <3>2, <3>3, <4>1
      <4> QED
        BY <4>2, <4>3, <4>4, <4>5, <4>6
    <3>11. got'[c] = a /\ chunk'[c] = t
      BY <3>1 DEF a, t
    <3> QED
      BY <3>1, <3>2, <3>8, <3>9, <3>10, <3>11 DEF ReplyOK
  <2> QED
    BY <1>6, <2>1, <2>2, <2>3, <2>4 DEF ByThread, ThreadStep
<1>7. CASE TimerStep \/ ByClient \/ Signal \/ HandlerEnds \/ Start \/ UNCHANGED vars
  BY <1>4, <1>7, TimerFrame, ClientFrame DEF Signal, HandlerEnds, Start, vars, work, locals, notes, history
<1>8. CASE ByMain
  BY <1>2, <1>4, <1>8, MainFrame, MainThreads
<1>9. CASE Die
  BY <1>2, <1>9 DEF Die
<1> QED
  BY <1>5, <1>6, <1>7, <1>8, <1>9, NextKinds

-----------------------------------------------------------------------------
LEMMA InitInv == Init => ServerInv
<1> SUFFICES ASSUME Init PROVE ServerInv
  OBVIOUS
<1> USE SocketPeersAssumption, ThreadedServerAssumption
<1>1. MainTypeOK
  <2>1. list = << >> /\ << >> \in Seq(Clients) /\ Len(list) = 0 /\ curr = 1
    BY EmptySeq DEF Init
  <2>2. curr \in 1 .. Len(list) + 1
    BY <2>1
  <2> QED
    BY <2>1, <2>2 DEF Init, MainTypeOK, MainLabels
<1>2. PeersTypeOK
  BY DEF Init, PeersInit, PeersTypeOK
<1>3. << >> \in Seq(Items)
  BY EmptySeq
<1>4. FileTypeOK
  BY <1>3 DEF Init, Created, FileTypeOK
<1>5. ThreadTypeOK
  BY <1>3 DEF Init, ThreadTypeOK
<1>6. NotesTypeOK
  BY <1>3 DEF Init, NotesTypeOK, Fates
<1>7. ListOK /\ \A c : ~InList(c)
  BY DEF Init, ListOK, InList
<1>8. MutexOK /\ EndOK
  BY DEF Init, Created, MutexOK, EndOK, InFile
<1>9. ASSUME NEW c \in Clients PROVE ConnOK(c) /\ FateOK(c) /\ ReplyOK(c)
  BY <1>7 DEF Init, PeersInit, ConnOK, FateOK, ReplyOK, Before, InHand, After, Alive, InFile
<1> QED
  BY <1>1, <1>2, <1>4, <1>5, <1>6, <1>7, <1>8, <1>9 DEF ServerInv, TypeOK

\* The server is always in a state that agrees with itself.
THEOREM Invariance == Spec => []ServerInv
<1>1. ServerInv /\ [Next]_vars => ServerInv'
  BY MainKeeps, PeersKeep, FileKeeps, ThreadsKeep, MutexKeeps, EndKeeps, ConnKeeps, FateKeeps,
     ReplyKeeps DEF ServerInv, TypeOK
<1> QED
  BY <1>1, InitInv, PTL DEF Spec

\* Every variable of the server, its threads and its peers stays in its set; what
\* the file holds are whole items, and no thread receives more than was sent.
THEOREM TypeCorrect == Spec => []TypeOK
<1>1. ServerInv => TypeOK
  BY DEF ServerInv
<1> QED
  BY <1>1, Invariance, PTL

\* Each open connection is listed once or in the hands of the thread that accepts
\* it, and a thread that works has its connection open: its descriptor is closed
\* once, and not under it, for any number of clients.
THEOREM Tracked == Spec => []EveryConnectionTracked
<1>1. ServerInv => EveryConnectionTracked
  BY DEF ServerInv, ConnOK, ListOK, InList, EveryConnectionTracked
<1> QED
  BY <1>1, Invariance, PTL

\* Whenever main returns after a signal the file is gone and nobody is connected
\* or holds file_mutex, however many threads were serving when the signal came.
THEOREM ExitsClean == Spec => []CleanExit
<1>1. ServerInv => CleanExit
  <2> SUFFICES ASSUME ServerInv, main = "exited" PROVE CleanExit
    BY DEF CleanExit
  <2>1. ~present /\ file = << >> /\ timer \in {"done", "unborn"} /\ \A c : ~InList(c)
    BY DEF ServerInv, EndOK, ListOK, InList
  <2>2. \A c \in Clients : pc[c] \notin Alive /\ conn[c] \in {"none", "closed"}
    <3> SUFFICES ASSUME NEW c \in Clients
                 PROVE  pc[c] \notin Alive /\ conn[c] \in {"none", "closed"}
      OBVIOUS
    <3>1. new = NULL /\ c # NULL
      BY ThreadedServerAssumption DEF ServerInv, ListOK
    <3>2. conn[c] # "open" /\ pc[c] \notin Alive
      BY <2>1, <3>1 DEF ServerInv, ConnOK
    <3>3. conn[c] \in {"none", "queued", "open", "closed"} /\ conn[c] # "queued"
      BY DEF ServerInv, EndOK, TypeOK, PeersTypeOK
    <3> QED
      BY <3>2, <3>3
  <2>3. mutex \in Clients \cup {Timer, NULL}
    BY DEF ServerInv, TypeOK, FileTypeOK
  <2>4. mutex = NULL
    BY <2>1, <2>2, <2>3 DEF ServerInv, MutexOK, Alive
  <2> QED
    BY <2>1, <2>2, <2>4 DEF CleanExit
<1> QED
  BY <1>1, Invariance, PTL

-----------------------------------------------------------------------------
\* The refinement: what each step of the server is to the shared log.
Unnoticed == UNCHANGED Log!vars

LEMMA RefineInit == Init => Log!Init
  BY DEF Init, Log!Init

LEMMA FailsIsGiveUp ==
  ASSUME ServerInv, NEW S, Fails(S), UNCHANGED <<file, due, got, short>>
  PROVE  Log!Next
<1>1. fate \in [Clients -> Fates]
  BY DEF ServerInv, TypeOK, NotesTypeOK
<1>2. /\ fate' \in [Clients -> Fates]
      /\ \A c \in Clients : fate'[c] = IF c \in S /\ fate[c] = "none" THEN "failed" ELSE fate[c]
  BY <1>1, FailsType
<1>3. Log!GiveUp
  BY <1>2 DEF Log!GiveUp, Fates
<1> QED
  BY <1>3 DEF Log!Next

\* A thread that has locked the mutex has its request still to be served.
LEMMA AppendServes ==
  ASSUME ServerInv, NEW c \in Clients, AppendRequest(c)
  PROVE  Log!Serve(c)
<1>1. fate[c] = "none" /\ due[c] = NULL /\ used[c] \in 1 .. MaxParts
  BY DEF ServerInv, AppendRequest, FateOK, Before, InHand
<1>2. PICK n \in 1 .. used[c] :
         /\ file' = file \o SubSeq(Message(c), 1, n)
         /\ short' = IF n = used[c] THEN short ELSE short \cup {c}
  BY DEF AppendRequest
<1>3. n \in 0 .. used[c]
  BY <1>1, <1>2, SocketPeersAssumption
<1>4. Log!Message(c) = Message(c)
  BY DEF Message, Log!Message
<1>5. due' = [due EXCEPT ![c] = file'] /\ UNCHANGED <<got, fate>>
  BY DEF AppendRequest
<1> QED
  BY <1>1, <1>2, <1>3, <1>4, <1>5 DEF Log!Serve

\* The item at the head of filebuf is the next one of the reply.
LEMMA SendDelivers ==
  ASSUME ServerInv, NEW c \in Clients, Send(c)
  PROVE  Log!Deliver(c)
<1> DEFINE g == got[c]
           h == chunk[c]
           k == Len(g) + 1
           a == Append(g, Head(h))
           b == SubSeq(file, 1, k)
<1>1. pc[c] = "send" /\ got' = [got EXCEPT ![c] = a] /\ UNCHANGED <<file, due, fate, short>>
  BY DEF Send, data
<1>2. /\ due[c] = file /\ off[c] <= Len(file) /\ h # << >> /\ Len(g) + Len(h) = off[c]
      /\ \A i \in 1 .. Len(g) : g[i] = file[i]
      /\ \A i \in 1 .. Len(h) : h[i] = file[Len(g) + i]
      /\ fate[c] = "none"
  BY <1>1 DEF ServerInv, ReplyOK, FateOK, InHand
<1>3. g \in Seq(Items) /\ h \in Seq(Items) /\ file \in Seq(Items) /\ off[c] \in Nat
  BY DEF ServerInv, TypeOK, ThreadTypeOK, FileTypeOK, NotesTypeOK
<1> HIDE DEF g, h
<1>4. Len(g) \in Nat /\ Len(h) \in Nat \ {0} /\ Len(file) \in Nat
  BY <1>2, <1>3, EmptySeq
<1>5. k \in Nat /\ k <= Len(file) /\ k = Len(g) + 1 /\ 1 <= k
  BY <1>2, <1>3, <1>4
<1>6. Head(h) = file[k] /\ Head(h) \in Items
  BY <1>2, <1>3, <1>4
<1>7. /\ a \in Seq(Items) /\ Len(a) = Len(g) + 1
      /\ \A i \in 1 .. Len(g) : a[i] = g[i]
      /\ a[Len(g) + 1] = Head(h)
  BY <1>3, <1>6, AppendProperties
<1> HIDE DEF a, k
<1>8. \A i \in 1 .. k : a[i] = file[i]
  BY <1>2, <1>4, <1>5, <1>6, <1>7
<1>9. b \in Seq(Items) /\ Len(b) = k /\ \A i \in 1 .. k : b[i] = file[i]
  <2>1. \A i \in 1 .. k : file[i] \in Items
    BY <1>3, <1>4, <1>5
  <2>2. k - 1 + 1 = k /\ \A i \in 1 .. k : 1 + i - 1 = i
    BY <1>5
  <2> QED
    BY <1>5, <2>1, <2>2, SubSeqProperties
<1> HIDE DEF b
<1>10. a = b
  BY <1>5, <1>7, <1>8, <1>9, SeqEqual
<1>11. got' = [got EXCEPT ![c] = SubSeq(due[c], 1, Len(got[c]) + 1)]
  BY <1>1, <1>2, <1>10 DEF b, k, g
<1>12. due[c] # NULL /\ Len(got[c]) < Len(due[c])
  <2>1. due[c] # NULL
    BY <1>2, <1>3, ThreadedServerAssumption
  <2>2. Len(g) < Len(due[c])
    BY <1>2, <1>4, <1>5
  <2> QED
    BY <2>1, <2>2 DEF g
<1> QED
  BY <1>1, <1>2, <1>11, <1>12 DEF Log!Deliver

\* At the end of the file all of it has been sent.
LEMMA ReadCompletes ==
  ASSUME ServerInv, NEW c \in Clients, ReadEnds(c)
  PROVE  Log!Complete(c)
<1> DEFINE g == got[c]
<1>1. /\ pc[c] = "read" /\ off[c] = Len(file)
      /\ fate' = [fate EXCEPT ![c] = "replied"] /\ UNCHANGED <<file, due, got, short>>
  BY DEF ReadEnds, data, history
<1>2. /\ due[c] = file /\ Len(g) = off[c] /\ fate[c] = "none"
      /\ \A i \in 1 .. Len(g) : g[i] = file[i]
  BY <1>1 DEF ServerInv, ReplyOK, FateOK, InHand
<1>3. g \in Seq(Items) /\ file \in Seq(Items)
  BY DEF ServerInv, TypeOK, FileTypeOK, NotesTypeOK
<1> HIDE DEF g
<1>4. g = file
  BY <1>1, <1>2, <1>3, SeqEqual
<1>5. due[c] # NULL /\ got[c] = due[c]
  BY <1>2, <1>3, <1>4, ThreadedServerAssumption DEF g
<1> QED
  BY <1>1, <1>2, <1>5 DEF Log!Complete

\* When the file is removed every thread has been joined.
LEMMA FinishRemoves ==
  ASSUME ServerInv, Finish
  PROVE  Log!Remove
<1>1. main = "join" /\ list = << >> /\ file' = << >> /\ UNCHANGED <<due, got, fate, short>>
  BY DEF Finish, At, notes, history
<1>2. ASSUME NEW c \in Clients PROVE due[c] # NULL => fate[c] # "none"
  <2>1. ~InList(c)
    BY <1>1 DEF InList
  <2>2. pc[c] \notin Alive \cup {"unborn"}
    BY <1>1, <2>1 DEF ServerInv, ConnOK
  <2>3. pc[c] \in {"none", "joined"}
    BY <2>2 DEF ServerInv, TypeOK, ThreadTypeOK
  <2> QED
    BY <2>3 DEF ServerInv, FateOK, Before, After
<1> QED
  BY <1>1, <1>2 DEF Log!Remove

LEMMA RefineStep ==
  ASSUME ServerInv, [Next]_vars
  PROVE  Log!Next \/ Unnoticed
<1>1. CASE UNCHANGED <<file, due, got, fate, short>>
  BY <1>1 DEF Unnoticed, Log!vars
<1>2. ASSUME NEW c \in Clients, ByThread(c) PROVE Log!Next \/ Unnoticed
  <2>1. CASE AppendRequest(c) \/ Send(c) \/ ReadEnds(c)
    BY <2>1, AppendServes, SendDelivers, ReadCompletes DEF Log!Next
  <2>2. CASE \/ NoBuffer(c) \/ RecvNothing(c) \/ AppendFails(c) \/ ReopenFails(c) \/ ReadFails(c)
             \/ SendFails(c) \/ Begin(c)
    <3>1. UNCHANGED <<file, due, got, short>> /\ (fate' = fate \/ Fails({c}))
      BY <2>2 DEF NoBuffer, RecvNothing, AppendFails, ReopenFails, ReadFails, SendFails, Begin,
         data, history
    <3> QED
      BY <1>1, <3>1, FailsIsGiveUp
  <2>3. CASE Recv(c) \/ Lock(c) \/ Read(c) \/ Unlock(c) \/ LogClosed(c)
    BY <1>1, <2>3 DEF Recv, Lock, Read, Unlock, LogClosed, data, notes, history
  <2> QED
    BY <1>2, <2>1, <2>2, <2>3 DEF ByThread, ThreadStep
<1>3. CASE TimerStep
  <2>1. UNCHANGED <<due, got, fate, short>>
    BY <1>3, TimerFrame DEF notes, history
  <2>2. CASE AppendStamp
    BY <2>1, <2>2 DEF AppendStamp, Log!TimeStamp, Log!Next
  <2>3. CASE ~AppendStamp
    BY <1>1, <1>3, <2>1, <2>3 DEF TimerStep, TimerLoop, TimerWakes, TimerLocks, StampFails,
       TimerUnlocks, data
  <2> QED
    BY <2>2, <2>3
<1>4. CASE ByMain
  <2>1. UNCHANGED <<due, got, short>>
    BY <1>4, MainFrame
  <2>2. CASE Finish
    BY <2>2, FinishRemoves DEF Log!Next
  <2>3. CASE NoThreadInfo \/ Shutdown \/ JoinThread
    <3>1. file' = file /\ \E S : Fails(S)
      BY <2>3 DEF NoThreadInfo, Shutdown, StopListening, JoinThread, work, data
    <3> QED
      BY <2>1, <3>1, FailsIsGiveUp
  <2>4. CASE ~(Finish \/ NoThreadInfo \/ Shutdown \/ JoinThread)
    BY <1>1, <1>4, <2>1, <2>4 DEF ByMain, MainStep, MainLoop, AcceptFails, AcceptRunsOut,
       Spawn, AddThread, CleanupSkips, CleanupJoins, CleanupEnds, JoinTimer, Accept, work, data, notes
  <2> QED
    BY <2>2, <2>3, <2>4
<1>5. CASE HandlerEnds \/ Die
  <2>1. UNCHANGED <<file, due, got, short>> /\ \E S : Fails(S)
    BY <1>5 DEF HandlerEnds, StopListening, Die, work, data, history
  <2> QED
    BY <2>1, FailsIsGiveUp
<1>6. CASE ByClient \/ Signal \/ Start \/ UNCHANGED vars
  BY <1>1, <1>6, ClientFrame DEF Signal, Start, vars, work, data, notes, history
<1> QED
  BY <1>2, <1>3, <1>4, <1>5, <1>6, NextKinds

\* The threaded server implements SharedLog: the request of a client is appended
\* at one instant, by the write under file_mutex, and the reply is the file as of
\* then, whatever other threads, the timer, signals and failures do meanwhile.
THEOREM Refinement == Spec => ServesTheLog
<1>1. Spec => Log!Init /\ [][Log!Next]_Log!vars
  BY RefineInit, RefineStep, Invariance, PTL DEF Spec, Unnoticed
<1> QED
  BY <1>1 DEF ServesTheLog, Log!Spec
=============================================================================
