-------------------------- MODULE LineServerProofs --------------------------
(* Theorems about the two servers that serve one client at a time, for every *)
(* number of clients, every place of the newline and every size of buffer.   *)
EXTENDS LineServer, SequenceTheorems, FiniteSetTheorems, TLAPS

WithClient == {"open", "test", "recv", "write", "reopen", "read", "send", "close"}

\* There is a client exactly in the body of the accept loop, and what was
\* received of it is part of what it sent; the counters are reset between two
\* clients.
PlaceOK ==
    /\ client # NULL <=> main \in WithClient
    /\ client # NULL => used <= sent[client]
    /\ exit_requested => program = "server"
    /\ main \notin WithClient \ {"open"} => used = 0 /\ off = 0 /\ todo = 0
    /\ main = "send" <=> todo # 0

\* Its connection is the open one, and the server that leaves keeps none.
ConnOK(c) ==
    /\ conn[c] = "open" <=> c = client
    /\ peer[c] = "off" => conn[c] = "none"
    /\ main \in {"remove", "exited", "down"} => ~listening /\ conn[c] # "queued"

\* Where the server is tells how far its client is served.
FateOK(c) ==
    /\ due[c] = NULL => got[c] = << >>
    /\ conn[c] \in {"none", "queued"} => due[c] = NULL /\ fate[c] = "none"
    /\ conn[c] = "closed" => fate[c] # "none"
    /\ c = client =>
          /\ main \in {"open", "test", "recv", "write", "reopen"} => fate[c] = "none"
          /\ main \in {"open", "test", "recv", "write"} => due[c] = NULL
          /\ main \in {"reopen", "read", "send"} => due[c] = file
          /\ main = "reopen" => off = 0 /\ got[c] = << >>
          /\ main = "close" => fate[c] # "none"
          /\ program = "server" /\ (main = "write" \/ due[c] # NULL) => used >= line[c]

\* While nothing has failed, what the client was sent is the file up to the
\* part of the chunk that is still to be sent.
ReplyOK(c) ==
    c = client /\ main \in {"read", "send"} /\ fate[c] = "none" =>
        /\ Len(got[c]) = off - todo
        /\ \A i \in 1 .. Len(got[c]) : got[c][i] = file[i]

\* A client accepted after the signal gets no further than the loop test.
LateOK ==
    \/ late = {}
    \/ /\ \E c \in Clients : late = {c}
       /\ main \in {"open", "test", "close", "loop", "end", "remove", "exited", "down"}
       /\ main = "down" \/ exit_requested
       /\ client # NULL => late = {client}
       /\ \A c \in late : due[c] = NULL /\ fate[c] # "replied"

\* The lines are in the file only as far as the newline.
FileOK ==
    /\ program = "server" => \A i \in 1 .. Len(file) : file[i].part <= line[file[i].from]
    /\ main = "exited" => ~present /\ file = << >>

ServerInv == /\ TypeOK /\ PlaceOK /\ LateOK /\ FileOK
             /\ \A c \in Clients : ConnOK(c) /\ FateOK(c) /\ ReplyOK(c)

-----------------------------------------------------------------------------
\* The kinds of steps: a client's, the end of the process, the others.
ByClient == \E c \in Clients : Client(c) /\ Aside
Receives == LoopTest \/ Recv \/ Reopen \/ SignalNoted
GivesUp  == OpenFails \/ NoBuffer \/ LoopStops \/ ReopenFails \/ ReadFails
            \/ (RecvNothing /\ program = "server") \/ SignalInRecv
Idles    == MainLoop \/ AcceptFails \/ SignalInAccept
LosesChunk == SendFails \/ SignalInSend
OneStep == \/ Idles \/ Receives \/ GivesUp \/ LosesChunk \/ OpenFile
           \/ (RecvNothing /\ program # "server")
           \/ Write \/ Read \/ ReadEnds \/ Send \/ EndClient \/ StopListening \/ Finish
           \/ Die \/ ByClient

LEMMA NextKinds ==
  ASSUME [Next]_vars
  PROVE  \/ OneStep
         \/ \E c \in Clients : Accept(c)
         \/ UNCHANGED vars
  BY DEF Next, Serve, Signal, SignalKills, BrokenPipe, ByClient, Receives, GivesUp, Idles,
     LosesChunk, OneStep

-----------------------------------------------------------------------------
LEMMA ClosesType ==
  ASSUME PeersTypeOK, NEW S, Close(S)
  PROVE  /\ conn' \in [Clients -> {"none", "queued", "open", "closed"}]
         /\ peer' \in [Clients -> {"off", "on", "eof", "gone"}]
         /\ sent' \in [Clients -> 0 .. MaxParts] /\ unread' \in [Clients -> 0 .. Window]
         /\ \A c \in Clients : conn'[c] = IF c \in S THEN "closed" ELSE conn[c]
         /\ \A c \in Clients : peer'[c] = IF c \in S THEN "gone" ELSE peer[c]
<1>1. conn' \in [Clients -> {"none", "queued", "open", "closed"}]
  BY DEF PeersTypeOK, Close
<1>2. peer' \in [Clients -> {"off", "on", "eof", "gone"}]
  BY DEF PeersTypeOK, Close
<1>3. sent' \in [Clients -> 0 .. MaxParts]
  BY SocketPeersAssumption DEF PeersTypeOK, Close
<1>4. unread' \in [Clients -> 0 .. Window]
  BY SocketPeersAssumption DEF PeersTypeOK, Close
<1> QED
  BY <1>1, <1>2, <1>3, <1>4 DEF Close

LEMMA FailsType ==
  ASSUME NotesTypeOK, NEW S, Fails(S)
  PROVE  /\ fate' \in [Clients -> {"none", "replied", "failed"}]
         /\ \A c \in Clients : fate'[c] = IF c \in S /\ fate[c] = "none" THEN "failed" ELSE fate[c]
  BY DEF Fails, NotesTypeOK

LEMMA PeersKeep ==
  ASSUME ServerInv, [Next]_vars
  PROVE  PeersTypeOK'
<1>1. PeersTypeOK
  BY DEF ServerInv, TypeOK
<1> USE <1>1, SocketPeersAssumption
<1>2. CASE UNCHANGED <<listening, peers>>
  BY <1>2 DEF PeersTypeOK, peers
<1>3. CASE listening' \in BOOLEAN /\ \E S : Close(S)
  BY <1>3, ClosesType DEF PeersTypeOK
<1>4. ASSUME NEW c \in Clients, Client(c) PROVE PeersTypeOK'
  <2>1. CASE Connect(c)
    BY <2>1 DEF Connect, PeersTypeOK
  <2>2. CASE SendPart(c)
    BY <2>2 DEF SendPart, PeersTypeOK
  <2>3. CASE EndSend(c)
    BY <2>3 DEF EndSend, PeersTypeOK
  <2>4. CASE Hangup(c)
    BY <2>4 DEF Hangup, PeersTypeOK
  <2>5. CASE TakeReply(c)
    BY <2>5 DEF TakeReply, PeersTypeOK
  <2> QED
    BY <1>4, <2>1, <2>2, <2>3, <2>4, <2>5 DEF Client
<1>5. ASSUME NEW c \in Clients, Accept(c) PROVE PeersTypeOK'
  BY <1>5 DEF Accept, TakeFromQueue, PeersTypeOK
<1>6. CASE Send
  <2>1. client \in Clients
    BY <1>6 DEF Send, Go, ServerInv, TypeOK, PlaceTypeOK, PlaceOK, WithClient
  <2> QED
    BY <1>6, <2>1 DEF Send, PutReply, PeersTypeOK
<1>7. CASE EndClient \/ StopListening \/ Die
  BY <1>3, <1>7 DEF EndClient, StopListening, Die, CloseAll, PeersTypeOK
<1>8. CASE Idles \/ Receives \/ GivesUp \/ LosesChunk
  BY <1>2, <1>8 DEF Idles, MainLoop, AcceptFails, SignalInAccept, Receives, LoopTest, Recv, Reopen,
     SignalNoted, GivesUp, OpenFails, NoBuffer, LoopStops, ReopenFails, ReadFails, RecvNothing,
     SignalInRecv, LosesChunk, SendFails, SignalInSend, Local, Arrives
<1>9. CASE OpenFile \/ RecvNothing \/ Write \/ Read \/ ReadEnds \/ Finish
  BY <1>2, <1>9 DEF OpenFile, RecvNothing, Write, Read, ReadEnds, Finish, Local
<1>10. CASE UNCHANGED vars
  BY <1>2, <1>10 DEF vars
<1> QED
  BY <1>4, <1>5, <1>6, <1>7, <1>8, <1>9, <1>10, NextKinds DEF OneStep, ByClient

\* The program, the place in it and the client.
LEMMA PlaceTypeKeeps ==
  ASSUME ServerInv, [Next]_vars
  PROVE  PlaceTypeOK'
<1>1. PlaceTypeOK
  BY DEF ServerInv, TypeOK
<1> USE <1>1 DEF PlaceTypeOK, Labels, Go, given
<1>2. CASE ByClient \/ UNCHANGED vars
  BY <1>2 DEF ByClient, Aside, vars
<1>3. CASE Idles
  BY <1>3 DEF Idles, MainLoop, AcceptFails, SignalInAccept, Local, Arrives
<1>4. CASE Receives
  BY <1>4 DEF Receives, LoopTest, Recv, Reopen, SignalNoted, Local, Arrives
<1>5. CASE GivesUp \/ LosesChunk
  BY <1>5 DEF GivesUp, OpenFails, NoBuffer, LoopStops, ReopenFails, ReadFails, RecvNothing,
     SignalInRecv, LosesChunk, SendFails, SignalInSend, LoseChunk, Local, Arrives
<1>6. CASE OpenFile \/ RecvNothing \/ Write \/ Read \/ ReadEnds \/ Send
  BY <1>6 DEF OpenFile, RecvNothing, Write, Read, ReadEnds, Send, Local
<1>7. CASE EndClient \/ StopListening \/ Finish \/ Die
  BY <1>7 DEF EndClient, StopListening, Finish, Die, Local
<1>8. ASSUME NEW c \in Clients, Accept(c) PROVE PlaceTypeOK'
  BY <1>8 DEF Accept
<1> QED
  BY <1>2, <1>3, <1>4, <1>5, <1>6, <1>7, <1>8, NextKinds DEF OneStep

\* What Write appends: at most what the newline ends.
LEMMA WriteAppends ==
  ASSUME ServerInv, Write
  PROVE  /\ client \in Clients
         /\ \E n \in 0 .. MaxParts :
               /\ file' = file \o SubSeq(Message(client), 1, n)
               /\ short' = IF n = Packet THEN short ELSE short \cup {client}
               /\ n <= Packet
               /\ program = "server" => n <= line[client]
               /\ SubSeq(Message(client), 1, n) \in Seq(Items)
               /\ Len(SubSeq(Message(client), 1, n)) = n
               /\ \A i \in 1 .. n : SubSeq(Message(client), 1, n)[i] = [from |-> client, part |-> i]
         /\ file' \in Seq(Items)
         /\ Packet \in 0 .. MaxParts /\ Packet = Request(client)
<1>1. main = "write" /\ client \in Clients
  BY DEF Write, Go, ServerInv, TypeOK, PlaceTypeOK, PlaceOK, WithClient
<1>2. PICK n \in 0 .. Packet :
         /\ file' = file \o SubSeq(Message(client), 1, n)
         /\ short' = IF n = Packet THEN short ELSE short \cup {client}
  BY DEF Write
<1>3. Packet \in 0 .. MaxParts /\ (program = "server" => Packet = line[client])
  <2>1. line[client] \in 1 .. MaxParts /\ used \in 0 .. MaxParts
    BY <1>1, LineServerAssumption DEF ServerInv, TypeOK, PlaceTypeOK, DataTypeOK
  <2> QED
    BY <2>1 DEF Packet
<1>4. n \in 0 .. MaxParts /\ n \in Nat /\ n <= Packet /\ MaxParts \in Nat /\ (program = "server" => n <= line[client])
  BY <1>2, <1>3, SocketPeersAssumption
<1> DEFINE s == SubSeq(Message(client), 1, n)
<1>5. s \in Seq(Items) /\ Len(s) = n /\ \A i \in 1 .. n : s[i] = [from |-> client, part |-> i]
  <2>1. \A i \in 1 .. n : Message(client)[i] = [from |-> client, part |-> i]
    BY <1>4 DEF Message
  <2>2. \A i \in 1 .. n : Message(client)[i] \in Items
    <3>1. ASSUME NEW i \in 1 .. MaxParts PROVE [from |-> client, part |-> i] \in Items
      BY <1>1 DEF Items
    <3>2. \A i \in 1 .. n : i \in 1 .. MaxParts
      BY <1>4
    <3> QED
      BY <2>1, <3>1, <3>2
  <2>3. n - 1 + 1 = n /\ (\A i \in 1 .. n : 1 + i - 1 = i) /\ 1 <= n + 1
    BY <1>4
  <2>4. /\ s \in Seq(Items) /\ Len(s) = (IF 1 <= n THEN n - 1 + 1 ELSE 0)
        /\ \A i \in 1 .. n - 1 + 1 : s[i] = Message(client)[1 + i - 1]
    BY <1>4, <2>2, SubSeqProperties
  <2>5. Len(s) = n
    BY <1>4, <2>4
  <2>6. \A i \in 1 .. n : s[i] = Message(client)[i]
    BY <2>3, <2>4
  <2> QED
    BY <2>1, <2>4, <2>5, <2>6
<1> HIDE DEF s
<1>6. file' \in Seq(Items)
  BY <1>2, <1>5, ConcatProperties DEF s, ServerInv, TypeOK, DataTypeOK
<1>7. Packet = Request(client)
  BY DEF Packet, Request
<1> QED
  BY <1>1, <1>2, <1>3, <1>4, <1>5, <1>6, <1>7 DEF s

LEMMA DataKeeps ==
  ASSUME ServerInv, [Next]_vars
  PROVE  DataTypeOK'
<1>1. /\ DataTypeOK /\ PlaceOK /\ PeersTypeOK /\ PlaceTypeOK
      /\ Len(file) \in Nat /\ BufParts \in Nat \ {0} /\ ChunkParts \in Nat \ {0} /\ MaxParts \in Nat \ {0}
  BY SocketPeersAssumption, LineServerAssumption DEF ServerInv, TypeOK, DataTypeOK
<1>2. CASE UNCHANGED <<used, size, off, todo, present, file>>
  BY <1>1, <1>2 DEF DataTypeOK
<1>3. CASE ByClient \/ Idles \/ UNCHANGED vars
  BY <1>2, <1>3 DEF ByClient, Aside, vars, buffer, reply, data, Idles, MainLoop, AcceptFails,
     SignalInAccept
<1>4. ASSUME NEW c \in Clients, Accept(c) PROVE DataTypeOK'
  BY <1>2, <1>4 DEF Accept, buffer, reply, data
<1>5. CASE Reopen \/ SignalNoted \/ RecvNothing \/ ReadEnds \/ StopListening
  BY <1>2, <1>5 DEF Reopen, SignalNoted, RecvNothing, ReadEnds, StopListening, buffer, reply, data
<1>6. CASE GivesUp
  <2>1. UNCHANGED <<used, size, off, todo, file>> /\ present' \in BOOLEAN
    BY <1>1, <1>6 DEF GivesUp, OpenFails, NoBuffer, LoopStops, ReopenFails, ReadFails, RecvNothing,
       SignalInRecv, buffer, reply, data, DataTypeOK
  <2> QED
    BY <1>1, <2>1 DEF DataTypeOK
<1>7. CASE LosesChunk
  <2>1. UNCHANGED <<used, size, off, present, file>> /\ todo' = 0
    BY <1>7 DEF LosesChunk, SendFails, SignalInSend, LoseChunk, buffer, data
  <2> QED
    BY <1>1, <2>1 DEF DataTypeOK, Min2
<1>8. CASE OpenFile
  <2>1. used' = 0 /\ size' = BufParts /\ present' = TRUE /\ UNCHANGED <<off, todo, file>>
    BY <1>8 DEF OpenFile, reply
  <2> QED
    BY <1>1, <2>1 DEF DataTypeOK
<1>9. CASE LoopTest
  <2>1. size' = (IF used = size THEN 2 * size ELSE size) /\ UNCHANGED <<used, off, todo, present, file>>
    BY <1>9 DEF LoopTest, reply, data
  <2> QED
    BY <1>1, <2>1 DEF DataTypeOK
<1>10. CASE Recv
  <2>1. used' = Min2(sent[client], size) /\ UNCHANGED <<size, off, todo, present, file>>
    BY <1>10 DEF Recv, reply, data
  <2>2. client \in Clients
    BY <1>1, <1>10 DEF Recv, PlaceOK, PlaceTypeOK, WithClient
  <2>3. sent[client] \in 0 .. MaxParts
    BY <1>1, <2>2 DEF PeersTypeOK
  <2>4. used' \in 0 .. MaxParts /\ used' <= size
    BY <1>1, <2>1, <2>3 DEF DataTypeOK, Min2
  <2> QED
    BY <1>1, <2>1, <2>4 DEF DataTypeOK
<1>11. CASE Write
  <2>1. UNCHANGED <<used, size, todo, present>> /\ off' = 0 /\ todo = 0
    BY <1>1, <1>11 DEF Write, Go, buffer, PlaceOK
  <2>2. file' \in Seq(Items) /\ Len(file') \in Nat
    BY <1>11, WriteAppends
  <2> QED
    BY <1>1, <2>1, <2>2 DEF DataTypeOK, Min2
<1>12. CASE Read
  <2>1. /\ UNCHANGED <<used, size, present, file>> /\ todo' = off' - off
        /\ off < Len(file) /\ off' = Min2(off + ChunkParts, Len(file))
    BY <1>12 DEF Read, buffer, data
  <2>2. off \in Nat /\ off' \in off + 1 .. Len(file) /\ off' <= off + ChunkParts
    BY <1>1, <2>1 DEF DataTypeOK, Min2
  <2>3. todo' \in 0 .. Min2(off', ChunkParts)
    BY <1>1, <2>1, <2>2 DEF Min2
  <2> QED
    BY <1>1, <2>1, <2>2, <2>3 DEF DataTypeOK
<1>13. CASE Send
  <2>1. UNCHANGED <<used, size, off, present, file>> /\ todo' = todo - 1 /\ todo # 0
    BY <1>1, <1>13 DEF Send, Go, buffer, data, PlaceOK
  <2>2. todo' \in 0 .. Min2(off, ChunkParts)
    BY <1>1, <2>1 DEF DataTypeOK, Min2
  <2> QED
    BY <1>1, <2>1, <2>2 DEF DataTypeOK
<1>14. CASE EndClient \/ Die
  <2>1. UNCHANGED <<present, file>> /\ used' = 0 /\ size' = BufParts /\ off' = 0 /\ todo' = 0
    BY <1>14 DEF EndClient, Die, data
  <2> QED
    BY <1>1, <2>1 DEF DataTypeOK, Min2
<1>15. CASE Finish
  <2>1. UNCHANGED <<used, size, off, todo>> /\ off = 0 /\ todo = 0 /\ present' = FALSE /\ file' = << >>
    BY <1>1, <1>15 DEF Finish, Go, buffer, reply, PlaceOK, WithClient
  <2>2. file' \in Seq(Items) /\ Len(file') = 0
    BY <2>1, EmptySeq
  <2>3. off' \in 0 .. Len(file') /\ todo' \in 0 .. Min2(off', ChunkParts)
    BY <1>1, <2>1, <2>2 DEF Min2
  <2>4. used' \in 0 .. MaxParts /\ size' \in Nat /\ used' <= size' /\ present' \in BOOLEAN
    BY <1>1, <2>1 DEF DataTypeOK
  <2> QED
    BY <2>2, <2>3, <2>4 DEF DataTypeOK
<1> QED
  BY <1>3, <1>4, <1>5, <1>6, <1>7, <1>8, <1>9, <1>10, <1>11, <1>12, <1>13, <1>14, <1>15, NextKinds
  DEF OneStep, Receives

LEMMA NotesKeep ==
  ASSUME ServerInv, [Next]_vars
  PROVE  NotesTypeOK'
<1>1. NotesTypeOK /\ DataTypeOK /\ PlaceTypeOK /\ PlaceOK
  BY DEF ServerInv, TypeOK
<1>2. CASE UNCHANGED history
  BY <1>1, <1>2 DEF NotesTypeOK, history
<1>3. CASE ByClient \/ Idles \/ Receives \/ UNCHANGED vars
  BY <1>2, <1>3 DEF ByClient, Aside, vars, Idles, MainLoop, AcceptFails, SignalInAccept,
     Receives, LoopTest, Recv, Reopen, SignalNoted
<1>4. CASE OpenFile \/ Read \/ EndClient \/ Finish \/ (RecvNothing /\ program # "server")
  BY <1>2, <1>4 DEF OpenFile, Read, EndClient, Finish, RecvNothing
<1>5. CASE GivesUp \/ LosesChunk \/ StopListening \/ Die
  <2>1. UNCHANGED <<late, due, got, short>> /\ \E S : Fails(S)
    BY <1>5 DEF GivesUp, OpenFails, NoBuffer, LoopStops, ReopenFails, ReadFails, RecvNothing,
       SignalInRecv, LosesChunk, SendFails, SignalInSend, LoseChunk, Drop, StopListening, Die
  <2> QED
    BY <1>1, <2>1, FailsType DEF NotesTypeOK
<1>6. ASSUME NEW c \in Clients, Accept(c) PROVE NotesTypeOK'
  BY <1>1, <1>6 DEF Accept, NotesTypeOK
<1>7. CASE Write
  <2>1. due' = [due EXCEPT ![client] = file'] /\ UNCHANGED <<late, got, fate>>
    BY <1>7 DEF Write
  <2>2. file' \in Seq(Items) /\ client \in Clients /\ short' \subseteq short \cup {client}
    BY <1>7, WriteAppends
  <2> QED
    BY <1>1, <2>1, <2>2 DEF NotesTypeOK
<1>8. CASE ReadEnds
  <2>1. /\ UNCHANGED <<late, due, got, short>>
        /\ fate' = [fate EXCEPT ![client] = IF @ = "none" THEN "replied" ELSE @]
    BY <1>8 DEF ReadEnds
  <2> QED
    BY <1>1, <2>1 DEF NotesTypeOK
<1>9. CASE Send
  <2>1. /\ UNCHANGED <<late, due, fate, short>> /\ todo # 0 /\ client \in Clients
        /\ got' = IF fate[client] = "none"
                  THEN [got EXCEPT ![client] = Append(@, file[off - todo + 1])] ELSE got
    BY <1>1, <1>9 DEF Send, Go, PlaceOK, PlaceTypeOK, WithClient
  <2>2. off - todo + 1 \in 1 .. Len(file) /\ file \in Seq(Items)
    BY <1>1, <2>1, LineServerAssumption DEF DataTypeOK, Min2
  <2>3. file[off - todo + 1] \in Items
    BY <2>2
  <2>4. Append(got[client], file[off - todo + 1]) \in Seq(Items)
    BY <1>1, <2>1, <2>3 DEF NotesTypeOK
  <2>5. got' \in [Clients -> Seq(Items)]
    BY <1>1, <2>1, <2>4 DEF NotesTypeOK
  <2> QED
    BY <1>1, <2>1, <2>5 DEF NotesTypeOK
<1> QED
  BY <1>3, <1>4, <1>5, <1>6, <1>7, <1>8, <1>9, NextKinds DEF OneStep

-----------------------------------------------------------------------------
LEMMA PlaceKeeps ==
  ASSUME ServerInv, [Next]_vars
  PROVE  PlaceOK'
<1>1. /\ PlaceOK /\ PlaceTypeOK /\ DataTypeOK /\ PeersTypeOK /\ \A c \in Clients : ConnOK(c)
      /\ NULL \notin Clients /\ (main \in WithClient => client \in Clients)
  BY LineServerAssumption DEF ServerInv, TypeOK, PlaceOK, PlaceTypeOK
<1> USE DEF WithClient
<1>2. CASE UNCHANGED vars
  BY <1>1, <1>2 DEF vars, given, buffer, reply, peers, PlaceOK
<1>3. ASSUME NEW c \in Clients, Client(c), Aside PROVE PlaceOK'
  <2>1. UNCHANGED <<program, main, client, exit_requested, used, off, todo>>
    BY <1>3 DEF Aside, given, buffer, reply
  <2>2. \A d \in Clients : sent[d] \in Nat /\ sent'[d] \in Nat /\ sent'[d] >= sent[d]
    BY <1>1, <1>3, SocketPeersAssumption
    DEF Client, Connect, SendPart, EndSend, Hangup, TakeReply, PeersTypeOK
  <2>3. client # NULL => used <= sent'[client]
    BY <1>1, <2>2 DEF PlaceOK, PlaceTypeOK, DataTypeOK
  <2> QED
    BY <1>1, <2>1, <2>3 DEF PlaceOK
<1>4. CASE Idles
  <2>1. /\ UNCHANGED <<program, client, used, off, todo, sent>>
        /\ main \in {"loop", "accept"} /\ main' \in {"loop", "accept", "end"}
        /\ exit_requested' => program = "server"
    BY <1>1, <1>4 DEF Idles, MainLoop, AcceptFails, SignalInAccept, Go, given, Local, Arrives, peers,
       buffer, reply, PlaceOK
  <2> QED
    BY <1>1, <2>1 DEF PlaceOK
<1>5. ASSUME NEW c \in Clients, Accept(c) PROVE PlaceOK'
  <2>1. /\ UNCHANGED <<program, exit_requested, used, off, todo, sent>> /\ client' = c
        /\ main = "accept" /\ main' = "open"
    BY <1>5 DEF Accept, Go, given, buffer, reply, TakeFromQueue
  <2>2. used = 0 /\ sent[c] \in Nat
    BY <1>1, <2>1 DEF PlaceOK, PeersTypeOK
  <2> QED
    BY <1>1, <2>1, <2>2 DEF PlaceOK
<1>6. CASE Receives
  <2>1. CASE SignalNoted
    BY <1>1, <2>1 DEF SignalNoted, Arrives, Go, given, buffer, reply, peers, PlaceOK
  <2>2. CASE LoopTest \/ Reopen
    BY <1>1, <2>2 DEF LoopTest, Reopen, Local, Go, given, buffer, reply, peers, PlaceOK
  <2>3. CASE Recv
    <3>1. /\ UNCHANGED <<program, client, exit_requested, off, todo, sent>>
          /\ main = "recv" /\ main' \in {"write", "test", "recv"}
          /\ used' = Min2(sent[client], size)
      BY <2>3 DEF Recv, Local, Go, given, reply, peers
    <3>2. used' <= sent[client]
      BY <1>1, <3>1 DEF Min2, PeersTypeOK, DataTypeOK
    <3> QED
      BY <1>1, <3>1, <3>2 DEF PlaceOK
  <2> QED
    BY <1>6, <2>1, <2>2, <2>3 DEF Receives
<1>7. CASE GivesUp
  <2>1. /\ UNCHANGED <<program, client, used, off, todo, sent>>
        /\ main \in WithClient \ {"send", "close"} /\ main' = "close"
        /\ exit_requested' => program = "server"
    BY <1>1, <1>7 DEF GivesUp, OpenFails, NoBuffer, LoopStops, ReopenFails, ReadFails, RecvNothing,
       SignalInRecv, Local, Go, given, Arrives, peers, buffer, reply, PlaceOK
  <2> QED
    BY <1>1, <2>1 DEF PlaceOK
<1>8. CASE LosesChunk
  <2>1. /\ UNCHANGED <<program, client, used, off, sent>> /\ todo' = 0
        /\ main = "send" /\ main' = "read"
        /\ exit_requested' => program = "server"
    BY <1>1, <1>8 DEF LosesChunk, SendFails, SignalInSend, LoseChunk, Local, Go, given, Arrives, peers,
       buffer, PlaceOK
  <2> QED
    BY <1>1, <2>1 DEF PlaceOK
<1>9. CASE OpenFile
  <2>1. /\ UNCHANGED <<program, client, exit_requested, off, todo, sent>> /\ used' = 0
        /\ main = "open" /\ main' \in {"test", "recv"} /\ sent[client] \in Nat
    BY <1>1, <1>9 DEF OpenFile, Local, Go, given, peers, reply, PeersTypeOK
  <2> QED
    BY <1>1, <2>1 DEF PlaceOK
<1>10. CASE (RecvNothing /\ program # "server") \/ Write \/ ReadEnds
  <2>1. /\ UNCHANGED <<program, client, exit_requested, used, todo, sent>>
        /\ main \in WithClient \ {"open", "send"} /\ main' \in WithClient \ {"open", "send"}
    BY <1>10 DEF RecvNothing, Write, ReadEnds, Local, Go, given, peers, buffer, reply
  <2> QED
    BY <1>1, <2>1 DEF PlaceOK
<1>11. CASE Read
  <2>1. /\ UNCHANGED <<program, client, exit_requested, used, sent>>
        /\ main = "read" /\ main' = "send" /\ todo' = off' - off
        /\ off < Len(file) /\ off' = Min2(off + ChunkParts, Len(file))
    BY <1>11 DEF Read, Local, Go, given, peers, buffer
  <2>2. todo' # 0
    BY <1>1, <2>1, LineServerAssumption DEF DataTypeOK, Min2
  <2> QED
    BY <1>1, <2>1, <2>2 DEF PlaceOK
<1>12. CASE Send
  <2>1. /\ UNCHANGED <<program, client, exit_requested, used, off, sent>>
        /\ main = "send" /\ main' = (IF todo = 1 THEN "read" ELSE "send") /\ todo' = todo - 1
    BY <1>12 DEF Send, PutReply, Go, given, buffer
  <2>2. todo' # 0 <=> main' = "send"
    BY <1>1, <2>1, LineServerAssumption DEF DataTypeOK, Min2
  <2> QED
    BY <1>1, <2>1, <2>2 DEF PlaceOK
<1>13. CASE EndClient \/ Die
  <2>1. /\ UNCHANGED program /\ client' = NULL /\ used' = 0 /\ off' = 0 /\ todo' = 0
        /\ main' \in {"loop", "down"} /\ (exit_requested' => exit_requested)
    BY <1>13 DEF EndClient, Die, Go, given
  <2> QED
    BY <1>1, <2>1 DEF PlaceOK
<1>14. CASE StopListening \/ Finish
  <2>1. /\ UNCHANGED <<program, client, exit_requested, used, off, todo>>
        /\ main \in {"end", "remove"} /\ main' \in {"remove", "exited"}
    BY <1>14 DEF StopListening, Finish, Local, Go, given, buffer, reply
  <2> QED
    BY <1>1, <2>1 DEF PlaceOK
<1> QED
  BY <1>2, <1>3, <1>4, <1>5, <1>6, <1>7, <1>8, <1>9, <1>10, <1>11, <1>12, <1>13, <1>14, NextKinds
  DEF OneStep, ByClient

LEMMA ConnKeeps ==
  ASSUME ServerInv, [Next]_vars, NEW c \in Clients
  PROVE  ConnOK(c)'
<1>1. /\ PlaceOK /\ PlaceTypeOK /\ PeersTypeOK /\ \A d \in Clients : ConnOK(d)
      /\ NULL \notin Clients /\ (main \in WithClient => client \in Clients)
  BY LineServerAssumption DEF ServerInv, TypeOK, PlaceOK, PlaceTypeOK
<1>2. CASE /\ UNCHANGED <<client, listening, conn, peer>>
           /\ main' \in {"remove", "exited", "down"} => main \in {"remove", "exited", "down"}
  BY <1>1, <1>2 DEF ConnOK
<1>3. CASE Idles \/ Receives \/ UNCHANGED vars
  BY <1>2, <1>3 DEF vars, Idles, MainLoop, AcceptFails, SignalInAccept, Receives, LoopTest, Recv,
     Reopen, SignalNoted, Local, Arrives, Go, peers
<1>4. CASE GivesUp \/ LosesChunk
  BY <1>2, <1>4 DEF GivesUp, OpenFails, NoBuffer, LoopStops, ReopenFails, ReadFails, RecvNothing,
     SignalInRecv, LosesChunk, SendFails, SignalInSend, LoseChunk, Local, Arrives, Go, peers
<1>5. CASE OpenFile \/ RecvNothing \/ Write \/ Read \/ ReadEnds \/ Finish
  BY <1>2, <1>5 DEF OpenFile, RecvNothing, Write, Read, ReadEnds, Finish, Local, Go, peers
<1>6. CASE Send
  BY <1>2, <1>6 DEF Send, PutReply, Go
<1>7. ASSUME NEW d \in Clients, Client(d), Aside PROVE ConnOK(c)'
  <2>1. UNCHANGED <<client, main>>
    BY <1>7 DEF Aside
  <2>2. CASE Connect(d)
    BY <1>1, <2>1, <2>2 DEF Connect, ConnOK, PeersTypeOK
  <2>3. CASE SendPart(d) \/ EndSend(d) \/ Hangup(d) \/ TakeReply(d)
    <3>1. UNCHANGED <<conn, listening>> /\ (peer'[c] = peer[c] \/ peer'[c] # "off")
      BY <1>1, <2>3 DEF SendPart, EndSend, Hangup, TakeReply, PeersTypeOK
    <3> QED
      BY <1>1, <2>1, <3>1 DEF ConnOK
  <2> QED
    BY <1>7, <2>2, <2>3 DEF Client
<1>8. ASSUME NEW d \in Clients, Accept(d) PROVE ConnOK(c)'
  <2>1. /\ client' = d /\ main = "accept" /\ main' = "open" /\ peer' = peer
        /\ conn[d] = "queued" /\ conn' = [conn EXCEPT ![d] = "open"]
    BY <1>8 DEF Accept, Go, TakeFromQueue, Queued
  <2>2. client = NULL
    BY <1>1, <2>1 DEF PlaceOK, WithClient
  <2>3. conn'[c] = IF c = d THEN "open" ELSE conn[c]
    BY <1>1, <2>1 DEF PeersTypeOK
  <2> QED
    BY <1>1, <2>1, <2>2, <2>3 DEF ConnOK
<1>9. CASE EndClient
  <2>1. /\ main = "close" /\ main' = "loop" /\ client' = NULL /\ Close({client})
    BY <1>9 DEF EndClient, Go
  <2>2. conn'[c] = (IF c = client THEN "closed" ELSE conn[c])
        /\ (peer'[c] = "off" => c # client /\ peer[c] = "off")
    BY <1>1, <2>1, ClosesType
  <2> QED
    BY <1>1, <2>1, <2>2 DEF ConnOK
<1>10. CASE StopListening \/ Die
  <2>1. client' = NULL /\ listening' = FALSE /\ Close({d \in Clients : conn[d] # "none"})
    BY <1>1, <1>10 DEF StopListening, Die, CloseAll, Go, PlaceOK, WithClient
  <2>2. conn'[c] = (IF conn[c] # "none" THEN "closed" ELSE "none")
        /\ (peer'[c] = "off" => conn[c] = "none")
    BY <1>1, <2>1, ClosesType
  <2> QED
    BY <1>1, <2>1, <2>2 DEF ConnOK
<1> QED
  BY <1>3, <1>4, <1>5, <1>6, <1>7, <1>8, <1>9, <1>10, NextKinds DEF OneStep, ByClient

LEMMA FateKeeps ==
  ASSUME ServerInv, [Next]_vars, NEW c \in Clients
  PROVE  FateOK(c)'
<1>1. /\ PlaceOK /\ PlaceTypeOK /\ PeersTypeOK /\ NotesTypeOK /\ DataTypeOK /\ ConnOK(c) /\ FateOK(c)
      /\ NULL \notin Clients /\ (main \in WithClient => client \in Clients)
      /\ c # NULL
  BY LineServerAssumption DEF ServerInv, TypeOK, PlaceOK, PlaceTypeOK
<1> USE DEF WithClient
\* A step that leaves the client of the moment, if it is c, where it was.
<1>2. CASE /\ UNCHANGED <<due[c], got[c], fate[c]>>
           /\ conn'[c] \in {"none", "queued"} => conn[c] \in {"none", "queued"}
           /\ conn'[c] = "closed" => conn[c] = "closed" \/ fate[c] # "none"
           /\ c # client'
  BY <1>1, <1>2 DEF FateOK
<1>3. CASE UNCHANGED <<vars>>
  BY <1>1, <1>3 DEF vars, given, buffer, reply, data, peers, history, FateOK
<1>4. ASSUME NEW d \in Clients, Client(d), Aside PROVE FateOK(c)'
  <2>1. UNCHANGED <<program, line, main, client, used, off, file, due, got, fate>>
    BY <1>4 DEF Aside, given, buffer, reply, data, history
  <2>2. conn'[c] = conn[c] \/ (conn[c] = "none" /\ conn'[c] = "queued")
    <3>1. CASE Connect(d)
      BY <1>1, <3>1 DEF Connect, ConnOK, PeersTypeOK
    <3>2. CASE conn' = conn
      BY <3>2
    <3> QED
      BY <1>4, <3>1, <3>2 DEF Client, SendPart, EndSend, Hangup, TakeReply
  <2>3. conn[c] = "none" => c # client
    BY <1>1 DEF ConnOK
  <2> QED
    BY <1>1, <2>1, <2>2, <2>3 DEF FateOK
<1>5. CASE Idles \/ Finish
  <2>1. client' = client /\ client = NULL /\ UNCHANGED <<conn, due, got, fate>>
    BY <1>1, <1>5 DEF Idles, MainLoop, AcceptFails, SignalInAccept, Finish, Go, Local, Arrives, peers,
       history, PlaceOK
  <2> QED
    BY <1>1, <1>2, <2>1
<1>6. ASSUME NEW d \in Clients, Accept(d) PROVE FateOK(c)'
  <2>1. /\ client' = d /\ main = "accept" /\ main' = "open"
        /\ conn[d] = "queued" /\ conn' = [conn EXCEPT ![d] = "open"]
        /\ UNCHANGED <<due, got, fate>>
    BY <1>6 DEF Accept, Go, TakeFromQueue, Queued
  <2>2. CASE c = d
    BY <1>1, <2>1, <2>2 DEF FateOK, PeersTypeOK
  <2>3. CASE c # d
    BY <1>1, <1>2, <2>1, <2>3 DEF PeersTypeOK
  <2> QED
    BY <2>2, <2>3
<1>7. CASE Receives
  <2>1. UNCHANGED <<program, line, client, off, file, conn, due, got, fate>>
    BY <1>7 DEF Receives, LoopTest, Recv, Reopen, SignalNoted, Go, given, Local, Arrives, reply, data,
       peers, history
  <2>2. CASE SignalNoted
    BY <1>1, <2>1, <2>2 DEF SignalNoted, Arrives, Go, buffer, FateOK
  <2>3. CASE LoopTest \/ Reopen
    <3>1. /\ used' = used
          /\ \/ main = "test" /\ main' = "recv"
             \/ main = "reopen" /\ main' = "read"
      BY <2>3 DEF LoopTest, Reopen, Go, buffer
    <3> QED
      BY <1>1, <2>1, <3>1 DEF FateOK
  <2>4. CASE Recv
    <3>1. /\ main = "recv" /\ main' = IF used' >= line[client] THEN "write"
                                      ELSE IF program = "server" THEN "test" ELSE "recv"
      BY <2>4 DEF Recv, Go
    <3> QED
      BY <1>1, <2>1, <3>1 DEF FateOK
  <2> QED
    BY <1>7, <2>2, <2>3, <2>4 DEF Receives
<1>8. CASE GivesUp \/ LosesChunk
  <2>1. /\ UNCHANGED <<program, line, client, used, off, file, conn, due, got>>
        /\ Fails({client})
        /\ \/ main \in WithClient /\ main' = "close"
           \/ main = "send" /\ main' = "read"
    BY <1>8 DEF GivesUp, OpenFails, NoBuffer, LoopStops, ReopenFails, ReadFails, RecvNothing,
       SignalInRecv, LosesChunk, SendFails, SignalInSend, LoseChunk, Drop, Go, given, Local, Arrives,
       buffer, reply, data, peers
  <2>2. fate'[c] = IF c = client /\ fate[c] = "none" THEN "failed" ELSE fate[c]
    BY <1>1, <2>1, FailsType
  <2>3. CASE c # client
    BY <1>1, <1>2, <2>1, <2>2, <2>3
  <2>4. CASE c = client
    <3>1. conn[c] = "open" /\ fate'[c] # "none"
      BY <1>1, <2>2, <2>4 DEF ConnOK
    <3> QED
      BY <1>1, <2>1, <2>4, <3>1 DEF FateOK
  <2> QED
    BY <2>3, <2>4
<1>9. CASE OpenFile \/ (RecvNothing /\ program # "server")
  <2>1. /\ UNCHANGED <<program, line, client, off, file, conn, due, got, fate>>
        /\ \/ main = "open" /\ main' \in {"test", "recv"}
           \/ program # "server" /\ main = "recv" /\ main' = "write"
    BY <1>9 DEF OpenFile, RecvNothing, Go, given, Local, buffer, reply, data, peers, history
  <2> QED
    BY <1>1, <2>1 DEF FateOK
<1>10. CASE Write
  <2>1. /\ UNCHANGED <<program, line, client, used, conn, got, fate>>
        /\ main = "write" /\ main' = (IF program = "server" THEN "reopen" ELSE "read")
        /\ due' = [due EXCEPT ![client] = file'] /\ off' = 0
    BY <1>10 DEF Write, Go, given, Local, buffer, peers
  <2>2. CASE c # client
    BY <1>1, <1>2, <2>1, <2>2 DEF NotesTypeOK
  <2>3. CASE c = client
    <3>1. due'[c] = file' /\ got'[c] = << >> /\ fate'[c] = "none" /\ conn[c] = "open"
      BY <1>1, <2>1, <2>3 DEF FateOK, ConnOK, NotesTypeOK
    <3>2. program = "server" => used >= line[c]
      BY <1>1, <2>1, <2>3 DEF FateOK
    <3> QED
      BY <2>1, <2>3, <3>1, <3>2 DEF FateOK
  <2> QED
    BY <2>2, <2>3
<1>11. CASE Read
  <2>1. /\ UNCHANGED <<program, line, client, used, file, conn, due, got, fate>>
        /\ main = "read" /\ main' = "send"
    BY <1>11 DEF Read, Go, given, Local, buffer, data, peers, history
  <2> QED
    BY <1>1, <2>1 DEF FateOK
<1>12. CASE ReadEnds
  <2>1. /\ UNCHANGED <<program, line, client, used, off, file, conn, due, got>>
        /\ main = "read" /\ main' = "close"
        /\ fate' = [fate EXCEPT ![client] = IF @ = "none" THEN "replied" ELSE @]
    BY <1>12 DEF ReadEnds, Go, given, Local, buffer, reply, data, peers
  <2>2. /\ c = client => fate'[c] # "none"
        /\ c # client => fate'[c] = fate[c]
    BY <1>1, <2>1 DEF NotesTypeOK
  <2>3. c = client => conn[c] = "open"
    BY <1>1 DEF ConnOK
  <2> QED
    BY <1>1, <2>1, <2>2, <2>3 DEF FateOK
<1>13. CASE Send
  <2>1. /\ UNCHANGED <<program, line, client, used, off, file, conn, due, fate>>
        /\ main = "send" /\ main' \in {"read", "send"}
        /\ got' = got \/ \E x : got' = [got EXCEPT ![client] = Append(@, x)]
    BY <1>13 DEF Send, PutReply, Go, given, buffer, data
  <2>2. c # client => got'[c] = got[c]
    BY <1>1, <2>1 DEF NotesTypeOK
  <2>3. c = client => due[c] # NULL
    BY <1>1, <2>1, LineServerAssumption DEF FateOK, DataTypeOK
  <2> QED
    BY <1>1, <2>1, <2>2, <2>3 DEF FateOK
<1>14. CASE EndClient
  <2>1. /\ main = "close" /\ client' = NULL /\ Close({client}) /\ UNCHANGED <<due, got, fate>>
    BY <1>14 DEF EndClient, Go, history
  <2>2. conn'[c] = IF c = client THEN "closed" ELSE conn[c]
    BY <1>1, <2>1, ClosesType
  <2>3. c = client => fate[c] # "none"
    BY <1>1, <2>1 DEF FateOK
  <2> QED
    BY <1>1, <1>2, <2>1, <2>2, <2>3
<1>15. CASE StopListening \/ Die
  <2>1. /\ client' = NULL /\ UNCHANGED <<due, got>>
        /\ Close({d \in Clients : conn[d] # "none"})
        /\ (Fails(Queued) /\ client = NULL) \/ Fails({d \in Clients : conn[d] # "none"})
    BY <1>1, <1>15 DEF StopListening, Die, CloseAll, Go, PlaceOK
  <2>2. conn'[c] = IF conn[c] # "none" THEN "closed" ELSE "none"
    BY <1>1, <2>1, ClosesType
  <2>3. conn[c] # "none" => fate'[c] # "none"
    <3>1. CASE Fails({d \in Clients : conn[d] # "none"})
      BY <1>1, <3>1, FailsType
    <3>2. CASE Fails(Queued) /\ client = NULL
      <4>1. fate'[c] = IF c \in Queued /\ fate[c] = "none" THEN "failed" ELSE fate[c]
        BY <1>1, <3>2, FailsType
      <4>2. conn[c] \in {"none", "queued", "closed"}
        BY <1>1, <3>2 DEF ConnOK, PeersTypeOK
      <4>3. conn[c] = "queued" => c \in Queued
        BY DEF Queued
      <4> QED
        BY <1>1, <4>1, <4>2, <4>3 DEF FateOK
    <3> QED
      BY <2>1, <3>1, <3>2
  <2>4. conn[c] = "none" => fate'[c] = fate[c]
    <3>1. CASE Fails({d \in Clients : conn[d] # "none"})
      BY <1>1, <3>1, FailsType
    <3>2. CASE Fails(Queued)
      BY <1>1, <3>2, FailsType DEF Queued
    <3> QED
      BY <2>1, <3>1, <3>2
  <2> QED
    BY <1>1, <2>1, <2>2, <2>3, <2>4 DEF FateOK
<1> QED
  BY <1>3, <1>4, <1>5, <1>6, <1>7, <1>8, <1>9, <1>10, <1>11, <1>12, <1>13, <1>14, <1>15, NextKinds
  DEF OneStep, ByClient

LEMMA ReplyKeeps ==
  ASSUME ServerInv, [Next]_vars, NEW c \in Clients
  PROVE  ReplyOK(c)'
<1>1. /\ PlaceOK /\ PlaceTypeOK /\ NotesTypeOK /\ DataTypeOK /\ FateOK(c) /\ ReplyOK(c)
      /\ NULL \notin Clients /\ c # NULL /\ off \in Nat /\ todo \in Nat
  BY LineServerAssumption DEF ServerInv, TypeOK, DataTypeOK, Min2
<1>2. CASE c # client' \/ main' \notin {"read", "send"} \/ fate'[c] # "none"
  BY <1>2 DEF ReplyOK
<1>3. CASE ByClient \/ UNCHANGED vars
  <2>1. UNCHANGED <<client, main, off, todo, file, got, fate>>
    BY <1>3 DEF ByClient, Aside, vars, reply, data, history
  <2> QED
    BY <1>1, <2>1 DEF ReplyOK
<1>4. CASE Idles \/ OpenFile \/ (RecvNothing /\ program # "server") \/ LoopTest \/ Recv
  BY <1>2, <1>4 DEF Idles, MainLoop, AcceptFails, SignalInAccept, OpenFile, RecvNothing, LoopTest,
     Recv, Arrives, Go
<1>5. ASSUME NEW d \in Clients, Accept(d) PROVE ReplyOK(c)'
  BY <1>2, <1>5 DEF Accept, Go
<1>6. CASE EndClient \/ StopListening \/ Finish \/ Die \/ ReadEnds
  BY <1>2, <1>6 DEF EndClient, StopListening, Finish, Die, ReadEnds, Go
<1>7. CASE SignalNoted
  BY <1>1, <1>7 DEF SignalNoted, Arrives, Go, reply, data, history, ReplyOK
<1>8. CASE GivesUp
  BY <1>2, <1>8 DEF GivesUp, OpenFails, NoBuffer, LoopStops, ReopenFails, ReadFails, RecvNothing,
     SignalInRecv, Arrives, Go
<1>9. CASE LosesChunk
  <2>1. Fails({client}) /\ client' = client
    BY <1>9 DEF LosesChunk, SendFails, SignalInSend, LoseChunk, Drop, Local, Arrives
  <2>2. c = client => fate'[c] # "none"
    BY <1>1, <2>1, FailsType
  <2> QED
    BY <1>2, <2>1, <2>2
<1>10. CASE Reopen
  <2>1. main = "reopen" /\ UNCHANGED <<client, off, todo, file, got>>
    BY <1>10 DEF Reopen, Go, Local, reply, data, history
  <2>2. c = client => off = 0 /\ todo = 0 /\ got[c] = << >>
    BY <1>1, <2>1 DEF FateOK, PlaceOK
  <2> QED
    BY <2>1, <2>2 DEF ReplyOK
<1>11. CASE Write
  <2>1. main = "write" /\ UNCHANGED <<client, todo, got>> /\ off' = 0
    BY <1>11 DEF Write, Go, Local
  <2>2. c = client => todo = 0 /\ got[c] = << >>
    BY <1>1, <2>1 DEF FateOK, PlaceOK
  <2> QED
    BY <2>1, <2>2 DEF ReplyOK
<1>12. CASE Read
  <2>1. /\ main = "read" /\ UNCHANGED <<client, file, got, fate>>
        /\ off < Len(file) /\ off' = Min2(off + ChunkParts, Len(file)) /\ todo' = off' - off
    BY <1>12 DEF Read, Go, Local, data, history
  <2>2. todo = 0 /\ off' - todo' = off
    <3>1. off' \in Nat
      BY <1>1, <2>1, LineServerAssumption DEF Min2, DataTypeOK
    <3> QED
      BY <1>1, <2>1, <3>1 DEF PlaceOK
  <2> QED
    BY <1>1, <2>1, <2>2 DEF ReplyOK
<1>13. CASE Send
  <2> DEFINE g == got[c]
             x == file[off - todo + 1]
  <2>1. /\ main = "send" /\ UNCHANGED <<client, off, file, fate>> /\ todo' = todo - 1
        /\ got' = IF fate[client] = "none"
                  THEN [got EXCEPT ![client] = Append(@, file[off - todo + 1])] ELSE got
    BY <1>13 DEF Send, Go, data
  <2> SUFFICES ASSUME c = client, fate[c] = "none" PROVE ReplyOK(c)'
    BY <1>2, <2>1
  <2>2. got'[c] = Append(g, x) /\ g \in Seq(Items)
    BY <1>1, <2>1 DEF NotesTypeOK
  <2>3. Len(g) = off - todo /\ \A i \in 1 .. Len(g) : g[i] = file[i]
    BY <1>1, <2>1 DEF ReplyOK
  <2>4. off - todo + 1 \in 1 .. Len(file) /\ file \in Seq(Items) /\ todo # 0 /\ Len(g) \in Nat
    BY <1>1, <2>1, <2>2, LineServerAssumption DEF DataTypeOK, PlaceOK, Min2
  <2>5. x \in Items
    BY <2>4
  <2> HIDE DEF g, x
  <2>6. /\ Len(Append(g, x)) = Len(g) + 1
        /\ \A i \in 1 .. Len(g) : Append(g, x)[i] = g[i]
        /\ Append(g, x)[Len(g) + 1] = x
    BY <2>2, <2>5, AppendProperties
  <2> DEFINE a == Append(g, x)
  <2> HIDE DEF a
  <2>7. x = file[Len(g) + 1]
    BY <2>3 DEF x
  <2>8. \A i \in 1 .. Len(a) : a[i] = file[i]
    BY <2>3, <2>4, <2>6, <2>7 DEF a
  <2>9. Len(a) = off' - todo'
    BY <1>1, <2>1, <2>3, <2>6 DEF a
  <2>10. got'[c] = a
    BY <2>2 DEF a
  <2> QED
    BY <2>1, <2>8, <2>9, <2>10 DEF ReplyOK
<1> QED
  BY <1>3, <1>4, <1>5, <1>6, <1>7, <1>8, <1>9, <1>10, <1>11, <1>12, <1>13, NextKinds
  DEF OneStep, Receives

LEMMA LateKeeps ==
  ASSUME ServerInv, [Next]_vars
  PROVE  LateOK'
<1> DEFINE Places == {"open", "test", "close", "loop", "end", "remove", "exited", "down"}
<1>1. /\ PlaceOK /\ PlaceTypeOK /\ NotesTypeOK /\ DataTypeOK /\ LateOK
      /\ NULL \notin Clients /\ late \subseteq Clients
      /\ \A c \in Clients : FateOK(c)
  BY LineServerAssumption DEF ServerInv, TypeOK, NotesTypeOK
<1>2. late # {} => /\ main \in Places /\ (main = "down" \/ exit_requested)
                   /\ (exit_requested => program = "server")
  BY <1>1 DEF LateOK, PlaceOK
\* A step that accepts nobody, and neither serves nor answers who came late.
<1> DEFINE Turns == /\ main' \in Places /\ (main' = "down" \/ exit_requested')
                    /\ client' \in {client, NULL}
                    /\ \A c \in late : due'[c] = due[c] /\ fate'[c] \in {fate[c], "failed"}
<1>3. ASSUME late' = late, late # {} => Turns PROVE LateOK'
  BY <1>1, <1>3 DEF LateOK
<1>4. CASE ByClient \/ UNCHANGED vars
  <2>1. UNCHANGED <<main, client, exit_requested, late, due, fate>>
    BY <1>4 DEF ByClient, Aside, vars, history
  <2> QED
    BY <1>2, <1>3, <2>1
<1>5. CASE Idles
  <2>1. late' = late /\ UNCHANGED <<client, due, fate>>
    BY <1>5 DEF Idles, MainLoop, AcceptFails, SignalInAccept, Local, Arrives, history
  <2>2. late # {} => main' = "end" /\ exit_requested'
    BY <1>2, <1>5 DEF Idles, MainLoop, AcceptFails, SignalInAccept, Go, Local, Arrives
  <2> QED
    BY <1>3, <2>1, <2>2
<1>6. ASSUME NEW c \in Clients, Accept(c) PROVE LateOK'
  <2>1. /\ main = "accept" /\ main' = "open" /\ client' = c /\ UNCHANGED <<exit_requested, due, fate>>
        /\ conn[c] = "queued" /\ late' = IF exit_requested THEN late \cup {c} ELSE late
    BY <1>6 DEF Accept, Go, TakeFromQueue, Queued
  <2>2. late = {}
    BY <1>2, <2>1
  <2>3. due[c] = NULL /\ fate[c] = "none"
    BY <1>1, <2>1 DEF FateOK
  <2> QED
    BY <2>1, <2>2, <2>3 DEF LateOK
<1>7. CASE Receives
  <2>1. late' = late /\ late = {}
    BY <1>2, <1>7 DEF Receives, LoopTest, Recv, Reopen, SignalNoted, Go, Arrives, Running, history
  <2> QED
    BY <1>3, <2>1
<1>8. CASE GivesUp
  <2>1. /\ UNCHANGED <<late, due, client>> /\ Fails({client}) /\ main' = "close"
        /\ exit_requested => exit_requested'
        /\ main \in WithClient
    BY <1>8 DEF GivesUp, OpenFails, NoBuffer, LoopStops, ReopenFails, ReadFails, RecvNothing,
       SignalInRecv, Drop, Go, Local, Arrives, WithClient
  <2>2. \A c \in late : fate'[c] \in {fate[c], "failed"}
    BY <1>1, <2>1, FailsType
  <2> QED
    BY <1>2, <1>3, <2>1, <2>2 DEF WithClient
<1>9. CASE LosesChunk \/ Write \/ Read \/ ReadEnds \/ Send \/ (RecvNothing /\ program # "server")
  <2>1. late' = late /\ late = {}
    BY <1>2, <1>9 DEF LosesChunk, SendFails, SignalInSend, LoseChunk, Drop, Arrives, Write, Read,
       ReadEnds, Send, RecvNothing, Go, history
  <2> QED
    BY <1>3, <2>1
<1>10. CASE OpenFile
  <2>1. /\ UNCHANGED <<late, due, fate, client, exit_requested>>
        /\ main = "open" /\ main' = IF program = "server" THEN "test" ELSE "recv"
    BY <1>10 DEF OpenFile, Go, Local, history
  <2> QED
    BY <1>2, <1>3, <2>1
<1>11. CASE EndClient \/ Finish
  <2>1. /\ UNCHANGED <<late, due, fate, exit_requested>> /\ client' \in {client, NULL}
        /\ main \in {"close", "remove"} /\ main' \in {"loop", "exited"}
    BY <1>11 DEF EndClient, Finish, Go, Local, history
  <2> QED
    BY <1>2, <1>3, <2>1
<1>12. CASE StopListening \/ Die
  <2>1. /\ UNCHANGED <<late, due>> /\ client' \in {client, NULL} /\ \E S : Fails(S)
        /\ main' = "down" \/ (main = "end" /\ main' = "remove" /\ exit_requested' = exit_requested)
    BY <1>12 DEF StopListening, Die, Go
  <2>2. \A c \in late : fate'[c] \in {fate[c], "failed"}
    BY <1>1, <2>1, FailsType
  <2> QED
    BY <1>2, <1>3, <2>1, <2>2
<1> QED
  BY <1>4, <1>5, <1>6, <1>7, <1>8, <1>9, <1>10, <1>11, <1>12, NextKinds DEF OneStep

LEMMA FileKeeps ==
  ASSUME ServerInv, [Next]_vars
  PROVE  FileOK'
<1>1. PlaceTypeOK /\ DataTypeOK /\ FileOK
  BY DEF ServerInv, TypeOK
<1>2. CASE UNCHANGED <<program, line, file>> /\ main' # "exited"
  BY <1>1, <1>2 DEF FileOK
<1>3. CASE ByClient \/ UNCHANGED vars
  <2>1. UNCHANGED <<program, line, file, present, main>>
    BY <1>3 DEF ByClient, Aside, vars, given, data
  <2> QED
    BY <1>1, <2>1 DEF FileOK
<1>4. CASE Idles
  BY <1>2, <1>4 DEF Idles, MainLoop, AcceptFails, SignalInAccept, Go, Arrives, given, data
<1>5. CASE Receives
  BY <1>2, <1>5 DEF Receives, LoopTest, Recv, Reopen, SignalNoted, Go, Arrives, Running, given, data
<1>6. CASE GivesUp \/ LosesChunk
  BY <1>2, <1>6 DEF GivesUp, OpenFails, NoBuffer, LoopStops, ReopenFails, ReadFails, RecvNothing,
     SignalInRecv, LosesChunk, SendFails, SignalInSend, LoseChunk, Go, Arrives, given, data
<1>7. CASE OpenFile \/ RecvNothing \/ Read \/ ReadEnds \/ Send
  BY <1>2, <1>7 DEF OpenFile, RecvNothing, Read, ReadEnds, Send, Go, given, data
<1>8. CASE EndClient \/ StopListening \/ Die
  BY <1>2, <1>8 DEF EndClient, StopListening, Die, Go, given, data
<1>9. ASSUME NEW c \in Clients, Accept(c) PROVE FileOK'
  BY <1>2, <1>9 DEF Accept, Go, given, data
<1>10. CASE Finish
  <2>1. present' = FALSE /\ file' = << >> /\ Len(file') = 0
    BY <1>10 DEF Finish
  <2> QED
    BY <2>1 DEF FileOK
<1>11. CASE Write
  <2>1. main' # "exited" /\ UNCHANGED <<program, line>>
    BY <1>11 DEF Write, Go, given
  <2>2. PICK n \in 0 .. MaxParts :
           /\ file' = file \o SubSeq(Message(client), 1, n)
           /\ program = "server" => n <= line[client]
           /\ SubSeq(Message(client), 1, n) \in Seq(Items)
           /\ Len(SubSeq(Message(client), 1, n)) = n
           /\ \A i \in 1 .. n : SubSeq(Message(client), 1, n)[i] = [from |-> client, part |-> i]
    BY <1>11, WriteAppends
  <2> DEFINE s == SubSeq(Message(client), 1, n)
  <2> HIDE DEF s
  <2>3. s \in Seq(Items) /\ Len(s) = n /\ file \in Seq(Items) /\ Len(file) \in Nat
        /\ \A i \in 1 .. n : s[i] = [from |-> client, part |-> i]
    BY <1>1, <2>2 DEF s, DataTypeOK
  <2>4. /\ Len(file \o s) = Len(file) + n
        /\ \A i \in 1 .. Len(file) + n :
              (file \o s)[i] = IF i <= Len(file) THEN file[i] ELSE s[i - Len(file)]
    BY <2>3, ConcatProperties
  <2>5. file' = file \o s
    BY <2>2 DEF s
  <2>6. ASSUME program = "server", NEW i \in 1 .. Len(file') PROVE file'[i].part <= line[file'[i].from]
    <3>1. CASE i <= Len(file)
      <4>1. file'[i] = file[i] /\ i \in 1 .. Len(file)
        BY <2>3, <2>4, <2>5, <3>1
      <4> QED
        BY <1>1, <2>6, <4>1 DEF FileOK
    <3>2. CASE ~(i <= Len(file))
      <4>1. i - Len(file) \in 1 .. n
        BY <2>3, <2>4, <2>5, <3>2
      <4>2. file'[i] = [from |-> client, part |-> i - Len(file)]
        BY <2>3, <2>4, <2>5, <3>2, <4>1
      <4>3. client \in Clients /\ line[client] \in Nat /\ n <= line[client]
        <5>1. client \in Clients
          BY <1>11, WriteAppends
        <5>2. line[client] \in 1 .. MaxParts
          BY <1>1, <5>1, LineServerAssumption DEF PlaceTypeOK
        <5> QED
          BY <2>2, <2>6, <5>1, <5>2
      <4>4. i - Len(file) <= line[client]
        BY <2>3, <4>1, <4>3
      <4> QED
        BY <4>2, <4>4
    <3> QED
      BY <3>1, <3>2
  <2> QED
    BY <2>1, <2>6 DEF FileOK
<1> QED
  BY <1>3, <1>4, <1>5, <1>6, <1>7, <1>8, <1>9, <1>10, <1>11, NextKinds DEF OneStep

-----------------------------------------------------------------------------
LEMMA InitInv == Init => ServerInv
<1> SUFFICES ASSUME Init PROVE ServerInv
  OBVIOUS
<1> USE SocketPeersAssumption, LineServerAssumption
<1>1. PeersTypeOK
  BY DEF Init, PeersInit, PeersTypeOK
<1>2. PlaceTypeOK
  BY DEF Init, PlaceTypeOK, Labels
<1>3. << >> \in Seq(Items) /\ Len(<< >>) = 0
  BY EmptySeq
<1>4. DataTypeOK
  <2>1. used = 0 /\ size = BufParts /\ off = 0 /\ todo = 0 /\ present = FALSE /\ file = << >>
    BY DEF Init
  <2>2. off \in 0 .. Len(file) /\ todo \in 0 .. Min2(off, ChunkParts)
    BY <1>3, <2>1 DEF Min2
  <2>3. used \in 0 .. MaxParts /\ size \in Nat /\ used <= size
    BY <2>1
  <2> QED
    BY <1>3, <2>1, <2>2, <2>3 DEF DataTypeOK
<1>5. NotesTypeOK
  BY <1>3 DEF Init, NotesTypeOK
<1>6. PlaceOK /\ LateOK
  BY DEF Init, PlaceOK, LateOK, WithClient
<1>7. FileOK
  BY <1>3 DEF Init, FileOK
<1>8. ASSUME NEW c \in Clients PROVE ConnOK(c) /\ FateOK(c) /\ ReplyOK(c)
  BY DEF Init, PeersInit, ConnOK, FateOK, ReplyOK
<1> QED
  BY <1>1, <1>2, <1>4, <1>5, <1>6, <1>7, <1>8 DEF ServerInv, TypeOK

\* The server is always in a state that agrees with itself.
THEOREM Invariance == Spec => []ServerInv
<1>1. ServerInv /\ [Next]_vars => ServerInv'
  BY PeersKeep, PlaceTypeKeeps, DataKeeps, NotesKeep, PlaceKeeps, ConnKeeps, FateKeeps, ReplyKeeps,
     LateKeeps, FileKeeps DEF ServerInv, TypeOK
<1> QED
  BY <1>1, InitInv, PTL DEF Spec

\* Every variable of the two sequential servers stays in its set, and no more is
\* taken from the buffer than it holds.
THEOREM TypeCorrect == Spec => []TypeOK
<1>1. ServerInv => TypeOK
  BY DEF ServerInv
<1> QED
  BY <1>1, Invariance, PTL

\* server.c never logs what follows the newline, nor a request whose newline never
\* came, wherever recv split it.
THEOREM OnlyLines == Spec => []LinesOnly
<1>1. ServerInv => LinesOnly
  <2> SUFFICES ASSUME ServerInv, program = "server" PROVE LinesOnly
    BY DEF LinesOnly
  <2>1. ASSUME NEW c \in Clients, due[c] # NULL, conn[c] = "open" PROVE sent[c] >= line[c]
    <3>1. c = client /\ c # NULL
      BY <2>1, LineServerAssumption DEF ServerInv, ConnOK
    <3>2. used >= line[c] /\ used <= sent[c]
      BY <2>1, <3>1 DEF ServerInv, FateOK, PlaceOK
    <3>3. used \in Nat /\ sent[c] \in Nat /\ line[c] \in Nat
      <4>1. used \in Nat /\ sent[c] \in Nat
        BY SocketPeersAssumption DEF ServerInv, TypeOK, PeersTypeOK, DataTypeOK
      <4>2. line[c] \in 1 .. MaxParts
        BY LineServerAssumption DEF ServerInv, TypeOK, PlaceTypeOK
      <4> QED
        BY <4>1, <4>2
    <3> QED
      BY <3>2, <3>3
  <2> QED
    BY <2>1 DEF ServerInv, FileOK, LinesOnly
<1> QED
  BY <1>1, Invariance, PTL

\* After a signal at most one more client is accepted, and nothing of it is logged
\* or answered.
THEOREM LateTurnedAway == Spec => []LateClientTurnedAway
<1>1. ServerInv => LateClientTurnedAway
  <2> SUFFICES ASSUME ServerInv PROVE LateClientTurnedAway
    OBVIOUS
  <2>1. CASE late = {}
    BY <2>1, FS_EmptySet DEF LateClientTurnedAway
  <2>2. ASSUME NEW c \in Clients, late = {c} PROVE Cardinality(late) = 1
    BY <2>2, FS_Singleton
  <2>3. CASE late # {}
    BY <2>2, <2>3 DEF ServerInv, LateOK, LateClientTurnedAway
  <2> QED
    BY <2>1, <2>3
<1> QED
  BY <1>1, Invariance, PTL

\* Whenever main returns after a signal the file is gone and nobody is connected.
THEOREM ExitsClean == Spec => []CleanExit
<1>1. ServerInv => CleanExit
  <2> SUFFICES ASSUME ServerInv, main = "exited"
               PROVE  ~present /\ \A c \in Clients : conn[c] \in {"none", "closed"}
    BY DEF CleanExit
  <2>1. client = NULL
    BY DEF ServerInv, PlaceOK, WithClient
  <2>2. ASSUME NEW c \in Clients PROVE conn[c] \in {"none", "closed"}
    <3>1. conn[c] # "open" /\ conn[c] # "queued"
      BY <2>1, LineServerAssumption DEF ServerInv, ConnOK
    <3>2. conn[c] \in {"none", "queued", "open", "closed"}
      BY DEF ServerInv, TypeOK, PeersTypeOK
    <3> QED
      BY <3>1, <3>2
  <2> QED
    BY <2>2 DEF ServerInv, FileOK
<1> QED
  BY <1>1, Invariance, PTL

-----------------------------------------------------------------------------
\* The refinement: what each step of the server is to the shared log.
Unnoticed == UNCHANGED Log!vars

LEMMA RefineInit == Init => Log!Init
  BY DEF Init, Log!Init

LEMMA FailsIsGiveUp ==
  ASSUME ServerInv, NEW S, Fails(S), UNCHANGED <<file, due, got, short>>
  PROVE  Log!Next
<1>1. NotesTypeOK
  BY DEF ServerInv, TypeOK
<1>2. /\ fate' \in [Clients -> {"none", "replied", "failed"}]
      /\ \A c \in Clients : fate'[c] = IF c \in S /\ fate[c] = "none" THEN "failed" ELSE fate[c]
  BY <1>1, FailsType
<1>3. Log!GiveUp
  BY <1>2 DEF Log!GiveUp
<1> QED
  BY <1>3 DEF Log!Next

LEMMA WriteServes ==
  ASSUME ServerInv, Write
  PROVE  Log!Next
<1>1. PICK n \in 0 .. MaxParts :
         /\ file' = file \o SubSeq(Message(client), 1, n)
         /\ short' = IF n = Packet THEN short ELSE short \cup {client}
         /\ n <= Packet
  BY WriteAppends
<1>2. client \in Clients /\ main = "write"
  BY WriteAppends DEF Write, Go
<1>3. due[client] = NULL /\ fate[client] = "none"
  BY <1>2 DEF ServerInv, FateOK
<1>4. Log!Message(client) = Message(client)
  BY DEF Message, Log!Message
<1>5. due' = [due EXCEPT ![client] = file'] /\ UNCHANGED <<got, fate>>
  BY DEF Write
<1>6. n \in 0 .. Packet /\ Packet = [c \in Clients |-> Request(c)][client]
  BY <1>1, <1>2, WriteAppends
<1>7. Log!Serve(client)
  BY <1>1, <1>3, <1>4, <1>5, <1>6 DEF Log!Serve
<1> QED
  BY <1>2, <1>7 DEF Log!Next

\* What the client has of the reply is a prefix of it, and the reply the file.
LEMMA ReplyIs ==
  ASSUME ServerInv, main \in {"read", "send"}
  PROVE  /\ client \in Clients /\ due[client] = file /\ due[client] # NULL
         /\ got[client] \in Seq(Items) /\ file \in Seq(Items) /\ off \in Nat /\ todo \in 0 .. off
         /\ off <= Len(file)
         /\ main = "send" <=> todo # 0
         /\ fate[client] = "none" =>
               /\ Len(got[client]) = off - todo
               /\ \A i \in 1 .. Len(got[client]) : got[client][i] = file[i]
<1>1. client \in Clients
  BY DEF ServerInv, TypeOK, PlaceTypeOK, PlaceOK, WithClient
<1>2. file \in Seq(Items) /\ off \in Nat /\ off <= Len(file) /\ todo \in 0 .. off
  BY LineServerAssumption DEF ServerInv, TypeOK, DataTypeOK, Min2
<1>3. due[client] = file /\ got[client] \in Seq(Items)
  BY <1>1 DEF ServerInv, TypeOK, NotesTypeOK, FateOK
<1>4. due[client] # NULL
  BY <1>2, <1>3, LineServerAssumption
<1>5. main = "send" <=> todo # 0
  BY DEF ServerInv, PlaceOK
<1>6. fate[client] = "none" => /\ Len(got[client]) = off - todo
                               /\ \A i \in 1 .. Len(got[client]) : got[client][i] = file[i]
  BY <1>1 DEF ServerInv, ReplyOK
<1> QED
  BY <1>1, <1>2, <1>3, <1>4, <1>5, <1>6

LEMMA SendDelivers ==
  ASSUME ServerInv, Send
  PROVE  Log!Next \/ Unnoticed
<1>1. /\ main = "send" /\ UNCHANGED <<file, due, fate, short>>
      /\ got' = IF fate[client] = "none"
                THEN [got EXCEPT ![client] = Append(@, file[off - todo + 1])] ELSE got
  BY DEF Send, Go, data
<1>2. CASE fate[client] # "none"
  BY <1>1, <1>2 DEF Unnoticed, Log!vars
<1>3. CASE fate[client] = "none"
  <2> DEFINE g == got[client]
             k == Len(g) + 1
             a == Append(g, file[k])
             b == SubSeq(file, 1, k)
  <2>1. /\ client \in Clients /\ due[client] = file /\ due[client] # NULL
        /\ g \in Seq(Items) /\ file \in Seq(Items) /\ off \in Nat /\ todo \in 1 .. off
        /\ off <= Len(file) /\ Len(g) = off - todo
        /\ \A i \in 1 .. Len(g) : g[i] = file[i]
    BY <1>1, <1>3, ReplyIs
  <2>2. got' = [got EXCEPT ![client] = a] /\ Len(g) \in Nat /\ Len(file) \in Nat
    BY <1>1, <1>3, <2>1
  <2> HIDE DEF g
  <2>3. k \in Nat /\ k = Len(g) + 1 /\ 1 <= k /\ k <= Len(file)
    BY <2>1, <2>2
  <2> HIDE DEF k
  <2>4. \A i \in 1 .. k : file[i] \in Items
    BY <2>1, <2>2, <2>3
  <2>5. /\ a \in Seq(Items) /\ Len(a) = Len(g) + 1
        /\ \A i \in 1 .. Len(g) : a[i] = g[i]
        /\ a[Len(g) + 1] = file[k]
    BY <2>1, <2>3, <2>4, AppendProperties
  <2> HIDE DEF a
  <2>6. \A i \in 1 .. k : a[i] = file[i]
    <3> SUFFICES ASSUME NEW i \in 1 .. k PROVE a[i] = file[i]
      OBVIOUS
    <3>1. CASE i = k
      BY <2>3, <2>5, <3>1
    <3>2. CASE i # k
      <4>1. i \in 1 .. Len(g)
        BY <2>2, <2>3, <3>2
      <4> QED
        BY <2>1, <2>5, <4>1
    <3> QED
      BY <3>1, <3>2
  <2>7. b \in Seq(Items) /\ Len(b) = k /\ \A i \in 1 .. k : b[i] = file[i]
    <3>1. k - 1 + 1 = k /\ \A i \in 1 .. k : 1 + i - 1 = i
      BY <2>3
    <3> QED
      BY <2>3, <2>4, <3>1, SubSeqProperties
  <2> HIDE DEF b
  <2>8. a = b
    BY <2>3, <2>5, <2>6, <2>7, SeqEqual
  <2>9. got' = [got EXCEPT ![client] = SubSeq(due[client], 1, Len(got[client]) + 1)]
    BY <2>1, <2>2, <2>8 DEF b, k, g
  <2>10. Len(got[client]) < Len(due[client])
    BY <2>1, <2>2, <2>3 DEF g
  <2>11. Log!Deliver(client)
    BY <1>1, <1>3, <2>1, <2>9, <2>10 DEF Log!Deliver
  <2> QED
    BY <2>1, <2>11 DEF Log!Next
<1> QED
  BY <1>2, <1>3

LEMMA ReadCompletes ==
  ASSUME ServerInv, ReadEnds
  PROVE  Log!Next \/ Unnoticed
<1>1. /\ main = "read" /\ off = Len(file) /\ UNCHANGED <<file, due, got, short>>
      /\ fate' = [fate EXCEPT ![client] = IF @ = "none" THEN "replied" ELSE @]
  BY DEF ReadEnds, Go, data
<1>2. client \in Clients /\ due[client] = file /\ due[client] # NULL
  BY <1>1, ReplyIs
<1>3. CASE fate[client] # "none"
  <2>1. fate' = fate
    BY <1>1, <1>2, <1>3 DEF ServerInv, TypeOK, NotesTypeOK
  <2> QED
    BY <1>1, <2>1 DEF Unnoticed, Log!vars
<1>4. CASE fate[client] = "none"
  <2>1. /\ got[client] \in Seq(Items) /\ file \in Seq(Items) /\ Len(got[client]) = off - todo
        /\ \A i \in 1 .. Len(got[client]) : got[client][i] = file[i]
        /\ todo = 0 /\ off \in Nat
    BY <1>1, <1>4, ReplyIs
  <2>2. Len(got[client]) = Len(file)
    BY <1>1, <2>1
  <2>3. got[client] = file
    BY <2>1, <2>2, SeqEqual
  <2>4. fate' = [fate EXCEPT ![client] = "replied"]
    BY <1>1, <1>4
  <2>5. Log!Complete(client)
    BY <1>1, <1>2, <1>4, <2>3, <2>4 DEF Log!Complete
  <2> QED
    BY <1>2, <2>5 DEF Log!Next
<1> QED
  BY <1>3, <1>4

LEMMA FinishRemoves ==
  ASSUME ServerInv, Finish
  PROVE  Log!Next
<1>1. main = "remove" /\ client = NULL /\ file' = << >> /\ UNCHANGED <<due, got, fate, short>>
  BY DEF Finish, Go, history, ServerInv, PlaceOK, WithClient
<1>2. ASSUME NEW c \in Clients PROVE due[c] # NULL => fate[c] # "none"
  <2>1. conn[c] # "open" /\ conn[c] \in {"none", "queued", "open", "closed"}
    BY <1>1, LineServerAssumption DEF ServerInv, ConnOK, TypeOK, PeersTypeOK
  <2> QED
    BY <2>1 DEF ServerInv, FateOK
<1>3. Log!Remove
  BY <1>1, <1>2 DEF Log!Remove
<1> QED
  BY <1>3 DEF Log!Next

LEMMA RefineStep ==
  ASSUME ServerInv, [Next]_vars
  PROVE  Log!Next \/ Unnoticed
<1>1. CASE UNCHANGED <<file, due, got, fate, short>>
  BY <1>1 DEF Unnoticed, Log!vars
<1>2. CASE ByClient \/ Idles \/ Receives \/ UNCHANGED vars
  BY <1>1, <1>2 DEF ByClient, Aside, vars, data, history, Idles, MainLoop, AcceptFails,
     SignalInAccept, Receives, LoopTest, Recv, Reopen, SignalNoted
<1>3. CASE OpenFile \/ Read \/ EndClient \/ (RecvNothing /\ program # "server")
  BY <1>1, <1>3 DEF OpenFile, Read, EndClient, RecvNothing, data, history
<1>4. ASSUME NEW c \in Clients, Accept(c) PROVE Log!Next \/ Unnoticed
  BY <1>1, <1>4 DEF Accept, data
<1>5. CASE GivesUp \/ LosesChunk \/ StopListening \/ Die
  <2>1. UNCHANGED <<file, due, got, short>> /\ \E S : Fails(S)
    BY <1>5 DEF GivesUp, OpenFails, NoBuffer, LoopStops, ReopenFails, ReadFails, RecvNothing,
       SignalInRecv, LosesChunk, SendFails, SignalInSend, LoseChunk, Drop, StopListening, Die, data
  <2> QED
    BY <2>1, FailsIsGiveUp
<1>6. CASE Write \/ Send \/ ReadEnds \/ Finish
  BY <1>6, WriteServes, SendDelivers, ReadCompletes, FinishRemoves
<1> QED
  BY <1>2, <1>3, <1>4, <1>5, <1>6, NextKinds DEF OneStep

\* Both sequential servers implement SharedLog: a request is appended at one
\* instant and the reply is the file as of then, and a reply some of which a signal
\* or an error lost never passes for one.
THEOREM Refinement == Spec => ServesTheLog
<1>1. Spec => Log!Init /\ [][Log!Next]_Log!vars
  BY RefineInit, RefineStep, Invariance, PTL DEF Spec, Unnoticed
<1> QED
  BY <1>1 DEF ServesTheLog, Log!Spec

-----------------------------------------------------------------------------
\* "shipped" stops before the newline of c for no other reason than these.
CutShort(c) ==
    /\ program # "server"
    /\ \/ peer[c] = "gone" \/ line[c] > BufParts
       \/ peer[c] = "eof" /\ sent[c] < line[c]

\* What is written has the newline in it, or had to be cut.
LineInv ==
    /\ program # "server" => size = BufParts /\ main # "test"
    /\ \A c \in Clients : main = "write" /\ c = client => used >= line[c] \/ CutShort(c)
    /\ \A c \in Clients : due[c] # NULL => HasLine(c) \/ c \in short \/ CutShort(c)
    /\ \A c \in Clients : fate[c] = "replied" => due[c] # NULL

LEMMA LineInit == Init => LineInv
  BY DEF Init, LineInv

LEMMA GivenStays ==
  ASSUME [Next]_vars
  PROVE  program' = program /\ line' = line
<1>1. UNCHANGED given
  BY NextKinds DEF OneStep, ByClient, Aside, Idles, Receives, GivesUp, LosesChunk, LoseChunk, MainLoop,
     AcceptFails, SignalInAccept, LoopTest, Recv, Reopen, SignalNoted, OpenFails, NoBuffer,
     LoopStops, ReopenFails, ReadFails, RecvNothing, SignalInRecv, SendFails, SignalInSend,
     OpenFile, Write, Read, ReadEnds, Send, EndClient, StopListening, Finish, Die, Accept,
     Arrives, Go, vars
<1> QED
  BY <1>1 DEF given

\* A reason to cut a line does not go away.
LEMMA CutStays ==
  ASSUME ServerInv, [Next]_vars, NEW c \in Clients, CutShort(c)
  PROVE  CutShort(c)'
<1>1. PeersTypeOK /\ line' = line /\ program' = program
  BY GivenStays DEF ServerInv, TypeOK
<1>2. CASE UNCHANGED <<peer, sent>>
  BY <1>1, <1>2 DEF CutShort
<1>3. ASSUME NEW S, Close(S) PROVE CutShort(c)'
  BY <1>1, <1>3 DEF CutShort, Close
<1>4. ASSUME NEW d \in Clients, Client(d) PROVE CutShort(c)'
  BY <1>1, <1>4 DEF CutShort, PeersTypeOK, Client, Connect, SendPart, EndSend, Hangup, TakeReply
<1>5. CASE EndClient \/ StopListening \/ Die
  BY <1>3, <1>5 DEF EndClient, StopListening, Die, CloseAll
<1>6. CASE Send \/ \E d \in Clients : Accept(d)
  BY <1>2, <1>6 DEF Send, PutReply, Accept, TakeFromQueue
<1>7. CASE UNCHANGED peers
  BY <1>2, <1>7 DEF peers
<1>8. CASE Idles \/ Receives \/ GivesUp \/ LosesChunk \/ UNCHANGED vars
  BY <1>7, <1>8 DEF Idles, MainLoop, AcceptFails, SignalInAccept, Receives, LoopTest, Recv, Reopen,
     SignalNoted, GivesUp, OpenFails, NoBuffer, LoopStops, ReopenFails, ReadFails, RecvNothing,
     SignalInRecv, LosesChunk, LoseChunk, SendFails, SignalInSend, Local, Arrives, vars
<1>9. CASE OpenFile \/ RecvNothing \/ Write \/ Read \/ ReadEnds \/ Finish
  BY <1>7, <1>9 DEF OpenFile, RecvNothing, Write, Read, ReadEnds, Finish, Local
<1> QED
  BY <1>4, <1>5, <1>6, <1>8, <1>9, NextKinds DEF OneStep, ByClient

\* What is written whole has its newline at the end of the file.
LEMMA WriteEndsLine ==
  ASSUME ServerInv, LineInv, Write, client \notin short'
  PROVE  (\E i \in 1 .. Len(file') : file'[i] = Message(client)[line[client]]) \/ CutShort(client)
<1>1. PICK n \in 0 .. MaxParts :
         /\ file' = file \o SubSeq(Message(client), 1, n)
         /\ short' = IF n = Packet THEN short ELSE short \cup {client}
         /\ SubSeq(Message(client), 1, n) \in Seq(Items)
         /\ Len(SubSeq(Message(client), 1, n)) = n
         /\ \A i \in 1 .. n : SubSeq(Message(client), 1, n)[i] = [from |-> client, part |-> i]
  BY WriteAppends
<1>2. n = Packet /\ main = "write" /\ client \in Clients
  BY <1>1, WriteAppends DEF Write, Go
<1>3. line[client] \in 1 .. MaxParts /\ used \in 0 .. MaxParts /\ file \in Seq(Items)
  BY <1>2, LineServerAssumption DEF ServerInv, TypeOK, PlaceTypeOK, DataTypeOK
<1>4. CASE CutShort(client)
  BY <1>4
<1>5. CASE line[client] <= Packet
  <2> DEFINE s == SubSeq(Message(client), 1, n)
             k == line[client]
  <2>1. k \in 1 .. n /\ s[k] = Message(client)[k] /\ Len(s) = n /\ s \in Seq(Items)
    BY <1>1, <1>2, <1>3, <1>5 DEF Message
  <2> HIDE DEF s, k
  <2>2. /\ Len(file \o s) = Len(file) + Len(s)
        /\ \A i \in 1 .. Len(file) + Len(s) :
              (file \o s)[i] = IF i <= Len(file) THEN file[i] ELSE s[i - Len(file)]
    <3>1. s \in Seq(Items) /\ file \in Seq(Items)
      BY <1>3, <2>1
    <3> QED
      BY <3>1, ConcatProperties
  <2>3. n \in Nat /\ Len(file) + k \in 1 .. Len(file) + n /\ ~(Len(file) + k <= Len(file))
        /\ Len(file) + k - Len(file) = k
    <3>1. Len(file) \in Nat /\ n \in Nat /\ k \in Nat /\ 1 <= k /\ k <= n
      BY <1>3, <2>1
    <3> QED
      BY <3>1
  <2>4. Len(file) + k \in 1 .. Len(file') /\ file'[Len(file) + k] = Message(client)[k]
    BY <1>1, <2>1, <2>2, <2>3 DEF s
  <2> QED
    BY <2>4 DEF k
<1>6. line[client] <= Packet \/ CutShort(client)
  BY <1>2, <1>3 DEF LineInv, Packet
<1> QED
  BY <1>4, <1>5, <1>6

LEMMA LineKeeps ==
  ASSUME ServerInv, LineInv, [Next]_vars
  PROVE  LineInv'
<1>1. /\ PlaceTypeOK /\ PeersTypeOK /\ DataTypeOK /\ NotesTypeOK /\ PlaceOK
      /\ \A c \in Clients : FateOK(c)
  BY DEF ServerInv, TypeOK
<1>2. program' = program /\ line' = line
  BY GivenStays
<1>3. program # "server" => size' = BufParts /\ main' # "test"
  <2>1. CASE OpenFile \/ EndClient \/ Die
    BY <1>1, <2>1 DEF OpenFile, EndClient, Die, Go
  <2>2. CASE LoopTest \/ LoopStops \/ UNCHANGED <<size, main>>
    BY <2>2 DEF LineInv, LoopTest, LoopStops, Go
  <2>3. CASE Idles \/ Receives \/ GivesUp \/ LosesChunk \/ UNCHANGED vars
    BY <2>2, <2>3 DEF LineInv, Idles, MainLoop, AcceptFails, SignalInAccept, Receives, Recv, Reopen,
       SignalNoted, GivesUp, OpenFails, NoBuffer, ReopenFails, ReadFails, RecvNothing,
       SignalInRecv, LosesChunk, LoseChunk, SendFails, SignalInSend, Arrives, Go, vars, buffer
  <2>4. CASE RecvNothing \/ Write \/ Read \/ ReadEnds \/ Send \/ StopListening \/ Finish
    BY <2>4 DEF LineInv, RecvNothing, Write, Read, ReadEnds, Send, StopListening, Finish, Go, buffer
  <2>5. CASE ByClient \/ \E c \in Clients : Accept(c)
    BY <2>5 DEF LineInv, ByClient, Aside, Accept, Go, buffer
  <2> QED
    BY <2>1, <2>2, <2>3, <2>4, <2>5, NextKinds DEF OneStep
<1>4. ASSUME NEW c \in Clients, main' = "write", c = client'
      PROVE  used' >= line'[c] \/ CutShort(c)'
  <2>1. CASE Recv
    BY <1>2, <1>4, <2>1 DEF Recv, Go, Local
  <2>2. CASE RecvNothing
    <3>1. /\ c = client /\ used' = used /\ main = "recv" /\ UNCHANGED <<peer, sent>>
      BY <1>4, <2>2 DEF RecvNothing, Go, Local, buffer, peers
    <3>2. line[c] \in 1 .. MaxParts /\ sent[c] \in 0 .. MaxParts /\ used \in 0 .. MaxParts
      BY <1>1, LineServerAssumption DEF PlaceTypeOK, PeersTypeOK, DataTypeOK
    <3>3. program # "server"
      BY <1>4, <2>2 DEF RecvNothing, Go
    <3>4. size = BufParts
      BY <3>3 DEF LineInv
    <3>5. used >= line[c] \/ CutShort(c)
      BY <2>2, <3>1, <3>2, <3>3, <3>4, LineServerAssumption, SocketPeersAssumption
         DEF RecvNothing, NothingToCome, CutShort
    <3> QED
      BY <1>2, <3>1, <3>5 DEF CutShort
  <2>3. CASE UNCHANGED <<main, client, used>>
    BY <1>2, <1>4, <2>3, CutStays DEF LineInv
  <2>4. CASE ByClient \/ SignalNoted \/ UNCHANGED vars
    BY <2>3, <2>4 DEF ByClient, Aside, SignalNoted, Arrives, Go, vars, buffer
  <2>5. CASE Idles \/ LoopTest \/ Reopen \/ LosesChunk \/ OpenFile \/ Write
    BY <1>4, <2>5 DEF Idles, MainLoop, AcceptFails, SignalInAccept, LoopTest, Reopen, LosesChunk,
       LoseChunk, SendFails, SignalInSend, OpenFile, Write, Arrives, Go
  <2>6. CASE GivesUp \/ Read \/ ReadEnds \/ Send \/ EndClient \/ StopListening \/ Finish \/ Die
    BY <1>4, <2>2, <2>6 DEF GivesUp, OpenFails, NoBuffer, LoopStops, ReopenFails, ReadFails, SignalInRecv,
       Read, ReadEnds, Send, EndClient, StopListening, Finish, Die, Arrives, Go
  <2>7. ASSUME NEW d \in Clients, Accept(d) PROVE FALSE
    BY <1>4, <2>7 DEF Accept, Go
  <2> QED
    BY <2>1, <2>2, <2>4, <2>5, <2>6, <2>7, NextKinds DEF OneStep, Receives
<1>5. ASSUME NEW c \in Clients, due'[c] # NULL
      PROVE  HasLine(c)' \/ c \in short' \/ CutShort(c)'
  <2>1. CASE due'[c] = due[c] /\ short' = short
    <3>1. HasLine(c) \/ c \in short \/ CutShort(c)
      BY <1>5, <2>1 DEF LineInv
    <3>2. HasLine(c) => HasLine(c)'
      BY <1>2, <2>1 DEF HasLine, Message
    <3> QED
      BY <2>1, <3>1, <3>2, CutStays
  <2>2. CASE Write
    <3>1. due' = [due EXCEPT ![client] = file'] /\ client \in Clients /\ short \subseteq short'
      BY <2>2, WriteAppends DEF Write
    <3>2. CASE c # client
      <4>1. due'[c] = due[c] /\ (HasLine(c) => HasLine(c)')
        BY <1>1, <1>2, <3>1, <3>2 DEF NotesTypeOK, HasLine, Message
      <4> QED
        BY <1>5, <3>1, <4>1, CutStays DEF LineInv
    <3>3. CASE c = client
      <4>1. due'[c] = file'
        BY <1>1, <3>1, <3>3 DEF NotesTypeOK
      <4>2. ASSUME c \notin short' PROVE HasLine(c)' \/ CutShort(c)'
        BY <1>2, <2>2, <3>3, <4>1, <4>2, WriteEndsLine, CutStays DEF HasLine, Message
      <4> QED
        BY <4>2
    <3> QED
      BY <3>2, <3>3
  <2>3. CASE ByClient \/ Idles \/ Receives \/ UNCHANGED vars
    BY <2>1, <2>3 DEF ByClient, Aside, vars, history, Idles, MainLoop, AcceptFails, SignalInAccept,
       Receives, LoopTest, Recv, Reopen, SignalNoted
  <2>4. CASE OpenFile \/ Read \/ EndClient \/ Finish \/ ReadEnds \/ Send
             \/ (RecvNothing /\ program # "server")
    BY <2>1, <2>4 DEF OpenFile, Read, EndClient, Finish, ReadEnds, Send, RecvNothing, history
  <2>5. CASE GivesUp \/ LosesChunk \/ StopListening \/ Die
    BY <2>1, <2>5 DEF GivesUp, OpenFails, NoBuffer, LoopStops, ReopenFails, ReadFails, RecvNothing,
       SignalInRecv, LosesChunk, SendFails, SignalInSend, LoseChunk, Drop, StopListening, Die
  <2>6. ASSUME NEW d \in Clients, Accept(d) PROVE HasLine(c)' \/ c \in short' \/ CutShort(c)'
    BY <2>1, <2>6 DEF Accept
  <2> QED
    BY <2>2, <2>3, <2>4, <2>5, <2>6, NextKinds DEF OneStep
<1>6. ASSUME NEW c \in Clients, fate'[c] = "replied" PROVE due'[c] # NULL
  <2>1. CASE due'[c] = due[c] /\ fate'[c] = fate[c]
    BY <1>6, <2>1 DEF LineInv
  <2>2. CASE Write
    <3>1. file' \in Seq(Items) /\ due' = [due EXCEPT ![client] = file'] /\ fate' = fate
      BY <2>2, WriteAppends DEF Write
    <3>2. due'[c] = file' \/ due'[c] = due[c]
      BY <1>1, <3>1 DEF NotesTypeOK
    <3> QED
      BY <1>6, <3>1, <3>2, LineServerAssumption DEF LineInv
  <2>3. CASE ReadEnds
    <3>1. due[client] # NULL /\ main = "read" /\ due' = due
      BY <2>3, ReplyIs DEF ReadEnds, Go
    <3>2. c = client \/ fate'[c] = fate[c]
      BY <1>1, <2>3 DEF ReadEnds, NotesTypeOK
    <3> QED
      BY <1>6, <3>1, <3>2 DEF LineInv
  <2>4. CASE GivesUp \/ LosesChunk \/ StopListening \/ Die
    <3>1. due' = due /\ \E S : Fails(S)
      BY <2>4 DEF GivesUp, OpenFails, NoBuffer, LoopStops, ReopenFails, ReadFails, RecvNothing,
         SignalInRecv, LosesChunk, SendFails, SignalInSend, LoseChunk, Drop, StopListening, Die
    <3>2. fate[c] = "replied"
      BY <1>1, <1>6, <3>1, FailsType
    <3> QED
      BY <3>1, <3>2 DEF LineInv
  <2>5. CASE ByClient \/ Idles \/ Receives \/ UNCHANGED vars
    BY <2>1, <2>5 DEF ByClient, Aside, vars, history, Idles, MainLoop, AcceptFails, SignalInAccept,
       Receives, LoopTest, Recv, Reopen, SignalNoted
  <2>6. CASE OpenFile \/ Read \/ EndClient \/ Finish \/ Send \/ (RecvNothing /\ program # "server")
    BY <2>1, <2>6 DEF OpenFile, Read, EndClient, Finish, Send, RecvNothing, history
  <2>7. ASSUME NEW d \in Clients, Accept(d) PROVE due'[c] # NULL
    BY <2>1, <2>7 DEF Accept
  <2> QED
    BY <2>2, <2>3, <2>4, <2>5, <2>6, <2>7, NextKinds DEF OneStep
<1> QED
  BY <1>2, <1>3, <1>4, <1>5, <1>6 DEF LineInv

\* A line that fits is received to its newline and sent back with it, however it
\* was split on its way: what is written without it was cut by the end of the
\* client or ("shipped") of the buffer.
THEOREM FittingLines == Spec => []FittingLineComesBack
<1>1. LineInv /\ ServerInv => FittingLineComesBack
  <2> SUFFICES ASSUME LineInv, ServerInv, NEW c \in Clients,
                      fate[c] = "replied", sent[c] >= line[c], peer[c] # "gone", c \notin short,
                      program = "server" \/ line[c] <= BufParts
               PROVE  HasLine(c)
    BY DEF FittingLineComesBack
  <2>1. sent[c] \in 0 .. MaxParts /\ line[c] \in 1 .. MaxParts
    BY LineServerAssumption DEF ServerInv, TypeOK, PlaceTypeOK, PeersTypeOK
  <2>2. ~CutShort(c)
    BY <2>1, LineServerAssumption, SocketPeersAssumption DEF CutShort
  <2>3. due[c] # NULL
    BY DEF LineInv
  <2> QED
    BY <2>2, <2>3 DEF LineInv
<1>2. LineInv /\ ServerInv /\ [Next]_vars => LineInv'
  BY LineKeeps
<1> QED
  BY <1>1, <1>2, LineInit, Invariance, PTL DEF Spec
=============================================================================
