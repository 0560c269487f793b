----------------------------- MODULE LineServer -----------------------------
(* The two servers that serve one client at a time.  "server" is             *)
(* server/aesdsocket.c: a signal sets a flag, the buffer grows until a       *)
(* newline is in it, the line is appended and the file sent back.  "shipped" *)
(* is base_external/package/aesd-assignments/server/aesdsocket.c: no signal  *)
(* handler, a buffer of fixed size, and whatever is in it when recv stops    *)
(* returning something is appended.  Where one comment gives no program the  *)
(* step is in both.                                                          *)
EXTENDS SocketPeers, Sequences, FiniteSets

CONSTANTS Programs,    \* those to run, of "server" and "shipped"
          LineLengths, \* where the newline of a request may be
          BufParts,    \* parts that fit in the buffer at first
          ChunkParts,  \* items of the file that fit in the buffer for the reply
          Stamp, NULL

Items == [from : Clients, part : 1 .. MaxParts]

ASSUME LineServerAssumption ==
    /\ Programs \subseteq {"server", "shipped"} /\ LineLengths \subseteq 1 .. MaxParts
    /\ BufParts \in Nat \ {0} /\ ChunkParts \in Nat \ {0}
    /\ NULL \notin Clients \cup Seq(Items)

VARIABLES
    program, line,  \* which server runs; for each client, the part with the newline
    main, client,   \* where the program is, and the client it serves
    exit_requested,
    used, size,     \* parts received; how many the buffer holds
    off, todo,      \* items read from the file; those of them still to be sent
    present, file,  \* does DATAFILE exist, and what is in it
    late,           \* history: clients accepted after a signal
    due, got, fate, \* history: the file when c's request was in it, what c was sent
                    \* while nothing had failed, how the server ended with c
    short           \* history: clients of whom the file took less than was written

given   == <<program, line>>
buffer  == <<used, size>>
reply   == <<off, todo>>
data    == <<present, file>>
history == <<late, due, got, fate, short>>
vars == <<given, listening, peers, main, client, exit_requested, buffer, reply, data, history>>

Init ==
    /\ program \in Programs /\ line \in [Clients -> LineLengths]
    /\ PeersInit
    /\ main = "loop" /\ client = NULL /\ exit_requested = FALSE
    /\ used = 0 /\ size = BufParts /\ off = 0 /\ todo = 0
    /\ present = FALSE /\ file = << >>
    /\ late = {}
    /\ due = [c \in Clients |-> NULL]
    /\ got = [c \in Clients |-> << >>]
    /\ fate = [c \in Clients |-> "none"]
    /\ short = {}

Running == main \notin {"exited", "down"}

\* A step of the program from one place to another.
Go(from, to) == main = from /\ main' = to /\ UNCHANGED given

Fails(S) == fate' = [c \in Clients |-> IF c \in S /\ fate[c] = "none"
                                       THEN "failed" ELSE fate[c]]

\* Gives the client up.
Drop == Fails({client}) /\ UNCHANGED <<late, due, got, short>>

Local == UNCHANGED <<listening, peers, client, exit_requested>>

-----------------------------------------------------------------------------
\* Mutant of MainLoop: does not look at the flag.
MainLoopForever ==
    /\ Go("loop", "accept")
    /\ Local /\ UNCHANGED <<buffer, reply, data, history>>

MainLoop ==
    /\ Go("loop", IF exit_requested THEN "end" ELSE "accept")
    /\ Local /\ UNCHANGED <<buffer, reply, data, history>>

Accept(c) ==
    /\ Go("accept", "open") /\ TakeFromQueue(c)
    /\ client' = c
    /\ late' = IF exit_requested THEN late \cup {c} ELSE late
    /\ UNCHANGED <<exit_requested, buffer, reply, data, due, got, fate, short>>

\* accept ran out of descriptors or memory.
AcceptFails ==
    /\ "memory" \in Faults
    /\ Go("accept", IF exit_requested THEN "end" ELSE "loop")
    /\ Local /\ UNCHANGED <<buffer, reply, data, history>>

\* The file is opened, and so created, before anything is received.
OpenFile ==
    /\ Go("open", IF program = "server" THEN "test" ELSE "recv")
    /\ present' = TRUE /\ used' = 0 /\ size' = BufParts
    /\ Local /\ UNCHANGED <<reply, file, history>>

OpenFails ==
    /\ "file" \in Faults /\ Go("open", "close")
    /\ Drop /\ Local /\ UNCHANGED <<buffer, reply, data>>

NoBuffer ==
    /\ "memory" \in Faults /\ program = "server" /\ Go("open", "close")
    /\ present' = TRUE
    /\ Drop /\ Local /\ UNCHANGED <<buffer, reply, file>>

\* Mutant of LoopTest: receives whatever the flag says.
LoopTestUnflagged ==
    /\ Go("test", "recv")
    /\ size' = IF used = size THEN 2 * size ELSE size
    /\ Local /\ UNCHANGED <<used, reply, data, history>>

\* "server": the head of the receive loop, with the buffer doubled when full.
LoopTest ==
    /\ ~exit_requested /\ Go("test", "recv")
    /\ size' = IF used = size THEN 2 * size ELSE size
    /\ Local /\ UNCHANGED <<used, reply, data, history>>

LoopStops ==
    /\ exit_requested \/ ("memory" \in Faults /\ used = size)
    /\ Go("test", "close")
    /\ Drop /\ Local /\ UNCHANGED <<buffer, reply, data>>

\* Mutant of Recv: recv is passed the size of the buffer, not what is left of it.
RecvFullSize ==
    /\ main = "recv" /\ sent[client] > used
    /\ used' = used + Min2(sent[client] - used, size)
    /\ Go("recv", IF used' >= line[client] THEN "write"
                  ELSE IF program = "server" THEN "test" ELSE "recv")
    /\ Local /\ UNCHANGED <<size, reply, data, history>>

\* recv takes what has arrived and fits.  "shipped" comes back here at once
\* while there is no newline.
Recv ==
    /\ main = "recv" /\ sent[client] > used /\ used < size
    /\ used' = Min2(sent[client], size)
    /\ Go("recv", IF used' >= line[client] THEN "write"
                  ELSE IF program = "server" THEN "test" ELSE "recv")
    /\ Local /\ UNCHANGED <<size, reply, data, history>>

\* Mutant of RecvNothing: the end of the stream is not told from "not yet".
RecvNothingRetries ==
    /\ Go("recv", IF program = "server" THEN "test" ELSE "write")
    /\ NothingToCome(client, used) \/ (used = size /\ sent[client] > used)
    /\ Local /\ UNCHANGED <<buffer, reply, data, history>>

\* recv has nothing: the stream ended, it was reset, or ("shipped") the buffer
\* is full and zero bytes were asked for, which waits like any recv until there
\* is more.  What "server" has is dropped, what "shipped" has is appended.
RecvNothing ==
    /\ Go("recv", IF program = "server" THEN "close" ELSE "write")
    /\ NothingToCome(client, used) \/ (used = size /\ sent[client] > used)
    /\ IF program = "server" THEN Drop ELSE UNCHANGED history
    /\ Local /\ UNCHANGED <<buffer, reply, data>>

\* Mutant of Packet: the length of the line, less one for the newline.
PacketNoNewline == IF program = "server" THEN line[client] - 1 ELSE used

\* Mutant of Packet: everything received, also what follows the newline.
PacketAll == used

\* "server" appends the line, "shipped" everything received.
Packet == IF program = "server" THEN line[client] ELSE used

\* Mutant of Write: reads on from the end of the file, not from its beginning.
WriteNoRewind ==
    /\ Go("write", IF program = "server" THEN "reopen" ELSE "read")
    /\ \E n \in 0 .. Packet : /\ n = Packet \/ "file" \in Faults
                             /\ file' = file \o SubSeq(Message(client), 1, n)
                             /\ short' = IF n = Packet THEN short ELSE short \cup {client}
    /\ due' = [due EXCEPT ![client] = file']
    /\ off' = Len(file')
    /\ Local /\ UNCHANGED <<buffer, todo, present, late, got, fate>>

\* The result of write or fwrite is not looked at.
Write ==
    /\ Go("write", IF program = "server" THEN "reopen" ELSE "read")
    /\ \E n \in 0 .. Packet : /\ n = Packet \/ "file" \in Faults
                             /\ file' = file \o SubSeq(Message(client), 1, n)
                             /\ short' = IF n = Packet THEN short ELSE short \cup {client}
    /\ due' = [due EXCEPT ![client] = file']
    /\ off' = 0
    /\ Local /\ UNCHANGED <<buffer, todo, present, late, got, fate>>

Reopen ==
    /\ Go("reopen", "read")
    /\ Local /\ UNCHANGED <<buffer, reply, data, history>>

ReopenFails ==
    /\ "file" \in Faults /\ Go("reopen", "close")
    /\ Drop /\ Local /\ UNCHANGED <<buffer, reply, data>>

Read ==
    /\ off < Len(file) /\ Go("read", "send")
    /\ off' = Min2(off + ChunkParts, Len(file))
    /\ todo' = off' - off
    /\ Local /\ UNCHANGED <<buffer, data, history>>

ReadEnds ==
    /\ off = Len(file) /\ Go("read", "close")
    /\ fate' = [fate EXCEPT ![client] = IF @ = "none" THEN "replied" ELSE @]
    /\ Local /\ UNCHANGED <<buffer, reply, data, late, due, got, short>>

ReadFails ==
    /\ "file" \in Faults /\ Go("read", "close")
    /\ Drop /\ Local /\ UNCHANGED <<buffer, reply, data>>

Send ==
    /\ Go("send", IF todo = 1 THEN "read" ELSE "send") /\ PutReply(client)
    /\ got' = IF fate[client] = "none"
              THEN [got EXCEPT ![client] = Append(@, file[off - todo + 1])] ELSE got
    /\ todo' = todo - 1
    /\ UNCHANGED <<client, exit_requested, buffer, off, data, late, due, fate, short>>

\* The result of send is not looked at: the rest of the chunk is lost and the
\* loop goes on with the next.
LoseChunk == Go("send", "read") /\ todo' = 0 /\ Drop

SendFails ==
    /\ LoseChunk /\ peer[client] = "gone"
    /\ Local /\ UNCHANGED <<buffer, off, data>>

EndClient ==
    /\ Go("close", "loop") /\ Close({client})
    /\ client' = NULL /\ used' = 0 /\ size' = BufParts /\ off' = 0 /\ todo' = 0
    /\ UNCHANGED <<listening, exit_requested, data, history>>

StopListening ==
    /\ Go("end", "remove") /\ CloseAll /\ Fails(Queued)
    /\ UNCHANGED <<client, exit_requested, buffer, reply, data, late, due, got, short>>

Finish ==
    /\ Go("remove", "exited")
    /\ present' = FALSE /\ file' = << >>
    /\ Local /\ UNCHANGED <<buffer, reply, history>>

-----------------------------------------------------------------------------
\* SIGINT or SIGTERM.  "server" only notes it, and a call that waits is
\* interrupted; one that is about to be made is not.
Arrives(from, to) ==
    /\ "signal" \in Faults /\ program = "server" /\ Running /\ ~exit_requested
    /\ exit_requested' = TRUE
    /\ Go(from, to)
    /\ UNCHANGED <<listening, peers, client>>

SignalNoted == Arrives(main, main) /\ UNCHANGED <<buffer, reply, data, history>>

\* Mutant of SignalInAccept: returns from main at once.
SignalInAcceptReturns ==
    Arrives("accept", "exited") /\ Queued = {} /\ UNCHANGED <<buffer, reply, data, history>>

SignalInAccept ==
    Arrives("accept", "end") /\ Queued = {} /\ UNCHANGED <<buffer, reply, data, history>>

SignalInRecv ==
    /\ Arrives("recv", "close") /\ sent[client] = used /\ peer[client] = "on"
    /\ Drop /\ UNCHANGED <<buffer, reply, data>>

SignalInSend ==
    /\ Arrives("send", "read") /\ unread[client] = Window /\ peer[client] # "gone"
    /\ LoseChunk /\ UNCHANGED <<buffer, off, data>>

\* The process is killed, by a signal "shipped" does not handle or by the
\* SIGPIPE neither program handles; the file stays.
Die ==
    /\ main' = "down" /\ client' = NULL /\ exit_requested' = FALSE
    /\ CloseAll /\ Fails({c \in Clients : conn[c] # "none"})
    /\ used' = 0 /\ size' = BufParts /\ off' = 0 /\ todo' = 0
    /\ UNCHANGED <<given, data, late, due, got, short>>

SignalKills == "signal" \in Faults /\ program = "shipped" /\ Running /\ Die

BrokenPipe == main = "send" /\ peer[client] = "gone" /\ Die

-----------------------------------------------------------------------------
Serve == \/ MainLoop \/ OpenFile \/ OpenFails \/ NoBuffer \/ LoopTest \/ LoopStops
         \/ Recv \/ RecvNothing \/ Write \/ Reopen \/ ReopenFails
         \/ Read \/ ReadEnds \/ ReadFails \/ Send \/ SendFails \/ BrokenPipe
         \/ EndClient \/ StopListening \/ Finish
         \/ \E c \in Clients : Accept(c)

Signal == SignalNoted \/ SignalInAccept \/ SignalInRecv \/ SignalInSend \/ SignalKills

\* A client acts; nothing of the server's own moves.
Aside == UNCHANGED <<given, main, client, exit_requested, buffer, reply, data, history>>

Next == \/ Serve \/ AcceptFails \/ Signal
        \/ \E c \in Clients : Client(c) /\ Aside

Spec == Init /\ [][Next]_vars

\* The program keeps running, accept does not fail for ever while a client
\* waits, and clients read what they are sent and do not keep a connection open
\* for ever without ending what they send.
FairSpec ==
    /\ Spec /\ WF_vars(Serve) /\ SF_vars(\E c \in Clients : Accept(c))
    /\ \A c \in Clients : WF_vars(TakeReply(c) /\ Aside) /\ WF_vars(EndSend(c) /\ Aside)

-----------------------------------------------------------------------------
Labels == {"loop", "accept", "open", "test", "recv", "write", "reopen", "read", "send",
           "close", "end", "remove", "exited", "down"}

PlaceTypeOK ==
    /\ program \in Programs /\ line \in [Clients -> LineLengths]
    /\ main \in Labels /\ client \in Clients \cup {NULL}
    /\ exit_requested \in BOOLEAN

DataTypeOK ==
    /\ used \in 0 .. MaxParts /\ size \in Nat /\ used <= size
    /\ off \in 0 .. Len(file) /\ todo \in 0 .. Min2(off, ChunkParts)
    /\ present \in BOOLEAN /\ file \in Seq(Items)

NotesTypeOK ==
    /\ late \subseteq Clients
    /\ due \in [Clients -> Seq(Items) \cup {NULL}] /\ got \in [Clients -> Seq(Items)]
    /\ fate \in [Clients -> {"none", "replied", "failed"}] /\ short \subseteq Clients

TypeOK == PeersTypeOK /\ PlaceTypeOK /\ DataTypeOK /\ NotesTypeOK

\* What a client asked to be logged: "server" appends its line, however recv
\* splits it; "shipped" what it has when it stops receiving, which is less than
\* the line if the buffer is full before it or if the client ends early.
Request(c) == IF program = "server" THEN line[c] ELSE IF c = client THEN used ELSE 0

Log == INSTANCE SharedLog WITH log <- file, request <- [c \in Clients |-> Request(c)]

\* The request of a client is appended once and in one piece, the whole of it
\* unless the file takes less than is written to it; and a client counts as
\* replied to when it was sent all of the file as of that instant.
ServesTheLog == Log!Spec

\* The line of c, which is logged in one piece, is in its reply up to the end.
HasLine(c) == \E i \in 1 .. Len(due[c]) : due[c][i] = Message(c)[line[c]]

\* sockettest.sh, and not what "shipped" does: who sends a line, of any length,
\* and is replied to gets it back.
LineComesBack ==
    \A c \in Clients : fate[c] = "replied" /\ sent[c] >= line[c] => HasLine(c)

\* A line is received to its end, in however many pieces it comes: it comes back
\* whole if the file took it, its client is there, and ("shipped") it fits in
\* the buffer.
FittingLineComesBack ==
    \A c \in Clients :
        /\ fate[c] = "replied" /\ sent[c] >= line[c] /\ peer[c] # "gone" /\ c \notin short
        /\ program = "server" \/ line[c] <= BufParts
        => HasLine(c)

\* "server" logs lines: what follows the newline in the same recv stays out of
\* the file, and so does all of a request whose newline never came.
LinesOnly ==
    program = "server" =>
        /\ \A i \in 1 .. Len(file) : file[i].part <= line[file[i].from]
        /\ \A c \in Clients : due[c] # NULL /\ conn[c] = "open" => sent[c] >= line[c]

\* After a signal at most one more client is accepted, and nothing of it is
\* logged or answered: the flag is set but accept was about to be called.
LateClientTurnedAway ==
    Cardinality(late) <= 1 /\ \A c \in late : due[c] = NULL /\ fate[c] # "replied"

\* An exit on request leaves no file and no client connected.
CleanExit == main = "exited" => ~present /\ \A c \in Clients : conn[c] \in {"none", "closed"}

\* A client whose line has arrived is answered or turned away.
Answered == \A c \in Clients : sent[c] >= line[c] ~> fate[c] # "none"

\* With clients that end what they send, a signal is lost in one place only:
\* between the test of the flag and the call of accept, and there only until the
\* next client comes.  (One that comes between the test in line 147 and recv is
\* lost as long as the client is silent.)
StopsAtNextClient == exit_requested /\ (main = "accept" => Queued # {}) ~> ~Running
=============================================================================
