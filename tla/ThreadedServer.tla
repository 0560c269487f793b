--------------------------- MODULE ThreadedServer ---------------------------
(* The threaded socket server (assignment6/aesdsocket.c): the main thread    *)
(* accepts and joins, one thread serves each connection, one writes the      *)
(* timestamps, a signal asks for the end.  Clients are peers of the server,  *)
(* each connecting at most once; what they send is counted in parts, and the *)
(* data file is the sequence of the parts and timestamps appended to it.     *)
EXTENDS SocketPeers, Sequences

CONSTANTS BufParts,    \* parts that fit in the buffer handed to recv
          ChunkParts,  \* items of the file that fit in filebuf
          MaxStamps,   \* bound: timestamps written before a signal
          MaxRuns,     \* bound: times the server is started
          Timer,       \* the timestamp thread, as an owner of the mutex
          Stamp,       \* the timestamp line
          NULL

Items == [from : Clients, part : 1 .. MaxParts] \cup {Stamp}

ASSUME ThreadedServerAssumption ==
    /\ BufParts \in Nat \ {0} /\ ChunkParts \in Nat \ {0}
    /\ MaxStamps \in Nat /\ MaxRuns \in Nat \ {0}
    /\ NULL \notin Clients \cup {Timer} \cup Seq(Items) /\ Timer \notin Clients

VARIABLES
    main,            \* where the main thread is; "down" when killed
    new, list, curr, \* the thread_info in hand, thread_list, and cleanup's cursor
    exit_requested,
    handling,        \* the main thread runs signal_handler
    mutex,           \* owner of file_mutex
    present, file,   \* does DATAFILE exist, and what is in it
    timer, stamps,   \* the timestamp thread
    pc, used, off, chunk,  \* the client threads and their locals
    run,             \* history: which start of the server this is
    due, got, fate,  \* history: the file when c's request was in it, what was
                     \* sent to c, and how the server ended with c
    short            \* history: clients of whom write took less than it was given

process == <<main, new, list, curr>>
signal  == <<exit_requested, listening, handling>>
data    == <<present, file>>
clock   == <<timer, stamps>>
locals  == <<used, off, chunk>>
history == <<run, due, got, short>>
work    == <<mutex, data, clock, pc, locals>>
notes   == <<history, fate>>
vars == <<process, signal, work, peers, notes>>

Goto(c, l) == pc' = [pc EXCEPT ![c] = l]

\* The locals of threads that no longer use them.
Forget(S) ==
    /\ used' = [c \in Clients |-> IF c \in S THEN 0 ELSE used[c]]
    /\ off' = [c \in Clients |-> IF c \in S THEN 0 ELSE off[c]]
    /\ chunk' = [c \in Clients |-> IF c \in S THEN << >> ELSE chunk[c]]

Fails(S) == fate' = [c \in Clients |-> IF c \in S /\ fate[c] = "none"
                                       THEN "failed" ELSE fate[c]]

\* The result of pthread_create is not looked at here either.
Created == {"check"} \cup (IF "thread" \in Faults THEN {"unborn"} ELSE {})

Init ==
    /\ main = "loop" /\ new = NULL /\ list = << >> /\ curr = 1
    /\ exit_requested = FALSE /\ handling = FALSE
    /\ mutex = NULL
    /\ present = FALSE /\ file = << >>
    /\ timer \in Created /\ stamps = 0
    /\ pc = [c \in Clients |-> "none"]
    /\ used = [c \in Clients |-> 0]
    /\ off = [c \in Clients |-> 0]
    /\ chunk = [c \in Clients |-> << >>]
    /\ PeersInit
    /\ run = 1
    /\ due = [c \in Clients |-> NULL]
    /\ got = [c \in Clients |-> << >>]
    /\ fate = [c \in Clients |-> "none"]
    /\ short = {}

-----------------------------------------------------------------------------
\* SIGINT or SIGTERM, delivered to the main thread between two of its steps.
Running == main \notin {"down", "exited"}

Signal ==
    /\ "signal" \in Faults /\ Running /\ ~exit_requested
    /\ exit_requested' = TRUE /\ handling' = TRUE
    /\ UNCHANGED <<process, listening, work, peers, notes>>

\* shutdown(server_fd) wakes accept and resets what is still in the queue.
StopListening == listening' = FALSE /\ Close(Queued) /\ Fails(Queued)

\* Mutant of HandlerEnds: the handler only sets the flag.
HandlerOnlyFlags ==
    /\ handling /\ handling' = FALSE
    /\ UNCHANGED <<process, exit_requested, listening, work, peers, notes>>

HandlerEnds ==
    /\ handling /\ handling' = FALSE
    /\ StopListening
    /\ UNCHANGED <<process, exit_requested, work, history>>

-----------------------------------------------------------------------------
\* The main thread.
At(l) == main = l /\ ~handling

MainLoop ==
    /\ At("loop")
    /\ main' = IF exit_requested THEN "shutdown" ELSE "accept"
    /\ UNCHANGED <<new, list, curr, signal, work, peers, notes>>

Accept(c) ==
    /\ At("accept") /\ TakeFromQueue(c)
    /\ new' = c /\ main' = "setup"
    /\ UNCHANGED <<list, curr, exit_requested, handling, work, notes>>

AcceptFails ==
    /\ At("accept") /\ ~listening
    /\ main' = "shutdown"
    /\ UNCHANGED <<new, list, curr, signal, work, peers, notes>>

\* accept ran out of descriptors or memory.  Nothing makes this happen: it is
\* no part of MainStep, whose fairness must not count on it.
AcceptRunsOut ==
    /\ "memory" \in Faults /\ At("accept")
    /\ main' = IF exit_requested THEN "shutdown" ELSE "loop"
    /\ UNCHANGED <<new, list, curr, signal, work, peers, notes>>

\* Mutant of NoThreadInfo: goes on without closing the descriptor.
NoThreadInfoKeepsOpen ==
    /\ "memory" \in Faults /\ At("setup")
    /\ Fails({new})
    /\ new' = NULL /\ main' = "loop"
    /\ UNCHANGED <<list, curr, signal, work, peers, history>>

NoThreadInfo ==
    /\ "memory" \in Faults /\ At("setup")
    /\ Close({new}) /\ Fails({new})
    /\ new' = NULL /\ main' = "loop"
    /\ UNCHANGED <<list, curr, signal, work, history>>

\* The result of pthread_create is not looked at: a thread that could not be
\* created is listed like the others.
Spawn ==
    /\ At("setup")
    /\ Goto(new, "start") \/ ("thread" \in Faults /\ Goto(new, "unborn"))
    /\ main' = "add"
    /\ UNCHANGED <<new, list, curr, signal, mutex, data, clock, locals, peers, notes>>

AddThread ==
    /\ At("add")
    /\ list' = <<new>> \o list
    /\ new' = NULL /\ curr' = 1 /\ main' = "cleanup"
    /\ UNCHANGED <<signal, work, peers, notes>>

\* One turn of the loop of cleanup_threads, at position curr of the list.
CleanupSkips ==
    /\ At("cleanup") /\ curr <= Len(list) /\ pc[list[curr]] # "done"
    /\ curr' = curr + 1
    /\ UNCHANGED <<main, new, list, signal, work, peers, notes>>

\* Mutant of Unlinked: thread_list is set to the next entry even when there is
\* one before.
UnlinkedFromHead(s, i) == SubSeq(s, i + 1, Len(s))

Unlinked(s, i) == SubSeq(s, 1, i - 1) \o SubSeq(s, i + 1, Len(s))

\* Mutant of CleanupJoins: moves on from the entry that took its place.
CleanupJoinsSkips ==
    /\ At("cleanup") /\ curr <= Len(list) /\ pc[list[curr]] = "done"
    /\ list' = Unlinked(list, curr) /\ curr' = curr + 1
    /\ Goto(list[curr], "joined")
    /\ Close({list[curr]})
    /\ UNCHANGED <<main, new, signal, mutex, data, clock, locals, notes>>

CleanupJoins ==
    /\ At("cleanup") /\ curr <= Len(list) /\ pc[list[curr]] = "done"
    /\ list' = Unlinked(list, curr)
    /\ Goto(list[curr], "joined")
    /\ Close({list[curr]})
    /\ UNCHANGED <<main, new, curr, signal, mutex, data, clock, locals, notes>>

CleanupEnds ==
    /\ At("cleanup") /\ curr > Len(list)
    /\ curr' = 1 /\ main' = "loop"
    /\ UNCHANGED <<new, list, signal, work, peers, notes>>

Shutdown ==
    /\ At("shutdown")
    /\ StopListening
    /\ main' = "join_timer"
    /\ UNCHANGED <<new, list, curr, exit_requested, handling, work, history>>

\* Mutant of JoinTimer: goes on without waiting for the timestamp thread.
JoinTimerUnwaited ==
    /\ At("join_timer")
    /\ main' = "join"
    /\ UNCHANGED <<new, list, curr, signal, work, peers, notes>>

\* pthread_join of a thread that was never created, its id never written:
\* undefined, taken here and in JoinThread to return, in JoinCrashes to crash.
JoinTimer ==
    /\ At("join_timer") /\ timer \in {"done", "unborn"}
    /\ main' = "join"
    /\ UNCHANGED <<new, list, curr, signal, work, peers, notes>>

JoinThread ==
    /\ At("join") /\ list # << >> /\ pc[Head(list)] \in {"done", "unborn"}
    /\ list' = Tail(list)
    /\ Goto(Head(list), "joined")
    /\ Close({Head(list)}) /\ Fails({Head(list)})
    /\ UNCHANGED <<main, new, curr, signal, mutex, data, clock, locals, history>>

Finish ==
    /\ At("join") /\ list = << >>
    /\ present' = FALSE /\ file' = << >>
    /\ main' = "exited"
    /\ UNCHANGED <<new, list, curr, signal, mutex, clock, pc, locals, peers, notes>>

\* The process is killed: its memory, threads and connections are gone, the
\* data file is not.
Die ==
    /\ main' = "down" /\ new' = NULL /\ list' = << >> /\ curr' = 1
    /\ exit_requested' = FALSE /\ handling' = FALSE
    /\ mutex' = NULL
    /\ timer' = "off"
    /\ pc' = [c \in Clients |-> IF pc[c] = "none" THEN "none" ELSE "joined"]
    /\ Forget(Clients)
    /\ CloseAll /\ Fails({c \in Clients : conn[c] # "none"})
    /\ UNCHANGED <<data, stamps, history>>

JoinCrashes ==
    /\ \/ At("join_timer") /\ timer = "unborn"
       \/ At("join") /\ list # << >> /\ pc[Head(list)] = "unborn"
    /\ Die

Start ==
    /\ ~Running /\ run < MaxRuns
    /\ run' = run + 1
    /\ main' = "loop" /\ exit_requested' = FALSE /\ listening' = TRUE /\ timer' \in Created
    /\ UNCHANGED <<new, list, curr, handling, mutex, data, stamps, pc, locals, peers,
                   due, got, fate, short>>

MainStep == \/ MainLoop \/ AcceptFails \/ NoThreadInfo \/ Spawn \/ AddThread
            \/ CleanupSkips \/ CleanupJoins \/ CleanupEnds
            \/ Shutdown \/ JoinTimer \/ JoinThread \/ JoinCrashes \/ Finish
            \/ \E c \in Clients : Accept(c)

-----------------------------------------------------------------------------
\* handle_client, run by client_thread_func for connection c.
Begin(c) ==
    /\ pc[c] = "start"
    /\ Goto(c, IF exit_requested THEN "log" ELSE "recv")
    /\ IF exit_requested THEN Fails({c}) ELSE UNCHANGED fate
    /\ UNCHANGED <<process, signal, mutex, data, clock, locals, peers, history>>

NoBuffer(c) ==
    /\ "memory" \in Faults /\ pc[c] = "start"
    /\ Goto(c, "done") /\ Fails({c})
    /\ UNCHANGED <<process, signal, mutex, data, clock, locals, peers, history>>

Recv(c) ==
    /\ pc[c] = "recv" /\ sent[c] > 0
    /\ used' = [used EXCEPT ![c] = Min2(sent[c], BufParts)]
    /\ Goto(c, "lock")
    /\ UNCHANGED <<process, signal, mutex, data, clock, off, chunk, peers, notes>>

\* The end of the stream, or a reset.
RecvNothing(c) ==
    /\ pc[c] = "recv"
    /\ NothingToCome(c, 0)
    /\ Goto(c, "log") /\ Fails({c})
    /\ UNCHANGED <<process, signal, mutex, data, clock, locals, peers, history>>

\* Mutant of Lock: the mutex is not waited for.
LockUnwaited(c) ==
    /\ pc[c] = "lock"
    /\ mutex' = c
    /\ Goto(c, "append")
    /\ UNCHANGED <<process, signal, data, clock, locals, peers, notes>>

Lock(c) ==
    /\ pc[c] = "lock" /\ mutex = NULL
    /\ mutex' = c
    /\ Goto(c, "append")
    /\ UNCHANGED <<process, signal, data, clock, locals, peers, notes>>

\* The count write returns is not looked at: a short write passes for a full one.
AppendRequest(c) ==
    /\ pc[c] = "append"
    /\ present' = TRUE
    /\ \E n \in 1 .. used[c] : /\ n = used[c] \/ "file" \in Faults
                              /\ file' = file \o SubSeq(Message(c), 1, n)
                              /\ short' = IF n = used[c] THEN short ELSE short \cup {c}
    /\ due' = [due EXCEPT ![c] = file']
    /\ off' = [off EXCEPT ![c] = 0]
    /\ Goto(c, "read")
    /\ UNCHANGED <<process, signal, mutex, clock, used, chunk, peers, run, got, fate>>

\* open or write fails; open may have created the file.
AppendFails(c) ==
    /\ "file" \in Faults /\ pc[c] = "append"
    /\ present' \in {present, TRUE}
    /\ Goto(c, "bail") /\ Fails({c})
    /\ UNCHANGED <<process, signal, mutex, file, clock, locals, peers, history>>

ReopenFails(c) ==
    /\ "file" \in Faults /\ pc[c] = "read" /\ off[c] = 0
    /\ Goto(c, "bail") /\ Fails({c})
    /\ UNCHANGED <<process, signal, mutex, data, clock, locals, peers, history>>

Read(c) ==
    /\ pc[c] = "read" /\ off[c] < Len(file)
    /\ LET n == Min2(off[c] + ChunkParts, Len(file))
       IN  /\ chunk' = [chunk EXCEPT ![c] = SubSeq(file, off[c] + 1, n)]
           /\ off' = [off EXCEPT ![c] = n]
    /\ Goto(c, "send")
    /\ UNCHANGED <<process, signal, mutex, data, clock, used, peers, notes>>

ReadEnds(c) ==
    /\ pc[c] = "read" /\ off[c] = Len(file)
    /\ fate' = [fate EXCEPT ![c] = "replied"]
    /\ Goto(c, "unlock")
    /\ UNCHANGED <<process, signal, mutex, data, clock, locals, peers, history>>

\* A read error ends the loop as the end of the file does.
ReadFails(c) ==
    /\ "file" \in Faults /\ pc[c] = "read"
    /\ Goto(c, "unlock") /\ Fails({c})
    /\ UNCHANGED <<process, signal, mutex, data, clock, locals, peers, history>>

\* send returns when the kernel has taken the whole of filebuf.
Send(c) ==
    /\ pc[c] = "send" /\ PutReply(c)
    /\ got' = [got EXCEPT ![c] = Append(@, Head(chunk[c]))]
    /\ chunk' = [chunk EXCEPT ![c] = Tail(@)]
    /\ Goto(c, IF Len(chunk[c]) = 1 THEN "read" ELSE "send")
    /\ UNCHANGED <<process, exit_requested, handling, mutex, data, clock, used, off, run,
                   due, fate, short>>

SendFails(c) ==
    /\ pc[c] = "send" /\ peer[c] = "gone"
    /\ Goto(c, "unlock") /\ Fails({c})
    /\ UNCHANGED <<process, signal, mutex, data, clock, locals, peers, history>>

\* SIGPIPE is neither ignored nor handled.
BrokenPipe(c) == pc[c] = "send" /\ peer[c] = "gone" /\ Die

Unlock(c) ==
    /\ pc[c] \in {"unlock", "bail"}
    /\ mutex' = NULL
    /\ Goto(c, IF pc[c] = "bail" THEN "done" ELSE "log")
    /\ Forget({c})
    /\ UNCHANGED <<process, signal, data, clock, peers, notes>>

\* Logs "Closed connection", which the early returns do not, and sets
\* thread_complete: the thread ends.
LogClosed(c) ==
    /\ pc[c] = "log"
    /\ Goto(c, "done")
    /\ UNCHANGED <<process, signal, mutex, data, clock, locals, peers, notes>>

ThreadStep(c) ==
    \/ Begin(c) \/ NoBuffer(c) \/ Recv(c) \/ RecvNothing(c) \/ Lock(c)
    \/ AppendRequest(c) \/ AppendFails(c) \/ ReopenFails(c)
    \/ Read(c) \/ ReadEnds(c) \/ ReadFails(c) \/ Send(c) \/ SendFails(c) \/ BrokenPipe(c)
    \/ Unlock(c) \/ LogClosed(c)

-----------------------------------------------------------------------------
\* timestamp_thread_func.
Tick(from, to) ==
    /\ timer = from /\ timer' = to
    /\ UNCHANGED <<process, signal, pc, locals, peers, notes>>

TimerLoop ==
    /\ Tick("check", IF exit_requested THEN "done" ELSE "sleep")
    /\ UNCHANGED <<mutex, data, stamps>>

TimerWakes ==
    /\ stamps < MaxStamps \/ exit_requested
    /\ Tick("sleep", "lock")
    /\ UNCHANGED <<mutex, data, stamps>>

TimerLocks ==
    /\ mutex = NULL /\ mutex' = Timer
    /\ Tick("lock", "append")
    /\ UNCHANGED <<data, stamps>>

AppendStamp ==
    /\ Tick("append", "unlock")
    /\ present' = TRUE /\ file' = Append(file, Stamp)
    /\ stamps' = stamps + 1
    /\ UNCHANGED mutex

\* Mutant of StampFails: leaves the loop's body without unlocking.
StampFailsKeepsLock ==
    /\ "file" \in Faults
    /\ Tick("append", "check")
    /\ present' \in {present, TRUE}
    /\ stamps' = stamps + 1
    /\ UNCHANGED <<mutex, file>>

\* fopen fails, or it creates the file and nothing gets written to it.
StampFails ==
    /\ "file" \in Faults
    /\ Tick("append", "unlock")
    /\ present' \in {present, TRUE}
    /\ stamps' = stamps + 1
    /\ UNCHANGED <<mutex, file>>

TimerUnlocks ==
    /\ mutex' = NULL
    /\ Tick("unlock", "check")
    /\ UNCHANGED <<data, stamps>>

TimerStep == TimerLoop \/ TimerWakes \/ TimerLocks \/ AppendStamp \/ StampFails \/ TimerUnlocks

-----------------------------------------------------------------------------
\* A client acts; nothing of the server's own moves.
Aside == UNCHANGED <<process, exit_requested, handling, work, notes>>

Next == \/ MainStep \/ AcceptRunsOut \/ Signal \/ HandlerEnds \/ TimerStep \/ Start
        \/ \E c \in Clients : (Client(c) /\ Aside) \/ ThreadStep(c)

Spec == Init /\ [][Next]_vars

\* The threads of the server keep running.  That is all the code can count on.
ServerFairness ==
    /\ WF_vars(MainStep) /\ WF_vars(HandlerEnds) /\ WF_vars(TimerStep)
    /\ \A c \in Clients : WF_vars(ThreadStep(c))

ServerFairSpec == Spec /\ ServerFairness

\* accept does not fail for ever while a client waits, and clients read what they
\* are sent and do not keep a connection open for ever without sending.
FairSpec ==
    /\ ServerFairSpec /\ SF_vars(\E c \in Clients : Accept(c))
    /\ \A c \in Clients : WF_vars(TakeReply(c) /\ Aside) /\ WF_vars(EndSend(c) /\ Aside)

-----------------------------------------------------------------------------
MainLabels == {"loop", "accept", "setup", "add", "cleanup", "shutdown", "join_timer",
               "join", "exited", "down"}
InFile == {"append", "read", "send", "unlock", "bail"}
Alive  == {"start", "recv", "lock", "log", "done"} \cup InFile

Fates == {"none", "replied", "failed"}

MainTypeOK ==
    /\ main \in MainLabels /\ new \in Clients \cup {NULL}
    /\ list \in Seq(Clients) /\ curr \in 1 .. Len(list) + 1
    /\ exit_requested \in BOOLEAN /\ handling \in BOOLEAN

FileTypeOK ==
    /\ mutex \in Clients \cup {Timer, NULL}
    /\ present \in BOOLEAN /\ file \in Seq(Items)
    /\ timer \in {"unborn", "check", "sleep", "lock", "append", "unlock", "done", "off"}
    /\ stamps \in Nat

ThreadTypeOK ==
    /\ pc \in [Clients -> {"none", "unborn", "joined"} \cup Alive]
    /\ used \in [Clients -> 0 .. MaxParts] /\ off \in [Clients -> Nat]
    /\ chunk \in [Clients -> Seq(Items)]

NotesTypeOK ==
    /\ run \in 1 .. MaxRuns
    /\ due \in [Clients -> Seq(Items) \cup {NULL}] /\ got \in [Clients -> Seq(Items)]
    /\ fate \in [Clients -> Fates] /\ short \subseteq Clients

TypeOK == MainTypeOK /\ PeersTypeOK /\ FileTypeOK /\ ThreadTypeOK /\ NotesTypeOK

\* What there is to log of a client is what recv gave for it.
Log == INSTANCE SharedLog WITH log <- file, request <- used

\* What was received of a client is appended once and in one piece, the whole of
\* it unless write takes less, and the reply is the file as of that instant:
\* other requests and timestamps never show up in the middle of a request, nor
\* in the reply of a client served before them.
ServesTheLog == Log!Spec

\* The main thread has each open connection in hand exactly once, so that each
\* descriptor is closed once, and never under a thread that still uses it.
EveryConnectionTracked ==
    /\ \A c \in Clients :
          /\ conn[c] = "open" <=> c = new \/ \E i \in 1 .. Len(list) : list[i] = c
          /\ pc[c] \in Alive => conn[c] = "open"
    /\ \A i, j \in 1 .. Len(list) : list[i] = list[j] => i = j
    /\ \A i \in 1 .. Len(list) : list[i] # new

\* An exit on request leaves no file, no client connected and no lock held:
\* the removal comes after the last append of any thread.
CleanExit ==
    main = "exited" => /\ ~present /\ file = << >> /\ mutex = NULL
                       /\ \A c \in Clients : conn[c] \in {"none", "closed"}

\* A client whose request arrived is answered or turned away, if the other
\* clients read their replies and do not stay silent; but for a client whose
\* thread pthread_create could not create.
Answered ==
    \A c \in Clients : sent[c] > 0 ~> fate[c] # "none" \/ pc[c] = "unborn"

\* A signal ends the server (readme.txt 6.3: "aesdsocket exits cleanly").  It
\* does with clients of FairSpec; one silent client is enough to prevent it.
StopsOnSignal == exit_requested ~> ~Running

\* sockettest.sh, and not what the code does: the reply to a long request ends
\* with the whole of it.
WholeRequestInReply ==
    \A c \in Clients :
        fate[c] = "replied" /\ peer[c] = "eof" =>
            \E n \in 0 .. Len(due[c]) :
                due[c] = SubSeq(due[c], 1, n) \o SubSeq(Message(c), 1, sent[c])
=============================================================================
