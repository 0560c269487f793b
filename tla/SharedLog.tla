----------------------------- MODULE SharedLog ------------------------------
(* What the socket server promises: one log, to which the request of each    *)
(* client is appended at one instant, and a reply that is the log as it was  *)
(* at that instant, however long it takes to send.  Nothing here knows of a  *)
(* thread, a mutex, a file offset or a signal.                               *)
EXTENDS Naturals, Sequences

CONSTANTS Clients,
          MaxParts, \* parts of a request
          Stamp, NULL

VARIABLES log,   \* the contents of the data file
          due,   \* per client, the reply its request earned, NULL before
          got,   \* per client, what was sent of it
          fate,  \* "none" until the server is done with the client
          short  \* clients whose request a failing file took only in part

\* What there is to log: an input, which changes as clients send.
VARIABLE request \* per client, how many parts

vars == <<log, due, got, fate, short>>

\* A request is sent in parts.
Message(c) == [i \in 1 .. MaxParts |-> [from |-> c, part |-> i]]

Init ==
    /\ log = << >>
    /\ due = [c \in Clients |-> NULL]
    /\ got = [c \in Clients |-> << >>]
    /\ fate = [c \in Clients |-> "none"]
    /\ short = {}

\* The whole request is appended, or it is known not to be.
Serve(c) ==
    /\ fate[c] = "none" /\ due[c] = NULL
    /\ \E n \in 0 .. request[c] :
          /\ log' = log \o SubSeq(Message(c), 1, n)
          /\ short' = IF n = request[c] THEN short ELSE short \cup {c}
    /\ due' = [due EXCEPT ![c] = log']
    /\ UNCHANGED <<got, fate>>

TimeStamp ==
    /\ log' = Append(log, Stamp)
    /\ UNCHANGED <<due, got, fate, short>>

Deliver(c) ==
    /\ fate[c] = "none" /\ due[c] # NULL /\ Len(got[c]) < Len(due[c])
    /\ got' = [got EXCEPT ![c] = SubSeq(due[c], 1, Len(got[c]) + 1)]
    /\ UNCHANGED <<log, due, fate, short>>

Complete(c) ==
    /\ fate[c] = "none" /\ due[c] # NULL /\ got[c] = due[c]
    /\ fate' = [fate EXCEPT ![c] = "replied"]
    /\ UNCHANGED <<log, due, got, short>>

\* Some clients are given up: an error, a shutdown, the death of the server.
GiveUp ==
    /\ fate' \in [Clients -> {"none", "replied", "failed"}]
    /\ \A c \in Clients : fate'[c] # fate[c] => fate[c] = "none" /\ fate'[c] = "failed"
    /\ UNCHANGED <<log, due, got, short>>

\* The server leaves and takes the log with it, never under a reply.
Remove ==
    /\ \A c \in Clients : due[c] # NULL => fate[c] # "none"
    /\ log' = << >>
    /\ UNCHANGED <<due, got, fate, short>>

Next == \/ \E c \in Clients : Serve(c) \/ Deliver(c) \/ Complete(c)
        \/ TimeStamp \/ GiveUp \/ Remove

Spec == Init /\ [][Next]_vars
=============================================================================
