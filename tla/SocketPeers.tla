---------------------------- MODULE SocketPeers -----------------------------
(* The far side of the socket servers: the clients, and the kernel between   *)
(* them and the server.  The listen queue takes a connection, the receive    *)
(* queue what is sent, counted in parts, and the send window lets Window     *)
(* items of a reply out to a client that does not read.  Each client         *)
(* connects at most once.  The servers extend this module.                   *)
EXTENDS Naturals

CONSTANTS Clients,
          MaxParts,  \* parts of a request
          Window,    \* items in flight to a client that does not read
          Faults     \* bound: what may go wrong, of "memory", "thread", "file",
                     \* "hangup", "signal"

ASSUME SocketPeersAssumption ==
    /\ MaxParts \in Nat \ {0} /\ Window \in Nat \ {0}
    /\ Faults \subseteq {"memory", "thread", "file", "hangup", "signal"}

VARIABLES listening,     \* the listening socket is open
          conn, peer,    \* each end of the connections
          sent, unread   \* parts that arrived from the client; items it has not read

peers == <<conn, peer, sent, unread>>

PeersInit ==
    /\ listening = TRUE
    /\ conn = [c \in Clients |-> "none"] /\ peer = [c \in Clients |-> "off"]
    /\ sent = [c \in Clients |-> 0] /\ unread = [c \in Clients |-> 0]

PeersTypeOK ==
    /\ listening \in BOOLEAN
    /\ conn \in [Clients -> {"none", "queued", "open", "closed"}]
    /\ peer \in [Clients -> {"off", "on", "eof", "gone"}]
    /\ sent \in [Clients -> 0 .. MaxParts] /\ unread \in [Clients -> 0 .. Window]

Message(c) == [i \in 1 .. MaxParts |-> [from |-> c, part |-> i]]

Min2(a, b) == IF a < b THEN a ELSE b

Connect(c) ==
    /\ listening /\ peer[c] = "off"
    /\ peer' = [peer EXCEPT ![c] = "on"]
    /\ conn' = [conn EXCEPT ![c] = "queued"]
    /\ UNCHANGED <<listening, sent, unread>>

SendPart(c) ==
    /\ peer[c] = "on" /\ sent[c] < MaxParts
    /\ sent' = [sent EXCEPT ![c] = @ + 1]
    /\ UNCHANGED <<listening, conn, peer, unread>>

EndSend(c) ==
    /\ peer[c] = "on"
    /\ peer' = [peer EXCEPT ![c] = "eof"]
    /\ UNCHANGED <<listening, conn, sent, unread>>

Hangup(c) ==
    /\ "hangup" \in Faults /\ peer[c] \in {"on", "eof"}
    /\ peer' = [peer EXCEPT ![c] = "gone"]
    /\ UNCHANGED <<listening, conn, sent, unread>>

TakeReply(c) ==
    /\ peer[c] \in {"on", "eof"} /\ unread[c] > 0
    /\ unread' = [unread EXCEPT ![c] = 0]
    /\ UNCHANGED <<listening, conn, peer, sent>>

Client(c) == Connect(c) \/ SendPart(c) \/ EndSend(c) \/ Hangup(c) \/ TakeReply(c)

-----------------------------------------------------------------------------
\* What the servers do to the connections, next to the rest of a step.
Queued == {c \in Clients : conn[c] = "queued"}

TakeFromQueue(c) ==
    /\ c \in Queued
    /\ conn' = [conn EXCEPT ![c] = "open"]
    /\ UNCHANGED <<listening, peer, sent, unread>>

\* The end of the stream with everything received, or a reset.
NothingToCome(c, received) ==
    peer[c] = "gone" \/ (peer[c] = "eof" /\ sent[c] = received)

\* One item of a reply enters the send window.
PutReply(c) ==
    /\ unread[c] < Window
    /\ unread' = [unread EXCEPT ![c] = @ + 1]
    /\ UNCHANGED <<listening, conn, peer, sent>>

\* close(2), or the kernel at shutdown and death: what is queued on either side
\* and what the client does next are left out from here on.
Close(S) ==
    /\ conn' = [c \in Clients |-> IF c \in S THEN "closed" ELSE conn[c]]
    /\ peer' = [c \in Clients |-> IF c \in S THEN "gone" ELSE peer[c]]
    /\ sent' = [c \in Clients |-> IF c \in S THEN 0 ELSE sent[c]]
    /\ unread' = [c \in Clients |-> IF c \in S THEN 0 ELSE unread[c]]

\* Everything that connected is closed, and nothing else connects.
CloseAll == listening' = FALSE /\ Close({c \in Clients : conn[c] # "none"})
=============================================================================
