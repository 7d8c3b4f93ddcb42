---------------------------- MODULE PeerMessage -----------------------------
(***************************************************************************)
(* A message from QtLocalPeer::sendMessage() in client processes to        *)
(* QtLocalPeer::receiveConnection() in the running instance, over the      *)
(* local sockets of QLocalServer.  Each sendMessage() has a connection of  *)
(* its own.  The client writes a length and a text, in one piece or in     *)
(* more; the running instance reads one connection at a time, writes the   *)
(* acknowledgement, closes the connection and then emits messageReceived().*)
(***************************************************************************)
EXTENDS Integers, Sequences, SequencesExt

CONSTANTS
    Clients,
    MaxSends,     \* MaxSends[c]: how often client c sends
    Backlog,      \* how many connections wait to be accepted
    GivesUp,      \* may a client's wait reach its timeout?
    Stalls,       \* may a client write nothing for 2 s in mid-message?
    ServerCrash,  \* may the running instance crash?
    ClientCrash   \* may a client crash?

ASSUME ConstantsAssumption ==
    /\ MaxSends \in [Clients -> Nat \ {0}] /\ Backlog \in Nat \ {0}
    /\ {GivesUp, Stalls, ServerCrash, ClientCrash} \subseteq BOOLEAN

Connections == UNION {{c} \X (1 .. MaxSends[c]) : c \in Clients}
NoConnection == <<"none", 0>>

VARIABLES
    pc,       \* pc[c]: where client c is in sendMessage(), "idle" outside it
    sends,    \* sends[c]: how many calls of sendMessage() c has made
    result,   \* result[k]: what the call returned: "none" yet, "true", "false"
    sent,     \* sent[k]: what of the message is written: nothing, "header"
              \* (the length), "part" (with some of the text) or "all"
    open,     \* open[k]: the ends of the connection that are open
    acked,    \* acked[k]: the acknowledgement was written to the client
    pending,  \* the connections waiting in the server, oldest first
    server,   \* where the running instance is: "loop" (its event loop), the
              \* steps of receiveConnection(), or "dead"
    current,  \* the connection it reads
    read,     \* what of the message it has read, as for sent
    delivered \* the messageReceived() signals: connection and text read

vars == <<pc, sends, result, sent, open, acked, pending, server, current, read,
          delivered>>
client == <<pc, sends, result>>

Level == {"nothing", "header", "part", "all"}

TypeOK ==
    /\ pc \in [Clients -> {"idle", "connect", "sleep", "reconnect", "write", "wait",
                           "crashed"}]
    /\ \A c \in Clients : sends[c] \in 0 .. MaxSends[c]
    /\ result \in [Connections -> {"none", "true", "false"}]
    /\ sent \in [Connections -> Level]
    /\ open \in [Connections -> SUBSET {"client", "server"}]
    /\ acked \in [Connections -> BOOLEAN]
    /\ pending \in Seq(Connections) /\ Len(pending) <= Backlog
    /\ server \in {"loop", "header", "body", "ack", "emit", "dead"}
    /\ current \in IF server \in {"loop", "dead"} THEN {NoConnection} ELSE Connections
    /\ read \in Level
    /\ delivered \in Seq(Connections \X Level)

Init ==
    /\ pc = [c \in Clients |-> "idle"]
    /\ sends = [c \in Clients |-> 0]
    /\ result = [k \in Connections |-> "none"]
    /\ sent = [k \in Connections |-> "nothing"]
    /\ open = [k \in Connections |-> {}]
    /\ acked = [k \in Connections |-> FALSE]
    /\ pending = <<>>
    /\ server = "loop"
    /\ current = NoConnection
    /\ read = "nothing"
    /\ delivered = <<>>

\* The connection of client c's present call.
Conn(c) == <<c, sends[c]>>
Goto(c, l) == pc' = [pc EXCEPT ![c] = l]

\* sendMessage() returns r, and its QLocalSocket is destroyed.
Return(c, r) ==
    /\ Goto(c, "idle")
    /\ result' = [result EXCEPT ![Conn(c)] = r]
    /\ open' = [open EXCEPT ![Conn(c)] = @ \ {"client"}]

-----------------------------------------------------------------------------
(* The client.                                                             *)

\* sendMessage() in a process where isClient() answers TRUE.
sendMessage(c) ==
    /\ pc[c] = "idle" /\ sends[c] < MaxSends[c]
    /\ Goto(c, "connect")
    /\ sends' = [sends EXCEPT ![c] = @ + 1]
    /\ UNCHANGED <<result, sent, open, acked, pending, server, current, read, delivered>>

\* connectToServer() and waitForConnected(timeout/2) succeed: the kernel
\* queues the connection, whatever the running instance is doing.
Connect(c) ==
    /\ pc[c] \in {"connect", "reconnect"}
    /\ server # "dead" /\ Len(pending) < Backlog
    /\ pending' = Append(pending, Conn(c))
    /\ open' = [open EXCEPT ![Conn(c)] = {"client", "server"}]
    /\ Goto(c, "write")
    /\ UNCHANGED <<sends, result, sent, acked, server, current, read, delivered>>

\* Mutant: the loop over the attempts does not end.
ConnectRetries(c) ==
    /\ server = "dead" \/ Len(pending) = Backlog
    /\ pc[c] \in {"connect", "reconnect"} /\ Goto(c, "sleep")
    /\ UNCHANGED <<sends, result, open, sent, acked, pending, server, current, read,
                   delivered>>

\* They fail; after 250 ms there is a second and last attempt.
ConnectFails(c) ==
    /\ server = "dead" \/ Len(pending) = Backlog
    /\ \/ pc[c] = "connect" /\ Goto(c, "sleep") /\ UNCHANGED <<result, open>>
       \/ pc[c] = "reconnect" /\ Return(c, "false")
    /\ UNCHANGED <<sends, sent, acked, pending, server, current, read, delivered>>

Sleep(c) ==
    /\ pc[c] = "sleep" /\ Goto(c, "reconnect")
    /\ UNCHANGED <<sends, result, sent, open, acked, pending, server, current, read,
                   delivered>>

\* waitForBytesWritten() returns when a first piece is written; what is left
\* is written while the client waits for the acknowledgement.
Later == [nothing |-> {"header", "part", "all"}, header |-> {"part", "all"},
          part |-> {"all"}, all |-> {}]
Write(c) ==
    /\ pc[c] \in {"write", "wait"}
    /\ "server" \in open[Conn(c)]
    /\ \E l \in Later[sent[Conn(c)]] : sent' = [sent EXCEPT ![Conn(c)] = l]
    /\ Goto(c, "wait")
    /\ UNCHANGED <<sends, result, open, acked, pending, server, current, read, delivered>>

\* waitForReadyRead() and read(): the acknowledgement is there.
ReadAck(c) ==
    /\ pc[c] = "wait" /\ acked[Conn(c)]
    /\ Return(c, "true")
    /\ UNCHANGED <<sends, sent, acked, pending, server, current, read, delivered>>

\* Mutant: the result of waitForReadyRead() is not looked at.
WaitFailsUnchecked(c) ==
    /\ pc[c] \in {"write", "wait"}
    /\ ~acked[Conn(c)]
    /\ "server" \notin open[Conn(c)] \/ GivesUp
    /\ Return(c, "true")
    /\ UNCHANGED <<sends, sent, acked, pending, server, current, read, delivered>>

\* A wait for the write or for the acknowledgement fails: the connection was
\* closed by the running instance, or the timeout is reached.
WaitFails(c) ==
    /\ pc[c] \in {"write", "wait"}
    /\ ~acked[Conn(c)]
    /\ "server" \notin open[Conn(c)] \/ GivesUp
    /\ Return(c, "false")
    /\ UNCHANGED <<sends, sent, acked, pending, server, current, read, delivered>>

\* A client process crashes; the kernel closes its socket.
CrashClient(c) ==
    /\ ClientCrash /\ pc[c] \notin {"idle", "crashed"}
    /\ Goto(c, "crashed")
    /\ open' = [open EXCEPT ![Conn(c)] = @ \ {"client"}]
    /\ UNCHANGED <<sends, result, sent, acked, pending, server, current, read, delivered>>

-----------------------------------------------------------------------------
(* The running instance.                                                   *)

\* Mutant: the newest connection is served first.
AcceptNewest ==
    /\ server = "loop" /\ pending # <<>>
    /\ current' = Last(pending)
    /\ pending' = Front(pending)
    /\ server' = "header"
    /\ read' = "nothing"
    /\ UNCHANGED <<client, sent, open, acked, delivered>>

\* newConnection() starts receiveConnection().
Accept ==
    /\ server = "loop" /\ pending # <<>>
    /\ current' = Head(pending)
    /\ pending' = Tail(pending)
    /\ server' = "header"
    /\ read' = "nothing"
    /\ UNCHANGED <<client, sent, open, acked, delivered>>

\* `delete socket', and receiveConnection() returns or goes on.
CloseSocket(l) ==
    /\ open' = [open EXCEPT ![current] = @ \ {"server"}]
    /\ server' = l

ReadHeader ==
    /\ server = "header" /\ sent[current] # "nothing"
    /\ server' = "body"
    /\ UNCHANGED <<client, sent, open, acked, pending, current, read, delivered>>

\* Mutant: no return after `delete socket'.
PeerDisconnectedGoesOn ==
    /\ server = "header" /\ "client" \notin open[current]
    /\ CloseSocket("body")
    /\ current' = NoConnection
    /\ UNCHANGED <<client, sent, acked, pending, read, delivered>>

\* Mutant: the state of the socket is not looked at.
PeerDisconnectedUnnoticed == FALSE /\ UNCHANGED vars

\* The peer has disconnected.  The loop looks at the socket's state first, so
\* what has arrived in the meantime is lost.
PeerDisconnected ==
    /\ server = "header" /\ "client" \notin open[current]
    /\ CloseSocket("loop")
    /\ current' = NoConnection
    /\ UNCHANGED <<client, sent, acked, pending, read, delivered>>

\* Mutant: the text is taken to arrive in one piece.
ReadBodyOnce ==
    /\ server = "body" /\ read # sent[current]
    /\ read' = sent[current]
    /\ server' = "ack"
    /\ UNCHANGED <<client, sent, open, acked, pending, current, delivered>>

\* A turn of the reading loop takes what is there, and the loop goes on until
\* it has the whole text,
ReadBody ==
    /\ server = "body" /\ read # sent[current]
    /\ read' = sent[current]
    /\ server' = IF read' = "all" THEN "ack" ELSE "body"
    /\ UNCHANGED <<client, sent, open, acked, pending, current, delivered>>

\* or until waitForReadyRead(2000) returns false, because the peer has
\* disconnected or has written nothing more.
ReadGivesUp ==
    /\ server = "body" /\ read = sent[current]
    /\ "client" \notin open[current] \/ Stalls
    /\ server' = "ack"
    /\ UNCHANGED <<client, sent, open, acked, pending, current, read, delivered>>

\* readRawData() returns -1: the peer has disconnected and there is no text.
ReadError ==
    /\ server = "body" /\ read = "nothing"
    /\ sent[current] = "header" /\ "client" \notin open[current]
    /\ CloseSocket("loop")
    /\ current' = NoConnection
    /\ UNCHANGED <<client, sent, acked, pending, read, delivered>>

\* The acknowledgement is written, and the socket deleted.
Ack ==
    /\ server = "ack"
    /\ acked' = [acked EXCEPT ![current] = "client" \in open[current]]
    /\ CloseSocket("emit")
    /\ UNCHANGED <<client, sent, pending, current, read, delivered>>

\* messageReceived(message)
Emit ==
    /\ server = "emit"
    /\ delivered' = Append(delivered, <<current, read>>)
    /\ server' = "loop"
    /\ current' = NoConnection
    /\ UNCHANGED <<client, sent, open, acked, pending, read>>

CrashServer ==
    /\ ServerCrash /\ server # "dead"
    /\ server' = "dead"
    /\ open' = [k \in Connections |-> open[k] \ {"server"}]
    /\ pending' = <<>>
    /\ current' = NoConnection
    /\ UNCHANGED <<client, sent, acked, read, delivered>>

ClientStep(c) == Connect(c) \/ ConnectFails(c) \/ Sleep(c) \/ Write(c) \/ ReadAck(c) \/ WaitFails(c)
ServerStep == Accept \/ ReadHeader \/ PeerDisconnected \/ ReadBody \/ ReadGivesUp
              \/ ReadError \/ Ack \/ Emit

Next == \/ \E c \in Clients : sendMessage(c) \/ ClientStep(c) \/ CrashClient(c)
        \/ ServerStep
        \/ CrashServer

Spec == Init /\ [][Next]_vars

\* Processes are scheduled, and waits with a timeout end.
FairSpec == Spec /\ WF_vars(ServerStep) /\ \A c \in Clients : WF_vars(ClientStep(c))

-----------------------------------------------------------------------------
\* The message of connection k was emitted, whole or cut.
Delivered(k, l) == \E i \in DOMAIN delivered : delivered[i] = <<k, l>>

(* A sendMessage() that returns TRUE has its whole message delivered, or   *)
(* about to be unless the running instance crashes: "This function returns *)
(* true if the message has been sent to, and processed by, the current     *)
(* instance" (qtsingleapplication.cpp:252).                                *)
TrueMeansDelivered ==
    \A k \in Connections : result[k] = "true" =>
        \/ Delivered(k, "all")
        \/ server = "emit" /\ current = k /\ read = "all"
        \/ server = "dead"

(* A message is emitted cut only if its sender gave it up or crashed, and  *)
(* never while the sender is still going to send the rest.                 *)
CutOnlyIfAbandoned ==
    \A k \in Connections, l \in Level \ {"all"} :
        Delivered(k, l) => result[k] = "false" \/ pc[k[1]] = "crashed"

(* The messages of one client are delivered in the order it sent them,     *)
(* each at most once, also when it gave up waiting for some of them.       *)
InOrder ==
    /\ TypeOK
    /\ \A i, j \in DOMAIN delivered :
          LET a == delivered[i][1]
              b == delivered[j][1]
          IN  i < j /\ a[1] = b[1] => a[2] < b[2]

(* sendMessage() returns, even if the running instance is dead, busy with  *)
(* others, or does not read; and the running instance comes back to its    *)
(* event loop after each connection, also when the client is gone before   *)
(* it has said anything.                                                   *)
CallsReturn ==
    /\ \A c \in Clients : pc[c] = "connect" ~> pc[c] \in {"idle", "crashed"}
    /\ server = "header" ~> server \in {"loop", "dead"}
=============================================================================
