-------------------------- MODULE LocalPeer_proofs --------------------------
(***************************************************************************)
(* What QtLocalPeer guarantees, in its two parts.                          *)
(*                                                                         *)
(* The election (PeerElection), for any number of processes and whatever   *)
(* fails: there is one running instance, nobody else is reached while its  *)
(* server listens, and it is cut off by nothing but the exit of an earlier *)
(* one, which closes its server after it has given up the lock and then    *)
(* unlinks whatever path there is.                                         *)
(*                                                                         *)
(* The messages (PeerMessage), for any number of clients, of messages and  *)
(* of pending connections: their order whatever happens, and that TRUE     *)
(* means delivered if no client stops in the middle of a message for so    *)
(* long that the running instance gives up.                                *)
(***************************************************************************)
EXTENDS PeerElection, PeerMessage, SequenceTheorems, TLAPS

USE DEF Role, GoOn

\* Who has the role, or is about to take it, has the write lock of the
\* AdvisoryLock, which nobody else has with it.
RoleHasLock == \A p \in Procs : role[p] \in Role => held[p] = "WriteLock"
LockExclusion ==
    \A p, q \in Procs : held[p] = "WriteLock" /\ held[q] = "WriteLock" => p = q

ElectionInv == ElectionTypeOK /\ RoleHasLock /\ LockExclusion

LEMMA ElectionInvInit == ElectionInit => ElectionInv
BY DEF ElectionInit, Lock!Init, ElectionTypeOK, ElectionInv, RoleHasLock,
       LockExclusion

\* The write lock is obtained when no other process has a lock.
LEMMA AcquireExcludes ==
    ASSUME ElectionTypeOK, LockExclusion,
           NEW p \in Procs, Lock!Acquire(p, "WriteLock")
    PROVE  /\ held' \in [Procs -> {"NoLock", "WriteLock"}]
           /\ held'[p] = "WriteLock"
           /\ \A q \in Procs \ {p} : held'[q] = held[q] /\ held[q] = "NoLock"
BY DEF ElectionTypeOK, Lock!Acquire, Lock!Compatible

\* Releasing the lock of one process leaves the others as they are.
LEMMA ReleaseOne ==
    ASSUME ElectionTypeOK, NEW p \in Procs, Lock!Release({p})
    PROVE  /\ held' \in [Procs -> {"NoLock", "WriteLock"}]
           /\ held'[p] = "NoLock"
           /\ \A q \in Procs \ {p} : held'[q] = held[q]
BY DEF ElectionTypeOK, Lock!Release

LEMMA ElectionInvStep == ElectionInv /\ [ElectionNext]_electionVars => ElectionInv'
<1> SUFFICES ASSUME ElectionInv, [ElectionNext]_electionVars PROVE ElectionInv'
  OBVIOUS
<1> USE DEF ElectionInv
<1>1. ASSUME NEW p \in Procs, Construct(p) PROVE ElectionInv'
  BY <1>1 DEF Construct, ElectionTypeOK, RoleHasLock, LockExclusion
<1>2. ASSUME NEW p \in Procs, TakeRole(p) PROVE ElectionInv'
  <2>1. ElectionTypeOK'
    BY <1>2, AcquireExcludes DEF TakeRole, ElectionTypeOK
  <2>2. RoleHasLock'
    BY <1>2, AcquireExcludes DEF TakeRole, ElectionTypeOK, RoleHasLock
  <2>3. LockExclusion'
    BY <1>2, AcquireExcludes DEF TakeRole, LockExclusion
  <2> QED
    BY <2>1, <2>2, <2>3
<1>3. ASSUME NEW p \in Procs, IsClient(p) PROVE ElectionInv'
  BY <1>3 DEF IsClient, ElectionTypeOK, RoleHasLock, LockExclusion
<1>4. ASSUME NEW p \in Procs, RoleStep(p) PROVE ElectionInv'
  <2>1. UNCHANGED <<opened, held, answer>>
    BY <1>4 DEF RoleStep, Listen, RemovePath, Relisten
  <2>2. role[p] \in Role /\ \E l \in Role : role' = [role EXCEPT ![p] = l]
    BY <1>4 DEF RoleStep, Listen, RemovePath, Relisten
  <2>3. /\ listening' \in [Procs -> BOOLEAN]
        /\ path' \in Procs \cup {"none", "stale"}
    BY <1>4 DEF RoleStep, Listen, RemovePath, Relisten,
                Bind, ElectionTypeOK
  <2>4. ElectionTypeOK'
    BY <2>1, <2>2, <2>3 DEF ElectionTypeOK
  <2>5. RoleHasLock' /\ LockExclusion'
    BY <2>1, <2>2 DEF ElectionTypeOK, RoleHasLock, LockExclusion
  <2> QED
    BY <2>4, <2>5
<1>5. ASSUME NEW p \in Procs, Unlock(p) PROVE ElectionInv'
  <2>1. ElectionTypeOK'
    BY <1>5, ReleaseOne DEF Unlock, ElectionTypeOK
  <2>2. /\ held'[p] = "NoLock"
        /\ \A q \in Procs \ {p} : held'[q] = held[q] /\ role'[q] = role[q]
        /\ role'[p] \notin Role
    BY <1>5, ReleaseOne DEF Unlock, ElectionTypeOK
  <2>3. RoleHasLock' /\ LockExclusion'
    BY <2>2 DEF RoleHasLock, LockExclusion
  <2> QED
    BY <2>1, <2>3
<1>6. ASSUME NEW p \in Procs, CloseServer(p) PROVE ElectionInv'
  BY <1>6 DEF CloseServer, ElectionTypeOK, RoleHasLock, LockExclusion
<1>7. ASSUME NEW p \in Procs, Crash(p) PROVE ElectionInv'
  <2>1. ElectionTypeOK'
    BY <1>7, ReleaseOne DEF Crash, ElectionTypeOK
  <2>2. /\ held'[p] = "NoLock"
        /\ \A q \in Procs \ {p} : held'[q] = held[q] /\ role'[q] = role[q]
        /\ role'[p] \notin Role
    BY <1>7, ReleaseOne DEF Crash, ElectionTypeOK
  <2>3. RoleHasLock' /\ LockExclusion'
    BY <2>2 DEF RoleHasLock, LockExclusion
  <2> QED
    BY <2>1, <2>3
<1>8. CASE UNCHANGED electionVars
  BY <1>8 DEF electionVars, ElectionTypeOK, RoleHasLock, LockExclusion
<1> QED
  BY <1>1, <1>2, <1>3, <1>4, <1>5, <1>6, <1>7, <1>8 DEF ElectionNext

LEMMA ElectionInvAlways == ElectionSpec => []ElectionInv
BY ElectionInvInit, ElectionInvStep, PTL DEF ElectionSpec

(* Every variable keeps its type.                                          *)
THEOREM ElectionTypeCorrect == ElectionSpec => []ElectionTypeOK
<1>1. ElectionInv => ElectionTypeOK
  BY DEF ElectionInv
<1> QED
  BY <1>1, ElectionInvAlways, PTL

(* At most one process believes that it is the running instance, and it    *)
(* has the lock, also when files cannot be opened, listen() fails and      *)
(* processes crash.                                                        *)
THEOREM OneInstance == ElectionSpec => []OneRunningInstance
<1>1. ElectionInv => OneRunningInstance
  BY DEF ElectionInv, RoleHasLock, LockExclusion, OneRunningInstance
<1> QED
  BY <1>1, ElectionInvAlways, PTL

-----------------------------------------------------------------------------
\* A server listens until its instance has exited, and a path that leads to a
\* process leads to a listening one.  No path leads past the running instance.
Reach ==
    /\ \A p \in Procs : listening[p] => role[p] \in {"running", "closing"}
    /\ NobodyElseReached

\* While a process is on its way to the role, nobody is running.
LEMMA NobodyElseRuns ==
    ASSUME ElectionInv, NEW p \in Procs, role[p] \in {"listen", "remove", "relisten"}
    PROVE  \A q \in Procs : role[q] # "running"
BY DEF ElectionInv, RoleHasLock, LockExclusion

LEMMA ReachStep ==
    ASSUME ElectionInv, Reach, [ElectionNext]_electionVars
    PROVE  Reach'
<1> USE ElectionAssumption DEF ElectionInv, ElectionTypeOK, Reach, NobodyElseReached
<1>1. ASSUME NEW p \in Procs, Construct(p) PROVE Reach'
  BY <1>1 DEF Construct
<1>2. ASSUME NEW p \in Procs, TakeRole(p) PROVE Reach'
  BY <1>2 DEF TakeRole
<1>3. ASSUME NEW p \in Procs, IsClient(p) PROVE Reach'
  BY <1>3 DEF IsClient
<1>4. ASSUME NEW p \in Procs, RoleStep(p) PROVE Reach'
  <2>1. role[p] \in {"listen", "remove", "relisten"}
    BY <1>4 DEF RoleStep, Listen, RemovePath, Relisten
  <2>2. ~listening[p] /\ \A q \in Procs : role[q] # "running"
    BY <2>1, NobodyElseRuns
  <2>3. CASE Bind(p) /\ GoOn(p, "running")
    BY <2>2, <2>3 DEF Bind
  <2>4. CASE UNCHANGED listening /\ path' \in {path, "none"}
    <3>1. \A q \in Procs \ {p} : role'[q] = role[q]
      BY <1>4 DEF RoleStep, Listen, RemovePath, Relisten
    <3> QED
      BY <2>2, <2>4, <3>1
  <2> QED
    BY <1>4, <2>3, <2>4 DEF RoleStep, Listen, RemovePath, Relisten
<1>5. ASSUME NEW p \in Procs, Unlock(p) PROVE Reach'
  BY <1>5 DEF Unlock
<1>6. ASSUME NEW p \in Procs, CloseServer(p) PROVE Reach'
  BY <1>6 DEF CloseServer
<1>7. ASSUME NEW p \in Procs, Crash(p) PROVE Reach'
  BY <1>7 DEF Crash
<1>8. CASE UNCHANGED electionVars
  BY <1>8 DEF electionVars
<1> QED
  BY <1>1, <1>2, <1>3, <1>4, <1>5, <1>6, <1>7, <1>8 DEF ElectionNext

LEMMA ReachAlways == ElectionSpec => [](ElectionInv /\ Reach)
<1>1. ElectionInit => Reach
  BY ElectionAssumption DEF ElectionInit, Reach, NobodyElseReached
<1>2. ElectionInv /\ Reach /\ [ElectionNext]_electionVars => Reach'
  BY ReachStep
<1> QED
  BY <1>1, <1>2, ElectionInvAlways, PTL DEF ElectionSpec

(* While the server of the running instance listens, the path leads to it  *)
(* or to nothing, also if earlier instances are still exiting.             *)
THEOREM OnlyInstanceReached == ElectionSpec => []NobodyElseReached
<1>1. Reach => NobodyElseReached
  BY DEF Reach
<1> QED
  BY <1>1, ReachAlways, PTL

\* A step that takes the path away from a running instance that stays.
CutsOff(p) ==
    role[p] = "running" /\ path = p /\ role'[p] = "running" /\ path' # p

LEMMA CutOffStep ==
    ASSUME ElectionInv, [ElectionNext]_electionVars, NEW p \in Procs, CutsOff(p)
    PROVE  \E q \in Procs : listening[q] /\ CloseServer(q)
<1> USE ElectionAssumption DEF ElectionInv, ElectionTypeOK, CutsOff
<1>1. ASSUME NEW q \in Procs, Construct(q) \/ TakeRole(q) \/ IsClient(q) \/ Unlock(q)
      PROVE  FALSE
  BY <1>1 DEF Construct, TakeRole, IsClient, Unlock
<1>2. ASSUME NEW q \in Procs, RoleStep(q) PROVE FALSE
  <2>1. role[q] \in {"listen", "remove", "relisten"}
    BY <1>2 DEF RoleStep, Listen, RemovePath, Relisten
  <2> QED
    BY <2>1, NobodyElseRuns
<1>3. ASSUME NEW q \in Procs, CloseServer(q) PROVE listening[q]
  BY <1>3 DEF CloseServer
<1>4. ASSUME NEW q \in Procs, Crash(q) PROVE FALSE
  BY <1>4 DEF Crash
<1>5. CASE UNCHANGED electionVars
  BY <1>5 DEF electionVars
<1> QED
  BY <1>1, <1>2, <1>3, <1>4, <1>5 DEF ElectionNext

(* Nothing that other processes do cuts a running instance off, and least  *)
(* of all their workaround for stale sockets, but the exit of an earlier   *)
(* instance whose server still listens.                                    *)
THEOREM OnlyExitCutsOff == ElectionSpec => CutOffByExitOnly
<1>1. ElectionInv /\ [ElectionNext]_electionVars =>
          [\A p \in Procs :
              role[p] = "running" /\ path = p /\ role'[p] = "running" /\ path' # p
                  => \E q \in Procs : listening[q] /\ CloseServer(q)]_electionVars
  BY CutOffStep DEF CutsOff
<1> QED
  BY <1>1, ElectionInvAlways, PTL DEF ElectionSpec, CutOffByExitOnly

-----------------------------------------------------------------------------
\* The types, with sends as a function, and a client in a call has made one.
Typed ==
    /\ TypeOK /\ sends \in [Clients -> Nat]
    /\ \A c \in Clients : pc[c] # "idle" => sends[c] > 0

\* The call is under way or over, and was connected if it will ever be.
NotConnected == {"connect", "sleep", "reconnect"}
Past(k) ==
    \/ k[2] < sends[k[1]]
    \/ k[2] = sends[k[1]] /\ pc[k[1]] \notin NotConnected

\* Of two connections of a client, the first is the older one.
Before(a, b) == a[1] = b[1] => a[2] < b[2]

\* What has come to the server is past.
PastInv ==
    /\ \A i \in DOMAIN pending : Past(pending[i])
    /\ server \notin {"loop", "dead"} => Past(current)
    /\ \A i \in DOMAIN delivered : Past(delivered[i][1])

\* The signals, the connection being read and those waiting, in this order,
\* are in the order of the calls.
OrderInv ==
    /\ \A i, j \in DOMAIN delivered : i < j => Before(delivered[i][1], delivered[j][1])
    /\ \A i \in DOMAIN delivered, j \in DOMAIN pending : Before(delivered[i][1], pending[j])
    /\ \A i, j \in DOMAIN pending : i < j => Before(pending[i], pending[j])
    /\ server \notin {"loop", "dead"} =>
          /\ \A i \in DOMAIN delivered : Before(delivered[i][1], current)
          /\ \A j \in DOMAIN pending : Before(current, pending[j])

\* A call has a result once it is over, and holds its end of the connection
\* until then.
ResultInv ==
    \A k \in Connections :
        /\ result[k] = "none" <=>
              k[2] > sends[k[1]] \/ (k[2] = sends[k[1]] /\ pc[k[1]] # "idle")
        /\ k[2] = sends[k[1]] /\ pc[k[1]] \in {"write", "wait"} => "client" \in open[k]

\* An acknowledged message has been read whole, and a message that is cut has
\* lost its sender: without a stall the reading loop ends in no other way.
AckInv ==
    /\ server \in {"ack", "emit"} /\ read # "all" => "client" \notin open[current]
    /\ server = "emit" /\ read # "all" => ~acked[current]
    /\ \A k \in Connections :
          /\ result[k] = "true" => acked[k]
          /\ acked[k] => \/ Delivered(k, "all")
                         \/ server = "emit" /\ current = k /\ read = "all"
                         \/ server = "dead"

SeqInv == Typed /\ PastInv /\ OrderInv
IInv == SeqInv /\ ResultInv /\ AckInv /\ CutOnlyIfAbandoned

-----------------------------------------------------------------------------
LEMMA ConnectionsAre ==
    /\ \A k \in Connections : /\ k[1] \in Clients /\ k[2] \in Nat /\ k[2] > 0
                              /\ k[2] <= MaxSends[k[1]] /\ k = <<k[1], k[2]>>
    /\ \A c \in Clients, n \in Nat : n > 0 /\ n <= MaxSends[c] => <<c, n>> \in Connections
    /\ NoConnection \notin Connections
<1>1. \A k : k \in Connections <=> \E c \in Clients : \E n \in 1 .. MaxSends[c] : k = <<c, n>>
  BY DEF Connections
<1> QED
  BY <1>1, ConstantsAssumption DEF NoConnection

\* The connection of a call.
LEMMA ConnIs ==
    ASSUME Typed, NEW c \in Clients, pc[c] # "idle"
    PROVE  /\ Conn(c) \in Connections /\ Conn(c)[1] = c /\ Conn(c)[2] = sends[c]
           /\ \A k \in Connections : k[1] = c /\ k[2] = sends[c] => k = Conn(c)
<1>1. sends[c] \in Nat /\ sends[c] > 0 /\ sends[c] <= MaxSends[c]
  BY ConstantsAssumption DEF Typed, TypeOK
<1> QED
  BY <1>1, ConnectionsAre DEF Conn

\* The sequences the server works on.
LEMMA HeadAndTail ==
    ASSUME NEW S, NEW s \in Seq(S), s # <<>>
    PROVE  /\ Head(s) \in S /\ Head(s) = s[1] /\ 1 \in DOMAIN s
           /\ Tail(s) \in Seq(S) /\ Len(Tail(s)) <= Len(s)
           /\ \A i \in DOMAIN Tail(s) : i + 1 \in DOMAIN s /\ i \in Int /\ Tail(s)[i] = s[i + 1]
BY HeadTailProperties, LenProperties

LEMMA Appended ==
    ASSUME NEW S, NEW s \in Seq(S), NEW e \in S
    PROVE  /\ Append(s, e) \in Seq(S) /\ Len(Append(s, e)) = Len(s) + 1
           /\ DOMAIN Append(s, e) = 1 .. Len(s) + 1 /\ DOMAIN s = 1 .. Len(s)
           /\ Len(s) \in Nat
           /\ \A i \in DOMAIN s : Append(s, e)[i] = s[i]
           /\ Append(s, e)[Len(s) + 1] = e
BY AppendProperties, LenProperties

-----------------------------------------------------------------------------
LEMMA TypedInit == Init => Typed
<1> SUFFICES ASSUME Init PROVE Typed
  OBVIOUS
<1>1. sends \in [Clients -> Nat] /\ \A c \in Clients : sends[c] \in 0 .. MaxSends[c]
  BY ConstantsAssumption DEF Init
<1>2. pending \in Seq(Connections) /\ Len(pending) = 0 /\ delivered \in Seq(Connections \X Level)
  BY DEF Init
<1> QED
  BY <1>1, <1>2, ConstantsAssumption DEF Init, Typed, TypeOK, Level

\* What a client's step does to the calls and the connections.
LEMMA TypedClient ==
    ASSUME Typed, NEW c \in Clients,
           sendMessage(c) \/ ClientStep(c) \/ CrashClient(c)
    PROVE  Typed'
<1> USE DEF Typed, TypeOK
<1>1. CASE sendMessage(c)
  <2>1. sends' \in [Clients -> Nat] /\ \A d \in Clients : sends'[d] \in 0 .. MaxSends[d]
    <3>1. sends' = [sends EXCEPT ![c] = sends[c] + 1] /\ sends[c] < MaxSends[c]
      BY <1>1 DEF sendMessage
    <3>2. sends[c] \in Nat /\ \A d \in Clients : MaxSends[d] \in Nat
      BY ConstantsAssumption
    <3>3. sends' \in [Clients -> Nat] /\ \A d \in Clients \ {c} : sends'[d] = sends[d]
      BY <3>1, <3>2
    <3>4. sends'[c] = sends[c] + 1
      BY <3>1
    <3> QED
      BY <3>1, <3>2, <3>3, <3>4
  <2>2. \A d \in Clients : pc'[d] # "idle" => sends'[d] > 0
    BY <1>1 DEF sendMessage, Goto
  <2>3. pc' = [pc EXCEPT ![c] = "connect"]
    BY <1>1 DEF sendMessage, Goto
  <2> QED
    BY <1>1, <2>1, <2>2, <2>3 DEF sendMessage
<1>2. ASSUME pc[c] # "idle", sends' = sends, UNCHANGED <<server, current, read, delivered>>,
             pending' \in Seq(Connections), Len(pending') <= Backlog,
             NEW l \in {"idle", "sleep", "reconnect", "write", "wait", "crashed"},
             pc' = [pc EXCEPT ![c] = l],
             result' = result \/ \E x \in {"true", "false"} : result' = [result EXCEPT ![Conn(c)] = x],
             sent' = sent \/ \E x \in Level : sent' = [sent EXCEPT ![Conn(c)] = x],
             \/ open' = open
             \/ \E x \in SUBSET {"client", "server"} : open' = [open EXCEPT ![Conn(c)] = x],
             acked' = acked
      PROVE  Typed'
  <2>1. Conn(c) \in Connections
    BY <1>2, ConnIs
  <2>2. result' \in [Connections -> {"none", "true", "false"}]
    BY <1>2, <2>1
  <2>3. sent' \in [Connections -> Level]
    <3>1. sent \in [Connections -> Level]
      BY DEF Typed, TypeOK
    <3>2. ASSUME NEW x \in Level, sent' = [sent EXCEPT ![Conn(c)] = x]
          PROVE  sent' \in [Connections -> Level]
      <4> HIDE DEF Typed, TypeOK, Connections, Conn, Level
      <4> QED
        BY <2>1, <3>1, <3>2
    <3> QED
      BY <1>2, <3>1, <3>2, Zenon
  <2>5. open' \in [Connections -> SUBSET {"client", "server"}]
    <3>1. CASE open' = open
      BY <3>1
    <3>2. ASSUME NEW x \in SUBSET {"client", "server"}, open' = [open EXCEPT ![Conn(c)] = x]
          PROVE  open' \in [Connections -> SUBSET {"client", "server"}]
      BY <3>2
    <3> QED
      BY <1>2, <3>1, <3>2
  <2>4. \A d \in Clients : pc'[d] # "idle" => sends'[d] > 0
    BY <1>2
  <2> QED
    BY <1>2, <2>2, <2>3, <2>4, <2>5
<1>3. open[Conn(c)] \ {"client"} \in SUBSET {"client", "server"} \/ pc[c] = "idle"
  BY ConnIs
<1>4. CASE Connect(c)
  <2>1. pending' \in Seq(Connections) /\ Len(pending') <= Backlog
    BY <1>4, ConnIs, Appended, ConstantsAssumption DEF Connect
  <2> QED
    BY <1>2, <1>4, <2>1 DEF Connect, Goto
<1>5. CASE ConnectFails(c)
  BY <1>2, <1>3, <1>5 DEF ConnectFails, Goto, Return
<1>6. CASE Sleep(c)
  BY <1>2, <1>6 DEF Sleep, Goto
<1>7. CASE Write(c)
  <2>1. sent[Conn(c)] \in Level
    BY <1>7, ConnIs DEF Write
  <2>2. Later[sent[Conn(c)]] \subseteq Level
    BY <2>1 DEF Level, Later
  <2> QED
    BY <1>2, <1>7, <2>2 DEF Write, Goto
<1>8. CASE ReadAck(c) \/ WaitFails(c)
  BY <1>2, <1>3, <1>8 DEF ReadAck, WaitFails, Return, Goto
<1>9. CASE CrashClient(c)
  BY <1>2, <1>3, <1>9 DEF CrashClient, Goto
<1> QED
  BY <1>1, <1>4, <1>5, <1>6, <1>7, <1>8, <1>9 DEF ClientStep

LEMMA TypedServer ==
    ASSUME Typed, ServerStep \/ CrashServer
    PROVE  Typed'
<1> USE DEF Typed, TypeOK
<1>0. UNCHANGED <<pc, sends, result, sent>>
  BY DEF ServerStep, CrashServer, Accept, ReadHeader, PeerDisconnected, ReadBody, ReadGivesUp,
         ReadError, Ack, Emit, client
<1>1. ASSUME open' \in [Connections -> SUBSET {"client", "server"}],
             acked' \in [Connections -> BOOLEAN],
             pending' \in Seq(Connections), Len(pending') <= Backlog,
             NEW l \in {"loop", "header", "body", "ack", "emit", "dead"}, server' = l,
             current' \in IF l \in {"loop", "dead"} THEN {NoConnection} ELSE Connections,
             read' \in Level, delivered' \in Seq(Connections \X Level)
      PROVE  Typed'
  BY <1>0, <1>1
<1>2. open[current] \ {"server"} \in SUBSET {"client", "server"} \/ server \in {"loop", "dead"}
  OBVIOUS
<1>3. CASE Accept
  <2>1. /\ current' \in Connections /\ pending' \in Seq(Connections) /\ Len(pending') <= Len(pending)
        /\ Len(pending') \in Nat /\ Len(pending) \in Nat
    BY <1>3, HeadAndTail, LenProperties DEF Accept
  <2> QED
    BY <1>1, <1>3, <2>1, ConstantsAssumption DEF Accept, Level
<1>4. CASE ReadHeader \/ ReadGivesUp
  <2>1. CASE ReadHeader
    BY <1>1, <2>1 DEF ReadHeader
  <2>2. CASE ReadGivesUp
    BY <1>1, <2>2 DEF ReadGivesUp
  <2> QED
    BY <1>4, <2>1, <2>2
<1>5. CASE PeerDisconnected \/ ReadError
  <2>1. /\ server \in {"header", "body"} /\ server' = "loop" /\ current' = NoConnection
        /\ open' = [open EXCEPT ![current] = open[current] \ {"server"}]
        /\ UNCHANGED <<acked, pending, read, delivered>>
    BY <1>5 DEF PeerDisconnected, ReadError, CloseSocket
  <2> QED
    BY <1>1, <1>2, <2>1
<1>6. CASE ReadBody
  BY <1>1, <1>6 DEF ReadBody
<1>7. CASE Ack
  <2>1. acked' \in [Connections -> BOOLEAN]
    BY <1>7 DEF Ack
  <2> QED
    BY <1>1, <1>2, <1>7, <2>1 DEF Ack, CloseSocket
<1>8. CASE Emit
  <2>1. delivered' \in Seq(Connections \X Level)
    BY <1>8, Appended DEF Emit
  <2> QED
    BY <1>1, <1>8, <2>1 DEF Emit
<1>9. CASE CrashServer
  BY <1>1, <1>9, ConstantsAssumption DEF CrashServer
<1> QED
  BY <1>3, <1>4, <1>5, <1>6, <1>7, <1>8, <1>9 DEF ServerStep

LEMMA TypedStep == Typed /\ [Next]_vars => Typed'
<1>1. Typed /\ UNCHANGED vars => Typed'
  BY DEF vars, Typed, TypeOK
<1> QED
  BY <1>1, TypedClient, TypedServer DEF Next

-----------------------------------------------------------------------------
\* What the server's hands hold are connections.
LEMMA InHands ==
    ASSUME Typed
    PROVE  /\ \A j \in DOMAIN pending : pending[j] \in Connections
           /\ server \notin {"loop", "dead"} => current \in Connections
           /\ \A i \in DOMAIN delivered : delivered[i] \in Connections \X Level
           /\ \A i \in DOMAIN delivered : delivered[i][1] \in Connections
<1>1. /\ \A j \in DOMAIN pending : pending[j] \in Connections
      /\ \A i \in DOMAIN delivered : delivered[i] \in Connections \X Level
  BY DEF Typed, TypeOK
<1>2. server \notin {"loop", "dead"} => current \in Connections
  BY DEF Typed, TypeOK
<1> QED
  BY <1>1, <1>2

\* A server's step concerns no call of a client.
LEMMA ServerKeepsCalls ==
    ASSUME ServerStep \/ CrashServer PROVE UNCHANGED <<pc, sends, result, sent>>
BY DEF ServerStep, CrashServer, Accept, ReadHeader, PeerDisconnected, ReadBody, ReadGivesUp,
       ReadError, Ack, Emit, client

\* A call that is past remains so.
LEMMA PastStays ==
    ASSUME Typed, [Next]_vars, NEW k \in Connections, Past(k) PROVE Past(k)'
<1> USE ConnectionsAre DEF Past
<1>1. ASSUME NEW c \in Clients, sendMessage(c) \/ ClientStep(c) \/ CrashClient(c) PROVE Past(k)'
  <2>1. CASE k[1] # c
    BY <1>1, <2>1
       DEF sendMessage, ClientStep, CrashClient, Connect, ConnectFails, Sleep, Write,
           ReadAck, WaitFails, Goto, Return, Typed, TypeOK
  <2>2. CASE k[1] = c /\ sendMessage(c)
    BY <1>1, <2>2, ConstantsAssumption DEF sendMessage, Typed, TypeOK
  <2>3. CASE k[1] = c /\ ~sendMessage(c)
    <3>1. sends' = sends /\ (pc'[c] \in NotConnected => pc[c] \in NotConnected)
      BY <1>1, <2>3
         DEF ClientStep, CrashClient, Connect, ConnectFails, Sleep, Write, ReadAck,
             WaitFails, Goto, Return, Typed, TypeOK, NotConnected
    <3> QED
      BY <2>3, <3>1
  <2> QED
    BY <2>1, <2>2, <2>3
<1>2. CASE ServerStep \/ CrashServer
  BY <1>2, ServerKeepsCalls
<1> QED
  BY <1>1, <1>2 DEF Next, vars

\* A connection made now is newer than all that is past.
LEMMA NewIsLast ==
    ASSUME Typed, NEW c \in Clients, Connect(c)
    PROVE  \E e \in Connections :
              /\ \A k \in Connections : Past(k) => Before(k, e)
              /\ Past(e)' /\ pending' = Append(pending, e)
<1>1. pc[c] \in NotConnected /\ pc[c] # "idle" /\ pc'[c] = "write" /\ sends' = sends
  BY DEF Connect, Goto, Typed, TypeOK, NotConnected
<1>2. Conn(c) \in Connections /\ Conn(c)[1] = c /\ Conn(c)[2] = sends[c]
  BY <1>1, ConnIs
<1>3. PICK e \in Connections : e = Conn(c) /\ e[1] = c /\ e[2] = sends[c]
  BY <1>2
<1>4. Past(e)'
  BY <1>1, <1>3 DEF Past, NotConnected
<1>5. \A k \in Connections : Past(k) => Before(k, e)
  BY <1>1, <1>3, ConnectionsAre DEF Past, Before, Typed
<1> QED
  BY <1>3, <1>4, <1>5 DEF Connect

-----------------------------------------------------------------------------
LEMMA SeqInvInit == Init => SeqInv
BY TypedInit DEF Init, SeqInv, PastInv, OrderInv

LEMMA SeqInvStep == SeqInv /\ [Next]_vars => SeqInv'
<1> SUFFICES ASSUME SeqInv, [Next]_vars PROVE SeqInv'
  OBVIOUS
<1>1. Typed /\ Typed'
  BY TypedStep DEF SeqInv
<1>2. PastInv /\ OrderInv
  BY DEF SeqInv
<1>3. \A k \in Connections : Past(k) => Past(k)'
  BY <1>1, PastStays
<1>4. /\ \A j \in DOMAIN pending : pending[j] \in Connections
      /\ server \notin {"loop", "dead"} => current \in Connections
      /\ \A i \in DOMAIN delivered : delivered[i] \in Connections \X Level
      /\ \A i \in DOMAIN delivered : delivered[i][1] \in Connections
  BY <1>1, InHands
<1>5. CASE /\ pending' = pending \/ pending' = <<>>
           /\ UNCHANGED delivered
           /\ server' \notin {"loop", "dead"} => UNCHANGED current /\ server \notin {"loop", "dead"}
  <2>1. PastInv'
    BY <1>2, <1>3, <1>4, <1>5 DEF PastInv
  <2>2. OrderInv'
    BY <1>2, <1>5 DEF OrderInv, Before
  <2> QED
    BY <1>1, <2>1, <2>2 DEF SeqInv
<1>6. ASSUME NEW c \in Clients, Connect(c) PROVE SeqInv'
  <2>1. PICK e \in Connections : /\ \A k \in Connections : Past(k) => Before(k, e)
                                 /\ Past(e)' /\ pending' = Append(pending, e)
    BY <1>1, <1>6, NewIsLast
  <2>2. UNCHANGED <<server, current, delivered>>
    BY <1>6 DEF Connect
  <2>3. /\ DOMAIN pending' = 1 .. Len(pending) + 1 /\ DOMAIN pending = 1 .. Len(pending)
        /\ Len(pending) \in Nat
        /\ \A i \in DOMAIN pending : pending'[i] = pending[i]
        /\ pending'[Len(pending) + 1] = e
    BY <1>1, <2>1, <2>2, Appended DEF Typed, TypeOK
  <2>4. \A j \in DOMAIN pending' :
            j \in DOMAIN pending \/ (j = Len(pending) + 1 /\ pending'[j] = e)
    BY <2>3
  <2>5. PastInv'
    BY <1>2, <1>3, <1>4, <2>1, <2>2, <2>3, <2>4 DEF PastInv, Past
  <2>6. \A i, j \in DOMAIN pending' : i < j => Before(pending'[i], pending'[j])
    <3> SUFFICES ASSUME NEW i \in DOMAIN pending', NEW j \in DOMAIN pending', i < j
                 PROVE  Before(pending'[i], pending'[j])
      OBVIOUS
    <3>1. i \in DOMAIN pending
      BY <2>3
    <3>2. Past(pending[i]) /\ pending[i] \in Connections
      BY <1>2, <1>4, <3>1 DEF PastInv
    <3> QED
      BY <1>2, <2>1, <2>3, <2>4, <3>1, <3>2 DEF OrderInv
  <2>7. OrderInv'
    BY <1>2, <1>4, <2>1, <2>2, <2>3, <2>4, <2>6 DEF OrderInv, PastInv
  <2> QED
    BY <1>1, <2>5, <2>7 DEF SeqInv
<1>7. CASE Accept
  <2>1. pending # <<>> /\ pending \in Seq(Connections)
    BY <1>1, <1>7 DEF Accept, Typed, TypeOK
  <2>2. /\ current' = pending[1] /\ 1 \in DOMAIN pending /\ UNCHANGED delivered
        /\ \A i \in DOMAIN pending' :
              i + 1 \in DOMAIN pending /\ i \in Int /\ pending'[i] = pending[i + 1]
    BY <1>7, <2>1, HeadAndTail DEF Accept
  <2>3. \A i \in DOMAIN pending' : i > 0
    <3>1. pending' \in Seq(Connections)
      BY <1>1 DEF Typed, TypeOK
    <3> QED
      BY <3>1
  <2>4. PastInv'
    BY <1>2, <1>3, <1>4, <2>2 DEF PastInv
  <2>5. OrderInv'
    <3>1. \A i, j \in DOMAIN pending' : i < j => Before(pending'[i], pending'[j])
      BY <1>2, <2>2 DEF OrderInv
    <3>2. \A i \in DOMAIN delivered', j \in DOMAIN pending' : Before(delivered'[i][1], pending'[j])
      BY <1>2, <2>2 DEF OrderInv
    <3>3. \A i \in DOMAIN delivered' : Before(delivered'[i][1], current')
      BY <1>2, <2>2 DEF OrderInv
    <3>4. \A j \in DOMAIN pending' : Before(current', pending'[j])
      BY <1>2, <2>2, <2>3 DEF OrderInv
    <3>5. \A i, j \in DOMAIN delivered' : i < j => Before(delivered'[i][1], delivered'[j][1])
      BY <1>2, <2>2 DEF OrderInv
    <3> QED
      BY <3>1, <3>2, <3>3, <3>4, <3>5 DEF OrderInv, Before
  <2> QED
    BY <1>1, <2>4, <2>5 DEF SeqInv
<1>8. CASE Emit
  <2>1. /\ server = "emit" /\ server' = "loop" /\ current \in Connections /\ read \in Level
        /\ UNCHANGED pending
    BY <1>1, <1>8 DEF Emit, Typed, TypeOK
  <2>2. /\ DOMAIN delivered' = 1 .. Len(delivered) + 1 /\ DOMAIN delivered = 1 .. Len(delivered)
        /\ Len(delivered) \in Nat
        /\ \A i \in DOMAIN delivered : delivered'[i] = delivered[i]
        /\ delivered'[Len(delivered) + 1] = <<current, read>>
    BY <1>1, <1>8, <2>1, Appended DEF Emit, Typed, TypeOK
  <2>3. \A i \in DOMAIN delivered' :
            i \in DOMAIN delivered \/ (i = Len(delivered) + 1 /\ delivered'[i][1] = current)
    BY <2>2
  <2>4. PastInv'
    <3>1. pc' = pc /\ sends' = sends
      BY <1>8, ServerKeepsCalls DEF ServerStep
    <3>2. \A i \in DOMAIN delivered' : Past(delivered'[i][1])
      BY <1>2, <2>1, <2>2, <2>3 DEF PastInv
    <3>3. \A i \in DOMAIN pending' : Past(pending'[i])
      BY <1>2, <2>1 DEF PastInv
    <3> QED
      BY <2>1, <3>1, <3>2, <3>3 DEF PastInv, Past
  <2>5. \A i, j \in DOMAIN delivered' : i < j => Before(delivered'[i][1], delivered'[j][1])
    BY <1>2, <2>1, <2>2, <2>3 DEF OrderInv
  <2>6. \A i \in DOMAIN delivered', j \in DOMAIN pending' : Before(delivered'[i][1], pending'[j])
    BY <1>2, <2>1, <2>2, <2>3 DEF OrderInv
  <2>7. OrderInv'
    BY <1>2, <2>1, <2>5, <2>6 DEF OrderInv, Before
  <2> QED
    BY <1>1, <2>4, <2>7 DEF SeqInv
<1>9. CASE UNCHANGED vars
  BY <1>5, <1>9 DEF vars
<1>10. ASSUME NEW c \in Clients, sendMessage(c) \/ ClientStep(c) \/ CrashClient(c), ~Connect(c)
       PROVE  SeqInv'
  <2>1. UNCHANGED <<pending, delivered, server, current>>
    BY <1>10 DEF sendMessage, ClientStep, CrashClient, ConnectFails, Sleep, Write, ReadAck, WaitFails
  <2> QED
    BY <1>5, <2>1
<1>11. CASE (ServerStep \/ CrashServer) /\ ~Accept /\ ~Emit
  <2>1. /\ pending' = pending \/ pending' = <<>>
        /\ UNCHANGED delivered
        /\ server' \notin {"loop", "dead"} => UNCHANGED current /\ server \notin {"loop", "dead"}
    BY <1>11
       DEF ServerStep, CrashServer, ReadHeader, PeerDisconnected, ReadBody, ReadGivesUp,
           ReadError, Ack, CloseSocket
  <2> QED
    BY <1>5, <2>1
<1> QED
  BY <1>6, <1>7, <1>8, <1>9, <1>10, <1>11 DEF Next

(* The messages of a client are delivered in the order it sent them, each  *)
(* at most once, whatever times out, stalls or crashes: the backlog hands  *)
(* the connections over in the order they were made, and a connection is   *)
(* made once.                                                              *)
THEOREM MessagesInOrder == Spec => []InOrder
<1>1. SeqInv => InOrder
  BY DEF SeqInv, Typed, OrderInv, Before, InOrder
<1> QED
  BY <1>1, SeqInvInit, SeqInvStep, PTL DEF Spec

-----------------------------------------------------------------------------
\* A client's step in a call: the result and its end of the connection change
\* together with pc, those of its present call only.
InCall(c) == ClientStep(c) \/ CrashClient(c)

LEMMA CallEffect ==
    ASSUME Typed, NEW c \in Clients, InCall(c)
    PROVE  /\ pc[c] \in {"connect", "reconnect", "sleep", "write", "wait"}
           /\ UNCHANGED <<sends, acked, server, current, read, delivered>>
           /\ \A d \in Clients \ {c} : pc'[d] = pc[d]
           /\ \A k \in Connections \ {Conn(c)} : result'[k] = result[k] /\ open'[k] = open[k]
           /\ pc'[c] = "idle" => result'[Conn(c)] \in {"true", "false"}
           /\ pc'[c] # "idle" => result'[Conn(c)] = result[Conn(c)]
           /\ pc'[c] \in {"write", "wait"} =>
                 Connect(c) \/ (open' = open /\ pc[c] \in {"write", "wait"})
           /\ Connect(c) => "client" \in open'[Conn(c)]
           /\ ~Connect(c) => open'[Conn(c)] \subseteq open[Conn(c)]
           /\ result'[Conn(c)] = "true" => result[Conn(c)] = "true" \/ acked[Conn(c)]
<1> USE DEF Typed, TypeOK, Goto, Return
<1>0. pc[c] # "idle"
  BY DEF InCall, ClientStep, CrashClient, Connect, ConnectFails, Sleep, Write, ReadAck, WaitFails
<1>1. Conn(c) \in Connections
  BY <1>0, ConnIs
<1>2. CASE Connect(c)
  BY <1>1, <1>2 DEF Connect
<1>3. CASE ConnectFails(c)
  BY <1>1, <1>3 DEF ConnectFails, Connect
<1>4. CASE Sleep(c)
  BY <1>1, <1>4 DEF Sleep, Connect
<1>5. CASE Write(c)
  BY <1>1, <1>5 DEF Write, Connect
<1>6. CASE ReadAck(c)
  BY <1>1, <1>6 DEF ReadAck, Connect
<1>7. CASE WaitFails(c)
  BY <1>1, <1>7 DEF WaitFails, Connect
<1>8. CASE CrashClient(c)
  BY <1>1, <1>8 DEF CrashClient, Connect
<1> QED
  BY <1>2, <1>3, <1>4, <1>5, <1>6, <1>7, <1>8 DEF InCall, ClientStep

\* The server closes its own end only.
LEMMA ServerKeepsClientEnd ==
    ASSUME Typed, ServerStep \/ CrashServer, NEW k \in Connections
    PROVE  "client" \in open'[k] <=> "client" \in open[k]
<1>0. DOMAIN open = Connections
  BY DEF Typed, TypeOK
<1>1. CASE PeerDisconnected \/ ReadError \/ Ack
  <2>1. open' = [open EXCEPT ![current] = @ \ {"server"}]
    BY <1>1 DEF PeerDisconnected, ReadError, Ack, CloseSocket
  <2>2. CASE k = current
    BY <1>0, <2>1, <2>2
  <2>3. CASE k # current
    BY <1>0, <2>1, <2>3
  <2> QED
    BY <2>2, <2>3
<1>2. CASE CrashServer
  BY <1>2 DEF CrashServer
<1>3. CASE open' = open
  BY <1>3
<1> QED
  BY <1>1, <1>2, <1>3 DEF ServerStep, Accept, ReadHeader, ReadBody, ReadGivesUp, Emit

LEMMA ResultStep ==
    ASSUME Typed, ResultInv, [Next]_vars PROVE ResultInv'
<1> SUFFICES ASSUME NEW k \in Connections
             PROVE  /\ result'[k] = "none" <=>
                          k[2] > sends'[k[1]] \/ (k[2] = sends'[k[1]] /\ pc'[k[1]] # "idle")
                    /\ k[2] = sends'[k[1]] /\ pc'[k[1]] \in {"write", "wait"} =>
                          "client" \in open'[k]
  BY DEF ResultInv
<1>0. /\ k[1] \in Clients /\ k[2] \in Nat /\ sends[k[1]] \in Nat
      /\ result[k] = "none" <=> k[2] > sends[k[1]] \/ (k[2] = sends[k[1]] /\ pc[k[1]] # "idle")
      /\ k[2] = sends[k[1]] /\ pc[k[1]] \in {"write", "wait"} => "client" \in open[k]
  BY ConnectionsAre DEF ResultInv, Typed
<1>1. ASSUME NEW c \in Clients, sendMessage(c)
      PROVE  /\ result'[k] = "none" <=>
                   k[2] > sends'[k[1]] \/ (k[2] = sends'[k[1]] /\ pc'[k[1]] # "idle")
             /\ k[2] = sends'[k[1]] /\ pc'[k[1]] \in {"write", "wait"} => "client" \in open'[k]
  <2>1. /\ UNCHANGED <<result, open>>
        /\ pc[c] = "idle" /\ pc'[c] = "connect" /\ sends'[c] = sends[c] + 1
        /\ \A d \in Clients \ {c} : pc'[d] = pc[d] /\ sends'[d] = sends[d]
    BY <1>1 DEF sendMessage, Goto, Typed, TypeOK
  <2>2. CASE k[1] = c
    BY <1>0, <2>1, <2>2
  <2>3. CASE k[1] # c
    BY <1>0, <2>1, <2>3
  <2> QED
    BY <2>2, <2>3
<1>2. ASSUME NEW c \in Clients, InCall(c)
      PROVE  /\ result'[k] = "none" <=>
                   k[2] > sends'[k[1]] \/ (k[2] = sends'[k[1]] /\ pc'[k[1]] # "idle")
             /\ k[2] = sends'[k[1]] /\ pc'[k[1]] \in {"write", "wait"} => "client" \in open'[k]
  <2>1. /\ pc[c] # "idle" /\ sends' = sends
        /\ \A d \in Clients \ {c} : pc'[d] = pc[d]
        /\ k # Conn(c) => result'[k] = result[k] /\ open'[k] = open[k]
    BY <1>2, CallEffect
  <2>2. CASE k[1] # c
    <3>1. k # Conn(c)
      BY <2>2 DEF Conn
    <3> QED
      BY <1>0, <2>1, <2>2, <3>1
  <2>3. CASE k[1] = c /\ k[2] # sends[c]
    <3>1. k # Conn(c)
      BY <2>3 DEF Conn
    <3> QED
      BY <1>0, <2>1, <2>3, <3>1
  <2>4. CASE k[1] = c /\ k[2] = sends[c]
    <3>1. k = Conn(c) /\ result[k] = "none"
      BY <1>0, <2>1, <2>4, ConnIs
    <3>2. result'[k] = "none" <=> pc'[c] # "idle"
      BY <1>2, <3>1, CallEffect
    <3>3. pc'[c] \in {"write", "wait"} => "client" \in open'[k]
      BY <1>0, <1>2, <2>4, <3>1, CallEffect
    <3> QED
      BY <1>0, <2>1, <2>4, <3>2, <3>3
  <2> QED
    BY <2>2, <2>3, <2>4
<1>3. CASE ServerStep \/ CrashServer
  <2>1. UNCHANGED <<pc, sends, result>> /\ ("client" \in open'[k] <=> "client" \in open[k])
    BY <1>3, ServerKeepsCalls, ServerKeepsClientEnd
  <2> QED
    BY <1>0, <2>1
<1>4. CASE UNCHANGED vars
  BY <1>0, <1>4 DEF vars
<1> QED
  BY <1>1, <1>2, <1>3, <1>4 DEF Next, InCall

\* What has been decided of a call is not undone.
LEMMA DecidedStays ==
    ASSUME Typed, ResultInv, [Next]_vars, NEW k \in Connections
    PROVE  /\ result[k] # "none" => result'[k] = result[k]
           /\ pc[k[1]] = "crashed" => pc'[k[1]] = "crashed"
<1>1. ASSUME NEW c \in Clients, sendMessage(c)
      PROVE  /\ result'[k] = result[k]
             /\ pc[k[1]] = "crashed" => pc'[k[1]] = "crashed"
  BY <1>1 DEF sendMessage, Goto, Typed, TypeOK
<1>2. ASSUME NEW c \in Clients, InCall(c)
      PROVE  /\ result[k] # "none" => result'[k] = result[k]
             /\ pc[k[1]] = "crashed" => pc'[k[1]] = "crashed"
  <2>1. k = Conn(c) => result[k] = "none"
    BY <1>2, CallEffect, ConnIs DEF ResultInv
  <2>2. pc[k[1]] = "crashed" => pc'[k[1]] = "crashed"
    BY <1>2, CallEffect, ConnectionsAre
  <2> QED
    BY <1>2, <2>1, <2>2, CallEffect
<1>3. CASE ServerStep \/ CrashServer
  BY <1>3, ServerKeepsCalls
<1> QED
  BY <1>1, <1>2, <1>3 DEF Next, InCall, vars

\* A client that has left a past connection is not back.
LEMMA GoneStays ==
    ASSUME Typed, [Next]_vars, NEW k \in Connections, Past(k), "client" \notin open[k]
    PROVE  "client" \notin open'[k]
<1>1. ASSUME NEW c \in Clients, InCall(c) PROVE "client" \notin open'[k]
  <2>1. CASE Connect(c)
    <3>1. Past(k) => Before(k, Conn(c))
      <4>1. pc[c] \in NotConnected /\ pc[c] # "idle"
        BY <2>1 DEF Connect, NotConnected
      <4>2. Conn(c)[1] = c /\ Conn(c)[2] = sends[c]
        BY <4>1, ConnIs
      <4> QED
        BY <4>1, <4>2, ConnectionsAre DEF Past, Before, Typed
    <3>2. k # Conn(c)
      BY <3>1, ConnectionsAre DEF Before
    <3> QED
      BY <1>1, <3>2, CallEffect
  <2>2. CASE ~Connect(c)
    BY <1>1, <2>2, CallEffect
  <2> QED
    BY <2>1, <2>2
<1>2. ASSUME NEW c \in Clients, sendMessage(c) PROVE "client" \notin open'[k]
  BY <1>2 DEF sendMessage
<1>3. CASE ServerStep \/ CrashServer
  BY <1>3, ServerKeepsClientEnd
<1> QED
  BY <1>1, <1>2, <1>3 DEF Next, InCall, vars

LEMMA DeliveredStep ==
    ASSUME Typed, [Next]_vars, NEW k, NEW l
    PROVE  Delivered(k, l)' <=> Delivered(k, l) \/ (Emit /\ k = current /\ l = read)
<1>1. CASE Emit
  <2>1. current \in Connections /\ read \in Level
    BY <1>1 DEF Emit, Typed, TypeOK
  <2>2. /\ DOMAIN delivered' = 1 .. Len(delivered) + 1 /\ DOMAIN delivered = 1 .. Len(delivered)
        /\ Len(delivered) \in Nat
        /\ \A i \in DOMAIN delivered : delivered'[i] = delivered[i]
        /\ delivered'[Len(delivered) + 1] = <<current, read>>
    BY <1>1, <2>1, Appended DEF Emit, Typed, TypeOK
  <2>3. /\ DOMAIN delivered \subseteq DOMAIN delivered'
        /\ Len(delivered) + 1 \in DOMAIN delivered'
        /\ \A i \in DOMAIN delivered' : i \in DOMAIN delivered \/ i = Len(delivered) + 1
    BY <2>2
  <2> QED
    BY <1>1, <2>2, <2>3 DEF Delivered
<1>2. CASE ~Emit
  <2>1. UNCHANGED delivered
    BY <1>2
       DEF Next, sendMessage, ClientStep, CrashClient, Connect, ConnectFails, Sleep, Write,
           ReadAck, WaitFails, ServerStep, CrashServer, Accept, ReadHeader, PeerDisconnected,
           ReadBody, ReadGivesUp, ReadError, Ack, vars
  <2> QED
    BY <1>2, <2>1 DEF Delivered
<1> QED
  BY <1>1, <1>2

\* The connection being read has not been delivered.
LEMMA CurrentNotDelivered ==
    ASSUME SeqInv, server \notin {"loop", "dead"}, NEW l
    PROVE  ~Delivered(current, l)
<1> SUFFICES ASSUME Delivered(current, l) PROVE FALSE
  OBVIOUS
<1>1. PICK i \in DOMAIN delivered : delivered[i] = <<current, l>>
  BY DEF Delivered
<1>2. Before(current, current) /\ current \in Connections
  BY <1>1, InHands DEF SeqInv, OrderInv
<1> QED
  BY <1>2, ConnectionsAre DEF Before

\* The acknowledgement follows a whole message or reaches nobody: this is where
\* a stall would break the invariant.
LEMMA AckInvStep ==
    ASSUME ~Stalls, SeqInv, ResultInv, AckInv, [Next]_vars PROVE AckInv'
<1>0. Typed /\ Typed'
  BY TypedStep DEF SeqInv
<1>1. /\ server \in {"ack", "emit"} /\ read # "all" => "client" \notin open[current]
      /\ server = "emit" /\ read # "all" => ~acked[current]
      /\ \A k \in Connections :
            /\ result[k] = "true" => acked[k]
            /\ acked[k] => \/ Delivered(k, "all")
                           \/ server = "emit" /\ current = k /\ read = "all"
                           \/ server = "dead"
  BY DEF AckInv
<1>2. server \notin {"loop", "dead"} => current \in Connections /\ Past(current)
  BY <1>0, InHands DEF SeqInv, PastInv
<1>3. server \in {"ack", "emit"} /\ "client" \notin open[current] => "client" \notin open'[current]
  BY <1>0, <1>2, GoneStays
<1>4. \A k \in Connections : Delivered(k, "all") => Delivered(k, "all")'
  BY <1>0, DeliveredStep
\* The clients.
<1>5. ASSUME UNCHANGED <<acked, server, current, read>>,
             \A k \in Connections : result'[k] = "true" => result[k] = "true" \/ acked[k]
      PROVE  AckInv'
  BY <1>1, <1>3, <1>4, <1>5 DEF AckInv
<1>6. ASSUME NEW c \in Clients, InCall(c) PROVE AckInv'
  <2>1. \A k \in Connections : result'[k] = "true" => result[k] = "true" \/ acked[k]
    BY <1>0, <1>6, CallEffect
  <2> QED
    BY <1>0, <1>5, <1>6, <2>1, CallEffect
<1>7. CASE \E c \in Clients : sendMessage(c)
  BY <1>5, <1>7 DEF sendMessage
<1>8. CASE UNCHANGED vars
  BY <1>5, <1>8 DEF vars
\* The server.
<1>9. ASSUME UNCHANGED <<result, acked>>, server \notin {"emit", "dead"}, server' # "emit",
             server' = "ack" => read' = "all" \/ "client" \notin open'[current']
      PROVE  AckInv'
  BY <1>1, <1>4, <1>9 DEF AckInv
<1>10. CASE \/ Accept \/ ReadHeader \/ PeerDisconnected \/ ReadBody \/ ReadGivesUp \/ ReadError
  <2>1. UNCHANGED <<result, acked>> /\ server \notin {"emit", "dead"} /\ server' # "emit"
    BY <1>10 DEF Accept, ReadHeader, PeerDisconnected, ReadBody, ReadGivesUp, ReadError,
                 CloseSocket, client
  <2>2. server' = "ack" => read' = "all" \/ "client" \notin open'[current']
    BY <1>10 DEF Accept, ReadHeader, PeerDisconnected, ReadBody, ReadGivesUp, ReadError,
                 CloseSocket
  <2> QED
    BY <1>9, <2>1, <2>2
<1>11. CASE Ack
  <2>1. /\ server = "ack" /\ server' = "emit" /\ UNCHANGED <<result, current, read>>
        /\ acked' = [acked EXCEPT ![current] = "client" \in open[current]]
        /\ current \in Connections
    BY <1>2, <1>11 DEF Ack, CloseSocket, client
  <2>2. ~acked[current]
    BY <1>1, <1>2, <2>1, CurrentNotDelivered
  <2>3. acked'[current] <=> "client" \in open[current]
    BY <1>0, <2>1 DEF Typed, TypeOK
  <2>4. \A k \in Connections \ {current} : acked'[k] = acked[k]
    BY <1>0, <2>1 DEF Typed, TypeOK
  <2>5. \A k \in Connections : result'[k] = "true" => acked'[k]
    BY <1>1, <2>1, <2>2, <2>4
  <2>6. \A k \in Connections : acked'[k] =>
            \/ Delivered(k, "all")'
            \/ server' = "emit" /\ current' = k /\ read' = "all"
            \/ server' = "dead"
    BY <1>1, <1>4, <2>1, <2>3, <2>4
  <2>7. server' = "emit" /\ read' # "all" => ~acked'[current']
    BY <1>1, <2>1, <2>3
  <2>8. read' # "all" => "client" \notin open'[current']
    BY <1>1, <1>3, <2>1
  <2> QED
    BY <2>5, <2>6, <2>7, <2>8 DEF AckInv
<1>12. CASE Emit
  <2>1. server = "emit" /\ server' = "loop" /\ UNCHANGED <<result, acked>>
    BY <1>12 DEF Emit, client
  <2>2. read = "all" => \A k \in Connections : k = current => Delivered(k, "all")'
    BY <1>0, <1>12, DeliveredStep
  <2> QED
    BY <1>1, <1>4, <2>1, <2>2 DEF AckInv
<1>13. CASE CrashServer
  BY <1>1, <1>13 DEF CrashServer, AckInv, client
<1> QED
  BY <1>6, <1>7, <1>8, <1>10, <1>11, <1>12, <1>13 DEF Next, ServerStep, InCall

\* A message that is cut has lost its sender before the end, which was told
\* FALSE or has crashed.
LEMMA CutStep ==
    ASSUME SeqInv, ResultInv, AckInv, CutOnlyIfAbandoned, [Next]_vars
    PROVE  CutOnlyIfAbandoned'
<1> SUFFICES ASSUME NEW k \in Connections, NEW l \in Level \ {"all"}, Delivered(k, l)'
             PROVE  result'[k] = "false" \/ pc'[k[1]] = "crashed"
  BY DEF CutOnlyIfAbandoned
<1>0. Typed
  BY DEF SeqInv
<1>1. result[k] = "false" \/ pc[k[1]] = "crashed"
  <2>1. CASE Delivered(k, l)
    BY <2>1 DEF CutOnlyIfAbandoned
  <2>2. CASE Emit /\ k = current /\ l = read
    <3>1. server = "emit" /\ read # "all"
      BY <2>2 DEF Emit
    <3>2. "client" \notin open[k] /\ result[k] # "true" /\ Past(k)
      BY <2>2, <3>1 DEF AckInv, SeqInv, PastInv
    <3>3. CASE result[k] = "none"
      <4>1. k[2] = sends[k[1]] /\ pc[k[1]] # "idle"
        BY <1>0, <3>2, <3>3, ConnectionsAre DEF ResultInv, Past, Typed
      <4>2. pc[k[1]] \notin {"connect", "sleep", "reconnect", "write", "wait"}
        BY <1>0, <3>2, <4>1, ConnectionsAre DEF ResultInv, Past, NotConnected, Typed
      <4> QED
        BY <1>0, <4>1, <4>2, ConnectionsAre DEF Typed, TypeOK
    <3> QED
      BY <1>0, <3>2, <3>3 DEF Typed, TypeOK
  <2> QED
    BY <1>0, <2>1, <2>2, DeliveredStep
<1> QED
  BY <1>0, <1>1, DecidedStays

LEMMA IInvAlways == ASSUME ~Stalls PROVE Spec => []IInv
<1>1. Init => IInv
  <2> SUFFICES ASSUME Init PROVE IInv
    OBVIOUS
  <2>1. ResultInv
    BY ConnectionsAre DEF Init, ResultInv
  <2>2. AckInv /\ CutOnlyIfAbandoned
    BY DEF Init, AckInv, CutOnlyIfAbandoned, Delivered
  <2> QED
    BY <2>1, <2>2, SeqInvInit DEF IInv
<1>2. IInv /\ [Next]_vars => IInv'
  <2> SUFFICES ASSUME IInv, [Next]_vars PROVE IInv'
    OBVIOUS
  <2>1. SeqInv /\ Typed /\ ResultInv /\ AckInv /\ CutOnlyIfAbandoned
    BY DEF IInv, SeqInv
  <2> QED
    BY <2>1, SeqInvStep, ResultStep, AckInvStep, CutStep DEF IInv
<1> QED
  BY <1>1, <1>2, PTL DEF Spec

(* A sendMessage() that returns TRUE has its whole message delivered, or   *)
(* about to be unless the running instance crashes, provided no client     *)
(* writes nothing for two seconds in the middle of a message.              *)
THEOREM TrueIsDelivered == ASSUME ~Stalls PROVE Spec => []TrueMeansDelivered
<1>1. IInv => TrueMeansDelivered
  BY DEF IInv, AckInv, TrueMeansDelivered
<1> QED
  BY <1>1, IInvAlways, PTL

(* A message is emitted cut only if its sender gave it up or crashed,      *)
(* under the same assumption.                                              *)
THEOREM CutIsAbandoned == ASSUME ~Stalls PROVE Spec => []CutOnlyIfAbandoned
<1>1. IInv => CutOnlyIfAbandoned
  BY DEF IInv
<1> QED
  BY <1>1, IInvAlways, PTL
=============================================================================
