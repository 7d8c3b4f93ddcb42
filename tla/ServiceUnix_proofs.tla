------------------------- MODULE ServiceUnix_proofs -------------------------
(***************************************************************************)
(* What the processes of a service guarantee, for any number of processes  *)
(* and clients: that an exit removes its path, always, and that a service  *)
(* can be reached as long as no start has overlapped with another one or   *)
(* with an exit.                                                           *)
(***************************************************************************)
EXTENDS ServiceUnix, TLAPS

USE DEF Goto

\* While starts are orderly, one process of the service exists at a time.
OneService ==
    \A p, q \in Procs : pc[p] # "absent" /\ pc[q] # "absent" => p = q

Starting(c) == at[c] = "spawn" \/ conn[c].cmd = "alive"

\* One client is in start() at a time, and no process is on its way to its
\* event loop meanwhile.
OneStarter == \A c, d \in Clients : Starting(c) /\ Starting(d) => c = d
NoStartup ==
    \A c \in Clients : Starting(c) =>
        \A p \in Procs : pc[p] \notin {"unlink", "bind", "listen"}

\* A client that is about to start the service does so because no process
\* is in its event loop.
NoneLeft ==
    \A c \in Clients :
        at[c] = "spawn" \/ (conn[c].cmd = "alive" /\ conn[c].stage = "false") =>
            \A p \in Procs : pc[p] # "loop"

\* Where the path leads, and who listens, from setPath() to close().
PathInv ==
    \A p \in Procs :
        /\ pc[p] = "bind" => path = "none"
        /\ pc[p] \in {"listen", "loop"} => path = p
        /\ listens[p] <=> pc[p] = "loop"

OrderlyInv == OneService /\ OneStarter /\ NoStartup /\ NoneLeft /\ PathInv

IInv == TypeOK /\ OrderlyInv

-----------------------------------------------------------------------------
LEMMA NoConnFields ==
    NoConn.cmd = "none" /\ NoConn.stage = "none" /\ NoConn.to = "none" /\ NoConn \notin Conn
BY DEF NoConn, Conn

LEMMA IInvInit == Init => IInv
BY ConstantsAssumption, NoConnFields
   DEF Init, IInv, OrderlyInv, TypeOK, OneService, OneStarter, NoStartup, NoneLeft, PathInv, Starting

\* What Break() does to the type and to the clients that start the service.
LEMMA BreakConn ==
    ASSUME TypeOK, NEW p \in Procs, NEW S, Break(p, S), UNCHANGED at
    PROVE  /\ conn' \in [Clients -> Conn \cup {NoConn}]
           /\ \A c \in Clients : /\ conn'[c].cmd = conn[c].cmd
                                 /\ at'[c] = "wait" <=> conn'[c] # NoConn
BY ConstantsAssumption, NoConnFields DEF TypeOK, Break, Conn

LEMMA TypeStep == TypeOK /\ [Next]_vars => TypeOK'
<1> SUFFICES ASSUME TypeOK, [Next]_vars PROVE TypeOK'
  OBVIOUS
<1> USE ConstantsAssumption, NoConnFields
<1>1. ASSUME NEW c \in Clients, NEW cmd \in Command, SendCmd(c, cmd) PROVE TypeOK'
  BY <1>1 DEF SendCmd, TypeOK, Conn
<1>2. ASSUME NEW c \in Clients, FindNobody(c) PROVE TypeOK'
  BY <1>2 DEF FindNobody, TypeOK
<1>3. ASSUME NEW c \in Clients, ReadReply(c) PROVE TypeOK'
  BY <1>3 DEF ReadReply, TypeOK
<1>4. ASSUME NEW c \in Clients, Spawn(c) PROVE TypeOK'
  BY <1>4 DEF Spawn, TypeOK
<1>5. ASSUME NEW p \in Procs, UnlinkOld(p) \/ Bind(p) \/ Listen(p) \/ UnlinkOwn(p)
      PROVE  TypeOK'
  BY <1>5 DEF UnlinkOld, Bind, Listen, UnlinkOwn, TypeOK
<1>6. ASSUME NEW p \in Procs, SlotStart(p) PROVE TypeOK'
  BY <1>6 DEF SlotStart, TypeOK
<1>7. ASSUME NEW p \in Procs, CloseListener(p) PROVE TypeOK'
  BY <1>7, BreakConn DEF CloseListener, TypeOK
<1>8. ASSUME NEW p \in Procs, DeleteSysd(p) \/ Crash(p) PROVE TypeOK'
  <2>1. Gone(p) /\ path' \in Procs \cup {"none", "stale"}
    BY <1>8 DEF DeleteSysd, Crash, TypeOK
  <2> QED
    BY <2>1, BreakConn DEF Gone, TypeOK
<1>9. ASSUME NEW p \in Procs, NEW c \in Clients, Accept(p, c) PROVE TypeOK'
  BY <1>9 DEF Accept, TypeOK, Conn
<1>10. ASSUME NEW p \in Procs, NEW c \in Clients, SlotReady(p, c) PROVE TypeOK'
  BY <1>10 DEF SlotReady, TypeOK, Conn
<1>11. CASE UNCHANGED vars
  BY <1>11 DEF vars, TypeOK
<1> QED
  BY <1>1, <1>2, <1>3, <1>4, <1>5, <1>6, <1>7, <1>8, <1>9, <1>10, <1>11 DEF Next, RunStep

(* Every variable keeps its type, however starts overlap.                  *)
THEOREM TypeCorrect == Spec => []TypeOK
<1>1. Init => TypeOK
  BY IInvInit DEF IInv
<1> QED
  BY <1>1, TypeStep, PTL DEF Spec

-----------------------------------------------------------------------------
(* While starts are orderly.                                               *)

\* A step of one process that is not in its event loop and does not touch
\* the clients: what remains to be shown is about the process alone.
LEMMA ProcessStep ==
    ASSUME IInv, NEW p \in Procs, pc[p] # "absent", UNCHANGED <<at, conn>>,
           NEW l, pc' = [pc EXCEPT ![p] = l], TypeOK',
           l \in {"bind", "listen", "loop"} => pc[p] \in {"unlink", "bind", "listen"},
           l # "unlink",
           l = "bind" => path' = "none",
           l \in {"listen", "loop"} => path' = p,
           listens'[p] <=> l = "loop", \A q \in Procs \ {p} : listens'[q] = listens[q]
    PROVE  IInv'
<1> USE DEF IInv, OrderlyInv, TypeOK
<1>1. OneService'
  BY DEF OneService
<1>2. OneStarter' /\ NoStartup' /\ NoneLeft'
  BY DEF OneStarter, NoStartup, NoneLeft, Starting
<1>3. PathInv'
  BY DEF PathInv, OneService
<1> QED
  BY <1>1, <1>2, <1>3

\* A process leaves its event loop or ends; the connections to it break.
LEMMA LeaveStep ==
    ASSUME IInv, NEW p \in Procs, pc[p] # "absent", UNCHANGED at,
           NEW l \in {"remove", "delete", "absent"}, pc' = [pc EXCEPT ![p] = l],
           TypeOK', NEW S, Break(p, S),
           listens' = [listens EXCEPT ![p] = FALSE]
    PROVE  IInv'
<1> USE DEF IInv, OrderlyInv
<1>1. \A c \in Clients : conn'[c].cmd = conn[c].cmd
  BY BreakConn
<1>2. \A q \in Procs : pc'[q] \in {"remove", "delete", "absent"}
  BY DEF TypeOK, OneService
<1>3. OneService'
  BY DEF TypeOK, OneService
<1>4. OneStarter' /\ NoStartup' /\ NoneLeft'
  BY <1>1, <1>2 DEF OneStarter, NoStartup, NoneLeft, Starting
<1>5. PathInv'
  BY <1>2 DEF TypeOK, PathInv, OneService
<1> QED
  BY <1>3, <1>4, <1>5

\* A start that overlaps is never forgotten.
LEMMA OrderlyStep == [Next]_vars /\ orderly' => orderly
<1> SUFFICES ASSUME [Next]_vars, orderly' PROVE orderly
  OBVIOUS
<1>1. ASSUME NEW c \in Clients,
             (\E cmd \in Command : SendCmd(c, cmd)) \/ FindNobody(c) \/ ReadReply(c) \/ Spawn(c)
      PROVE  orderly
  BY <1>1 DEF SendCmd, FindNobody, ReadReply, Spawn
<1>2. ASSUME NEW p \in Procs, RunStep(p) \/ SlotStart(p) \/ Crash(p) PROVE orderly
  BY <1>2 DEF RunStep, UnlinkOld, Bind, Listen, CloseListener, UnlinkOwn, DeleteSysd,
              SlotStart, Crash, Gone
<1>3. ASSUME NEW p \in Procs, NEW c \in Clients, Accept(p, c) \/ SlotReady(p, c) PROVE orderly
  BY <1>3 DEF Accept, SlotReady
<1>4. CASE UNCHANGED vars
  BY <1>4 DEF vars
<1> QED
  BY <1>1, <1>2, <1>3, <1>4 DEF Next

LEMMA IInvStep ==
    ASSUME IInv, [Next]_vars, orderly'
    PROVE  IInv'
<1>0. TypeOK'
  BY TypeStep DEF IInv
<1> USE <1>0, ConstantsAssumption, NoConnFields DEF IInv, OrderlyInv
<1>1. ASSUME NEW c \in Clients, NEW cmd \in Command, SendCmd(c, cmd) PROVE IInv'
  <2>1. PICK p \in Procs : /\ Reaches(p)
                           /\ conn' = [conn EXCEPT ![c] =
                                  [stage |-> "queued", to |-> p, cmd |-> cmd]]
    BY <1>1 DEF SendCmd
  <2>2. pc[p] = "loop" /\ \A q \in Procs : pc[q] \in {"loop", "absent"}
    BY <2>1 DEF Reaches, PathInv, OneService, TypeOK
  <2>3. cmd = "alive" => NoOtherStart(c)
    BY <1>1 DEF SendCmd
  <2>4. at[c] = "idle" /\ at' = [at EXCEPT ![c] = "wait"] /\ UNCHANGED pc
    BY <1>1 DEF SendCmd
  <2>5. OneStarter' /\ NoStartup'
    BY <2>1, <2>2, <2>3, <2>4 DEF NoOtherStart, OneStarter, NoStartup, Starting, TypeOK
  <2>6. NoneLeft'
    BY <2>1, <2>2, <2>4 DEF NoneLeft, TypeOK
  <2> QED
    BY <1>1, <2>5, <2>6 DEF SendCmd, OneService, PathInv
<1>2. ASSUME NEW c \in Clients, FindNobody(c) PROVE IInv'
  <2>1. NoOtherStart(c) /\ Settled
    BY <1>2 DEF FindNobody
  <2>2. /\ \A p \in Procs : ~Reaches(p)
        /\ at' = [at EXCEPT ![c] = "spawn"] /\ UNCHANGED <<pc, listens, path, conn>>
    BY <1>2 DEF FindNobody
  <2>3. \A p \in Procs : pc[p] = "absent"
    BY <2>1, <2>2 DEF Settled, Reaches, PathInv
  <2>4. OneStarter'
    BY <2>1, <2>2 DEF NoOtherStart, OneStarter, Starting, TypeOK
  <2>5. NoStartup' /\ NoneLeft'
    BY <2>2, <2>3 DEF NoStartup, NoneLeft
  <2> QED
    BY <2>2, <2>4, <2>5 DEF OneService, PathInv
<1>3. ASSUME NEW c \in Clients, ReadReply(c) PROVE IInv'
  <2>1. \A d \in Clients : Starting(d)' => Starting(d)
    BY <1>3 DEF ReadReply, Starting, TypeOK
  <2>2. OneStarter' /\ NoStartup'
    BY <1>3, <2>1 DEF ReadReply, OneStarter, NoStartup
  <2>3. NoneLeft'
    BY <1>3 DEF ReadReply, NoneLeft, TypeOK
  <2> QED
    BY <1>3, <2>2, <2>3 DEF ReadReply, OneService, PathInv
<1>4. ASSUME NEW c \in Clients, Spawn(c) PROVE IInv'
  <2>0. Settled
    BY <1>4 DEF Spawn
  <2>1. \A p \in Procs : pc[p] = "absent"
    BY <1>4, <2>0 DEF Spawn, Settled, NoneLeft
  <2>2. PICK p \in Procs : pc' = [pc EXCEPT ![p] = "unlink"]
    BY <1>4 DEF Spawn
  <2>3. \A d \in Clients : ~Starting(d)'
    BY <1>4 DEF Spawn, OneStarter, Starting, TypeOK
  <2>4. OneStarter' /\ NoStartup' /\ NoneLeft'
    BY <2>3 DEF OneStarter, NoStartup, NoneLeft, Starting
  <2>5. OneService' /\ PathInv'
    BY <1>4, <2>1, <2>2 DEF Spawn, OneService, PathInv, TypeOK
  <2> QED
    BY <2>4, <2>5
<1>5. ASSUME NEW p \in Procs, UnlinkOld(p) \/ Bind(p) \/ Listen(p) \/ UnlinkOwn(p)
      PROVE  IInv'
  <2>1. CASE UnlinkOld(p)
    <3>1. ~listens[p]
      BY <2>1 DEF UnlinkOld, PathInv
    <3> QED
      BY <2>1, <3>1, ProcessStep DEF UnlinkOld
  <2>2. CASE Bind(p)
    <3>1. path = "none" /\ pc[p] = "bind" /\ ~listens[p]
      BY <2>2 DEF Bind, PathInv
    <3>2. /\ path' = p /\ pc' = [pc EXCEPT ![p] = "listen"]
          /\ UNCHANGED <<listens, at, conn>>
      BY <2>2, <3>1 DEF Bind, Goto
    <3> QED
      BY <3>1, <3>2, ProcessStep
  <2>3. CASE Listen(p)
    <3>1. path = p /\ pc[p] = "listen"
      BY <2>3 DEF Listen, PathInv
    <3>2. /\ path' = p /\ pc' = [pc EXCEPT ![p] = "loop"] /\ UNCHANGED <<at, conn>>
          /\ listens'[p] /\ \A q \in Procs \ {p} : listens'[q] = listens[q]
      BY <2>3, <3>1 DEF Listen, Goto, TypeOK
    <3> QED
      BY <3>1, <3>2, ProcessStep
  <2>4. CASE UnlinkOwn(p)
    <3>1. ~listens[p]
      BY <2>4 DEF UnlinkOwn, PathInv
    <3> QED
      BY <2>4, <3>1, ProcessStep DEF UnlinkOwn
  <2> QED
    BY <1>5, <2>1, <2>2, <2>3, <2>4
<1>6. ASSUME NEW p \in Procs, SlotStart(p) PROVE IInv'
  BY <1>6 DEF SlotStart, OneService, OneStarter, NoStartup, NoneLeft, PathInv, Starting
<1>7. ASSUME NEW p \in Procs, CloseListener(p) PROVE IInv'
  BY <1>7, LeaveStep DEF CloseListener
<1>8. ASSUME NEW p \in Procs, DeleteSysd(p) \/ Crash(p) PROVE IInv'
  BY <1>8, LeaveStep DEF DeleteSysd, Crash, Gone
<1>9. ASSUME NEW p \in Procs, NEW c \in Clients, Accept(p, c) PROVE IInv'
  <2>1. UNCHANGED <<pc, listens, path, at>> /\ conn' = [conn EXCEPT ![c].stage = "accepted"]
    BY <1>9 DEF Accept
  <2>2. \A d \in Clients : conn'[d].cmd = conn[d].cmd
    BY <2>1 DEF TypeOK, Conn
  <2>3. NoneLeft'
    BY <2>1, <2>2 DEF NoneLeft, TypeOK, Conn
  <2> QED
    BY <2>1, <2>2, <2>3 DEF OneService, OneStarter, NoStartup, PathInv, Starting
<1>10. ASSUME NEW p \in Procs, NEW c \in Clients, SlotReady(p, c) PROVE IInv'
  <2>1. UNCHANGED <<pc, listens, path, at>>
    BY <1>10 DEF SlotReady
  <2>2. PICK v \in {"true", "false"} : /\ conn' = [conn EXCEPT ![c].stage = v]
                                       /\ conn[c].cmd = "alive" => v = "true"
    BY <1>10 DEF SlotReady, Granted
  <2>3. \A d \in Clients : conn'[d].cmd = conn[d].cmd
    BY <2>2 DEF TypeOK, Conn
  <2>4. NoneLeft'
    BY <2>1, <2>2, <2>3 DEF NoneLeft, TypeOK, Conn
  <2> QED
    BY <2>1, <2>3, <2>4 DEF OneService, OneStarter, NoStartup, PathInv, Starting
<1>11. CASE UNCHANGED vars
  BY <1>11 DEF vars, OneService, OneStarter, NoStartup, NoneLeft, PathInv, Starting
<1> QED
  BY <1>1, <1>2, <1>3, <1>4, <1>5, <1>6, <1>7, <1>8, <1>9, <1>10, <1>11 DEF Next, RunStep

LEMMA OrderlyAlways == Spec => [](TypeOK /\ (orderly => OrderlyInv))
<1>1. Init => TypeOK /\ (orderly => OrderlyInv)
  BY IInvInit DEF IInv
<1>2. ASSUME TypeOK, orderly => OrderlyInv, [Next]_vars
      PROVE  TypeOK' /\ (orderly' => OrderlyInv')
  <2>1. orderly' => orderly
    BY <1>2, OrderlyStep
  <2>2. orderly' => OrderlyInv'
    BY <1>2, <2>1, IInvStep DEF IInv
  <2> QED
    BY <1>2, <2>2, TypeStep
<1> QED
  BY <1>1, <1>2, PTL DEF Spec

-----------------------------------------------------------------------------
(* With overlapping starts as well.                                        *)

\* A process whose path it is has bound it, and listens in its event loop:
\* close(), which removes the path, looks at whether it listens.
OwnPathInv ==
    \A p \in Procs : path = p =>
        /\ pc[p] \in {"listen", "loop", "remove"}
        /\ pc[p] = "loop" => listens[p]

LEMMA OwnPathStep == TypeOK /\ OwnPathInv /\ [Next]_vars => OwnPathInv'
<1> SUFFICES ASSUME TypeOK, OwnPathInv, [Next]_vars PROVE OwnPathInv'
  OBVIOUS
<1> USE ConstantsAssumption DEF TypeOK, OwnPathInv
<1>1. ASSUME UNCHANGED <<pc, listens, path>> PROVE OwnPathInv'
  BY <1>1
<1>2. ASSUME NEW c \in Clients, Spawn(c) PROVE OwnPathInv'
  BY <1>2 DEF Spawn
<1>3. ASSUME NEW p \in Procs, UnlinkOld(p) \/ UnlinkOwn(p) PROVE OwnPathInv'
  BY <1>3 DEF UnlinkOld, UnlinkOwn
<1>4. ASSUME NEW p \in Procs, Bind(p) PROVE OwnPathInv'
  BY <1>4 DEF Bind
<1>5. ASSUME NEW p \in Procs, Listen(p) PROVE OwnPathInv'
  BY <1>5 DEF Listen
<1>6. ASSUME NEW p \in Procs, CloseListener(p) PROVE OwnPathInv'
  BY <1>6 DEF CloseListener
<1>7. ASSUME NEW p \in Procs, DeleteSysd(p) \/ Crash(p) PROVE OwnPathInv'
  BY <1>7 DEF DeleteSysd, Crash, Gone
<1>8. CASE \E c \in Clients : (\E cmd \in Command : SendCmd(c, cmd)) \/ FindNobody(c) \/ ReadReply(c)
  BY <1>1, <1>8 DEF SendCmd, FindNobody, ReadReply
<1>9. CASE \E p \in Procs : SlotStart(p) \/ \E c \in Clients : Accept(p, c) \/ SlotReady(p, c)
  BY <1>1, <1>9 DEF SlotStart, Accept, SlotReady
<1>10. CASE UNCHANGED vars
  BY <1>1, <1>10 DEF vars
<1> QED
  BY <1>2, <1>3, <1>4, <1>5, <1>6, <1>7, <1>8, <1>9, <1>10 DEF Next, RunStep

(* The path tells whether the service runs.  A service in its event loop   *)
(* can be reached through it, whatever crashed before, as long as no start *)
(* has overlapped with another one or with an exit (two starts at a time   *)
(* can leave a service that cannot be reached); and a process that exits   *)
(* has removed its path, however starts overlap.                           *)
THEOREM PathTellsTruth == Spec => []PathFollowsService
<1>1. Init => OwnPathInv
  BY ConstantsAssumption DEF Init, OwnPathInv
<1>2. (orderly => OrderlyInv) /\ OwnPathInv => PathFollowsService
  BY DEF OrderlyInv, PathInv, OwnPathInv, PathFollowsService, Reaches
<1> QED
  BY <1>1, <1>2, OwnPathStep, OrderlyAlways, TypeCorrect, PTL DEF Spec
=============================================================================
