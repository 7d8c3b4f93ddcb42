----------------------------- MODULE ServiceUnix -----------------------------
(***************************************************************************)
(* A QtService on Unix: the detached processes of one service, the socket  *)
(* path they are controlled through, and the clients that control them     *)
(* (QtServiceController, and the service's executable run without          *)
(* arguments, which starts the service unless it is running).              *)
(***************************************************************************)
CONSTANTS
    Procs,    \* the detached processes there can be of the service
    Clients,  \* the processes that control it
    FlagSets  \* the ServiceFlags that it may be built with

Flag == {"CanBeSuspended", "CannotBeStopped"}

ASSUME ConstantsAssumption ==
    /\ FlagSets \subseteq SUBSET Flag
    /\ Procs \cap {"none", "stale"} = {}

VARIABLES
    flags,    \* the ServiceFlags that the service is built with
    pc,       \* pc[p]: where p is in QtServiceBasePrivate::run(): "absent",
              \* the steps of sysSetPath(), "loop", the steps of sysCleanup()
    listens,  \* listens[p]: p has a listening socket
    started,  \* started[p]: start() of the service has been called
    quit,     \* quit[p]: quit() has been called
    path,     \* whose socket the path leads to: a process, "stale" or "none"
    at,       \* at[c]: "idle", "wait" (for a reply) or "spawn"
    conn,     \* conn[c]: the connection of c, and the command it carries
    orderly   \* history: has no start overlapped with another one or an exit?

vars == <<flags, orderly, pc, listens, started, quit, path, at, conn>>

Command == {"alive", "terminate", "pause", "num"}
Conn == [stage : {"queued", "accepted", "true", "false"}, to : Procs, cmd : Command]
NoConn == [stage |-> "none", to |-> "none", cmd |-> "none"]

Init ==
    /\ flags \in FlagSets
    /\ orderly = TRUE
    /\ pc = [p \in Procs |-> "absent"]
    /\ listens = [p \in Procs |-> FALSE]
    /\ started = [p \in Procs |-> FALSE]
    /\ quit = [p \in Procs |-> FALSE]
    /\ path = "none"
    /\ at = [c \in Clients |-> "idle"]
    /\ conn = [c \in Clients |-> NoConn]

Goto(p, l) == pc' = [pc EXCEPT ![p] = l]

\* The connections to p in one of the stages are closed under the clients,
\* who then read an empty reply.
Break(p, stages) ==
    conn' = [c \in Clients |->
        IF conn[c].to = p /\ conn[c].stage \in stages
        THEN [conn[c] EXCEPT !.stage = "false"] ELSE conn[c]]

-----------------------------------------------------------------------------
(* The clients.                                                            *)

\* connect() succeeds if a socket listens at the path.
Reaches(p) == path = p /\ listens[p]

\* Starts are orderly if one client at a time is in start(), and starts the
\* service when no process is on its way to or from the event loop.
NoOtherStart(c) == \A d \in Clients \ {c} : at[d] # "spawn" /\ conn[d].cmd # "alive"
Settled == \A p \in Procs : pc[p] \in {"absent", "loop"}

\* sendCmd() connects and sends the command, "alive" for start().
SendCmd(c, cmd) ==
    /\ at[c] = "idle"
    /\ \E p \in Procs :
          /\ Reaches(p)
          /\ conn' = [conn EXCEPT ![c] = [stage |-> "queued", to |-> p, cmd |-> cmd]]
          /\ at' = [at EXCEPT ![c] = "wait"]
    /\ orderly' = (orderly /\ (cmd = "alive" => NoOtherStart(c)))
    /\ UNCHANGED <<flags, pc, listens, started, quit, path>>

\* Nobody listens: sendCmd() of start() and isRunning() of the controller's
\* start() return FALSE, and the service is to be started.
FindNobody(c) ==
    /\ at[c] = "idle"
    /\ \A p \in Procs : ~Reaches(p)
    /\ at' = [at EXCEPT ![c] = "spawn"]
    /\ orderly' = (orderly /\ NoOtherStart(c) /\ Settled)
    /\ UNCHANGED <<flags, pc, listens, started, quit, path, conn>>

\* Mutant: start() does not look at the reply.
ReadReplyIgnored(c) ==
    /\ conn[c].stage \in {"true", "false"}
    /\ at' = [at EXCEPT ![c] = IF conn[c].cmd = "alive" THEN "spawn" ELSE "idle"]
    /\ conn' = [conn EXCEPT ![c] = NoConn]
    /\ UNCHANGED <<flags, orderly, pc, listens, started, quit, path>>

\* sendCmd() has read the reply or the end of the connection.  start() goes
\* on to start the service unless the reply was "true".
ReadReply(c) ==
    /\ conn[c].stage \in {"true", "false"}
    /\ at' = [at EXCEPT ![c] =
           IF conn[c].cmd = "alive" /\ conn[c].stage = "false" THEN "spawn" ELSE "idle"]
    /\ conn' = [conn EXCEPT ![c] = NoConn]
    /\ UNCHANGED <<flags, orderly, pc, listens, started, quit, path>>

\* startDetached() returns when the process exists.
Spawn(c) ==
    /\ at[c] = "spawn"
    /\ \E p \in Procs : pc[p] = "absent" /\ Goto(p, "unlink")
    /\ at' = [at EXCEPT ![c] = "idle"]
    /\ orderly' = (orderly /\ Settled)
    /\ UNCHANGED <<flags, listens, started, quit, path, conn>>

-----------------------------------------------------------------------------
(* A process of the service: run() up to the event loop.                   *)

\* Mutant: a path that is in the way is left there.
UnlinkOldKeeps(p) ==
    /\ pc[p] = "unlink"
    /\ Goto(p, "bind")
    /\ UNCHANGED <<flags, orderly, listens, started, quit, path, at, conn>>

\* setPath() unlinks the path, whoever's it is,
UnlinkOld(p) ==
    /\ pc[p] = "unlink"
    /\ path' = "none"
    /\ Goto(p, "bind")
    /\ UNCHANGED <<flags, orderly, listens, started, quit, at, conn>>

\* binds it (the process goes on if that fails),
Bind(p) ==
    /\ pc[p] = "bind"
    /\ \/ path = "none" /\ path' = p /\ Goto(p, "listen")
       \/ path # "none" /\ Goto(p, "loop") /\ UNCHANGED path
    /\ UNCHANGED <<flags, orderly, listens, started, quit, at, conn>>

\* and listens.
Listen(p) ==
    /\ pc[p] = "listen"
    /\ listens' = [listens EXCEPT ![p] = TRUE]
    /\ Goto(p, "loop")
    /\ UNCHANGED <<flags, orderly, started, quit, path, at, conn>>

\* The timer set by run() calls start(), which may end the service (as in
\* examples/server).
SlotStart(p) ==
    /\ pc[p] = "loop" /\ ~started[p]
    /\ started' = [started EXCEPT ![p] = TRUE]
    /\ \E b \in {quit[p], TRUE} : quit' = [quit EXCEPT ![p] = b]
    /\ UNCHANGED <<flags, orderly, pc, listens, path, at, conn>>

\* incomingConnection()
Accept(p, c) ==
    /\ pc[p] = "loop" /\ conn[c].to = p /\ conn[c].stage = "queued"
    /\ conn' = [conn EXCEPT ![c].stage = "accepted"]
    /\ UNCHANGED <<flags, orderly, pc, listens, started, quit, path, at>>

\* What the reply to a command is.
Granted(cmd) ==
    CASE cmd = "terminate" -> "CannotBeStopped" \notin flags
      [] cmd = "pause" -> "CanBeSuspended" \in flags
      [] OTHER -> TRUE

\* Mutant: a command that is not granted gets no reply.
SlotReadySilent(p, c) ==
    /\ pc[p] = "loop" /\ conn[c].to = p /\ conn[c].stage = "accepted"
    /\ Granted(conn[c].cmd)
    /\ quit' = [quit EXCEPT ![p] = @ \/ conn[c].cmd = "terminate"]
    /\ conn' = [conn EXCEPT ![c].stage = "true"]
    /\ UNCHANGED <<flags, orderly, pc, listens, started, path, at>>

\* slotReady(): the command is carried out and answered, also after a quit()
\* until the event loop returns.  ("pause" stands for "resume" as well.)
SlotReady(p, c) ==
    /\ pc[p] = "loop" /\ conn[c].to = p /\ conn[c].stage = "accepted"
    /\ LET granted == Granted(conn[c].cmd) IN
          /\ quit' = [quit EXCEPT ![p] = @ \/ (granted /\ conn[c].cmd = "terminate")]
          /\ conn' = [conn EXCEPT ![c].stage = IF granted THEN "true" ELSE "false"]
    /\ UNCHANGED <<flags, orderly, pc, listens, started, path, at>>

(* ... and from there on.                                                  *)

\* The event loop returns and close() closes the listening socket.
CloseListener(p) ==
    /\ pc[p] = "loop" /\ quit[p]
    /\ listens' = [listens EXCEPT ![p] = FALSE]
    /\ Break(p, {"queued"})
    /\ Goto(p, IF listens[p] THEN "remove" ELSE "delete")
    /\ UNCHANGED <<flags, orderly, started, quit, path, at>>

\* Mutant: the path is left to be removed by the next process.
UnlinkOwnSkipped(p) ==
    /\ pc[p] = "remove"
    /\ Goto(p, "delete")
    /\ UNCHANGED <<flags, orderly, listens, started, quit, path, at, conn>>

\* close() unlinks the path that setPath() bound, whoever's it is now.
UnlinkOwn(p) ==
    /\ pc[p] = "remove"
    /\ path' = "none"
    /\ Goto(p, "delete")
    /\ UNCHANGED <<flags, orderly, listens, started, quit, at, conn>>

\* p is gone, and with it its connections.
Gone(p) ==
    /\ Goto(p, "absent")
    /\ listens' = [listens EXCEPT ![p] = FALSE]
    /\ started' = [started EXCEPT ![p] = FALSE]
    /\ quit' = [quit EXCEPT ![p] = FALSE]
    /\ Break(p, {"queued", "accepted"})
    /\ UNCHANGED <<flags, orderly, at>>

\* Mutant: the process waits for its clients.
DeleteSysdWaits(p) ==
    /\ pc[p] = "delete"
    /\ \A c \in Clients : conn[c].to # p
    /\ Gone(p) /\ UNCHANGED path

\* sysCleanup() deletes the server with its connections; the process exits.
DeleteSysd(p) == pc[p] = "delete" /\ Gone(p) /\ UNCHANGED path

\* The process crashes or is killed: its path stays.
Crash(p) ==
    /\ pc[p] # "absent"
    /\ path' = IF path = p THEN "stale" ELSE path
    /\ Gone(p)

-----------------------------------------------------------------------------
RunStep(p) ==
    \/ UnlinkOld(p) \/ Bind(p) \/ Listen(p)
    \/ CloseListener(p) \/ UnlinkOwn(p) \/ DeleteSysd(p)

Next ==
    \/ \E c \in Clients : \/ \E cmd \in Command : SendCmd(c, cmd)
                          \/ FindNobody(c) \/ ReadReply(c) \/ Spawn(c)
    \/ \E p \in Procs : \/ RunStep(p) \/ SlotStart(p) \/ Crash(p)
                        \/ \E c \in Clients : Accept(p, c) \/ SlotReady(p, c)

Spec == Init /\ [][Next]_vars

\* The event loop runs, and so does a process on its way to or from it.
FairSpec ==
    /\ Spec
    /\ \A p \in Procs : /\ WF_vars(RunStep(p))
                        /\ \A c \in Clients : /\ WF_vars(Accept(p, c))
                                              /\ WF_vars(SlotReady(p, c))
    /\ \A c \in Clients : WF_vars(ReadReply(c))

-----------------------------------------------------------------------------
\* The variables have their types, and a connection leads to a process
\* until its client has read the reply.
TypeOK ==
    /\ flags \subseteq Flag /\ orderly \in BOOLEAN
    /\ pc \in [Procs -> {"absent", "unlink", "bind", "listen", "loop", "remove", "delete"}]
    /\ listens \in [Procs -> BOOLEAN]
    /\ started \in [Procs -> BOOLEAN]
    /\ quit \in [Procs -> BOOLEAN]
    /\ path \in Procs \cup {"none", "stale"}
    /\ at \in [Clients -> {"idle", "wait", "spawn"}]
    /\ conn \in [Clients -> Conn \cup {NoConn}]
    /\ \A c \in Clients : at[c] = "wait" <=> conn[c] # NoConn

(* The path tells whether the service runs ("Returns true if the service   *)
(* is running; otherwise returns false", isRunning(), qtservice.cpp:260):  *)
(* as long as no start has overlapped with another one or with an exit, a  *)
(* service that runs can be reached, whatever has crashed, so that start() *)
(* does not start it again; and always, a service that exits leaves no     *)
(* path behind.  Once starts overlap, a second process takes the path from *)
(* one that runs on, or runs without having bound it (see StartTakesOver). *)
PathFollowsService ==
    /\ orderly => \A p \in Procs : pc[p] = "loop" => Reaches(p)
    /\ \A p \in Procs : path = p => pc[p] \in {"listen", "loop", "remove"}

(* What starts that overlap, exits and crashes leave behind (a path that   *)
(* leads nowhere, the path of another process, processes that run and      *)
(* cannot be reached) is made good by the next start: a process that       *)
(* reaches setPath() becomes reachable, unless it crashes or yet another   *)
(* process is between its spawn and its event loop, or on its way out, in  *)
(* the meantime.                                                           *)
StartTakesOver ==
    \A p \in Procs : pc[p] = "unlink" ~>
        \/ Reaches(p) \/ pc[p] = "absent"
        \/ \E q \in Procs \ {p} : pc[q] \notin {"absent", "loop"}

(* sendCmd() returns, also if the service exits or crashes meanwhile (it   *)
(* waits without a timeout), or loses its path to another process; and a   *)
(* service that has been told to stop exits.                               *)
CommandsComplete ==
    /\ \A c \in Clients : at[c] = "wait" ~> at[c] # "wait"
    /\ \A p \in Procs : quit[p] ~> pc[p] = "absent"
=============================================================================
