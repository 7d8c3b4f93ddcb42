---------------------------- MODULE PeerElection ----------------------------
(***************************************************************************)
(* How the processes of one application agree on the running instance      *)
(* (QtLocalPeer, on Unix): whoever obtains the write lock of the lock file *)
(* takes the role and listens on a socket path that the others connect to. *)
(* The lock is an AdvisoryLock with one object per process.  The path is   *)
(* an entry of the file system that QLocalServer binds and unlinks, and    *)
(* that a process which crashes leaves behind.                             *)
(*                                                                         *)
(* It shares no name with PeerMessage, so that a module can extend both.   *)
(***************************************************************************)
CONSTANTS
    Procs,        \* the processes that use the application's identifier
    OpenFails,    \* may the lock file fail to open?
    ListenErrors  \* the processes whose listen() may fail with an error other
                  \* than "in use"

ASSUME ElectionAssumption ==
    /\ OpenFails \in BOOLEAN /\ ListenErrors \subseteq Procs
    /\ Procs \cap {"none", "stale"} = {}

VARIABLES
    role,       \* role[p]: "absent", "up" (no role), the steps of isClient() with
                \* the lock, "running" (has the role), or "closing"
    opened,     \* opened[p]: is p's lockFile open?
    held,       \* held[p]: the mode of p's lockFile
    listening,  \* listening[p]: p's QLocalServer is listening
    answer,     \* answer[p]: has isClient() of p last answered TRUE?
    path        \* whose socket the path leads to: a listening process,
                \* "stale" (nobody's any more), or "none" (no such path)

electionVars == <<role, opened, held, listening, answer, path>>

Lock == INSTANCE AdvisoryLock WITH Objects <- Procs

Role == {"listen", "remove", "relisten", "running"}

ElectionTypeOK ==
    /\ role \in [Procs -> {"absent", "up", "closing"} \cup Role]
    /\ opened \in [Procs -> BOOLEAN]
    /\ held \in [Procs -> {"NoLock", "WriteLock"}]
    /\ listening \in [Procs -> BOOLEAN]
    /\ answer \in [Procs -> BOOLEAN]
    /\ path \in Procs \cup {"none", "stale"}

ElectionInit ==
    /\ role = [p \in Procs |-> "absent"]
    /\ opened = [p \in Procs |-> FALSE]
    /\ Lock!Init
    /\ listening = [p \in Procs |-> FALSE]
    /\ answer = [p \in Procs |-> FALSE]
    /\ path = "none"

GoOn(p, l) == role' = [role EXCEPT ![p] = l]

-----------------------------------------------------------------------------
(* QtLocalPeer(): the lock file is opened, the outcome is not looked at.   *)
Construct(p) ==
    /\ role[p] = "absent"
    /\ GoOn(p, "up")
    /\ \E b \in BOOLEAN : /\ ~b => OpenFails
                          /\ opened' = [opened EXCEPT ![p] = b]
    /\ UNCHANGED <<held, listening, answer, path>>

\* Mutant: the lock is taken in the wrong mode.
TakeRoleShared(p) ==
    /\ role[p] = "up" /\ opened[p]
    /\ Lock!Acquire(p, "ReadLock")
    /\ GoOn(p, "listen")
    /\ answer' = [answer EXCEPT ![p] = FALSE]
    /\ UNCHANGED <<opened, listening, path>>

\* Mutant: the result of lock() is not looked at.
TakeRoleUnchecked(p) ==
    /\ role[p] = "up" /\ opened[p]
    /\ Lock!Acquire(p, "WriteLock") \/ UNCHANGED held
    /\ GoOn(p, "listen")
    /\ answer' = [answer EXCEPT ![p] = FALSE]
    /\ UNCHANGED <<opened, listening, path>>

\* isClient() obtains the write lock and with it the role.
TakeRole(p) ==
    /\ role[p] = "up" /\ opened[p]
    /\ Lock!Acquire(p, "WriteLock")
    /\ GoOn(p, "listen")
    /\ answer' = [answer EXCEPT ![p] = FALSE]
    /\ UNCHANGED <<opened, listening, path>>

\* isClient() does not obtain the lock and answers that another instance
\* has the role.
IsClient(p) ==
    /\ role[p] = "up"
    /\ \/ ~opened[p]
       \/ \E q \in Procs \ {p} : ~Lock!Compatible("WriteLock", held[q])
    /\ answer' = [answer EXCEPT ![p] = TRUE]
    /\ UNCHANGED <<role, opened, held, listening, path>>

\* QLocalServer::listen() binds the path, if there is none.
Bind(p) ==
    /\ path = "none"
    /\ path' = p
    /\ listening' = [listening EXCEPT ![p] = TRUE]

\* Mutant: without the workaround.
ListenOnce(p) ==
    /\ role[p] = "listen"
    /\ \/ Bind(p)
       \/ path # "none" /\ UNCHANGED <<listening, path>>
    /\ GoOn(p, "running")
    /\ UNCHANGED <<opened, held, answer>>

\* The first listen() of isClient().
Listen(p) ==
    /\ role[p] = "listen"
    /\ \/ Bind(p) /\ GoOn(p, "running")
       \/ /\ path # "none" /\ GoOn(p, "remove")
          /\ UNCHANGED <<listening, path>>
       \/ /\ p \in ListenErrors /\ GoOn(p, "running")
          /\ UNCHANGED <<listening, path>>
    /\ UNCHANGED <<opened, held, answer>>

\* The workaround for a socket left behind: whoever's it is, the path is
\* removed,
RemovePath(p) ==
    /\ role[p] = "remove"
    /\ path' = "none"
    /\ GoOn(p, "relisten")
    /\ UNCHANGED <<opened, held, listening, answer>>

\* and listen() is called again.  An instance that fails to listen keeps the
\* role, and as it has the lock isClient() does not try again.
Relisten(p) ==
    /\ role[p] = "relisten"
    /\ \/ Bind(p)
       \/ /\ path # "none" \/ p \in ListenErrors
          /\ UNCHANGED <<listening, path>>
    /\ GoOn(p, "running")
    /\ UNCHANGED <<opened, held, answer>>

\* ~QtLocalPeer() destroys its members first: lockFile gives up the lock,
\* while the server of a running instance still listens,
Unlock(p) ==
    /\ role[p] \in {"up", "running"}
    /\ Lock!Release({p})
    /\ answer' = [answer EXCEPT ![p] = FALSE]
    /\ opened' = [opened EXCEPT ![p] = FALSE]
    /\ GoOn(p, "closing")
    /\ UNCHANGED <<listening, path>>

\* and then ~QObject() destroys its children: a listening QLocalServer
\* closes its socket and unlinks the path.
CloseServer(p) ==
    /\ role[p] = "closing"
    /\ path' = IF listening[p] THEN "none" ELSE path
    /\ listening' = [listening EXCEPT ![p] = FALSE]
    /\ GoOn(p, "absent")
    /\ UNCHANGED <<opened, held, answer>>

\* A process crashes: the kernel closes its files, the path stays.
Crash(p) ==
    /\ role[p] # "absent"
    /\ Lock!Release({p})
    /\ answer' = [answer EXCEPT ![p] = FALSE]
    /\ opened' = [opened EXCEPT ![p] = FALSE]
    /\ path' = IF path = p THEN "stale" ELSE path
    /\ listening' = [listening EXCEPT ![p] = FALSE]
    /\ GoOn(p, "absent")

RoleStep(p) == Listen(p) \/ RemovePath(p) \/ Relisten(p)

ElectionNext == \E p \in Procs :
    \/ Construct(p) \/ TakeRole(p) \/ IsClient(p) \/ RoleStep(p)
    \/ Unlock(p) \/ CloseServer(p) \/ Crash(p)

\* A process that is inside isClient() or a destructor goes on.
ElectionSpec == ElectionInit /\ [][ElectionNext]_electionVars
FairElection ==
    /\ ElectionSpec
    /\ \A p \in Procs : WF_electionVars(RoleStep(p)) /\ WF_electionVars(CloseServer(p))

-----------------------------------------------------------------------------
(* Never two instances with the role: the process that believes it is the  *)
(* running instance has the lock.                                          *)
OneRunningInstance ==
    /\ \A p \in Procs : role[p] \in Role => held[p] = "WriteLock"
    /\ \A p, q \in Procs : role[p] \in Role /\ role[q] \in Role => p = q

(* A message goes to the running instance or fails: while the server of    *)
(* the running instance listens, the path leads to no other process, also  *)
(* when earlier instances are still on their way out, and to no socket     *)
(* that nobody listens on.                                                 *)
NobodyElseReached ==
    /\ \A p \in Procs : path = p => listening[p]
    /\ \A p \in Procs : role[p] = "running" /\ listening[p] => path \in {p, "none"}

(* The running instance that the path leads to is not cut off while it     *)
(* runs, whatever other processes start, crash or fail to do meanwhile:    *)
(* not by their workaround for stale sockets, and by one thing only, an    *)
(* earlier running instance that has given up its lock and closes its      *)
(* server after this one has taken over (see RunningIsReachable).          *)
CutOffByExitOnly ==
    [][\A p \in Procs :
          role[p] = "running" /\ path = p /\ role'[p] = "running" /\ path' # p
              => \E q \in Procs : listening[q] /\ CloseServer(q)]_electionVars

(* What the documentation says, and what an exit breaks: the running       *)
(* instance can be reached if its server listens, so a client that cannot  *)
(* connect has found it frozen ("If isRunning() returns true, but          *)
(* sendMessage() fails, that is an indication that the running instance is *)
(* frozen", qtsingleapplication.cpp:88).                                   *)
RunningIsReachable ==
    \A p \in Procs : role[p] = "running" /\ listening[p] => path = p

(* Whoever takes the role ends up reachable if its listen() finds nothing  *)
(* worse than a path in use, also after crashes that left a socket behind  *)
(* and while the server of an earlier instance still listens.              *)
RoleBecomesReachable ==
    \A p \in Procs \ ListenErrors : role[p] = "listen" ~> path = p \/ role[p] = "absent"
=============================================================================
