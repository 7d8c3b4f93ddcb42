------------------------------ MODULE ServiceWin ------------------------------
(***************************************************************************)
(* A QtService on Windows: one service process with three threads.  The    *)
(* main thread runs QtServiceBasePrivate::start() and the event loop; the  *)
(* thread of the service control manager (SCM) that runs serviceMain()     *)
(* ("svc"), and the HandlerThread that receives the controls ("disp"),     *)
(* both call handler(), which posts an event to the main thread and waits  *)
(* for it on a condition variable.                                         *)
(***************************************************************************)
EXTENDS Naturals, Sequences

VARIABLES
    flags,     \* the controls that the service's flags make it accept
    main,      \* where the main thread is in start(); "gone" if it gave up
    thread,    \* where the two other threads are
    code,      \* the code that a thread is in handler() with, or "none"
    mutex,     \* who holds the mutex, or "none"
    waiting,   \* the threads that wait on the condition
    sem1,      \* startSemaphore
    sem2,      \* startSemaphore2
    success,   \* HandlerThread::success
    queue,     \* the events posted to controllerHandler
    started,   \* start() of the service has been called
    paused,    \* pause() has, and resume() has not since
    quit,      \* quit() has, by handleCustomEvent() ("stop") or the
               \* application itself ("self")
    status,    \* status.dwCurrentState
    scm,       \* the state of the service that the SCM knows
    shut       \* the system shuts down and the SCM sends no more controls

vars == <<flags, main, thread, code, mutex, waiting, sem1, sem2, success,
          queue, started, paused, quit, status, scm, shut>>
sync == <<sem1, sem2, success>>
app == <<started, paused, quit>>

Thread == {"svc", "disp"}
State == {"START_PENDING", "RUNNING", "PAUSE_PENDING", "PAUSED",
          "CONTINUE_PENDING", "STOP_PENDING", "STOPPED"}
Control == {"STOP", "PAUSE", "CONTINUE", "INTERROGATE", "SHUTDOWN", "USER"}
Code == Control \cup {"STARTUP"}

\* The controls that serviceFlags() makes the SCM send.
Accepted(suspend, stop, shutdown) ==
    {"INTERROGATE", "USER"}
        \cup (IF suspend THEN {"PAUSE", "CONTINUE"} ELSE {})
        \cup (IF stop THEN {"STOP"} ELSE {})
        \cup (IF shutdown THEN {"SHUTDOWN"} ELSE {})

\* sysInit(), and the HandlerThread has been started.
Init ==
    /\ \E suspend, stop, shutdown \in BOOLEAN :
          flags = Accepted(suspend, stop, shutdown)
    /\ main = "wait"
    /\ thread = [t \in Thread |-> IF t = "svc" THEN "none" ELSE "connect"]
    /\ code = [t \in Thread |-> "none"]
    /\ mutex = "none" /\ waiting = {}
    /\ sem1 = 0 /\ sem2 = 0 /\ success = TRUE
    /\ queue = <<>>
    /\ started = FALSE /\ paused = FALSE /\ quit = "no"
    /\ status = "STOPPED" /\ scm = "START_PENDING"
    /\ shut = FALSE

Goto(t, l) == thread' = [thread EXCEPT ![t] = l]
Alive == main \notin {"end", "gone"}

-----------------------------------------------------------------------------
(* The HandlerThread, and the SCM behind its dispatcher.                   *)

\* StartServiceCtrlDispatcher() fails, as in a process that was started from
\* a console.
DispatcherFails ==
    /\ Alive /\ thread["disp"] = "connect"
    /\ Goto("disp", "finished")
    /\ success' = FALSE
    /\ sem1' = sem1 + 1
    /\ UNCHANGED <<flags, main, code, mutex, waiting, sem2, queue, app, status, scm, shut>>

\* It connects, and the SCM runs serviceMain() in a new thread.
Connect ==
    /\ Alive /\ thread["disp"] = "connect"
    /\ thread' = [thread EXCEPT !["svc"] = "begin", !["disp"] = "idle"]
    /\ UNCHANGED <<flags, main, code, mutex, waiting, sync, queue, app, status, scm, shut>>

\* The SCM sends a control; it sends them one at a time, and none to a
\* service that starts, stops or has stopped.
Deliver(c) ==
    /\ Alive /\ thread["disp"] = "idle"
    /\ c \in flags /\ ~shut
    /\ scm \notin {"START_PENDING", "STOP_PENDING", "STOPPED"}
    /\ Goto("disp", "enter")
    /\ code' = [code EXCEPT !["disp"] = c]
    /\ shut' = (c = "SHUTDOWN")
    /\ UNCHANGED <<flags, main, mutex, waiting, sync, queue, app, status, scm>>

\* The dispatcher returns when the service has stopped.
DispatcherReturns ==
    /\ Alive /\ thread["disp"] = "idle" /\ scm = "STOPPED"
    /\ Goto("disp", "finished")
    /\ UNCHANGED <<flags, main, code, mutex, waiting, sync, queue, app, status, scm, shut>>

-----------------------------------------------------------------------------
(* serviceMain()                                                           *)

BeginServiceMain ==
    /\ Alive /\ thread["svc"] = "begin"
    /\ sem1' = sem1 + 1
    /\ Goto("svc", "sem2")
    /\ UNCHANGED <<flags, main, code, mutex, waiting, sem2, success, queue, app, status, scm, shut>>

\* The application exists: handler(QTSERVICE_STARTUP) is called.
Register ==
    /\ Alive /\ thread["svc"] = "sem2" /\ sem2 > 0
    /\ sem2' = sem2 - 1
    /\ Goto("svc", "enter")
    /\ code' = [code EXCEPT !["svc"] = "STARTUP"]
    /\ UNCHANGED <<flags, main, mutex, waiting, sem1, success, queue, app, status, scm, shut>>

-----------------------------------------------------------------------------
(* handler(), in both threads                                              *)

SetStatus(s) == status' = s /\ scm' = s

\* Mutant: STARTUP reports that the service runs before it does.
PendingEarly(c) == CASE c = "STARTUP"  -> "RUNNING"
                     [] c = "STOP"     -> "STOP_PENDING"
                     [] c = "PAUSE"    -> "PAUSE_PENDING"
                     [] c = "CONTINUE" -> "CONTINUE_PENDING"
                     [] OTHER          -> "none"

\* The states reported before the event is posted, and after it has been
\* handled ("none": none is).
Pending(c) == CASE c = "STARTUP"  -> "START_PENDING"
                [] c = "STOP"     -> "STOP_PENDING"
                [] c = "PAUSE"    -> "PAUSE_PENDING"
                [] c = "CONTINUE" -> "CONTINUE_PENDING"
                [] OTHER          -> "none"

\* Mutant: STOP reports a state after the event, as the others do.
FinishedStop(c) == CASE c \in {"STARTUP", "CONTINUE"} -> "RUNNING"
                     [] c = "PAUSE"                   -> "PAUSED"
                     [] c = "STOP"                    -> "STOP_PENDING"
                     [] OTHER                         -> "none"

Finished(c) == CASE c \in {"STARTUP", "CONTINUE"} -> "RUNNING"
                 [] c = "PAUSE"                   -> "PAUSED"
                 [] OTHER                         -> "none"

Tell(s) == IF s = "none" THEN UNCHANGED <<status, scm>> ELSE SetStatus(s)

\* With the mutex: the pending state is reported and the event posted, a
\* STOP for a SHUTDOWN.  An INTERROGATE is answered with the status alone.
Enter(t) ==
    /\ Alive /\ thread[t] = "enter" /\ mutex = "none"
    /\ Tell(Pending(code[t]))
    /\ IF code[t] = "INTERROGATE"
       THEN Goto(t, "report") /\ UNCHANGED <<queue, mutex>>
       ELSE /\ queue' = Append(queue, IF code[t] = "SHUTDOWN" THEN "STOP" ELSE code[t])
            /\ mutex' = t /\ Goto(t, "posted")
    /\ UNCHANGED <<flags, main, code, waiting, sync, app, shut>>

\* Mutant: the mutex is kept during the wait.
WaitKeeps(t) ==
    /\ Alive /\ thread[t] = "posted"
    /\ waiting' = waiting \cup {t}
    /\ Goto(t, "waiting")
    /\ UNCHANGED <<flags, main, code, mutex, sync, queue, app, status, scm, shut>>

\* wait() gives up the mutex.
Wait(t) ==
    /\ Alive /\ thread[t] = "posted"
    /\ waiting' = waiting \cup {t}
    /\ mutex' = "none"
    /\ Goto(t, "waiting")
    /\ UNCHANGED <<flags, main, code, sync, queue, app, status, scm, shut>>

\* wait() returns with the mutex; the new state is reported.
Awake(t) ==
    /\ Alive /\ thread[t] = "waiting" /\ t \notin waiting /\ mutex = "none"
    /\ Tell(Finished(code[t]))
    /\ Goto(t, "report")
    /\ UNCHANGED <<flags, main, code, mutex, waiting, sync, queue, app, shut>>

\* Without the mutex, the status is reported again.
Report(t) ==
    /\ Alive /\ thread[t] = "report"
    /\ scm' = IF status # "STOPPED" THEN status ELSE scm
    /\ code' = [code EXCEPT ![t] = "none"]
    /\ Goto(t, IF t = "svc" THEN "finished" ELSE "idle")
    /\ UNCHANGED <<flags, main, mutex, waiting, sync, queue, app, status, shut>>

-----------------------------------------------------------------------------
(* start() and the event loop, in the main thread                          *)

\* The arguments have come, or the dispatcher has failed: start() returns,
\* and asks the SCM to start the service if this is a console.
GotArgs ==
    /\ main = "wait" /\ sem1 > 0
    /\ sem1' = sem1 - 1
    /\ main' = IF success THEN "create" ELSE "gone"
    /\ UNCHANGED <<flags, thread, code, mutex, waiting, sem2, success, queue, app, status, scm, shut>>

\* They have not come for 20 seconds.
GiveUp ==
    /\ main = "wait"
    /\ main' = "gone"
    /\ UNCHANGED <<flags, thread, code, mutex, waiting, sync, queue, app, status, scm, shut>>

\* Mutant: serviceMain() is not let go on.
CreateNoRelease ==
    /\ main = "create"
    /\ main' = "loop"
    /\ UNCHANGED <<flags, thread, code, mutex, waiting, sync, queue, app, status, scm, shut>>

\* createApplication() has made no application: start() returns.
CreateFails ==
    /\ main = "create"
    /\ main' = "gone"
    /\ UNCHANGED <<flags, thread, code, mutex, waiting, sync, queue, app, status, scm, shut>>

\* The application and the controllerHandler are created.
Create ==
    /\ main = "create"
    /\ sem2' = sem2 + 1
    /\ main' = "loop"
    /\ UNCHANGED <<flags, thread, code, mutex, waiting, sem1, success, queue, app, status, scm, shut>>

\* Mutant: CONTINUE is handled as PAUSE is.
HandleEventPauses ==
    /\ main = "loop" /\ queue # <<>>
    /\ LET c == Head(queue) IN
          /\ started' = (started \/ c = "STARTUP")
          /\ quit' = IF c = "STOP" /\ quit = "no" THEN "stop" ELSE quit
          /\ paused' = (paused \/ c \in {"PAUSE", "CONTINUE"})
    /\ queue' = Tail(queue)
    /\ main' = "wake"
    /\ UNCHANGED <<flags, thread, code, mutex, waiting, sync, status, scm, shut>>

\* Mutant: the service is stopped, the application goes on.
HandleEventNoQuit ==
    /\ main = "loop" /\ queue # <<>>
    /\ LET c == Head(queue) IN
          /\ started' = (started \/ c = "STARTUP")
          /\ paused' = ((paused \/ c = "PAUSE") /\ c # "CONTINUE")
    /\ queue' = Tail(queue)
    /\ main' = "wake"
    /\ UNCHANGED <<flags, quit, thread, code, mutex, waiting, sync, status, scm, shut>>

\* handleCustomEvent() calls the service,
HandleEvent ==
    /\ main = "loop" /\ queue # <<>>
    /\ LET c == Head(queue) IN
          /\ started' = (started \/ c = "STARTUP")
          /\ quit' = IF c = "STOP" /\ quit = "no" THEN "stop" ELSE quit
          /\ paused' = ((paused \/ c = "PAUSE") /\ c # "CONTINUE")
    /\ queue' = Tail(queue)
    /\ main' = "wake"
    /\ UNCHANGED <<flags, thread, code, mutex, waiting, sync, status, scm, shut>>

\* Mutant: the wake-up does not take the mutex.
WakeAllUnlocked ==
    /\ main = "wake"
    /\ waiting' = {}
    /\ main' = "loop"
    /\ UNCHANGED <<flags, thread, code, mutex, sync, queue, app, status, scm, shut>>

\* and with the mutex wakes the thread that waits for it.
WakeAll ==
    /\ main = "wake" /\ mutex = "none"
    /\ waiting' = {}
    /\ main' = "loop"
    /\ UNCHANGED <<flags, thread, code, mutex, sync, queue, app, status, scm, shut>>

\* The application quits by itself, as examples/server does in start() when
\* it cannot listen.
AppQuits ==
    /\ main \in {"loop", "wake"} /\ started /\ quit = "no"
    /\ quit' = "self"
    /\ UNCHANGED <<flags, main, thread, code, mutex, waiting, sync, queue, started, paused, status, scm, shut>>

\* executeApplication() returns; the status is set, without the mutex,
ExecReturns ==
    /\ main = "loop" /\ quit # "no"
    /\ status' = "STOPPED"
    /\ main' = "tell"
    /\ UNCHANGED <<flags, thread, code, mutex, waiting, sync, queue, app, scm, shut>>

\* and reported.
TellStopped ==
    /\ main = "tell"
    /\ scm' = status
    /\ main' = "join"
    /\ UNCHANGED <<flags, thread, code, mutex, waiting, sync, queue, app, status, shut>>

\* The HandlerThread has finished, or has not within a second: everything is
\* deleted and the process ends.
Cleanup ==
    /\ main = "join"
    /\ main' = "end"
    /\ UNCHANGED <<flags, thread, code, mutex, waiting, sync, queue, app, status, scm, shut>>

Ended == ~Alive /\ UNCHANGED vars

-----------------------------------------------------------------------------
HandlerStep(t) == Enter(t) \/ Wait(t) \/ Awake(t) \/ Report(t)
MainStep ==
    \/ GotArgs \/ Create \/ HandleEvent \/ WakeAll \/ ExecReturns
    \/ TellStopped \/ Cleanup

Next ==
    \/ DispatcherFails \/ Connect \/ DispatcherReturns
    \/ \E c \in Control : Deliver(c)
    \/ BeginServiceMain \/ Register
    \/ \E t \in Thread : HandlerStep(t)
    \/ MainStep \/ GiveUp \/ CreateFails \/ AppQuits \/ Ended

Spec == Init /\ [][Next]_vars

\* The threads run; how long the SCM and the HandlerThread take, and whether
\* there are controls, is open.
FairSpec ==
    /\ Spec
    /\ WF_vars(BeginServiceMain) /\ WF_vars(Register)
    /\ WF_vars(MainStep)
    /\ \A t \in Thread : WF_vars(HandlerStep(t))

-----------------------------------------------------------------------------
\* The variables have their types; who has the mutex is about to wait.
TypeOK ==
    /\ flags \subseteq Control
    /\ main \in {"wait", "create", "loop", "wake", "tell", "join", "end", "gone"}
    /\ thread \in [Thread -> {"none", "begin", "sem2", "connect", "idle", "enter",
                              "posted", "waiting", "report", "finished"}]
    /\ code \in [Thread -> Code \cup {"none"}]
    /\ mutex \in Thread \cup {"none"}
    /\ mutex # "none" => thread[mutex] = "posted"
    /\ waiting \subseteq {t \in Thread : thread[t] = "waiting"}
    /\ sem1 \in 0..1 /\ sem2 \in 0..1 /\ success \in BOOLEAN
    /\ queue \in Seq(Code) /\ Len(queue) <= 2
    /\ {started, paused, shut} \subseteq BOOLEAN /\ quit \in {"no", "stop", "self"}
    /\ {status, scm} \subseteq State

(* wakeAll() never wakes a thread whose event has not been handled: no two *)
(* threads wait at a time.                                                 *)
OneWaiter == \A t, u \in waiting : t = u

(* What the SCM is told is what the service does: it runs only when        *)
(* start() has returned, and is paused only when pause() has; and of the   *)
(* threads that report it one waits at a time.                             *)
StatusFollowsService ==
    /\ TypeOK /\ OneWaiter
    /\ scm \in {"RUNNING", "PAUSED"} => started
    /\ scm = "PAUSED" => paused
    /\ scm = "RUNNING" => ~paused

(* A service that has been reported as stopped is not reported as anything *)
(* else, however it ended: "status will be reported as stopped by start()  *)
(* when qapp::exec returns" (qtservice_win.cpp:620, 644).  This is too     *)
(* much: one whose application quits by itself in its start() may be       *)
(* reported as RUNNING after that.                                         *)
StoppedIsFinal == [][(main \in {"join", "end"}) => (scm' = scm)]_vars

(* It holds for a service that ends because it was told to stop.           *)
StopIsFinal ==
    [][(main \in {"join", "end"} /\ quit = "stop") => (scm = "STOPPED" /\ scm' = scm)]_vars

(* handler() returns, although it waits without a timeout; a STOP or       *)
(* SHUTDOWN ends the service; and a service that the SCM starts calls      *)
(* start(), unless it gives up.                                            *)
RequestsComplete ==
    /\ \A t \in Thread : thread[t] = "enter" ~> code[t] = "none" \/ ~Alive
    /\ code["disp"] \in {"STOP", "SHUTDOWN"} ~> main = "end"
    /\ thread["svc"] = "begin" ~> started \/ ~Alive
=============================================================================
