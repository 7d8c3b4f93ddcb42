-------------------------- MODULE ServiceWin_proofs --------------------------
(***************************************************************************)
(* What a service on Windows reports to the SCM, for every combination of  *)
(* its flags and every order of the steps of its threads.                  *)
(***************************************************************************)
EXTENDS ServiceWin, TLAPS

USE DEF Goto, sync, app, Thread

Event(c) == IF c = "SHUTDOWN" THEN "STOP" ELSE c

\* A thread whose event has not been answered by wakeAll() yet, and one for
\* which that has happened.
Posted(t) == thread[t] = "posted" \/ t \in waiting
Woken(t) == thread[t] = "waiting" /\ t \notin waiting

\* serviceMain() has not been told that the service was started.
Starting == thread["svc"] \in {"none", "begin", "sem2", "enter", "posted", "waiting"}

\* The code of the calls of handler(), and what SHUTDOWN has done.
CodeInv ==
    /\ thread["svc"] \in {"enter", "posted", "waiting", "report"} <=> code["svc"] = "STARTUP"
    /\ thread["disp"] \in {"enter", "posted", "waiting", "report"} <=> code["disp"] \in Control
    /\ \A t \in Thread : code[t] # "STARTUP" => code[t] \in Control \cup {"none"}
    /\ code["disp"] # "STARTUP"
    /\ code["disp"] = "SHUTDOWN" => shut

\* Who has posted an event has the mutex until it waits.
MutexInv == \A t \in Thread : thread[t] = "posted" <=> mutex = t

\* Each semaphore is released once.
SemInv ==
    /\ thread["disp"] = "connect" => thread["svc"] = "none" /\ sem1 = 0
    /\ thread["svc"] = "begin" => sem1 = 0
    /\ main \in {"wait", "create"} => sem2 = 0

\* As long as serviceMain() starts the service the SCM sends no control, so
\* that the two threads are never in handler() together until it is awake.
StartingInv ==
    /\ Starting => /\ {status, scm} \subseteq {"START_PENDING", "STOPPED"}
                   /\ thread["disp"] \in {"connect", "idle", "finished"}
                   /\ ~paused
    /\ ~Starting => started /\ thread["disp"] # "connect"

\* There is an event, posted by the thread that waits for it, until
\* handleCustomEvent() has been called for it.
QueueInv ==
    /\ main = "wake" => queue = <<>> /\ \E t \in Thread : Posted(t)
    /\ (\A t \in Thread : ~Posted(t)) => queue = <<>>
    /\ \A t \in Thread : Posted(t) /\ main # "wake" => queue = <<Event(code[t])>>

\* What has been called when a thread goes on.
HandledInv ==
    \A t \in Thread : (Posted(t) /\ main = "wake") \/ Woken(t) =>
        /\ started
        /\ code[t] = "PAUSE" => paused
        /\ code[t] \in {"STARTUP", "CONTINUE"} => ~paused

\* While the main thread has still to handle the event, the pending state
\* is what has been reported.
PendingInv ==
    thread["disp"] \in {"posted", "waiting"} /\ main \notin {"tell", "join", "end", "gone"} =>
        /\ code["disp"] \in {"PAUSE", "CONTINUE"} /\ Posted("disp") =>
               {status, scm} \subseteq {"PAUSE_PENDING", "CONTINUE_PENDING"}
        /\ code["disp"] = "STOP" => {status, scm} \subseteq {"STOP_PENDING"}

\* The states of the service, reported or about to be.
StatusInv ==
    \A s \in {status, scm} :
        /\ s \in {"RUNNING", "PAUSED"} => started
        /\ s = "PAUSED" => paused
        /\ s = "RUNNING" => ~paused

\* After a stop nothing is left that could report another state.
QuitInv ==
    quit = "stop" =>
        /\ ~Starting
        /\ thread["disp"] # "enter"
        /\ thread["disp"] \in {"posted", "waiting", "report"} => code["disp"] \in {"STOP", "SHUTDOWN"}
        /\ shut \/ {status, scm} \subseteq {"STOP_PENDING", "STOPPED"}
        /\ main \in {"tell", "join", "end"} => status = "STOPPED"
        /\ main \in {"join", "end"} => scm = "STOPPED"

IInv ==
    /\ TypeOK /\ CodeInv /\ MutexInv /\ SemInv /\ StartingInv
    /\ QueueInv /\ HandledInv /\ PendingInv /\ StatusInv /\ QuitInv

-----------------------------------------------------------------------------
\* TypeOK in parts that an action leaves alone or not.
ThreadType ==
    /\ thread \in [Thread -> {"none", "begin", "sem2", "connect", "idle", "enter",
                              "posted", "waiting", "report", "finished"}]
    /\ code \in [Thread -> Code \cup {"none"}]
LockType ==
    /\ mutex \in Thread \cup {"none"}
    /\ mutex # "none" => thread[mutex] = "posted"
    /\ waiting \subseteq {t \in Thread : thread[t] = "waiting"}
SemType == sem1 \in 0..1 /\ sem2 \in 0..1 /\ success \in BOOLEAN
QueueType == queue \in Seq(Code) /\ Len(queue) <= 2
AppType ==
    /\ flags \subseteq Control
    /\ main \in {"wait", "create", "loop", "wake", "tell", "join", "end", "gone"}
    /\ {started, paused, shut} \subseteq BOOLEAN /\ quit \in {"no", "stop", "self"}
StatusType == {status, scm} \subseteq State

LEMMA TypeParts ==
    TypeOK <=> ThreadType /\ LockType /\ SemType /\ QueueType /\ AppType /\ StatusType
BY DEF TypeOK, ThreadType, LockType, SemType, QueueType, AppType, StatusType

LEMMA TypePartsNext ==
    TypeOK' <=> ThreadType' /\ LockType' /\ SemType' /\ QueueType' /\ AppType' /\ StatusType'
BY DEF TypeOK, ThreadType, LockType, SemType, QueueType, AppType, StatusType

LEMMA IInvInit == Init => IInv
<1> SUFFICES ASSUME Init PROVE IInv
  OBVIOUS
<1> USE DEF Init
<1>1. ThreadType /\ LockType /\ SemType
  BY DEF ThreadType, LockType, SemType
<1>2. QueueType /\ StatusType
  BY DEF QueueType, StatusType, State
<1>3. AppType
  BY DEF AppType, Accepted, Control
<1>4. CodeInv /\ MutexInv /\ SemInv /\ StartingInv
  BY DEF CodeInv, MutexInv, SemInv, StartingInv, Starting, Control
<1>5. QueueInv /\ HandledInv /\ PendingInv /\ StatusInv /\ QuitInv
  BY DEF QueueInv, HandledInv, PendingInv, StatusInv, QuitInv, Posted, Woken
<1> QED
  BY <1>1, <1>2, <1>3, <1>4, <1>5, TypeParts DEF IInv

-----------------------------------------------------------------------------
\* The queue is empty before a thread posts, and after its event is handled.
LEMMA PostToEmpty ==
    ASSUME NEW e \in Code
    PROVE  Append(<<>>, e) = <<e>> /\ Len(<<e>>) = 1 /\ <<e>> \in Seq(Code)
OBVIOUS

LEMMA HandleLast ==
    ASSUME NEW e
    PROVE  Head(<<e>>) = e /\ Tail(<<e>>) = <<>> /\ <<e>> # <<>>
OBVIOUS

LEMMA EmptyQueue == <<>> \in Seq(Code) /\ Len(<<>>) = 0
OBVIOUS

LEMMA EventIsCode == ASSUME NEW c \in Code PROVE Event(c) \in Code
BY DEF Event, Code, Control

-----------------------------------------------------------------------------
\* The actions of the SCM and of serviceMain() before handler().
LEMMA ScmTypes ==
    ASSUME IInv,
           \/ DispatcherFails \/ Connect \/ DispatcherReturns
           \/ BeginServiceMain \/ Register
           \/ \E c \in Control : Deliver(c)
    PROVE  TypeOK'
<1>0. ThreadType /\ LockType /\ SemType /\ QueueType /\ AppType /\ StatusType /\ SemInv
  BY TypeParts DEF IInv
<1>1. QueueType' /\ StatusType'
  BY <1>0 DEF DispatcherFails, Connect, DispatcherReturns, BeginServiceMain, Register, Deliver,
              QueueType, StatusType
<1>2. AppType'
  BY <1>0 DEF DispatcherFails, Connect, DispatcherReturns, BeginServiceMain, Register, Deliver,
              AppType
<1>3. ThreadType'
  BY <1>0 DEF DispatcherFails, Connect, DispatcherReturns, BeginServiceMain, Register, Deliver,
              ThreadType, Code
<1>4. LockType'
  <2>1. UNCHANGED <<mutex, waiting>> /\ \A t \in Thread :
            thread[t] \in {"posted", "waiting"} => thread'[t] = thread[t]
    BY <1>0 DEF DispatcherFails, Connect, DispatcherReturns, BeginServiceMain, Register, Deliver,
                ThreadType, SemInv
  <2> QED
    BY <1>0, <2>1 DEF LockType
<1>5. SemType'
  <2>1. CASE DispatcherFails
    <3>1. sem1' \in 0..1 /\ sem2' \in 0..1
      BY <1>0, <2>1 DEF DispatcherFails, SemType, SemInv
    <3>2. success' \in BOOLEAN
      BY <2>1 DEF DispatcherFails
    <3> QED
      BY <3>1, <3>2 DEF SemType
  <2>2. CASE BeginServiceMain
    BY <1>0, <2>2 DEF BeginServiceMain, SemType, SemInv
  <2>3. CASE Register
    BY <1>0, <2>3 DEF Register, SemType
  <2>4. CASE UNCHANGED <<sem1, sem2, success>>
    BY <1>0, <2>4 DEF SemType
  <2> QED
    BY <2>1, <2>2, <2>3, <2>4 DEF Connect, DispatcherReturns, Deliver
<1> QED
  BY <1>1, <1>2, <1>3, <1>4, <1>5, TypePartsNext

\* A thread that is not in handler() goes on: what is about the threads in
\* handler(), the events and the state stays as it is.
LEMMA OutsideStep ==
    ASSUME IInv, TypeOK',
           \A t \in Thread : /\ thread[t] \in {"posted", "waiting", "report"} \/
                                thread'[t] \in {"posted", "waiting", "report"} =>
                                    thread'[t] = thread[t] /\ code'[t] = code[t],
           UNCHANGED <<waiting, main, queue, app, status, scm>>
    PROVE  QueueInv' /\ HandledInv' /\ PendingInv' /\ StatusInv'
<1>0. ThreadType /\ LockType /\ ThreadType'
  BY TypeParts, TypePartsNext DEF IInv
<1>1. \A t \in Thread : /\ Posted(t)' <=> Posted(t)
                        /\ Woken(t)' <=> Woken(t)
                        /\ Posted(t) \/ Woken(t) => code'[t] = code[t] /\ thread'[t] = thread[t]
  BY <1>0 DEF Posted, Woken, LockType
<1>2. QueueInv'
  BY <1>1 DEF IInv, QueueInv
<1>3. HandledInv'
  BY <1>1 DEF IInv, HandledInv
<1>4. PendingInv'
  BY <1>1 DEF IInv, PendingInv
<1>5. StatusInv'
  BY DEF IInv, StatusInv
<1> QED
  BY <1>2, <1>3, <1>4, <1>5

LEMMA ScmStep ==
    ASSUME IInv,
           \/ DispatcherFails \/ Connect \/ DispatcherReturns
           \/ BeginServiceMain \/ Register
           \/ \E c \in Control : Deliver(c)
    PROVE  IInv'
<1>0. /\ ThreadType /\ StatusType /\ SemInv /\ CodeInv /\ MutexInv /\ StartingInv /\ QuitInv
      /\ SemType
  BY TypeParts DEF IInv
<1>1. TypeOK'
  BY ScmTypes
<1>2. QueueInv' /\ HandledInv' /\ PendingInv' /\ StatusInv'
  <2>1. UNCHANGED <<waiting, main, queue, app, status, scm>>
    BY DEF DispatcherFails, Connect, DispatcherReturns, BeginServiceMain, Register, Deliver
  <2>2. \A t \in Thread : thread[t] \in {"posted", "waiting", "report"} \/
                          thread'[t] \in {"posted", "waiting", "report"} =>
                              thread'[t] = thread[t] /\ code'[t] = code[t]
    BY <1>0 DEF DispatcherFails, Connect, DispatcherReturns, BeginServiceMain, Register, Deliver,
                ThreadType, SemInv
  <2> QED
    BY <1>1, <2>1, <2>2, OutsideStep
<1>3. MutexInv'
  BY <1>0 DEF DispatcherFails, Connect, DispatcherReturns, BeginServiceMain, Register, Deliver,
              ThreadType, SemInv, MutexInv
<1>4. CodeInv' /\ SemInv' /\ StartingInv' /\ QuitInv'
  <2>1. CASE DispatcherFails
    BY <1>0, <2>1 DEF DispatcherFails, ThreadType, CodeInv, SemInv, StartingInv, Starting, QuitInv
  <2>2. CASE Connect
    BY <1>0, <2>2 DEF Connect, ThreadType, CodeInv, SemInv, StartingInv, Starting, QuitInv
  <2>3. CASE DispatcherReturns
    BY <1>0, <2>3 DEF DispatcherReturns, ThreadType, CodeInv, SemInv, StartingInv, Starting, QuitInv
  <2>4. CASE BeginServiceMain
    BY <1>0, <2>4 DEF BeginServiceMain, ThreadType, CodeInv, SemInv, StartingInv, Starting, QuitInv
  <2>5. CASE Register
    BY <1>0, <2>5 DEF Register, ThreadType, SemType, CodeInv, SemInv, StartingInv, Starting, QuitInv
  <2>6. ASSUME NEW c \in Control, Deliver(c)
        PROVE  CodeInv' /\ SemInv' /\ StartingInv' /\ QuitInv'
    <3>1. CodeInv'
      BY <1>0, <2>6 DEF Deliver, ThreadType, CodeInv, Control
    <3>2. SemInv'
      BY <1>0, <2>6 DEF Deliver, ThreadType, SemInv
    <3>3. ~Starting /\ ~Starting'
      BY <1>0, <2>6 DEF Deliver, ThreadType, StartingInv, Starting
    <3>4. StartingInv' /\ QuitInv'
      BY <1>0, <2>6, <3>3 DEF Deliver, ThreadType, StartingInv, QuitInv
    <3> QED
      BY <3>1, <3>2, <3>4
  <2> QED
    BY <2>1, <2>2, <2>3, <2>4, <2>5, <2>6
<1> QED
  BY <1>1, <1>2, <1>3, <1>4 DEF IInv

-----------------------------------------------------------------------------
\* At most one thread has an event in the queue or is waiting for the answer;
\* before serviceMain() is awake it is that thread.
LEMMA OneInHandler ==
    ASSUME IInv
    PROVE  /\ thread["svc"] \in {"enter", "posted", "waiting"} =>
                  thread["disp"] \in {"connect", "idle", "finished"}
           /\ \A t, u \in Thread : /\ thread[t] \in {"posted", "waiting"}
                                   /\ thread[u] \in {"posted", "waiting"}
                                   => t = u
BY DEF IInv, StartingInv, Starting

\* IInv with the parts of TypeOK.
Parts ==
    /\ ThreadType /\ LockType /\ SemType /\ QueueType /\ AppType /\ StatusType
    /\ CodeInv /\ MutexInv /\ SemInv /\ StartingInv /\ QueueInv /\ HandledInv
    /\ PendingInv /\ StatusInv /\ QuitInv

LEMMA PartsOfIInv == (IInv <=> Parts) /\ (IInv' <=> Parts')
BY TypeParts, TypePartsNext DEF IInv, Parts

LEMMA EnterStep == ASSUME IInv, NEW t \in Thread, Enter(t) PROVE IInv'
<1>0. Parts
  BY PartsOfIInv
<1> USE <1>0 DEF Parts
<1>1. code[t] \in Code
  BY DEF Enter, CodeInv, Code, Control
<1>2. /\ mutex = "none" /\ thread[t] = "enter" /\ t \notin waiting
      /\ \A u \in Thread : ~Posted(u)
      /\ queue = <<>> /\ main # "wake"
  <2>1. mutex = "none" /\ thread[t] = "enter" /\ t \notin waiting
    BY DEF Enter, LockType
  <2>2. \A u \in Thread : ~Posted(u)
    BY <2>1, OneInHandler DEF Posted, LockType, MutexInv, StartingInv, Starting
  <2> QED
    BY <2>1, <2>2 DEF QueueInv
<1>3. ThreadType' /\ SemType' /\ AppType'
  BY DEF Enter, ThreadType, SemType, AppType
<1>4. LockType'
  BY <1>2 DEF Enter, ThreadType, LockType
<1>5. StatusType'
  BY DEF Enter, StatusType, Tell, Pending, SetStatus, State
<1>6. CodeInv' /\ MutexInv' /\ SemInv'
  BY <1>2 DEF Enter, ThreadType, CodeInv, MutexInv, SemInv
<1>7. QuitInv' /\ StartingInv'
  <2>1. CASE t = "svc"
    <3>1. Starting /\ quit # "stop"
      BY <1>2, <2>1 DEF Starting, QuitInv
    <3>2. code["svc"] = "STARTUP" /\ status' = "START_PENDING" /\ scm' = "START_PENDING"
      BY <1>2, <2>1 DEF Enter, CodeInv, Tell, Pending, SetStatus
    <3>3. Starting' /\ quit' # "stop" /\ thread'["disp"] = thread["disp"] /\ paused' = paused
      BY <1>2, <2>1, <3>1, <3>2 DEF Enter, ThreadType, Starting
    <3> QED
      BY <3>1, <3>2, <3>3 DEF StartingInv, QuitInv
  <2>2. CASE t = "disp"
    <3>1. ~Starting /\ quit # "stop" /\ started
      BY <1>2, <2>2 DEF StartingInv, QuitInv
    <3>2. ~Starting' /\ thread'["disp"] # "connect"
      BY <1>2, <2>2, <3>1 DEF Enter, ThreadType, Starting
    <3> QED
      BY <3>1, <3>2 DEF Enter, StartingInv, QuitInv
  <2> QED
    BY <2>1, <2>2
<1>8. HandledInv'
  BY <1>2 DEF Enter, ThreadType, HandledInv, Posted, Woken
<1>9. PendingInv'
  <2>1. CASE t = "svc"
    BY <1>2, <2>1 DEF Enter, ThreadType, PendingInv, StartingInv, Starting
  <2>2. CASE t = "disp"
    BY <1>2, <2>2 DEF Enter, ThreadType, PendingInv, Tell, Pending, SetStatus
  <2> QED
    BY <2>1, <2>2
<1>10. StatusInv'
  BY DEF Enter, StatusInv, Tell, Pending, SetStatus
<1>11. QueueType' /\ QueueInv'
  <2>1. CASE code[t] = "INTERROGATE"
    <3>1. queue' = <<>> /\ main' # "wake" /\ thread'[t] = "report"
      BY <1>2, <2>1 DEF Enter, ThreadType
    <3>2. \A u \in Thread : ~Posted(u)'
      BY <1>2, <2>1, <3>1 DEF Enter, ThreadType, Posted
    <3> QED
      BY <3>1, <3>2, EmptyQueue DEF QueueType, QueueInv
  <2>2. CASE code[t] # "INTERROGATE"
    <3>1. queue' = Append(<<>>, Event(code[t])) /\ main' # "wake" /\ code' = code
      BY <1>2, <2>2 DEF Enter, Event
    <3>2. \A u \in Thread : Posted(u)' <=> u = t
      BY <1>2, <2>2 DEF Enter, ThreadType, Posted
    <3>3. queue' = <<Event(code[t])>> /\ QueueType'
      BY <1>1, <3>1, EventIsCode, PostToEmpty DEF QueueType
    <3> QED
      BY <3>1, <3>2, <3>3 DEF QueueInv
  <2> QED
    BY <2>1, <2>2
<1> QED
  BY <1>3, <1>4, <1>5, <1>6, <1>7, <1>8, <1>9, <1>10, <1>11, PartsOfIInv

LEMMA WaitStep == ASSUME IInv, NEW t \in Thread, Wait(t) PROVE IInv'
<1>0. Parts
  BY PartsOfIInv
<1> USE <1>0 DEF Parts
<1>1. \A u \in Thread : (Posted(u)' <=> Posted(u)) /\ (Woken(u)' <=> Woken(u))
  BY DEF Wait, ThreadType, LockType, Posted, Woken
<1>2. ThreadType' /\ SemType' /\ AppType' /\ StatusType' /\ QueueType'
  BY DEF Wait, ThreadType, SemType, AppType, StatusType, QueueType
<1>3. LockType'
  BY DEF Wait, ThreadType, LockType
<1>4. CodeInv' /\ MutexInv' /\ SemInv'
  BY DEF Wait, ThreadType, CodeInv, MutexInv, SemInv
<1>5. StartingInv' /\ QuitInv' /\ StatusInv'
  BY DEF Wait, ThreadType, Starting, StartingInv, QuitInv, StatusInv
<1>6. QueueInv' /\ HandledInv'
  BY <1>1 DEF Wait, QueueInv, HandledInv
<1>7. PendingInv'
  BY <1>1 DEF Wait, ThreadType, PendingInv
<1> QED
  BY <1>2, <1>3, <1>4, <1>5, <1>6, <1>7, PartsOfIInv

LEMMA AwakeStep == ASSUME IInv, NEW t \in Thread, Awake(t) PROVE IInv'
<1>0. Parts
  BY PartsOfIInv
<1> USE <1>0 DEF Parts
<1>1. thread[t] = "waiting" /\ t \notin waiting /\ Woken(t)
  BY DEF Awake, Woken
<1>2. started /\ (code[t] = "PAUSE" => paused) /\ (code[t] \in {"STARTUP", "CONTINUE"} => ~paused)
  BY <1>1 DEF HandledInv
<1>3. \A u \in Thread : /\ Posted(u)' <=> Posted(u)
                        /\ Woken(u)' => Woken(u)
  BY <1>1 DEF Awake, ThreadType, Posted, Woken
<1>4. ThreadType' /\ SemType' /\ AppType' /\ QueueType'
  BY DEF Awake, ThreadType, SemType, AppType, QueueType
<1>5. LockType' /\ StatusType'
  BY <1>1 DEF Awake, ThreadType, LockType, StatusType, Tell, Finished, SetStatus, State
<1>6. CodeInv' /\ MutexInv' /\ SemInv'
  BY <1>1 DEF Awake, ThreadType, CodeInv, MutexInv, SemInv
<1>7. StatusInv'
  BY <1>2 DEF Awake, StatusInv, Tell, Finished, SetStatus
<1>8. StartingInv'
  BY <1>1, <1>2 DEF Awake, ThreadType, Starting, StartingInv, SemInv
<1>9. QuitInv'
  <2>1. CASE t = "svc"
    BY <1>1, <2>1 DEF Awake, Starting, QuitInv
  <2>2. CASE t = "disp" /\ quit = "stop"
    <3>1. UNCHANGED <<status, scm, shut, code, main>>
      BY <1>1, <2>2 DEF Awake, QuitInv, Tell, Finished
    <3> QED
      BY <1>1, <2>2, <3>1 DEF Awake, ThreadType, Starting, QuitInv
  <2>3. CASE quit # "stop"
    BY <2>3 DEF Awake, QuitInv
  <2> QED
    BY <2>1, <2>2, <2>3
<1>10. QueueInv' /\ HandledInv'
  BY <1>3 DEF Awake, QueueInv, HandledInv
<1>11. PendingInv'
  BY <1>1, OneInHandler DEF Awake, ThreadType, PendingInv
<1> QED
  BY <1>4, <1>5, <1>6, <1>7, <1>8, <1>9, <1>10, <1>11, PartsOfIInv

LEMMA ReportStep == ASSUME IInv, NEW t \in Thread, Report(t) PROVE IInv'
<1>0. Parts
  BY PartsOfIInv
<1> USE <1>0 DEF Parts
<1>1. thread[t] = "report" /\ (scm' = status \/ scm' = scm) /\ status' = status
  BY DEF Report
<1>2. \A u \in Thread : /\ Posted(u)' <=> Posted(u)
                        /\ Woken(u)' <=> Woken(u)
                        /\ Posted(u) \/ Woken(u) => code'[u] = code[u]
  BY <1>1 DEF Report, ThreadType, LockType, Posted, Woken
<1>3. ThreadType' /\ SemType' /\ AppType' /\ QueueType'
  BY DEF Report, ThreadType, SemType, AppType, QueueType
<1>4. LockType' /\ StatusType'
  BY <1>1 DEF Report, ThreadType, LockType, StatusType
<1>5. CodeInv'
  BY <1>1 DEF Report, ThreadType, CodeInv, Control
<1>6. MutexInv' /\ SemInv'
  BY <1>1 DEF Report, ThreadType, MutexInv, SemInv
<1>7. StatusInv'
  BY <1>1 DEF Report, StatusInv
<1>8. StartingInv'
  BY <1>1 DEF Report, ThreadType, Starting, StartingInv
<1>9. QuitInv'
  BY <1>1 DEF Report, ThreadType, Starting, QuitInv
<1>10. QueueInv' /\ HandledInv'
  BY <1>2 DEF Report, QueueInv, HandledInv
<1>11. PendingInv'
  BY <1>1, <1>2 DEF Report, ThreadType, PendingInv
<1> QED
  BY <1>3, <1>4, <1>5, <1>6, <1>7, <1>8, <1>9, <1>10, <1>11, PartsOfIInv

-----------------------------------------------------------------------------
\* The event loop.
LEMMA HandleEventStep == ASSUME IInv, HandleEvent PROVE IInv'
<1>0. Parts
  BY PartsOfIInv
<1> USE <1>0 DEF Parts
<1>1. main = "loop" /\ queue # <<>> /\ main' = "wake"
      /\ UNCHANGED <<flags, thread, code, mutex, waiting, sync, status, scm, shut>>
  BY DEF HandleEvent
<1>2. PICK t \in Thread : Posted(t)
  BY <1>1 DEF QueueInv
<1>3. queue = <<Event(code[t])>> /\ queue' = <<>>
  BY <1>1, <1>2, HandleLast DEF HandleEvent, QueueInv
<1>4. thread[t] \in {"posted", "waiting"}
  BY <1>2 DEF Posted, LockType
<1>5. \A u \in Thread : /\ (Posted(u)' <=> Posted(u)) /\ (Woken(u)' <=> Woken(u))
                        /\ thread[u] \in {"posted", "waiting"} <=> u = t
                        /\ Posted(u) \/ Woken(u) => u = t
  BY <1>1, <1>2, <1>4, OneInHandler DEF Posted, Woken, LockType
<1>6. DEFINE c == Event(code[t])
<1>7. /\ started' = (started \/ c = "STARTUP")
      /\ quit' = IF c = "STOP" /\ quit = "no" THEN "stop" ELSE quit
      /\ paused' = ((paused \/ c = "PAUSE") /\ c # "CONTINUE")
  BY <1>3, HandleLast DEF HandleEvent
<1>8. \/ t = "svc" /\ Starting /\ code[t] = "STARTUP"
      \/ t = "disp" /\ ~Starting /\ started /\ code[t] \in Control
  BY <1>4 DEF CodeInv, Starting, StartingInv
<1>9. /\ code[t] = "STARTUP" => started' /\ ~paused'
      /\ code[t] = "PAUSE" => paused'
      /\ code[t] = "CONTINUE" => ~paused'
      /\ started'
      /\ code[t] \notin {"PAUSE", "CONTINUE"} => (paused' <=> paused)
  <2>1. /\ c = "STARTUP" <=> code[t] = "STARTUP"
        /\ c = "PAUSE" <=> code[t] = "PAUSE"
        /\ c = "CONTINUE" <=> code[t] = "CONTINUE"
    BY DEF Event
  <2>2. started \/ code[t] = "STARTUP"
    BY <1>8
  <2>3. code[t] = "STARTUP" => ~paused
    BY <1>8 DEF StartingInv, CodeInv
  <2> HIDE DEF c
  <2> QED
    BY <1>7, <2>1, <2>2, <2>3, Zenon
<1>10. ThreadType' /\ LockType' /\ SemType' /\ StatusType'
  BY <1>1 DEF ThreadType, LockType, SemType, StatusType
<1>11. QueueType'
  BY <1>3, EmptyQueue DEF QueueType
<1>12. AppType'
  <2>1. started' \in BOOLEAN /\ paused' \in BOOLEAN
    BY <1>7
  <2>2. quit' \in {"no", "stop", "self"}
    BY <1>7 DEF AppType
  <2> QED
    BY <1>1, <2>1, <2>2 DEF AppType
<1>13. CodeInv' /\ MutexInv' /\ SemInv'
  BY <1>1 DEF CodeInv, MutexInv, SemInv
<1>14. StartingInv'
  BY <1>1, <1>8, <1>9 DEF StartingInv, Starting
<1>15. QueueInv'
  BY <1>1, <1>2, <1>3, <1>5 DEF QueueInv
<1>16. HandledInv'
  BY <1>1, <1>5, <1>9 DEF HandledInv
<1>17. PendingInv'
  BY <1>1, <1>5 DEF PendingInv
<1>18. StatusInv'
  <2>1. CASE code[t] \in {"PAUSE", "CONTINUE"}
    <3>1. {status, scm} \subseteq {"PAUSE_PENDING", "CONTINUE_PENDING"}
      BY <1>1, <1>2, <1>4, <1>8, <2>1 DEF PendingInv
    <3> QED
      BY <1>1, <3>1 DEF StatusInv
  <2>2. CASE code[t] \notin {"PAUSE", "CONTINUE"}
    BY <1>1, <1>9, <2>2 DEF StatusInv
  <2> QED
    BY <2>1, <2>2
<1>19. QuitInv'
  <2>1. CASE quit = "stop"
    BY <1>1, <2>1 DEF QuitInv, Starting
  <2>2. CASE c = "STOP" /\ quit # "stop"
    <3>1. t = "disp" /\ ~Starting /\ code[t] \in {"STOP", "SHUTDOWN"}
      BY <1>8, <2>2 DEF Event
    <3>2. shut \/ {status, scm} \subseteq {"STOP_PENDING"}
      BY <1>1, <1>4, <3>1 DEF CodeInv, PendingInv
    <3> QED
      BY <1>1, <1>4, <3>1, <3>2 DEF QuitInv, Starting
  <2>3. CASE quit' # "stop"
    BY <2>3 DEF QuitInv
  <2> QED
    BY <1>7, <2>1, <2>2, <2>3
<1> QED
  BY <1>10, <1>11, <1>12, <1>13, <1>14, <1>15, <1>16, <1>17, <1>18, <1>19, PartsOfIInv

LEMMA WakeAllStep == ASSUME IInv, WakeAll PROVE IInv'
<1>0. Parts
  BY PartsOfIInv
<1> USE <1>0 DEF Parts
<1>1. main = "wake" /\ mutex = "none" /\ main' = "loop" /\ waiting' = {} /\ queue = <<>>
      /\ UNCHANGED <<flags, thread, code, mutex, sync, queue, app, status, scm, shut>>
  BY DEF WakeAll, QueueInv
<1>2. \A t \in Thread : /\ ~Posted(t)'
                        /\ Woken(t)' => Posted(t) \/ Woken(t)
  BY <1>1 DEF Posted, Woken, MutexInv
<1>3. ThreadType' /\ LockType' /\ SemType' /\ QueueType' /\ AppType' /\ StatusType'
  BY <1>1 DEF ThreadType, LockType, SemType, QueueType, AppType, StatusType
<1>4. CodeInv' /\ MutexInv' /\ SemInv' /\ StartingInv' /\ StatusInv' /\ QuitInv'
  BY <1>1 DEF CodeInv, MutexInv, SemInv, StartingInv, Starting, StatusInv, QuitInv
<1>5. QueueInv' /\ HandledInv'
  BY <1>1, <1>2 DEF QueueInv, HandledInv
<1>6. PendingInv'
  BY <1>1, <1>2 DEF PendingInv
<1> QED
  BY <1>3, <1>4, <1>5, <1>6, PartsOfIInv

\* The other steps of the main thread, which touch neither a thread nor an
\* event.
LEMMA MainOtherStep ==
    ASSUME IInv,
           \/ GotArgs \/ GiveUp \/ CreateFails \/ Create \/ AppQuits
           \/ ExecReturns \/ TellStopped \/ Cleanup
    PROVE  IInv'
<1>0. Parts
  BY PartsOfIInv
<1> USE <1>0 DEF Parts
<1>1. UNCHANGED <<flags, thread, code, mutex, waiting, success, queue, started, paused, shut>>
  BY DEF GotArgs, GiveUp, CreateFails, Create, AppQuits, ExecReturns, TellStopped, Cleanup
<1>2. /\ main' = "wake" <=> main = "wake"
      /\ main' \in {"wait", "create", "loop", "wake", "tell", "join", "end", "gone"}
      /\ main' \in {"wait", "create"} => main = "wait" /\ sem2' = sem2
      /\ main' \notin {"tell", "join", "end", "gone"} =>
             main \notin {"tell", "join", "end", "gone"} /\ UNCHANGED <<status, scm>>
  BY DEF GotArgs, GiveUp, CreateFails, Create, AppQuits, ExecReturns, TellStopped, Cleanup
<1>3. /\ status' \in {status, "STOPPED"}
      /\ scm' \in {scm, status}
      /\ main' \in {"tell", "join", "end"} =>
             (main \in {"tell", "join", "end"} /\ status' = status) \/ status' = "STOPPED"
      /\ main' \in {"join", "end"} =>
             (main \in {"join", "end"} /\ scm' = scm) \/ (main = "tell" /\ scm' = status)
  BY DEF GotArgs, GiveUp, CreateFails, Create, AppQuits, ExecReturns, TellStopped, Cleanup
<1>4. quit' = quit \/ (quit = "no" /\ quit' = "self")
  BY DEF GotArgs, GiveUp, CreateFails, Create, AppQuits, ExecReturns, TellStopped, Cleanup
<1>5. ThreadType' /\ LockType' /\ QueueType' /\ CodeInv' /\ MutexInv'
  BY <1>1 DEF ThreadType, LockType, QueueType, CodeInv, MutexInv
<1>6. SemType'
  <2>1. sem1' \in 0..1 /\ sem2' \in 0..1
    BY DEF GotArgs, GiveUp, CreateFails, Create, AppQuits, ExecReturns, TellStopped, Cleanup,
           SemType, SemInv
  <2> QED
    BY <1>1, <2>1 DEF SemType
<1>7. AppType' /\ StatusType'
  BY <1>1, <1>2, <1>3, <1>4 DEF AppType, StatusType, State
<1>8. SemInv'
  BY <1>1, <1>2 DEF GotArgs, GiveUp, CreateFails, Create, AppQuits, ExecReturns, TellStopped,
                    Cleanup, SemInv, SemType
<1>9. StartingInv' /\ StatusInv'
  BY <1>1, <1>3 DEF StartingInv, Starting, StatusInv
<1>10. QueueInv' /\ HandledInv'
  BY <1>1, <1>2 DEF QueueInv, HandledInv, Posted, Woken
<1>11. PendingInv'
  BY <1>1, <1>2 DEF PendingInv, Posted
<1>12. QuitInv'
  BY <1>1, <1>3, <1>4 DEF QuitInv, Starting
<1> QED
  BY <1>5, <1>6, <1>7, <1>8, <1>9, <1>10, <1>11, <1>12, PartsOfIInv

LEMMA IInvStep == IInv /\ [Next]_vars => IInv'
<1> SUFFICES ASSUME IInv, [Next]_vars PROVE IInv'
  OBVIOUS
<1>1. CASE UNCHANGED vars
  <2>1. Parts
    BY PartsOfIInv
  <2> USE <1>1, <2>1 DEF vars, Parts
  <2>2. ThreadType' /\ LockType' /\ SemType' /\ QueueType' /\ AppType' /\ StatusType'
    BY DEF ThreadType, LockType, SemType, QueueType, AppType, StatusType
  <2>3. CodeInv' /\ MutexInv' /\ SemInv' /\ StartingInv' /\ StatusInv' /\ QuitInv'
    BY DEF CodeInv, MutexInv, SemInv, StartingInv, Starting, StatusInv, QuitInv
  <2>4. QueueInv' /\ HandledInv' /\ PendingInv'
    BY DEF QueueInv, HandledInv, PendingInv, Posted, Woken
  <2> QED
    BY <2>2, <2>3, <2>4, PartsOfIInv
<1>2. CASE \E t \in Thread : HandlerStep(t)
  BY <1>2, EnterStep, WaitStep, AwakeStep, ReportStep DEF HandlerStep
<1>3. CASE MainStep \/ GiveUp \/ CreateFails \/ AppQuits
  BY <1>3, HandleEventStep, WakeAllStep, MainOtherStep DEF MainStep
<1>4. CASE Ended
  BY <1>1, <1>4 DEF Ended
<1> QED
  BY <1>1, <1>2, <1>3, <1>4, ScmStep DEF Next

LEMMA IInvAlways == Spec => []IInv
BY IInvInit, IInvStep, PTL DEF Spec

(* The SCM is told that the service runs, or is paused, only when it does  *)
(* or is, and one thread at a time waits for the event loop.               *)
THEOREM StatusCorrect == Spec => []StatusFollowsService
<1>1. IInv => StatusFollowsService
  BY OneInHandler, TypeParts DEF IInv, StatusFollowsService, OneWaiter, LockType, StatusInv
<1> QED
  BY <1>1, IInvAlways, PTL

\* After the end of a service that was told to stop no step reports a state.
LEMMA StopStep ==
    IInv /\ [Next]_vars =>
        (main \in {"join", "end"} /\ quit = "stop" => scm = "STOPPED" /\ scm' = scm)
<1> SUFFICES ASSUME IInv, [Next]_vars, main \in {"join", "end"}, quit = "stop"
             PROVE  scm = "STOPPED" /\ scm' = scm
  OBVIOUS
<1>1. scm = "STOPPED" /\ status = "STOPPED"
  BY DEF IInv, QuitInv
<1>2. ASSUME NEW t \in Thread, HandlerStep(t) PROVE scm' = scm
  <2>1. ~Enter(t)
    BY DEF IInv, QuitInv, Starting, Enter
  <2>2. CASE Wait(t)
    BY <2>2 DEF Wait
  <2>3. CASE Awake(t)
    BY <2>3 DEF IInv, QuitInv, Starting, Awake, Tell, Finished
  <2>4. CASE Report(t)
    BY <1>1, <2>4 DEF Report
  <2> QED
    BY <1>2, <2>1, <2>2, <2>3, <2>4 DEF HandlerStep
<1> QED
  BY <1>1, <1>2
     DEF Next, vars, MainStep, DispatcherFails, Connect, DispatcherReturns, Deliver,
         BeginServiceMain, Register, GotArgs, CreateFails, Create, HandleEvent, WakeAll, ExecReturns,
         TellStopped, Cleanup, GiveUp, AppQuits, Ended

(* A service whose event loop ends because it was told to stop has been    *)
(* reported as stopped when start() waits for the HandlerThread, and is    *)
(* reported as nothing else afterwards.  Nothing is said of a service      *)
(* whose application quits by itself.                                      *)
THEOREM StopReported == Spec => StopIsFinal
<1>1. IInv /\ [Next]_vars =>
          [(main \in {"join", "end"} /\ quit = "stop") => (scm = "STOPPED" /\ scm' = scm)]_vars
  BY StopStep
<1> QED
  BY <1>1, IInvAlways, PTL DEF Spec, StopIsFinal
=============================================================================
