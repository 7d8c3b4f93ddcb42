------------------------------ MODULE ScriptGC ------------------------------
(***************************************************************************)
(* The garbage collector of QtScriptClassic and what it works on: objects  *)
(* and strings that refer to each other, the stack of running functions,   *)
(* the handles that C++ code has on values (QScriptValue), wrappers of     *)
(* QObjects, and connections of their signals to script functions.  Native *)
(* functions of the library keep values in C++ variables, where the        *)
(* collector does not see them, and block it meanwhile.                    *)
(***************************************************************************)
EXTENDS ScriptHeap, FiniteSetsExt, SequencesExt

CONSTANTS
    Text,              \* the strings there may be, numbers beyond MaxBlocks
    QObject, ParentOf, \* C++ objects, and the parent of each or "0"
    Ownerships,        \* the QScriptEngine::ValueOwnership of wrappers that are made
    MAX_GC_DEPTH,      \* recursion of markObject()
    DestructorsRun,    \* may the destructor of a QObject run scripts?
    Bounds             \* the QObjects there are, and how many blocks, strings, frames,
                       \* values held in a frame, references, handles, wrappers and
                       \* connections there may be: each behaviour has one of these

ASSUME ScriptGCAssumption ==
    /\ Text \subseteq Int /\ \A s \in Text : s > MaxBlocks
    /\ ParentOf \in [QObject -> QObject \cup {"0"}]
    /\ Ownerships \subseteq {"qt", "script", "auto"}
    /\ DestructorsRun \in BOOLEAN
    /\ Bounds \subseteq [alive: SUBSET QObject, blocks: 1 .. MaxBlocks, strings: Nat,
                         frames: Nat, held: Nat, edges: Nat, handles: Nat,
                         wrappers: Nat, connections: Nat]

Value == Block \cup Text
Global == 1      \* m_globalObject

VARIABLES
    heap,           \* objectAllocator
    m_blocked_gc,   \* of objectAllocator
    members,        \* members[b]: what object b refers to: prototype, scope, members
    prototype,      \* prototype[b]: of a QMetaObject wrapper, its object, or 0
    wraps,          \* wraps[b]: QObject and ownership, of each b that is a wrapper
    strings, used,  \* m_tempStringRepository, and the strings that are marked used
    frames,         \* the running functions, each with the values it works with; a
                    \* native one has the result of its blockGC()
    handles,        \* handles[v]: the QScriptValues that refer to v
    m_qobjectData,  \* wrappers and connections of the QObjects that have any
    alive,          \* the QObjects that exist
    m_qobjectsToBeDeleted,
    bound,          \* of this behaviour
    collecting      \* do_string_gc of the collections that have yet to delete QObjects

vars == <<heap, m_blocked_gc, members, prototype, wraps, strings, used,
          frames, handles, m_qobjectData, alive, m_qobjectsToBeDeleted, collecting,
          bound>>

objectVars  == <<members, prototype, wraps>>
stringVars  == <<strings, used>>
qobjectVars == <<m_qobjectData, alive, m_qobjectsToBeDeleted, collecting, bound>>
gcVars      == <<heap, m_blocked_gc>>

Top == frames[Len(frames)]
Holding(vs) == [frames EXCEPT ![Len(frames)].held = vs]

(* A program step: not while a collection is at work, except for what the  *)
(* destructor of a QObject does.                                           *)
Running == collecting = <<>> \/ DestructorsRun

Live == Range(InUse(heap))
Edges == Cardinality(UNION {{b} \X members[b] : b \in Block})

(* The QObject of wrapper b, unless it was deleted (a QPointer).           *)
Points(b) == b \in DOMAIN wraps /\ wraps[b].q \in alive

\* Mutant: a parent makes no difference.
ScriptOwnedAlways(b) ==
    /\ Points(b)
    /\ wraps[b].own \in {"script", "auto"}

(* A QObject the script environment deletes with its wrapper.              *)
ScriptOwned(b) ==
    /\ Points(b)
    /\ \/ wraps[b].own = "script"
       \/ wraps[b].own = "auto" /\ ParentOf[wraps[b].q] \notin alive

-----------------------------------------------------------------------------
Init ==
    /\ heap = NewHeap /\ m_blocked_gc = FALSE
    /\ members = [b \in Block |-> {}] /\ prototype = [b \in Block |-> 0]
    /\ wraps = [b \in {} |-> 0]
    /\ strings = {} /\ used = {}
    /\ frames = <<[native |-> FALSE, was |-> FALSE, held |-> {}]>>
    /\ handles = [v \in Value |-> 0]
    /\ m_qobjectData = [q \in {} |-> 0]
    /\ m_qobjectsToBeDeleted = <<>> /\ collecting = <<>>
    /\ bound \in Bounds /\ alive = bound.alive

(* newObject(); the running function has it.                               *)
NewObject ==
    /\ Running /\ CanAllocate(heap, bound.blocks) /\ Cardinality(Top.held) < bound.held
    /\ heap' = Allocated(heap)
    /\ members' = [members EXCEPT ![Where(heap)] = {}]
    /\ prototype' = [prototype EXCEPT ![Where(heap)] = 0]
    /\ frames' = Holding(Top.held \cup {Where(heap)})
    /\ UNCHANGED <<m_blocked_gc, wraps, stringVars, handles, qobjectVars>>

(* newQMetaObject() without a constructor: the prototype it makes first is *)
(* kept in the instance data, that the property "prototype" reads.         *)
NewMetaObject ==
    /\ Running /\ Cardinality(Top.held) < bound.held
    /\ CanAllocate(heap, bound.blocks) /\ CanAllocate(Allocated(heap), bound.blocks)
    /\ LET inner == Allocated(heap)
           p     == Where(heap)
           b     == Where(inner)
       IN  /\ heap' = Allocated(inner)
           /\ members' = [members EXCEPT ![p] = {}, ![b] = {}]
           /\ prototype' = [prototype EXCEPT ![p] = 0, ![b] = p]
           /\ frames' = Holding(Top.held \cup {b})
    /\ UNCHANGED <<m_blocked_gc, wraps, stringVars, handles, qobjectVars>>

(* newString()                                                             *)
NewString ==
    /\ Running /\ Cardinality(Top.held) < bound.held
    /\ Cardinality(strings) < bound.strings
    /\ \E s \in Text \ strings :
          /\ strings' = strings \cup {s}
          /\ frames' = Holding(Top.held \cup {s})
    /\ UNCHANGED <<gcVars, objectVars, used, handles, qobjectVars>>

(* A property is read, or the global object named; set; deleted; or a      *)
(* variable goes out of use.                                               *)
Load(v) ==
    /\ Running /\ v \notin Top.held /\ Cardinality(Top.held) < bound.held
    /\ \/ v = Global
       \/ \E b \in Top.held \cap Block : v \in members[b] \/ v = prototype[b]
    /\ frames' = Holding(Top.held \cup {v})
    /\ UNCHANGED <<gcVars, objectVars, stringVars, handles, qobjectVars>>

Store(b, v) ==
    /\ Running /\ {b, v} \subseteq Top.held
    /\ v \notin members[b] /\ Edges < bound.edges
    /\ members' = [members EXCEPT ![b] = @ \cup {v}]
    /\ UNCHANGED <<gcVars, prototype, wraps, stringVars, frames, handles, qobjectVars>>

Delete(b, v) ==
    /\ Running /\ b \in Top.held /\ v \in members[b]
    /\ members' = [members EXCEPT ![b] = @ \ {v}]
    /\ UNCHANGED <<gcVars, prototype, wraps, stringVars, frames, handles, qobjectVars>>

Drop(v) ==
    /\ Running /\ v \in Top.held
    /\ frames' = Holding(Top.held \ {v})
    /\ UNCHANGED <<gcVars, objectVars, stringVars, handles, qobjectVars>>

(* A script function is called with the values in vs, or a native one      *)
(* (C2Function::execute()), which blocks the collector.                    *)
Call(vs) ==
    /\ Running /\ Len(frames) < bound.frames /\ vs \subseteq Top.held
    /\ frames' = Append(frames, [native |-> FALSE, was |-> FALSE, held |-> vs])
    /\ UNCHANGED <<gcVars, objectVars, stringVars, handles, qobjectVars>>

CallNative(vs) ==
    /\ Running /\ Len(frames) < bound.frames /\ vs \subseteq Top.held
    /\ frames' = Append(frames, [native |-> TRUE, was |-> m_blocked_gc, held |-> vs])
    /\ m_blocked_gc' = TRUE
    /\ UNCHANGED <<heap, objectVars, stringVars, handles, qobjectVars>>

\* Mutant: a native function that returns lifts the block of its callers, too.
ReturnUnblocks(vs) ==
    /\ Running /\ Len(frames) > 1
    /\ vs \subseteq Top.held /\ Cardinality(vs) <= 1
    /\ LET below == frames[Len(frames) - 1].held IN
       /\ Cardinality(below \cup vs) <= bound.held
       /\ frames' = [Front(frames) EXCEPT ![Len(frames) - 1].held = below \cup vs]
    /\ m_blocked_gc' = IF Top.native THEN FALSE ELSE m_blocked_gc
    /\ UNCHANGED <<heap, objectVars, stringVars, handles, qobjectVars>>

(* It returns the value in vs, if any.                                     *)
Return(vs) ==
    /\ Running /\ Len(frames) > 1
    /\ vs \subseteq Top.held /\ Cardinality(vs) <= 1
    /\ LET below == frames[Len(frames) - 1].held IN
       /\ Cardinality(below \cup vs) <= bound.held
       /\ frames' = [Front(frames) EXCEPT ![Len(frames) - 1].held = below \cup vs]
    /\ m_blocked_gc' = IF Top.native THEN Top.was ELSE m_blocked_gc
    /\ UNCHANGED <<heap, objectVars, stringVars, handles, qobjectVars>>

(* toPublic() and registerValue(): C++ code gets a QScriptValue for v, or  *)
(* copies one; the last one of v to go unregisters it.                     *)
TakeHandle(v) ==
    /\ Running /\ (v \in Top.held \/ handles[v] > 0)
    /\ Cardinality(UNION {{w} \X (1 .. handles[w]) : w \in Value}) < bound.handles
    /\ handles' = [handles EXCEPT ![v] = @ + 1]
    /\ UNCHANGED <<gcVars, objectVars, stringVars, frames, qobjectVars>>

DropHandle(v) ==
    /\ Running /\ handles[v] > 0
    /\ handles' = [handles EXCEPT ![v] = @ - 1]
    /\ UNCHANGED <<gcVars, objectVars, stringVars, frames, qobjectVars>>

(* toImpl(): a value of C++ code comes back into the script.               *)
UseHandle(v) ==
    /\ Running /\ handles[v] > 0 /\ v \notin Top.held /\ Cardinality(Top.held) < bound.held
    /\ frames' = Holding(Top.held \cup {v})
    /\ UNCHANGED <<gcVars, objectVars, stringVars, handles, qobjectVars>>

-----------------------------------------------------------------------------
NoData == [wrappers |-> {}, connections |-> <<>>]
DataOf(q) == IF q \in DOMAIN m_qobjectData THEN m_qobjectData[q] ELSE NoData
WithData(q, d) ==
    [x \in DOMAIN m_qobjectData \cup {q} |-> IF x = q THEN d ELSE m_qobjectData[x]]

(* findWrapper(): the wrapper of q with an ownership, of which there is    *)
(* one at most.                                                            *)
findWrapper(q, own) == {b \in DataOf(q).wrappers : wraps[b].own = own}

(* newQObject(): a new wrapper, registered if it is the first of its kind. *)
NewWrapper(q, own) ==
    LET b == Where(heap) IN
    /\ heap' = Allocated(heap)
    /\ members' = [members EXCEPT ![b] = {}]
    /\ prototype' = [prototype EXCEPT ![b] = 0]
    /\ wraps' = [x \in DOMAIN wraps \cup {b} |-> IF x = b THEN [q |-> q, own |-> own] ELSE wraps[x]]
    /\ m_qobjectData' = WithData(q, IF findWrapper(q, own) = {}
                                    THEN [DataOf(q) EXCEPT !.wrappers = @ \cup {b}] ELSE DataOf(q))

(* newQObject(), with PreferExistingWrapperObject or without.              *)
WrapQObject(q, own, preferExisting) ==
    /\ Running /\ q \in alive /\ own \in Ownerships
    /\ Cardinality(Top.held) < bound.held
    /\ LET existing == IF preferExisting THEN findWrapper(q, own) ELSE {} IN
       IF existing # {}
       THEN frames' = Holding(Top.held \cup existing) /\ UNCHANGED <<heap, objectVars, m_qobjectData>>
       ELSE /\ CanAllocate(heap, bound.blocks) /\ Cardinality(DOMAIN wraps) < bound.wrappers
            /\ NewWrapper(q, own)
            /\ frames' = Holding(Top.held \cup {Where(heap)})
    /\ UNCHANGED <<m_blocked_gc, stringVars, handles,
                   alive, m_qobjectsToBeDeleted, collecting, bound>>

(* scriptConnect() of a signal of wrapper w, or from C++ code (w is 0 then) *)
(* of one of q, to the function slot.                                      *)
Connect(q, w, slot) ==
    /\ Running /\ q \in alive
    /\ w = 0 \/ (w \in Top.held /\ Points(w) /\ wraps[w].q = q)
    /\ slot \in Top.held \cap Block
    /\ Cardinality(UNION {{x} \X DOMAIN DataOf(x).connections : x \in QObject}) < bound.connections
    /\ m_qobjectData' = WithData(q, [DataOf(q) EXCEPT !.connections =
                                         Append(@, [sender |-> w, slot |-> slot])])
    /\ UNCHANGED <<gcVars, objectVars, stringVars, frames, handles,
                   alive, m_qobjectsToBeDeleted, collecting, bound>>

(* removeSignalHandler(): the first connection to slot goes.               *)
Disconnect(q, slot) ==
    /\ Running /\ q \in alive /\ slot \in Top.held
    /\ LET cs == DataOf(q).connections IN
       \E i \in DOMAIN cs :
          /\ cs[i].slot = slot /\ \A j \in 1 .. i - 1 : cs[j].slot # slot
          /\ m_qobjectData' = WithData(q, [DataOf(q) EXCEPT !.connections = RemoveAt(@, i)])
    /\ UNCHANGED <<gcVars, objectVars, stringVars, frames, handles,
                   alive, m_qobjectsToBeDeleted, collecting, bound>>

(* QObjectConnectionManager::execute(): the function runs, and has the     *)
(* sender: by the wrapper the connection was made with, if it still is one, *)
(* or by any with QtOwnership.                                             *)
Emit(q, i) ==
    /\ Running /\ q \in alive /\ Len(frames) < bound.frames
    /\ i \in DOMAIN DataOf(q).connections
    /\ LET c == DataOf(q).connections[i]
           existing == IF c.sender # 0 THEN {c.sender} ELSE findWrapper(q, "qt")
           frame(vs) == [native |-> FALSE, was |-> FALSE, held |-> vs]
       IN  IF existing # {}
           THEN /\ frames' = Append(frames, frame({c.slot} \cup existing))
                /\ UNCHANGED <<heap, objectVars, m_qobjectData>>
           ELSE /\ CanAllocate(heap, bound.blocks) /\ NewWrapper(q, "qt")
                /\ frames' = Append(frames, frame({c.slot, Where(heap)}))
    /\ UNCHANGED <<m_blocked_gc, stringVars, handles,
                   alive, m_qobjectsToBeDeleted, collecting, bound>>

(* A QObject is destroyed with its children; _q_objectDestroyed() drops    *)
(* what the engine has of them.                                            *)
With(q) == {x \in alive : x = q \/ ParentOf[x] = q}

Destroyed(q) ==
    /\ alive' = alive \ With(q)
    /\ m_qobjectData' = [x \in DOMAIN m_qobjectData \ With(q) |-> m_qobjectData[x]]

(* C++ code deletes q (if the engine knows of none of them it is not told). *)
DeleteQObject(q) ==
    /\ collecting = <<>> /\ q \in alive
    /\ With(q) \cap DOMAIN m_qobjectData # {}
    /\ Destroyed(q)
    /\ UNCHANGED <<gcVars, objectVars, stringVars, frames, handles,
                   m_qobjectsToBeDeleted, collecting, bound>>

-----------------------------------------------------------------------------
(* Marking.  A record has what marking changes: the generations, the marks *)
(* of strings, m_markStack, m_qobjectData.                                 *)
Marked(m, b) == m.generation[b] = 1

RECURSIVE MarkValue(_, _, _), MarkValues(_, _, _)

(* markObject(), at recursion depth m_gc_depth, and markString().          *)
MarkValue(m, v, m_gc_depth) ==
    IF v \in Text THEN [m EXCEPT !.used = @ \cup {v}]
    ELSE IF m.generation[v] # 0 THEN m
    ELSE IF m_gc_depth >= MAX_GC_DEPTH THEN [m EXCEPT !.stack = Append(@, v)]
    ELSE MarkValues([m EXCEPT !.generation[v] = @ + 1], members[v], m_gc_depth + 1)

MarkValues(m, vs, m_gc_depth) ==
    IF vs = {} THEN m
    ELSE LET v == CHOOSE x \in vs : \A y \in vs : x <= y
         IN  MarkValues(MarkValue(m, v, m_gc_depth), vs \ {v}, m_gc_depth)

(* processMarkStack()                                                      *)
RECURSIVE Processed(_)
Processed(m) ==
    IF m.stack = <<>> THEN m
    ELSE Processed(MarkValue([m EXCEPT !.stack = Front(@)], Last(m.stack), 0))

\* Mutant: the wrapper is marked whoever owns the QObject.
MarkConnectionStrong(m, q, i) ==
    LET c == m.data[q].connections[i]
        n == IF c.sender = 0 THEN m ELSE MarkValue(m, c.sender, 0)
    IN  MarkValue(n, c.slot, 0)

(* QObjectConnection::mark(): a wrapper that was not marked yet is given   *)
(* up if the script owns the QObject, and marked otherwise.                *)
MarkConnection(m, q, i) ==
    LET c == m.data[q].connections[i]
        n == IF c.sender = 0 \/ Marked(m, c.sender) THEN m
             ELSE IF ScriptOwned(c.sender) THEN [m EXCEPT !.data[q].connections[i].sender = 0]
             ELSE MarkValue(m, c.sender, 0)
    IN  MarkValue(n, c.slot, 0)

\* Mutant: all the wrappers stay.
MarkQObjectKeepsWrappers(m, q) ==
    FoldLeft(LAMBDA x, i : MarkConnection(x, q, i), m,
             [i \in DOMAIN m.data[q].connections |-> i])

(* QScriptQObjectData::mark(): the wrappers that are not marked go.        *)
MarkQObject(m, q) ==
    LET n == FoldLeft(LAMBDA x, i : MarkConnection(x, q, i), m,
                      [i \in DOMAIN m.data[q].connections |-> i])
    IN  [n EXCEPT !.data[q].wrappers = {b \in @ : Marked(n, b)}]

Roots ==
    {Global} \cup {v \in Value : handles[v] > 0}
             \cup UNION {frames[i].held : i \in {j \in DOMAIN frames : ~frames[j].native}}

(* What maybeGC_helper() has marked, with the QObjects in some order.      *)
Marking(order) ==
    LET start == [generation |-> heap.generation, used |-> used, stack |-> <<>>,
                  data |-> m_qobjectData]
    IN  Processed(FoldLeft(MarkQObject, Processed(MarkValues(start, Roots, 0)), order))

Orders(S) == {o \in [1 .. Cardinality(S) -> S] : Range(o) = S}

(* The QObjects finalize() hands to disposeQObject() as the blocks in bs   *)
(* are freed, each once.                                                   *)
Disposed(bs) ==
    FoldLeft(LAMBDA todo, b : IF ScriptOwned(b) /\ ~Contains(todo, wraps[b].q)
                              THEN Append(todo, wraps[b].q) ELSE todo,
             m_qobjectsToBeDeleted, bs)

(* maybeGC_helper() up to deletePendingQObjects(), on heap h.              *)
Collect(h, do_string_gc) ==
    \E order \in Orders(DOMAIN m_qobjectData) :
       LET m == Marking(order)
           freed == SelectSeq(InUse(h), LAMBDA b : m.generation[b] # 1)
       IN  /\ heap' = sweep([h EXCEPT !.generation = m.generation])
           /\ used' = m.used
           /\ m_qobjectData' = m.data
           /\ m_qobjectsToBeDeleted' = Disposed(freed)
           /\ wraps' = [b \in DOMAIN wraps \ Range(freed) |-> wraps[b]]
           /\ members' = [b \in Block |-> IF b \in Range(freed) THEN {} ELSE members[b]]
           /\ prototype' = [b \in Block |-> IF b \in Range(freed) THEN 0 ELSE prototype[b]]
           /\ collecting' = Append(collecting, do_string_gc)
           /\ UNCHANGED <<m_blocked_gc, strings, frames, handles, alive, bound>>

(* maybeGC(), at each line a script function comes to and at its end; much *)
(* and do_string_gc stand for limits of bytes and strings.                 *)
MaybeGC(much, do_string_gc) ==
    /\ Running /\ Len(collecting) < 2
    /\ ~Top.native /\ ~m_blocked_gc
    /\ IF do_string_gc THEN ~much /\ strings # {} ELSE poll(heap, much)
    /\ much => ~poll(heap, FALSE)
    /\ Collect(IF do_string_gc THEN heap ELSE Polled(heap), do_string_gc)

(* gc(), from collectGarbage().                                            *)
Gc ==
    /\ Running /\ Len(collecting) < 2
    /\ IF m_blocked_gc
       THEN /\ heap' = [heap EXCEPT !.m_force_gc = TRUE]
            /\ UNCHANGED <<m_blocked_gc, objectVars, stringVars,
                           frames, handles, qobjectVars>>
       ELSE Collect(heap, TRUE)

(* deletePendingQObjects() deletes one.                                    *)
DeletePending ==
    /\ m_qobjectsToBeDeleted # <<>>
    /\ m_qobjectsToBeDeleted' = Tail(m_qobjectsToBeDeleted)
    /\ Destroyed(Head(m_qobjectsToBeDeleted))
    /\ UNCHANGED <<gcVars, objectVars, stringVars, frames, handles, collecting, bound>>

(* The rest of maybeGC_helper(): strings that are not marked are deleted.  *)
Finish ==
    /\ collecting # <<>> /\ m_qobjectsToBeDeleted = <<>>
    /\ IF Last(collecting)
       THEN strings' = strings \cap used /\ used' = {}
       ELSE UNCHANGED stringVars
    /\ collecting' = Front(collecting)
    /\ UNCHANGED <<gcVars, objectVars, frames, handles, m_qobjectData, alive,
                   m_qobjectsToBeDeleted, bound>>

Next ==
    \/ NewObject \/ NewString
    \/ \E v \in Value : Load(v) \/ TakeHandle(v) \/ DropHandle(v) \/ UseHandle(v)
    \/ \E v \in Top.held : Drop(v)
    \/ \E b \in Top.held \cap Block, v \in Top.held : Store(b, v)
    \/ \E b \in Top.held \cap Block : \E v \in members[b] : Delete(b, v)
    \/ \E vs \in SUBSET Top.held : Call(vs) \/ CallNative(vs) \/ Return(vs)
    \/ \E q \in alive :
          \/ \E own \in Ownerships, prefer \in BOOLEAN : WrapQObject(q, own, prefer)
          \/ \E slot \in Top.held \cap Block :
                \/ \E w \in (Top.held \cap DOMAIN wraps) \cup {0} : Connect(q, w, slot)
                \/ Disconnect(q, slot)
          \/ \E i \in DOMAIN DataOf(q).connections : Emit(q, i)
          \/ DeleteQObject(q)
    \/ \E much, do_string_gc \in BOOLEAN : MaybeGC(much, do_string_gc)
    \/ Gc \/ DeletePending \/ Finish

Spec == Init /\ [][Next]_vars

(* The same with wrappers of QMetaObjects.                                 *)
SpecMeta == Init /\ [][Next \/ NewMetaObject]_vars

-----------------------------------------------------------------------------
(* What can still be reached: from the roots, from the values in the C++   *)
(* variables of native functions, from the connections of signals, and as  *)
(* the existing wrapper that newQObject() prefers.                         *)
InHand ==
    Roots \cup UNION {frames[i].held : i \in DOMAIN frames}
          \cup UNION {{c.slot, c.sender} \ {0} :
                         c \in UNION {Range(DataOf(q).connections) : q \in QObject}}
          \cup UNION {DataOf(q).wrappers : q \in QObject}

RECURSIVE ReachableFrom(_, _)
ReachableFrom(vs, seen) ==
    LET next == UNION {members[b] \cup ({prototype[b]} \ {0}) : b \in vs \cap Block}
    IN  IF vs \subseteq seen THEN seen ELSE ReachableFrom(next \ (seen \cup vs), seen \cup vs)

(* Whatever a script, C++ code or a signal can still get at is there: no   *)
(* object and no string is disposed of while it is reachable, whatever is  *)
(* connected, deleted or called from native code when the collector runs.  *)
OnlyUnreachableDisposed == ReachableFrom(InHand, {}) \subseteq Live \cup strings

(* The two lists of the heap share out the blocks of the pool, the list in *)
(* use ends with m_current, and its blocks are of one generation (those    *)
(* that are not would never be marked again).                              *)
HeapSound ==
    LET list == InUse(heap)
        live == Range(list)
        free == Range(Free(heap))
    IN  /\ live \cap free = {} /\ live \cup free = 1 .. heap.pool
        /\ list # <<>> /\ Last(list) = heap.m_current /\ heap.next[heap.m_current] = 0
        /\ \A b \in live : heap.generation[b] = 0

(* A QObject that waits for its deletion is still there: none is deleted   *)
(* twice, or after its parent.                                             *)
DeletedOnce == Range(m_qobjectsToBeDeleted) \subseteq alive

(* A collection leaves no garbage behind: what is in use then was          *)
(* reachable before, from a connected function if not from elsewhere (a    *)
(* wrapper of a QObject that the script owns does not count for itself).   *)
Connected ==
    UNION {{c.slot} \cup {b \in {c.sender} \ {0} : ~ScriptOwned(b)} :
              c \in UNION {Range(DataOf(q).connections) : q \in QObject}}

NoGarbageLeft ==
    [][Len(collecting') > Len(collecting)
         => Live' \subseteq ReachableFrom(Roots \cup Connected, {})]_vars
=============================================================================
