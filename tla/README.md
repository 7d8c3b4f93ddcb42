# Qt Solutions in TLA+

Qt Solutions is a collection of add-ons for Qt 4. Six of them hold protocols between processes, between
threads, between an object graph and its display, or between a program and a garbage collector. This
directory models those: `QtLockedFile`, `QtSingleApplication`, `QtService`, `QtPropertyBrowser` (its core,
its property managers, its three browsers and their editors) and the memory of `QtScriptClassic`. Each module
says which code it translates, and `PROJECT.json` maps each definition to its lines.

Paths below are relative to the repository.

## 1. The system and its parts

| Part | State | Operations | Talks to | What is hard | What makes it correct |
|---|---|---|---|---|---|
| **QtLockedFile, Unix** `qtlockedfile/src/qtlockedfile_unix.cpp`, `qtlockedfile.cpp` | open mode, `m_lock_mode`; in the kernel one record lock per process | `open`, `close`, `lock`, `unlock`, destructor | the kernel (`fcntl`), other processes through it | a cached mode beside the kernel's state, conversions that give up a lock first, crashes, failing system calls | the cached mode is true; locks of several objects exclude each other; no upgrade deadlock |
| **QtLockedFile, Windows** `qtlockedfile_win.cpp` | handles of a write mutex and up to `MAX_READERS` reader mutexes | as above, in several kernel calls each | named mutexes of all processes | readers come and go while a writer collects their mutexes; timeouts half way; abandoned mutexes | as above; nothing left behind by a failed call; no starvation |
| **QtLocalPeer, election** `qtsingleapplication/src/qtlocalpeer.cpp` 66-136 | lock file, `QLocalServer`, socket path in the file system | constructor, `isClient`, destructor | a `QtLockedFile`; the file system | stale socket of a crashed instance, an instance that exits while the next one starts | one running instance, and it can be reached |
| **QtLocalPeer, messages** 139-212 | two ends of a local connection | `sendMessage`, `receiveConnection` | the peer, through bytes that arrive in pieces | timeouts on both sides, crashes, clients that give up | `true` means delivered, order, every call returns |
| **QtSingleApplication / QtSingleCoreApplication** | a `QtLocalPeer`, the activation window | forwarding | QtLocalPeer | nothing beyond the above | as QtLocalPeer |
| **QtService, Unix** `qtservice/src/qtservice_unix.cpp`, `qtunixserversocket.cpp` | socket path, listening socket, connections, `quit` | `start`, `sendCmd`, `slotReady`, `sysSetPath`, `sysCleanup` | controllers over the socket | look-then-start, the path unlinked by two processes, waits without a timeout | a service that runs can be reached, also by the next start after a crash; every call returns; a stop stops |
| **QtService, Windows** `qtservice_win.cpp` | status, two semaphores, mutex, condition, event queue | `start`, `serviceMain`, `handler`, `handleCustomEvent` | the service control manager (SCM) | three threads, one condition variable for all of them, waits without a timeout | no lost wake-up, the reported status is true and ends with STOPPED |
| **QtService, command line and registration** `qtservice.cpp` | arguments, `QSettings` or the SCM's database | `exec`, `install`, `uninstall` | the parts above | little: one call after the other | the right branch is taken |
| **QtPropertyBrowser core** `qtpropertybrowser/src/qtpropertybrowser.cpp` | graph of properties; items, registered parents, current item | `insertSubProperty`, `removeSubProperty`, `~QtProperty`, `insertProperty`, `removeProperty` | managers, whose signals the browser follows | properties shared by several parents, signals sent before or after the change they tell of, plain pointers | the items are the tree of the properties; no cycle; no pointer to what is destroyed |
| **Property managers** `qtpropertymanager.cpp` | value, range, constraint or names of a property; its parts, which other managers keep | `setValue`, `setRange`, `setConstraint`, `setFlagNames`, slots for changed and destroyed parts, the font database's timer | managers of the parts, through signals sent from within setters | a setter calls itself through its parts' signals, parts destroyed by others, indices into names that are exchanged | value within its range; value, parts and what listeners heard agree |
| **Group box and button browser** `qtgroupboxpropertybrowser.cpp`, `qtbuttonpropertybrowser.cpp` | tree of widget items, rows of grid layouts, a queue of items that wait for a row | `propertyInserted`, `propertyRemoved`, `slotUpdate` (timer), `setExpanded`, `slotToggled`, `slotEditorDestroyed` | the core's items, a timer, editors owned by others | rows computed from lists that change, items without a widget until the timer fires, shared fields | each item has its row, in order, and its widgets in it |
| **Tree browser, delegate and editor factories** `qttreepropertybrowser.cpp`, `qteditorfactory.cpp` | tree items with flags, current item, open editors, maps between properties and editors | insertion, removal, enabling, editing, closing, `deleteLater()` of editors, `setValue`, `setRange` | the core, managers, other browsers with the same factory | an editor outlives its item, its property or its successor; recursion over flags that stops early | flags follow properties, editors are valid and show the value, the current item exists |
| **QtScriptClassic, memory** `qscriptgc_p.h`, `qscriptengine_p.cpp`, `qscriptextqobject.cpp`, `qscriptvalue.cpp` | allocator lists, generations, mark stack, handles, registered wrappers, connections, pending deletions | allocation, marking, sweeping, native calls, handles, `newQObject`, `connect`, signal emission, destruction of QObjects | scripts, C++ code, QObjects and their signals | values in C++ variables are no roots, weak references, bounded recursion, destructors that run in the middle | disposes of what is unreachable, and of nothing else |
| **QtVariantPropertyManager and -EditorFactory** `qtvariantproperty.cpp` | maps from outer to inner properties | forwards by type | the managers | - | - |
| **QtSoap** `qtsoap/src/qtsoap.cpp` | message trees; one HTTP reply | parsing, `submitRequest` | Qt's network classes | a reply that comes after the next request | one response for each request |
| **QtBrowserPlugin** `qtbrowserplugin/src` | instance, streams | NPAPI callbacks | the browser | order of the callbacks | no use after `NPP_Destroy` |
| **QtScriptClassic, language** `qtscriptclassic/src` | an ECMAScript implementation | parsing, execution | - | generated parser | - |
| **QtWinMigrate, QtRangeSlider, QtLed, QtSwitch** | window handles; two slider positions; one boolean | - | - | focus between two event loops; span of the two values | - |

`QtLocalPeer` uses `QtLockedFile` (a copy of it in `qtsingleapplication/src`); the other add-ons are
independent of each other. Everything that can go wrong and that a test would hardly reach is
listed under `hazards` in `PROJECT.json`, at the line where it bites.

## 2. Modules

| Module | Models | Uses |
|---|---|---|
| `AdvisoryLock` | what `QtLockedFile` promises: locks of objects, a write lock excludes all others | |
| `LockedFileUnix` | `QtLockedFile` over `fcntl` | implements `AdvisoryLock` |
| `LockedFileWin` | `QtLockedFile` over named mutexes | implements `AdvisoryLock` |
| `PeerElection` | `QtLocalPeer`: who is the running instance | an `AdvisoryLock` |
| `PeerMessage` | `QtLocalPeer`: messages to the running instance | |
| `ServiceUnix` | a service's processes, its socket path and its controllers | |
| `ServiceWin` | the three threads of a service process | |
| `PropertyBrowser` | the property graph and the browser's items | |
| `SimpleProperty` | the managers of integers and of enumerations: data of one property as a function of the call | |
| `RectManager`, `SizeManager`, `LocaleManager`, `FontManager`, `FlagManager` | a property of these managers with its parts | `SimpleProperty` |
| `PartsManager`; `PointManager`, `SizePolicyManager`, `ColorManager` | a manager that only keeps value and parts equal, and three such | `SimpleProperty` |
| `PropertyManagers` | one property of any of these kinds | the eight above |
| `WidgetItems` | what the group box browser and the button browser share: tree of items, queue, rows | |
| `GroupBoxBrowser`, `ButtonBrowser` | the handlers of each | `WidgetItems` |
| `BoxBrowsers` | a browser of either kind | the two above |
| `TreeEditing` | tree items, current item, editors and their factory | `SimpleProperty` |
| `ScriptHeap` | `GCAlloc`: the lists of blocks, sweeping | |
| `ScriptGC` | roots, references, marking, wrappers of QObjects, deferred deletion | `ScriptHeap` |
| `LockedFileUnix_proofs`, `LockedFileWin_proofs`, `LocalPeer_proofs`, `ServiceUnix_proofs`, `ServiceWin_proofs`, `PropertyBrowser_proofs`, `TreeEditing_proofs`, `BoxBrowsers_proofs` | theorems about the module they are named after, `LocalPeer_proofs` about `PeerElection` and `PeerMessage` | |
| `MC...` with their `.cfg` | instances for TLC | |

Definitions named *Mutant* are wrong versions of the definition next to them. They are used by no
specification: putting one in its place shows that a property notices the difference.

### AdvisoryLock, LockedFileUnix

`held[o]` is the mode of object `o`; it may be acquired if it is compatible with all others, and released.
`LockedFileUnix` has for each object the `QFile`'s open mode (`access`) and `m_lock_mode` (`mode`), and for
each process the record lock of the kernel (`os`). `lock()` is two steps, as there is a system call in
between that may block: `lock` does what comes before it (the check of the open mode, the return when the mode is held
already, the `unlock()` of a conversion, line 61), then `LockGranted` or `LockRefused` is the outcome of
`fcntl`. Record locks belong to the *process*: what one object of a process locks, another one can lock again
and release. `ProcOf` says which objects share a process.

### LockedFileWin

One action for each call of the kernel: `lock()` waits for the mutex W (`WaitW`), a reader then takes
the first free reader mutex and gives W back (`ReaderOpen` to `ReaderLeave`), and a writer collects the handles
of all reader mutexes that exist and waits for them with W in hand (`WriterCollect`, `WriterWaitAll`). Mutexes exist as long as somebody has a
handle; the mutexes of a crashed thread are abandoned and the next wait gets them. An object stands for a thread, since
mutexes belong to threads.

### PeerElection

`role` walks through `isClient()`: try the lock, listen, remove the path if it is in use, listen again. `path` is
the entry of the file system: it leads to a process, to nobody (`"stale"`, after a crash), or is not there. The
destructor of `QtLocalPeer` destroys the lock file first (a member) and the server afterwards (a child
object); these are two actions, `Unlock` and `CloseServer`. Processes exit and crash at any point. `OpenFails` says whether
the lock file may fail to open, and `ListenErrors` which processes may fail to listen for other reasons than a path in use.

### PeerMessage

A message is the pieces that have been read: nothing, its header, a part, all. Each client is in a step of
`sendMessage()`, the running instance in a step of `receiveConnection()`, and a connection is between them in
the backlog of the listening socket. Timeouts may fire at any point where the code has one. `MaxSends` and
`Backlog` bound the model.

### ServiceUnix

The path is the same kind of object as in `PeerElection`. A process goes through `sysSetPath()`
(`UnlinkOld`, `Bind`, `Listen`), the event loop, and `sysCleanup()` (`CloseListener`, `UnlinkOwn`, `DeleteSysd`).
`SlotStart` is the queued `slotStart()`, and `SlotReady` one command and its reply. A client's call is a connection, `conn[c]`, that is queued, then
accepted, then answered. `start()` is the command `alive` and, if nobody answers, `FindNobody` and
`Spawn`. `orderly` is a history variable: TRUE until a start overlaps with another start or with an exit.

### ServiceWin

`main` is the thread of `start()` and the event loop, `svc` the SCM's thread in `serviceMain()`, `disp` the
`HandlerThread`. `start()` may give up waiting (`GiveUp`) or get no application (`CreateFails`). Both other threads call `handler()`: lock the mutex, set the pending status, post an event (`Enter`), wait on the
condition (`Wait`, `Awake`), set the final status, report (`Report`). `HandleEvent` and `WakeAll` are the two halves of
`handleCustomEvent()`. The SCM is an environment (`Deliver`): it sends the controls that the service accepts, one at a time,
none while the service is about to start or stop, and none after SHUTDOWN.

### PropertyBrowser

`sub` and `parents` are the two directions of the graph; `sub[Browser]` is the list of top-level
properties. An item is the path of properties that leads to it, and `children` gives each item its list.
`toParents` is `m_propertyToParents`, which the browser consults before it heeds a signal. An operation is one step with all the
slots it calls, since the slots are called directly and in one thread. The recursions of the code
(`insertSubTree()`, `createBrowserIndex()`, ...) are written as what they visit: `Descents(p)` is every way down
from `p`, `Below(p)` the least set with `p` that has the sub-properties of its members, and `Unregistered` the least set that
`removeSubTree()` must unregister. A least set can be reasoned about without induction over the recursion. The connections to the managers need no variable: the browser is connected to a manager while a
property of it is registered, and each slot checks the registration again. `clear()` of
a manager is `Destroy` repeated, `clear()` of the browser `removeProperty` repeated.

### The property managers

A call is one step: `setValue()` and the others run to their end with everything that the signals they send call in
turn, so that they are recursive operators on the record of the property. The record has the value, the range or the like,
the data of each part in the part's own manager, the parts that have not been destroyed (`live`), and what listeners heard
last (`heard`, and `shown` for the editors of the parts). Parts change by the program or an editor (`EditPart`) and may be destroyed
(`DestroyPart`), as `slotPropertyDestroyed()` provides for. `FontManager` adds the font database, which changes
at any time, and the timer slot that reads it anew.

### GroupBoxBrowser, ButtonBrowser

`WidgetItems` has the fields of `WidgetItem` (`item`), the lists of children, and for each widget that is in a grid layout its row (`at`). Insertion
and removal move rows as `insertRow()` and `removeRow()` do. `m_recreateQueue` holds the items whose box was deleted; `slotUpdate()` gives them a
label again. It is a set here: the code appends an item only if it is not in the list, and the rows that `slotUpdate()` computes do not depend on the
order of the list.

### TreeEditing

`on` is the item flag, `view` the editor the `QTreeWidget` has open on an item, `editor` all editors that exist, with
what they show; `m_propertyToEditor` is the delegate's map. An editor that is closed is `dying` until `DeferredDelete`. Enabling
recurses in the code; here the set of items whose flag changes is given. `OpenElsewhere` and `CloseElsewhere` are the
editors that another browser has from the same factory.

### ScriptHeap, ScriptGC

A block is in use or free, and the lists chain through the blocks (`next`); marking compares the generation of a block with that of the
collection. `ScriptGC` lets a script load, store, delete and drop references, call native functions, which block the
collector while they are on the stack, and lets C++ code keep handles, wrap QObjects, connect signals, emit them and delete
QObjects. `Marking` gives the generation of every block after `markFrame()` and the mark stack, `Collect` is
everything up to the sweep, and `Finish` the deletion of QObjects and of strings after it. `Bounds` is a set of scenarios: each
limits how many strings, QObjects, handles, connections and native frames a behaviour may use, so that each
combination of two or three mechanisms is explored in full.

## 3. What the runs check

All passing runs explore their whole state space.

| Run | Instance | Shows |
|---|---|---|
| `locked_file_unix` | 3 processes, 1 object each; `fcntl(F_SETLK)` may fail | `LockModeIsHeld`, `NoOrphanLock`: the cached mode and the kernel agree after failures and crashes. `NoUpgradeDeadlock`: two upgrading readers do not block each other. `ImplementsAdvisoryLock` |
| `locked_file_win` | 3 objects, 2 reader mutexes; crash anywhere | `MutexesFollowMode` (the mutexes owned are those of the lock mode, and a failed call leaves nothing behind), `BlockingLockObtains`, `ImplementsAdvisoryLock`; under fairness `LockReturns` (every call returns, no writer starves) |
| `peer_election` | 3 processes; exits and crashes anywhere, the lock file need not open, 2 servers may fail to listen | `OneRunningInstance`. `NobodyElseReached`: while the running instance listens, the path leads to it or to nothing. `CutOffByExitOnly`: it loses the path only to the exit of an earlier instance. `RoleBecomesReachable`: whoever takes the role gets the path, stale socket or not, if its server can listen |
| `peer_message` | 2 clients; everything may time out or crash | `TrueMeansDelivered`, `CutOnlyIfAbandoned`, `InOrder`, `CallsReturn` |
| `service_unix` | 2 processes, 2 clients; starts overlap with each other and with exits | `PathFollowsService`: a service that runs can be reached, after crashes too, until starts have overlapped, and one that exits removes its path. `StartTakesOver`: whatever earlier starts, exits and crashes have left, the next start makes a service that can be reached. `CommandsComplete`: every call returns, a stop ends the service |
| `service_win` | 1 process, all flags and controls | `StatusFollowsService` (with one waiter on the condition at most), `StopIsFinal`, `RequestsComplete` (handlers return, a STOP stops, `start()` ends) |
| `property_browser` | 4 properties | `NoCycles` (and no pointer to a destroyed property), `ItemsMirrorProperties`, `RegistersWhatItShows` |
| `property_managers` | one property of each of eight kinds, with a few values | `PartsFollow`, `ValueFits`, `ListenersKnow`, `SetValueObeys`, `DatabaseKeepsFamily` |
| `box_browsers` | 4 items in either browser | `RowsInOrder`: rows and lists agree. `WidgetsPlaced`: an item has the widgets of its state, in its row, or waits in the queue |
| `tree_editing` | 2 properties, 3 items, 2 editors | `FlagsFollow`, `OpenEditorsValid`, `EditorsAgree`, `CurrentAgrees` |
| `script_gc` | 6 scenarios | `OnlyUnreachableDisposed`, `HeapSound`, `DeletedOnce`, `NoGarbageLeft` |
| `script_gc_prototype` (violation) | with wrappers of QMetaObjects | `OnlyUnreachableDisposed` fails: the prototype of a QMetaObject wrapper is freed while it can be read |

**Bounds.** Three lock holders are a reader, a second reader and a writer, the smallest number at which a writer
can meet one reader that leaves and one that stays, and two reader mutexes are fewer than that, so that they run
out. Three instances are one on its way out, one that takes over and one that asks or crashes. Two services are an old and a new
one. Two clients compete for a server that handles one connection at a time, and one of them sends twice, so that an
abandoned connection is followed by another of the same client. The service of the run has no flags (`FlagSets`), so that `terminate` is
granted and `pause` is not; each combination of the flags would be explored apart from the others, and starts and exits do not depend on it. Four properties are the first number with a
diamond (a property that is shared by two parents below a common one), and with one that is displayed at different
depths; the bound `Cardinality(Exists)` on the length of a descent is no restriction as long as `NoCycles` holds,
and on a cyclic graph it would break `NoCycles` first. `SYMMETRY` is used in `property_browser` and
`box_browsers`, which have no liveness property and whose definitions choose nothing arbitrarily.
The values of the managers are the smallest ranges in which each border can be below, at and above a value, with two
languages that share their countries, four font databases of which each lacks a family of another, and flag names that grow,
shrink and change places. Four items of a box browser are the first number at which an item has a sibling before it, one after it and a child.
Three tree items are two for one property, one of them below the item of another property, and two editors are the tree's and
another browser's. Each scenario of `script_gc` has the blocks that its mechanisms need and one more, which is what a
wrong step would free or reuse.

**Fairness.** Weak fairness of the steps a thread takes by itself: a process inside a library call is scheduled,
a wait with a timeout ends, and an event loop runs. Nothing is assumed about users, applications, the SCM or crashes.
Strong fairness is assumed for `WaitW` only: Windows hands a mutex to its waiters in turn. `WF(unlock)` says that an
application does not keep a lock for ever; without it no lock can promise anything. In `ServiceUnix` clients get no
fairness except for reading a reply that is there.

**Deadlock** is checked except in `PeerMessage`, whose clients stop after `MaxSends` messages.

## 4. What is proved

| Theorem | Says | Assumes |
|---|---|---|
| `LockedFileUnix_proofs!TypeCorrect` | types | |
| `LockedFileUnix_proofs!LockModeCorrect` | `LockModeIsHeld` | one object per process (`OneObjectEach`), no `close()` of a locked file (`~CloseLocked`) |
| `LockedFileUnix_proofs!Exclusion` | a write lock excludes all others | the same |
| `LockedFileUnix_proofs!Refinement` | `LockedFileUnix` implements `AdvisoryLock` | the same |
| `LockedFileUnix_proofs!NoLockIsOrphaned` | `NoOrphanLock`: a lock the kernel holds for a process is known to an open object that can release it | |
| `LockedFileUnix_proofs!UpgradesDoNotDeadlock` | `NoUpgradeDeadlock` | one object per process, unlocking does not fail |
| `LockedFileWin_proofs!MutexesCorrect` | `MutexesFollowMode` | |
| `LockedFileWin_proofs!Refinement`, `!Exclusion` | `LockedFileWin` implements `AdvisoryLock`; a write lock excludes all others | a mutex that exists can be opened (`~OpenErrors`) |
| `LockedFileWin_proofs!BlockingLock` | `BlockingLockObtains` (an action property) | mutexes can be opened and created (`~OpenErrors`, `~CreateErrors`) |
| `LocalPeer_proofs!ElectionTypeCorrect`, `!OneInstance` | types; at most one instance has the role, and it has the lock | |
| `LocalPeer_proofs!OnlyInstanceReached` | `NobodyElseReached`: while the running instance listens, the path leads to no other process and to no dead socket | |
| `LocalPeer_proofs!OnlyExitCutsOff` | `CutOffByExitOnly` (an action property): the workaround for stale sockets, failures and crashes of others leave its path alone; only an earlier instance that closes its server takes it | |
| `LocalPeer_proofs!MessagesInOrder` | `InOrder`: no message of a sender is emitted before an earlier one, or twice | |
| `LocalPeer_proofs!TrueIsDelivered`, `!CutIsAbandoned` | `TrueMeansDelivered`, `CutOnlyIfAbandoned` | no client pauses for 2 s in mid-message (`~Stalls`) |
| `ServiceUnix_proofs!TypeCorrect` | types | |
| `ServiceUnix_proofs!PathTellsTruth` | `PathFollowsService`: the path of a service in its event loop survives crashes and stale paths, as long as starts have been `orderly`; an exit always removes it | |
| `ServiceWin_proofs!StatusCorrect`, `!StopReported` | `StatusFollowsService`; `StopIsFinal` (an action property): of a service that ends because it was told to stop, nothing is reported after STOPPED | |
| `PropertyBrowser_proofs!NoCycleEver` | `NoCycles`: no property below itself, no pointer to a destroyed property | |
| `PropertyBrowser_proofs!Mirror`, `!Registers` | `ItemsMirrorProperties`, `RegistersWhatItShows` | top-level properties are inserted after top-level ones (`~ForeignAfter`) |
| `TreeEditing_proofs!EditorsInStep`, `!OpenEditors` | `EditorsAgree`, `OpenEditorsValid` | an editor is opened when the one before it has been destroyed (`~Overlapping`) |
| `TreeEditing_proofs!CurrentItem` | `CurrentAgrees` | |
| `TreeEditing_proofs!Flags` | `FlagsFollow` | the items are trees (`ItemsAreTrees`) |
| `BoxBrowsers_proofs!RowsAreInOrder`, `!WidgetsArePlaced` | `RowsInOrder`, `WidgetsPlaced` | no editor that heads a box is destroyed by others (`~HeadersDie`), no item that lost its last child while expanded gets another (`~ReusesExpanded`) |

They hold for any number of processes, objects, mutexes, clients, messages, properties, items, widgets and editors. The assumptions are
the values that the runs give the same constants, and section 6 says what happens without them; `ItemsAreTrees` is what the
constants `Parent` and `PropertyOf` mean, and TLC evaluates it. The lines of argument:

* *LockedFileUnix.* `IInv` adds to the types that the kernel's locks are compatible with each other
  (`KernelExclusion`), that `m_lock_mode` is the kernel's lock (`LockModeIsHeld`) and that a call in progress has an
  open file. The exclusion of the cached modes is not inductive by itself, since `LockGranted` looks at the kernel
  only: it follows from the other two. Each step then maps to `Acquire`, to `Release` or to a stutter. That no lock is orphaned needs
  no rule for the application: whatever releases or closes keeps the pair of them. An upgrade gives up the read lock before it waits
  (`WaitsWithoutLock`), unless the `F_UNLCK` fails.
* *LockedFileWin.* `IInv` says who owns each mutex as a function of the mode and of the point in `lock()` (`OwnerInv`), and the same of
  the handles (`HandleInv`): a mutex has one owner, so that `MutexesFollowMode` follows. For the refinement, a writer that has W must have a
  handle of the mutex of each reader, up to the number it looks at next (`ReadersSeen`); this is where a mutex that exists and cannot be
  opened would break it. Mutual exclusion is then proved of `AdvisoryLock` and inherited.
* *PeerElection* (in `LocalPeer_proofs`)*.* The role is taken with the write lock in hand (`RoleHasLock`), and write locks exclude each other
  (`LockExclusion`). `Reach` adds who listens besides the running instance: only processes in `closing`, which have given up the lock, and the path leads to one of them only until the
  new instance has bound it. So the path that `RemovePath` removes is never that of a running instance, and the one step that can take it is `CloseServer`.
* *PeerMessage* (in `LocalPeer_proofs`)*.* A connection is a pair of a client and the number of its call. What was emitted, what is being read and what
  waits are, in this order, in the order of the calls (`OrderInv`), and all of them were connected (`PastInv`), so that the next
  connection is later than any. For `TrueMeansDelivered`, `AckInv` says that the loop that reads a message ends only when it is complete or
  its sender has gone, and that an acknowledgement is on its way to the signal.
* *ServiceUnix.* The first half of `PathFollowsService` needs that there is one process at a time (`OneService`) while starts are orderly. For this there is at most one client in `start()` (`OneStarter`), a client that
  is about to spawn has seen nobody (`NoneLeft`), and a process that starts up is the only one (`NoStartup`); `PathInv`
  follows the path through `sysSetPath()`. A start that overlaps is never forgotten (`OrderlyStep`), so that the invariant holds before each orderly step. For the other half
  it is enough that the path leads to a process only from `bind()` to its `unlink()` (`OwnPathInv`), which holds however starts overlap.
* *ServiceWin.* There is one condition for two threads that wait. The proof is that only one ever does: while `svc` starts the service, the
  status is START_PENDING or STOPPED and the SCM sends nothing (`StartingInv`). Given that, each event is in the queue until
  `handleCustomEvent()` has taken it (`QueueInv`), what it did is what the thread that is woken reports (`HandledInv`, `StatusInv`), and after a
  stop no thread is left that could report another state (`QuitInv`).
* *PropertyBrowser.* `IInv` has the types (no list has a property twice), `Acyclic`, `ParentsAgree`, `ParentsShown` and
  `ItemsArePaths`. `RegistersWhatItShows` is not inductive, since the slots look at the graph and not at the items: `ParentsShown` states it
  by the graph instead (the registered parents of a property are those of its parents that are below the browser), and `ItemsArePaths` relates
  the items to the graph (they are paths in it, closed under prefixes, and the children of an item are the items one step longer).
  `SameOrder` is kept apart, as it needs `~ForeignAfter`. The induction over the recursions of the code is done with least sets: a set with `p`
  that is closed has everything below `p` (`BelowLeast`), an edge that closes no cycle adds to what is below its upper end only (`NewEdge`), a finite acyclic
  graph is well-founded (`WellFounded`), and what `removeSubTree()` unregisters is what is no longer below the browser (`UnregisteredIs`).
* *TreeEditing.* Every editor not on its way out is told each change, so that `EditorsAgree` breaks only if one outlives
  its property: the editors of a property are dying, open on an item of it (`ViewCurrent`), or those of other browsers, and all three
  go with it. `OpenEditorsValid` needs that the delegate's map leads to an editor of the property (`MapAlive`), that only the current item has an
  editor, and that no dying editor shares its property with an open one (`NoOverlap`), for the end of the one removes the
  map's entry for the other. `CurrentAgrees` is inductive by itself. For `FlagsFollow`, `FlagInv` adds that each item has its
  property and the item above it; the path of an item is the least set with it that has the parents of its members.
* *BoxBrowsers.* The code never compares rows: it computes the row of a new widget from the lists of children, and trusts the layout to have moved those
  it put there before. `Place` is the row of an item as the tree has it: what the siblings before it take (`Rows`, two for an unfolded one), and the
  header. The invariant says that the row kept for a widget is its `Place`, or one more for a container (`LayoutsAgree`), that an item has the widgets of
  its state (`ItemsFit`), and that the queue has only items that exist, with the timer due (`Waiting`). A change cuts one layout below an item: the widgets from the cut on
  are those of the items after it (`CutRows`), each of their `Place`s moves by the rows that come or go (`PlacesInserted`, `PlacesRemoved`,
  `PlacesWiden`), and so do the rows in the layout (`RowsMoved`). That an item keeps its place in the list while it waits without a widget
  is what makes `slotUpdate()` find its row again. Both assumptions are needed: either case lets `Place` change without a cut. TLC finds the invariant kept on the instance of
  `box_browsers` too.

Model-checked only:

* the liveness properties (`LockReturns`, `RoleBecomesReachable`, `CallsReturn`, `StartTakesOver`, `CommandsComplete`, `RequestsComplete`, `NoGarbageLeft`), which are beyond
  the prover;
* the managers (`PropertyManagers`) and the collector (`ScriptGC`): a setter that calls itself through signals, and the marking of
  reachable blocks, are written with recursive operators, which the prover does not handle.

## 5. Abstractions

* **Kernel and libraries** (marked external in the map): `fcntl` locks belong to a process and are released when it
  closes any descriptor of the file; named mutexes belong to a thread and are abandoned when it ends; a path of a local
  socket stays when its owner crashes and is replaced only after an unlink; a connection to a full backlog waits.
* **File contents, message contents, names, log output, icons and texts** are left out.
* **QtService, Unix**: commands arrive whole; the client side does not crash; `pause` stands for `resume` as well; the
  registration in `QSettings` is left out, and a backlog of 5 is never full with two clients.
* **QtService, Windows**: the start of the process by the SCM, the event log and the controller (single SCM calls) are left
  out; flags do not change at run time; `setStatus()` in `handler()` is one step, the one in `start()` is two
  (assign, report), since it holds no mutex.
* **QtPropertyBrowser**: one browser; the current item, editor factories, values and names are left out; callers
  insert after a top-level property or at the front (`ForeignAfter = FALSE`).
* **Property managers**: texts, icons, steps, decimals and read-only flags are left out; a value is one of a few, a family or a country a
  name. Fonts have their size in points (section 6). Properties of one manager share nothing but the font's names, so that one is modelled. Parts are destroyed where
  the manager copes with it: see section 6 for the others.
* **Box browsers**: what `updateItem()` writes on the widgets is left out; a layout is what stands in its rows. Cases in which the code is known to
  go wrong are excluded by `HeadersDie` and `ReusesExpanded` (section 6).
* **Tree browser**: painting, columns, colours and visibility are left out; `QTreeWidgetItem::setFlags()` sets the flags of that
  item only. A factory is that of spin boxes; the others differ in their editors.
* **QtScriptClassic**: a reference is a reference, whether a member, a prototype or a scope; generations are relative to the engine's; the
  receiver of a connection is marked as its slot is; the activation object of a signal's handler is left out; when the thresholds for strings and
  bytes are reached is left open. What the language makes of values is any sequence of loads, stores and calls.

## 6. Observations on the code

One disagreement is a finding with a run (`script_gc_prototype`). Met on the way, with the constant or the definition that makes TLC show it
where there is one:

* `PeerElection`, `RunningIsReachable` (violated in the instance of `peer_election`, and with two processes and no failures as well): the lock is a member and the server a child of
  `QtLocalPeer`, so that the lock goes first. A process that takes the role in between removes the path, as if it were stale, and listens; then the old instance closes its server and
  unlinks the path of the new one, which runs, is found by `isRunning()` and cannot be reached, though it is not "frozen" (`qtsingleapplication.cpp:88`).
* `ServiceUnix`, `PathFollowsService` without its condition `orderly`: two starts at the same time both find no service. Each process unlinks the path, whoever has bound it, and
  the second `bind()` may fail, which nobody looks at; one of the two services runs on without a path, where `isRunning()` "returns true if the service is running" (`qtservice.cpp:260`).
* `OpenErrors = TRUE` (`LockedFileWin`): a writer passes over a reader mutex that exists but cannot be opened (`getMutexHandle()` returns 0 for
  any error), and `ImplementsAdvisoryLock` fails, where the doc says "A read and a write lock cannot exist simultaneously on
  the same file" (`qtlockedfile.cpp:52`).
* `PeerMessage`: a client that pauses for 2 s in mid-message gets its cut message acknowledged, where the doc says that `true` means
  "sent to, and processed by, the current instance" (`qtsingleapplication.cpp:252`).
* `ServiceWin`: an application that quits in its own `start()` (`examples/server/main.cpp` if it cannot listen) makes `serviceMain()` report RUNNING
  after STOPPED (`StoppedIsFinal`); the comment at `qtservice_win.cpp:620` expects STOPPED to be the last.
* `ServiceWin`: if `createApplication()` makes no application, `start()` returns without a word to `serviceMain()`, which waits for `startSemaphore2` until the
  process is gone, and the SCM is told nothing.
* Colours: `setValue()` with a colour that is invalid or not RGB sets another one: setting the red part makes the slot call
  `setRed()` on it, which turns it into an RGB colour, and the signal then announces the one that was asked for (with
  such colours in `Colors`, `SetValueObeys` and `ListenersKnow` fail; components of 16 bits are rounded the same way).
* Rectangles: after the `w` part is destroyed (`RectDestroyable`), `setConstraint()` leaves the value without its width, though `valueChanged()` announced
  another. Locales: after the `language` part is destroyed, `setValue()` ends in the C locale. Fonts: after the family part is destroyed, a
  database change reads the names at -1 (line 5885). A font with its size in pixels (`pointSize()` -1) shows 1 point, the minimum of the
  part (line 6110; `PartsFollow` with -1 in `PointSizes`). A font that is set to a just installed family before the timer
  fires is overwritten by it, and one of an unknown family is changed by any database change.
* Group box browser, `HeadersDie = TRUE`: once the editor in a header is destroyed, rows are counted from 0 while they start at 2
  (`RowsInOrder`). Button browser, `ReusesExpanded = TRUE`: `expanded` survives the container, and a later child gets a folded container that counts as
  expanded (`WidgetsPlaced`). Its label of a new item has row span and column span exchanged.
* Tree browser, `Overlapping = TRUE`: the end of an editor that was closed removes the delegate's entry for its successor, which
  `disableItem()` then does not find (`OpenEditorsValid`).
* Scripts: a QObject owned by the script whose parent is as well is deleted twice (`DeletedOnce` with `"script"` in
  `Ownerships`). Strings that the destructor of a QObject makes while pending QObjects are deleted are lost
  (`DestructorsRun = TRUE`). A wrapper that is reached only through the connection of another QObject leaves the registry when that one is marked later, so that
  `PreferExistingWrapperObject` makes a second one. The wrapper of a sender is dropped from its connection although the slot marks it right after.
* `QtLockedFile::close()` is `QFile`'s: on Unix it drops the kernel's lock and leaves `m_lock_mode`. Any other
  descriptor of the file that the process closes does the same, and two objects of one process share one lock.
* A signal that interrupts `fcntl(F_SETLKW)` makes a blocking `lock()` return false (Unix). On Windows a blocking
  `lock(ReadLock)` returns false when all `MAX_READERS` mutexes are owned.
* `QtLocalPeer` ignores the result of `lockFile.open()`: if it fails, every process is a client of nobody.
* `sendMessage()` gets its acknowledgement before the message is emitted.
* Unix `stop()` returns true before the service is gone; a `start()` right after it finds it alive. Commands that are
  ready on other connections are handled after `quit()`, a second `stop()` included. `install()` writes
  `automaticStartup`, `startupType()` reads `startupType`.
* Windows: `QtServiceSysPrivate::instance` is not reset when the object is deleted.
* `insertProperty(p, after)` with an `after` that is not top-level enters `p` in the list of properties and creates no
  item; `addProperty()`, which inserts after the last property, then does the same to every later one
  (`ForeignAfter = TRUE` shows it).
* `QtAbstractPropertyBrowser::currentItem()` keeps a pointer to an item that is deleted; only the tree browser sets it
  anew.

## 7. Plan

Done: the lock, the single application, the service, the property browser with its managers, browsers and editors, and
the collector, in this order of importance.

1. *Proofs*: those of section 4 are done. Left are the managers and the collector. They need their recursions written as least sets, as in `PropertyBrowser`: for
   marking that is the set of blocks that are reachable from the roots, without the connections whose wrappers are given up on the way, which depend on the order of the marking.
2. An abstract specification of a service (stopped, running, paused; at most one) that `ServiceUnix` while it is `orderly` and `ServiceWin` implement.
3. The factories' tables of the browser's core (`addFactory()`, `unsetFactoryForManager()`).

### Not modelled

* QtScriptClassic's language (lexer, generated parser tables, compiler, interpreter, standard objects): sequential, and about data.
* QtSoap: the conversion between XML and typed values; its transport is one call and one slot.
* `QtServiceBase::exec()`, registration and event log: one call after the other.
* QtVariantPropertyManager repeats each manager's signals by type; the managers of simple values are a value and a
  signal, and those of floating point numbers repeat the code of the point, size and rectangle managers.
* QtWinMigrate and QtBrowserPlugin: what matters is the order of the window messages or of the browser's calls, which is not in the source.
* QtRangeSlider, QtLed, QtSwitch: widgets of one or two values, mostly painting.
* Examples (most of the lines of the collection: a canvas in two copies, demo applications, generated files), documentation and build files.

The definitions cover the parts of the code that keep state in step with something else. The greater part of the repository
paints, converts, forwards, or is a copy of other parts, and has no behaviour a state machine could add to.
