# A TLA+ model of WisePlayer

WisePlayer is a streaming video player for iOS. Its own core is a small
multi-threaded data-flow engine in C (`src/task`, `src/graph`, `src/common`), the
player that drives it in C++ (`src/VideoPlayer`), and two libraries, one for
sound (`src/Audio`) and one for graphics (`src/Graphic`). FFmpeg, cURL, OpenAL,
OpenGL ES and Direct3D do the rest. This directory models the engine, the
player, and of the two libraries what keeps state of its own.

Conventions: names are those of the source. `x.c:12` is line 12 of the file of
that name under `src/`. Every definition that stands for code is listed with
its lines under `map` in `PROJECT.json`; definitions marked `mutant` are wrong
on purpose and show that a property notices the bug described beside them.

## 1. The system

### Threads

| Thread | What it does |
|---|---|
| user | `VideoPlayer::PrepareToPlay/Start/Pause/Stop`; asks for seeks and effects; starts and stops the pipeline |
| control worker | runs `PlayerControl::TaskFunction` while the player plays: the clock; tells the status listener |
| procedure workers | one per procedure (stream, decoders, destinations), each a thread from the pool that serves the procedure's own task queue |
| audio device | OpenAL plays the buffers of a source in its own time |
| drawing thread | the display destination's worker, which also owns the graphic context |

The listener is `VideoPlayerInternal` itself, so "stop" reaches the pipeline
from the user's thread and from the control worker; the end of the stream adds a
third path, from the source procedure's worker.

### Components

**Events and event groups** (`common/include/synchronize.h`,
`common/src/platforms/IOS/synchronize.c`, `.../win32/synchronize.c`). State: a flag, a mutex and a
condition variable; a group shares one mutex and one condition variable (on Windows one
manual-reset event) among a linked list of elements taken from an object pool. Operations: set,
reset, wait; add, remove, set, wait for any, one and all. Hard: a set between test and
sleep, spurious wake-ups, several waiters of one setting, removal of an element
somebody waits for. Correct: no lost wake-up; a setting releases one waiter.

**Task queue, task processor, processor thread, thread pool**
(`task/src/task_queue.c`, `task_processor.c`, `task_processor_thread.c`,
`task_processor_thread_pool.c`). A queue keeps its tasks and a list of elements,
one for each processor that serves it; a processor keeps a group and a hash map
from elements to queues; a thread loops over `task_processor_process_task` and
can be paused, continued and destroyed; the pool keeps paused threads. Hard: queue and
processor know about each other and each has its own mutex; a processor is woken by one flag
for any number of tasks; partial failure of attaching; destroying a thread wherever it
is. Correct: the maps agree, a task is run once and none is forgotten, a thread has
one holder, every call returns.

**Pipeline connection** (`task/src/pipeline_procedure_structures.c`). Two lists
of exchange descriptors, free buffers at the source and committed ones at the
target. A thread takes a list by exchanging its pointer with NULL and spins
while it is NULL. Hard: the list is given back before the thread waits; the
front is read in one critical section and popped in another; shutdown pushes a
command into the same list; resets by a third thread. Correct: exclusion, no
lost wake-up, buffers neither lost nor doubled, data in order and unchanged, a
stop ends every wait.

**Pipeline procedure and pipeline** (`task/src/pipeline_procedure.c`,
`pipeline_procedure_task.c`, `pipeline.c`). A procedure owns inputs, outputs, one memory pool and
a task with start and end events; a pipeline lists its procedures. Hard: the
order of `is_running`, queueing, events and resets; neighbours are stopped one
after another; several inputs with one group; a pool without a lock; a step of building or
clearing that fails. Correct: start and stop return; a reset meets no working thread;
a stopped procedure is quiet; what was built is taken apart once.

**Pipeline builder and graph explorer** (`task/src/pipeline_builder.c`,
`pipeline_builder_structures.c`, `graph/src/*.c`). A best-first search over sets
of unconnected pins chooses the procedures that lead from a source to
destinations, builds and connects them, and lists them in order. Hard: costs and
ties, replacement of open nodes, undo of a failed build. Correct: if the pins
can be connected they are, at the promised cost, and nothing half-built is left.

**Player control and video player** (`VideoPlayer/src/PlayerControl.cpp`,
`VideoPlayerInternal.cpp`, `VideoPlayer.cpp`). State: the status asked for, the
status reported, an end event, a tree of destinations by progress, a progress
that grows with time. Hard: four threads write the status; the end event is
auto-reset and not counted; unsigned times; the clock waits for the slowest destination.
Correct: one control task per "Playing", no end event left over, the two stops of the pipeline
do not overlap, every call returns, clock and destinations never wait for each other.

**Source, decoders, destinations** (`VideoPlayer/src/source`, `filter`, `destination`). The stream reads
packets, takes a seek request by exchanging a pointer and asks for a stop at its end; the decoders
give frames their times; the audio destination feeds the OpenAL source; the display drops or
waits for frames and draws them with an effect; the live stream reads playlists again and again.
Correct: requests arrive once and whole, no frame is dropped without a seek, sound is heard once
and in time, segments come in order.

**Containers and allocators** (`common/src/common`): list, array list, hash table, linked hash set and
map, red-black tree, object pool, memory pool. Hard: all of an owner's containers take their blocks
from one pool; tombstones; mirrored cases of rebalancing. Correct: each is the sequence, set, map or
sorted bag it stands for, also after a failed allocation, and every block has one owner.

**Graphics library** (`Graphic/Graphic`). `GraphicResourceMgr` with the controllers that own shared
objects; layers, filter containers and the targets they borrow; 2D and 3D scenes; animations and
skeletons; a glyph cache; and a context for OpenGL ES and one for Direct3D 9, which remember what they set.
Hard: borrowed targets, state left behind from one drawing to the next, addresses that are used
again, half-made objects. Correct: what is remembered is what the library below has; a frame shows
what its layers and scenes describe; every object is created and destroyed once.

**Thin layers**: the audio library's wrappers of OpenAL, the Objective-C wrapper and the demo.

## 2. The modules

### Events and tasks

| Module | Stands for |
|---|---|
| `AutoResetEvent` | what an event promises |
| `SyncEvent` | an event over mutex and condition variable |
| `GroupState` | a group's data, what each function does to it under the mutex, and lemmas on both |
| `EventGroup` | a group and the threads that wait for it, on iOS |
| `Win32EventGroup` | the same on Windows: one manual-reset event, set and reset without the mutex |
| `TaskProcessor` (`TaskProcessorProofs`) | queues, processors and their threads; uses `GroupState` |
| `ThreadPool` | get, put and destroy of pooled threads, with the thread's own life |

### The pipeline

| Module | Stands for |
|---|---|
| `BoundedChannel` | what a connection promises |
| `PipelineConnection` (`ConnectionProofs`) | a connection between two running procedures |
| `ProcedureLifecycle` (`ConnectionProofs`) | extends it: start, stop, reset of both procedures, their tasks and events |
| `AnyInput` | a procedure that waits for any of its inputs; uses `GroupState` |
| `SharedPool` | the memory pool the lists of one procedure share, word by word |
| `PipelineBuilder` (`PipelineProofs`) | search, creation, connection and listing of a pipeline's procedures |
| `PipelineAssembly` | registering, creating, connecting, clearing and destroying, with every failure the code recovers from |

### The player

| Module | Stands for |
|---|---|
| `PlayerControl` (`PlayerControlProofs`) | user, control worker, listener and the pipeline's workers taken together |
| `Mailbox`, `RequestSlot` | what a request slot promises, and the pointer exchange that seek and effect requests use |
| `Playback` (`PlaybackProofs`) | extends `RequestSlot`: clock, source, video decoder, display and the threads that ask |
| `DestinationProgress` (`PipelineProofs`) | the tree of destinations and the slowest one's progress |
| `AudioPlay` (`PipelineProofs`) | the audio destination and the OpenAL source it plays on |
| `AudioDecoder` (`PipelineProofs`) | time stamps, formats and sizes of the audio decoder |
| `HLSDownload` (`PipelineProofs`) | playlists, segments and resets of the live stream |

### Data structures

| Module | Stands for |
|---|---|
| `PooledLists` | memory pool and object pool; list and array list, both on one pool |
| `HashContainers` | hash table, hash set and hash map on one pool |
| `RedBlackTree` | the tree, each turn of a rebalancing loop a step |
| `IOBuffer` | the ring buffer before a file that is read (the PNG loader) or a sink that is written |

### Graphics

| Module | Stands for |
|---|---|
| `GraphicResources` | `GraphicResourceMgr` and `UtilGraphicResourceController` |
| `LayerRendering` | layers, collections, filter containers and their targets |
| `SceneDrawing`, `Drawing2D` | 3D scenes, and textures, clipping and masks of 2D ones |
| `Animation`, `Skeleton` | key-frame animations and their controller; bones, actions and who deletes them |
| `GlyphCache` | the characters of a font in the slots of its textures |
| `GLESContext`, `DX9Context` | the wrappers of OpenGL ES (iPhone, and Android where it reads the same) and Direct3D 9 |
| `DisplayEffects` | the display's effects, their programs and textures |

`ThreadsProofs` proves what `MCThreads` checks of `SyncEvent` and of the threads' other parts.

`MCThreads`, `MCPipeline`, `MCStructures` and `MCGraphics` instantiate the modules of a group for
TLC and check them side by side: `part` is chosen in the initial state and says which
one a behaviour is of. The parts of the last three and of the threads have nothing to do with
each other, so nothing is lost by leaving the others where they are; `s1`, `s2`, ... are
variables that stand for those of whichever part is chosen. Where modules do interact
there is a module for it (`ProcedureLifecycle`, `Playback`, `PlayerControl`, `DisplayEffects`,
`LayerRendering`, `PipelineAssembly`).

The modules form layers, each using the one below through its promise and not
its text: `SyncEvent` justifies that the modules above treat "wait for the event
and clear it" as one step; `EventGroup` does the same for the group functions
that `TaskProcessor` and `AnyInput` use as single steps; `TaskProcessor` and `ThreadPool` justify the pool
thread of `ProcedureLifecycle`, which takes a queued task and runs it; `PipelineConnection`
the bounded sequences of `Playback`; `RequestSlot` the one-step requests of `DisplayEffects`;
`ProcedureLifecycle` justifies that `PlayerControl` treats starting and
stopping all procedures as starting and stopping one.

### PipelineConnection

`task_list[e]` and `task_ptr[e]` are the list of end `e` and the pointer by
which it is taken ("NULL" while somebody has it), `event[e]` the event that end
waits for, `desc[e]` the descriptor that the worker was handed, `data` the
contents of the buffers. The two ends run mirrored code, so the steps are
written once for an end and named per C function further down. One C function is
several steps, cut where another thread can act:

| C | Steps |
|---|---|
| `pipeline_procedure_output_get_data` / `input_get_data` | `GetLock` (exchange obtains the list), `GetHeld` (read the front, give the list back), `GetWait` |
| `..._try_get_data` | `TryLock`, `TryHeld` |
| `..._passon` / `..._moveon` | `PopLock`, `PopHeld` (own list), `PushLock`, `PushHeld` (peer's), `PushSignal` |
| `..._output_shutdown` / `..._input_shutdown` | `ShutdownLock`, `ShutdownHeld`, `ShutdownSignal` |
| `pipeline_procedure_task_stop` | `TaskStop` |

Between the exchange and the store that gives the list back nothing else touches
it, provided exclusion holds - which is what `ListExclusion` states, with the
store not assumed to be made by the holder of any lock.

### ProcedureLifecycle

Adds the task of each procedure: `queued` (it is in the queue), its two events,
and the label "parked" for a pool thread that is not executing it. `pipeline_start`
and `pipeline_stop` visit the source first. `StartQueue`, `StartRun`, `StartWait` are
the three parts of `pipeline_procedure_task_start`, in the order of the code: the
task is queued before `is_running` is set. `ResetLock` and `OutputResetHeld` /
`InputResetHeld` are the two halves of a reset.

### Events and groups

`SyncEvent` has the mutex explicit and models the POSIX calls as POSIX defines
them: `pthread_cond_wait` releases and sleeps in one step, a sleeper may wake
unasked and has to win the mutex again, a signal wakes at least one sleeper.
`EventGroup` takes each critical section as one step. `GroupState` holds the pure
part: elements in list order, flags, the first set element, the slots of the
object pool that are used again. `Win32EventGroup` cuts where Windows' event is used outside the
mutex: `pending` counts the `SetEvent` calls still to be made after the mutex was released, and a
waiter is "awake" between `WaitForSingleObject` and `ResetEvent`. `AnyInput` uses a group for the inputs
of one procedure: a `Commit` and its `Signal` are two steps, `GetData` looks at one list at a time.

### TaskProcessor and ThreadPool

`Worker` is a thread with its processor, `Client` a thread that calls. The
mutexes of processors and queues are variables because they are held across
other steps; those of the groups are not. A worker's look-up follows a pointer
into the hash map after the mutex was released; `SlotQueues` lists what it may
read then. Clients attach before they add and detach when the tasks are done,
as the procedures do, but another client's add may be under way. `ThreadPool` leaves the queues
out and has what `TaskProcessor` leaves out: the pool's array and mutex, and the two waits of a pause.

### SharedPool

Every read and write of a word of the pool is a step: `LookUp`, `Unlink`, `ReadCount`, `CountDown`, ...
are the lines of `memory_pool_alloc` and `memory_pool_free`. A list takes a block for its first
element and gives it back with its last. `Shapes` says which pins the procedure has: sources and destinations
have one list, of which one thread at a time has the pointer; in between two lists share the pool.

### PipelineBuilder and PipelineAssembly

`PipelineBuilder` is one call of `pipeline_builder_build_pipeline`, in stages. Nothing runs beside it; what
is nondeterministic is which procedures are registered and in which order (`registry`),
what the source offers, and the order in which hash tables list pins.

| Stage | Steps | C |
|---|---|---|
| "explore" | `ExplorerStep`, `ExplorerFails` | `graph_explorer_step` takes the first open node |
| "connect" | `NextPin`, `PinWithoutPartner`, `TryProcedure`, `AllTried` | `get_connected_nodes` and `create_new_node_with_...` |
| "open" | `OpenNode`, `StepEnds` | the new nodes enter the tree; has the target been explored? |
| "trace" | `TraceBack` | `build_pipeline`: `list_push_front` back to the source |
| "build" | `CreateProcedure`, `CreateFails`, `AllCreated` | `build_pipeline`: create and connect in order |
| "serialize" | `SerializeNext`, `SerializeCrashes`, `SerializeEnds` | `serialize_pipeline` |

The `..._with_output` and `..._with_input` functions and the two branches of
`get_connected_nodes` are mirror images and written once. No procedure has a pin on
both sides (an assumption of the module): for one that has, the two mirrored
functions link in different orders, and the replay, which always takes the inputs first, could
end otherwise than the search did. `Linkings` is the reference the search is compared with: the choices
of procedures that produce and consume each pin once or not at all.

`PipelineAssembly` is about ownership: what each procedure has acquired (`parts`), the state of each pin, the
connections, and the maps that own procedures. Nothing runs beside it either, so each C function is an
operator from one value of the record `ppl` to the next, and an action composes them as the code
does. `Failure` is the set of steps that may fail, and `misused` collects what was used after its release.

### PlayerControl, Playback and their neighbours

`m_internalStatus`, `m_status` and `m_endEvent` are the members of that name.
`user` and `control` are the places of the two threads. `VideoPlayerInternal::Start` is
`PipelineStart` then `StartTest`, `StartSet`, `StartAdd`; `Stop` is `StopTest`, `StopSet`,
`StopWait`, then `PipelineStop`, `PipelineStopWait`, `PipelineClear`. `TaskFunction` is the
control worker's loop, and the `Listener...` steps are `OnStatusChanged` on that
worker. `EndOfStream` is `StopAsynchronize`, called by the source's worker.
`disturbed` is a history variable: the stream has ended, or a task could not be
queued; the properties say what holds before that.

`Playback` has what `PlayerControl` leaves to chance: `UpdateRead` and `UpdateAdd` are the two halves of
`m_progress += interval`, and every comparison of times is the one of the code, modulo `Wrap`. The stream's
seek request is the slot of `RequestSlot`, and the effect request a second one, each with the steps of both sides.
Frames carry their time; a frame is shown, waited for or dropped as `GraphicDisplayDestination` decides.

`DestinationProgress` has the tree as the sequence its order yields (`RedBlackTree` shows that it is one) and `mistaken` once
an equal element made it take out another destination's pointer. `AudioPlay` cuts at each call of the audio context, because
the device goes on between two calls. `AudioDecoder` works in ticks that all rates divide. `HLSDownload`
lets the server move its window of segments at any time.

### Data structures

In `PooledLists` an operation is an operator that takes the memory and the container and gives both back, with
what the C function returns; the actions are over them, and the reference (a sequence, a set, a map) is
what the operation is compared with in the step that makes it (`SequencesStep`, `StoreStep`).
The nodes of a list are modelled with their blocks in `PooledLists` and one to a block in `HashContainers`. Growing a
hash table tries to allocate, falls back and rehashes as in the code; `Probe` is the double hashing, from the keys'
hash values. In `RedBlackTree` a turn of a rebalancing loop is an action, so the tree may be looked at in the middle of a removal
only by that removal (`fix`). `IOBuffer` is one ring with two callbacks, of which a buffer has one: the reader's calls `Get` and `SkipGet`
refill it from a file, the writer's `Put`, `SkipPut`, `Flush` empty it into a sink that may take less than it is offered. `FillRound`
is the branch of the code whose second copy has the wrong length (section 3, findings in the graphics library). Two history variables tell what happened since the
buffer was last empty: `short`, the sink took less than it was offered, and `broken`, something that was put has been lost or misplaced.

### Graphics

What the library below has (`gl`, `device`) and what the wrapper remembers are separate variables, and a call changes both
as the code does. Pixels are symbols: an image is the layer that drew it with the filters it passed, a picture the program that drew it
with the pictures it read. `LayerRendering` renders a frame in the steps of its nested calls, which it keeps on a stack
(`calls`); only the ancestors of a layer and the picture a frame should show are recursive operators. `GLESContext` and `DX9Context` have created
objects, references and, in the second, addresses. Addresses are used again, but for the one of an object that `DX9Context` remembers as set: there
the code fails (section 3), and the guards of the model leave it out. `DisplayEffects` draws a frame with what the context was left with by the previous one.

## 3. What is checked

| Run | Question | Bounds |
|---|---|---|
| `connection` | do exclusion, conservation, wake-up, same buffer and the bounded FIFO hold while both ends poll, wait and are shut down, and does every stop return and every waiter with something to do get it? | 2 buffers, 2 payloads |
| `lifecycle` | starts and stops without end: do they return, and leave no worker in a list that is reset? | 2 buffers, `MaxEntries` 2 |
| `lifecycle_start` | does a started procedure run? **No**, see below | 1 buffer |
| `processor` | do maps and events agree, is no task run twice or forgotten? | 2 processors, 2 clients, 2 queues, 5 calls, 1 task a queue |
| `processor_stranded` | is no task forgotten when two are added? **No** | 1 of each, 3 calls, 2 tasks |
| `threads` | see the table of parts | |
| `pool_race` | does a pool that two threads use at once keep its count? **No** | 3 blocks, 2 buffers, one input and one output |
| `pipeline` | see the table of parts | |
| `player_control` | do requests, executions and end events match; do calls return? | at most 2 queued executions |
| `playback` | is every request taken once and whole, no frame dropped without a seek, and does playing go on? | frames 0..2, 2 users, 2 seeks or effects |
| `structures`, `graphics` | see the table of parts | |

| Run | Part | What holds | Property | Bounds |
|---|---|---|---|---|
| `threads` | event | no wake-up lost; refines `AutoResetEvent` | `NoLostWakeup`, `ImplementsEvent` | 3 threads |
| | group | a set element, or removing the last, wakes the waiters | `NoWaitMissed`, `CallsReturn` | 2 elements, 3 threads, one of them may wait for all |
| | windows | every step is one of `EventGroup` | `ImplementsPosix` | 2 elements, 1 waiter |
| | processor | tasks are run, calls return, a pause ends | `TasksRun`, `CallsReturn` | 1 processor, 2 clients, 2 queues, 4 calls |
| | stack | a pooled thread has one holder; a thread taken out wakes up; a put returns | `PoolsSound`, `TasksRun`, `CallsReturn` | 2 threads, 2 owners, 1 kept |
| | inputs | no input is overlooked; the stop returns | `NoWaitMissed`, `CallsReturn` | 2 inputs of 1 buffer |
| | memory | one list in a pool: the list's lock guards the pool | `PoolsSound` | 3 blocks, 2 buffers |
| `pipeline` | builder | a linking is found whenever there is one, at the least cost; what is built is completely connected and listed; no explored node is replaced | `FindsLinking`, `AllLinked`, `PipelineComplete`, `ExploredNodesStay` | up to 4 procedures from 13, in every order, 5 pins |
| | assembly | every procedure is whole while owned and gone when not; nothing released is used, nothing but events is left over | `AssemblySound` | the player's 5 procedures, every failure |
| | audio | nothing heard twice or early; the three queues agree | `StreamsSound` | 4 fragments, 1 seek |
| | decoder | the decoder's clock runs with the stream | `StreamsSound` | 2 rates, 2 formats, 2 changes |
| | live | segments in order, none twice or left out | `StreamsSound` | 4 segments, a window of 2, 2 with one name |
| | slowest | the clock waits for the slowest destination | `StreamsSound` | 3 destinations, 1 that only reports, times to 4 |
| `structures` | lists | list and array are sequences; blocks have one owner | `ListsSound`, `StructuresImplement` | 3 blocks, 4 elements |
| | hashes | sets and maps agree with their tables; searches end | `LookupsSound`, `StructuresImplement` | 3 keys, 2 sets, 1 map, 8 blocks |
| | tree | linked and balanced; a sorted bag; the path a turn leaves | `LookupsSound`, `StructuresImplement` | 9 elements, two pairs of equals |
| | buffer | the reader sees the file; the sink gets what was put, in order; two exceptions before one that takes less than it is offered | `StructuresImplement` | a ring of 3 bytes, 8 bytes in all, a sink that takes 0, 2, 4 or 8 of them |
| `graphics` | resources, glyphs, effects | one owner for each object; map and slots agree; a frame has its effect | `ResourcesSound` | 3 controllers, 2 contexts; 3 characters, 2 textures of 2; 2 changes of effect |
| | layers | a frame shows what its layers and filters describe; all targets return | `FramesRendered`, `ContextRestored` | 2 scenes, 1 group, 2 filters, 2 nested, 4 targets |
| | opengl, direct3d | what is remembered is what is set; references are counted | `WrappersAgree` | few of each object, addresses used again |
| | animation, skeleton, scene, drawing | poses follow the time passed; actions are deleted once; a frame draws what is visible; scenes do not disturb each other | `ScenesSound` | 2 animations of 2 to 4 frames; 2 bones, 2 animations, 2 actions; 2 objects, 1 group; a screen of 2 x 2 |

Why these bounds are enough for the interesting cases:

- Two buffers let a connection be full, half full and empty at both ends, and
  give the order of two packages a meaning; two payloads tell a wrong order
  from a right one. Three or more buffers add no new relation between the three
  threads. The proofs below remove this bound for all the invariants.
- Three threads on an event are one setter, one waiter that takes the event and
  one that must not; the proofs remove this bound too.
- Two elements of a group let a waiter pass one and stand at the other; two inputs let one fill while
  the other is looked at.
- With two processors and two queues a queue has one or two elements, a slot is
  given back and used for the other queue, and an add walks two groups while
  one of them is being detached. `MaxCalls` counts calls, not steps: five calls
  allow two attachments, an add, and a detach and clear beside it.
  `Outstanding = 1` is how the program uses its queues: one task for each
  procedure's queue, one for the control queue. The run `processor_stranded`
  shows what happens with two.
- A pool of one thread is full with one and empty without; two owners race for it.
- `MaxEntries` ends the growth described under "backlog": no start with more buffers
  than that in the source's list. With 2 the run covers every history up
  to the first overfull list, and the stop that follows it.
- `MaxTasks` limits how often the control task can be queued at once; undisturbed
  the number never passes one (`ControlMatchesStatus`), so the bound is not met.
- The builder's catalogue has the four procedures of `TestPipelineBuilder.m` (a source with two
  outputs, two branches, a join, a destination), and what makes a search go wrong: shortcuts, a loop,
  a procedure without inputs, several procedures for one pin, and two ways to one node whose first
  steps differ in estimate. Four procedures in every order are more than a shortest linking needs
  and leave room for ones that mislead.
- Three frames of a stream are a past, a present and a future one for the display; two users meet in the slot of a request.
- With nine elements every turn of the two rebalancing loops and both ways of erasing happen in the tree. Three keys of which two share their first place fill a small table with tombstones between.
- Two nested layers with two filters each borrow every target there is. A third level finds none free (`MaxNested = 3` violates `FramesRendered`):
  what the screen shows then is not what the layers describe.
- Three controllers share the objects of one id and leave in any order; a glyph cache of four slots is full with three
  characters in use and one waiting.

Payloads, clients, workers, queues and elements of `processor` are interchangeable: that run uses symmetry. The runs with
temporal properties do not.

### Fairness

Threads are scheduled: weak fairness for every worker's, caller's, client's, clock's and display's next
step, and for a user's once it has the pointer to a request. Two places need more. A thread that spins for a list,
or locks a mutex, finds it free again and again but is not queued; as the holder always gives it back
after a few instructions, the model assumes that it wins at last (strong fairness of
`WorkerSpins`, `ShutdownLock`, `ResetLock`, `Lock`, and `PutOn` for the mutex of the thread pool). In `TaskProcessor` the calls are
bounded, contention is finite and weak fairness is enough. Nothing is assumed of
the outside: no user has to call, no procedure to commit or accept a buffer,
no stream to end, no event to be set, no source of an input to have data. `WaitersServed` and `CallsReturn` are therefore
stated of waiters for which something is there.

`MCThreads` numbers the threads of its parts and asks for fairness of the i-th one of whichever part is
chosen; since `part` never changes that is the conjunction of what each part's own `Fairness` asks.

`CHECK_DEADLOCK FALSE` is given where the system may rightly stop: both procedures of a
connection shut down, a bounded number of calls used up, a pipeline built, a stream over, a process that ended at a NULL
pointer, a player whose user waits for an end event that a refused task never sets.

### Where the code and its documents differ

1. **A started procedure that does not run** (`lifecycle_start`). `pipeline_procedure.c:198`
   queues the task, 202 sets `is_running`. A pool thread that is fast enough finds it
   FALSE, sets the end event and is done; the start still returns TRUE with
   `is_running` set. The next stop finds the end event and goes through, so
   `CallsReturn` and `StoppedIsQuiet` hold all the same.
2. **A task that waits for a third one** (`processor_stranded`). Adding a task sets flags that
   may already be set; a processor pops one task per flag taken. Two tasks added to one
   queue before a processor looks leave one behind.
3. **A pool without a lock** (`pool_race`). The lists of all pins of a procedure take their blocks from one memory pool, and
   each list is guarded by its own pointer. A decoder has an input that the source's worker fills and an output that the
   destination's worker refills, while its own worker empties both: three threads change the pool. The count
   goes wrong, and the assertion in `memory_pool.c:49` with it. A procedure with one list has no such race (part "memory").

Seen while modelling, and not counted as differences because no document says otherwise.

In the tasks and the pipeline:

- More buffers than `max_data_num`: stopping the source puts all
  buffers back on its list (`pipeline_procedure_structures.c:369`) while the target, stopped next, still returns the
  ones it has. They are on the list twice from then on, and after the next start two packages may share one buffer.
  Conservation and FIFO order are therefore stated for a connection between a start
  and the next stop (`PipelineConnection`), not across stops.
- `wait_for_all` goes on from where it stood after sleeping, so an element it has
  passed may have been taken meanwhile (`synchronize.c:312`). "Wait for all"
  can be read that way.
- On Windows two waiters of one group can lose a wake-up: the first one's `ResetEvent` takes the second one's
  (`win32/synchronize.c:203`). Every group of the program has one waiter. `try_lock_mutex` (45) takes `WAIT_TIMEOUT`
  for success; nobody calls it.
- `task_processor_process_task` follows its pointer into the hash map after the mutex was
  released (`task_processor.c:161`); its `ptask->status` is written after the task's function, which may have told its owner
  that it is over (165). Nobody reads the status. A thread whose processor has no queues does not sleep but spins,
  because waiting on an empty group returns (`task_processor_thread.c:76`).
- `handle_any_input` offers the inputs in hash order, so one that always has data can starve the next (`pipeline_procedure.c:313`).
- `pipeline_builder.c:357` and 417 free a node that was reached again at lower cost, while the tree and
  other nodes point to it. It does not happen (`ExploredNodesStay`): the estimate never falls
  along an edge and the tree puts equals in order of arrival, so a node is reached at its least cost first.
  With a tree that put a new node before its equals it would (the mutant `PositionBefore`).
- Two outputs or two inputs for one pin overwrite each other in the maps of `build_pipeline`. The
  maps end empty all the same (`AllLinked`), a pin stays unconnected, and `serialize_pipeline` follows
  the NULL connection of an output (`SerializeCrashes`). `PipelineComplete` therefore
  speaks of registries in which a pin has one producer and one consumer, as in the player.
- A procedure that the source does not lead to (one without inputs, a loop) is created and
  connected but not in the list that `pipeline_start` walks (`Forward` excludes it).
- When listing fails, `pipeline_builder.c:737` destroys the procedures, leaves them in `procedure_desc_map` and
  returns TRUE; when a link fails, 717 destroys a procedure that stays in the map. `pipeline_clear` destroys them again.
- Failures without recovery, left out of `PipelineAssembly`: missing returns in `pipeline_procedure_initialize`
  (`pipeline_procedure.c:37`, 50, 59, 79), a thread that cannot be taken from the pool (69), `pipeline_builder.c:720`, 731 and 249,
  a NULL player control (`VideoPlayerInternal.cpp:98`).
- `pipeline_procedure_output_destroy` (`pipeline_procedure_structures.c:250`) forgets the `recycle_data_event` that was created at 232 without destroying
  it: every time a pipeline is cleared, one event is lost for each output. `PipelineAssembly` keeps account of them (`ppl.lost`), and `AssemblySound` says that nothing else is left.
- `hash_map_insert` of a key that is there copies as many bytes as the table's values have, which are larger than
  the map's (`hash_map.c:53`). The models insert keys that are not there.

In the player:

- After the end of the stream the control task sets an end event that no one waits for;
  the next `Pause` takes it for its own. A start whose task cannot be queued (`PlayerControl.cpp:127`)
  leaves "Playing" behind, and the next `Stop` waits for ever. `disturbed` marks both.
- `RegisterDestination` returns TRUE when it failed (`PlayerControl.cpp:225`). The audio destination never registers and yet
  reports; alone it makes `ReportProgress` read the first element of an empty tree (254). Of two destinations with equal progress the
  tree may take out the other one's pointer (250). `DestinationProgress` follows each of these up to there.
- The live stream goes on with the next segment when a download fails, and drops what it has fetched when its procedure stops (`lost`).
- The subdirectory `destination/GraphicDisplayDestination` (with `Effects`) is newer than the file of that name beside it, which is the one the Xcode
  project builds. `Playback` and `DisplayEffects` model the newer one, `PipelineAssembly` the pins of the older.
- `SetShaderTexture` sets every sampler to stage 0 (`GLESGraphicContext.mm:1039`), so the composition of ShaderHDR (`FilterShaderHDR.cpp:167`) reads the picture itself as `gauss_texture`: the bloom is not added. `EffectShown` does not say what is read there.

In the graphics library:

- A filter container whose start failed keeps its origin target and meets the assertion at `GraphicTypes.cpp:57` in the next frame. `AddMask` leaves its
  stencil function behind (763). `Render2D` cuts a box at the top by the texture's bottom (701).
- `Scene3D::m_drawList` keeps a removed object until the next frame; deleting it earlier leaves a dangling pointer.
- The Direct3D context remembers by address: a program or a surface made at the address of the one that is set is never set (932, 568); a
  structure is handed out after it was deleted (823). `GLESGraphicContext.mm:481` deletes twice.
- The stream that is written through an `IOBuffer` breaks in two cases, each only before a sink that has taken less than it was offered (`StreamStep`
  says that there is no third, and that it is whole again once the buffer was empty). Nothing in the player writes through it. (1) A sink
  takes a whole buffer and then less than another in one call: the bytes are counted again or lost. (2) The bytes put fit
  into the free places and these go round the end of the ring: the second copy (`IOBuffer.cpp:182`) takes `m_uSize - uBytesPut` bytes instead of
  `uSize - uBytesPut`, so it reads behind the caller's bytes, overwrites what was not yet written, and the data is taken to begin too early;
  `SkipPut` has the same offset (412). In a ring of three bytes: put three, and the sink takes two; put two, and it takes two; put two.
- `CharacterBasedFont::CreateString` does not count the first use of a glyph it has just drawn (`CharacterBasedFont.cpp:113`), only its reuse. Of the strings
  with a character the last but one that is given up therefore puts its slot on the free list, though one still shows it, and a new character
  may be drawn over it; a failed `CreateString` that had reused the glyph is enough. A glyph that is never reused keeps its slot for ever. And one reused with count 0 is unlinked from neighbours of long ago.
  `GlyphCache` has all of this; `MapAgrees` says only that map and slots agree, not that a shown glyph stays.
- `SetTimeLine` poses with the time itself instead of the time since the animation's stamp (`GraphicAnimation.cpp:95`); the checks only jump to 0.

## 4. What is proved

Every theorem below holds for every value of the constants. The only assumptions are the `ASSUME`s of the modules, which the runs
evaluate. Most say that a name that stands for "none" is not one of the things it is compared with, and that a size is a number. Six say more:

- `ConnectionAssumption`: at least one buffer. With none a connection can carry nothing and its code is never called.
- `BuilderAssumption`: no procedure has one pin on both sides (section 2).
- `PlaybackAssumption`: the clock's tolerance and what passes between two updates fit into the display's tolerance,
  and the stream is shorter than `Wrap`. The first is 300 ms and a turn of the control task against 2 s: an assumption about scheduling, which the code needs
  but cannot enforce. The second is 49 days of milliseconds.
- `PartsAssumption`: a group on Windows has one waiter, as every group of the program has; the inputs of a procedure are visited in some order, each once;
  the memory pool is that of a procedure with one list. The run `pool_race` and the remark on `win32/synchronize.c:203` say what happens otherwise.
- `ProcessorAssumption`: a thread that calls does not itself serve a queue.
- `StreamsAssumption`: there is a unit of time in which every time base is a whole number of units, so that where a frame starts is a number. The code
  has no such unit: its times are in ticks of the frame's own rate, and only their distance from the stream is measured in it.

What the runs check as a property and what is proved of it:

| Property | Theorem | | Property | Theorem |
|---|---|---|---|---|
| `ListExclusion` | `Exclusion` | | `NoLostWakeup` (event) | `ThreadsProofs.Wakeup` |
| `BuffersConserved` | `Conservation` | | `NoWaitMissed` | `Sleepless` |
| `NoLostWakeup` (connection) | `Wakeup` | | `PoolsSound` | `Whole` |
| `SameBufferUntilCommit` | `SameBuffer` | | `ImplementsEvent` | `Implementation` |
| `ImplementsChannel` | `Implementation` | | `ImplementsPosix` | `WindowsIsPosix` |
| `LifecycleExclusion` | `LifeExclusion` | | `FindsLinking` | `SearchComplete` |
| `ResetWhenParked` | `ResetMeetsNobody` | | `AllLinked` | `ReplayLinksAll` |
| `StoppedIsQuiet` | `StopLeavesNothing` | | `PipelineComplete` | `Complete` |
| `MapsAgree` | `Agreement` | | `ExploredNodesStay` | `NodesStay` |
| `RunOnce` | `OneRun` | | `ControlMatchesStatus` | `ControlMatches` |
| `RequestsDelivered` | `Delivered` | | `PipelineStopsApart` | `StopsApart` |
| `NothingSkipped` | `AllShown` | | `StreamsSound` | `Streams` |

### Connection and procedures (`ConnectionProofs`)

The state of a connection splits into who holds a list, what is at its front, who
will be woken, and where the buffers are; each part is inductive relative to those before it.

1. `LockInv`: `task_ptr[e]` is NULL exactly while one of the three threads is at a `...Held` label. It
   is inductive by itself and gives `ListExclusion`.
2. `FrontInv`: adds the types, and that a handed-out descriptor is the head of the worker's own list until
   it is popped. Appending at the back by the others keeps the head; only the
   owner pops. It gives `TypeOK`, `FrontStable` and the action property `SameBufferUntilCommit`.
3. `NoLostWakeup`: the list becomes non-empty only in `PushHeld` and `ShutdownHeld`, whose threads are then at their
   "signal"; a worker begins to wait only when it saw the list empty while it had it.
4. `BuffersConserved`: popping and appending are lemmas on sequences without repetition.
   Neither types nor exclusion suffice: the descriptor in a worker's hands is
   the one it popped, which needs `FrontInv`.
5. `ImplementsChannel`: every step is one of `BoundedChannel` or a stutter. A commit is the channel's send at the moment the
   list of the target grows, a receive is the pop; the shutdown command is no package. `PackagesInv` says
   that there is one command, at the end of what the target will read, and that a committed buffer has been written. That the channel is
   never overfull is a pigeonhole: the buffers in the target's list are pairwise different by `BuffersConserved`, and there are `MaxDataNum` of them.

`ProcedureLifecycle` has the steps of the data path, which leave the tasks alone (`WorkStep`), and those of
the tasks and the caller, which leave the lists alone except for resets.

1. `LifeLockInv` for four threads: the caller is now one that shuts down *and* resets.
2. `TaskInv`: beside types, what the end event is worth. A set end event means that the worker has left and the task is not
   queued again; a worker in the task means it is not queued; a procedure that is not running, and not between
   the queueing and the running of a start, has no worker; and whatever the caller is stopping is not running. With it
   `ResetWhenParked` holds because a reset follows the wait for the end event, and
   `StoppedIsQuiet` because nothing is queued until the next start. Neither is inductive alone: an end event that an earlier
   round left over would let a stop through too early, and that no round leaves one is what `TaskInv` says.

### Tasks (`TaskProcessorProofs`)

For any number of processors, clients, queues and calls, and any number of tasks of a queue.

1. `MapsInv`: types and the arguments of calls under way; a mutex is held exactly by the call inside its section (`LocksInv`);
   no list has an element twice (`OnceInv`); and `SectionInv`, which says for each place inside a section what it leaves undone so far:
   between the group and the map, between the map and the queue's list, and on the way back after a failed allocation.
   `MapsAgree` speaks only of processors whose mutex is free; this is the half that speaks of the others.
2. `PlacesInv` and `WayInv`: a task is in the queue or at one place of one worker, and a worker that has popped one is at the label that runs it.
   A worker follows its pointer after the mutex was released and may find another queue there, or none; `RunOnce` survives that,
   because the pop itself is under the queue's mutex and whatever queue it reaches gives each task out once.

`NothingStranded` is not provable: with two tasks of a queue it is false (`processor_stranded`), and with one it holds by the way clients use the
queue. It is checked for that use.

### Events, groups, inputs, pools (`ThreadsProofs`, `GroupState`)

`part` never changes, so each part has an invariant of its own and the composition has them all.

1. Event: `TypeOK` with "the mutex is owned by the thread whose label is inside" is inductive; with it `NoLostWakeup` is: the last
   awake thread cannot go to sleep while the flag is set. Every step maps to one of `AutoResetEvent` or a stutter.
2. Group (`GroupInv`): a thread that waits stands at an element that is in the list, and a sleeper has nothing that is set. The lemmas of `GroupState` say
   what is left of the list after an element was appended or removed, and where an iterator stands then.
   A removal moves the iterators that stand at the element, so that nobody waits for what is gone.
3. Inputs (`InputsInv`): the worker may pass an input only when it has been told of what is there, or a signal for it is on its way (`Told`). With
   it a worker that waits overlooks no input, although it looks at one list at a time.
4. Stack of threads (`StackInv`): pooled threads and those in somebody's hands are disjoint, and each is where its caller's place says (`Fits`). That a thread
   asleep in the pool is paused *and* running is what makes it wake up when it is taken.
5. Memory pool with one list (`MemoryInv` and its parts): the word-by-word steps are atomic to everybody else because they happen while the list's pointer is held.
6. Windows (`WindowsTyped`): the steps outside the mutex are stutters of the group, those inside it its steps. The same theorem with two waiters is false.

### Player (`PlayerControlProofs`, `RequestSlot`, `PlaybackProofs`)

`PlayerControlProofs`: the invariant has three parts, all under `~disturbed`: `UserInv` ties the
user's place to the status it wrote, `ControlInv` counts executions and end events - at most one of either, and which
one depends on where the two threads stand - and `PipelineInv` ties `is_running`, the workers and their end event.
`ControlMatchesStatus` alone is not inductive: it speaks of the user between two calls only.

`RequestSlot` is one proof used twice. `SlotInv` says that the request has one owner: the slot, one thread that asks, or the taker;
with it `SlotNext` maps to `Mailbox` (`StepMailbox`). `PlaybackProofs` shows that each step of `Playback` is a step or a stutter of both of
its slots, so both are mailboxes (`Delivered`).

`AllShown` is about times. Until somebody seeks (`Quiet`) the frames on their way are those before the next one of the stream
(`InOrder`), the clock is ahead of what the display reported by no more than its tolerance and one interval (`ClockPace`), and the display is not ahead of
the clock (`DisplayPace`). The clock is read and written in two steps; between them its value is the one read, as nobody else writes it without a seek. All
comparisons are modulo `Wrap` in the code: `NotLate` and `NeitherFarAhead` show that they mean what they say.

### Pipeline builder (`PipelineProofs`)

For every set of pins, catalogue, registry and source.

1. `LinkInv`: every explored node is the node before it and one registered procedure (`NodeInv`), and only explored nodes
   are open (`OpenInv`). So the procedures traced back from the target lead from the source to it (`LeadsTo`, a path of
   nodes), and one created procedure is one step along that path: the key made of the two maps moves as the nodes did
   (`CreateIsNewNode`). At the end it is the target's: `AllLinked`.
2. `OrderInv`: the tree's entries are in the order of their costs as well as of their estimates, and no explored node costs more
   than the one looked at plus one. A new node goes behind its equals, among which none costs more. Hence a
   node found a second time is never cheaper: `ExploredNodesStay`.
3. `SearchInv`: a node that was explored is still open, is being expanded, or all its successors have been reached at no more than its cost and one.
   Take a linking and follow it from the source: at every moment some part of it leads to a node that is open or to the target, at a cost no larger
   than that part. So the search does not end before it, and what it ends with is not dearer: `FindsLinking`.
4. `ChainInv`, `CreatedInv`, `JoinInv`, `ListInv`: the chain traced back takes and gives each pin as often as the pins of its two ends demand, and no procedure is in
   it twice - otherwise the shortest solution would be longer than a linking, which item 3 excludes. So with one producer and one consumer for a pin the maps
   of `build_pipeline` hold exactly what is not connected (`MapsExact`), every pin gets one connection (`ConnectionsExact`), and what
   `serialize_pipeline` has visited leads to what it has listed: `PipelineComplete`.

Induction over a path or a list is done over a set of natural numbers (the largest place up to which a fact holds), since the library's
induction theorem takes an operator as its argument.

### Streams (`PipelineProofs`)

`Streams` is of any number of fragments, frames, segments and destinations, any sets of rates, sizes and places to seek to. Which segments have
a name that begins as an earlier one's is fixed, as in the run: each third.

1. Audio (`AudioInv`): the numbers of the fragments rise along each queue, what is heard or at the device is older than what waits for it, and
   nothing the device has still to play was heard (`AudioOrder`, `Unheard`). `HeardOnce` alone is not inductive: the worker reads whether the source is playing and how much
   of it was processed, and takes buffers back after that, while the device goes on. `AudioDevice` says what the two values it read are still worth:
   the count may be too small but never too large, and it is exact when the source had been seen not to play before it was counted. In the other order, the mutant's, it is not,
   and a fragment is played again when the source is restarted.
2. Decoder (`DecoderInv`): the clock is no further from the stream than half a tick of some time base for each change of the rate since the last stamp. What it needs is
   that rescaling adds half a tick of the new time base and no more (`Division` and the lemmas after it), and that a sum of such errors is bounded by the coarsest of them.
   `NextPTS` and its time base are not initialised; a clock without a stamp is promised nothing.
3. Live stream (`LiveInv`): lines, addresses and segments on their way are in order, and together they are exactly what was met, less what was lost and what was taken for another
   segment (`WayInOrder`). That a playlist read later cannot bring back an older segment is `LinesFollow`: what it shows was met or comes after all that was.
4. Destinations (`SlowestInv`): the tree points at each destination once and is in the order of their times. `ReportProgress` takes the pointer out and puts it behind its equals;
   the lemmas on removal and insertion are about sequences in general. A report from a procedure the tree has not (`mistaken`) ends the promise, as in the run.

### Only model-checked

- All liveness and whatever depends on ENABLED (`WaitersServed`, `CallsReturn`, `TasksRun`, `PlaybackGoesOn`): out of TLAPS' reach.
- `NothingStranded`, see above.
- `AssemblySound`: an action of `PipelineAssembly` folds over the procedures to be made or taken apart, and what a fold computes needs induction over its argument.
- `ListsSound`, `LookupsSound`, `StructuresImplement`, and the five properties of the graphics library: their
  compositions reach recursive operators (`Refill`, `PutRest` of `IOBuffer`; `WithAncestors`, `Picture` of `LayerRendering`), with which the provers cannot work.

## 5. What is left out, and why

- Allocation failures in the lists of a connection and of wait functions (the program does not
  recover from them). In `TaskProcessor`, `PipelineAssembly` and the data structures, where they are undone, they are modelled.
- Allocation failures of the builder's search; several sources of a pipeline (their outputs would be one set).
- The text of the shaders and the loops over pixels, of which the models have what a shader reads and what is drawn. Bytes, formats and sizes of buffers; times are small numbers, with the width of `uint32` replaced by `Wrap`.
- The tables of `graph_builder.c`, in which the builder finds the procedures that have a pin (`pipeline_builder.c:329`, 390): `PipelineBuilder` looks them up in
  the registry itself. The libraries' own `SlotArray`, `SortedRefArray`, `Util/HashTable` and `CompressedBuffer`, which
  nothing here uses; what the writing calls of `IOBuffer` return.
- `FFMpegStream::Open/Close`, decoding, downloads, the OpenAL wrapper's formats and listeners: they hand parameters to a library.
- `AdjustFrameBuffer` of the two OpenGL ES contexts, which nothing calls. What of `androidGLES`, an earlier copy of the iPhone context that no project file
  builds, differs from it (`Initialize` and the surface of the window; the rest reads the same, and `GLESContext` is of both); of the Direct3D and OpenGL
  contexts render states, formats, pixels and shader sources, which go through unseen. Of Win32 (`common/project/win32/common.vcxproj` builds it)
  events, mutexes and threads, each one Windows object.
- `ResetDevice` and `DestroyDevice` of the resource manager, which have no caller and whose test at `GraphicResourceMgr.cpp:140` is inverted.
- A second player at a time and a second `Initialize` of one: the util controller is one for all (`VideoPlayerInternal.cpp:118`).
- The Objective-C wrapper and the demo: the order of their calls is the user's thread of `PlayerControl`.

## 6. Plan

1. Proofs: `ContextRestored` and `WrappersAgree` once `WithAncestors` and `Picture` of `LayerRendering` are recursive functions or folds, and
   `ListsSound` and `LookupsSound` once those of `IOBuffer` are.
2. The builder's allocation failures and several sources; overwriting a key of a hash map; the tables of `graph_builder.c` and their failures.
3. Times of full width in `Playback` and `DestinationProgress`; both in one model with `AudioPlay`, whose reports are the clock's input.
4. Render states of the two contexts; three nested layers and the targets a frame needs.
