# A verification development of ez-cpp

TLA+ models of the concurrent, reactive and stateful parts of ez-cpp, the TLC
runs that check them on small instances, and theorems about them that TLAPS
proves for every instance. Paths are relative to the repository; `libs/` stands
for `src/libs/`.

## 1. The system

ez-cpp is a set of C++20 libraries. They meet in three ways: `ez.rpc` runs its
coroutines on `ez.async`; the interpreter of `ez.flow` evaluates programs as
`ez.async` tasks and awaits through `when_any`; and user code reports from tasks
through `ez.core`'s `ExecutionReport`, whose items are an
`AppendOnlyStableVector` and whose observers are an `Atomic`; `ez.flow` keeps
the values of a program in `Shared` storage.

| component | state it keeps | operations | what is hard | module |
|---|---|---|---|---|
| `ez.rpc` client (`libs/rpc/src/RemoteService.cpp`, `Function.cpp`) | the pending queries; one coroutine frame per call, which owns the reply | invoke a remote function, poll the replies, resume the caller | a raw pointer from the query into the frame; replies early, late, repeated or lost; a send that suspends or fails | RpcClient, Rpc |
| `ez.rpc` service (`libs/rpc/src/Service.cpp`) | a task for each request | poll the requests, execute, reply, report an unknown function | several requests in one poll; execution without a function | RpcServer, Rpc |
| `ez.rpc` transport (`libs/rpc/headers/ez/rpc/Transport.hpp`) | messages in flight | send, receive | an interface that promises neither order nor delivery | RpcTransport |
| `ez.rpc` serialization | none | parse, serialize | - (protobuf) | its outcomes, in the above |
| `Atomic` (`libs/core/headers/ez/Atomic.hpp`) | a value and a mutex | read, edit, copy, move | two mutexes in one assignment; a move without its source's lock | Atomic, AtomicSpec |
| `AppendOnlyStableVector` (`libs/core/headers/ez/reporting`) | a list of blocks, a published size | append, visit, look up | readers without a lock next to the writer | StableVector |
| items, observers and events of `ExecutionReport` | messages, sub reports, the items that name them; a map of observers for each report | log, build a message, add a sub report, notify, add and remove observers | observers that come and go while the writer calls them; an index that is looked up later; builders that log when destroyed | ReportEvents |
| progress of `ExecutionReport` (`libs/core/src/reporting/ExecutionReport.cpp`) | a byte for each report of a hierarchy | set progress, propagate to the reports above | lock-free updates of one mean by several writers | ReportProgress |
| status of `ExecutionReport`, `ExecutionStatusGuard` | a status and two flags for each report, guards | set status, cancel, log, end a guard | any order of guards ending, logging and cancelling over a hierarchy | ReportStatus |
| `ez.async`: `TaskPool`, `when_all`, `when_any`, `race`, `Delay` (`libs/async`) | the handlers of an `io_context`, the pool's tasks, latches, timers | push, resume, expire, cancel, clean up | frames destroyed while a handler that resumes them is queued | Async |
| `ez.async`: `Task`, `Receiver` | a coroutine and its continuation | resume, await | used by the above as they need it | Async |
| `ez.async`: `sync_wait`, `schedule_on` | an event with a mutex and a condition variable; a posted handler | wait, set, post | a wake-up before the wait; an event that the woken thread destroys | Async |
| `ez.flow` interpreter (`libs/flow/src/engine/eval`) | the stack of scopes with their control-flow policies | evaluate statements, loops, calls, `await` with a timeout | policies that leave several scopes; coroutines destroyed in the middle of a call | FlowScopes, Flow |
| `ez.flow` types and entities (`libs/flow/src/engine/types`, `conversion`) | handles of shared storage | construction, copying, assignment, properties, member functions, operators, free functions, JSON | values shared between handles and edited in place; default values; containers that hold themselves | FlowEntities, FlowValues |
| `ez.flow` parser, exporter, editor tools | none | text to syntax tree, syntax tree to JSON | a grammar; no state, no interleaving | not modelled |
| `Shared`, `Cow`, `Box`, `Resource` | a reference to a value | copy, edit, detach | editing a value others share | Shared in FlowEntities |
| `Result`, `Enum`, `Option`, `Tuple`, `Flags`, `StrongType`, `Functional`, `rpl` | none between calls | - | compile-time code | not modelled |
| applications `algo`, `flow` | none of their own | terminal and process I/O | - | not modelled |

`PROJECT.json` gives for every component its files and how far it is modelled,
and for every definition of a module the lines it models. Its list of hazards
is where the properties come from; the hazards no property covers say why.

## 2. The modules

A definition named for a code entity has its name. Where a module's header says
so, a definition without a comment that precedes another one is a variant of it
with a plausible mistake: section 5 says which property finds it.

### ez.rpc: RpcTransport, RpcClient, RpcServer, Rpc, RpcSpec

`Calls` are the invocations, told apart by the request id that
`make_request_id` draws; `Kind` says what becomes of each on the server, which
is all that the properties tell of functions, arguments and values. A message
`<<c, n>>` is the n-th delivered copy of the request of `c`, or the reply to it.
Messages in flight are a set, which a transport may delay, reorder, duplicate
(`MaxCopies`) and, if `Lossy`, lose or garble. The interface fixes neither
whether `send` suspends nor what a reported failure means, so these are
constants too: `SyncSend` and `SendFailure`.

RpcClient has one action for each stretch of code that runs without suspending:
`Invoke` (up to the `co_await` of send), `Transmit`, `SendCompletes`,
`SendFails`, `ClientPoll` (the timer's handler with all its received messages),
and `RunWake` (a posted callback). What a callback or a stored pointer meets is
explicit: `fault` says that an empty callback ran, or that a reply was written
through a null pointer or into a frame that no longer exists.

RpcServer has `ServerPoll`, the tasks `StartExec`, `FinishInvoke`,
`ReplyAndFinish` and `ReportNotFound`. The task of an unknown function also
runs `exec` with a null function; the lambda of the "not found" task holds
`this` in a closure that is dead when the task runs, so this task may crash.

Rpc composes them. RpcSpec states what a caller is promised: a call ends at most
once, with an outcome of an execution of that very call or with a failure to
send a request that is then never executed. `Abstract` in Rpc is the refinement
mapping.

### Atomic, AtomicSpec

An access takes the locks `Needed`, in the order of the objects' addresses
(an object *is* its address, a natural number), loads the value it works on and
stores the outcome in a later step, then unlocks. So a reader sees what a
writer left half way unless the locks forbid it. `Shareable` chooses between
`shared_mutex` and `mutex`. A move locks its destination only
(`libs/core/headers/ez/Atomic.hpp:172`); `OwnedMoves` states the convention under
which that is safe, that nobody else uses the source meanwhile. AtomicSpec: every
access takes effect at one instant.

### StableVector, ReportEvents

StableVector: the writer's `append` in three steps (a new block when the last is full, the
element, the published size) against readers' `visit`, `visit_while_true` and
`at`. The links of the list and the fill of the last block are plain memory that
readers read while the writer changes it; a reader finds the old or the new
value. An element is told by its place.

ReportEvents composes it with the code that uses it. The thread that reports
logs messages, directly or through a builder that logs in its destructor and
can be moved before (`NewBuilder`, `MoveBuilder`, `DestroyBuilder`), and adds sub
reports. A builder may be moved into a new one, onto another or onto itself; what the target
held is then lost without being logged (`libs/core/src/reporting/ExecutionReport.cpp:81`), which the history
`overwritten` counts. Either becomes an item (`AddItem`), which is appended in
StableVector's steps (`AppendItem`, `AppendEnds`) and then announced:
`EnterLevel` takes the lock of a report's observers, `CallObserver` calls the
next of them, `LeaveLevel` goes on to the report above. Each observer's thread
adds it in two steps, the identifier (`TakeId`) and the insertion (`Insert`),
and removes it (`Remove`); the lock excludes the latter two from the
calls. An observer looks its item up at once with the event's index; a reader
visits the items or looks one up at any later time. `told` and `heard` record which
events were passed to a level and which an observer was called with.
Observers that use their report's observers from within a call would wait for
themselves, the hazard at `libs/core/headers/ez/Atomic.hpp:193`; they are left out here.

### Async

One thread runs the `io_context`: `queue` holds its ready handlers in order, and
`RunHandler` runs the first one to completion: a task's first resumption, a
timer's handler (expired or aborted), the pool's cleanup. `Push` adds a task,
`Expire` moves a timer's handler to the queue, after which `cancel()` no longer
reaches it. Each task awaits one `when_all`, `when_any` or `race`; children end
at once or after a delay, with a value or an exception. The latches, the end of
the awaiter with the children's frames, and the results that are thrown on are
part of the handler they happen in.

Another thread, `main`, may call `sync_wait`. Its task ends at once, or posts
itself to the `io_context` (`schedule_on`), whose thread later sets the event in two halves,
`SetEvent` under the mutex and `NotifyAll` after it. `WaitForEvent` is one look at the
predicate, under the mutex: the caller goes to sleep or takes what the
task's `Receiver` holds. It may wake without having been notified.

Some ends are undefined behaviour or termination: resuming a frame that was
destroyed (`deadFrame`), notifying an event whose owner has returned (`deadEvent`), resuming a coroutine that is already at its end
(`resumedTwice`), an exception from a `noexcept` function (`terminated`), the
use of the capture of the lambda in `operator<<` after it ended (`deadClosure`,
one of the outcomes of a task's end). The program has no state after them, so
the model stops there. `io_context::stop` is not modelled.

### ReportProgress

Each report has one writer, as the class documents, which may set any of its `Values` at any
time, on a report with sub reports too: `SetProgress` compares, and `Store` stores whatever
the progress is by then. `set_status(Finished)` is the value 100. A change is propagated: every
writer below a report with sub reports makes its progress their weighted mean, by reading the old value,
visiting the sub reports one by one, comparing and exchanging, and starting over on failure. Each
access of a report's progress is a step.

Two things that the code allows put a report off its mean, and the history `disturbed`
names the reports they happened to. A report that is set itself, or finished by its guard, shows
what it was given until a sub report's next update
(`libs/core/tests/tst_ExecutionReport.cpp:316`). And where a sub report's progress goes back, a slow
writer can find the value it read long ago and store a stale mean over a newer one, which
stays until the next call. The properties speak of all other reports; a report stops being disturbed when it
shows its mean while nobody is calling. The hierarchy and the weights are fixed:
`add_sub_report` and `set_progress_weight` next to running updates are left out.

### ReportStatus

`add_sub_report`, `set_status` with the cancelling of sub reports, the flags that logging sets,
and the life of a guard: construction, release, destruction with its verdict. The class allows
one writer, so a call is one action; the calls come in any order, over any hierarchy,
and `SetStatus` sets any status over any other, as the code does: also one that is final,
and that of a report below a cancelled one. So `FinalStays` says that nothing *else* changes a
final status, and `CancelReaches` excepts the reports in the history `late`, which were added
or set after the cancelling. Cancelling stops at sub reports that are final, so
a report that still runs below a final one is not reached
(`libs/core/src/reporting/ExecutionReport.cpp:276`); `CancelReaches` therefore
speaks of direct sub reports. `Tasks` and `Loggers` bound whose guards and logs there are.

### FlowScopes, Flow

FlowScopes is `EvaluationScope`: the stack of scopes, each with its names, its
policy (`Stay`, `Return`, `Break`) and the function scope that owns its return
value; `Push`, `Pop`, `ReturnValue`, `BreakLoop`, `Add`, `FindEntity` are its
member functions.

Flow is the interpreter as a machine over two stacks. `frames` are the
coroutines that are alive: the program, blocks, repeats, calls of workflows,
awaits, and at the top possibly a delay or a request that suspends them all. A
frame remembers in `at` where its scope is, which only the properties use, save
that a call finds its own scope with it. A statement is evaluated part by part
(`EvalLiteral`, `EvalName`, `StartCall`, `StartRequest`), each value going to the
block's `got`, and then executed (`Declare`, `Return`, `If`, `Repeat`, ...). The
checks of the policy between two statements and two iterations are `BlockEnds`
and `Iterate`/`EndLoop`.

While all is suspended, the delay may expire, the request be answered or fail,
and the timer of *any* await expire. A timeout or an exception destroys frames one
by one from the innermost (`Unwind`): the scope guard of a block pops its scope,
the frame of a call has no guard, so that its function scope stays
(`interpreter_workflow.cpp:377`). `cut` records that this has happened.
A task that ends before it suspends resumes its awaiter from inside `when_any`,
which is the use of a dead frame that Async shows on its own; here it is the
status `deadFrame`, after which the program has no state.

What is abstracted: values are their kinds (FlowValues has the values); conditions are free; a literal part
stands for any expression of operators; arguments are positional. Conditions
contain no await, and a call without `await`, which only builds an
invocation, is left out. Workflows do not recurse in the instance, though the
module allows it.

### FlowEntities, FlowValues

FlowEntities is a module of operators without variables: the values of a
program. An `Entity` is a handle of `Shared` storage, so a `heap` maps cells to
a type and a content, and the contents of arrays and dictionaries are cells
again; `Live` drops what no handle leads to, `IsUnique` is the reference count.
An operation takes a heap and cells and returns a status, the new heap and
a cell. There are the two families of types that
the code has, with their constructors (`ConstructSimple`, which hands out one
`default_value` for each type, and `ConstructDictionary`), the assignments
(into the storage for integers and arrays, of the handle for all others),
properties and elements, the member function `insert`, the free functions, the
operators, and JSON in both directions. JSON is what is at each place, a place being the
indices and keys that lead there: `ToJson` tells the keys of each container and the value
of each scalar, `FromJson` makes one new cell for each place. There is no RECURSIVE operator: what
the code does along handles is a function of the number of steps (`Steps`, `PlacesAt`), of which
`Depth` says how many a way without repetition can have.

FlowValues evaluates programs over them, on the scopes of FlowScopes. An expression is
the sequence of its operations in the order in which the interpreter's coroutines evaluate them,
operands before the operation that takes their values; `Operate` is one of them
and `Run` the expression, up to the first one that throws. The callable of a call is an operation
before the arguments. A statement is an action.
`FlowValuesAssumption` is what the grammar makes of expressions: each operation finds the values it
takes, and the whole leaves one (an assignment two, a call one for each argument).
Workflows are called with their arguments' handles and leave through `Leave`, where the
awaiting declaration takes a copy of the result; `Ask` sends a request as JSON
to a delegate that answers with what it got, or too late. What the module makes
explicit is who shares storage with whom. The entries of the operators that do
something else than their names say are translated as they are: `*` of two integers compares
them and `/` multiplies (`libs/flow/src/engine/types/builtin/integer.cpp:82`).
An endless recursion through a container that contains itself is the status
`overflow`.

Flow and FlowValues share FlowScopes, and complement each other: Flow has all of the
control flow and no values, FlowValues has the values and of the control flow what moves them.

## 3. The runs

| run | instance | states | what it shows |
|---|---|---|---|
| `rpc_unreliable` (pass) | `rpc_unreliable.cfg` of MCRpc | 10921 | Over a transport that loses, repeats and reorders messages, and reports failure only for requests it does not deliver, the client's queries, reply slots and callbacks stay matched to the waiting coroutines, the pair implements RpcSpec, and every call whose messages are not all lost returns, also when its value or an argument does not parse. |
| `rpc_any_transport` (pass) | `rpc_any_transport.cfg` of MCRpc | 96288 | A transport whose send suspends, so that a reply may overtake its completion, that may report failure for a request it delivers and may deliver a request twice; one call is to a function the service lacks. A reply meets a null pointer only where a call gets a second one, it misses its frame otherwise only after a failed send, and a set callback only runs for a suspended call whose reply is stored. |
| `rpc_unknown_function` (violation) | `rpc_unknown_function.cfg` of MCRpc | - | A request for a function no schema has makes the service call a null AbstractFunction. |
| `atomic` (pass) | `atomic.cfg` of MCAtomic | 216890 | Two threads perform two operations each, of every kind, on two atomics over std::shared_mutex, and move only from atomics they own: no circle of waiting, no conflicting access, each operation takes effect at one instant and returns. |
| `report_events` (pass) | `report_events.cfg` of MCReportEvents | 2163029 | A writer logs two messages, at once or by builders it moves, and adds a sub report; two observers of the report or of its parent come and go meanwhile, and a reader visits the items, which fill a block of two, or looks one up. |
| `async` (pass) | `async.cfg` of MCAsync | 170628 | Two tasks, each with a when_all, a when_any or a race of two children, pushed at any time, with timers that expire in any order and children that end at once, later or by an exception; another thread calls sync_wait for a task that ends at once or on the io_context. |
| `async_dead_frame` (violation) | `async_dead_frame.cfg` of MCAsync | - | The loser of a race whose timer is found expired with the winner's resumes a coroutine frame that was destroyed. |
| `report_progress` (pass) | `report_progress.cfg` of MCReportProgress | 491172 | Two writers of leaves and the writer of the report above them set their progress, up and down, any number of times; their updates meet in that report and in the root, which also has an excluded sub report. |
| `report_status` (pass) | `report_status.cfg` of MCReportStatus | 510848 | Every order of added sub reports, guards, releases, logged errors and warnings, and statuses that are set over any others, over a root, a sub report and one below that. |
| `flow` (pass) | `flow.cfg` of MCFlow | 209794 | All programs of a shape: loops, conditions, returns, breaks, raises, tries and declarations in two workflows that await each other, requests and delays, with timeouts in any order and exceptions anywhere. |
| `flow_break` (violation) | `flow_break.cfg` of MCFlow | - | A break in a repeat at program level ends the whole program. |
| `flow_values` (pass) | `flow_values.cfg` of MCFlowValues | 100927 | All programs of up to six statements out of some forty over integers, strings, arrays and dictionaries: declarations, assignments through shared handles, containers that come to hold themselves, a workflow with arguments, and a request whose reply is what it was asked, or too late. |

### Properties

- `ClientSafe` (rpc_unreliable): The client never runs an empty callback and never stores a reply through a null pointer or into a frame that is gone (RemoteService.cpp:83-88).
- `NoLostWakeup` (rpc_unreliable): No wake-up is lost: a suspended call whose reply is stored has its callback posted (RemoteService.cpp:83-89, Function.cpp:25).
- `OutcomeWasComputed` (rpc_unreliable): No call returns a value nobody computed: the reply in its frame was produced for the very call (RemoteService.cpp:77-86).
- `ReplyStoredOnce` (rpc_unreliable): A reply, once stored in the frame, is not overwritten by the reply to another copy of the request (RemoteService.cpp:79, 89).
- `ImplementsRpcSpec` (rpc_unreliable): A call ends at most once, with the outcome of an execution of its own request or a failure to send it.
- `CallsReturn` (rpc_unreliable): A call that was started comes back, unless its implementation answers nothing or every copy of its request, or of the reply, was lost: the client never leaves a call waiting on its own account (RemoteService.cpp:64-101, Function.cpp:14-42).
- `RepliesLandInFrames` (rpc_any_transport): Whatever the transport does, a reply is only stored through a null pointer where a call, whose first reply overtook the completion of its send, gets a second one, to another copy of its request; and it only misses its frame where a send that failed has ended a call whose query stays (RemoteService.cpp:54, 60, 83).
- `WakeFindsReply` (rpc_any_transport): A posted callback finds its coroutine suspended with the reply stored (RemoteService.cpp:88).
- `UnknownFunctionIsReported` (rpc_unknown_function): A request for a function no schema has is reported to its caller: the service answers FunctionNotFound (messages.proto:16, Service.cpp:28) and goes on.
- `NoDeadlock` (atomic): Threads never wait for each other in a circle: while an operation is under way some thread can go on (Atomic.hpp:153-164, the two branches on the order of the addresses).
- `AccessIsProtected` (atomic): No thread works on an object while another one changes it ("protect the access to an object in read/write mode across multiple threads", Atomic.hpp:26-27).
- `ImplementsAtomicSpec` (atomic): When moves are owned each operation takes effect at once, as its access ends (Atomic.hpp:124-209).
- `OperationsReturn` (atomic): Every operation begun returns, whatever the others do (Atomic.hpp:150-196).
- `VisitsAreExact` (report_events): A visitor is only called with published elements, from the first on, in the order of the appends ("prevent visiting elements being inserted and not yet published", AppendOnlyStableVector.hpp:56-58); and a visit that is not stopped calls f with all that were published when it began, however many are appended meanwhile.
- `EventNamesItem` (report_events): The index of an event names the item the event is about, for observers that look it up in the call and for readers that do so at any later time ("Index of the message or the report in the sub item array", Types.hpp:29), and the item's message or sub report is there too.
- `ObserversMissNothing` (report_events): While an observer is in the map it is called with every event of its report and of those below, once each and in order; only the event whose calls are going on may still be missing.  When the writer is idle, every level was told of every item.
- `MessagesLoggedOnce` (report_events): A message begun is logged once, by log or when the builder it was last moved to is destroyed, and is lost only when its builder was overwritten by a move assignment (ExecutionReport.cpp:76-98).
- `RemovedIsSilent` (report_events): Once remove_observer has returned, the observer is not called again: it and what it captured can be destroyed.
- `ContinuesInTime` (async): A task goes on exactly when its co_await is over: after all children of a when_all and after one of a when_any, and it does not wait any longer then (WhenAll.hpp:36-45, WhenAny.hpp:43-48, the latches).
- `FirstWins` (async): A when_any and a race take the outcome of the child that ended first, though await_resume looks at all of them (WhenAny.hpp:107-141).
- `NothingLeftWaiting` (async): Once a task went on, no delay of its children is left waiting that would keep run() busy or fire later: its handlers are already queued (Race.hpp:17-31, the cancelling of the losers).
- `EndedIsSwept` (async): A task that returned is in the pool only while a cleanup is queued; one that threw may stay until another task's cleanup (Executor.cpp:8-25).
- `WaiterGetsOutcome` (async): Whoever calls sync_wait gets the outcome of the task, never a receiver without one: not by a spurious wake-up and not when the task ends before the caller sleeps (detail/Wait.hpp:14-28, Receiver.hpp:47-52).
- `PoolDrains` (async): A task given to the pool is resumed, waits, ends and leaves the pool, unless it throws or the program dies (Executor.cpp:6-25).
- `WaiterReturns` (async): It does not sleep for ever, whichever of set() and wait() comes first (detail/Wait.hpp:14-28).
- `NoDeadFrame` (async_dead_frame): No handler resumes a child whose frame is gone (Operation.hpp:23-39).
- `TypeOK` (report_progress): Whatever integers are set, progress stays within 0..100, and so does every mean (ExecutionProgress, Types.hpp:57-102).
- `SettledIsMean` (report_progress): When no call is under way, a report shows the mean of its sub reports: no writer's update was lost to another's stale one.  That may fail only once the report was set by its own writer or a sub report went back (ExecutionReport.cpp:294-336).
- `NeverAhead` (report_progress): Nor does such a report show more than its sub reports have reached, at any time, whatever sums the writers store (ExecutionReport.cpp:313-329).
- `NeverBack` (report_progress): The progress of a report with sub reports goes back only if its own writer has set it or a sub report went back, though stale means are computed (the compare and exchange, ExecutionReport.cpp:331-335).
- `CallsReturn` (report_progress): Every call of set_progress returns when callers do not go on for ever: the writers do not keep each other in the loop (ExecutionReport.cpp:331-335).
- `CancelReaches` (report_status): Cancelling a report stops what is below it: as long as it is cancelled its sub reports are final, except for one that is added later or whose own status is set later (ExecutionReport.cpp:276-281).
- `FinalStays` (report_status): Only set_status of the report itself changes a final status: neither a guard, be it the report's or one above, nor the end or the cancelling of a report above does (ExecutionReport.cpp:276-281, ExecutionStatusGuard.cpp:16-77).
- `GuardsDecide` (report_status): The destructor of a guard gives its report the verdict (ExecutionStatusGuard.cpp:24-77).
- `ScopesMatchFrames` (flow): The scopes are those of the frames (EvaluationScope::push and pop): a frame's own scope is there as long as the frame, above those of the frames below; and until a call was destroyed there are no others, and each has the type it was pushed with.
- `NamesAreOwn` (flow): A name is in the scope of the block that declares it, as soon and as long as the block has evaluated the declaration (Scope::add, the scope guard of a block), until a call is destroyed.
- `ReturnEnds` (flow): A return, a raise or the error of a try ends its workflow: once there is a return value no block of that workflow begins another statement (EvaluationScope::return_value and pop, the checks of the policy). This holds until an await's timeout destroys a call.
- `CallersUntouched` (flow): A workflow leaves the scopes below its own as they are, in its body, at its end and when it is destroyed (eval of WorkflowInvocation): neither its return nor its declarations reach its caller.
- `Terminates` (flow): Every evaluation ends, in one way or another: loops are bounded, and an await waits no longer than its timeout.
- `BreakStaysInLoop` (flow_break): A break ends the loop around it and nothing else (break_loop): outside a loop no scope is left by it.
- `VariablesApart` (flow_values): 
- `DefaultsStay` (flow_values): The default values are what they were at the start, so that a variable that is given no value always starts with the same one, but for the two types that assign into the storage: integers and arrays (entity_utils.hpp:43-44).
- `RepliesAreData` (flow_values): A delegate that answers with what it was asked gives a reply with the request's data, in storage that nothing else shares (conversion/json.hpp:14-95).

### Bounds, and why they are enough

- rpc: two calls show every interference between two queries (a query is only
  touched by its own call and by a poll, and one poll can carry both replies);
  two copies of a request give a repeated reply, a late one, and one that
  arrives with the first. The run over any transport needs both copies for
  the second reply that `RepliesLandInFrames` allows for. One of the two calls fails on the server in each way that some
  run's `Kind` says, and liveness is checked over the same lossy transport.
- atomic: a circle of waiting needs two threads and two mutexes; the proof
  covers longer ones. Three values tell a lost update from an edit; two
  operations each let an operation meet what the previous one left.
- report_events: blocks of two and three items: an empty list, a block that fills
  exactly, and a second one that is entered by the writer while a reader
  crosses the boundary. Two levels, with two observers that choose theirs: both with one
  report, or one with each. Two builders let a message be moved back and forth, and one be
  overwritten by the other.
- async: each of the three awaiters in one run with two children: first, last,
  and both at once. Their tasks interact only through the queue and the pool.
  One `sync_wait`, since each has an event of its own.
- report_progress: the writers of two leaves meet in `mid` with its own, and all three in
  `root`; one weight is 2 and one report is excluded. The leaves' values are a small
  one, a middle one and one (411) that does not fit a byte; one leaf and `mid` can go up and down for ever.
- flow: all programs of a shape: a main block that declares two workflows, one
  of which awaits the other or a request, with two nested blocks below either
  (loop in loop, `if` in loop, call in a loop, loop in a call, an await with and without
  `try`, a return, break, raise or failing expression at every depth). Two calls and two
  loops on the stack let a policy pass through a scope of each type into one of each type;
  `MaxLoop` 2 gives a loop that ends by its bound and one that ends early.
- flow_values: every program of up to six statements out of some forty, chosen so that a value
  can go through every kind of container, a workflow's arguments and result,
  a request and its reply, and be assigned afterwards: a violation of
  `VariablesApart` takes two to four statements. One workflow deep, since the scopes
  below are only reached through handles.
- report_status: two levels below the root, so that cancelling passes through a
  report. One sub report each: what concerns several of them at once, the visit of a guard
  that ends, has no order in the model, and the proofs cover it. The leaf has no guard
  (`Tasks`), since a guard's effect differs from `SetStatus` and `LogError` only above
  sub reports.

### Fairness

- rpc: both `io_context`s run every ready handler, their timers are re-armed at
  the end of each poll, and a send goes on (weak fairness of each). A poll may
  receive any subset of what is in flight, and it is weakly fair for each
  message that a poll with it happens. The transport may still
  lose or garble every message, and since the code has no timeout a call can then wait for
  ever: `CallsReturn` says that it waits only if nothing that could bring its reply is left
  (`Lost`).
- atomic: a thread goes on with the operation it has begun (weak fairness).
  Operations are finitely many, so nobody starves a waiting thread; that a
  mutex is fair under endless traffic is not assumed and not claimed.
- async: `run()` takes the handlers in order, and an armed timer expires. The
  thread of a `sync_wait` looks at its event when it was notified, and before it
  first sleeps; a spurious wake-up may happen and is not relied on. Who pushes
  tasks or calls `sync_wait`, and when, is free.
- flow: one thread runs the coroutines, and the timers and requests that they
  wait for end (weak fairness of `Next`; every await has a timer, and a
  delay is one).
- report_progress: every writer takes its steps (weak), and its compare and
  exchange does not fail for ever (strong fairness of `Exchange`): a failure means that another
  writer changed the value, or that a weak exchange failed by chance. `CallsReturn` is claimed
  where the callers stop calling one day: writers that set new values for ever could
  fail another's exchange each time.

`CHECK_DEADLOCK FALSE` in all runs: the systems really stop, when all calls
have returned, all operations are done, the queue is empty, or the program died.
That nobody waits for ever on somebody else is a property of its own
(`NoDeadlock`, `CallsReturn`, `OperationsReturn`, `PoolDrains`).

## 4. What is proved

Each theorem holds for every value of the constants that satisfies the module's
named assumptions.

| module | theorem | establishes |
|---|---|---|
| RpcProofs | `TypesHold` | The state of client, service and transport keeps its type over every transport. |
| RpcProofs | `OutcomesAreComputed` (`OutcomeWasComputed`) | Over every transport a caller is only given a reply the server produced for its call. |
| RpcProofs | `WakesFindReplies` (`WakeFindsReply`) | Over every transport a set callback that is posted finds its coroutine suspended and the reply in its frame. |
| RpcProofs | `RepliesStay` (`ReplyStoredOnce`) | Over every transport a stored reply is not overwritten by the reply to another copy of the request. |
| RpcProofs | `RepliesLand` (`RepliesLandInFrames`) | Over every transport a reply meets a null pointer only where a call gets a second reply, and a dead frame only where a send failed. |
| RpcProofs | `ClientIsSafe` (`ClientSafe`) | Over a transport whose send does not suspend and fails only for undelivered requests: no bad store, no empty callback, queries matched to waiting calls. |
| RpcProofs | `NoWakeupIsLost` (`NoLostWakeup`) | Over such a transport every suspended call whose reply is stored has its callback posted. |
| RpcProofs | `Implementation` (`ImplementsRpcSpec`) | Over such a transport the client and the service implement RpcSpec. |
| AtomicProofs | `LockingIsSafe` | Holders of a mutex are compatible and every thread takes its locks from the lowest address up, for any number of threads and atomics. |
| AtomicProofs | `DeadlockFree` (`NoDeadlock`) | No circle of waiting among any finite number of atomics and any threads. |
| AtomicProofs | `AccessesAreProtected` (`AccessIsProtected`) | Where callers own what they move from, no thread works on an object another one changes. |
| AtomicProofs | `Implementation` (`ImplementsAtomicSpec`) | Where callers own what they move from, every operation takes effect at one instant. |
| ReportEventsProofs | `EventsHold` | The inductive invariant: storage without gaps, readers in step with it, items numbered by what is kept, identifiers used once, and what each observer has heard. |
| ReportEventsProofs | `VisitsHold` (`VisitsAreExact`) | Blocks of any size, any number of readers and of appends: a visitor sees the published elements, in order, and all that were there when it began. |
| ReportEventsProofs | `EventsNameItems` (`EventNamesItem`) | In every hierarchy the index an event carries names the item the event is about, during the call and at any later time. |
| ReportEventsProofs | `NothingIsMissed` (`ObserversMissNothing`) | However observers come and go, each is called once with every event of its report from its insertion on, in order. |
| ReportEventsProofs | `LoggedOnce` (`MessagesLoggedOnce`) | However builders are moved, assigned and destroyed, a message is logged once, and lost only if its builder was overwritten by an assignment. |
| ReportEventsProofs | `RemovedStaySilent` (`RemovedIsSilent`) | No step calls an observer that was removed. |
| AsyncProofs | `QueueHolds` | The inductive invariant: what the queue's entries refer to is there, a task is started once, the event is set when the outcome is there, and a task that went on has neither children nor delays left. |
| AsyncProofs | `WaitersGetOutcomes` (`WaiterGetsOutcome`) | However set() and wait() interleave and whatever else the io_context runs, sync_wait gives the outcome of its task. |
| AsyncProofs | `LosersAreCancelled` (`NothingLeftWaiting`) | For any tasks and any number of children, a task that went on leaves no delay of its children waiting. |
| AsyncProofs | `ReturnedAreSwept` (`EndedIsSwept`) | For any tasks, one that returned and is still in the pool has a cleanup queued. |
| AsyncProofs | `LatchesHold` | The inductive invariant of the latches: what is left of a when_all's is what its ended children leave, and nobody waits on a when_any's that has counted a child. |
| AsyncProofs | `TasksContinueInTime` (`ContinuesInTime`) | For any number of children, any of which may end at once or later, a task goes on after all of a when_all's or one of a when_any's, and does not wait any longer. |
| AsyncProofs | `FirstIsTaken` (`FirstWins`) | For any number of children, what a when_any or a race takes is the outcome of the child that ended first. |
| ReportProgressProofs | `TypesHold` (`TypeOK`) | Whatever integers are set and whatever the weights, every progress is within 0..100 and no mean is divided by zero. |
| ReportProgressProofs | `UpdatesAreNotLost` (`SettledIsMean`) | For any hierarchy and any number of writers of any values: when no call is under way, every report shows the mean of its sub reports, unless it was set itself or a sub report went back since it last did. |
| ReportProgressProofs | `MeansAreReached` (`NeverAhead`) | Whatever stale sums are stored, a report is ahead of the mean of its sub reports only after it was set itself or one of them went back. |
| ReportProgressProofs | `ProgressGrows` (`NeverBack`) | Slow writers store stale means, but the progress of a report with sub reports goes back only after it was set itself or one of them went back. |
| ReportProgressProofs | `ProgressHolds` | The inductive invariant: at a report that is not disturbed, what each writer has seen lies between what it replaces and what there is, and if the report does not show its mean there is a writer that will store it. |
| ReportStatusProofs | `CancelIsSafe` (`CancelReaches`) | In every hierarchy and after any calls, the sub reports of a cancelled report are final, but for those added, or whose status was set, after the cancelling. |
| ReportStatusProofs | `OthersKeepFinal` (`FinalStays`) | A final status changes only by a set_status of its own report: no guard changes it, nor the end or the cancelling of a report above. |
| ReportStatusProofs | `VerdictsAreRight` (`GuardsDecide`) | A guard that ends leaves a final report (unless its status was set back to Pending), no sub report waiting to be started, and a verdict that hides nothing that was logged or failed directly below. |
| FlowProofs | `FlowHolds` | The inductive invariant: each frame's scope is above those of the frames below, a call's is a function's, and until a call is destroyed a function that returned is left in its innermost scope and a block's names are those it declared. |
| FlowProofs | `ScopesMatch` (`ScopesMatchFrames`) | For any programs, workflows and nesting, timeouts and exceptions: a frame's scope is there as long as the frame, and until a call is destroyed there are no others. |
| FlowProofs | `NamesStay` (`NamesAreOwn`) | Until a call is destroyed, the scope of each block has the names the block declared so far and no others, whatever ran in between. |
| FlowProofs | `CallersStay` (`CallersUntouched`) | No step of a workflow, nor its end or its destruction, changes a scope of its callers. |
| FlowProofs | `ReturnsEnd` (`ReturnEnds`) | Once a workflow has a return value, no block of it begins another statement, until a call is destroyed. |
| FlowValuesProofs | `Invariance` | The inductive invariant: the heap is made of its own cells and has what the scopes bind, the defaults are where they were, no two variables have one cell but for inputs and defaults, and each awaited call has its scopes. |
| FlowValuesProofs | `ApartAlways` (`VariablesApart`) | For all programs, whatever their expressions and containers, two variables never share storage, except for inputs and default values. |
| FlowValuesProofs | `DefaultsAlways` (`DefaultsStay`) | No program changes the default value of any type but integers and arrays. |
| FlowValuesProofs | `RepliesAlways` (`RepliesAreData`) | For requests of any shape and depth, a reply has the request's data at the same places, in storage that nothing else reaches. |

*Rpc.* `CausalInv` follows a message from request to stored reply, over any
transport, and `SpentInv` that what was sent or stored is not sent once more. `EntryInv` is
what can be said of the life of frames over any transport: a query points to
the frame until the reply is stored, and nowhere if it was inserted anew for a call whose
reply came before its send was completed; a callback that is set is posted after the query
is gone. From these three follow `WakeFindsReply`, `ReplyStoredOnce` and
`RepliesLandInFrames`. Over an arbitrary transport the client is not safe, and the last of
them says how far it is: a reply meets a null pointer only if it is the second one of a
call that overtook its own send, and a frame that is gone only if a failed send ended the
call. `QueryInv`, which matches the queries with the calls that wait, and with it
`ClientSafe`, `NoLostWakeup` and the refinement, is inductive only over a
`SafeTransport` (send does not suspend, and fails only for requests that are
not delivered). From both invariants every step of Rpc is one
of RpcSpec or a stutter.

*Atomic.* `LockInv` says that holders are compatible and that a thread's
locks are the lowest of those it needs. A circle of waiting threads would need
a highest address that some thread waits for and another holds while it waits
for a higher one. For the accesses, `MoveInv` expresses `OwnedMoves` over the
pending operations and `ValueInv` that a loaded value is still the object's
value when it is stored; the refinement maps the instant of an access to its
store or, for a read, its load.

*ReportStatus.* The inductive invariant is `TypeOK`, the reach of cancelling over the reports
added that are not late, and that these have a parent. The statement about
one level of cancelling needs the parent relation to be the transitive closure's
generator, which is `ReportAssumption`. The lemma `CancelledDown` describes the
recursive cancelling without recursion, through `Above`; `SetInFrame`, that setting statuses
leaves the final ones of other reports alone, gives `FinalStays`.

*StableVector, ReportEvents.* The storage invariant (`StorageInv`) says that the blocks
have no gaps: all are full but the last, the capacity is their number times `BlockSize`, and
the k-th element lies at `PlaceOf(k - 1)`. `PlaceInv` follows a reader through them. The
end of a block that a reader took on entering it may be old, and the visit is exact
nevertheless because an end below `BlockSize` is at or past the reader's snapshot. For the
events, `ItemsInv` says which levels the last item is still to be announced to;
`ObserversInv` that an identifier is used once and a map holds those added and not removed,
and that the part of a map that `notify` has still to call is a part of the map as it is
now, which is what the lock kept during the calls is for; `HeardInv` counts what each
observer heard against what its level was told. The assumptions are `VectorAssumption` and
`EventsAssumption` (a hierarchy of any depth, finitely many builders); the bounds
`MaxElements`, `MaxVisits` and `MaxKept` may have any value.

*ReportProgress.* What a writer adds up, `Visited`, is a recursive function, and the sums of
natural numbers it stands for are shown to exist and to grow with their terms by looking at
the least place where they would not. `RoundInv` is what holds of a writer between reading
and exchanging at a report that is not disturbed: it replaces at most what the mean would be if the rest of the visit were
as things stand now, and what it added up is at most what there is. So a mean that is stored was
reached (`NeverAhead`) and is not below the one it replaces (`NeverBack`); both need that the
other writers let progress grow, which a step that lowers a sub report gives up for its parent by
disturbing it, so they are proved together. `UpdatesInv` is
about what is not yet stored: a report that is not disturbed and does not show its mean has a writer that comes to
it next or is about to read it, has missed nothing in its round so far, or will fail to
exchange and start over. Without calls under way there are no such writers, which is `SettledIsMean`. The hierarchy may have
any shape that `ProgressAssumption` describes, any weights, and any integers may be set on any reports.

*Async.* `QueueInv` says that the entries of the queue refer to tasks and children that
exist, that a task's first resumption and what `sync_wait` scheduled are queued once, and
the lemmas `TailConsumes`, `PostsAfterTail` and `Posts` what a handler may do to the queue.
`WaitInv` ties the event to the receiver: it is set by the step that fills it, and once set
nothing is scheduled that could fill it again. `ChildrenInv` and `SweptInv` follow the
children, delays and cleanups of each task. They hold for any tasks and any finite number
of children (`AsyncAssumption`). `LatchInv` counts: what is left of a `when_all`'s
latch is what its ended children leave of it, nobody waits on the latch of a `when_any` that
has counted a child, and the result is that of the first of `endings`. From it follow
`ContinuesInTime` and `FirstWins`. That several children end in one handler in the order
of their places is the definition of `InOrder`; the proofs use that it is a sequence with one
place for each, not which child is at which.

*Flow.* A step is composed of elementary ones: the frame on top goes on, a frame comes or goes, with a
scope or without, a scope gets a name, a policy or a value. The lemmas whose names end
in `Upright`, `Exact`, `Owned` and `Good` say that each keeps the parts of the invariant,
and those that end in `Keeps` compose the actions from them. `Upright` always
holds: the scopes of frames are in the order of the frames, a call's is a function's, and adjacent
frames fit. `Exact` and `Owned` hold until a call was destroyed (`cut`): scopes and frames correspond
(`Matched`); the innermost scope of a function that returned is left (`Left`), so that the
policies, which `Pop` hands down one scope at a time, do not lose a return; a block
that awaits the first part of an expression is not left (`Paused`), and one that waits for a
later part of it has returned only where a `try` turned an error into a value (`Tries`);
a block's names are those it declared so far. `CallersUntouched` and `ReturnEnds` are
about steps and follow from the same invariant. The programs and workflows may be any of those
that the module's grammar describes (conditions have no await), the workflows may be recursive, and `MaxLoop` is any number.

*FlowValues.* The assumption is `FlowValuesAssumption`; the statements are any set of them, with
expressions of any length, the workflows may be recursive, and the bounds `MaxStatements`
and `MaxDepth` may have any value. The invariant `IInv` has four parts. `Ready`: the heap
is finite, every container holds cells of the heap (`Well`), and so do the scopes. It
makes each operation total. `Steady` is `DefaultsStay` together with what keeps it: the defaults
are at their cells and have their types, so that a write, which goes to an integer, an array
or a dictionary or empties a string, changes none of the values it speaks of. `Apart` is `VariablesApart` of any stack of scopes, so
that it can be said of the stack between the pops of a `Leave`. `Called`: each declaration
that awaits a result has the two scopes of its call, so that `Pop` meets them.

Every operation keeps what `Keeps` says: no cell disappears or changes its type before the
statement ends, and a value without an editing operation stays. An expression is a sequence,
so that `RunWorked` follows by induction on its length, from the height of the stack of
values that the assumption gives (`Height`). The induction is over a set of numbers,
those for which the claim holds, whose least missing number cannot exist (`LeastNat`,
`Upward`): so the functions that the modules define by recursion on a number exist and unfold
(`StepsDef`, `RunDef`, `PlacesDef`, `PartnersDef`). `ReachIs` says that reachability is
closed, which needs that a way through more containers than there are meets one twice;
`LiveIs` then that `Live` leaves a well heap, and `CopyIs` that a declared
cell is one that no scope names.

For `RepliesAreData`, `PlacesIs` shows that the places of a value that is not cyclic are a
finite tree, `Replied` what `FromJson` makes of it: one cell for each, with a number that no
cell of the heap has, so that nothing else reaches it (`AnswerApart`), also after
`Construct` and `Live`. `MirrorsAlike` compares the reply and the data to
any depth.

Only model-checked:

- Liveness (`CallsReturn` of Rpc and of ReportProgress, `OperationsReturn`, `PoolDrains`,
  `WaiterReturns`, `Terminates`), which is out of the prover's reach.
- The three runs that show a violation: a counterexample is an instance by nature.

## 5. The mutants

Each property is shown to depend on the code: with the definition replaced by
its variant, TLC finds the property violated.

| run | property | definition | variant |
|---|---|---|---|
| `rpc_unreliable` | `ClientSafe` | `EraseQueries` | `EraseNoQueries` |
| `rpc_unreliable` | `NoLostWakeup` | `PostWakes` | `PostOneWake` |
| `rpc_unreliable` | `OutcomeWasComputed` | `PostWakes` | `PostWakesOfAll` |
| `rpc_unreliable` | `ReplyStoredOnce` | `EraseQueries` | `EraseNoQueries` |
| `rpc_unreliable` | `ImplementsRpcSpec` | `PostWakes` | `PostWakesOfAll` |
| `rpc_unreliable` | `CallsReturn` | `PostWakes` | `PostOneWake` |
| `rpc_any_transport` | `RepliesLandInFrames` | `SetResponseCallback` | `SetResponseCallbackAnew` |
| `rpc_any_transport` | `WakeFindsReply` | `PostWakes` | `PostWakesOfAll` |
| `atomic` | `AccessIsProtected` | `Compatible` | `CompatibleReaders` |
| `atomic` | `ImplementsAtomicSpec` | `Needed` | `NeededThisOnly` |
| `atomic` | `NoDeadlock` | `NextLock` | `NextLockThisFirst` |
| `atomic` | `OperationsReturn` | `NextLock` | `NextLockThisFirst` |
| `report_events` | `VisitsAreExact` | `Guard` | `GuardFromOne` |
| `report_events` | `EventNamesItem` | `EventIndex` | `EventIndexOfSize` |
| `report_events` | `ObserversMissNothing` | `NewId` | `NewIdOfCount` |
| `report_events` | `MessagesLoggedOnce` | `MovedFrom` | `MovedFromKeepsReport` |
| `report_events` | `RemovedIsSilent` | `Unlocked` | `UnlockedAlways` |
| `async` | `WaiterGetsOutcome` | `Blocks` | `BlocksNotWoken` |
| `async` | `WaiterReturns` | `Blocks` | `BlocksAlways` |
| `async` | `ContinuesInTime` | `Latch` | `LatchOfLen` |
| `async` | `FirstWins` | `Notify` | `NotifyOnSecond` |
| `async` | `NothingLeftWaiting` | `Cancelled` | `Uncancelled` |
| `async` | `EndedIsSwept` | `PostCleanup` | `CleanupDropped` |
| `async` | `PoolDrains` | `Started` | `StartedWithoutCaller` |
| `report_progress` | `TypeOK` | `AsProgress` | `AsByte` |
| `report_progress` | `SettledIsMean` | `AfterFailure` | `GiveUp` |
| `report_progress` | `NeverAhead` | `EndRound` | `EndRoundKeepSum` |
| `report_progress` | `NeverBack` | `Unchanged` | `StoreAlways` |
| `report_progress` | `CallsReturn` | `AfterFailure` | `ExchangeAgain` |
| `report_status` | `CancelReaches` | `CancelledWith` | `CancelledNone` |
| `report_status` | `FinalStays` | `CancelledWith` | `CancelledAll` |
| `report_status` | `GuardsDecide` | `Verdict` | `VerdictOfLog` |
| `flow` | `ScopesMatchFrames` | `EndCall` | `EndCallWithoutPop` |
| `flow` | `NamesAreOwn` | `Add` | `AddToFunction` |
| `flow` | `ReturnEnds` | `Pop` | `PopOfLocal` |
| `flow` | `CallersUntouched` | `Push` | `PushWithoutType` |
| `flow` | `Terminates` | `Iterate` | `IterateForEver` |
| `flow_values` | `VariablesApart` | `Copy` | `CopyOfHandle` |
| `flow_values` | `DefaultsStay` | `AssignHandle` | `AssignByValue` |
| `flow_values` | `RepliesAreData` | `Convertible` | `ConvertibleScalar` |

## 6. Disagreements between code and documentation

- `rpc_unknown_function` (`UnknownFunctionIsReported`, `src/src/libs/rpc/src/Service.cpp:46`): poll queues the 'not found' reply and then, with no continue, also queues exec with the null AbstractFunction, whose first act is f->invoke: the service crashes. messages.proto:16 declares `FunctionNotFound = 2 ;` and Service.cpp:29 words the reply, `error.set_what(std::format("Function {}.{} not found", name_space, fn_name));` (src/src/libs/rpc/src/Service.cpp:29): the caller is meant to be told and the service to go on.
- `async_dead_frame` (`NoDeadFrame`, `src/src/libs/async/headers/ez/async/Operation.hpp:25`): Operation::await_suspend hands the timer a continuation that resumes the coroutine without looking at m_done, and a handler that is already queued is not reached by cancel(): when both timers of a race are found expired together, the loser's handler resumes a frame that when_any has destroyed. The test of race (src/libs/async/tests/tst_async.cpp:167) says the two delays may simply be raced: "auto id = co_await race(delay(context, 10ms, 1), delay(context, 100ms, 2));" and "ASSERT_EQ(id, 1)", and Operation.hpp:33-38 cancel() returns true for such an operation.
- `flow_break` (`BreakStaysInLoop`, `src/src/libs/flow/src/engine/eval/evaluation_context.cpp:79`): EvaluationScope::pop passes a Break on to the scope below also when the scope it pops is the loop itself, so that the break then ends every block around the loop and, at program level, the program. evaluation_context.hpp:48 names the operation that sets it "void break_loop();" and the tour of the language, src/src/libs/flow/datasets/examples/01_syntax_tour.nfl:54, leaves a repeat with "if i > 10 { break; }": a break is to leave the loop.

## 7. Not modelled, and why

- *Parser, exporter, editor tools of flow*: pure functions of text, without state.
- *Vocabulary types, `rpl`*: templates without state between calls. The bodies of
  `Chain` are commented out, and its `Run` returns a constant
  (`libs/core/headers/ez/rpl/Chain.hpp`).
- *`Cow`, `Box`, `Resource`*: wrappers of one value that one thread uses; nothing in
  the repository edits one that it shares.
- *Serialization of rpc*: protobuf; its outcomes, parsed or not, are in the
  rpc modules.
- *In FlowValues*: time points and the dictionaries that differ in their name only (campaigns,
  device information); the text a value is shown as, except where showing it
  never ends; a second program of the same process, which would
  find the default values as the first left them (`DefaultsStay` says how
  far they can change).
- *In Flow*: conditions with awaits, named arguments, calls without `await`. In
  Async: `io_context::stop`.
- *Concurrent writers of one report*: the class documents that there is one. In ReportProgress,
  reports added and weights changed while progress is propagated.
- *Applications*: terminal and process I/O.

## 8. Plan

Done: ez.rpc with its specification and proofs; Atomic with its specification and
proofs; the reporting of ez.core (storage, items and events, progress, status) with
proofs; the pools, combinators and `sync_wait` of ez.async, with
proofs; the control flow and the values of the ez.flow interpreter, with proofs.

Left, in this order:

1. *Proofs*: type invariants of Async, Flow and FlowValues in full; RpcSpec over an arbitrary
   transport, as far as `EntryInv` carries it.
2. *Flow*: conditions with awaits, named arguments; a structured semantics as
   the abstract specification of the scopes and policies.
3. *FlowValues*: the abstract specification in which each variable has a value of its
   own, with the sharing that assignments create as its only exceptions.
