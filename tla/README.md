# Verification of cpp-library

TLA+ models, TLC runs and machine-checked proofs about the concurrent core and the
libraries of this repository. `HP` below stands for the directory `C++高性能服务器/atpdxy`,
the high-performance server library.

## 1. The system

The repository is a personal C++ library: a server framework (`HP`), a thread
pool, a memory pool, a JSON library, a partial rewrite of the standard library,
sorting algorithms, and study notes. There is no single program; the parts
interact as follows.

```
  ThreadPool (stand-alone)          HP/config --listeners--> HP/log
  MemoryPool <- DataBuf
                                    HP/timer (abstract; nothing derives from it)
  HP/iomanager --derives--> HP/scheduler --swaps--> HP/fiber
        |  epoll, pipe            |  threads (HP/thread)
```

| Component | State | Operations | What is hard, what makes it correct |
|---|---|---|---|
| **ThreadPool** (`ThreadPool/ThreadPool.h`) | queue, `stop_`, workers, futures | worker loop, `enqueue`, destructor | notify after unlock, tasks that enqueue tasks while the pool is destroyed. No wake-up is lost, each accepted task runs once and in order, the destructor returns. |
| **Scheduler** (`HP/scheduler`) | list of fibers and callbacks, active and idle counts, two stop flags | `run`, `schedule`, `switchTo`, `start`, `stop`, `stopping`, `tickle`, `idle` | fiber states and counters are read and written outside the lock. A fiber is run by one worker at a time, none is lost, `stop()` drains the list and returns. |
| **Thread** (`HP/thread`, semaphore of `HP/mutex`) | object, pthread, id, callback | constructor, `run`, `join`, destructor | `run` uses the object its owner may destroy. When the constructor has returned the id is set and `run` does not come back to the object. |
| **Fiber** (`HP/fiber`) | `m_state`, context, stack, the thread's current and main fiber | `swapIn`, `swapOut`, `YieldToReady`, `YieldToHold`, `MainFunc`, `call`, `back`, `reset`, `GetThis` | the state is set before the context is saved; one slot per thread holds the context to return to. No place on a stack is resumed twice, control returns to whoever switched to the fiber, no stack is freed under a thread. |
| **IOManager** (`HP/iomanager`) | per fd and event a registered task, number of pending events, tickle pipe | `addEvent`, `delEvent`, `cancelEvent`, `cancelAll`, `triggerEvent`, `tickle`, `stopping`, `idle` | events reported by `epoll_wait` race with deletion; the counter is read apart from the list. Each callback is delivered once; the last worker leaves nothing behind. |
| **Timer** (`HP/timer`) | ordered set of timers, `m_tickled`, previous time | `addTimer`, `cancel`, `refresh`, `reset`, `getNextTime`, `listExpiredCb` | empty set tested under another lock than the one it is used under; notifications suppressed by a flag; clock set back. No timer is overslept, a dead timer stays dead. |
| **Config** (`HP/config`) | registry of variables by name, values, listeners | `lookUp`, `setValue`, `fromString`, `loadFromYaml` | listeners run under the read lock and the value is assigned under the write lock; documents are applied variable by variable. A name stands for one variable for good; a load does what its document says. |
| **Log** (`HP/log`) | loggers with level and appenders, files, patterns | `log`, the listener of the configuration, `reopen`, `LogFormatter::init` | a logger is rebuilt in steps while threads log; the file is reopened outside the lock. Loggers follow the configuration, no event vanishes, lines are misplaced for a limited time. |
| **MemoryPool, DataBuf** (`MemoryPool`) | free lists per size, totals, chunks of buffers | `alloc_chunk`, `retrieve`, `read_from_fd`, `write_to_buf`, `write_to_fd`, `pop`, `adjust`, `clear` | the limit at an empty free list; buffers that change chunks while they hold bytes. The pool accounts for each chunk and is an allocator; a buffer keeps its bytes, all of them and in order. |
| **MyJson** (`MyJson/tutorial08`) | value trees with capacities, heap blocks | `lept_parse`, `lept_stringify`, copy, move, swap, the array and object calls | manual memory over slots that are moved, copied and freed. Exactly JSON is accepted, blocks balance, values are what the calls say. |
| **Sorting, MySTL** (`排序算法`, `MySTL`) | an array | sorts, heaps, searches, permutations, merges, copies | boundaries (empty, one, equal values), comparisons that are not total, categories of iterators. |
| **Notes, earlier and vendored code** (`日志`, `C++服务器`, ...) | — | — | no running system of their own |

`PROJECT.json` lists these components with what is and is not modelled, and,
under `hazards`, every place where this code can go wrong in a way tests would
hardly reach.

## 2. Modules

| Module | Models | Notes |
|---|---|---|
| `TaskPool` | the promise of a thread pool | no threads, lock or condition variable: tasks are started in order, once, and finished before the pool is gone |
| `ThreadPool` | `ThreadPool.h` | `ImplementsTaskPool` is the refinement of `TaskPool` |
| `Executor` | the promise of a scheduler of coroutines | no fiber states, counters or lock: a task is taken by one worker, executed once for every time it is taken, and never after it has ended. A step may put several entries, as `triggerEvents` does with the two callbacks of a descriptor. The promise ends when somebody puts a task that is still somewhere (`misused`) |
| `Scheduler` | `scheduler.cpp`, and the states of `fiber.cpp` | the base class: `tickle` only logs, `idle` spins; `ImplementsExecutor` is the refinement of `Executor`; the IOManager is checked against it too, with callbacks and with fibers that wait for events |
| `IOManager` | `iomanager.cpp` | EXTENDS `Scheduler`: the inherited steps are `Scheduler`'s own actions, `idle`, `tickle` and `stopping` are replaced as in the code |
| `Timer` | `timer.cpp` | with waiters that use the interface as it is meant |
| `Thread` | `thread.cpp`, the semaphore of `mutex.cpp` | |
| `Fibers` | `fiber.cpp` | EXTENDS `Thread`: the callback of a thread uses fibers. A context is a place on a stack that can be resumed once |
| `Config` | `ConfigVar::setValue` | the two locks, with concurrent setters |
| `ConfigMap` | the registry `Config` of `config.h`, `config.cpp` | names, types and YAML documents |
| `Log` | `Logger`, the appenders | EXTENDED by `LogConf` |
| `LogConf` | `LogIniter` of `log.cpp` | composes `Config` and `Log`: the listener that rebuilds the loggers runs inside `setValue`, and its loops over loggers and appenders are steps |
| `LogFormat` | `LogFormatter::init` | patterns as sequences of characters |
| `Allocator` | the promise of the memory pool | blocks are held by one user at a time |
| `MemPool`, `DataBuf` | `memory_pool.cpp`, `chunk.cpp`, `data_buf.cpp` | `DataBuf` EXTENDS `MemPool`; `ImplementsAllocator` is the refinement of `Allocator` |
| `LeptText`, `LeptJson` | `tutorial08/leptjson.cpp` | texts and the parser; values and the calls on them |
| `AlgoBase`, `HeapAlgo`, `AlgoSearch`, `AlgoPermute`, `AlgoSort` | `algo_base.h`, `heap_algo.h`, `algo.h` | one operator per algorithm, on memory as a function from positions |
| `Uninit` | `uninitialized.h`, the temporary buffer of `memory.h` | which raw cells hold objects when a constructor throws |
| `Sorts` | `sort.cpp` | |
| `Arrays` | a program that calls these algorithms | the calls, and reference definitions of what they promise |
| `ThreadPool_proofs`, `Scheduler_proofs`, `IOManager_proofs`, `Timer_proofs`, `Fibers_proofs`, `DataBuf_proofs`, `LogConf_proofs`, `ConfigMap_proofs` | — | the theorems of section 5 |
| `MCScheduler`, `MCIOManager`, `MCLogConf`, `MCArrays` | — | values of the constants, symmetry sets for the runs that check invariants only |
| `MCRuntime` | — | `DataBuf`, `Fibers` and `ConfigMap` side by side |
| `MCLibraries` | — | `Timer`, `Arrays`, `LeptJson` and `LogFormat` side by side |

`MCRuntime` and `MCLibraries` put components that share no state into one run: a
behaviour belongs to one of them, named by `part`, and the others rest.

Names are those of the source where TLA+ allows it (`m_fibers`,
`m_activeThreadCount`, `addEvent`, ...). Definitions marked `Fault:` are
deliberately wrong variants of the action below them, each a plausible bug of
the code (a dropped guard, a missing reset, a counter not lowered). No
specification uses them: putting one in the place of its original must break
the property listed beside it in `PROJECT.json` under `mutants`, which shows
that the property depends on that piece of code.

### What one step is

**ThreadPool.** Everything under `queue_mutex_` is a step. `notify_one` and
`notify_all` come after the unlock and are steps of their own. Waiting on the
condition variable is the worker position `wait`; a notify moves one waiter to
`check`, where it tests the predicate; spurious wake-ups happen at any time.

**Scheduler.** The lock protects only `m_fibers`, so the fiber states, the
counters and the stop flags change in steps of their own: taking a task
(`Pick`, which raises the active count inside the lock), swapping in, setting
the state in a yield, saving the context (`SwapOut`), lowering the active count
(`Deactivate`), deciding what becomes of the fiber (`Settle`), the two halves
of `stop()`. A task is one fiber, scheduled as a fiber or as a callback
(`cb_fiber`). What it does while it runs is chosen freely: it schedules new
tasks, schedules old ones again, yields READY or HOLD, moves with `switchTo`,
returns or throws. `schedule` asks nothing about a fiber, and no call tells a
caller whether one has parked: so `ScheduleAgain` (by a task, `Wake`, or by the
owner, `MainResume`) takes any fiber, listed, running, on its way off its stack
or parked. The history variable `early` records that this has happened to a
fiber which an entry of the list or a worker still had; it is in no guard.
`fault` records what ends a process: a failed `ATPDXY_ASSERT`, or two threads on
one stack. What the scheduler owes its users is stated relative to `early`: it
never gets into trouble by itself. What happens after it is finding 2.

**IOManager.** Operations on an fd run under the mutex of its context and are
one step. `tickle()` is called after the scheduler's lock is released:
`tickles` counts the calls a thread still has to make before it goes on.
`stopping()` takes two steps (list and active count under the lock, event
counter after it), and so does waiting (`epoll_wait` returns a set of events)
and handling them. `epoll_wait` may return at any time, report any registered
events, and all events on a hang-up (`Hangups`). With `Fibers` a task may
register itself, as `addEvent` without a callback does, and yield afterwards; the
event may come in between, and sets `early` like any other call of `schedule`.

**Timer.** Every operation takes the write lock; the constructor of a timer reads
the clock some time before it (`then`), `onTimerInsertedAtFront` is called after
it (`owed`), and `listExpiredCb` reads the clock and tests for
emptiness before the write lock. The waiters are external: they call
`getNextTime`, sleep that long or until they are woken, and call
`listExpiredCb`. A wake-up that arrives before the sleep is remembered, as a
pipe in an epoll set would.

**Thread, Fibers.** `swapcontext` is one step: it saves the place where the
thread is in one fiber's `m_ctx` and goes on from the other's, which is spent
by that; going on from a spent place is a fault, since the frames it names have
moved on. `GetThis`, the creation, the switches, the entry of `MainFunc`, a
yield, the end of a callback and the drop of a pointer are steps. Two threads
may run the same fiber, one after the other.

**Config, Log, LogConf.** `setValue` is the comparison under the read lock, each
call the listener makes on a logger, the release of the read lock and the
assignment under the write lock. Logging an event is the test of the level, the
logger's lock, and per appender the test of the time, the reopening and the
write. A file that was renamed or deleted still takes lines until it is
reopened. In `ConfigMap`, loads and sets are steps per variable; a load walks the
document node by node where `loadFromYaml` lists all nodes first, which comes to
the same because nobody else has the document.

**MemPool, DataBuf.** `alloc_chunk` and `retrieve` hold the pool's mutex and are
one step each; a buffer's `read_from_fd` and `write_to_buf` take one step per
chunk they get or give back, so that buffers of different threads interleave.
A buffer belongs to one thread. Bytes are numbered by their place in the
connection's stream, one per capacity unit.

**LeptText, LeptJson, LogFormat, Uninit, Algo\*, Sorts.** These are sequential:
a call is one step. What a call computes is translated loop by loop or, where
the loop only finds a first position, copies a range or counts, as that. `live`
counts heap blocks; memory that the code leaves unset holds any value.

### Where the models are coarser than the code

- `Settle` is one step; the code reads the state up to three times and then
  writes or schedules, and `SwapIn` joins the test of the state to `swapIn`. A
  second worker that changes the state in between has got the fiber early: it
  would only add to the behaviour finding 2 is about.
- A callback's fiber (`cb_fiber`) is made when the callback is taken; that a worker
  uses the object again after the callback has ended is not told apart.
- A cancelled event's `tickle` is made after the fd's mutex is released, in the
  code before; `tickle` itself takes no lock but reads an atomic counter.
- `epoll_wait` reporting and the draining of the pipe are one step.
- `epoll_ctl` succeeds: descriptors are closed after their events are gone, as
  in the tests. Descriptors are below 32, so `m_fdContexts` never grows.
- `Scheduler` and `IOManager` have `use_caller=false`; what a root fiber does to
  the contexts is in `Fibers` (`Nested = TRUE`), without the scheduler's list.
- In `Fibers` a fiber that is not over is resumed only after it has left its
  stack on the other thread; the window before that is in `Scheduler`, for fibers
  scheduled by anybody.
- The wait on a thread's semaphore returns once it is posted; the exception
  thrown when `sem_wait` is interrupted by a signal (`mutex.cpp`) is left out.
- `read_from_fd` gets at least as many bytes as `FIONREAD` said; that it says 0 and
  bytes arrive before the read is left out (section 4).
- `reset` always installs `MainFunc`, as the code does; a callback is not
  distinguished from another.
- YAML documents are maps and texts; a sequence node would be another text.
- In `LeptJson` an element or member is written in the step that obtains its
  pointer; two values, and containers of up to `MaxLen` elements, are enough
  for copy, move and swap to go wrong. Numbers are kept as written.
- The headers of MySTL do not compile as they stand (for example `heap_algo.h:44`
  and `118`, `iterator.h:97` and `183`, `uninitialized.h:95` and `193`); the
  models read them as intended.
- In `Arrays`, moving a value leaves its source unchanged, and a random draw is
  any draw.
- In the runs of the IOManager a fiber is scheduled again by events only
  (`MaxResumes = 0`); tasks and the owner do it in the runs of the scheduler, and
  in the theorems about both.

## 3. The runs

All runs set `CHECK_DEADLOCK FALSE`, since each system ends: the pool is gone,
`stop()` has returned, or a process has failed an assertion.

| Run | States | Question and answer |
|---|---|---|
| `thread_pool` | 1,840 | Two workers, one client, three tasks. No task is lost or run twice, no wake-up is lost, no worker leaves work behind, the pool implements `TaskPool`, accepted tasks finish, the destructor returns. |
| `scheduler` | 754,371 | Two workers, three tasks that yield READY and HOLD and spawn one another, bound to a thread or not; one of them is scheduled again at any moment. The counters agree with the workers, READY fibers are never forgotten, the scheduler implements `Executor` until a task is scheduled early, and no assertion fails before that. |
| `scheduler_switch` | 729,025 | Two workers, two tasks that also use `switchTo` and are scheduled again at any moment. `stop()` returns with an empty list, unless an assertion fails first (finding 2). |
| `iomanager` | 1,131,495 | Two workers, two fds, both events, hang-ups, two tasks that are callbacks or wait for an event themselves, cancels and deletes by tasks and owner, a pipe of one byte. Counter, contexts and events agree, a callback is delivered once, the last worker leaves only when nothing is registered or listed, and until an event fires for a fiber that has not parked the IOManager implements `Executor`. |
| `iomanager_live` | 65,937 | Listed tasks are taken, and `stop()` returns once no event is pending. |
| `log_conf` | 2,039,014 | Two threads set the configuration of the loggers while two log, with one rename or deletion of a file. The loggers end up as the configuration says, no event vanishes, lines go to a renamed file for one period at most. |
| `runtime` | 648,276 | An input and an output buffer over one pool; threads that run fibers; loads and sets of a registry. The pool accounts for its chunks and implements `Allocator`, streams stay in order, buffers do not fail their assertions when used as the pool's limit allows, a constructed thread is ready, fibers go from place to place in order and come back to whoever resumed them, names keep their variable, loads are applied. |
| `libraries` | 516,525 | Two timers (one recurring), two waiters, a clock that may be set back once: callback and membership agree, nobody oversleeps a timer, dead timers stay dead. Calls on an array of up to five values, on two JSON values, and patterns of up to six characters. Contents, reorderings and answers are what the reference definitions say, the parser accepts exactly JSON, heap blocks balance, patterns are read as documented. |
| `scheduler_stranded`, `scheduler_resume`, `iomanager_assert`, `fibers_caller` | — | violated: section 4 |

Each stateful module has a type invariant (`TypeOK`, `IOTypeOK`, `FiberTypeOK`,
`DataBufTypeOK`, ...). Those of `ThreadPool`, `Scheduler`, `IOManager`, `Timer`,
`LogConf` and `ConfigMap` are theorems, and those of the fibers and the buffers
are part of the invariants of section 5. The lists of properties of the runs
leave them out in favour of those that say more; for the same reason
`FiberInOnePlace`, which `ImplementsExecutor` rests on, is proved and not listed,
and so is `~early => RunningIsExec`.

**Bounds.** Two workers are enough for every race here: each is between the
worker that has a fiber, or a report, in hand and one other thread. Three tasks
let one task schedule a second while a third is listed. The named bounds of the concurrent modules are
`MaxYields` (how often one task yields: once lets a fiber go round the loop and
be taken again, twice where a worker that goes on after the first yield needs
the fiber to be at its second), `MaxResumes` (how often a task is scheduled again:
one call at the wrong moment is what a race takes), `MaxAdds` (calls of `addEvent`: two allow both events on one fd, or one
event on each fd), `PipeCapacity` (Linux gives 65536; 1 in `iomanager`, so that writes block, and 12 in
`iomanager_live`, so that they do not, see section 4), `MaxClock` (two ticks cover an interval
started, run out and overslept), `Hour` (1 stands for the 3,600,000 ms of the
rollover test, so that the clock crosses it within the bound) and `Callers` (calls of
`onTimerInsertedAtFront` pending at a time). In `log_conf`,
`Period` is the 3 s after which a file is reopened, `MaxClock` allows three of
them, `MaxRotations` and `MaxEvents` bound the renames and the events of a
thread. In `runtime` chunks have one or three units, one of each size at the start and
at most two (`PerCap`), `MaxTotal` makes the pool's limit bind after one or two
growths, and four bytes arrive (`MaxBytes`), so that a buffer grows, splits a
chunk with unread bytes and empties again; two fibers on two threads, of which
`Callers` enter with `call()`; two variables (`MaxVars`) and three names. In
`libraries` five values over {2, 10, 21} hold equal values, differing digit
counts and every arrangement of them, and `kSmallSectionSize` is 3 where the
code has 128, so that arrays fall on both sides of it; JSON containers have up
to `MaxLen` elements with capacities up to `MaxCap` and `ObjectInitSize` 2, and
the texts are all one-symbol edits of fourteen documents; patterns have up to
`MaxPattern` characters.
Symmetry is used only in runs
without liveness properties. `libraries` uses a VIEW that leaves out the
last call on the array, since the action properties are evaluated on each step all
the same, and the times of timers that are not set, which no step reads.
The tasks of the IOManager runs do not yield READY, because finding 1 carries
over to `LastWorkerStays`; in `iomanager` they yield HOLD once, having registered
themselves or not, and they register events, cancel and delete them, and schedule
new tasks.

**Fairness.** Workers are threads of the operating system, so each worker's
steps are weakly fair as a whole (`WorkerStep`, `IOWorker`, ...): a worker that
can always do something eventually does something, but nothing is assumed
about which branch its task takes beyond the bound on yields. A task that has
used up its yields has nothing left but to return. The owner of a scheduler
need not stop it, but goes on once it has begun. `epoll_wait` has a
timeout of 5 seconds, so it returns. No event is ever obliged to happen:
`StopReturnsWithoutEvents` therefore asks only for behaviours in which the
registered events come to an end.

`IOManager`'s `ListedTasksRun` holds because of the timeout of `epoll_wait`
alone: with an infinite timeout (`EpollWaitForever`) TLC refutes it, because
`tickle` writes only when nobody is idle (section 4).

## 4. Findings

1. **stop() leaves a task behind** (`scheduler_stranded`,
   `scheduler.cpp:242-246`). `run` lowers the active count before it reschedules
   a fiber that yielded READY. In between `stopping()` is true for the other
   worker, which leaves; a task then bound to it is never taken. If the idle
   fiber of the remaining worker has ended in the same way, `stop()` returns
   with the task in the list, as the run shows; if not, `stop()` never returns
   (with `FairSpec`, the same constants violate `StopReturns`).
2. **A worker overwrites the state of a fiber that runs elsewhere**
   (`scheduler_resume`, `scheduler.cpp:242-251`). When a fiber has yielded HOLD, its
   worker comes back from `swapIn`, reads the state and writes HOLD, without a
   lock. The fiber is off its stack by then; somebody schedules it, another worker
   swaps it in and sets EXEC, and the first worker writes HOLD over that. At its
   next yield the assertion `m_state==EXEC` (`fiber.cpp:239`, `:248`) ends the process.
   The run needs no more than one resume by the owner. `switchTo` and an event that
   fires before the fiber that waits for it has parked (`iomanager.cpp:153`) lead
   into the same window, and, before the context is saved, to two threads on one
   stack (`fault = "stack"`).
3. **A hang-up ends the process** (`iomanager_assert`, `iomanager.cpp:394-433`).
   Reported events are not masked with the registered ones before
   `triggerEvent` asserts that they are registered.
4. **A fiber under the caller's loop returns to the wrong place**
   (`fibers_caller`, `fiber.cpp:164-195`). With `use_caller=true`
   the root fiber runs the scheduler's loop on the caller's thread. `call()`
   saves the caller in the thread's main fiber, and each `swapIn` from the loop
   saves the loop in the same place; `back()` of the root fiber then goes on
   from a place in the loop instead of returning to the caller of `call()`.

Each is quoted with the statement of the repository it contradicts in
`PROJECT.json`. Met on the way, without a run of their own:

- *IOManager.* `tickle`
  returns when there are idle threads to wake (`iomanager.cpp:329`), so listed
  tasks wait for the timeout of `epoll_wait`; it writes to the blocking pipe
  only while nobody is idle to read it (`:332`), and can block for good: with
  `PipeCapacity = 1` TLC shows a `stop()` that does not return in `iomanager_live`,
  the workers having left and the owner's `tickle` waiting for a reader.
- *Timer.* `listExpiredCb` can dereference `begin()` of an empty set (`crashed`
  becomes TRUE: the only timer is cancelled between the two locks). A `refresh`
  after the clock was set back can leave waiters sleeping past it, since it
  notifies nobody. `NoTimerOverslept` is stated for behaviours in which the
  clock has not been set back.
- *Config.* Two setters may notify in one order and assign in the other
  (`config.h:320`); a listener that calls `setValue` waits for itself. Errors of
  conversion are swallowed and `fromString` returns false either way. The
  characters allowed in names lack 9 and capital letters, though names are
  lowered first. Concurrent loads may interleave per variable.
- *Log.* When the root logger is configured anew, events in between find no
  appender. `lad.level` is lost when read from YAML. `addAppender` tests for a
  formatter outside the lock it assigns it under (`log.cpp:526`). `%%` in a
  pattern never yields one percent sign (`log.cpp:323`; `PatternsAreRead`
  excepts it).
- *MemoryPool.* `FIONREAD` may say 0 and bytes arrive before the read, which
  then reads without having made room; a need above 4 MB can never be met; a
  buffer that grows holds two chunks at once; `write_to_fd` leaves an empty
  chunk in hand (`data_buf.cpp`).
- *MyJson* (`tutorial08/leptjson.cpp`). `lept_insert_array_element` writes past
  the block when it is full (`:726-733`). Erasing nothing from an empty array
  fails an assertion (`:745`). `pushback` on a parsed or copied array reads a
  capacity that was never set (`:224-227`, `:291-293`, `:577-597`). Setting a
  member of an empty object writes outside it, and growing from one member
  never ends (`:786-802`, `:876-894`). Removing leaves the last slot's pointer
  (`:910-914`). `shrink_object` drops and leaks members (`:805-828`). A text
  with something after its value leaks the value (`:336-339`). A lone low
  surrogate is accepted. Equality of objects depends on the order of members,
  contrary to `tutorial08/tutorial.md:143`. The model has these calls where they are
  defined and leaves out the arguments for which they are not.
- *MySTL, sorts.* `sort` on more than a section's length loses values
  (`algo.h:2396-2417`); `nth_element` may not end (`:2593`, `:2613`);
  `intro_sort` takes its pivot with `operator<` whatever the comparison
  (`:2501`); `equal_range` of an absent value and `binary_search` with a
  comparison (`:786`) answer wrongly; `min` with a comparison returns the larger
  (`algo_base.h:45-49`; modelled as `min_comp` and excepted by `AnswersMatchDefinition`); `unchecked_move_cat` for random access never advances
  (`:222`); `uninitialized_copy` destroys the wrong range when a constructor
  throws (`uninitialized.h:35`, `:71`), and `fill`, `fill_n` and `move` swallow
  the exception; `radix_sort` reads negative digits as indices; `merge` of
  `sort.cpp:154` takes the right one of two equal values first, though
  `排序算法/readme.md:10` calls merge sort stable (seen in reading: equal integers cannot
  be told apart, so `Reordered` asks of the sorts of `sort.cpp` for the values in
  order, and nothing more); the
  tests call `quick_sort` with a right end one past the array (`sort.cpp:219`,
  `:238`). The properties of
  `libraries` state what does hold and name the cases they except.

## 5. What is proved

Every proof holds for all values of the constants that satisfy the named
assumptions of its modules (`PoolAssumption` of `ThreadPool` and of `MemPool`,
`SchedulerAssumption`, `IOAssumption`, `TimerAssumption`, `FibersAssumption`,
`BufferAssumption`, `LogAssumption`, `ConfigAssumption`, `LogConfAssumption`,
`ConfigMapAssumption`): any number of workers, tasks, descriptors, timers,
waiters, threads, fibers, buffers, loggers and names, and any value of the
bounds. Where a theorem needs more, its hypothesis is in its statement and its
reason below.

**`ThreadPool_proofs`.** `IInv` is `TypeOK` with `DestructorState` (where the
destructor is says what `stop_` is), `NoTaskAfterExit`, `NoLostWakeup` and
`NobodySleepsAfterStop`. The last two need the first: that no worker sleeps
once `notify_all` was called holds because `stop_` was set before and is tested
under the lock. `NoLostWakeup` says that tasks are queued only
while a worker is awake or a notify is owed. Theorems: `TypeCorrect`,
`Invariance` (of `IInv`), `WakeupsAreNotLost`, `NoSleeperBlocksJoin`,
`ExitLeavesNothing`; `NoTaskLostOrRepeated` (a pending task is in one place,
from lemmas on what each step does to the set of queued and of held tasks);
`Refinement` (each step of the pool is a step of `TaskPool` or a stutter).

**`Scheduler_proofs`.** For any way of yielding, `CInv` joins `TypeOK`,
`CountersAgree`, `InHandWhenBusy` (which positions go with a task in hand) and
`OffUntilStart`; the counters stay in `Nat` only because they are exact, and
they are exact because each step moves one worker into or out of the set that
is counted (`CountStep`). Theorems: `TypeCorrect`, `CountersAreExact`, and
`ReadyFibersAreKept`, which needs no more than that a worker has the task it
works on.

A fiber may be scheduled by anybody at any time, so that it is in one place is no
invariant of the code; what the scheduler can promise is that it does not get
there by itself. The theorems say so with the history variable `early`, and the
inductive invariant is `~early => PInv`. `PInv` says that list and
hands are disjoint and free of repetitions, that a fiber is EXEC exactly while
a worker runs it (`ExecIffRunning`), that a task which is listed or in hand has been
scheduled, that nobody is inside `switchTo` and nothing has failed. A step either
keeps `PInv` or sets `early` for good (`EarlyStays`): `switchTo` always does, since
it schedules the fiber in hand; `Wake` and `MainResume` keep `PInv` exactly if the
fiber was nowhere. Theorems, without hypotheses: `FiberIsInOnePlace`,
`RunningFibersAreExec` (`~early => RunningIsExec`; that `early` cannot be left out
is finding 2), `FibersDoNotFail`.

`SchedulerIsExecutor` maps each worker's position to the stage of the task it has
(`Stage`), the states TERM and EXCEPT to `ended` and `early` to `misused`. The
executor defines `misused` from what is put in the queue, so the theorem also shows
that `early` records nothing else. That `Pick` takes the first entry the worker may
have follows from `ExecIffRunning`: `run` skips entries whose fiber is EXEC, and a listed fiber
never is. `StopLeavesNothing` states `StopDrains` for tasks that do not yield
READY, which finding 1 shows to be necessary; they may use `switchTo`. Its
invariant `SInv` says that the flags follow `stop()`, that a worker leaves only
with its idle fiber ended and that the owner has joined all of them; and once
one idle fiber has ended, nothing is listed and no worker can put anything there
(`TermIsQuiet`).

**`IOManager_proofs`.** `IInv` joins the scheduler's `CInv` with `IOTypes`,
`ContextMatchesEvents` and the fact that the counter is the number of registered
events (`CountRegistered`). A step the IOManager inherits is a step of the
scheduler that leaves descriptors alone, so the lemmas of `Scheduler_proofs`
serve for it; a step of its own adds or removes one registered event and one
context. Theorems: `IOTypeCorrect`, `PendingEventsAreCounted`,
`ContextsAreClean`, `IOCountersAreExact`. `CallbacksAreDeliveredOnce` needs that
a task nobody has scheduled or registered is nowhere (`FreshIsNowhere`) and that
one that has begun is no longer INIT. `SomebodyStays` states `LastWorkerStays`
for tasks that do not yield READY (finding 1): although `stopping()` reads list,
active count and event counter at different times, when all workers are on
their way out nothing is listed or running (`Quiet`), and when all idle fibers
have ended nothing is registered (`LastInv`), because whoever could register
is a task that runs, and then some worker is not idle.

`IOManagerIsExecutor`, `IOFiberIsInOnePlace`, `IORunningFibersAreExec` and
`IOFibersAreKept` carry the theorems on `Executor` and on the places of fibers over
to the IOManager, for callbacks and for fibers that wait for events themselves.
Such a fiber registers itself while it runs, and the event may put it in the list
before it has yielded: that is `early`, too (`TriggersEarly`). Each step of
the IOManager is one of three (`StepsForTheScheduler`): a step of the scheduler,
one an executor does not notice (`Unnoticed`), or one that puts tasks in the
list (`Triggers`). The scheduler's `Places` survives the first by the lemmas of
`Scheduler_proofs`. For the last, a step that does not set `early` triggers
fibers that are nowhere and callbacks, and by the invariant of
`CallbacksAreDeliveredOnce` a callback in a context is in no other context, not
listed and in nobody's hands (`TriggeredFree`): so the two tasks of one
descriptor can be put in the list in one step. A triggered callback never sets
`early`.

**`Timer_proofs`.** `TypeCorrect` needs `StartsInNat` (no timer is due before
its own interval, which `reset` subtracts). `CancelFindsItsTimer` and
`DeadForGood` follow from the set and the callbacks changing together.
`NobodyOversleeps` rests on `SInv`: `m_tickled` implies that a waiter is awake
or a wake-up on its way (`Awake`); and, until the clock is set back, either
that is so or each timer is covered by a sleeper, while no time read from the
clock is ahead of it (`ClockIsLatest`, for which `refresh` may only move a
timer later).

**`Fibers_proofs`.** `ConstructedThreadsAreReady`: `ThreadIsReady` holds in
every behaviour of the fibers. `ThreadInv` says which positions of the owner and
of `run` go together and that the semaphore is 1 exactly between its post and
the constructor's wait; the fibers' steps leave it alone, except for the end of
the thread's callback (`FiberStepIsReturn`).
`FibersStayInOrder` and `ControlReturns` state `FibersInOrder` and
`ControlReturnsToResumer` for `Nested = FALSE`, since control
does not return from a root fiber that runs others (finding 4). `FInv` describes each thread (`ThreadInOrder`: the
fiber it executes, the stack it is on and the place its main fiber keeps) and
each fiber (`FiberInOrder`: which states go with a place that can be resumed,
with a pointer that is held, with a thread on the stack).

**`DataBuf_proofs`.** `BInv` says that a free list holds chunks of its own
capacity that were made, each once (`ListsInOrder`), that a chunk in use is made,
in no list and with one buffer (`HeldByOne`), and that a buffer has a second
chunk only between its allocation and the return of the first (`Places`). From
what `alloc_chunk` hands out (`AllocatedIsUnused`) and what `retrieve` lists
(`RetrievedIsListed`) follow `ChunksAreNotShared` and `PoolIsAllocator`: each step
of the buffers is a step of `Allocator` or a stutter.
Its `SInv` says of each buffer that the bytes between what was got and what was
put are in its chunk, in order, and of each chunk without a user that it is empty
(`UnusedEmpty`); from it follow `BuffersAreSound` and `StreamsKeepOrder`.
`AccountsBalance` states `PoolAccounts`, whose sums run over the capacities. The
fold is unfolded one capacity at a time (`SumStep`), and what induction would
give is had from a smallest set of capacities for which the claim fails
(`SmallestSet`): a step changes one summand, and the total by as much.

**`LogConf_proofs`.** `LInv` is the types of the log, with: a thread that is at
the appenders of a logger holds its lock and has what it still has to do in
bounds (`Working`), and an appender that writes to a file no longer at the path
was last opened no later than the file was moved (`FileOK`). `CInv` says where in its loops a listener can be.
Theorems: `LogConfTypeCorrect`, `MisplacedBriefly`. `NoEventVanishes` states
`NothingVanishes` under `KeepsRoot`, that no value redefines the root logger:
while the root logger is rebuilt, events find no appender (section 4).
`LoggersAgree` states `LoggersFollowConfig`: as long as no two calls of
`setValue` have overlapped, a logger the listener has no more to visit
(`Pending`) follows the new value, and the one it is at agrees as far as the
loop has got (`AtWork`).

**`ConfigMap_proofs`.** `MInv` says that the registry and the variables name each
other (`BothWays`) and that pointers and setters are at variables that exist;
`OneVarPerName` states `NamesKeepTheirVar`, `ConfigMapTypeCorrect` the types.

`QuietLoadsAreApplied` states `LoadsAreApplied`. Its invariant `LInv` follows a
load that nothing has disturbed (`LoadIsRight`): the nodes it has still to visit
are those the document has at their names (`Walk`), what it is about to assign
is what the document gives that variable, and each variable there was is either
below a node still to be visited or has been dealt with (`OnTheWay`). When a
node is visited, a name below it is its own, or below one of its members, or not
in the document (`NameBelow`). `NodesAt` is a recursive function, so that there
is a walk down every name, that two walks agree where their names do, and that
nothing is below what is not there are each had from a least number for which
they fail (`LeastNumber`) in place of an induction. The theorem
takes three things as hypotheses: documents are trees of maps with finitely
many words (`Readable`); no variable has the empty name, which `lookUp` admits
and `loadFromYaml` passes over (`config.cpp:44`); and the record of a variable
to be assigned is not the value that stands for `nullptr` (`SettersAreShown`).

Only model-checked: all liveness (`AcceptedTasksFinish`, `DestructorReturns`,
`StopReturns`, `StopReturnsWithoutEvents`, `ListedTasksRun`), which is out of the
prover's reach; and the properties of `libraries` but for those of the timers, as
the other modules in it are built on RECURSIVE operators. Every safety property of the other passing runs is a
theorem.

## 6. Not modelled, and the plan

1. *(done)* `TaskPool`, `ThreadPool`, `Scheduler`, `Timer` with their proofs;
   `IOManager`.
2. *(done)* Configuration, log, threads and fibers, memory pool and buffers,
   JSON, sorting, the algorithms of MySTL. Left of this step: the growth of
   `m_fdContexts`, a failing `epoll_ctl`, appenders shared by loggers.
3. **Prove.** *(done)* The safety properties of the scheduler, the IOManager, the
   timers, threads and fibers, the buffers, the log and the registry, as far as
   section 5 says; `TaskPool`, `Executor` and `Allocator`, which `ThreadPool`,
   `Scheduler` and `IOManager`, and `DataBuf` implement. Left of this step: what
   the loops of the sorting and search algorithms keep, with the modules of
   `libraries` written without RECURSIVE operators.

Left out for good: the text an event is formatted to, the YAML library, layout
of stacks and registers, the templates of MySTL that only name types or wrap
operators (`iterator.h`, `functional.h`, `type_traits.h`, ...), the vendored
FastDFS files, generated CMake files, interview notes and the earlier log
library, which have no concurrent or stateful core of their own; and the thin
wrappers of pthread primitives, whose semantics the models build in.
