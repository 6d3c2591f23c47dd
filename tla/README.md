# thesky: a TLA+ verification project

thesky is a small C++ library of server building blocks: a thread pool, a
timing-wheel timer that runs on it, and, in progress, event loops (one on
libevent, one of its own). This directory holds TLA+ modules that model its
parts, TLC configurations that check them on small instances, and proofs that
hold for every size. Line numbers are those of the sources under `src/`.

## 1. Inventory

| component | source | state | operations | status |
|---|---|---|---|---|
| thread pool | `thesky-src/thread_pool.h` | task queue, `m_stop`, mutex, condition variable, workers | constructor, `enqueue`, worker loop, destructor | modelled |
| timer | `thesky-src/thesky_timer.h`, clock of `base_inc.h` | `m_tick`, `m_record`, near wheel, upper wheels, `m_mutex` | `thesky_timeout`, `thesky_thread`, `timer_update`, `timer_execute`, `timer_shift`, `down_queue`, `emplace_task` | modelled |
| timer on the pool | both, `thesky_main.cc` | both mutexes | `global_thread_pool->enqueue` of the timer thread and of every due task | partly modelled |
| event loop | `thesky-evpp/jd_loop.h`, `event_loop.h` | pending functors, `notified_`, pipe, `watcher_`, status | `QueueInLoop`, `RunInLoop`, `DoPendingFunctors`, `Run`, `Stop` | partly modelled |
| loop threads | `jd_loop.h`, `event_loop_thread.h` | status words, counts of started and exited threads, `stopped_cb_` | `Start`, `Stop`, `Join`, `GetNextLoop`, `OnThreadStarted`, `OnThreadExited` | partly modelled |
| own reactor | `thesky-net/` | io map, active queues, fd sets | `event_add`, `evmap_io_add`, `evmap_io_active`, `process_active`, select `add`, `del`, `dispatch` | modelled |
| listener | `thesky-evpp/listener.h`, `jd_listener.h` | channel, `attached_`, descriptor | `Listen`, `Accept`, `AttachToLoop`, `HandleAccept`, destructors | partly modelled |
| connections | `tcp_server.h`, `tcp_conn.h`, `buffer.h` | - | declarations without bodies | not modelled |
| utilities | `base_inc.h`, `socket_inc.h` | log lock, random generator | log, random numbers, sleep | not modelled |
| programs | `thesky_main.cc`, `evpp_test.h`, `evpp_static.cc` | - | `main` and sequential tests | not modelled |
| libevent | `3rdparty/inc/event2` (headers only) | - | - | external |

What the build compiles is `thesky_main.cc` with `thesky-src/` and
`evpp_test.h`. `thesky-net/` and the loop headers are work in progress that no
target includes.

**How the parts interact.** There is one global pool and one global timer. The
timer thread is itself a task of the pool that never returns
(`thesky_timer.h:252`). `thesky_timeout` is called by any thread and shares the
wheels with the timer thread under `m_mutex`; `timer_execute` passes due tasks
to the pool while it holds `m_mutex`. An event loop is fed by other threads
through a locked vector and woken through a pipe; loop threads own a loop each
and report to a pool through callbacks and status words.

**What is hard.**

- Thread pool: notifications are sent after the mutex is released, wake-ups may
  be spurious, tasks enqueue tasks, and the destructor starts while the queue
  is full. Correct means: nothing is lost or doubled, no worker sleeps beside
  work or through the shutdown, all that was accepted has run when the
  destructor returns, and it does return.
- Timer: the wheel may be many ticks behind the clock and catches up tick by
  tick with the mutex released in between; callers compute a tick from a read
  of `m_tick` without the mutex; a task descends through the wheels. Correct
  means: every task stands in one place from which the wheel finds it in time,
  is handed over at its tick, in order, and the wheel neither skips ticks nor
  stops.
- Event loop: `notified_` is tested and set in two steps against a loop that
  clears it, the watcher is destroyed while producers use it, the stop functor
  drains the queue from inside a batch.
- Loop threads: the owner, the last thread to start and the last to exit store
  to one status word that others poll; `threads_` and `stopped_cb_` are used
  without a lock; a loop may fail before it has reported its start. Correct
  means: no loop is handed out that does not run, `Stop(true)` leaves nobody who
  touches the pool, calls return, the callback is called once all have exited.
- Listener: its functor and its handler are executed by the loop's thread while
  the owner replaces or destroys the channel. Correct means: nothing freed is
  used, no descriptor is lost, every client is served.
- Reactor: events that share a descriptor, fire again before they are processed
  or are erased when they fire; callbacks that add events; descriptors closed
  under `select`. Correct means: callbacks and activations match, one-shot
  events fire once, a readable event is called.

`PROJECT.json` lists each hazard with its line and, where one exists, the
property that covers it.

## 2. Plan

Each module is written so that it can be proved about (constants with named
assumptions, one action per operation, no `RECURSIVE` operator).

Done, in this order: `TaskService` (what a pool promises), `ThreadPool` and
`TimerWheel`; `EventLoop`, with both constructors and a pipe that fails;
`LoopPool`; `Listener`; `Reactor`; then the proofs, a module for each of them
(`TimerPathProofs` continues `TimerWheelProofs`), so that every invariant and
action property that the runs check is a theorem. The timer as a task of the
pool needs no module of its own: endless tasks on up to all workers are in
`ThreadPool`, and section 7 says why the two locks cannot wait for each other.

Left: `AfterFork` of the loop and of the pool.

## 3. Modules and how they correspond to the code

### TaskService
The abstract service: tasks are accepted or refused, start in order, at most
`Capacity` at a time, complete once; the service is gone only when everything
has completed.

### ThreadPool (`thread_pool.h`)

| state | code |
|---|---|
| `m_stop`, `m_qe_tasks` | the members |
| `worker`, `running` | the position of each worker in the lambda of lines 57-72 and its local `task` |
| `caller` | a thread between the unlock of line 112 and `notify_one` |
| `future` | the shared state of each `packaged_task` |
| `destructor` | the position in `~thread_pool` |

A critical section of `m_qe_mutex` is one action: `EnqueueAccepted`,
`EnqueueRefused`, `Sleep`, `Take`, `Exit`, `Stop`. What follows outside the
mutex is another: `NotifyOne`, `Finish`, `NotifyAll`, `Join`. Every thread may
call `enqueue`, workers from inside their task. `SpuriousWakeup` is the freedom
that the standard gives to `wait`. The value or the exception of a task is not
distinguished: both make its future ready.

### TimerWheel (`thesky_timer.h`)

| state | code |
|---|---|
| `m_tick`, `m_record`, `m_near`, `m_table` | the members; `m_record` counts from the construction |
| `pc`, `sys_tick`, `idx`, `shift_ti`, `lv` | the timer thread's position and local variables |
| `clock` | `get_systemruntime() / UNIT_MILLISECOND` |
| `stage`, `expire` | each task and its `task_node::expire` |
| `due`, `order` | history for the properties only |

`ReadTick` and `Insert` are the two halves of `thesky_timeout`: the read of
`m_tick` without the mutex (133) and the insertion under it (140-143). The timer
thread is `Wake`, `BeginTick`, `EndUpdate` (`timer_update`), `ExecuteOne`
(`timer_execute`), `Shift`, `Found`, `GoUp` (`timer_shift`), `CascadeOne`,
`CascadeDone` (`down_queue`) and `Unlock`. From `BeginTick` to `Unlock` it holds
`m_mutex` and no `Insert` is possible. Masks and shifts are written as division
and remainder: `(a | mask) == (b | mask)` is `SameTurn`.

`m_tick` is a 32-bit word and wraps at `WORD`. The shift of line 208 is by
`TIME_LEVEL_MASK`, more than the width, which is undefined; `ShiftByLevelMask`
is the set of results that builds give, 0 or a shift by the amount modulo the
width.

`expire` and `due` are cleared when a task is handed over, and `due` and
`order` constrain no action.

### EventLoop (`jd_loop.h`)

| state | code |
|---|---|
| `status`, `pending`, `notified`, `count` | `status_`, `pending_functors_`, `notified_`, `pending_functor_count_` |
| `watcher`, `readable` | `watcher_` is not null; its pipe holds bytes |
| `exiting` | libevent: `event_base_loopexit` has been called |
| `loop`, `stack` | the position of the loop's thread and its nested calls of `DoPendingFunctors`, each with the rest of its batch |
| `at` | the position of each thread in `QueueInLoop` or `Stop` |
| `crashed` | the process has died on a destroyed watcher |
| `done`, `order` | what has been executed; the order of the pushes (history) |

`QueueInLoop` is `Push` (under `mutex_`), `Count`, `Test`, `Store` and `Notify`,
each of which other threads may come between. The loop's thread calls it too,
from inside a functor and, for the items in `Early`, before `Run`, as
`EventLoopThread::Run` does (424); from the handler of another event of its
`event_base` it queues as a producer does. `RunHere` is its `RunInLoop`. `TakeBatch` is the critical
section of `DoPendingFunctors`. `Stop` stores the status and queues a
`StopInLoop`, named by the thread that calls `Stop`; executing it is `Begin`,
`TakeBatch`, `DrainAgain`, `LoopExit` and `EndStop`, with the functors of the
inner batches in between. `IsPendingQueueEmpty` reads the vector without the
mutex: the outcomes of that race are those of a read before or after the push.

Of libevent the model has what the loop relies on: a readable pipe calls its
handler, and a `loopexit` without a delay ends the dispatch in the pass in which
it is called, without another look at the pipe. A socket whose buffer is full refuses a byte that would
change nothing; more than 128 unread bytes would cost a second, empty call.
`InitNotifyPipeWatcher` chooses whether the pipe could be made (`piped`); if it
could not, nobody is told: `Notify` writes to nothing and `Run` returns at once.
The `DoInit` of `event_loop.h` has no return of success, so the `EventLoop` of
that header is always this case. `foreign` is the constructor for an
`event_base` that somebody else dispatches: its status is running from the
start, `Run` is not called and the watcher is not reset. Not in the model: the
destructor and `AfterFork`. The header does not compile as it stands (`rc`, `cb` and `functor`
are not declared); the names are read as the parameters they stand for.

### LoopPool (`event_loop_thread.h`, `jd_loop.h`)

| state | code |
|---|---|
| `num`, `threads` | `thread_num_`; the length of `threads_` |
| `status`, `started`, `exited`, `cb` | `status_`, `started_count`, `exited_count`, `stopped_cb_` (by the call of `Stop` that has given it) |
| `owner`, `waits`, `withFn`, `stops`, `next` | the position of the owner in `Start`, `Stop` or `Join`, its arguments, how often it has called `Stop`, its loop index |
| `thread`, `tstatus`, `asked` | where each thread stands in `EventLoopThread::Run`; its `status_`; its loop has been asked to stop |
| `broken` | the threads whose loop has no pipe |
| `shortcut` | `Start` is the one of `event_loop_thread.h`, which returns at once without threads |
| `at` | where each user stands in `GetNextLoop`, or what it has got |
| `called`, `waited`, `fault` | history; what the process has died of |

Every access to a word that another thread uses is an action of its own. Of the
loop, the pool sees what `EventLoop` shows of it: it executes its first functor
(`RunFirst`), which reports the start, and ends (`LoopEnds`) after it has been
asked to, or, without a pipe, ends at once and never reports (`RunFails`).
What races is no single step. The assignment of `stopped_cb_` (line 140) lasts
from `Stop` to `AssignCallback`, and a thread that reads it meanwhile sees the old
function or the new one (`Seen`); the test (226) and the call (227) of the last
thread are two steps, `TestCallback` and `CallBack`. A call through a function
that is half assigned, has been emptied or is assigned while it runs is
`CallUnsafe`. `AskThread` goes up to the test of `watcher_` in the thread's loop and
`NotifyLoop` is the notification, which may be fatal if the loop has meanwhile ended
and reset its watcher. `PickUnsafe` reads a vector that grows or is empty. `fault` says which of
the three the process has died of. `Look` is the test of
status and size, `Pick` the index; the remainder of the round-robin counter or
of the hash may be any index.

### Listener (`listener.h`, `jd_listener.h`)

| state | code |
|---|---|
| `header`, `asserts` | which of the two headers; whether `assert` is compiled in |
| `sock` | what `fd_` is |
| `chan`, `alive`, `callback` | `chan_`, the Listener itself, `new_conn_fn_` |
| `freed`, `attached`, `registered` | the channels destroyed, those with `attached_`, those whose event libevent has |
| `queued`, `loop` | the `AttachToLoop` functors in the loop; what the loop's thread is in |
| `conn` | each client's connection |
| `overlap`, `fault` | history: a channel freed in the loop's hands; what has ended the process |

The owner's calls are `Listen`, `SetNewConnectionCallback`, `Accept`, `Destroy`; if
it is the loop's thread, `RunInLoop` attaches on the spot (`AcceptHere`).
`Listen` may fail at each of its calls: after a failed `bind`, `listener.h`
goes on to `listen`, and the socket listens at a port of the kernel's choice
(`stray`). The loop's thread has `AddEvent` and `SetAttached` (`AttachToLoop`),
`Fire`, `TakeConn`, `AcceptFails`, `Reject` and `HandOver` (`HandleEvent` and
`HandleAccept`). A channel is named by the call of `Accept` that made it, so that
a pointer to one that has been freed is seen: `AddEventFreed`, `FireFreed` and
`HandlerUnsafe` are what may then happen. External: libevent, which keeps an
event until it is deleted and whose calls (`event_add`, `event_del` by the owner)
are taken as atomic towards other threads, the kernel, and the program that may reuse the number
of a closed descriptor.

### Reactor (`thesky-net/`)

| state | code |
|---|---|
| `fd`, `flags`, `activate` | members of each copy that `evmap_io_add` has made |
| `iomap`, `visit` | `m_evmapio`; while `evmap_io_active` walks a list, the part it has walked and the rest of it |
| `queue` | the active queue of the default priority |
| `readset`, `fdmax`, `ready` | `m_readset_in`, `m_fdmax`, what `dispatch` has still to look at of `m_readset_out` |
| `at` | where the thread stands |
| `sized`, `validTv` | the program has sized the active queues; the timeval of line 34 is valid |
| `readable`, `open` | the descriptors |

`Add` is `evmap_io_add`, called before the dispatch or by a callback, with any
flags or none, which it does not refuse; it is the
only way in, for `event_add` returns -1 for every event that has a base
(`event.h:59`). `Scan` is one step of the loop of `dispatch`: it takes the next
readable descriptor and sets out on its list. `Visit` is one round of the loop of
`evmap_io_active`, which activates a copy, spends its flag and keeps it or erases
it. `CallBack` and `Return` are `process_active`. A write interest
is never reported, since `add` stores it in the set that the next dispatch
clears (`core_select.h:36-40`): it shows as a flag that is never spent. A descriptor
may be closed (`Close`) and its number opened again (`Reopen`), after which `select`
succeeds and the old copies are called for the new file. No
constructor sets `m_nactivequeues`, so that a program that does not do so itself
indexes past the end of `m_activequeues` (`VisitUnsized`), and `tv` is not
initialised on the path without a timeout (`validTv`).

### MC modules and proofs

The `MC` modules give the constants to TLC. Operators whose
comment starts with "Variant for the checks" are mutated actions: substituting
one for the action it varies makes the named property fail, which shows that
the property can fail. `Next` uses none of them.

## 4. Runs

| run | bounds | states | shows |
|---|---|---|---|
| `pool` | 3 workers, 1 client, 2 tasks that return, 3 endless ones | 193,818 | five invariants, the refinement of `TaskService`, two liveness properties |
| `timer` | wheels of 2 and 2 x 4 slots, a word of 5 bits, 2 tasks, delays 1 and 9 ms with 2 ms a tick (0 and 4 ticks), 8 ticks, lag at most 2 | 683,781 | five invariants, four action properties, one liveness property |
| `event_loop` | 2 producers and the loop's thread, 2 functors, one of them also before `Run`, 2 calls of `Stop` | 219,407 | six invariants, one action property, two liveness properties |
| `loop_pool` | up to 2 threads, 2 calls of `Stop`, 1 user | 108,110 | four invariants, two liveness properties |
| `listener` | 2 clients, 3 calls of `Accept` | 48,942 | two invariants, one liveness property |
| `reactor` | 2 descriptors, 2 events | 101,610 | three invariants, one liveness property |
| `timer_stall` | 1 task, 16 ticks | | `EveryTaskFires` is violated |
| `timer_stale` | 1 task | | `FiresAtItsTick` is violated |
| `timer_early` | 1 task, lag at most 4 | | `NotEarly` is violated |
| `event_loop_watcher` | 2 producers, 2 functors, 1 call of `Stop` | | `WatcherOutlivesNotify` is violated |
| `loop_pool_race` | up to 2 threads, 1 call of `Stop`, 1 user | | `NoNeedToLock` is violated |
| `listener_assert` | 1 client, 1 call of `Accept` | | `DestroyedDetached` is violated |

**Why the bounds are enough.** Three workers give the case of one worker that
sleeps, one that is awake and one that is held by the endless task, with a
notification that wakes the wrong one; five tasks give a queue longer than the
free workers, and tasks enqueued by tasks. Three endless tasks may hold all
workers, which is the only case in which `FuturesBecomeReady` lets a task wait for
ever: with one worker less than that it must run. The scaled wheels keep every
relation of the real ones: the near wheel turns four times in one turn of the
first upper wheel, so tasks are cascaded, inserted into both kinds of wheel, and
meet in one slot. A task inserted with delay 4 crosses a near turn from every
position. The real stall at tick 256 * 64 is at tick 2 * 4 = 8 here, and the
`timer` run goes up to it. `ShiftAssumption` says in what the scaled shift must
agree with the real one: it clears every index that can reach it. Beyond the
stall there is nothing to explore: `TimerStops` proves that the wheel never
passes it. The wrap of the word is therefore in the model (`Shift`) but is never
reached, as in the program. So the second upper wheel receives tasks and never
cascades.

In `event_loop` one `Stop` comes from a producer and one from the loop's own
thread inside a functor, so that a `StopInLoop` may be drained by another one
and the stack of batches is three deep. With two producers, one is between its
test and its notification while the other one pushes and the loop clears the
flag; every call of a producer may come before `Run`, while the loop sleeps, and
after it has ended. `Early` has one of the two functors: what the loop's thread
queues before `Run` differs from what a producer queues then only in that nobody
can come between, so that one such item is enough; a `Stop` before `Run` is the
producer's.

In `loop_pool` two threads are the least with a last one that is not the first,
for starting and for exiting; the runs cover zero and one thread too. Two calls
of `Stop` give the second one that meets threads which have stopped and a
callback that is being called, and a first one whose loops have all ended unasked
is there with one `Stop` already. One user is enough: users write nothing that
another one reads but the counter, whose value is arbitrary in the model.

In `listener` three calls of `Accept` have a channel freed, its successor
attached and a third one queued; two clients give one that waits while the other
one is in the handler, or whose `accept` fails. In `reactor` two events may share
a descriptor or use two, and each may fire again before it is processed.

`MaxClock` bounds the clock and `MaxLag` how far the wheel may be behind it;
both are bounds of the exploration, and `EarlyOnlyByLag` is a statement about
`MaxLag`. `DelaysAssumption` carries the guard of line 129, which no 32-bit
`ms` divided by 10 can meet.

**Fairness.** Weak fairness of each worker's own steps, of a pending
`notify_one`, of `notify_all` and of `join`: a thread that can go on is
scheduled. The mutex is never held over an action, so a worker that waits for it
stays enabled and weak fairness is enough. Callers need not call anything, no
spurious wake-up is relied on, endless tasks do not finish. For the timer: weak
fairness of the timer thread and of the clock; `thesky_timeout` may stop between
its halves. For the event loop: weak fairness of the loop's thread (it calls
`Run`, and functors return) and of every thread inside `QueueInLoop` or `Stop`.
For the loop pool: weak fairness of the owner inside a call and of every thread;
nobody has to call. For the listener: weak fairness of the loop's thread and, as
the statement that `accept` does not fail for ever, strong fairness of
`TakeConn`: the failures of `accept` are transient, and the client that is taken
is the kernel's choice. For the reactor: weak fairness of the thread, whose
callbacks return, and strong fairness of a `select` that succeeds: it can be
interrupted, but not each time.
Deadlock is checked for the timer; the pools stop for good, a loop may sleep
for ever, nobody has to connect, and a process may die.

## 5. Disagreements between the code and what it says

- **The wheel stops** (`timer_stall`, line 208). `shift_ti >>= TIME_LEVEL_MASK`
  should be `TIME_LEVEL_SHIFT`. At tick 16384, 164 seconds after the start, the
  search of `timer_shift` does not end and `m_mutex` is never released: no timed
  task runs any more and the next caller of `thesky_timeout` blocks.
- **A task may wait a whole turn** (`timer_stale`, line 133). The tick is read
  before the mutex is taken.
- **A task may come early** (`timer_early`, line 133). The delay counts from the
  wheel's tick, not from the clock; the wheel lags while it catches up.
- **The watcher is destroyed under its users** (`event_loop_watcher`, line 292
  against 321 and 325).

- **GetNextLoop needs a lock** (`loop_pool_race`, line 189 of
  `event_loop_thread.h`: "No need to lock here"). The last thread may store the
  pool's `kRunning` (217) before `Start` has pushed it (99). `Start(true)` does not
  exclude it and does not always cause it: it waits for the thread's own status, which
  `jd_loop.h:415` stores before `pre()` (417) counts and announces, so that the push
  and the announcement may come in either order.
- **A Listener cannot be destroyed** (`listener_assert`, line 44 of
  `listener.h`). Nothing clears `attached_`, so that the assertion of `~FdChannel`
  fails once the loop has attached the channel.

What holds in spite of these is stated beside them: `PunctualFires`,
`LateByWholeTurns`, `EarlyOnlyByLag`, `EarlyRuns`, `StopEnds`, `FatalRaces`,
`HandedLoopsHaveStarted`, `FaultsNeedOverlap`.

Further observations, visible in a guard or an assumption of a property that
holds, without a run of their own:

- `event_loop.h:70-88`: `DoInit` always ends in `DoClose`, so a notification from
  another thread never arrives.
- What is queued after the second drain of `StopInLoop` is accepted and never
  executed (`EarlyRuns` speaks of what was queued before a `Stop`).
- `jd_loop.h`: `Start(true)` without threads waits for a `kRunning` that nobody
  stores, and a second `Stop(true)` takes back the `kStopped` of threads that have
  exited (381) and waits for ever: the conditions of `CallsReturn`.
- `event_loop_thread.h:140` against 226-228: `stopped_cb_` has no lock. Already the
  first `Stop(fn)` may be fatal if every loop has lost its pipe, as the `EventLoop` of
  `event_loop.h` always has: the loops end unasked, and the last thread tests and
  calls a function that is being assigned. One loop that works excludes it
  (`FatalRaces`).
- The pool's `Stop` is a user of `watcher_` too: a loop that finds the `StopInLoop`
  before it is notified may have reset its watcher by the time of the `Notify`, in a
  first `Stop` as well (`NotifyLoop`). It is the race of `event_loop_watcher`.
- `event_loop_thread.h:166`: `Stop(false)` stores `kStopped` while threads run.
- `jd_listener.h:34`: the destructor of the channel does nothing, so a second
  `Accept` leaves a registered event with a pointer to freed memory.
- `listener.h` goes on after a failed `bind` and listens at another port.
- `event.h:59`: the guard is inverted, `event_add` never adds.
- `core_select.h:36-40`: a write interest is never reported; a closed descriptor
  is never taken out of the set, and `select` fails from then on.

## 6. What is proved

Assumptions: the named `ASSUME`s of each module. For the pool: finitely many
workers, at least one, clients that are not workers. For the timer: sizes of
the wheels with `SPAN` their products, the word the product of all, and the
behaviour of the shift. For the others: finite sets, bounds that are natural
numbers, threads and functors that are different things, items in `Early`, and
descriptors that are natural numbers.

`ThreadPoolProofs`, for any number of workers, clients and tasks:

- `TypeCorrect`, `TaskHasOneHolder` - inductive with the type invariant; the
  latter through `QueueLemmas`, which says what push and pop do to the set of
  elements of a queue and to its freedom from repetition.
- `AllAwakeAtJoin` - inductive with the fact that `Sleep` needs `~m_stop`.
- `NoLostWakeup` - inductive as it stands. Each case counts: a push adds a
  notifier, a notification trades a notifier for an awake worker (or finds no
  sleeper, and then the premise is false), a take trades an awake worker for a
  task, and a worker that goes to sleep saw an empty queue.
- `DrainedBeforeReturn` - needs `LeftEmpty`: once a worker has left, the pool is
  stopped and its queue is empty for good, because nothing is accepted after
  `m_stop`. With `OneHolder` no task is pending at the end.
- `PoolImplementsService` - initial states map to initial states and every step
  to a step or a stutter; `RoomForOneMore` gives the bound on running tasks.

`TimerWheelProofs`, for any sizes of the wheels:

- `TimerTypeCorrect`, `TimerStops`, `TickKeepsUp` - from one invariant,
  `TimerInv`. `SearchInv` says what the search has seen: below the stall it
  starts at a non-zero index of the first upper wheel, at the stall it stays at
  zero. `ClockInv` ties `m_tick` to `m_record`, the loop's index and the clock.
  Without `SearchInv`, `lv` could leave the wheels and the types would not hold.
- `TaskHasOneSlot` - the wheels as one family of queues; emplacing is a push at
  one place, handing over a pop, a cascade a pop followed by a push.

`TimerPathProofs`, on top of it:

- `TaskWaitsOnItsPath` - the property itself speaks of the moments when `m_mutex`
  is free and of tasks that are on time, which is not enough for a step. `PathInv`
  speaks of every queued task at every step of the search and of the cascade: it
  stands in its near slot once the near wheel has come to its turn (also if that
  was long ago), before that in its slot of the first upper wheel, and higher only
  beyond the stall. While a slot is emptied, the tasks that are left in it
  belong to the turn that begins. The lemmas on division (`DivMod`,
  `DivMonotone`, `SameSlot`, `SpanGrows`, ...) relate turns and slots of wheels of
  different size, and `PlaceBelowStall` says where `emplace_task` puts a task.
- `NoTaskIsSteppedOver`, `HandedLateByWholeTurns` - from `PathInv` for each step:
  the tick moves on only when the slot is empty, and what stands in a near slot
  agrees with the tick modulo the near wheel.
- `EarlyByTheLag` - `LagInv`: the clock is at most `MaxLag` ahead of `m_tick`, so a
  task's `due` is at most that far beyond its `expire`.
- `SameTickInOrder` - `LineInv`: two queued tasks of one tick are in line, that
  is in one slot in the order of their insertion, or the earlier one in the near
  wheel and the later one still above. A cascade takes from the front and pushes to the back, which keeps it.

`EventLoopProofs`, for any threads and functors:

- `EventLoopTypeCorrect` - with it, what the stack of batches looks like: below
  the innermost there are only calls of `StopInLoop` that wait. `FrontMoves`,
  `CallNests` and `TailNests` say that a phase, a call and a return keep that.
- `FlagIsAPromise` - inductive with the types and the fact that the watcher is
  there until the loop has ended: where `notified_` is set, a `Notify` follows.
- `NobodyIsForgotten` - inductive with the former. The step that counts is `Test`
  of a thread that finds the flag set: that the flag is a promise is then all
  that stands between its functor and oblivion.
- `EveryItemInOneBatch` and what follows rest on one case distinction: each action
  is one of the `Moves`, which say what happens to queue, stack, `count`, `order`
  and `done` and nothing else (`NextMoves`). The invariant is `Holding`: queue and
  batches are free of repetition, have nothing in common and hold what waits, and
  a thread about to push its `StopInLoop` brings an item not seen before.
- `CountIsExact` - each move changes both sides alike; the difference is the set of
  threads between the push and the increment.
- `QueueOrderIsKept` - `Sorted`: each batch and the queue stand in the order of
  the pushes, and the queue behind all batches. `CallsBegin`: what begins is the
  front of the innermost batch.
- `EarlyFunctorsRun` - `EarlyDone`: once the loop has been told to exit, what was
  queued before the first `StopInLoop` is done. `LoopExitIsLate` shows it for the
  step that tells it: the queue is empty, every batch below has a `StopInLoop` in
  front (`Drains`), and by `Sorted` nothing behind those is early. `Exits`: a loop
  with a pipe ends in no other way.

`LoopPoolProofs`, for any number of threads, users and calls of `Stop`:

- `LoopPoolTypeCorrect` - `Shape` has the types, how far `Start` has come and what
  broken loops never do; `Counts`, that the two counters are the cardinalities of
  the sets of threads that have reported. A report adds one thread to its set.
- `OnlyStartedLoops` - `AllStarted`: where the status is running, or was when the
  user looked, all threads have started, since `kRunning` is stored by the one
  whose count was `thread_num_`.
- `FatalOnlyInRaces` - `FaultArises` says at which step a fault appears, for each of
  them. For the callback: `OneLast` (only one thread can have counted last, and then
  all have), `CallingItsCallback` (without a second `Stop`, what the last thread has
  found is still there, unless the owner is in the assignment) and `EndedAsked` (a
  thread whose loop has a pipe has ended only after it was asked). So in a first `Stop`
  that has not yet assigned nobody has been asked, and a last thread means that
  every loop is broken.
- `StopTrueWaits` - `StoppedIsGone` and `WaitedForAll`: a thread's `kStopped` is its
  last store, and with `Counts` everybody gone means everybody counted.

`ListenerProofs`, for any connections and calls of `Accept`:

- `ListenerTypeCorrect` - with `OneAccepted`, which ties the one accepted
  connection to the position of the loop's thread.
- `FaultsOnlyByOverlap` - by `NothingDangles`: without an overlap, what is queued,
  in hand or registered has not been freed, and what is registered is attached
  unless it is in hand, so that the destructor deletes its event.

`ReactorProofs`, for any descriptors and any number of events:

- `ReactorTypeCorrect` - `TypeOK` says that a copy in the map stands in the list of
  its descriptor and is gone once its flags are spent (one that was added without
  flags waits for its first visit), which `Visit` keeps only with `Listed`: a
  copy stands at most once in the walked part of a list and the rest together.
  Otherwise the round for one occurrence could spend the flag of the other.
- `FlagsMatchActivations` - `Counted` is inductive by `TimesPush` and `TimesPop`,
  which say how an append and a removal change the number of occurrences in a
  queue.
- `OneShotIsCalledOnce` - `Once`: a copy that is not persistent has its READ flag
  only until its first activation, and its past calls and those that are still
  queued are together at most one.

**Only model-checked**: the liveness properties `FuturesBecomeReady`,
`DestructorReturns`, `PunctualFires`, `EarlyRuns`, `StopEnds`,
`FirstCallbackRuns`, `CallsReturn`, `Served` and `ReadableIsCalled`. They need
`ENABLED` and fairness, which the prover cannot reason about. That nothing
blocks is part of them: the timer's run also checks for deadlock.

## 7. Not modelled

- `AfterFork` of the loop and of the pool: it replaces the `event_base` and the
  watcher of a process that has one thread; planned.
- `SignalEventWatcher`, which has no caller.
- The lifetime of the pool object (a `notify_one` after its destructor), of the
  event loop and of the loop pool. `StopWaitsForAll` says when a loop pool may be
  destroyed.
- The composition of timer and pool, but for what section 2 says. The order of
  locks is `m_mutex`, `m_qe_mutex`, the lock of the log, and no code takes them in
  another: a task runs with none of them held, and the log's takes none. The
  refusal of a timed task by a stopping pool (`thesky_timer.h:184` does not look at
  it) cannot occur, because `global_thread_pool` is never deleted.
- A pool without workers, which `hardware_concurrency() == 0` would give.
- `Listener::Stop` and the enabling and disabling of channels, which have no
  body; `Close`, `Update` and `DetachFromLoop` of `jd_listener.h`, which have no
  caller.
- `TCPServer`, `TCPConn` and `Buffer`, which are declarations.
- The log, the random generator, the sleeps, `main` and the sequential tests.
- A pool that is started twice or used after `Join`, which the code's comments do
  not provide for.
- Descriptors at or above `FD_SETSIZE`, which `selectops` does not check: `Fds` are
  taken to be below it.
- Calls of libevent that overlap. `Listener` takes `event_del` by the owner (line 46
  of `listener.h`) as atomic towards the loop's thread, and `EventLoop` an
  `event_add`. libevent sees to that only if its locking has been enabled, and no
  code in `src/` outside `3rdparty` calls `evthread_use_pthreads` or its like: a
  program that uses these classes from several threads has to.
