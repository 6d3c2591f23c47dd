------------------------------- MODULE ThreadPool -------------------------------
(***************************************************************************)
(* thread_pool of src/thesky-src/thread_pool.h: a fixed set of workers     *)
(* that share one queue of tasks under m_qe_mutex and sleep on             *)
(* m_condition, enqueue called by any thread (a worker inside a task       *)
(* included), and the destructor, which lets the workers drain the queue.  *)
(*                                                                         *)
(* A critical section of m_qe_mutex is one action.  What the code does     *)
(* after it has released the mutex (notify_one, notify_all, running the    *)
(* task, join) is an action of its own, so that every other thread may     *)
(* step in between.                                                        *)
(***************************************************************************)
EXTENDS Naturals, Sequences, FiniteSets

CONSTANTS Workers,   \* m_vec_workers, expect_threads of them
          Clients,   \* the other threads that call enqueue
          Tasks,     \* every task is one call of enqueue
          Endless,   \* tasks that never return, such as timer::thesky_thread
          NoTask     \* what a worker that runs no task runs

\* hardware_concurrency() is at least 1 on the platforms the project builds for.
ASSUME WorkersAssumption == IsFiniteSet(Workers) /\ Workers # {}
ASSUME ClientsAssumption == IsFiniteSet(Clients) /\ Clients \cap Workers = {}
ASSUME TasksAssumption   == Endless \subseteq Tasks /\ NoTask \notin Tasks

VARIABLES m_stop,       \* the pool accepts nothing any more
          m_qe_tasks,   \* the queue of tasks that no worker has taken yet
          worker,       \* where each worker stands in its loop
          running,      \* the task each worker executes
          caller,       \* where each thread stands inside enqueue
          future,       \* the std::future that enqueue has for each task
          destructor    \* where the destroying thread stands

vars == <<m_stop, m_qe_tasks, worker, running, caller, future, destructor>>

Threads == Workers \cup Clients

(***************************************************************************)
(* worker:     "acquire"  about to lock m_qe_mutex, or awake in wait() and *)
(*                        about to look at the predicate again             *)
(*             "asleep"   blocked in m_condition.wait                      *)
(*             "run"      outside the lock, in task()                      *)
(*             "exited"   returned from the thread function                *)
(* caller:     "idle", or "notify": pushed and unlocked, notify_one to do  *)
(* future:     "none"     enqueue not called for the task yet              *)
(*             "pending"  accepted, "ready" executed, "invalid" refused    *)
(* destructor: "none", "stopped" (m_stop set, notify_all to do), "joining" *)
(*             and "returned"                                              *)
(***************************************************************************)
TypeOK ==
  /\ m_stop \in BOOLEAN
  /\ m_qe_tasks \in Seq(Tasks)
  /\ worker \in [Workers -> {"acquire", "asleep", "run", "exited"}]
  /\ running \in [Workers -> Tasks \cup {NoTask}]
  /\ \A w \in Workers : running[w] \in Tasks <=> worker[w] = "run"
  /\ caller \in [Threads -> {"idle", "notify"}]
  /\ future \in [Tasks -> {"none", "pending", "ready", "invalid"}]
  /\ destructor \in {"none", "stopped", "joining", "returned"}
  /\ m_stop <=> destructor # "none"

\* The constructor has started every worker; none has locked the mutex yet.
Init ==
  /\ m_stop     = FALSE
  /\ m_qe_tasks = <<>>
  /\ worker     = [w \in Workers |-> "acquire"]
  /\ running    = [w \in Workers |-> NoTask]
  /\ caller     = [th \in Threads |-> "idle"]
  /\ future     = [t \in Tasks |-> "none"]
  /\ destructor = "none"

-------------------------------------------------------------------------------
(* enqueue *)

\* A worker is in a position to call enqueue only inside the task it runs; a
\* client may do so for as long as the pool exists.
MayCall(th) ==
  /\ caller[th] = "idle"
  /\ IF th \in Workers THEN worker[th] = "run" ELSE destructor # "returned"

\* Variant for the checks: notify_one only for a push into an empty queue.
EnqueueNotifyIfEmpty(th, t) ==
  /\ MayCall(th)
  /\ future[t] = "none"
  /\ ~m_stop
  /\ m_qe_tasks' = Append(m_qe_tasks, t)
  /\ future'     = [future EXCEPT ![t] = "pending"]
  /\ caller'     = [caller EXCEPT ![th] = IF m_qe_tasks = <<>> THEN "notify" ELSE "idle"]
  /\ UNCHANGED <<m_stop, worker, running, destructor>>

EnqueueAccepted(th, t) ==
  /\ MayCall(th)
  /\ future[t] = "none"
  /\ ~m_stop
  /\ m_qe_tasks' = Append(m_qe_tasks, t)
  /\ future'     = [future EXCEPT ![t] = "pending"]
  /\ caller'     = [caller EXCEPT ![th] = "notify"]
  /\ UNCHANGED <<m_stop, worker, running, destructor>>

EnqueueRefused(th, t) ==
  /\ MayCall(th)
  /\ future[t] = "none"
  /\ m_stop
  /\ future' = [future EXCEPT ![t] = "invalid"]
  /\ UNCHANGED <<m_stop, m_qe_tasks, worker, running, caller, destructor>>

Asleep == {w \in Workers : worker[w] = "asleep"}

\* m_condition.notify_one() wakes one sleeper, any of them, if there is one.
NotifyOne(th) ==
  /\ caller[th] = "notify"
  /\ caller' = [caller EXCEPT ![th] = "idle"]
  /\ \/ /\ Asleep = {}
        /\ UNCHANGED worker
     \/ \E w \in Asleep : worker' = [worker EXCEPT ![w] = "acquire"]
  /\ UNCHANGED <<m_stop, m_qe_tasks, running, future, destructor>>

-------------------------------------------------------------------------------
(* The worker's loop *)

\* The predicate of m_condition.wait is false: release the mutex and sleep.
Sleep(w) ==
  /\ worker[w] = "acquire"
  /\ ~m_stop
  /\ m_qe_tasks = <<>>
  /\ worker' = [worker EXCEPT ![w] = "asleep"]
  /\ UNCHANGED <<m_stop, m_qe_tasks, running, caller, future, destructor>>

\* Variant for the checks: front() without pop().
TakeWithoutPop(w) ==
  /\ worker[w] = "acquire"
  /\ m_qe_tasks # <<>>
  /\ running' = [running EXCEPT ![w] = Head(m_qe_tasks)]
  /\ worker'  = [worker EXCEPT ![w] = "run"]
  /\ UNCHANGED <<m_stop, m_qe_tasks, caller, future, destructor>>

\* Variant for the checks: the newest task is taken, as with a stack.
TakeNewest(w) ==
  /\ worker[w] = "acquire"
  /\ m_qe_tasks # <<>>
  /\ m_qe_tasks' = SubSeq(m_qe_tasks, 1, Len(m_qe_tasks) - 1)
  /\ running'    = [running EXCEPT ![w] = m_qe_tasks[Len(m_qe_tasks)]]
  /\ worker'     = [worker EXCEPT ![w] = "run"]
  /\ UNCHANGED <<m_stop, caller, future, destructor>>

\* The predicate is true with a task in the queue, stopped or not.
Take(w) ==
  /\ worker[w] = "acquire"
  /\ m_qe_tasks # <<>>
  /\ m_qe_tasks' = Tail(m_qe_tasks)
  /\ running'    = [running EXCEPT ![w] = Head(m_qe_tasks)]
  /\ worker'     = [worker EXCEPT ![w] = "run"]
  /\ UNCHANGED <<m_stop, caller, future, destructor>>

\* Variant for the checks: a stopped pool lets its workers go at once.
ExitAtOnce(w) ==
  /\ worker[w] = "acquire"
  /\ m_stop
  /\ worker' = [worker EXCEPT ![w] = "exited"]
  /\ UNCHANGED <<m_stop, m_qe_tasks, running, caller, future, destructor>>

\* The predicate is true because of m_stop alone.
Exit(w) ==
  /\ worker[w] = "acquire"
  /\ m_stop
  /\ m_qe_tasks = <<>>
  /\ worker' = [worker EXCEPT ![w] = "exited"]
  /\ UNCHANGED <<m_stop, m_qe_tasks, running, caller, future, destructor>>

\* wait() may return without a notification; the predicate is looked at again.
SpuriousWakeup(w) ==
  /\ worker[w] = "asleep"
  /\ worker' = [worker EXCEPT ![w] = "acquire"]
  /\ UNCHANGED <<m_stop, m_qe_tasks, running, caller, future, destructor>>

\* Variant for the checks: the worker goes on with its last task still in hand.
FinishKeepsTask(w) ==
  /\ worker[w] = "run"
  /\ caller[w] = "idle"
  /\ running[w] \notin Endless
  /\ future' = [future EXCEPT ![running[w]] = "ready"]
  /\ worker' = [worker EXCEPT ![w] = "acquire"]
  /\ UNCHANGED <<m_stop, m_qe_tasks, running, caller, destructor>>

\* task() returns.  packaged_task stores the result, or the exception.
Finish(w) ==
  /\ worker[w] = "run"
  /\ caller[w] = "idle"
  /\ running[w] \notin Endless
  /\ future'  = [future EXCEPT ![running[w]] = "ready"]
  /\ running' = [running EXCEPT ![w] = NoTask]
  /\ worker'  = [worker EXCEPT ![w] = "acquire"]
  /\ UNCHANGED <<m_stop, m_qe_tasks, caller, destructor>>

-------------------------------------------------------------------------------
(* The destructor, called by a thread that is not a worker *)

Stop ==
  /\ destructor = "none"
  /\ m_stop'     = TRUE
  /\ destructor' = "stopped"
  /\ UNCHANGED <<m_qe_tasks, worker, running, caller, future>>

\* Variant for the checks: the destructor wakes a single worker.
NotifyOneAtStop ==
  /\ destructor = "stopped"
  /\ \/ /\ Asleep = {}
        /\ UNCHANGED worker
     \/ \E w \in Asleep : worker' = [worker EXCEPT ![w] = "acquire"]
  /\ destructor' = "joining"
  /\ UNCHANGED <<m_stop, m_qe_tasks, running, caller, future>>

NotifyAll ==
  /\ destructor = "stopped"
  /\ worker' = [w \in Workers |-> IF worker[w] = "asleep" THEN "acquire" ELSE worker[w]]
  /\ destructor' = "joining"
  /\ UNCHANGED <<m_stop, m_qe_tasks, running, caller, future>>

Join ==
  /\ destructor = "joining"
  /\ \A w \in Workers : worker[w] = "exited"
  /\ destructor' = "returned"
  /\ UNCHANGED <<m_stop, m_qe_tasks, worker, running, caller, future>>

-------------------------------------------------------------------------------

WorkerStep(w) == Sleep(w) \/ Take(w) \/ Exit(w) \/ Finish(w)

Next ==
  \/ \E th \in Threads, t \in Tasks : EnqueueAccepted(th, t) \/ EnqueueRefused(th, t)
  \/ \E th \in Threads : NotifyOne(th)
  \/ \E w \in Workers : WorkerStep(w) \/ SpuriousWakeup(w)
  \/ Stop
  \/ NotifyAll
  \/ Join

Spec == Init /\ [][Next]_vars

\* A thread that can go on does so: the operating system schedules it, and every
\* task outside Endless returns.  Nobody has to call enqueue or the destructor,
\* and no spurious wake-up is relied on.
Fairness ==
  /\ \A w \in Workers : WF_vars(WorkerStep(w))
  /\ \A th \in Threads : WF_vars(NotifyOne(th))
  /\ WF_vars(NotifyAll)
  /\ WF_vars(Join)

FairSpec == Spec /\ Fairness
-------------------------------------------------------------------------------
(* Properties *)

Queued == {m_qe_tasks[i] : i \in DOMAIN m_qe_tasks}

\* An accepted task is neither lost nor duplicated on its way from the queue
\* (enqueue, front/pop) to a worker: it has one holder until it has run.
OneHolder ==
  /\ \A i, j \in DOMAIN m_qe_tasks : m_qe_tasks[i] = m_qe_tasks[j] => i = j
  /\ \A v, w \in Workers : running[v] = running[w] /\ running[v] # NoTask => v = w
  /\ \A w \in Workers : running[w] \notin Queued
  /\ \A t \in Tasks :
       future[t] = "pending" <=> (t \in Queued \/ \E w \in Workers : running[w] = t)

Notifying == {th \in Threads : caller[th] = "notify"}
Acquiring == {w \in Workers : worker[w] = "acquire"}

\* One notify_one for each push, sent after the mutex has been released, is
\* enough: a worker sleeps in wait() only while every queued task has a worker
\* that is awake to take it or a notification that is still to be sent.
NoSleeperBesideWork ==
  Asleep # {} => Len(m_qe_tasks) <= Cardinality(Notifying) + Cardinality(Acquiring)

\* notify_all comes after m_stop is set, so no worker can sleep through the
\* shutdown: from the first join on, nobody is in wait().
NoSleeperAfterNotifyAll ==
  destructor \in {"joining", "returned"} => Asleep = {}

\* The workers leave their loop on m_stop only when the queue is empty: once the
\* destructor has returned, every task that was ever accepted has been executed.
DrainedOnReturn ==
  destructor = "returned" =>
    /\ m_qe_tasks = <<>>
    /\ \A t \in Tasks : future[t] # "pending"

\* The pool keeps the promises of TaskService, whoever takes which task.
Service == INSTANCE TaskService WITH
  Capacity <- Cardinality(Workers),
  backlog  <- m_qe_tasks,
  active   <- {running[w] : w \in {v \in Workers : worker[v] = "run"}},
  closed   <- m_stop,
  gone     <- (destructor = "returned")

ImplementsTaskService == Service!Spec

\* Whoever waits on the future of an accepted task that returns gets its answer
\* (the comment of enqueue, lines 31 to 34), unless tasks that do not return have
\* taken every worker, as the timer thread does where there is one (line 253 of
\* thesky_timer.h).
FuturesBecomeReady ==
  \A t \in Tasks \ Endless :
    future[t] = "pending" ~>
      future[t] = "ready" \/ \A w \in Workers : running[w] \in Endless

\* The destructor returns, unless a task that never returns was accepted.
DestructorReturns ==
  (destructor = "stopped" /\ \A t \in Endless : future[t] # "pending")
    ~> destructor = "returned"
================================================================================
