---------------------------- MODULE ThreadPoolProofs ----------------------------
(***************************************************************************)
(* Theorems about ThreadPool, for every set of workers, clients and tasks. *)
(***************************************************************************)
EXTENDS ThreadPool, QueueLemmas, FiniteSetTheorems, TLAPS

\* The data of the pool keep their types, and a worker has a task in hand exactly
\* while it is in task() (lines 57 to 71).
THEOREM TypeCorrect == Spec => []TypeOK
<1> USE TasksAssumption
<1>1. Init => TypeOK
  <2> SUFFICES ASSUME Init PROVE TypeOK
    OBVIOUS
  <2>1. m_qe_tasks \in Seq(Tasks)
    BY DEF Init
  <2>2. m_stop \in BOOLEAN /\ (m_stop <=> destructor # "none")
    BY DEF Init
  <2>3. \A w \in Workers : running[w] \in Tasks <=> worker[w] = "run"
    BY DEF Init
  <2>. QED
    BY <2>1, <2>2, <2>3 DEF Init, TypeOK
<1>2. TypeOK /\ [Next]_vars => TypeOK'
  <2> SUFFICES ASSUME TypeOK, [Next]_vars
               PROVE  TypeOK'
    OBVIOUS
  <2> USE DEF TypeOK
  <2>1. ASSUME NEW th \in Threads, NEW t \in Tasks, EnqueueAccepted(th, t)
        PROVE  TypeOK'
    BY <2>1 DEF EnqueueAccepted
  <2>2. ASSUME NEW th \in Threads, NEW t \in Tasks, EnqueueRefused(th, t)
        PROVE  TypeOK'
    BY <2>2 DEF EnqueueRefused
  <2>3. ASSUME NEW th \in Threads, NotifyOne(th)
        PROVE  TypeOK'
    BY <2>3 DEF NotifyOne, Asleep
  <2>4. ASSUME NEW w \in Workers, Sleep(w)
        PROVE  TypeOK'
    BY <2>4 DEF Sleep
  <2>5. ASSUME NEW w \in Workers, Take(w)
        PROVE  TypeOK'
    BY <2>5 DEF Take
  <2>6. ASSUME NEW w \in Workers, Exit(w)
        PROVE  TypeOK'
    BY <2>6 DEF Exit
  <2>7. ASSUME NEW w \in Workers, Finish(w)
        PROVE  TypeOK'
    BY <2>7 DEF Finish
  <2>8. ASSUME NEW w \in Workers, SpuriousWakeup(w)
        PROVE  TypeOK'
    BY <2>8 DEF SpuriousWakeup
  <2>9. CASE Stop
    BY <2>9 DEF Stop
  <2>10. CASE NotifyAll
    BY <2>10 DEF NotifyAll
  <2>11. CASE Join
    BY <2>11 DEF Join
  <2>12. CASE UNCHANGED vars
    BY <2>12 DEF vars
  <2>. QED
    BY <2>1, <2>2, <2>3, <2>4, <2>5, <2>6, <2>7, <2>8, <2>9, <2>10, <2>11, <2>12
    DEF Next, WorkerStep
<1>. QED
  BY <1>1, <1>2, PTL DEF Spec

-------------------------------------------------------------------------------
(* Every accepted task has one holder *)

\* OneHolder in the terms of QueueLemmas.
LEMMA OneHolderIsElements ==
  OneHolder <=>
    /\ Distinct(m_qe_tasks)
    /\ \A v, w \in Workers : running[v] = running[w] /\ running[v] # NoTask => v = w
    /\ \A w \in Workers : running[w] \notin Elements(m_qe_tasks)
    /\ \A t \in Tasks : future[t] = "pending" <=>
         (t \in Elements(m_qe_tasks) \/ \E w \in Workers : running[w] = t)
  BY DEF OneHolder, Queued, Elements, Distinct

\* No accepted task is lost or doubled between enqueue, the queue and the workers.
THEOREM TaskHasOneHolder == Spec => []OneHolder
<1> USE TasksAssumption
<1>1. Init => OneHolder
  BY DEF Init, OneHolder, Queued
<1>2. TypeOK /\ OneHolder /\ [Next]_vars => OneHolder'
  <2> SUFFICES ASSUME TypeOK, OneHolder, [Next]_vars
               PROVE  OneHolder'
    OBVIOUS
  <2> DEFINE Q == Elements(m_qe_tasks)
  <2>0. /\ Distinct(m_qe_tasks)
        /\ \A v, w \in Workers : running[v] = running[w] /\ running[v] # NoTask => v = w
        /\ \A w \in Workers : running[w] \notin Q
        /\ \A t \in Tasks : future[t] = "pending" <=>
             (t \in Q \/ \E w \in Workers : running[w] = t)
    BY OneHolderIsElements
  <2>t. /\ m_qe_tasks \in Seq(Tasks)
        /\ running \in [Workers -> Tasks \cup {NoTask}]
        /\ future \in [Tasks -> {"none", "pending", "ready", "invalid"}]
        /\ \A w \in Workers : running[w] \in Tasks <=> worker[w] = "run"
        /\ Q \subseteq Tasks
    BY DEF TypeOK, Elements
  <2>p. ASSUME /\ Distinct(m_qe_tasks')
               /\ \A v, w \in Workers :
                    running'[v] = running'[w] /\ running'[v] # NoTask => v = w
               /\ \A w \in Workers : running'[w] \notin Elements(m_qe_tasks')
               /\ \A t \in Tasks : future'[t] = "pending" <=>
                    (t \in Elements(m_qe_tasks') \/ \E w \in Workers : running'[w] = t)
        PROVE  OneHolder'
    BY <2>p DEF OneHolder, Queued, Elements, Distinct
  <2>1. CASE UNCHANGED <<m_qe_tasks, running, future>>
    BY <2>0, <2>1, <2>p
  <2>2. ASSUME NEW th \in Threads, NEW t \in Tasks, EnqueueAccepted(th, t)
        PROVE  /\ Distinct(m_qe_tasks')
               /\ running' = running
               /\ Elements(m_qe_tasks') = Q \cup {t}
               /\ future' = [future EXCEPT ![t] = "pending"]
               /\ t \notin Q
               /\ \A w \in Workers : running[w] # t
    BY <2>0, <2>t, <2>2, PushElements DEF EnqueueAccepted
  <2>3. ASSUME NEW th \in Threads, NEW t \in Tasks, EnqueueRefused(th, t)
        PROVE  /\ UNCHANGED <<m_qe_tasks, running>>
               /\ future' = [future EXCEPT ![t] = "invalid"]
               /\ future[t] = "none"
    BY <2>3 DEF EnqueueRefused
  <2>4. ASSUME NEW w \in Workers, Take(w)
        PROVE  /\ Distinct(m_qe_tasks')
               /\ Head(m_qe_tasks) \in Q
               /\ Elements(m_qe_tasks') = Q \ {Head(m_qe_tasks)}
               /\ running' = [running EXCEPT ![w] = Head(m_qe_tasks)]
               /\ running[w] = NoTask
               /\ future' = future
    BY <2>0, <2>t, <2>4, PopElements DEF Take
  <2>5. ASSUME NEW w \in Workers, Finish(w)
        PROVE  /\ m_qe_tasks' = m_qe_tasks
               /\ running[w] \in Tasks
               /\ running' = [running EXCEPT ![w] = NoTask]
               /\ future' = [future EXCEPT ![running[w]] = "ready"]
    BY <2>t, <2>5 DEF Finish
  <2> HIDE DEF Q
  <2>6. ASSUME NEW th \in Threads, NEW t \in Tasks, EnqueueAccepted(th, t)
        PROVE  OneHolder'
    BY <2>0, <2>t, <2>2, <2>6, <2>p
  <2>7. ASSUME NEW th \in Threads, NEW t \in Tasks, EnqueueRefused(th, t)
        PROVE  OneHolder'
    BY <2>0, <2>t, <2>3, <2>7, <2>p DEF Q
  <2>8. ASSUME NEW w \in Workers, Take(w)
        PROVE  OneHolder'
    BY <2>0, <2>t, <2>4, <2>8, <2>p
  <2>9. ASSUME NEW w \in Workers, Finish(w)
        PROVE  OneHolder'
    BY <2>0, <2>t, <2>5, <2>9, <2>p DEF Q
  <2>. QED
    BY <2>1, <2>6, <2>7, <2>8, <2>9
    DEF Next, WorkerStep, NotifyOne, Sleep, Exit, SpuriousWakeup, Stop, NotifyAll, Join, vars
<1>. QED
  BY <1>1, <1>2, TypeCorrect, PTL DEF Spec

-------------------------------------------------------------------------------
(* Nobody sleeps through work or through the shutdown *)

\* notify_all after m_stop leaves nobody in wait() for the join that follows.
THEOREM AllAwakeAtJoin == Spec => []NoSleeperAfterNotifyAll
<1>1. Init => NoSleeperAfterNotifyAll
  BY DEF Init, NoSleeperAfterNotifyAll
<1>2. TypeOK /\ NoSleeperAfterNotifyAll /\ [Next]_vars => NoSleeperAfterNotifyAll'
  <2> SUFFICES ASSUME TypeOK, NoSleeperAfterNotifyAll, [Next]_vars
               PROVE  NoSleeperAfterNotifyAll'
    OBVIOUS
  <2>t. /\ worker \in [Workers -> {"acquire", "asleep", "run", "exited"}]
        /\ destructor \in {"joining", "returned"} => m_stop
    BY DEF TypeOK
  <2>1. ASSUME NEW w \in Workers, Sleep(w)
        PROVE  ~(destructor' \in {"joining", "returned"})
    BY <2>t, <2>1 DEF Sleep
  <2>2. CASE NotifyAll
    BY <2>t, <2>2 DEF NotifyAll, NoSleeperAfterNotifyAll, Asleep
  <2>3. CASE Stop
    BY <2>3 DEF Stop, NoSleeperAfterNotifyAll
  <2>4. ASSUME /\ \A w \in Workers : worker'[w] = "asleep" => worker[w] = "asleep"
               /\ destructor' \in {"joining", "returned"} =>
                    destructor \in {"joining", "returned"}
        PROVE  NoSleeperAfterNotifyAll'
    BY <2>4 DEF NoSleeperAfterNotifyAll, Asleep
  <2>5. CASE UNCHANGED <<worker, destructor>>
    BY <2>4, <2>5
  <2>6. ASSUME NEW th \in Threads, NotifyOne(th)
        PROVE  NoSleeperAfterNotifyAll'
    BY <2>t, <2>4, <2>6 DEF NotifyOne, Asleep
  <2>7. ASSUME NEW w \in Workers, Take(w) \/ Exit(w) \/ Finish(w) \/ SpuriousWakeup(w)
        PROVE  NoSleeperAfterNotifyAll'
    BY <2>t, <2>4, <2>7 DEF Take, Exit, Finish, SpuriousWakeup
  <2>8. CASE Join
    BY <2>4, <2>8 DEF Join
  <2>. QED
    BY <2>1, <2>2, <2>3, <2>5, <2>6, <2>7, <2>8
    DEF Next, WorkerStep, EnqueueAccepted, EnqueueRefused, NoSleeperAfterNotifyAll, vars
<1>. QED
  BY <1>1, <1>2, TypeCorrect, PTL DEF Spec

\* The sets whose sizes NoSleeperBesideWork compares are finite.
LEMMA ThreadSetsFinite ==
  /\ IsFiniteSet(Notifying) /\ IsFiniteSet(Acquiring)
  /\ Cardinality(Notifying) \in Nat /\ Cardinality(Acquiring) \in Nat
<1>1. IsFiniteSet(Threads)
  BY WorkersAssumption, ClientsAssumption, FS_Union DEF Threads
<1>2. IsFiniteSet(Notifying) /\ IsFiniteSet(Acquiring)
  BY <1>1, WorkersAssumption, FS_Subset DEF Notifying, Acquiring
<1>. QED
  BY <1>2, FS_CardinalityType

\* One notify_one for each push is enough: while a worker sleeps, every queued task
\* has a worker that is awake for it or a notification on its way.
THEOREM NoLostWakeup == Spec => []NoSleeperBesideWork
<1>1. Init => NoSleeperBesideWork
  BY DEF Init, NoSleeperBesideWork, Asleep
<1>2. TypeOK /\ NoSleeperBesideWork /\ [Next]_vars => NoSleeperBesideWork'
  <2> SUFFICES ASSUME TypeOK, NoSleeperBesideWork, [Next]_vars
               PROVE  NoSleeperBesideWork'
    OBVIOUS
  <2>t. /\ m_qe_tasks \in Seq(Tasks)
        /\ Len(m_qe_tasks) \in Nat
        /\ worker \in [Workers -> {"acquire", "asleep", "run", "exited"}]
        /\ caller \in [Threads -> {"idle", "notify"}]
    BY DEF TypeOK
  <2>f. /\ IsFiniteSet(Notifying) /\ IsFiniteSet(Acquiring)
        /\ Cardinality(Notifying) \in Nat /\ Cardinality(Acquiring) \in Nat
    BY ThreadSetsFinite
  <2>g. (Cardinality(Notifying) \in Nat /\ Cardinality(Acquiring) \in Nat)'
    BY ThreadSetsFinite, PTL
  <2>1. ASSUME NEW th \in Threads, NEW t \in Tasks, EnqueueAccepted(th, t)
        PROVE  NoSleeperBesideWork'
    <3>1. /\ Len(m_qe_tasks') = Len(m_qe_tasks) + 1
          /\ Asleep' = Asleep /\ Acquiring' = Acquiring
          /\ th \notin Notifying /\ Notifying' = Notifying \cup {th}
      BY <2>t, <2>1 DEF EnqueueAccepted, MayCall, Asleep, Acquiring, Notifying
    <3>2. Cardinality(Notifying') = Cardinality(Notifying) + 1
      BY <3>1, <2>f, FS_AddElement
    <3>. QED
      BY <3>1, <3>2, <2>f, <2>t DEF NoSleeperBesideWork
  <2>2. ASSUME NEW th \in Threads, NotifyOne(th), Asleep # {}
        PROVE  NoSleeperBesideWork'
    <3>1. PICK w \in Asleep : worker' = [worker EXCEPT ![w] = "acquire"]
      BY <2>2 DEF NotifyOne
    <3>2. /\ m_qe_tasks' = m_qe_tasks
          /\ th \in Notifying /\ Notifying' = Notifying \ {th}
          /\ w \notin Acquiring /\ Acquiring' = Acquiring \cup {w}
      BY <2>t, <2>2, <3>1 DEF NotifyOne, Asleep, Acquiring, Notifying
    <3>3. /\ Cardinality(Notifying') = Cardinality(Notifying) - 1
          /\ Cardinality(Acquiring') = Cardinality(Acquiring) + 1
      BY <3>2, <2>f, FS_AddElement, FS_RemoveElement
    <3>. QED
      BY <2>2, <3>2, <3>3, <2>f, <2>t DEF NoSleeperBesideWork
  <2>3. ASSUME NEW w \in Workers, Sleep(w) \/ Exit(w)
        PROVE  NoSleeperBesideWork'
    <3>1. Len(m_qe_tasks') = 0
      BY <2>3 DEF Sleep, Exit
    <3>. QED
      BY <3>1, <2>g DEF NoSleeperBesideWork
  <2>4. ASSUME NEW w \in Workers, Take(w)
        PROVE  NoSleeperBesideWork'
    <3>1. /\ Len(m_qe_tasks') = Len(m_qe_tasks) - 1
          /\ Asleep' = Asleep /\ Notifying' = Notifying
          /\ w \in Acquiring /\ Acquiring' = Acquiring \ {w}
      BY <2>t, <2>4 DEF Take, Asleep, Acquiring, Notifying
    <3>2. Cardinality(Acquiring') = Cardinality(Acquiring) - 1
      BY <3>1, <2>f, FS_RemoveElement
    <3>. QED
      BY <3>1, <3>2, <2>f, <2>t DEF NoSleeperBesideWork
  <2>5. ASSUME NEW w \in Workers, Finish(w) \/ SpuriousWakeup(w)
        PROVE  NoSleeperBesideWork'
    <3>1. /\ m_qe_tasks' = m_qe_tasks
          /\ Asleep' \subseteq Asleep /\ Notifying' = Notifying
          /\ w \notin Acquiring /\ Acquiring' = Acquiring \cup {w}
      BY <2>t, <2>5 DEF Finish, SpuriousWakeup, Asleep, Acquiring, Notifying
    <3>2. Cardinality(Acquiring') = Cardinality(Acquiring) + 1
      BY <3>1, <2>f, FS_AddElement
    <3>. QED
      BY <3>1, <3>2, <2>f, <2>t DEF NoSleeperBesideWork
  <2>6. CASE Asleep' = {}
    BY <2>6 DEF NoSleeperBesideWork
  <2>7. ASSUME NEW th \in Threads, NotifyOne(th), Asleep = {}
        PROVE  Asleep' = {}
    BY <2>7 DEF NotifyOne, Asleep
  <2>8. ASSUME NotifyAll
        PROVE  Asleep' = {}
    BY <2>t, <2>8 DEF NotifyAll, Asleep
  <2>9. CASE UNCHANGED <<m_qe_tasks, worker, caller>>
    BY <2>9 DEF NoSleeperBesideWork, Asleep, Acquiring, Notifying
  <2>. QED
    BY <2>1, <2>2, <2>3, <2>4, <2>5, <2>6, <2>7, <2>8, <2>9
    DEF Next, WorkerStep, EnqueueRefused, Stop, Join, vars
<1>. QED
  BY <1>1, <1>2, TypeCorrect, PTL DEF Spec

-------------------------------------------------------------------------------
(* The pool is drained before its destructor returns *)

\* Why DrainedOnReturn holds: a worker that has left its loop has seen m_stop with
\* an empty queue, and from then on nothing is accepted.
LeftEmpty ==
  /\ \A w \in Workers : worker[w] = "exited" => m_stop /\ m_qe_tasks = <<>>
  /\ destructor = "returned" => \A w \in Workers : worker[w] = "exited"

\* Join therefore waits for an empty queue (lines 62 to 65 and 88 to 90).
LEMMA WorkersLeaveEmptyQueue == Spec => []LeftEmpty
<1>1. Init => LeftEmpty
  BY DEF Init, LeftEmpty
<1>2. TypeOK /\ LeftEmpty /\ [Next]_vars => LeftEmpty'
  <2> SUFFICES ASSUME TypeOK, LeftEmpty, [Next]_vars
               PROVE  LeftEmpty'
    OBVIOUS
  <2>t. worker \in [Workers -> {"acquire", "asleep", "run", "exited"}]
    BY DEF TypeOK
  <2> USE DEF LeftEmpty
  <2>1. ASSUME NEW th \in Threads, NEW t \in Tasks, EnqueueAccepted(th, t)
        PROVE  LeftEmpty'
    BY <2>1, WorkersAssumption DEF EnqueueAccepted
  <2>2. ASSUME NEW th \in Threads, NotifyOne(th)
        PROVE  LeftEmpty'
    BY <2>t, <2>2 DEF NotifyOne, Asleep
  <2>3. ASSUME NEW w \in Workers, Sleep(w) \/ Exit(w) \/ Finish(w) \/ SpuriousWakeup(w)
        PROVE  LeftEmpty'
    BY <2>t, <2>3 DEF Sleep, Exit, Finish, SpuriousWakeup
  <2>4. ASSUME NEW w \in Workers, Take(w)
        PROVE  LeftEmpty'
    BY <2>t, <2>4 DEF Take
  <2>5. CASE Stop
    BY <2>5 DEF Stop
  <2>6. CASE NotifyAll
    BY <2>t, <2>6 DEF NotifyAll
  <2>7. CASE Join
    BY <2>7 DEF Join
  <2>8. CASE UNCHANGED <<m_stop, m_qe_tasks, worker, destructor>>
    BY <2>8
  <2>. QED
    BY <2>1, <2>2, <2>3, <2>4, <2>5, <2>6, <2>7, <2>8
    DEF Next, WorkerStep, EnqueueRefused, vars
<1>. QED
  BY <1>1, <1>2, TypeCorrect, PTL DEF Spec

\* When the destructor has returned, everything that enqueue ever accepted has run.
THEOREM DrainedBeforeReturn == Spec => []DrainedOnReturn
<1>1. TypeOK /\ OneHolder /\ LeftEmpty => DrainedOnReturn
  <2> SUFFICES ASSUME TypeOK, OneHolder, LeftEmpty, destructor = "returned"
               PROVE  m_qe_tasks = <<>> /\ \A t \in Tasks : future[t] # "pending"
    BY DEF DrainedOnReturn
  <2>1. m_qe_tasks = <<>> /\ \A w \in Workers : worker[w] = "exited"
    BY WorkersAssumption DEF LeftEmpty
  <2>2. Queued = {} /\ \A w \in Workers : running[w] \notin Tasks
    BY <2>1 DEF Queued, TypeOK
  <2>. QED
    BY <2>1, <2>2 DEF OneHolder
<1>. QED
  BY <1>1, TypeCorrect, TaskHasOneHolder, WorkersLeaveEmptyQueue, PTL

-------------------------------------------------------------------------------
(* ThreadPool implements TaskService *)

Busy   == {w \in Workers : worker[w] = "run"}
Active == {running[w] : w \in Busy}

\* A worker that is about to take a task leaves room for it among the active ones.
LEMMA RoomForOneMore ==
  ASSUME NEW w \in Workers, w \notin Busy
  PROVE  Cardinality(Active) < Cardinality(Workers)
<1> DEFINE task == [v \in Busy |-> running[v]]
<1>1. IsFiniteSet(Workers) /\ Cardinality(Workers) \in Nat
  BY WorkersAssumption, FS_CardinalityType
<1>2. /\ IsFiniteSet(Workers \ {w})
      /\ Cardinality(Workers \ {w}) = Cardinality(Workers) - 1
  BY <1>1, FS_RemoveElement
<1>3. /\ IsFiniteSet(Busy)
      /\ Cardinality(Busy) <= Cardinality(Workers) - 1
  <2>1. Busy \in SUBSET (Workers \ {w})
    BY DEF Busy
  <2>. QED
    BY <1>2, <2>1, FS_Subset
<1>4. task \in Surjection(Busy, Active)
  BY DEF Surjection, Active
<1>5. IsFiniteSet(Active) /\ Cardinality(Active) <= Cardinality(Busy)
  BY <1>3, <1>4, FS_Surjection
<1>6. Cardinality(Active) \in Nat /\ Cardinality(Busy) \in Nat
  BY <1>3, <1>5, FS_CardinalityType
<1>. QED
  BY <1>1, <1>3, <1>5, <1>6

\* The instance has a copy of Cardinality of its own.
LEMMA SameCardinality == \A S : Service!Cardinality(S) = Cardinality(S)
  BY DEF Service!Cardinality, Cardinality

\* The workers, the mutex, the notifications and the join keep the promises of
\* TaskService: every step of the pool is one of its steps, or none.
THEOREM PoolImplementsService == Spec => ImplementsTaskService
<1> USE TasksAssumption
<1>a. ASSUME TypeOK
      PROVE  \A w \in Workers : w \in Busy <=> running[w] \in Tasks
  BY <1>a DEF TypeOK, Busy
<1>1. Init => Service!Init
  <2> SUFFICES ASSUME Init PROVE Service!Init
    OBVIOUS
  <2>1. {running[w] : w \in {v \in Workers : worker[v] = "run"}} = {}
    BY DEF Init
  <2>2. m_stop = FALSE /\ (destructor = "returned") = FALSE
    BY DEF Init
  <2>. QED
    BY <2>1, <2>2 DEF Init, Service!Init
<1>2. TypeOK /\ OneHolder /\ LeftEmpty /\ [Next]_vars => [Service!Next]_(Service!vars)
  <2> SUFFICES ASSUME TypeOK, OneHolder, LeftEmpty, [Next]_vars
               PROVE  [Service!Next]_(Service!vars)
    OBVIOUS
  <2>t. /\ worker \in [Workers -> {"acquire", "asleep", "run", "exited"}]
        /\ running \in [Workers -> Tasks \cup {NoTask}]
        /\ m_stop \in BOOLEAN
        /\ \A w \in Workers : w \in Busy <=> running[w] \in Tasks
    BY <1>a DEF TypeOK
  <2>s. ASSUME /\ UNCHANGED <<future, m_qe_tasks, m_stop>>
               /\ (destructor = "returned") = (destructor' = "returned")
               /\ Active' = Active
        PROVE  UNCHANGED Service!vars
    BY <2>s DEF Service!vars, Active, Busy
  <2>1. ASSUME NEW th \in Threads, NEW t \in Tasks, EnqueueAccepted(th, t)
        PROVE  Service!Accept(t)
    BY <2>1 DEF EnqueueAccepted, Service!Accept
  <2>2. ASSUME NEW th \in Threads, NEW t \in Tasks, EnqueueRefused(th, t)
        PROVE  Service!Refuse(t)
    BY <2>2 DEF EnqueueRefused, MayCall, LeftEmpty, Service!Refuse
  <2>3. ASSUME NEW w \in Workers, Take(w)
        PROVE  Service!Start
    <3>1. w \notin Busy /\ Cardinality(Active) < Cardinality(Workers)
      BY <2>3, RoomForOneMore DEF Take, Busy
    <3>2. Active' = Active \cup {Head(m_qe_tasks)}
      BY <2>3, <2>t DEF Take, Active, Busy
    <3>. QED
      BY <2>3, <3>1, <3>2, SameCardinality DEF Take, Active, Busy, Service!Start
  <2>4. ASSUME NEW w \in Workers, Finish(w)
        PROVE  \E t \in Tasks : Service!Complete(t)
    <3>1. running[w] \in Active /\ future[running[w]] = "pending" /\ running[w] \in Tasks
      BY <2>4, <2>t DEF Finish, Active, Busy, OneHolder
    <3>2. Active' = Active \ {running[w]}
      BY <2>4, <2>t DEF Finish, Active, Busy, OneHolder
    <3>. QED
      BY <2>4, <3>1, <3>2 DEF Finish, Active, Busy, Service!Complete
  <2>5. ASSUME Stop
        PROVE  Service!Close
    <3>1. ~m_stop /\ (destructor = "returned") = FALSE /\ (destructor' = "returned") = FALSE
      BY <2>5 DEF Stop, TypeOK
    <3>. QED
      BY <2>5, <3>1 DEF Stop, Service!Close
  <2>6. ASSUME Join
        PROVE  Service!Return
    <3>1. m_qe_tasks = <<>> /\ Active = {} /\ Queued = {}
      BY <2>6, WorkersAssumption DEF Join, LeftEmpty, Active, Busy, Queued
    <3>2. \A t \in Tasks : future[t] # "pending"
      BY <2>6, <2>t, <3>1 DEF Join, Busy, OneHolder
    <3>3. m_stop
      BY <2>6 DEF Join, TypeOK
    <3>. QED
      BY <2>6, <3>1, <3>2, <3>3 DEF Join, Active, Busy, Service!Return
  <2>7. ASSUME NEW th \in Threads, NotifyOne(th)
        PROVE  UNCHANGED Service!vars
    BY <2>7, <2>t, <2>s DEF NotifyOne, Asleep, Active, Busy
  <2>8. ASSUME NEW w \in Workers, Sleep(w) \/ Exit(w) \/ SpuriousWakeup(w)
        PROVE  UNCHANGED Service!vars
    BY <2>8, <2>t, <2>s DEF Sleep, Exit, SpuriousWakeup, Active, Busy
  <2>9. ASSUME NotifyAll
        PROVE  UNCHANGED Service!vars
    BY <2>9, <2>t, <2>s DEF NotifyAll, Active, Busy
  <2>10. ASSUME UNCHANGED vars
         PROVE  UNCHANGED Service!vars
    BY <2>10, <2>s DEF vars, Active, Busy
  <2>. QED
    BY <2>1, <2>2, <2>3, <2>4, <2>5, <2>6, <2>7, <2>8, <2>9, <2>10
    DEF Next, WorkerStep, Service!Next
<1>. QED
  BY <1>1, <1>2, TypeCorrect, TaskHasOneHolder, WorkersLeaveEmptyQueue, PTL
  DEF Spec, ImplementsTaskService, Service!Spec
================================================================================
