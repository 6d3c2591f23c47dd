-------------------------------- MODULE EventLoop --------------------------------
(***************************************************************************)
(* EventLoop of src/thesky-evpp/jd_loop.h: one thread runs the loop, other *)
(* threads, and the functors that the loop executes, call QueueInLoop,     *)
(* RunInLoop and Stop.  A functor is pushed to pending_functors_ under     *)
(* mutex_; a byte written to the pipe of watcher_ wakes the loop, and      *)
(* notified_ saves the write when one is on its way.                       *)
(*                                                                         *)
(* A critical section of mutex_ is one action and so is each access to an  *)
(* atomic outside it.  Stop queues a functor of its own, StopInLoop, which *)
(* drains the queue from inside a batch: the loop's thread keeps a stack   *)
(* of batches.                                                             *)
(***************************************************************************)
EXTENDS Integers, Sequences, FiniteSets

CONSTANTS Producers,   \* the threads other than the loop's
          Loop,        \* the thread that calls Run
          Functors,    \* every functor is one call of QueueInLoop or RunInLoop
          Stoppers,    \* the threads that call Stop, once each
          Early        \* what the loop's thread may queue before Run

Callers == Producers \cup {Loop}

\* A thread stands for the StopInLoop functor that its call of Stop queues.
Items == Functors \cup Stoppers

ASSUME CallersAssumption ==
  /\ IsFiniteSet(Producers)
  /\ Loop \notin Producers
  /\ Stoppers \subseteq Callers
ASSUME FunctorsAssumption ==
  /\ IsFiniteSet(Functors)
  /\ Functors \cap Callers = {}
ASSUME EarlyAssumption == Early \subseteq Items

VARIABLES piped,      \* the watcher's pipe could be made
          foreign,    \* the event_base is one that somebody else dispatches
          status,     \* status_
          pending,    \* pending_functors_
          notified,   \* notified_
          count,      \* pending_functor_count_
          watcher,    \* watcher_ points to the watcher
          readable,   \* the pipe holds bytes
          exiting,    \* event_base_loopexit has been called
          loop,       \* where the loop's thread stands
          stack,      \* its calls of DoPendingFunctors, the innermost first
          at,         \* where each thread stands in QueueInLoop or Stop
          crashed,    \* the process has died on a destroyed watcher
          done,       \* the items that have been executed
          order       \* history: the items in the order of their pushes

kind  == <<piped, foreign>>
flags == <<notified, readable, watcher>>
run   == <<exiting, loop, stack>>
vars  == <<kind, status, pending, flags, count, run, at, crashed, done, order>>

(***************************************************************************)
(* loop:  "new" before Run, "starting", "poll" in the multiplexer or the   *)
(*        handler of another event, "take" on entry of DoPendingFunctors   *)
(*        from the pipe's handler, "batch" inside it, "ended" after        *)
(*        event_base_dispatch, "reset", "done"                             *)
(* phase of a batch, or of the functor at its front: "begin" to be called, *)
(*        "call" executing, "drain1" and "drain2" in StopInLoop before a   *)
(*        DoPendingFunctors, "drained1" and "drained2" after it; the       *)
(*        number tells the two calls of f() apart                          *)
(* at:    "idle", "push" (Stop has stored its status), "count", "test",    *)
(*        "store", "notify": what QueueInLoop does next                    *)
(***************************************************************************)
Phases == {"begin", "call", "drain1", "drained1", "drain2", "drained2"}

TypeOK ==
  /\ status \in {"initialized", "starting", "running", "stopping", "stopped"}
  /\ pending \in Seq(Items)
  /\ count \in Int
  /\ {piped, foreign, notified, watcher, readable, exiting, crashed} \subseteq BOOLEAN
  /\ readable => piped
  /\ loop \in {"new", "starting", "poll", "take", "batch", "ended", "reset", "done"}
  /\ stack \in Seq([batch : Seq(Items), phase : Phases])
  /\ loop = "batch" <=> stack # <<>>
  /\ \A i \in DOMAIN stack :
       /\ stack[i].phase # "begin" => stack[i].batch # <<>>
       /\ i > 1 => stack[i].phase \in {"drained1", "drained2"}
  /\ at \in [Callers -> {"idle", "push", "count", "test", "store", "notify"}]
  /\ done \subseteq Items
  /\ order \in Seq(Items)

\* A failure of DoInit leaves a watcher without pipe and without event, which nobody
\* asks about.  In event_loop.h DoInit always fails.
InitNotifyPipeWatcher == piped \in BOOLEAN /\ watcher = TRUE /\ readable = FALSE

\* AsyncWait: without the event of the pipe there is nothing to dispatch.
AfterAsyncWait == IF piped THEN "poll" ELSE "ended"

\* Either constructor.  The one for a foreign event_base, called by the thread that
\* dispatches it, finds it dispatching, and it goes on whatever becomes of the pipe.
Init ==
  /\ InitNotifyPipeWatcher
  /\ foreign \in BOOLEAN
  /\ status   = IF foreign THEN "running" ELSE "initialized"
  /\ loop     = IF foreign THEN "poll" ELSE "new"
  /\ pending  = <<>>
  /\ notified = FALSE
  /\ count    = 0
  /\ exiting  = FALSE
  /\ stack    = <<>>
  /\ at       = [c \in Callers |-> "idle"]
  /\ crashed  = FALSE
  /\ done     = {}
  /\ order    = <<>>

Members(q) == {q[i] : i \in DOMAIN q}

InPhase(phases) == loop = "batch" /\ Head(stack).phase \in phases

-------------------------------------------------------------------------------
(* QueueInLoop, RunInLoop and Stop *)

\* The loop's thread is in a position to call from inside a functor and, for the items in
\* Early, before Run.  From the handler of another event of its event_base it queues as a
\* producer does.
MayCall(c, x) ==
  /\ at[c] = "idle"
  /\ c = Loop => InPhase({"call"}) \/ (loop = "new" /\ x \in Early)

Fresh(f) == f \notin Members(order) \cup done

\* Variant for the checks: the functor goes to the front.
PushFirst(c, x) ==
  /\ pending' = <<x>> \o pending
  /\ order'   = Append(order, x)
  /\ at'      = [at EXCEPT ![c] = "count"]
  /\ UNCHANGED <<flags, count, run, crashed, done>>

Push(c, x) ==
  /\ pending' = Append(pending, x)
  /\ order'   = Append(order, x)
  /\ at'      = [at EXCEPT ![c] = "count"]
  /\ UNCHANGED <<flags, count, run, crashed, done>>

\* QueueInLoop, or RunInLoop by another thread or while the loop is not running.
Queue(c, f) ==
  /\ MayCall(c, f)
  /\ Fresh(f)
  /\ Push(c, f)
  /\ UNCHANGED status

\* RunInLoop by the loop's thread: it is called on the spot, whatever is pending.
RunHere(f) ==
  /\ at[Loop] = "idle" /\ (InPhase({"call"}) \/ loop = "poll")
  /\ Fresh(f)
  /\ status = "running"
  /\ done' = done \cup {f}
  /\ UNCHANGED <<status, pending, flags, count, run, at, crashed, order>>

\* Variant for the checks: Stop ends the dispatch loop from the calling thread.
CallStopDirectly(c) ==
  /\ MayCall(c, c)
  /\ Fresh(c)
  /\ status'  = "stopping"
  /\ at'      = [at EXCEPT ![c] = "push"]
  /\ exiting' = TRUE
  /\ UNCHANGED <<pending, flags, count, loop, stack, crashed, done, order>>

CallStop(c) ==
  /\ MayCall(c, c)
  /\ Fresh(c)
  /\ status' = "stopping"
  /\ at'     = [at EXCEPT ![c] = "push"]
  /\ UNCHANGED <<pending, flags, count, run, crashed, done, order>>

PushStop(c) ==
  /\ at[c] = "push"
  /\ Push(c, c)
  /\ UNCHANGED status

Count(c) ==
  /\ at[c] = "count"
  /\ count' = count + 1
  /\ at'    = [at EXCEPT ![c] = "test"]
  /\ UNCHANGED <<status, pending, flags, run, crashed, done, order>>

\* Variant for the checks: a loop that is not running need not be notified.
TestRunning(c) ==
  /\ at[c] = "test"
  /\ at' = [at EXCEPT ![c] =
              IF notified \/ ~watcher \/ status # "running" THEN "idle" ELSE "store"]
  /\ UNCHANGED <<status, pending, flags, count, run, crashed, done, order>>

Test(c) ==
  /\ at[c] = "test"
  /\ at' = [at EXCEPT ![c] = IF notified \/ ~watcher THEN "idle" ELSE "store"]
  /\ UNCHANGED <<status, pending, flags, count, run, crashed, done, order>>

Store(c) ==
  /\ at[c] = "store"
  /\ notified' = TRUE
  /\ at'       = [at EXCEPT ![c] = "notify"]
  /\ UNCHANGED <<status, pending, watcher, readable, count, run, crashed, done, order>>

\* A full pipe refuses the byte, which makes no difference: it is readable.  Without a
\* pipe the byte goes nowhere.
Notify(c) ==
  /\ at[c] = "notify"
  /\ watcher
  /\ readable' = piped
  /\ at'       = [at EXCEPT ![c] = "idle"]
  /\ UNCHANGED <<status, pending, notified, watcher, count, run, crashed, done, order>>

\* watcher_ was reset after the test: a null pointer or a destroyed watcher.  The
\* process dies, or the byte goes nowhere.
NotifyDestroyed(c) ==
  /\ at[c] = "notify"
  /\ ~watcher
  /\ crashed' \in BOOLEAN
  /\ at'      = [at EXCEPT ![c] = "idle"]
  /\ UNCHANGED <<status, pending, flags, count, run, done, order>>

-------------------------------------------------------------------------------
(* Run and the dispatch loop of libevent *)

RunBegins ==
  /\ loop = "new" /\ at[Loop] = "idle"
  /\ loop'   = "starting"
  /\ status' = "starting"
  /\ UNCHANGED <<pending, flags, count, exiting, stack, at, crashed, done, order>>

\* The pipe is added to the multiplexer; bytes written before count.
Dispatch ==
  /\ loop = "starting"
  /\ loop'   = AfterAsyncWait
  /\ status' = "running"
  /\ UNCHANGED <<pending, flags, count, exiting, stack, at, crashed, done, order>>

\* The pipe's handler empties the pipe and calls DoPendingFunctors.
Receive ==
  /\ loop = "poll"
  /\ readable
  /\ readable' = FALSE
  /\ loop'     = "take"
  /\ UNCHANGED <<status, pending, notified, watcher, count, exiting, stack, at, crashed,
                 done, order>>

ResetWatcher ==
  /\ loop = "ended" /\ ~foreign
  /\ watcher'  = FALSE
  /\ readable' = FALSE
  /\ loop'     = "reset"
  /\ UNCHANGED <<status, pending, notified, count, exiting, stack, at, crashed,
                 done, order>>

RunEnds ==
  /\ loop = "reset"
  /\ loop'   = "done"
  /\ status' = "stopped"
  /\ UNCHANGED <<pending, flags, count, exiting, stack, at, crashed, done, order>>

-------------------------------------------------------------------------------
(* DoPendingFunctors and StopInLoop *)

AtTake == loop = "take" \/ InPhase({"drain1", "drain2"})

\* The stack with the functor at the front of the innermost batch in another phase.
Becomes(phase) == [stack EXCEPT ![1].phase = phase]

Callee(batch) == [batch |-> batch, phase |-> "begin"]

StackAtTake ==
  IF loop = "take" THEN <<>>
  ELSE Becomes(IF InPhase({"drain1"}) THEN "drained1" ELSE "drained2")

\* Variant for the checks: notified_ is not cleared.
TakeBatchFlagged ==
  /\ AtTake
  /\ pending'  = <<>>
  /\ stack'    = <<Callee(pending)>> \o StackAtTake
  /\ loop'     = "batch"
  /\ UNCHANGED <<status, flags, count, exiting, at, crashed, done, order>>

\* Variant for the checks: a copy of the queue in place of the swap.
TakeBatchCopies ==
  /\ AtTake
  /\ notified' = FALSE
  /\ stack'    = <<Callee(pending)>> \o StackAtTake
  /\ loop'     = "batch"
  /\ UNCHANGED <<status, pending, watcher, readable, count, exiting, at, crashed,
                 done, order>>

\* DoPendingFunctors under mutex_: clear notified_ and swap the queue.
TakeBatch ==
  /\ AtTake
  /\ notified' = FALSE
  /\ pending'  = <<>>
  /\ stack'    = <<Callee(pending)>> \o StackAtTake
  /\ loop'     = "batch"
  /\ UNCHANGED <<status, watcher, readable, count, exiting, at, crashed, done, order>>

Begin ==
  /\ InPhase({"begin"})
  /\ Head(stack).batch # <<>>
  /\ stack' = Becomes(IF Head(Head(stack).batch) \in Stoppers THEN "drain1" ELSE "call")
  /\ UNCHANGED <<status, pending, flags, count, exiting, loop, at, crashed, done,
                 order>>

\* Variant for the checks: the count is left as it is.
ReturnsUncounted ==
  /\ done'  = done \cup {Head(Head(stack).batch)}
  /\ stack' = <<Callee(Tail(Head(stack).batch))>> \o Tail(stack)
  /\ UNCHANGED <<status, pending, flags, count, exiting, loop, at, crashed, order>>

\* The functor at the front of the batch has returned.
Returns ==
  /\ done'  = done \cup {Head(Head(stack).batch)}
  /\ count' = count - 1
  /\ stack' = <<Callee(Tail(Head(stack).batch))>> \o Tail(stack)
  /\ UNCHANGED <<status, pending, flags, exiting, loop, at, crashed, order>>

EndFunctor ==
  /\ InPhase({"call"})
  /\ at[Loop] = "idle"
  /\ Returns

\* IsPendingQueueEmpty looks at the queue without mutex_.
DrainAgain ==
  /\ InPhase({"drained1", "drained2"})
  /\ pending # <<>>
  /\ stack' = Becomes(IF InPhase({"drained1"}) THEN "drain1" ELSE "drain2")
  /\ UNCHANGED <<status, pending, flags, count, exiting, loop, at, crashed, done,
                 order>>

\* Variant for the checks: the loop is not told to exit.
NoLoopExit ==
  /\ InPhase({"drained1"})
  /\ pending = <<>>
  /\ stack'   = Becomes("drain2")
  /\ UNCHANGED <<status, pending, flags, count, exiting, loop, at, crashed, done,
                 order>>

LoopExit ==
  /\ InPhase({"drained1"})
  /\ pending = <<>>
  /\ exiting' = TRUE
  /\ stack'   = Becomes("drain2")
  /\ UNCHANGED <<status, pending, flags, count, loop, at, crashed, done, order>>

EndStop ==
  /\ InPhase({"drained2"})
  /\ pending = <<>>
  /\ Returns

\* Variant for the checks: the outermost batch stays on the stack.
EndBatchKeepsLast ==
  /\ InPhase({"begin"})
  /\ Head(stack).batch = <<>>
  /\ stack' = IF Len(stack) = 1 THEN stack ELSE Tail(stack)
  /\ loop'  = IF Len(stack) > 1 THEN "batch" ELSE IF exiting THEN "ended" ELSE "poll"
  /\ UNCHANGED <<status, pending, flags, count, exiting, at, crashed, done, order>>

\* The batch is finished: back to StopInLoop, or to the dispatch loop, which ends with
\* this pass if event_base_loopexit has been called, without another look at the pipe.
EndBatch ==
  /\ InPhase({"begin"})
  /\ Head(stack).batch = <<>>
  /\ stack' = Tail(stack)
  /\ loop'  = IF Len(stack) > 1 THEN "batch" ELSE IF exiting THEN "ended" ELSE "poll"
  /\ UNCHANGED <<status, pending, flags, count, exiting, at, crashed, done, order>>

-------------------------------------------------------------------------------

LoopStep ==
  /\ ~crashed /\ UNCHANGED kind
  /\ \/ RunBegins \/ Dispatch \/ Receive \/ ResetWatcher \/ RunEnds
     \/ TakeBatch \/ Begin \/ EndFunctor \/ DrainAgain \/ LoopExit \/ EndStop \/ EndBatch

QueueStep(c) ==
  /\ ~crashed /\ UNCHANGED kind
  /\ PushStop(c) \/ Count(c) \/ Test(c) \/ Store(c) \/ Notify(c) \/ NotifyDestroyed(c)

Call ==
  /\ ~crashed /\ UNCHANGED kind
  /\ \/ \E c \in Callers, f \in Functors : Queue(c, f)
     \/ \E f \in Functors : RunHere(f)
     \/ \E c \in Stoppers : CallStop(c)

Next == LoopStep \/ (\E c \in Callers : QueueStep(c)) \/ Call

Spec == Init /\ [][Next]_vars

\* The loop's thread calls Run, functors return, and a thread inside QueueInLoop or
\* Stop goes on.  Nobody has to call either.
FairSpec == Spec /\ WF_vars(LoopStep) /\ \A c \in Callers : WF_vars(QueueStep(c))
-------------------------------------------------------------------------------
(* Properties *)

Waiting  == Members(order) \ done
InCall   == {Head(stack[i].batch) : i \in {j \in DOMAIN stack : stack[j].phase # "begin"}}
Standing(p) == {c \in Callers : at[c] = p}
Ended    == loop \in {"ended", "reset", "done"}

\* A queued functor is in the queue or in one batch, once, until it has returned,
\* whichever of the nested DoPendingFunctors has taken it.
OneBatch ==
  /\ \A x \in Items :
       x \in Waiting <=>
         x \in Members(pending) \/ \E i \in DOMAIN stack : x \in Members(stack[i].batch)
  /\ Len(pending) = Cardinality(Members(pending))
  /\ Members(pending) \cap UNION {Members(stack[i].batch) : i \in DOMAIN stack} = {}
  /\ \A i, j \in DOMAIN stack :
       i # j => Members(stack[i].batch) \cap Members(stack[j].batch) = {}

\* notified_ is a promise that the loop will look at the queue: while it is set, a
\* thread is about to write to the pipe, or the pipe is readable, or its handler is
\* on its way to DoPendingFunctors (lines 239 to 250 and 321 to 325).
FlagMeansNotification ==
  piped /\ notified /\ ~Ended => readable \/ loop = "take" \/ Standing("notify") # {}

\* Although QueueInLoop tests and sets notified_ in two steps against a loop that
\* clears it, no functor is left in the queue with the loop asleep and nobody on
\* the way to wake it.
NobodyForgotten ==
  piped /\ pending # <<>> /\ ~Ended =>
    \/ readable
    \/ AtTake \/ InPhase({"drained1", "drained2"})
    \/ \E p \in {"count", "test", "store", "notify"} : Standing(p) # {}

\* pending_functor_count_ is the number of functors that have not returned, less
\* the pushes that their threads have not counted yet (line 319); it may be negative.
CountIsWaiting == count = Cardinality(Waiting) - Cardinality(Standing("count"))

Before(x, y) == \E i, j \in DOMAIN order : i < j /\ order[i] = x /\ order[j] = y

QueuedBeforeStops(f) == f \in Members(order) /\ \A s \in Stoppers : ~Before(s, f)

\* Stop lets the loop finish what it was given: when the dispatch loop has ended, all
\* functors that were queued before the first StopInLoop have been executed.
EarlyRunFirst ==
  piped /\ Ended => \A f \in Functors : QueuedBeforeStops(f) => f \in done

\* Functors are executed in the order in which they were queued, except that those
\* which stand behind a StopInLoop in its batch wait for it to drain the queue.
QueueOrder ==
  [][\A y \in InCall' \ InCall : \A x \in Items :
       Before(x, y) =>
         \/ x \in done \cup InCall
         \/ \E i \in 2 .. Len(stack) : x \in Members(stack[i].batch)]_vars

\* A functor that was queued before any StopInLoop is executed, whenever it was
\* queued: before Run, while the loop sleeps or while it drains.
EarlyRuns ==
  \A f \in Functors : (piped /\ QueuedBeforeStops(f)) ~> f \in done

\* Whoever calls Stop, when and from where: Run returns, also if the pipe could not be
\* made.  A foreign event_base is told to end, unless the pipe fails.  It takes that the
\* functors are finitely many: producers that queue without end (line 185) may keep
\* StopInLoop draining (lines 225 to 232) for ever.
StopEnds ==
  \A s \in Stoppers :
    (at[s] = "push" /\ (foreign => piped)) ~>
      crashed \/ IF foreign THEN Ended ELSE loop = "done"

-------------------------------------------------------------------------------
(* What the comments of the code say, and what the code does not do *)

\* A producer may call QueueInLoop at any time (lines 183 to 187): the watcher it
\* has found is there when it writes to the pipe.
WatcherOutlivesNotify == Standing("notify") # {} => watcher
================================================================================
