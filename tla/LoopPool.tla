-------------------------------- MODULE LoopPool --------------------------------
(***************************************************************************)
(* EventLoopThreadPool of src/thesky-evpp/event_loop_thread.h, whose class *)
(* is also declared in jd_loop.h, with its EventLoopThreads (jd_loop.h).   *)
(* One owner calls Start, Stop and Join; users call GetNextLoop and        *)
(* GetNextLoopWithHash at any time; every loop thread reports its start    *)
(* and its exit to the pool.  They share status_ words, counters and,      *)
(* without a lock, threads_ and stopped_cb_.                               *)
(*                                                                         *)
(* Of an event loop the pool sees that it executes the functor that        *)
(* EventLoopThread::Run queues first, and ends after Stop (EventLoop); or, *)
(* its pipe having failed, ends at once and executes nothing.              *)
(***************************************************************************)
EXTENDS Integers, FiniteSets

CONSTANTS MaxThreads,  \* bound on thread_num_
          MaxStops,    \* bound on the calls of Stop
          Users        \* the threads that ask for a loop

ASSUME BoundsAssumption == MaxThreads \in Nat /\ MaxStops \in Nat
ASSUME UsersAssumption  == IsFiniteSet(Users)

VARIABLES num,       \* thread_num_
          shortcut,  \* Start is the one of event_loop_thread.h
          broken,    \* the threads whose loop has no pipe
          status,    \* status_ of the pool
          threads,   \* how many threads threads_ holds
          owner,     \* where the owner stands
          waits,     \* the argument of the owner's call, to wait or not
          stops,     \* how many times Stop has been called
          next,      \* the thread that Stop comes to next
          cb,        \* stopped_cb_: the call of Stop that has given it, 0 if empty
          withFn,    \* the present call of Stop has a callback
          thread,    \* where each thread stands
          tstatus,   \* status_ of each EventLoopThread
          asked,     \* the threads whose loop has been asked to stop
          started,   \* started_count
          exited,    \* exited_count
          at,        \* where each user stands, or the thread whose loop it has got
          called,    \* history: the calls of Stop whose callbacks have been called
          waited,    \* history: a Stop that waits has returned
          fault      \* history: what the process has died of, or "none"

setup == <<num, shortcut, broken>>
args  == <<waits, stops, withFn>>
loops == <<thread, tstatus, started, exited>>
hist  == <<called, waited, fault>>
vars  == <<setup, status, threads, owner, args, next, cb, loops, asked, at, hist>>

Threads == 1 .. num

Inside == -1

\* In the order that line 373 of jd_loop.h relies on.
Statuses == {"null", "starting", "running", "stopping", "stopped"}

(***************************************************************************)
(* owner:  "new", "spawn" in Start's for, "poll" for one thread, "push",   *)
(*         "await" kRunning, "idle" between calls, "assign" in Stop until  *)
(*         stopped_cb_ is assigned, "ask" in its for and the wait,         *)
(*         "notify" in EventLoop::QueueInLoop past the test of watcher_,   *)
(*         "final" before the last store, "join", "joined"                 *)
(* thread: "none", "created", "started" before the count, "announce" and   *)
(*         "loop", "ended" after the loop, "last" and "test" in            *)
(*         OnThreadExited, "found" a callback, "calling", "leaving",       *)
(*         "gone"                                                          *)
(* at:     Inside past the two tests, or else what the last call returned: *)
(*         a thread for its loop, 0 for base_loop_ (or no call yet)        *)
(***************************************************************************)
Starting == {"none", "created", "started"}
Looping  == {"announce", "loop", "ended"}

TypeOK ==
  /\ num \in 0 .. MaxThreads
  /\ broken \subseteq Threads
  /\ {shortcut, waits, withFn, waited} \subseteq BOOLEAN
  /\ fault \in {"none", "pick", "callback", "notify"}
  /\ status \in Statuses
  /\ threads \in 0 .. num
  /\ owner \in {"new", "spawn", "poll", "push", "await", "idle", "assign", "ask",
                "notify", "final", "join", "joined"}
  /\ stops \in 0 .. MaxStops
  /\ cb \in 0 .. stops
  /\ next \in 1 .. num + 1
  /\ thread \in [Threads -> Starting \cup Looping \cup
                             {"last", "test", "found", "calling", "leaving", "gone"}]
  /\ tstatus \in [Threads -> Statuses]
  /\ asked \subseteq Threads
  /\ started = Cardinality({i \in Threads : thread[i] \notin Starting} \ broken)
  /\ exited = Cardinality({i \in Threads : thread[i] \notin Starting \cup Looping})
  /\ at \in [Users -> {Inside} \cup 0 .. num]
  /\ called \subseteq 1 .. stops

Init ==
  /\ num \in 0 .. MaxThreads
  /\ shortcut \in BOOLEAN
  /\ broken \in SUBSET Threads
  /\ status  = "null"
  /\ threads = 0
  /\ owner   = "new"
  /\ waits   = FALSE
  /\ stops   = 0
  /\ next    = 1
  /\ cb      = 0
  /\ withFn  = FALSE
  /\ thread  = [i \in Threads |-> "none"]
  /\ tstatus = [i \in Threads |-> "null"]
  /\ asked   = {}
  /\ started = 0
  /\ exited  = 0
  /\ at      = [u \in Users |-> 0]
  /\ called  = {}
  /\ waited  = FALSE
  /\ fault   = "none"

-------------------------------------------------------------------------------
(* Start *)

OwnerMoves(from, to) ==
  /\ owner = from
  /\ owner' = to
  /\ UNCHANGED <<setup, at>>

Start(wait) ==
  /\ OwnerMoves("new", "spawn")
  /\ waits'  = wait
  /\ status' = "starting"
  /\ UNCHANGED <<threads, withFn, stops, next, cb, loops, asked, hist>>

StartEmpty ==
  /\ OwnerMoves("spawn", "idle")
  /\ num = 0 /\ shortcut
  /\ status' = "running"
  /\ UNCHANGED <<threads, args, next, cb, loops, asked, hist>>

\* EventLoopThread::Start creates the thread and may wait for it.
StartThread ==
  /\ OwnerMoves("spawn", IF waits THEN "poll" ELSE "push")
  /\ threads < num
  /\ thread'  = [thread EXCEPT ![threads + 1] = "created"]
  /\ tstatus' = [tstatus EXCEPT ![threads + 1] = "starting"]
  /\ UNCHANGED <<status, threads, args, next, cb, started, exited, asked, hist>>

ThreadIsStarted ==
  /\ OwnerMoves("poll", "push")
  /\ tstatus[threads + 1] \notin {"null", "starting"}
  /\ UNCHANGED <<status, threads, args, next, cb, loops, asked, hist>>

PushThread ==
  /\ OwnerMoves("push", "spawn")
  /\ threads' = threads + 1
  /\ UNCHANGED <<status, args, next, cb, loops, asked, hist>>

AllSpawned ==
  /\ OwnerMoves("spawn", IF waits THEN "await" ELSE "idle")
  /\ threads = num
  /\ num = 0 => ~shortcut
  /\ UNCHANGED <<status, threads, args, next, cb, loops, asked, hist>>

AwaitRunning ==
  /\ OwnerMoves("await", "idle")
  /\ status = "running"
  /\ UNCHANGED <<status, threads, args, next, cb, loops, asked, hist>>

-------------------------------------------------------------------------------
(* Stop and Join *)

\* Variant for the checks: the loops are asked before stopped_cb_ is assigned.
StopAsksFirst(wait, fn) ==
  /\ OwnerMoves("idle", "assign")
  /\ stops < MaxStops
  /\ ~(wait /\ fn)
  /\ waits'  = wait
  /\ withFn' = fn
  /\ stops'  = stops + 1
  /\ status' = "stopping"
  /\ asked'  = asked \cup 1 .. threads
  /\ UNCHANGED <<threads, next, cb, loops, hist>>

\* Either Stop(bool) or Stop(DoneCallback), which does not wait.
Stop(wait, fn) ==
  /\ OwnerMoves("idle", "assign")
  /\ stops < MaxStops
  /\ ~(wait /\ fn)
  /\ waits'  = wait
  /\ withFn' = fn
  /\ stops'  = stops + 1
  /\ status' = "stopping"
  /\ UNCHANGED <<threads, next, cb, loops, asked, hist>>

StopEmpty ==
  /\ OwnerMoves("assign", "idle")
  /\ num = 0
  /\ status' = "stopped"
  /\ called' = called \cup (IF withFn THEN {stops} ELSE {})
  /\ UNCHANGED <<threads, args, next, cb, loops, asked, waited, fault>>

\* What the present call of Stop gives, and what a thread may read of stopped_cb_: the
\* function is copied without a lock while the owner stands at "assign".
Given == IF withFn THEN stops ELSE 0
Seen  == {cb} \cup (IF owner = "assign" THEN {Given} ELSE {})

AssignCallback ==
  /\ OwnerMoves("assign", "ask")
  /\ num > 0
  /\ next' = 1
  /\ cb'   = Given
  /\ UNCHANGED <<status, threads, args, loops, asked, hist>>

\* EventLoop::Run resets the watcher when its loop has ended.
HasWatcher(i) == thread[i] \in Starting \cup {"announce", "loop"}

\* Variant for the checks: a thread that has stopped is passed over.
AskThreadIfRunning ==
  /\ owner = "ask"
  /\ next <= threads
  /\ next'    = next + 1
  /\ asked'   = asked \cup (IF tstatus[next] = "running" THEN {next} ELSE {})
  /\ UNCHANGED <<owner, setup, at, status, threads, args, cb, loops, hist>>

\* EventLoopThread::Stop without waiting, up to the test of watcher_.
AskThread ==
  /\ next <= threads
  /\ OwnerMoves("ask", IF HasWatcher(next) THEN "notify" ELSE "ask")
  /\ next'    = IF HasWatcher(next) THEN next ELSE next + 1
  /\ tstatus' = [tstatus EXCEPT ![next] = "stopping"]
  /\ asked'   = asked \cup {next}
  /\ UNCHANGED <<status, threads, args, cb, thread, started, exited, hist>>

\* The loop may by now have found the functor without being notified, and have ended.
NotifyLoop ==
  /\ OwnerMoves("notify", "ask")
  /\ next' = next + 1
  /\ fault' \in {"none"} \cup (IF HasWatcher(next) THEN {} ELSE {"notify"})
  /\ UNCHANGED <<status, threads, args, cb, loops, asked, called, waited>>

AwaitExit ==
  /\ OwnerMoves("ask", "final")
  /\ next > threads
  /\ waits => \A i \in 1 .. threads : tstatus[i] = "stopped"
  /\ UNCHANGED <<status, threads, args, next, cb, loops, asked, hist>>

StopReturns ==
  /\ OwnerMoves("final", "idle")
  /\ status' = "stopped"
  /\ waited' = (waited \/ waits)
  /\ UNCHANGED <<threads, args, next, cb, loops, asked, called, fault>>

Join ==
  /\ OwnerMoves("idle", "join")
  /\ UNCHANGED <<status, threads, args, next, cb, loops, asked, hist>>

JoinReturns ==
  /\ OwnerMoves("join", "joined")
  /\ \A i \in 1 .. threads : thread[i] = "gone"
  /\ threads' = 0
  /\ UNCHANGED <<status, args, next, cb, loops, asked, hist>>

-------------------------------------------------------------------------------
(* A loop thread: EventLoopThread::Run, OnThreadStarted and OnThreadExited *)

Moves(i, from, to) ==
  /\ thread[i] = from
  /\ thread' = [thread EXCEPT ![i] = to]
  /\ UNCHANGED <<setup, threads, owner, args, next, asked, at, waited, fault>>

RunFirst(i) ==
  /\ i \notin broken
  /\ Moves(i, "created", "started")
  /\ tstatus' = [tstatus EXCEPT ![i] = "running"]
  /\ UNCHANGED <<status, cb, started, exited, called>>

\* Variant for the checks: the start is reported outside the loop.
RunFailsCounted(i) ==
  /\ i \in broken
  /\ Moves(i, "created", "ended")
  /\ started' = started + 1
  /\ UNCHANGED <<status, tstatus, cb, exited, called>>

\* The pipe has failed: the loop ends without its first functor.
RunFails(i) ==
  /\ i \in broken
  /\ Moves(i, "created", "ended")
  /\ UNCHANGED <<status, tstatus, cb, started, exited, called>>

\* Variant for the checks: the last thread but one takes itself for the last.
CountStartedEarly(i) ==
  /\ Moves(i, "started", IF started + 2 >= num THEN "announce" ELSE "loop")
  /\ started' = started + 1
  /\ UNCHANGED <<status, tstatus, cb, exited, called>>

CountStarted(i) ==
  /\ Moves(i, "started", IF started + 1 = num THEN "announce" ELSE "loop")
  /\ started' = started + 1
  /\ UNCHANGED <<status, tstatus, cb, exited, called>>

Announce(i) ==
  /\ Moves(i, "announce", "loop")
  /\ status' = "running"
  /\ UNCHANGED <<tstatus, cb, started, exited, called>>

\* Variant for the checks: kStopped is stored before the exit is reported.
LoopEndsStopped(i) ==
  /\ i \in asked
  /\ Moves(i, "loop", "ended")
  /\ tstatus' = [tstatus EXCEPT ![i] = "stopped"]
  /\ UNCHANGED <<status, cb, started, exited, called>>

LoopEnds(i) ==
  /\ i \in asked
  /\ Moves(i, "loop", "ended")
  /\ UNCHANGED <<status, tstatus, cb, started, exited, called>>

\* Variant for the checks: the count before this thread is passed on.
CountExitedBefore(i) ==
  /\ Moves(i, "ended", IF exited = num THEN "last" ELSE "leaving")
  /\ exited' = exited + 1
  /\ UNCHANGED <<status, tstatus, cb, started, called>>

CountExited(i) ==
  /\ Moves(i, "ended", IF exited + 1 = num THEN "last" ELSE "leaving")
  /\ exited' = exited + 1
  /\ UNCHANGED <<status, tstatus, cb, started, called>>

StoreStopped(i) ==
  /\ Moves(i, "last", "test")
  /\ status' = "stopped"
  /\ UNCHANGED <<tstatus, cb, started, exited, called>>

TestCallback(i) ==
  /\ \E c \in Seen : Moves(i, "test", IF c = 0 THEN "leaving" ELSE "found")
  /\ UNCHANGED <<status, tstatus, cb, started, exited, called>>

CallBack(i) ==
  /\ Moves(i, "found", "calling")
  /\ \E c \in Seen \ {0} : called' = called \cup {c}
  /\ UNCHANGED <<status, tstatus, cb, started, exited>>

\* The function that was found is half assigned or empty by now, or the one that runs
\* is destroyed by the assignment.
CallUnsafe(i) ==
  /\ thread[i] \in {"found", "calling"}
  /\ owner = "assign" \/ (thread[i] = "found" /\ cb = 0)
  /\ fault' = "callback"
  /\ UNCHANGED <<setup, status, threads, owner, args, next, cb, loops, asked, at, called, waited>>

ClearCallback(i) ==
  /\ Moves(i, "calling", "leaving")
  /\ cb' = 0
  /\ UNCHANGED <<status, tstatus, started, exited, called>>

Leave(i) ==
  /\ Moves(i, "leaving", "gone")
  /\ tstatus' = [tstatus EXCEPT ![i] = "stopped"]
  /\ UNCHANGED <<status, cb, started, exited, called>>

-------------------------------------------------------------------------------
(* GetNextLoop and GetNextLoopWithHash *)

Look(u) ==
  /\ at[u] # Inside
  /\ at' = [at EXCEPT ![u] = IF status = "running" /\ threads > 0 THEN Inside ELSE 0]
  /\ UNCHANGED <<setup, status, threads, owner, args, next, cb, loops, asked, hist>>

\* The remainder of the counter, or of the hash, may be any index.
Pick(u) ==
  /\ at[u] = Inside
  /\ threads > 0
  /\ \E i \in 1 .. threads : at' = [at EXCEPT ![u] = i]
  /\ UNCHANGED <<setup, status, threads, owner, args, next, cb, loops, asked, hist>>

\* The remainder by the size of an empty vector, or an element read while push_back
\* moves the vector.
PickUnsafe(u) ==
  /\ at[u] = Inside
  /\ threads = 0 \/ owner = "push"
  /\ fault' = "pick"
  /\ UNCHANGED <<setup, status, threads, owner, args, next, cb, loops, asked, at, called, waited>>

-------------------------------------------------------------------------------

OwnerStep ==
  /\ fault = "none"
  /\ \/ StartEmpty \/ StartThread \/ ThreadIsStarted \/ PushThread \/ AllSpawned \/ AwaitRunning
     \/ StopEmpty \/ AssignCallback \/ AskThread \/ NotifyLoop \/ AwaitExit \/ StopReturns
     \/ JoinReturns

ThreadStep(i) ==
  /\ fault = "none"
  /\ \/ RunFirst(i) \/ RunFails(i) \/ CountStarted(i) \/ Announce(i) \/ LoopEnds(i)
     \/ CountExited(i) \/ StoreStopped(i) \/ TestCallback(i) \/ CallBack(i) \/ CallUnsafe(i)
     \/ ClearCallback(i) \/ Leave(i)

Call ==
  /\ fault = "none"
  /\ \/ \E wait \in BOOLEAN : Start(wait)
     \/ \E wait, fn \in BOOLEAN : Stop(wait, fn)
     \/ Join
     \/ \E u \in Users : Look(u) \/ Pick(u) \/ PickUnsafe(u)

Next == OwnerStep \/ (\E i \in Threads : ThreadStep(i)) \/ Call

Spec == Init /\ [][Next]_vars

\* The owner goes on inside a call, and every thread is scheduled.  Nobody has to call.
FairSpec ==
  /\ Spec
  /\ WF_vars(OwnerStep)
  /\ \A i \in 1 .. MaxThreads : WF_vars(i \in Threads /\ ThreadStep(i))
-------------------------------------------------------------------------------
(* Properties *)

\* Although status_ is stored by the last thread to start, by Stop and by the last
\* thread to exit, in any order, the loop of a thread that has not reported its start
\* is never handed out (lines 188 to 192 and 213 to 219).
HandedLoopsHaveStarted ==
  \A u \in Users : at[u] \in Threads => thread[at[u]] \notin Starting

\* When Stop(true) has returned, every thread has reported its exit, no callback is
\* under way or still to come, and no thread touches the pool any more, so that it may
\* be destroyed: whatever happened in the start, and whichever Stop came before (lines
\* 149 to 166 against 427 to 430 of jd_loop.h).
StopWaitsForAll ==
  waited => exited = num /\ \A i \in Threads : thread[i] = "gone"

\* The unlocked use of threads_ is fatal to users only while Start grows it and after
\* Join has cleared it (lines 99, 174, 188), and that of stopped_cb_ (lines 140 and 226
\* to 228) to the last thread that exits only from the second Stop on, which assigns
\* what the thread may be calling, or, in the first, if every loop has lost its pipe and
\* ended unasked: one loop that works keeps its assignment and the calls apart.  (That
\* Stop may also notify a watcher that is gone is the finding of EventLoop.)
FatalRaces ==
  /\ fault = "pick" => owner \in {"push", "joined"}
  /\ fault = "callback" => stops > 1 \/ (owner = "assign" /\ withFn /\ broken = Threads)

\* The callback of the first Stop is called after the last exit, if all loops have
\* their pipe, unless the owner calls Stop again: it may then be lost (lines 140, 226).
FirstCallbackRuns ==
  (owner = "assign" /\ withFn /\ stops = 1 /\ broken = {})
    ~> (1 \in called \/ stops > 1 \/ fault # "none")

\* The owner's calls return if no race is fatal: Start and Stop in any case if they do
\* not wait.  A Start that waits: if all loops have their pipe and, in jd_loop.h, there
\* is a thread.  A Stop that waits: if all loops have their pipe and it is the first, for
\* a second one takes back the kStopped of the threads (line 381 of jd_loop.h).  Join:
\* after a Stop.
CallsReturn ==
  /\ (owner = "spawn" /\ (waits => broken = {} /\ (num > 0 \/ shortcut)))
       ~> (owner \in {"idle", "assign", "join", "joined"} \/ fault # "none")
  /\ (owner = "assign" /\ (waits => broken = {} /\ stops = 1)) ~> (owner = "idle" \/ fault # "none")
  /\ (owner = "join" /\ stops > 0) ~> (owner = "joined" \/ fault # "none")

-------------------------------------------------------------------------------
(* What the comments of the code say, and what the code does not do *)

\* No need to lock in GetNextLoop (line 189): whoever has seen kRunning reads a
\* threads_ that Start has finished to fill.
NoNeedToLock == \A u \in Users : at[u] = Inside /\ stops = 0 => threads = num
================================================================================
