------------------------------ MODULE TaskService ------------------------------
(***************************************************************************)
(* What thread_pool (src/thesky-src/thread_pool.h) promises its callers,   *)
(* with no worker, mutex, condition variable or notification in sight:     *)
(*                                                                         *)
(*   - enqueue either accepts a task or, once the destructor has begun,    *)
(*     refuses it with an empty future;                                    *)
(*   - accepted tasks start in the order in which they were accepted, each *)
(*     exactly once, and at most Capacity of them run at a time;           *)
(*   - a future becomes ready when its task has run, and only then;        *)
(*   - the destructor returns only when everything accepted has run.       *)
(*                                                                         *)
(* ThreadPool is shown to implement this specification.                    *)
(***************************************************************************)
EXTENDS Naturals, Sequences, FiniteSets

CONSTANTS Tasks,     \* every task is one call of enqueue
          Capacity   \* how many tasks may run at a time

VARIABLES future,    \* what the caller of enqueue holds for each task
          backlog,   \* accepted tasks that have not started, oldest first
          active,    \* tasks that are running
          closed,    \* the destructor has begun
          gone       \* the destructor has returned

vars == <<future, backlog, active, closed, gone>>

Init ==
  /\ future  = [t \in Tasks |-> "none"]
  /\ backlog = <<>>
  /\ active  = {}
  /\ closed  = FALSE
  /\ gone    = FALSE

Accept(t) ==
  /\ ~closed
  /\ future[t] = "none"
  /\ future'  = [future EXCEPT ![t] = "pending"]
  /\ backlog' = Append(backlog, t)
  /\ UNCHANGED <<active, closed, gone>>

Refuse(t) ==
  /\ closed
  /\ ~gone
  /\ future[t] = "none"
  /\ future' = [future EXCEPT ![t] = "invalid"]
  /\ UNCHANGED <<backlog, active, closed, gone>>

Start ==
  /\ backlog # <<>>
  /\ Cardinality(active) < Capacity
  /\ backlog' = Tail(backlog)
  /\ active'  = active \cup {Head(backlog)}
  /\ UNCHANGED <<future, closed, gone>>

Complete(t) ==
  /\ t \in active
  /\ future[t] = "pending"
  /\ active' = active \ {t}
  /\ future' = [future EXCEPT ![t] = "ready"]
  /\ UNCHANGED <<backlog, closed, gone>>

Close ==
  /\ ~closed
  /\ closed' = TRUE
  /\ UNCHANGED <<future, backlog, active, gone>>

Return ==
  /\ closed
  /\ ~gone
  /\ backlog = <<>>
  /\ active = {}
  /\ \A t \in Tasks : future[t] # "pending"
  /\ gone' = TRUE
  /\ UNCHANGED <<future, backlog, active, closed>>

Next ==
  \/ \E t \in Tasks : Accept(t) \/ Refuse(t) \/ Complete(t)
  \/ Start
  \/ Close
  \/ Return

Spec == Init /\ [][Next]_vars
================================================================================
