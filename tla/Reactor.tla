--------------------------------- MODULE Reactor ---------------------------------
(***************************************************************************)
(* The reactor of src/thesky-net: event_base with its io map, the queue of *)
(* active events and select.  One thread dispatches; events are added      *)
(* before it does, or by their callbacks, with evmap_io_add: event_add     *)
(* itself returns -1 for every event that has a base.                      *)
(*                                                                         *)
(* evmap_io_add stores a copy of the event, named here by the number of    *)
(* the call.  All copies have the default priority of event_new, half of   *)
(* m_nactivequeues, so that one of the active queues is in use.            *)
(***************************************************************************)
EXTENDS Integers, Sequences, FiniteSets

CONSTANTS Fds,     \* descriptors, all below FD_SETSIZE, which selectops does not check
          MaxAdds  \* bound on the calls of evmap_io_add

ASSUME FdsAssumption  == Fds \subseteq Nat /\ IsFiniteSet(Fds)
ASSUME AddsAssumption == MaxAdds \in Nat

VARIABLES sized,     \* the program has sized m_activequeues and set m_nactivequeues
          validTv,   \* the timeval that is passed without a value is one select accepts
          adds,      \* the copies that exist are 1 .. adds
          fd, flags, \* m_fd and m_flags of each copy
          activate,  \* the length of m_activate of each copy
          iomap,     \* m_evmapio; of a list that is walked, the part walked already
          visit,     \* the rest of that list
          queue,     \* the active queue
          readset,   \* m_readset_in
          fdmax,     \* m_fdmax
          at,        \* where the thread stands
          ready,     \* m_readset_out, still to be looked at
          readable,  \* the descriptors that can be read
          open,      \* the descriptors that are open
          persist,   \* history: the copies that were added with EV_PERSIST
          fired,     \* history: how often each callback has been called, up to 2
          crashed    \* the process has died

config == <<sized, validTv>>
copies == <<adds, fd, flags, persist>>
active == <<activate, iomap, visit, queue>>
sets   == <<readset, fdmax>>
world  == <<readable, open>>
vars   == <<config, copies, active, sets, at, ready, world, fired, crashed>>

Copies  == 1 .. adds
Members(q) == {q[i] : i \in DOMAIN q}
Times(e, q) == Cardinality({i \in DOMAIN q : q[i] = e})

\* A copy that was added without flags may wait for its first visit; one whose flags are
\* spent is gone from the map.
InPlace(e) == flags[e] = {} => activate[e] = 0 /\ fired[e] = 0

\* A copy in the map is in place there and stands in the list of its descriptor.
TypeOK ==
  /\ {sized, validTv, crashed} \subseteq BOOLEAN
  /\ adds \in 0 .. MaxAdds
  /\ fd \in [Copies -> Fds]
  /\ flags \in [Copies -> SUBSET {"READ", "WRITE", "PERSIST"}]
  /\ activate \in [Copies -> Nat] /\ fired \in [Copies -> 0 .. 2]
  /\ queue \in Seq(Copies)
  /\ at \in {"new", "select", "scan", "process", "call"}
  /\ ready \subseteq readset /\ readset \subseteq Fds /\ fdmax \in {0} \cup Fds
  /\ readable \subseteq open /\ open \subseteq Fds /\ persist \subseteq Copies
  /\ iomap \in [Fds -> Seq(Copies)] /\ visit \in Seq(Copies)
  /\ \A f \in Fds : \A e \in Members(iomap[f]) : fd[e] = f /\ InPlace(e)
  /\ \A e, d \in Members(visit) : fd[e] = fd[d] /\ InPlace(e)

Init ==
  /\ sized \in BOOLEAN /\ validTv \in BOOLEAN
  /\ adds     = 0
  /\ fd       = <<>>
  /\ flags    = <<>>
  /\ activate = <<>>
  /\ iomap    = [f \in Fds |-> <<>>]
  /\ visit    = <<>>
  /\ queue    = <<>>
  /\ readset  = {}
  /\ fdmax    = 0
  /\ at       = "new"
  /\ ready    = {}
  /\ readable = {}
  /\ open     = Fds
  /\ persist  = {}
  /\ fired    = <<>>
  /\ crashed  = FALSE

-------------------------------------------------------------------------------
(* evmap_io_add *)

\* Variant for the checks: the last descriptor is taken for the largest.
LastFd(f, fl) ==
  /\ fdmax'   = f
  /\ readset' = readset \cup (IF "READ" \in fl THEN {f} ELSE {})

\* selectops::add.  A write interest goes to the set of results, which the next
\* dispatch clears.
SelectAdd(f, fl) ==
  /\ fdmax'   = IF f > fdmax THEN f ELSE fdmax
  /\ readset' = readset \cup (IF "READ" \in fl THEN {f} ELSE {})

Add(f, fl) ==
  /\ at \in {"new", "call"}
  /\ adds < MaxAdds
  /\ adds'     = adds + 1
  /\ fd'       = Append(fd, f)
  /\ flags'    = Append(flags, fl)
  /\ persist'  = persist \cup (IF "PERSIST" \in fl THEN {adds + 1} ELSE {})
  /\ activate' = Append(activate, 0)
  /\ fired'    = Append(fired, 0)
  /\ iomap'    = [iomap EXCEPT ![f] = Append(@, adds + 1)]
  /\ SelectAdd(f, fl)
  /\ UNCHANGED <<config, visit, queue, at, ready, world, crashed>>

-------------------------------------------------------------------------------
(* event_base_dispatch *)

Begin ==
  /\ at = "new"
  /\ at' = "select"
  /\ UNCHANGED <<config, copies, active, sets, ready, world, fired, crashed>>

\* select fails while a number in the set is closed: nothing takes it out of the set.
Selectable == validTv /\ readset \subseteq open

Select ==
  /\ at = "select"
  /\ Selectable
  /\ ready' = {f \in readset \cap readable : f <= fdmax}
  /\ at'    = "scan"
  /\ UNCHANGED <<config, copies, active, sets, world, fired, crashed>>

\* An error, interruption by a signal included, ends the pass.
SelectFails ==
  /\ at = "select"
  /\ at' = "process"
  /\ UNCHANGED <<config, copies, active, sets, ready, world, fired, crashed>>

Lowest(f) == f \in ready /\ \A g \in ready : f <= g

Reads(e) == "READ" \in flags[e]

\* Variant for the checks: every copy is treated as persistent.
SpentNever(e) == flags[e]

\* What is left of the flags of a copy that is not persistent.
Spent(e) == IF "PERSIST" \in flags[e] THEN flags[e] ELSE flags[e] \ {"READ"}

\* event_new takes half of m_nactivequeues for the index, which no constructor sets.
QueueExists == sized

\* The next descriptor that can be read: evmap_io_active sets out on its list.
Scan(f) ==
  /\ at = "scan" /\ visit = <<>>
  /\ Lowest(f)
  /\ ready' = ready \ {f}
  /\ visit' = iomap[f]
  /\ iomap' = [iomap EXCEPT ![f] = <<>>]
  /\ UNCHANGED <<config, copies, activate, queue, sets, at, world, fired, crashed>>

\* Variant for the checks: a copy without flags stays in the list.
KeepAlways(e) == iomap' = [iomap EXCEPT ![fd[e]] = Append(@, e)]

\* The iterator goes on, or erases a copy that has no flag left.
Keep(e) ==
  iomap' = IF Spent(e) = {} THEN iomap ELSE [iomap EXCEPT ![fd[e]] = Append(@, e)]

\* One round of the loop of evmap_io_active.
Visit ==
  /\ at = "scan" /\ visit # <<>>
  /\ LET e == Head(visit)
     IN  /\ IF Reads(e)
            THEN /\ QueueExists
                 /\ activate' = [activate EXCEPT ![e] = @ + 1]
                 /\ queue'    = Append(queue, e)
            ELSE UNCHANGED <<activate, queue>>
         /\ flags' = [flags EXCEPT ![e] = Spent(e)]
         /\ Keep(e)
  /\ visit' = Tail(visit)
  /\ UNCHANGED <<config, adds, fd, persist, sets, at, ready, world, fired, crashed>>

\* An element past the end of m_activequeues.
VisitUnsized ==
  /\ at = "scan" /\ visit # <<>>
  /\ Reads(Head(visit)) /\ ~QueueExists
  /\ crashed' = TRUE
  /\ UNCHANGED <<config, copies, active, sets, at, ready, world, fired>>

EndScan ==
  /\ at = "scan" /\ visit = <<>> /\ ready = {}
  /\ at' = "process"
  /\ UNCHANGED <<config, copies, active, sets, ready, world, fired, crashed>>

\* process_active up to the callback, which gets the front of m_activate.
CallBack ==
  /\ at = "process" /\ queue # <<>>
  /\ at'    = "call"
  /\ fired' = [fired EXCEPT ![Head(queue)] = IF @ = 2 THEN 2 ELSE @ + 1]
  /\ UNCHANGED <<config, copies, active, sets, ready, world, crashed>>

\* Variant for the checks: m_activate is not popped.
ReturnKeepsFlag ==
  /\ at = "call"
  /\ at'       = "process"
  /\ queue'    = Tail(queue)
  /\ readable' \in {readable, readable \ {fd[Head(queue)]}}
  /\ UNCHANGED <<config, copies, activate, iomap, visit, sets, ready, open, fired, crashed>>

\* The callback has read what there was, or not.
Return ==
  /\ at = "call"
  /\ at'       = "process"
  /\ queue'    = Tail(queue)
  /\ activate' = [activate EXCEPT ![Head(queue)] = @ - 1]
  /\ readable' \in {readable, readable \ {fd[Head(queue)]}}
  /\ UNCHANGED <<config, copies, iomap, visit, sets, ready, open, fired, crashed>>

EndPass ==
  /\ at = "process" /\ queue = <<>>
  /\ at' = "select"
  /\ UNCHANGED <<config, copies, active, sets, ready, world, fired, crashed>>

-------------------------------------------------------------------------------
(* The descriptors *)

Arrive(f) ==
  /\ f \in open \ readable
  /\ readable' = readable \cup {f}
  /\ UNCHANGED <<config, copies, active, sets, at, ready, open, fired, crashed>>

\* The program closes a descriptor, whose copies stay in the map.
Close(f) ==
  /\ f \in open
  /\ open'     = open \ {f}
  /\ readable' = readable \ {f}
  /\ UNCHANGED <<config, copies, active, sets, at, ready, fired, crashed>>

\* Another file gets the number, and with it those copies.
Reopen(f) ==
  /\ f \in Fds \ open
  /\ open' = open \cup {f}
  /\ UNCHANGED <<config, copies, active, sets, at, ready, readable, fired, crashed>>

-------------------------------------------------------------------------------

LoopStep ==
  /\ ~crashed
  /\ \/ Begin \/ Select \/ SelectFails
     \/ (\E f \in Fds : Scan(f)) \/ Visit \/ VisitUnsized \/ EndScan
     \/ CallBack \/ Return \/ EndPass

Next ==
  \/ LoopStep
  \/ /\ ~crashed
     /\ \/ \E f \in Fds, fl \in SUBSET {"READ", "WRITE", "PERSIST"} : Add(f, fl)
        \/ \E f \in Fds : Arrive(f) \/ Close(f) \/ Reopen(f)

Spec == Init /\ [][Next]_vars

\* The thread dispatches, callbacks return, and not every select is interrupted.
FairSpec == Spec /\ WF_vars(LoopStep) /\ SF_vars(~crashed /\ Select)
-------------------------------------------------------------------------------
(* Properties *)

\* Whenever a callback is about to be called there is a flag for it at the front of
\* m_activate, and no flag is left over for a later call: copies that share a
\* descriptor, fire again or have been erased from the map included (event_base.h,
\* lines 65 to 67 and 85 to 93).
OneFlagPerActivation == \A e \in Copies : activate[e] = Times(e, queue)

\* A copy that is not persistent is called at most once, although its descriptor stays
\* in m_readset_in and goes on being reported (event_base.h, lines 70 to 77).
OneShotOnce == \A e \in Copies \ persist : fired[e] <= 1

Due(e) ==
  /\ e \in Copies
  /\ fd[e] \in readable
  /\ e \in Members(iomap[fd[e]]) \cup Members(visit) /\ Reads(e)

\* A read event in the map is called as long as its descriptor can be read, although
\* selects are interrupted, descriptors shared and flags spent (core_select.h, lines 61
\* to 76, event_base.h, lines 63 to 79): if the program has sized the queues, the
\* timeout is valid and no number in m_readset_in is closed.
ReadableIsCalled ==
  \A e \in 1 .. MaxAdds :
    Due(e) ~>
      \/ at = "call" /\ Head(queue) = e
      \/ e \in Copies /\ fd[e] \notin readable
      \/ crashed \/ ~Selectable
================================================================================
