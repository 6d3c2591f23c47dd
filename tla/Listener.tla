-------------------------------- MODULE Listener --------------------------------
(***************************************************************************)
(* Listener and its FdChannel, src/thesky-evpp/listener.h and the later    *)
(* state of the same classes in jd_listener.h.  An owner calls Listen,     *)
(* SetNewConnectionCallback, Accept and the destructor; the loop's thread  *)
(* executes the functor that Accept queues, which holds a raw pointer to   *)
(* the channel, and calls the handler of an event that is registered with  *)
(* libevent; clients connect.  Channels are numbered by the calls of       *)
(* Accept that create them.  A call of libevent is atomic towards the      *)
(* calls of other threads: nothing in src/ sees to it.                     *)
(***************************************************************************)
EXTENDS Integers, Sequences, FiniteSets

CONSTANTS Conns,      \* the clients' connections
          MaxAccepts  \* bound on the calls of Accept

ASSUME ConstantsAssumption == IsFiniteSet(Conns) /\ MaxAccepts \in Nat

VARIABLES header,      \* the header of the two that is built
          asserts,     \* assert() is compiled in
          sock,        \* what fd_ is
          chan,        \* chan_, 0 if empty
          alive,       \* the Listener has not been destroyed
          callback,    \* new_conn_fn_ is set
          freed,       \* the channels that have been destroyed
          attached,    \* the channels with attached_
          registered,  \* the channels whose event libevent has
          queued,      \* the channels whose AttachToLoop the loop has queued
          loop,        \* what the loop's thread is in, and with which channel
          conn,        \* what has become of each connection
          overlap,     \* history: a channel was freed that the loop had in hand
          fault        \* what has ended the process

build == <<header, asserts>>
owner == <<sock, chan, alive, callback>>
chans == <<freed, attached, registered>>
vars  == <<build, owner, chans, queued, loop, conn, overlap, fault>>

Chans == 1 .. MaxAccepts
Idle  == [in |-> "idle", c |-> 0]

(***************************************************************************)
(* sock: "none", "open" but not listening, "stray" listening on a port the *)
(* kernel has chosen, "listening", "closed", and "reused" when the number  *)
(* of fd_ belongs to another descriptor                                    *)
(* loop: "attach" between event_add and attached_, "accept" and "hand" in  *)
(* HandleAccept                                                            *)
(***************************************************************************)
TypeOK ==
  /\ header \in {"listener.h", "jd_listener.h"}
  /\ {asserts, alive, callback, overlap} \subseteq BOOLEAN
  /\ sock \in {"none", "open", "stray", "listening", "closed", "reused"}
  /\ chan \in 0 .. MaxAccepts
  /\ freed = {c \in Chans : c < chan \/ (c = chan /\ ~alive)}
  /\ attached \subseteq Chans /\ registered \subseteq Chans
  /\ queued \in Seq(1 .. chan)
  /\ loop \in [in : {"idle", "attach", "accept", "hand"}, c : 0 .. chan]
  /\ conn \in [Conns -> {"new", "waiting", "accepted", "handed", "closed", "leaked", "refused"}]
  /\ Cardinality({x \in Conns : conn[x] = "accepted"}) = (IF loop.in = "hand" THEN 1 ELSE 0)
  /\ fault \in {"none", "assert", "attach", "event", "handler"}

Init ==
  /\ header \in {"listener.h", "jd_listener.h"}
  /\ asserts \in BOOLEAN
  /\ sock       = "none"
  /\ chan       = 0
  /\ alive      = TRUE
  /\ callback   = FALSE
  /\ freed      = {}
  /\ attached   = {}
  /\ registered = {}
  /\ queued     = <<>>
  /\ loop       = Idle
  /\ conn       = [x \in Conns |-> "new"]
  /\ overlap    = FALSE
  /\ fault      = "none"

-------------------------------------------------------------------------------
(* The owner *)

\* After a failed bind listener.h goes on to listen, jd_listener.h returns.
AfterListen(bound, listens) ==
  CASE bound /\ listens                          -> "listening"
    [] ~bound /\ listens /\ header = "listener.h" -> "stray"
    [] OTHER                                      -> "open"

Listen ==
  /\ alive /\ sock = "none"
  /\ \E created, bound, listens \in BOOLEAN :
       sock' = IF created THEN AfterListen(bound, listens) ELSE "none"
  /\ UNCHANGED <<build, chan, alive, callback, chans, queued, loop, conn, overlap, fault>>

SetNewConnectionCallback ==
  /\ alive /\ chan = 0
  /\ callback' = TRUE
  /\ UNCHANGED <<build, sock, chan, alive, chans, queued, loop, conn, overlap, fault>>

InHand(c) == c \in {queued[i] : i \in DOMAIN queued} \/ loop.c = c

\* Variant for the checks: the event is not deleted.
NothingDeleted == {}

\* The destructor of listener.h deletes an attached event, if it does not assert; the
\* one of jd_listener.h does nothing.
Deleted == {c \in attached : c = chan /\ header = "listener.h"}

FreeChannel(c) ==
  /\ freed'   = freed \cup {c}
  /\ overlap' = (overlap \/ InHand(c))
  /\ fault'   = IF c \in Deleted /\ asserts THEN "assert" ELSE fault

FreeChan == IF chan = 0 THEN UNCHANGED <<freed, overlap, fault>> ELSE FreeChannel(chan)

\* Variant for the checks: chan_ keeps the channel it has.
AcceptKeepsChannel ==
  /\ alive /\ chan < MaxAccepts
  /\ queued'     = Append(queued, chan + 1)
  /\ registered' = registered \ Deleted
  /\ FreeChan
  /\ UNCHANGED <<build, sock, chan, alive, callback, attached, loop, conn>>

\* chan_.reset frees the channel of an earlier Accept.
Accept ==
  /\ alive /\ chan < MaxAccepts
  /\ chan'       = chan + 1
  /\ queued'     = Append(queued, chan + 1)
  /\ registered' = registered \ Deleted
  /\ FreeChan
  /\ UNCHANGED <<build, sock, alive, callback, attached, loop, conn>>

\* The owner is the loop's thread: RunInLoop calls AttachToLoop on the spot.
AcceptHere ==
  /\ alive /\ chan < MaxAccepts
  /\ loop = Idle
  /\ chan' = chan + 1
  /\ \E added \in BOOLEAN :
       LET new == IF added THEN {chan + 1} ELSE {}
       IN  /\ registered' = (registered \ Deleted) \cup new
           /\ attached'   = attached \cup new
  /\ FreeChan
  /\ UNCHANGED <<build, sock, alive, callback, queued, loop, conn>>

Destroy ==
  /\ alive
  /\ alive'      = FALSE
  /\ sock'       = "closed"
  /\ conn'       = [x \in Conns |-> IF conn[x] = "waiting" THEN "refused" ELSE conn[x]]
  /\ registered' = registered \ Deleted
  /\ FreeChan
  /\ UNCHANGED <<build, chan, callback, attached, queued, loop>>

\* The kernel completes connections to a listening socket.
Connect(x) ==
  /\ conn[x] = "new"
  /\ sock = "listening"
  /\ conn' = [conn EXCEPT ![x] = "waiting"]
  /\ UNCHANGED <<build, owner, chans, queued, loop, overlap, fault>>

\* The program opens another descriptor, which gets the number of the closed one.
ReuseNumber ==
  /\ sock = "closed"
  /\ sock' = "reused"
  /\ UNCHANGED <<build, chan, alive, callback, chans, queued, loop, conn, overlap, fault>>

-------------------------------------------------------------------------------
(* The loop's thread: AttachToLoop, HandleEvent and HandleAccept *)

\* event_add may fail.
AddEvent ==
  /\ loop = Idle /\ queued # <<>>
  /\ Head(queued) \notin freed
  /\ queued' = Tail(queued)
  /\ \/ /\ loop'       = [Idle EXCEPT !.in = "attach", !.c = Head(queued)]
        /\ registered' = registered \cup {Head(queued)}
     \/ UNCHANGED <<loop, registered>>
  /\ UNCHANGED <<build, owner, freed, attached, conn, overlap, fault>>

\* The pointer dangles: event_ is null in listener.h, in jd_listener.h it may still be
\* there to be registered.
AddEventFreed ==
  /\ loop = Idle /\ queued # <<>>
  /\ Head(queued) \in freed
  /\ queued' = Tail(queued)
  /\ \/ fault' = "attach" /\ UNCHANGED registered
     \/ /\ header = "jd_listener.h"
        /\ registered' = registered \cup {Head(queued)}
        /\ UNCHANGED fault
  /\ UNCHANGED <<build, owner, freed, attached, loop, conn, overlap>>

SetAttached ==
  /\ loop.in = "attach"
  /\ loop'     = Idle
  /\ attached' = attached \cup {loop.c}
  /\ UNCHANGED <<build, owner, freed, registered, queued, conn, overlap, fault>>

\* A socket that does not listen reports a hang-up, a reused number what the other
\* descriptor does.
Readable == sock \in {"open", "reused"} \/ \E x \in Conns : conn[x] = "waiting"

\* Variant for the checks: the event is not persistent.
FireOnce(c) ==
  /\ loop = Idle /\ Readable
  /\ c \in registered \ freed
  /\ loop'       = [Idle EXCEPT !.in = "accept", !.c = c]
  /\ registered' = registered \ {c}
  /\ UNCHANGED <<build, owner, freed, attached, queued, conn, overlap, fault>>

Fire(c) ==
  /\ loop = Idle /\ Readable
  /\ c \in registered \ freed
  /\ loop' = [Idle EXCEPT !.in = "accept", !.c = c]
  /\ UNCHANGED <<build, owner, chans, queued, conn, overlap, fault>>

FireFreed(c) ==
  /\ loop = Idle /\ Readable
  /\ c \in registered \cap freed
  /\ fault' = "event"
  /\ UNCHANGED <<build, owner, chans, queued, loop, conn, overlap>>

\* EAGAIN, EINTR, no descriptor left, or a socket that is not listening.
AcceptFails ==
  /\ loop.in = "accept"
  /\ loop' = Idle
  /\ UNCHANGED <<build, owner, chans, queued, conn, overlap, fault>>

TakeConn(x) ==
  /\ loop.in = "accept" /\ alive
  /\ conn[x] = "waiting"
  /\ loop' = [loop EXCEPT !.in = "hand"]
  /\ conn' = [conn EXCEPT ![x] = "accepted"]
  /\ UNCHANGED <<build, owner, chans, queued, overlap, fault>>

Ends(what) ==
  /\ loop.in = "hand"
  /\ \E x \in Conns : conn[x] = "accepted" /\ conn' = [conn EXCEPT ![x] = what]
  /\ loop' = Idle
  /\ UNCHANGED <<build, owner, chans, queued, overlap, fault>>

\* It cannot be made nonblocking, or its address has no text.
Reject == Ends("closed")

HandOver ==
  /\ alive
  /\ Ends(IF callback THEN "handed" ELSE "leaked")

\* fd_ and new_conn_fn_ are members of a Listener that is no more.
HandlerUnsafe ==
  /\ loop.in \in {"accept", "hand"} /\ ~alive
  /\ fault' = "handler"
  /\ UNCHANGED <<build, owner, chans, queued, loop, conn, overlap>>

-------------------------------------------------------------------------------

LoopStep ==
  /\ fault = "none"
  /\ \/ AddEvent \/ AddEventFreed \/ SetAttached
     \/ \E c \in Chans : Fire(c) \/ FireFreed(c)
     \/ AcceptFails \/ (\E x \in Conns : TakeConn(x)) \/ Reject \/ HandOver \/ HandlerUnsafe

Next ==
  \/ LoopStep
  \/ /\ fault = "none"
     /\ \/ Listen \/ SetNewConnectionCallback \/ Accept \/ AcceptHere
        \/ Destroy \/ ReuseNumber
        \/ \E x \in Conns : Connect(x)

Spec == Init /\ [][Next]_vars

\* The loop's thread is scheduled, and accept does not fail for ever.
FairSpec ==
  /\ Spec
  /\ WF_vars(LoopStep)
  /\ \A x \in Conns : SF_vars(fault = "none" /\ TakeConn(x))
-------------------------------------------------------------------------------
(* Properties *)

\* With listener.h the loop meets a freed channel or Listener only if the owner freed it
\* while its AttachToLoop was queued or under way or its handler was running: at any
\* other time chan_.reset leaves nothing behind (lines 42 to 63, 106 to 110, 134 to 138).
FaultsNeedOverlap ==
  header = "listener.h" /\ ~overlap =>
    fault \in {"none", "assert"} /\ registered \cap freed = {}

\* A client that waits while the channel is registered is served, unless the owner
\* intervenes: neither accept's failures nor other clients take the event away, and the
\* descriptor is handed to the callback or closed.  Only without a callback it is left
\* open and forgotten (lines 145 to 174).
Served ==
  \A x \in Conns, c \in Chans :
    (conn[x] = "waiting" /\ chan = c /\ c \in registered \ freed) ~>
      \/ conn[x] \in {"handed", "closed"}
      \/ conn[x] = "leaked" /\ ~callback
      \/ chan # c \/ ~alive \/ fault # "none"

-------------------------------------------------------------------------------
(* What the code asserts, and what does not hold *)

\* assert(!attached_) in ~FdChannel (line 44).
DestroyedDetached == fault # "assert"
================================================================================
