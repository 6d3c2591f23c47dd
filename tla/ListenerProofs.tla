----------------------------- MODULE ListenerProofs -----------------------------
(***************************************************************************)
(* Theorems about Listener, for any set of connections and any number of   *)
(* calls of Accept.                                                        *)
(***************************************************************************)
EXTENDS Listener, FiniteSetTheorems, SequenceTheorems, TLAPS

Faults     == {"none", "assert", "attach", "event", "handler"}
Places     == {"idle", "attach", "accept", "hand"}
ConnStates == {"new", "waiting", "accepted", "handed", "closed", "leaked", "refused"}

\* The types of the fields, channels apart, which most steps leave alone.
FlagTypes ==
  /\ header \in {"listener.h", "jd_listener.h"}
  /\ asserts \in BOOLEAN /\ alive \in BOOLEAN /\ callback \in BOOLEAN /\ overlap \in BOOLEAN
  /\ sock \in {"none", "open", "stray", "listening", "closed", "reused"}
  /\ conn \in [Conns -> ConnStates]
  /\ fault \in Faults

ChannelTypes ==
  /\ chan \in 0 .. MaxAccepts
  /\ freed = {c \in Chans : c < chan \/ (c = chan /\ ~alive)}
  /\ attached \subseteq 1 .. chan /\ registered \subseteq 1 .. chan
  /\ queued \in Seq(1 .. chan)
  /\ loop \in [in : Places, c : 0 .. chan]
  /\ loop.in # "idle" => loop.c # 0

\* In "hand" one connection is between accept and its end, otherwise none is.
OneAccepted ==
  \/ loop.in = "hand" /\ \E x \in Conns : \A y \in Conns : conn[y] = "accepted" <=> y = x
  \/ loop.in # "hand" /\ \A y \in Conns : conn[y] # "accepted"

Types == FlagTypes /\ ChannelTypes /\ OneAccepted

LEMMA TypesImplyTypeOK == Types => TypeOK
<1> SUFFICES ASSUME Types PROVE TypeOK
  OBVIOUS
<1> DEFINE A == {x \in Conns : conn[x] = "accepted"}
<1>1. Cardinality(A) = (IF loop.in = "hand" THEN 1 ELSE 0)
  <2>1. CASE loop.in = "hand"
    <3>1. PICK x \in Conns : \A y \in Conns : conn[y] = "accepted" <=> y = x
      BY <2>1 DEF Types, OneAccepted
    <3>2. A = {x}
      BY <3>1
    <3>. QED
      BY <3>2, <2>1, FS_Singleton
  <2>2. CASE loop.in # "hand"
    <3>1. A = {}
      BY <2>2 DEF Types, OneAccepted
    <3>. QED
      BY <3>1, <2>2, FS_EmptySet
  <2>. QED
    BY <2>1, <2>2
<1>2. {asserts, alive, callback, overlap} \subseteq BOOLEAN
  BY DEF Types, FlagTypes
<1>3. attached \subseteq Chans /\ registered \subseteq Chans
  BY ConstantsAssumption DEF Types, ChannelTypes, Chans
<1>. QED
  BY <1>1, <1>2, <1>3 DEF Types, FlagTypes, ChannelTypes, TypeOK, Faults, Places, ConnStates

LEMMA InitTypes == Init => Types
<1> SUFFICES ASSUME Init PROVE Types
  OBVIOUS
<1>1. FlagTypes
  BY DEF Init, FlagTypes, Faults, ConnStates
<1>2. ChannelTypes
  BY ConstantsAssumption DEF Init, ChannelTypes, Places, Chans, Idle
<1>3. OneAccepted
  BY DEF Init, OneAccepted, Idle
<1>. QED
  BY <1>1, <1>2, <1>3 DEF Types

LEMMA NextFlagTypes == Types /\ [Next]_vars => FlagTypes'
<1> SUFFICES ASSUME Types, [Next]_vars PROVE FlagTypes'
  OBVIOUS
<1> USE DEF Types, FlagTypes, vars, build, owner, chans, Faults, ConnStates
<1>1. CASE Listen
  BY <1>1 DEF Listen, AfterListen
<1>2. CASE SetNewConnectionCallback
  BY <1>2 DEF SetNewConnectionCallback
<1>3. CASE Accept
  BY <1>3 DEF Accept, Deleted, FreeChan, FreeChannel
<1>4. CASE Destroy
  BY <1>4 DEF Destroy, Deleted, FreeChan, FreeChannel
<1>5. CASE ReuseNumber
  BY <1>5 DEF ReuseNumber
<1>6. ASSUME NEW x \in Conns, Connect(x) PROVE FlagTypes'
  BY <1>6 DEF Connect
<1>7. CASE AddEvent
  BY <1>7 DEF AddEvent
<1>8. CASE AddEventFreed
  BY <1>8 DEF AddEventFreed
<1>9. CASE SetAttached
  BY <1>9 DEF SetAttached
<1>10. ASSUME NEW c \in Chans, Fire(c) PROVE FlagTypes'
  BY <1>10 DEF Fire
<1>11. ASSUME NEW c \in Chans, FireFreed(c) PROVE FlagTypes'
  BY <1>11 DEF FireFreed
<1>12. CASE AcceptFails
  BY <1>12 DEF AcceptFails
<1>13. ASSUME NEW x \in Conns, TakeConn(x) PROVE FlagTypes'
  BY <1>13 DEF TakeConn
<1>14. CASE Reject
  BY <1>14 DEF Reject, Ends
<1>15. CASE HandOver
  BY <1>15 DEF HandOver, Ends
<1>16. CASE HandlerUnsafe
  BY <1>16 DEF HandlerUnsafe
<1>17. CASE AcceptHere
  BY <1>17 DEF AcceptHere, Deleted, FreeChan, FreeChannel
<1>18. CASE UNCHANGED vars
  BY <1>18
<1>. QED
  BY <1>1, <1>2, <1>3, <1>4, <1>5, <1>6, <1>7, <1>8, <1>9, <1>10, <1>11, <1>12, <1>13, <1>14,
     <1>15, <1>16, <1>17, <1>18 DEF Next, LoopStep

\* A shorter or longer queue, and its front.
LEMMA QueuedTypes ==
  ASSUME NEW m \in Nat, NEW q \in Seq(1 .. m)
  PROVE  /\ q # <<>> => Head(q) \in 1 .. m /\ Tail(q) \in Seq(1 .. m)
         /\ Append(q, m + 1) \in Seq(1 .. m + 1)
<1>1. q # <<>> => Head(q) \in 1 .. m /\ Tail(q) \in Seq(1 .. m)
  OBVIOUS
<1>2. 1 .. m \subseteq 1 .. m + 1 /\ m + 1 \in 1 .. m + 1
  OBVIOUS
<1>3. q \in Seq(1 .. m + 1)
  BY <1>2
<1>. QED
  BY <1>1, <1>2, <1>3

LEMMA AppendedElements ==
  ASSUME NEW m \in Nat, NEW q \in Seq(1 .. m)
  PROVE  \A i \in DOMAIN Append(q, m + 1) :
           Append(q, m + 1)[i] = m + 1 \/ (i \in DOMAIN q /\ Append(q, m + 1)[i] = q[i])
<1> DEFINE r == Append(q, m + 1)
<1>1. 1 .. m \subseteq Nat /\ m + 1 \in Nat
  OBVIOUS
<1>2. q \in Seq(Nat)
  BY <1>1
<1>3. /\ r \in Seq(Nat) /\ Len(r) = Len(q) + 1
      /\ \A i \in 1 .. Len(q) : r[i] = q[i]
      /\ r[Len(q) + 1] = m + 1
  BY <1>1, <1>2, AppendProperties
<1> HIDE DEF r
<1>4. Len(q) \in Nat /\ DOMAIN q = 1 .. Len(q) /\ DOMAIN r = 1 .. Len(q) + 1
  BY <1>2, <1>3
<1>5. \A i \in DOMAIN r : i \in DOMAIN q \/ i = Len(q) + 1
  BY <1>4
<1>6. ASSUME NEW i \in DOMAIN r PROVE r[i] = m + 1 \/ (i \in DOMAIN q /\ r[i] = q[i])
  <2>1. CASE i \in DOMAIN q
    BY <2>1, <1>3, <1>4
  <2>2. CASE i = Len(q) + 1
    BY <2>2, <1>3
  <2>. QED
    BY <2>1, <2>2, <1>5
<1>. QED
  BY <1>6 DEF r

LEMMA NextChannelTypes == Types /\ [Next]_vars => ChannelTypes'
<1> SUFFICES ASSUME Types, [Next]_vars PROVE ChannelTypes'
  OBVIOUS
<1> USE ConstantsAssumption DEF Types, ChannelTypes, vars, build, owner, chans, Places, Chans, Idle
<1>0. /\ queued # <<>> => Head(queued) \in 1 .. chan /\ Tail(queued) \in Seq(1 .. chan)
      /\ Append(queued, chan + 1) \in Seq(1 .. chan + 1)
  BY QueuedTypes
<1>1. CASE Listen
  BY <1>1 DEF Listen
<1>2. CASE SetNewConnectionCallback
  BY <1>2 DEF SetNewConnectionCallback
<1>3. CASE Accept
  <2>1. chan' = chan + 1 /\ chan' \in 0 .. MaxAccepts /\ 1 .. chan \subseteq 1 .. chan'
    BY <1>3 DEF Accept
  <2>2. queued' \in Seq(1 .. chan')
    BY <1>3, <1>0, <2>1 DEF Accept
  <2>3. freed' = {c \in Chans : c < chan' \/ (c = chan' /\ ~alive')}
    BY <1>3, <2>1 DEF Accept, Deleted, FreeChan, FreeChannel
  <2>4. registered' \subseteq 1 .. chan' /\ attached' \subseteq 1 .. chan'
    BY <1>3, <2>1 DEF Accept, Deleted, FreeChan, FreeChannel
  <2>5. loop' \in [in : Places, c : 0 .. chan'] /\ (loop'.in # "idle" => loop'.c # 0)
    BY <1>3, <2>1 DEF Accept
  <2>. QED
    BY <2>1, <2>2, <2>3, <2>4, <2>5
<1>4. CASE Destroy
  <2>1. freed' = {c \in Chans : c < chan' \/ (c = chan' /\ ~alive')}
    BY <1>4 DEF Destroy, Deleted, FreeChan, FreeChannel
  <2>. QED
    BY <1>4, <2>1 DEF Destroy, Deleted, FreeChan, FreeChannel
<1>5. CASE ReuseNumber
  BY <1>5 DEF ReuseNumber
<1>6. ASSUME NEW x \in Conns, Connect(x) PROVE ChannelTypes'
  BY <1>6 DEF Connect
<1>7. CASE AddEvent
  <2>1. Head(queued) \in 1 .. chan /\ queued' \in Seq(1 .. chan')
    BY <1>0, <1>7 DEF AddEvent
  <2>2. registered' \subseteq 1 .. chan'
    BY <1>7, <2>1 DEF AddEvent
  <2>3. loop' = [in |-> "attach", c |-> Head(queued)] \/ loop' = loop
    BY <1>7 DEF AddEvent
  <2>4. loop' \in [in : Places, c : 0 .. chan'] /\ (loop'.in # "idle" => loop'.c # 0)
    BY <1>7, <2>1, <2>3 DEF AddEvent
  <2>. QED
    BY <1>7, <2>1, <2>2, <2>4 DEF AddEvent
<1>8. CASE AddEventFreed
  BY <1>0, <1>8 DEF AddEventFreed
<1>9. CASE SetAttached
  <2>1. loop.c \in 1 .. chan
    BY <1>9 DEF SetAttached
  <2>2. loop'.in = "idle" /\ loop' \in [in : Places, c : 0 .. chan']
    BY <1>9 DEF SetAttached
  <2>. QED
    BY <1>9, <2>1, <2>2 DEF SetAttached
<1>10. ASSUME NEW c \in Chans, Fire(c) PROVE ChannelTypes'
  <2>1. loop' = [in |-> "accept", c |-> c] /\ c \in 1 .. chan
    BY <1>10 DEF Fire
  <2>. QED
    BY <1>10, <2>1 DEF Fire
<1>11. ASSUME NEW c \in Chans, FireFreed(c) PROVE ChannelTypes'
  BY <1>11 DEF FireFreed
<1>12. CASE AcceptFails
  BY <1>12 DEF AcceptFails
<1>13. ASSUME NEW x \in Conns, TakeConn(x) PROVE ChannelTypes'
  BY <1>13 DEF TakeConn
<1>14. CASE Reject
  BY <1>14 DEF Reject, Ends
<1>15. CASE HandOver
  BY <1>15 DEF HandOver, Ends
<1>16. CASE HandlerUnsafe
  BY <1>16 DEF HandlerUnsafe
<1>17. CASE AcceptHere
  <2>1. chan' = chan + 1 /\ chan' \in 0 .. MaxAccepts /\ 1 .. chan \subseteq 1 .. chan'
    BY <1>17 DEF AcceptHere
  <2>2. queued' = queued /\ loop' = loop /\ loop.in = "idle" /\ chan + 1 \in 1 .. chan'
    BY <1>17, <2>1 DEF AcceptHere
  <2>3. freed' = {c \in Chans : c < chan' \/ (c = chan' /\ ~alive')}
    BY <1>17, <2>1 DEF AcceptHere, FreeChan, FreeChannel
  <2>4. registered' \subseteq 1 .. chan' /\ attached' \subseteq 1 .. chan'
    BY <1>17, <2>1, <2>2 DEF AcceptHere, Deleted
  <2>5. queued' \in Seq(1 .. chan')
    BY <2>1, <2>2
  <2>. QED
    BY <2>1, <2>2, <2>3, <2>4, <2>5
<1>18. CASE UNCHANGED vars
  BY <1>18
<1>. QED
  BY <1>1, <1>2, <1>3, <1>4, <1>5, <1>6, <1>7, <1>8, <1>9, <1>10, <1>11, <1>12, <1>13, <1>14,
     <1>15, <1>16, <1>17, <1>18 DEF Next, LoopStep

LEMMA NextOneAccepted == Types /\ [Next]_vars => OneAccepted'
<1> SUFFICES ASSUME Types, [Next]_vars PROVE OneAccepted'
  OBVIOUS
<1> USE DEF Types, FlagTypes, OneAccepted, ChannelTypes, vars, build, owner, chans,
        ConnStates, Places, Idle
<1>1. CASE Listen
  BY <1>1 DEF Listen
<1>2. CASE SetNewConnectionCallback
  BY <1>2 DEF SetNewConnectionCallback
<1>3. CASE Accept
  BY <1>3 DEF Accept, Deleted, FreeChan, FreeChannel
<1>4. CASE Destroy
  BY <1>4 DEF Destroy, Deleted, FreeChan, FreeChannel
<1>5. CASE ReuseNumber
  BY <1>5 DEF ReuseNumber
<1>6. ASSUME NEW x \in Conns, Connect(x) PROVE OneAccepted'
  BY <1>6 DEF Connect
<1>7. CASE AddEvent
  BY <1>7 DEF AddEvent
<1>8. CASE AddEventFreed
  BY <1>8 DEF AddEventFreed
<1>9. CASE SetAttached
  BY <1>9 DEF SetAttached
<1>10. ASSUME NEW c \in Chans, Fire(c) PROVE OneAccepted'
  BY <1>10 DEF Fire
<1>11. ASSUME NEW c \in Chans, FireFreed(c) PROVE OneAccepted'
  BY <1>11 DEF FireFreed
<1>12. CASE AcceptFails
  BY <1>12 DEF AcceptFails
<1>13. ASSUME NEW x \in Conns, TakeConn(x) PROVE OneAccepted'
  BY <1>13 DEF TakeConn
<1>14. CASE Reject
  BY <1>14 DEF Reject, Ends
<1>15. CASE HandOver
  BY <1>15 DEF HandOver, Ends
<1>16. CASE HandlerUnsafe
  BY <1>16 DEF HandlerUnsafe
<1>17. CASE AcceptHere
  BY <1>17 DEF AcceptHere, Deleted, FreeChan, FreeChannel
<1>18. CASE UNCHANGED vars
  BY <1>18
<1>. QED
  BY <1>1, <1>2, <1>3, <1>4, <1>5, <1>6, <1>7, <1>8, <1>9, <1>10, <1>11, <1>12, <1>13, <1>14,
     <1>15, <1>16, <1>17, <1>18 DEF Next, LoopStep

\* TypeOK, for every set of connections and every bound: in particular at most one
\* connection is between accept and its end, and a channel is freed exactly when Accept
\* has replaced it or the Listener is gone.
THEOREM ListenerTypeCorrect == Spec => []TypeOK
<1>1. Types /\ [Next]_vars => Types'
  BY NextFlagTypes, NextChannelTypes, NextOneAccepted DEF Types
<1>. QED
  BY InitTypes, <1>1, TypesImplyTypeOK, PTL DEF Spec

-------------------------------------------------------------------------------
(* Freed channels *)

\* With listener.h, as long as no channel was freed that the loop had in hand: neither
\* the queue, nor libevent, nor the loop's thread has a freed channel, and an event that
\* is registered is one the destructor would delete, but while AttachToLoop is at it.
NothingDangles ==
  header = "listener.h" /\ ~overlap =>
    /\ fault \in {"none", "assert"}
    /\ registered \cap freed = {}
    /\ \A i \in DOMAIN queued : queued[i] \notin freed
    /\ loop.c \notin freed
    /\ \A c \in registered \ attached : loop.in = "attach" /\ loop.c = c

LEMMA InitNothingDangles == Init => NothingDangles
  BY ConstantsAssumption DEF Init, NothingDangles, Idle, Chans

\* Freeing chan_ leaves nothing behind, unless the loop has it in hand.
LEMMA FreeChanClean ==
  ASSUME Types, NothingDangles, FreeChan, header = "listener.h", ~overlap', fault = "none"
  PROVE  /\ ~overlap
         /\ fault' \in {"none", "assert"}
         /\ (registered \ Deleted) \cap freed' = {}
         /\ \A i \in DOMAIN queued : queued[i] \notin freed'
         /\ loop.c \notin freed'
<1>1. CASE chan = 0
  BY <1>1 DEF FreeChan, NothingDangles
<1>2. CASE chan # 0
  <2>1. ~overlap /\ ~InHand(chan)
    BY <1>2 DEF FreeChan, FreeChannel, Types, FlagTypes
  <2>2. loop.c # chan /\ \A i \in DOMAIN queued : queued[i] # chan
    BY <2>1 DEF InHand
  <2>3. chan \in registered => chan \in attached
    BY <2>1, <2>2 DEF NothingDangles
  <2>4. freed' = freed \cup {chan} /\ fault' \in {"none", "assert"}
    BY <1>2 DEF FreeChan, FreeChannel
  <2>5. chan \notin registered \ Deleted
    BY <2>3 DEF Deleted
  <2>. QED
    BY <2>1, <2>2, <2>4, <2>5 DEF NothingDangles
<1>. QED
  BY <1>1, <1>2

LEMMA NextNothingDangles == Types /\ NothingDangles /\ [Next]_vars => NothingDangles'
<1> SUFFICES ASSUME Types, NothingDangles, [Next]_vars, header = "listener.h", ~overlap'
             PROVE  /\ fault' \in {"none", "assert"}
                    /\ registered' \cap freed' = {}
                    /\ \A i \in DOMAIN queued' : queued'[i] \notin freed'
                    /\ loop'.c \notin freed'
                    /\ \A c \in registered' \ attached' : loop'.in = "attach" /\ loop'.c = c
  <2>1. [Next]_vars => header' = header
    BY DEF Next, LoopStep, vars, build, owner, chans, Listen, SetNewConnectionCallback, Accept,
       AcceptHere, Destroy, ReuseNumber, Connect, AddEvent, AddEventFreed, SetAttached, Fire,
       FireFreed, AcceptFails, TakeConn, Reject, HandOver, Ends, HandlerUnsafe
  <2>. QED
    BY <2>1 DEF NothingDangles
<1> DEFINE Goal == /\ fault' \in {"none", "assert"}
                   /\ registered' \cap freed' = {}
                   /\ \A i \in DOMAIN queued' : queued'[i] \notin freed'
                   /\ loop'.c \notin freed'
                   /\ \A c \in registered' \ attached' : loop'.in = "attach" /\ loop'.c = c
<1> USE DEF NothingDangles, vars, build, owner, chans, Idle
<1>a. chan \in Nat /\ loop \in [in : Places, c : 0 .. chan] /\ queued \in Seq(1 .. chan)
  BY DEF Types, ChannelTypes
<1>b. \A c \in freed : c <= chan /\ (c = chan => ~alive)
  <2>1. freed = {c \in Chans : c < chan \/ (c = chan /\ ~alive)} /\ Chans \subseteq Nat
    BY ConstantsAssumption DEF Types, ChannelTypes, Chans
  <2>. QED
    BY <2>1, <1>a
<1>0. 0 \notin freed
  BY ConstantsAssumption DEF Types, ChannelTypes, Chans
<1>1. CASE Listen
  BY <1>1 DEF Listen
<1>2. CASE SetNewConnectionCallback
  BY <1>2 DEF SetNewConnectionCallback
<1>3. CASE fault = "none" /\ Accept
  <2>1. /\ ~overlap
        /\ fault' \in {"none", "assert"}
        /\ (registered \ Deleted) \cap freed' = {}
        /\ \A i \in DOMAIN queued : queued[i] \notin freed'
        /\ loop.c \notin freed'
    BY <1>3, FreeChanClean DEF Accept
  <2>2. chan + 1 \notin freed'
    BY <1>3, <1>a, <1>b DEF Accept, Deleted, FreeChan, FreeChannel
  <2>3. \A i \in DOMAIN queued' : queued'[i] \notin freed'
    <3>1. queued' = Append(queued, chan + 1)
      BY <1>3 DEF Accept
    <3>2. \A i \in DOMAIN queued' :
            queued'[i] = chan + 1 \/ (i \in DOMAIN queued /\ queued'[i] = queued[i])
      BY <3>1, <1>a, AppendedElements
    <3>. QED
      BY <3>2, <2>1, <2>2
  <2>. QED
    BY <1>3, <2>1, <2>3 DEF Accept
<1>4. CASE fault = "none" /\ Destroy
  <2>1. /\ ~overlap
        /\ fault' \in {"none", "assert"}
        /\ (registered \ Deleted) \cap freed' = {}
        /\ \A i \in DOMAIN queued : queued[i] \notin freed'
        /\ loop.c \notin freed'
    BY <1>4, FreeChanClean DEF Destroy
  <2>. QED
    BY <1>4, <2>1 DEF Destroy
<1>5. CASE ReuseNumber
  BY <1>5 DEF ReuseNumber
<1>6. ASSUME NEW x \in Conns, Connect(x) PROVE Goal
  BY <1>6 DEF Connect
<1>7. CASE AddEvent
  <2>1. queued' = Tail(queued) /\ queued # <<>> /\ freed' = freed /\ attached' = attached
    BY <1>7 DEF AddEvent
  <2>2. \A i \in DOMAIN queued' : i + 1 \in DOMAIN queued /\ queued'[i] = queued[i + 1]
    BY <2>1, <1>a
  <2>3. Head(queued) \notin freed /\ registered \subseteq attached
    BY <1>7 DEF AddEvent
  <2>. QED
    BY <1>7, <2>1, <2>2, <2>3 DEF AddEvent
<1>8. CASE AddEventFreed
  <2>1. queued # <<>> /\ Head(queued) = queued[1] /\ 1 \in DOMAIN queued
    BY <1>8, <1>a DEF AddEventFreed
  <2>. QED
    BY <1>8, <2>1 DEF AddEventFreed
<1>9. CASE SetAttached
  BY <1>9, <1>0 DEF SetAttached
<1>10. ASSUME NEW c \in Chans, Fire(c) PROVE Goal
  <2>1. loop' = [in |-> "accept", c |-> c] /\ c \notin freed /\ registered \subseteq attached
    BY <1>10 DEF Fire
  <2>. QED
    BY <1>10, <2>1 DEF Fire
<1>11. ASSUME NEW c \in Chans, FireFreed(c) PROVE Goal
  BY <1>11 DEF FireFreed
<1>12. CASE AcceptFails
  BY <1>12, <1>0 DEF AcceptFails
<1>13. ASSUME NEW x \in Conns, TakeConn(x) PROVE Goal
  <2>1. loop'.c = loop.c /\ loop.in = "accept"
    BY <1>13, <1>a DEF TakeConn
  <2>. QED
    BY <1>13, <2>1 DEF TakeConn
<1>14. CASE Reject
  BY <1>14, <1>0 DEF Reject, Ends
<1>15. CASE HandOver
  BY <1>15, <1>0 DEF HandOver, Ends
<1>16. CASE HandlerUnsafe
  <2>1. loop.in # "idle" /\ ~alive /\ overlap' = overlap
    BY <1>16 DEF HandlerUnsafe
  <2>2. loop.c # 0 /\ loop.c <= chan /\ loop.c \in Chans
    BY <2>1, <1>a, ConstantsAssumption DEF Types, ChannelTypes, Chans
  <2>3. loop.c \in freed
    BY <2>1, <2>2, <1>a DEF Types, ChannelTypes
  <2>. QED
    BY <2>1, <2>3
<1>17. CASE fault = "none" /\ AcceptHere
  <2>1. /\ ~overlap
        /\ fault' \in {"none", "assert"}
        /\ (registered \ Deleted) \cap freed' = {}
        /\ \A i \in DOMAIN queued : queued[i] \notin freed'
        /\ loop.c \notin freed'
    BY <1>17, FreeChanClean DEF AcceptHere
  <2>2. chan + 1 \notin freed'
    BY <1>17, <1>a, <1>b DEF AcceptHere, FreeChan, FreeChannel
  <2>3. loop.in = "idle" /\ loop' = loop /\ queued' = queued
    BY <1>17 DEF AcceptHere
  <2>4. PICK new \in SUBSET {chan + 1} : /\ registered' = (registered \ Deleted) \cup new
                                        /\ attached' = attached \cup new
    BY <1>17 DEF AcceptHere
  <2>5. registered \subseteq attached
    BY <2>1, <2>3
  <2>. QED
    BY <2>1, <2>2, <2>3, <2>4, <2>5
<1>18. CASE UNCHANGED vars
  BY <1>18
<1>. QED
  BY <1>1, <1>2, <1>3, <1>4, <1>5, <1>6, <1>7, <1>8, <1>9, <1>10, <1>11, <1>12, <1>13, <1>14,
     <1>15, <1>16, <1>17, <1>18 DEF Next, LoopStep

\* FaultsNeedOverlap, for every set of connections and any number of Accepts: with
\* listener.h, a freed channel or Listener is met only after the owner has freed one that
\* the loop had queued or in hand.
THEOREM FaultsOnlyByOverlap == Spec => []FaultsNeedOverlap
<1>1. Types /\ [Next]_vars => Types'
  BY NextFlagTypes, NextChannelTypes, NextOneAccepted DEF Types
<1>2. NothingDangles => FaultsNeedOverlap
  BY DEF NothingDangles, FaultsNeedOverlap
<1>. QED
  BY InitTypes, <1>1, InitNothingDangles, NextNothingDangles, <1>2, PTL DEF Spec
================================================================================
