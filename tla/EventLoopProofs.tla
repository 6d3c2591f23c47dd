----------------------------- MODULE EventLoopProofs -----------------------------
(***************************************************************************)
(* Theorems about EventLoop, for any set of threads and any number of      *)
(* functors: the types; no functor is left in the queue with the loop      *)
(* asleep; every functor that waits is in the queue or in one batch, once; *)
(* the count; the order of execution; and what Stop lets finish.           *)
(***************************************************************************)
EXTENDS EventLoop, QueueLemmas, SequenceTheorems, FiniteSetTheorems, TLAPS

LoopPlaces == {"new", "starting", "poll", "take", "batch", "ended", "reset", "done"}
CallPlaces == {"idle", "push", "count", "test", "store", "notify"}

Flags ==
  /\ piped \in BOOLEAN /\ foreign \in BOOLEAN /\ notified \in BOOLEAN /\ watcher \in BOOLEAN
  /\ readable \in BOOLEAN /\ exiting \in BOOLEAN
  /\ crashed \in BOOLEAN
  /\ readable => piped
  /\ status \in {"initialized", "starting", "running", "stopping", "stopped"}
  /\ loop \in LoopPlaces
  /\ ~watcher => loop \in {"reset", "done"}

Queues ==
  /\ pending \in Seq(Items)
  /\ order \in Seq(Items)
  /\ count \in Int
  /\ at \in [Callers -> CallPlaces]
  /\ \A c \in Callers : at[c] = "push" => c \in Stoppers
  /\ done \subseteq Items

Frames == [batch : Seq(Items), phase : Phases]

\* Below the innermost batch there are only calls of StopInLoop that wait for one.
Nested(s) ==
  /\ s \in Seq(Frames)
  /\ \A i \in DOMAIN s :
       /\ s[i].phase # "begin" => s[i].batch # <<>>
       /\ i > 1 => s[i].phase \in {"drained1", "drained2"}

Stack == Nested(stack) /\ (loop = "batch" <=> stack # <<>>)

Types == Flags /\ Queues /\ Stack

LEMMA TypesImplyTypeOK == Types => TypeOK
<1> SUFFICES ASSUME Types PROVE TypeOK
  OBVIOUS
<1>1. {piped, foreign, notified, watcher, readable, exiting, crashed} \subseteq BOOLEAN
  BY DEF Types, Flags
<1>. QED
  BY <1>1 DEF Types, Flags, Queues, Stack, Nested, Frames, LoopPlaces, CallPlaces, TypeOK
-------------------------------------------------------------------------------
(* The stack of batches *)

\* The functor at the front of the innermost batch goes to another phase.
LEMMA FrontMoves ==
  ASSUME NEW s, Nested(s), s # <<>>, Head(s).batch # <<>>, NEW p \in Phases
  PROVE  /\ Nested([s EXCEPT ![1].phase = p])
         /\ [s EXCEPT ![1].phase = p] # <<>>
         /\ DOMAIN [s EXCEPT ![1].phase = p] = DOMAIN s
         /\ Head([s EXCEPT ![1].phase = p]).phase = p
<1> DEFINE t == [s EXCEPT ![1].phase = p]
<1>1. s \in Seq(Frames) /\ 1 \in DOMAIN s /\ Head(s) = s[1] /\ s[1] \in Frames
  BY DEF Nested
<1>2. t = [s EXCEPT ![1] = [s[1] EXCEPT !.phase = p]]
  OBVIOUS
<1>3. [s[1] EXCEPT !.phase = p] \in Frames
  BY <1>1 DEF Frames
<1>4. t \in Seq(Frames) /\ Len(t) = Len(s) /\ DOMAIN t = DOMAIN s
  BY <1>1, <1>2, <1>3, ExceptSeq
<1>5. t[1].phase = p /\ t[1].batch = s[1].batch
  BY <1>1, <1>2 DEF Frames
<1>6. \A i \in DOMAIN s : i # 1 => t[i] = s[i]
  BY <1>1, <1>2
<1>7. \A i \in DOMAIN t : /\ t[i].phase # "begin" => t[i].batch # <<>>
                          /\ i > 1 => t[i].phase \in {"drained1", "drained2"}
  BY <1>1, <1>4, <1>5, <1>6 DEF Nested
<1>8. t # <<>> /\ Head(t) = t[1]
  BY <1>1, <1>4
<1>. QED
  BY <1>4, <1>5, <1>7, <1>8 DEF Nested

\* A call is made on top of a stack whose front waits for it, or of an empty one.
LEMMA CallNests ==
  ASSUME NEW s, Nested(s), s # <<>> => Head(s).phase \in {"drained1", "drained2"},
         NEW b \in Seq(Items)
  PROVE  Nested(<<Callee(b)>> \o s) /\ <<Callee(b)>> \o s # <<>>
<1> DEFINE t == <<Callee(b)>> \o s
<1>1. Callee(b) \in Frames /\ Callee(b).phase = "begin"
  BY DEF Callee, Frames, Phases
<1>2. s \in Seq(Frames)
  BY DEF Nested
<1>3. t \in Seq(Frames) /\ Len(t) = Len(s) + 1
  BY <1>1, <1>2
<1>4. t[1] = Callee(b) /\ \A i \in DOMAIN t : i > 1 => i - 1 \in DOMAIN s /\ t[i] = s[i - 1]
  BY <1>1, <1>2
<1>5. ASSUME NEW i \in DOMAIN t
      PROVE  /\ t[i].phase # "begin" => t[i].batch # <<>>
             /\ i > 1 => t[i].phase \in {"drained1", "drained2"}
  <2>1. CASE i = 1
    BY <2>1, <1>1, <1>4
  <2>2. CASE i > 1
    <3>1. i - 1 \in DOMAIN s /\ t[i] = s[i - 1]
      BY <2>2, <1>4
    <3>2. i - 1 = 1 => s[i - 1] = Head(s) /\ s # <<>>
      BY <3>1, <1>2
    <3>3. i - 1 = 1 \/ i - 1 > 1
      BY <2>2, <1>3
    <3>. QED
      BY <3>1, <3>2, <3>3 DEF Nested
  <2>. QED
    BY <2>1, <2>2, <1>3
<1>6. t # <<>>
  BY <1>3, <1>2
<1>. QED
  BY <1>3, <1>5, <1>6 DEF Nested

\* What is left when the innermost batch goes.
LEMMA TailNests ==
  ASSUME NEW s, Nested(s), s # <<>>
  PROVE  /\ Nested(Tail(s))
         /\ Tail(s) # <<>> => Head(Tail(s)).phase \in {"drained1", "drained2"}
         /\ Tail(s) # <<>> <=> Len(s) > 1
<1>1. s \in Seq(Frames)
  BY DEF Nested
<1>2. /\ Tail(s) \in Seq(Frames) /\ Len(Tail(s)) = Len(s) - 1
      /\ \A i \in DOMAIN Tail(s) : i + 1 \in DOMAIN s /\ i + 1 > 1 /\ Tail(s)[i] = s[i + 1]
  BY <1>1
<1>3. Tail(s) # <<>> => 1 \in DOMAIN Tail(s) /\ Head(Tail(s)) = Tail(s)[1]
  BY <1>2
<1>4. \A i \in DOMAIN Tail(s) : /\ Tail(s)[i].phase \in {"drained1", "drained2"}
                                /\ Tail(s)[i].phase # "begin" => Tail(s)[i].batch # <<>>
  BY <1>2 DEF Nested
<1>. QED
  BY <1>1, <1>2, <1>3, <1>4 DEF Nested
-------------------------------------------------------------------------------
(* Types *)

LEMMA NextFlags == Types /\ [Next]_vars => Flags'
<1> SUFFICES ASSUME Types, [Next]_vars PROVE  Flags'
  OBVIOUS
<1> USE DEF Flags, Types, Stack, LoopPlaces, kind, flags, run
<1>1. CASE RunBegins /\ UNCHANGED kind
  BY <1>1 DEF RunBegins
<1>2. CASE Dispatch /\ UNCHANGED kind
  BY <1>2 DEF Dispatch, AfterAsyncWait
<1>3. CASE Receive /\ UNCHANGED kind
  BY <1>3 DEF Receive
<1>4. CASE ResetWatcher /\ UNCHANGED kind
  BY <1>4 DEF ResetWatcher
<1>5. CASE RunEnds /\ UNCHANGED kind
  BY <1>5 DEF RunEnds
<1>6. CASE TakeBatch /\ UNCHANGED kind
  BY <1>6 DEF TakeBatch, AtTake, InPhase
<1>7. CASE Begin /\ UNCHANGED kind
  BY <1>7 DEF Begin
<1>8. CASE EndFunctor /\ UNCHANGED kind
  BY <1>8 DEF EndFunctor, Returns, InPhase
<1>9. CASE DrainAgain /\ UNCHANGED kind
  BY <1>9 DEF DrainAgain
<1>10. CASE LoopExit /\ UNCHANGED kind
  BY <1>10 DEF LoopExit
<1>11. CASE EndStop /\ UNCHANGED kind
  BY <1>11 DEF EndStop, Returns, InPhase
<1>12. CASE EndBatch /\ UNCHANGED kind
  BY <1>12 DEF EndBatch, InPhase
<1>13. ASSUME NEW c \in Callers, PushStop(c), UNCHANGED kind PROVE Flags'
  BY <1>13 DEF PushStop, Push
<1>14. ASSUME NEW c \in Callers, Count(c), UNCHANGED kind PROVE Flags'
  BY <1>14 DEF Count
<1>15. ASSUME NEW c \in Callers, Test(c), UNCHANGED kind PROVE Flags'
  BY <1>15 DEF Test
<1>16. ASSUME NEW c \in Callers, Store(c), UNCHANGED kind PROVE Flags'
  BY <1>16 DEF Store
<1>17. ASSUME NEW c \in Callers, Notify(c), UNCHANGED kind PROVE Flags'
  BY <1>17 DEF Notify
<1>18. ASSUME NEW c \in Callers, NotifyDestroyed(c), UNCHANGED kind PROVE Flags'
  BY <1>18 DEF NotifyDestroyed
<1>19. ASSUME NEW c \in Callers, NEW f \in Functors, Queue(c, f), UNCHANGED kind
       PROVE  Flags'
  BY <1>19 DEF Queue, Push, MayCall
<1>20. ASSUME NEW f \in Functors, RunHere(f), UNCHANGED kind PROVE Flags'
  BY <1>20 DEF RunHere
<1>21. ASSUME NEW c \in Stoppers, CallStop(c), UNCHANGED kind PROVE Flags'
  BY <1>21 DEF CallStop, MayCall
<1>22. CASE UNCHANGED vars
  BY <1>22 DEF vars
<1>. QED
  BY <1>1, <1>2, <1>3, <1>4, <1>5, <1>6, <1>7, <1>8, <1>9, <1>10, <1>11, <1>12,
     <1>13, <1>14, <1>15, <1>16, <1>17, <1>18, <1>19, <1>20, <1>21, <1>22
  DEF Next, LoopStep, QueueStep, Call

LEMMA ItemsAndCallers ==
  Functors \subseteq Items /\ Stoppers \subseteq Items /\ Stoppers \subseteq Callers
  BY CallersAssumption DEF Items

\* The innermost batch, and the functor at its front.
LEMMA FrontIs ==
  ASSUME NEW s, Nested(s), s # <<>>
  PROVE  /\ Head(s) \in Frames /\ Head(s).batch \in Seq(Items)
         /\ Head(s).phase # "begin" => Head(s).batch # <<>>
         /\ Head(s).batch # <<>> =>
              /\ Head(Head(s).batch) \in Items /\ Tail(Head(s).batch) \in Seq(Items)
<1>1. s \in Seq(Frames) /\ Head(s) = s[1] /\ 1 \in DOMAIN s
  BY DEF Nested
<1>2. Head(s) \in Frames /\ Head(s).batch \in Seq(Items)
  <2>1. Head(s) \in Frames
    BY <1>1
  <2>. QED
    BY <2>1 DEF Frames
<1>3. Head(s).phase # "begin" => Head(s).batch # <<>>
  BY <1>1 DEF Nested
<1>4. ASSUME NEW b \in Seq(Items), b # <<>> PROVE Head(b) \in Items /\ Tail(b) \in Seq(Items)
  BY <1>4
<1>. QED
  BY <1>2, <1>3, <1>4

LEMMA NextQueues == Types /\ [Next]_vars => Queues'
<1> SUFFICES ASSUME Types, [Next]_vars PROVE  Queues'
  OBVIOUS
<1> USE ItemsAndCallers DEF Queues, Types, CallPlaces, flags, run
<1>1. CASE RunBegins /\ UNCHANGED kind
  BY <1>1 DEF RunBegins
<1>2. CASE Dispatch /\ UNCHANGED kind
  BY <1>2 DEF Dispatch
<1>3. CASE Receive /\ UNCHANGED kind
  BY <1>3 DEF Receive
<1>4. CASE ResetWatcher /\ UNCHANGED kind
  BY <1>4 DEF ResetWatcher
<1>5. CASE RunEnds /\ UNCHANGED kind
  BY <1>5 DEF RunEnds
<1>6. CASE TakeBatch /\ UNCHANGED kind
  BY <1>6 DEF TakeBatch
<1>7. CASE Begin /\ UNCHANGED kind
  BY <1>7 DEF Begin
<1>8. CASE EndFunctor /\ UNCHANGED kind
  <2>1. Head(Head(stack).batch) \in Items
    BY <1>8, FrontIs DEF EndFunctor, InPhase, Returns, Types, Stack
  <2>. QED
    BY <1>8, <2>1 DEF EndFunctor, Returns
<1>9. CASE DrainAgain /\ UNCHANGED kind
  BY <1>9 DEF DrainAgain
<1>10. CASE LoopExit /\ UNCHANGED kind
  BY <1>10 DEF LoopExit
<1>11. CASE EndStop /\ UNCHANGED kind
  <2>1. Head(Head(stack).batch) \in Items
    BY <1>11, FrontIs DEF EndStop, InPhase, Returns, Types, Stack
  <2>. QED
    BY <1>11, <2>1 DEF EndStop, Returns
<1>12. CASE EndBatch /\ UNCHANGED kind
  BY <1>12 DEF EndBatch
<1>13. ASSUME NEW c \in Callers, PushStop(c), UNCHANGED kind PROVE Queues'
  BY <1>13 DEF PushStop, Push
<1>14. ASSUME NEW c \in Callers, Count(c), UNCHANGED kind PROVE Queues'
  BY <1>14 DEF Count
<1>15. ASSUME NEW c \in Callers, Test(c), UNCHANGED kind PROVE Queues'
  BY <1>15 DEF Test
<1>16. ASSUME NEW c \in Callers, Store(c), UNCHANGED kind PROVE Queues'
  BY <1>16 DEF Store
<1>17. ASSUME NEW c \in Callers, Notify(c), UNCHANGED kind PROVE Queues'
  BY <1>17 DEF Notify
<1>18. ASSUME NEW c \in Callers, NotifyDestroyed(c), UNCHANGED kind PROVE Queues'
  BY <1>18 DEF NotifyDestroyed
<1>19. ASSUME NEW c \in Callers, NEW f \in Functors, Queue(c, f), UNCHANGED kind
       PROVE  Queues'
  BY <1>19 DEF Queue, Push, MayCall
<1>20. ASSUME NEW f \in Functors, RunHere(f), UNCHANGED kind PROVE Queues'
  BY <1>20 DEF RunHere
<1>21. ASSUME NEW c \in Stoppers, CallStop(c), UNCHANGED kind PROVE Queues'
  BY <1>21 DEF CallStop, MayCall
<1>22. CASE UNCHANGED vars
  BY <1>22 DEF vars
<1>. QED
  BY <1>1, <1>2, <1>3, <1>4, <1>5, <1>6, <1>7, <1>8, <1>9, <1>10, <1>11, <1>12,
     <1>13, <1>14, <1>15, <1>16, <1>17, <1>18, <1>19, <1>20, <1>21, <1>22
  DEF Next, LoopStep, QueueStep, Call

LEMMA NextStack == Types /\ [Next]_vars => Stack'
<1> SUFFICES ASSUME Types, [Next]_vars PROVE  Stack'
  OBVIOUS
<1> USE DEF Types, Stack, run
<1>1. CASE RunBegins /\ UNCHANGED kind
  <2>1. stack' = stack /\ loop' # "batch" /\ loop # "batch"
    BY <1>1 DEF RunBegins
  <2>. QED
    BY <2>1
<1>2. CASE Dispatch /\ UNCHANGED kind
  <2>1. stack' = stack /\ loop' # "batch" /\ loop # "batch"
    BY <1>2 DEF Dispatch, AfterAsyncWait
  <2>. QED
    BY <2>1
<1>3. CASE Receive /\ UNCHANGED kind
  <2>1. stack' = stack /\ loop' # "batch" /\ loop # "batch"
    BY <1>3 DEF Receive
  <2>. QED
    BY <2>1
<1>4. CASE ResetWatcher /\ UNCHANGED kind
  <2>1. stack' = stack /\ loop' # "batch" /\ loop # "batch"
    BY <1>4 DEF ResetWatcher
  <2>. QED
    BY <2>1
<1>5. CASE RunEnds /\ UNCHANGED kind
  <2>1. stack' = stack /\ loop' # "batch" /\ loop # "batch"
    BY <1>5 DEF RunEnds
  <2>. QED
    BY <2>1
<1>6. CASE TakeBatch /\ UNCHANGED kind
  <2>1. /\ loop' = "batch" /\ pending \in Seq(Items)
        /\ stack' = <<Callee(pending)>> \o StackAtTake
    BY <1>6 DEF TakeBatch, Queues
  <2>2. /\ Nested(StackAtTake)
        /\ StackAtTake # <<>> => Head(StackAtTake).phase \in {"drained1", "drained2"}
    <3>1. CASE loop = "take"
      BY <3>1 DEF StackAtTake, Nested
    <3>2. CASE loop # "take"
      <4>1. loop = "batch" /\ stack # <<>> /\ Head(stack).phase # "begin"
        BY <1>6, <3>2 DEF TakeBatch, AtTake, InPhase
      <4>2. Head(stack).batch # <<>>
        BY <4>1, FrontIs
      <4>3. PICK p \in {"drained1", "drained2"} : StackAtTake = [stack EXCEPT ![1].phase = p]
        BY <3>2 DEF StackAtTake, Becomes
      <4>4. p \in Phases
        BY DEF Phases
      <4>. QED
        BY <4>1, <4>2, <4>3, <4>4, FrontMoves
    <3>. QED
      BY <3>1, <3>2
  <2>. QED
    BY <2>1, <2>2, CallNests
<1>7. CASE Begin /\ UNCHANGED kind
  <2>1. /\ loop = "batch" /\ loop' = loop /\ stack # <<>> /\ Head(stack).batch # <<>>
        /\ \E p \in Phases : stack' = [stack EXCEPT ![1].phase = p]
    BY <1>7, FrontIs DEF Begin, InPhase, Becomes, Phases
  <2>2. PICK p \in Phases : stack' = [stack EXCEPT ![1].phase = p]
    BY <2>1
  <2>. QED
    BY <2>1, <2>2, FrontMoves
<1>8. CASE EndFunctor /\ UNCHANGED kind
  <2>1. /\ loop = "batch" /\ loop' = loop /\ stack # <<>>
        /\ stack' = <<Callee(Tail(Head(stack).batch))>> \o Tail(stack)
        /\ Tail(Head(stack).batch) \in Seq(Items)
    BY <1>8, FrontIs DEF EndFunctor, Returns, InPhase
  <2>2. /\ Nested(Tail(stack))
        /\ Tail(stack) # <<>> => Head(Tail(stack)).phase \in {"drained1", "drained2"}
    BY <2>1, TailNests
  <2>. QED
    BY <2>1, <2>2, CallNests
<1>9. CASE DrainAgain /\ UNCHANGED kind
  <2>1. /\ loop = "batch" /\ loop' = loop /\ stack # <<>> /\ Head(stack).batch # <<>>
        /\ \E p \in Phases : stack' = [stack EXCEPT ![1].phase = p]
    BY <1>9, FrontIs DEF DrainAgain, InPhase, Becomes, Phases
  <2>2. PICK p \in Phases : stack' = [stack EXCEPT ![1].phase = p]
    BY <2>1
  <2>. QED
    BY <2>1, <2>2, FrontMoves
<1>10. CASE LoopExit /\ UNCHANGED kind
  <2>1. /\ loop = "batch" /\ loop' = loop /\ stack # <<>> /\ Head(stack).batch # <<>>
        /\ \E p \in Phases : stack' = [stack EXCEPT ![1].phase = p]
    BY <1>10, FrontIs DEF LoopExit, InPhase, Becomes, Phases
  <2>2. PICK p \in Phases : stack' = [stack EXCEPT ![1].phase = p]
    BY <2>1
  <2>. QED
    BY <2>1, <2>2, FrontMoves
<1>11. CASE EndStop /\ UNCHANGED kind
  <2>1. /\ loop = "batch" /\ loop' = loop /\ stack # <<>>
        /\ stack' = <<Callee(Tail(Head(stack).batch))>> \o Tail(stack)
        /\ Tail(Head(stack).batch) \in Seq(Items)
    BY <1>11, FrontIs DEF EndStop, Returns, InPhase
  <2>2. /\ Nested(Tail(stack))
        /\ Tail(stack) # <<>> => Head(Tail(stack)).phase \in {"drained1", "drained2"}
    BY <2>1, TailNests
  <2>. QED
    BY <2>1, <2>2, CallNests
<1>12. CASE EndBatch /\ UNCHANGED kind
  <2>1. /\ stack # <<>> /\ stack' = Tail(stack)
        /\ Len(stack) > 1 <=> loop' = "batch"
    BY <1>12 DEF EndBatch, InPhase
  <2>. QED
    BY <2>1, TailNests
<1>13. ASSUME NEW c \in Callers, PushStop(c), UNCHANGED kind PROVE Stack'
  BY <1>13 DEF PushStop, Push
<1>14. ASSUME NEW c \in Callers, Count(c), UNCHANGED kind PROVE Stack'
  BY <1>14 DEF Count
<1>15. ASSUME NEW c \in Callers, Test(c), UNCHANGED kind PROVE Stack'
  BY <1>15 DEF Test
<1>16. ASSUME NEW c \in Callers, Store(c), UNCHANGED kind PROVE Stack'
  BY <1>16 DEF Store
<1>17. ASSUME NEW c \in Callers, Notify(c), UNCHANGED kind PROVE Stack'
  BY <1>17 DEF Notify
<1>18. ASSUME NEW c \in Callers, NotifyDestroyed(c), UNCHANGED kind PROVE Stack'
  BY <1>18 DEF NotifyDestroyed
<1>19. ASSUME NEW c \in Callers, NEW f \in Functors, Queue(c, f), UNCHANGED kind
       PROVE  Stack'
  BY <1>19 DEF Queue, Push, MayCall
<1>20. ASSUME NEW f \in Functors, RunHere(f), UNCHANGED kind PROVE Stack'
  BY <1>20 DEF RunHere
<1>21. ASSUME NEW c \in Stoppers, CallStop(c), UNCHANGED kind PROVE Stack'
  BY <1>21 DEF CallStop, MayCall
<1>22. CASE UNCHANGED vars
  BY <1>22 DEF vars
<1>. QED
  BY <1>1, <1>2, <1>3, <1>4, <1>5, <1>6, <1>7, <1>8, <1>9, <1>10, <1>11, <1>12,
     <1>13, <1>14, <1>15, <1>16, <1>17, <1>18, <1>19, <1>20, <1>21, <1>22
  DEF Next, LoopStep, QueueStep, Call

LEMMA InitTypes == Init => Types
<1> SUFFICES ASSUME Init PROVE Types
  OBVIOUS
<1>1. Flags
  BY DEF Init, InitNotifyPipeWatcher, Flags, LoopPlaces
<1>2. Queues
  BY DEF Init, Queues, CallPlaces
<1>3. Stack
  BY DEF Init, Stack, Nested
<1>. QED
  BY <1>1, <1>2, <1>3 DEF Types

LEMMA NextTypes == Types /\ [Next]_vars => Types'
  BY NextFlags, NextQueues, NextStack DEF Types

\* TypeOK, for every set of threads and functors.
THEOREM EventLoopTypeCorrect == Spec => []TypeOK
  BY InitTypes, NextTypes, TypesImplyTypeOK, PTL DEF Spec
-------------------------------------------------------------------------------
(* The flag and the sleeping loop *)

LEMMA NextFlag == Types /\ FlagMeansNotification /\ [Next]_vars => FlagMeansNotification'
<1> SUFFICES ASSUME Types, FlagMeansNotification, [Next]_vars PROVE  FlagMeansNotification'
  OBVIOUS
<1> USE ItemsAndCallers DEF Types, Flags, Queues, CallPlaces, Stack, kind, flags, run,
       FlagMeansNotification, Ended, Standing, LoopPlaces
<1>1. CASE RunBegins /\ UNCHANGED kind
  BY <1>1 DEF RunBegins
<1>2. CASE Dispatch /\ UNCHANGED kind
  BY <1>2 DEF Dispatch, AfterAsyncWait
<1>3. CASE Receive /\ UNCHANGED kind
  BY <1>3 DEF Receive
<1>4. CASE ResetWatcher /\ UNCHANGED kind
  BY <1>4 DEF ResetWatcher
<1>5. CASE RunEnds /\ UNCHANGED kind
  BY <1>5 DEF RunEnds
<1>6. CASE TakeBatch /\ UNCHANGED kind
  BY <1>6 DEF TakeBatch, AtTake, InPhase
<1>7. CASE Begin /\ UNCHANGED kind
  BY <1>7 DEF Begin
<1>8. CASE EndFunctor /\ UNCHANGED kind
  BY <1>8 DEF EndFunctor, Returns, InPhase
<1>9. CASE DrainAgain /\ UNCHANGED kind
  BY <1>9 DEF DrainAgain
<1>10. CASE LoopExit /\ UNCHANGED kind
  BY <1>10 DEF LoopExit
<1>11. CASE EndStop /\ UNCHANGED kind
  BY <1>11 DEF EndStop, Returns, InPhase
<1>12. CASE EndBatch /\ UNCHANGED kind
  BY <1>12 DEF EndBatch, InPhase
<1>13. ASSUME NEW c \in Callers, PushStop(c), UNCHANGED kind PROVE FlagMeansNotification'
  BY <1>13 DEF PushStop, Push
<1>14. ASSUME NEW c \in Callers, Count(c), UNCHANGED kind PROVE FlagMeansNotification'
  BY <1>14 DEF Count
<1>15. ASSUME NEW c \in Callers, Test(c), UNCHANGED kind PROVE FlagMeansNotification'
  BY <1>15 DEF Test
<1>16. ASSUME NEW c \in Callers, Store(c), UNCHANGED kind PROVE FlagMeansNotification'
  <2>1. c \in Standing("notify")'
    BY <1>16 DEF Store
  <2>. QED
    BY <2>1
<1>17. ASSUME NEW c \in Callers, Notify(c), UNCHANGED kind PROVE FlagMeansNotification'
  BY <1>17 DEF Notify
<1>18. ASSUME NEW c \in Callers, NotifyDestroyed(c), UNCHANGED kind PROVE FlagMeansNotification'
  BY <1>18 DEF NotifyDestroyed
<1>19. ASSUME NEW c \in Callers, NEW f \in Functors, Queue(c, f), UNCHANGED kind
       PROVE  FlagMeansNotification'
  BY <1>19 DEF Queue, Push, MayCall
<1>20. ASSUME NEW f \in Functors, RunHere(f), UNCHANGED kind PROVE FlagMeansNotification'
  BY <1>20 DEF RunHere
<1>21. ASSUME NEW c \in Stoppers, CallStop(c), UNCHANGED kind PROVE FlagMeansNotification'
  BY <1>21 DEF CallStop, MayCall
<1>22. CASE UNCHANGED vars
  BY <1>22 DEF vars
<1>. QED
  BY <1>1, <1>2, <1>3, <1>4, <1>5, <1>6, <1>7, <1>8, <1>9, <1>10, <1>11, <1>12,
     <1>13, <1>14, <1>15, <1>16, <1>17, <1>18, <1>19, <1>20, <1>21, <1>22
  DEF Next, LoopStep, QueueStep, Call

LEMMA NextNobody ==
  Types /\ FlagMeansNotification /\ NobodyForgotten /\ [Next]_vars => NobodyForgotten'
<1> SUFFICES ASSUME Types, FlagMeansNotification, NobodyForgotten, [Next]_vars
             PROVE  NobodyForgotten'
  OBVIOUS
<1> USE ItemsAndCallers DEF Types, Flags, Queues, CallPlaces, Stack, kind, flags, run,
       FlagMeansNotification, Ended, Standing, LoopPlaces, NobodyForgotten, AtTake, InPhase
<1>1. CASE RunBegins /\ UNCHANGED kind
  BY <1>1 DEF RunBegins
<1>2. CASE Dispatch /\ UNCHANGED kind
  BY <1>2 DEF Dispatch, AfterAsyncWait
<1>3. CASE Receive /\ UNCHANGED kind
  BY <1>3 DEF Receive
<1>4. CASE ResetWatcher /\ UNCHANGED kind
  BY <1>4 DEF ResetWatcher
<1>5. CASE RunEnds /\ UNCHANGED kind
  BY <1>5 DEF RunEnds
<1>6. CASE TakeBatch /\ UNCHANGED kind
  BY <1>6 DEF TakeBatch
<1>7. CASE Begin /\ UNCHANGED kind
  BY <1>7 DEF Begin
<1>8. CASE EndFunctor /\ UNCHANGED kind
  BY <1>8 DEF EndFunctor, Returns
<1>9. CASE DrainAgain /\ UNCHANGED kind
  <2>1. /\ stack # <<>> /\ Head(stack).batch # <<>> /\ loop' = "batch"
        /\ \E p \in {"drain1", "drain2"} : stack' = [stack EXCEPT ![1].phase = p]
    BY <1>9, FrontIs DEF DrainAgain, Becomes
  <2>2. PICK p \in {"drain1", "drain2"} : stack' = [stack EXCEPT ![1].phase = p]
    BY <2>1
  <2>3. p \in Phases
    BY DEF Phases
  <2>4. Head(stack').phase = p
    BY <2>1, <2>2, <2>3, FrontMoves
  <2>. QED
    BY <2>1, <2>4
<1>10. CASE LoopExit /\ UNCHANGED kind
  BY <1>10 DEF LoopExit
<1>11. CASE EndStop /\ UNCHANGED kind
  BY <1>11 DEF EndStop, Returns
<1>12. CASE EndBatch /\ UNCHANGED kind
  BY <1>12 DEF EndBatch
<1>13. ASSUME NEW c \in Callers, PushStop(c), UNCHANGED kind PROVE NobodyForgotten'
  <2>1. c \in Standing("count")'
    BY <1>13 DEF PushStop, Push
  <2>. QED
    BY <2>1
<1>14. ASSUME NEW c \in Callers, Count(c), UNCHANGED kind PROVE NobodyForgotten'
  BY <1>14 DEF Count
<1>15. ASSUME NEW c \in Callers, Test(c), UNCHANGED kind PROVE NobodyForgotten'
  BY <1>15 DEF Test
<1>16. ASSUME NEW c \in Callers, Store(c), UNCHANGED kind PROVE NobodyForgotten'
  BY <1>16 DEF Store
<1>17. ASSUME NEW c \in Callers, Notify(c), UNCHANGED kind PROVE NobodyForgotten'
  BY <1>17 DEF Notify
<1>18. ASSUME NEW c \in Callers, NotifyDestroyed(c), UNCHANGED kind PROVE NobodyForgotten'
  BY <1>18 DEF NotifyDestroyed
<1>19. ASSUME NEW c \in Callers, NEW f \in Functors, Queue(c, f), UNCHANGED kind
       PROVE  NobodyForgotten'
  <2>1. c \in Standing("count")'
    BY <1>19 DEF Queue, Push
  <2>. QED
    BY <2>1
<1>20. ASSUME NEW f \in Functors, RunHere(f), UNCHANGED kind PROVE NobodyForgotten'
  BY <1>20 DEF RunHere
<1>21. ASSUME NEW c \in Stoppers, CallStop(c), UNCHANGED kind PROVE NobodyForgotten'
  BY <1>21 DEF CallStop, MayCall
<1>22. CASE UNCHANGED vars
  BY <1>22 DEF vars
<1>. QED
  BY <1>1, <1>2, <1>3, <1>4, <1>5, <1>6, <1>7, <1>8, <1>9, <1>10, <1>11, <1>12,
     <1>13, <1>14, <1>15, <1>16, <1>17, <1>18, <1>19, <1>20, <1>21, <1>22
  DEF Next, LoopStep, QueueStep, Call

\* FlagMeansNotification, for every set of threads and functors.
THEOREM FlagIsAPromise == Spec => []FlagMeansNotification
<1>1. Init => FlagMeansNotification
  BY DEF Init, FlagMeansNotification
<1>. QED
  BY InitTypes, NextTypes, <1>1, NextFlag, PTL DEF Spec

\* NobodyForgotten, for every set of threads and functors: between the push of a functor
\* and the sleep of the loop there is always somebody who will wake it.
THEOREM NobodyIsForgotten == Spec => []NobodyForgotten
<1>1. Init => FlagMeansNotification /\ NobodyForgotten
  BY DEF Init, FlagMeansNotification, NobodyForgotten
<1>. QED
  BY InitTypes, NextTypes, <1>1, NextFlag, NextNobody, PTL DEF Spec
-------------------------------------------------------------------------------
(* The batches that the stack holds *)

\* The batches of the nested calls of DoPendingFunctors, the innermost first.
Batches(s) == [i \in 1 .. Len(s) |-> s[i].batch]

LEMMA BatchesOf ==
  ASSUME NEW s, Nested(s)
  PROVE  /\ Batches(s) \in [1 .. Len(s) -> Seq(Items)]
         /\ s \in Seq(Frames) /\ Len(s) \in Nat /\ DOMAIN s = 1 .. Len(s)
         /\ s # <<>> => 1 \in 1 .. Len(s) /\ Batches(s)[1] = Head(s).batch
<1>1. s \in Seq(Frames) /\ Len(s) \in Nat /\ DOMAIN s = 1 .. Len(s)
  BY DEF Nested
<1>2. \A i \in 1 .. Len(s) : s[i].batch \in Seq(Items)
  <2>1. \A i \in 1 .. Len(s) : s[i] \in Frames
    BY <1>1
  <2>. QED
    BY <2>1 DEF Frames
<1>3. s # <<>> => 1 \in 1 .. Len(s) /\ s[1] = Head(s)
  BY <1>1
<1>. QED
  BY <1>1, <1>2, <1>3 DEF Batches

LEMMA BatchesStay ==
  ASSUME NEW s, Nested(s), s # <<>>, Head(s).batch # <<>>, NEW p \in Phases
  PROVE  Batches([s EXCEPT ![1].phase = p]) = Batches(s)
<1> DEFINE t == [s EXCEPT ![1].phase = p]
<1>1. s \in Seq(Frames) /\ 1 \in DOMAIN s /\ s[1] \in Frames
  BY DEF Nested
<1>2. Nested(t) /\ DOMAIN t = DOMAIN s
  BY FrontMoves
<1>3. \A i \in DOMAIN s : t[i].batch = s[i].batch
  BY <1>1 DEF Frames
<1>4. Len(t) = Len(s)
  BY <1>1, <1>2, BatchesOf
<1>. HIDE DEF t
<1>5. \A i \in 1 .. Len(s) : t[i].batch = s[i].batch
  BY <1>1, <1>3
<1>6. Batches(t) = Batches(s)
  BY <1>4, <1>5 DEF Batches
<1>. QED
  BY <1>6 DEF t

LEMMA CallBatches ==
  ASSUME NEW s, Nested(s), NEW b
  PROVE  /\ DOMAIN Batches(<<Callee(b)>> \o s) = 1 .. Len(s) + 1
         /\ Batches(<<Callee(b)>> \o s)[1] = b
         /\ \A i \in 1 .. Len(s) : Batches(<<Callee(b)>> \o s)[i + 1] = Batches(s)[i]
<1> DEFINE t == <<Callee(b)>> \o s
<1>1. s \in Seq(Frames) /\ Len(s) \in Nat
  BY DEF Nested
<1>2. Len(t) = Len(s) + 1 /\ t[1] = Callee(b) /\ \A i \in 1 .. Len(s) : t[i + 1] = s[i]
  BY <1>1
<1>3. Callee(b).batch = b
  BY DEF Callee
<1>. HIDE DEF t
<1>4. /\ DOMAIN Batches(t) = 1 .. Len(s) + 1
      /\ Batches(t)[1] = b
      /\ \A i \in 1 .. Len(s) : Batches(t)[i + 1] = Batches(s)[i]
  BY <1>1, <1>2, <1>3 DEF Batches
<1>. QED
  BY <1>4 DEF t

LEMMA TailBatches ==
  ASSUME NEW s, Nested(s), s # <<>>
  PROVE  /\ DOMAIN Batches(Tail(s)) = 1 .. Len(s) - 1
         /\ \A i \in 1 .. Len(s) - 1 : Batches(Tail(s))[i] = Batches(s)[i + 1]
<1>1. s \in Seq(Frames) /\ Len(s) \in Nat
  BY DEF Nested
<1>2. Len(Tail(s)) = Len(s) - 1 /\ \A i \in 1 .. Len(s) - 1 : Tail(s)[i] = s[i + 1]
  BY <1>1
<1>. QED
  BY <1>1, <1>2 DEF Batches

LEMMA ReturnBatches ==
  ASSUME NEW s, Nested(s), s # <<>>, NEW b
  PROVE  Batches(<<Callee(b)>> \o Tail(s)) = Put(Batches(s), 1, b)
<1>1. s \in Seq(Frames) /\ Len(s) \in Nat \ {0}
  BY DEF Nested
<1>2. Nested(Tail(s)) /\ Len(Tail(s)) = Len(s) - 1
  BY <1>1, TailNests
<1>3. \A i \in 1 .. Len(s) - 1 : Batches(Tail(s))[i] = Batches(s)[i + 1]
  BY TailBatches
<1>4. ASSUME NEW r, Nested(r), Len(r) = Len(s) - 1,
             \A i \in 1 .. Len(s) - 1 : Batches(r)[i] = Batches(s)[i + 1]
      PROVE  Batches(<<Callee(b)>> \o r) = Put(Batches(s), 1, b)
  <2> DEFINE B == Batches(<<Callee(b)>> \o r)
  <2>1. /\ DOMAIN B = 1 .. Len(r) + 1 /\ B[1] = b
        /\ \A i \in 1 .. Len(r) : B[i + 1] = Batches(r)[i]
    BY <1>4, CallBatches
  <2>2. B = [i \in DOMAIN B |-> B[i]] /\ Batches(s) = [i \in 1 .. Len(s) |-> Batches(s)[i]]
    BY DEF Batches
  <2>. HIDE DEF B
  <2>3. \A i \in 1 .. Len(s) : i # 1 => B[i] = Batches(s)[i]
    <3> SUFFICES ASSUME NEW i \in 1 .. Len(s), i # 1 PROVE B[i] = Batches(s)[i]
      OBVIOUS
    <3>1. i - 1 \in 1 .. Len(s) - 1 /\ (i - 1) + 1 = i
      BY <1>1
    <3>. QED
      BY <3>1, <2>1, <1>4
  <2>4. DOMAIN B = 1 .. Len(s)
    BY <1>1, <1>4, <2>1
  <2>5. B = Put(Batches(s), 1, b)
    BY <1>1, <2>1, <2>2, <2>3, <2>4 DEF Put
  <2>. QED
    BY <2>5 DEF B
<1>. QED
  BY <1>2, <1>3, <1>4
-------------------------------------------------------------------------------
(* What a step does to the queue, the batches, the count and the history *)

Tally(n) == count' = count + n

Same == UNCHANGED <<pending, order, done>> /\ Batches(stack)' = Batches(stack)

Still == Same /\ Tally(0) /\ Standing("count")' = Standing("count")

Counted ==
  /\ Same /\ Tally(1)
  /\ \E c \in Standing("count") : Standing("count")' = Standing("count") \ {c}

Pushed ==
  \E c \in Callers \ Standing("count"), x \in Items :
    /\ Fresh(x)
    /\ pending' = Append(pending, x)
    /\ order' = Append(order, x)
    /\ done' = done /\ Batches(stack)' = Batches(stack)
    /\ Tally(0) /\ Standing("count")' = Standing("count") \cup {c}
    /\ \A d \in Callers : at'[d] = "push" => d # x

Drained ==
  /\ pending' = <<>>
  /\ stack' # <<>> /\ Batches(stack)'[1] = pending
  /\ DOMAIN Batches(stack)' \subseteq
       {1} \cup {i \in Nat : i > 1 /\ i - 1 \in DOMAIN Batches(stack)}
  /\ \A i \in DOMAIN Batches(stack) :
       i + 1 \in DOMAIN Batches(stack)' /\ Batches(stack)'[i + 1] = Batches(stack)[i]
  /\ UNCHANGED <<order, done>>
  /\ Tally(0) /\ Standing("count")' = Standing("count")

Returned ==
  /\ stack # <<>> /\ Batches(stack)[1] # <<>>
  /\ Batches(stack)' = Put(Batches(stack), 1, Tail(Batches(stack)[1]))
  /\ done' = done \cup {Head(Batches(stack)[1])}
  /\ UNCHANGED <<pending, order>>
  /\ Tally(-1) /\ Standing("count")' = Standing("count")

Popped ==
  /\ stack # <<>> /\ Batches(stack)[1] = <<>>
  /\ \A i \in DOMAIN Batches(stack) :
       i = 1 \/ (i - 1 \in DOMAIN Batches(stack)' /\ Batches(stack)'[i - 1] = Batches(stack)[i])
  /\ \A i \in DOMAIN Batches(stack)' :
       i + 1 \in DOMAIN Batches(stack) /\ Batches(stack)'[i] = Batches(stack)[i + 1]
  /\ UNCHANGED <<pending, order, done>>
  /\ Tally(0) /\ Standing("count")' = Standing("count")

Here ==
  /\ \E f \in Functors : Fresh(f) /\ done' = done \cup {f}
  /\ UNCHANGED <<pending, order>> /\ Batches(stack)' = Batches(stack)
  /\ Tally(0) /\ Standing("count")' = Standing("count")

Moves == Still \/ Counted \/ Pushed \/ Drained \/ Returned \/ Popped \/ Here

PushesFresh == \A c \in Callers : at[c] = "push" => Fresh(c)

\* Every action of EventLoop is one of the moves.
LEMMA NextMoves == Types /\ PushesFresh /\ [Next]_vars => Moves
<1> SUFFICES ASSUME Types, PushesFresh, [Next]_vars PROVE  Moves
  OBVIOUS
<1> USE ItemsAndCallers DEF Types, Queues, CallPlaces, flags, run, Standing, Tally
<1>1. CASE RunBegins /\ UNCHANGED kind
  BY <1>1 DEF RunBegins, Still, Same, Moves
<1>2. CASE Dispatch /\ UNCHANGED kind
  BY <1>2 DEF Dispatch, Still, Same, Moves
<1>3. CASE Receive /\ UNCHANGED kind
  BY <1>3 DEF Receive, Still, Same, Moves
<1>4. CASE ResetWatcher /\ UNCHANGED kind
  BY <1>4 DEF ResetWatcher, Still, Same, Moves
<1>5. CASE RunEnds /\ UNCHANGED kind
  BY <1>5 DEF RunEnds, Still, Same, Moves
<1>6. CASE TakeBatch /\ UNCHANGED kind
  <2> DEFINE s == StackAtTake
  <2>1. Nested(s) /\ Batches(s) = Batches(stack)
    <3>1. CASE loop = "take"
      BY <3>1 DEF StackAtTake, Nested, Batches, Stack
    <3>2. CASE loop # "take"
      <4>1. loop = "batch" /\ stack # <<>> /\ Head(stack).phase # "begin"
        BY <1>6, <3>2 DEF TakeBatch, AtTake, InPhase, Stack
      <4>2. Head(stack).batch # <<>>
        BY <4>1, FrontIs DEF Stack
      <4>3. PICK p \in {"drained1", "drained2"} : s = [stack EXCEPT ![1].phase = p]
        BY <3>2 DEF StackAtTake, Becomes
      <4>4. p \in Phases
        BY DEF Phases
      <4>. QED
        BY <4>1, <4>2, <4>3, <4>4, FrontMoves, BatchesStay DEF Stack
    <3>. QED
      BY <3>1, <3>2
  <2>2. /\ DOMAIN Batches(stack') = 1 .. Len(s) + 1
        /\ Batches(stack')[1] = pending
        /\ \A i \in 1 .. Len(s) : Batches(stack')[i + 1] = Batches(s)[i]
    BY <1>6, <2>1, CallBatches DEF TakeBatch
  <2>3. DOMAIN Batches(stack) = 1 .. Len(s) /\ Len(s) \in Nat
    BY <2>1, BatchesOf
  <2>4. stack' # <<>>
    BY <2>2, <2>3, BatchesOf DEF Batches
  <2>. HIDE DEF s
  <2>5. /\ DOMAIN Batches(stack') \subseteq
             {1} \cup {i \in Nat : i > 1 /\ i - 1 \in DOMAIN Batches(stack)}
        /\ \A i \in DOMAIN Batches(stack) : /\ i + 1 \in DOMAIN Batches(stack')
                                            /\ Batches(stack')[i + 1] = Batches(stack)[i]
    BY <2>1, <2>2, <2>3
  <2>. QED
    BY <1>6, <2>2, <2>4, <2>5 DEF TakeBatch, Drained, Moves
<1>7. CASE Begin /\ UNCHANGED kind
  <2>1. /\ stack # <<>> /\ Head(stack).batch # <<>>
        /\ \E p \in Phases : stack' = [stack EXCEPT ![1].phase = p]
    BY <1>7, FrontIs DEF Begin, InPhase, Becomes, Phases, Stack
  <2>2. PICK p \in Phases : stack' = [stack EXCEPT ![1].phase = p]
    BY <2>1
  <2>3. Batches(stack)' = Batches(stack)
    BY <2>1, <2>2, BatchesStay DEF Stack
  <2>. QED
    BY <1>7, <2>3 DEF Begin, Still, Same, Moves
<1>8. CASE EndFunctor /\ UNCHANGED kind
  <2>1. /\ stack # <<>> /\ Head(stack).batch # <<>> /\ Nested(stack)
    BY <1>8, FrontIs DEF EndFunctor, InPhase, Stack
  <2>2. Batches(stack)[1] = Head(stack).batch
    BY <2>1, BatchesOf
  <2>3. Batches(stack)' = Put(Batches(stack), 1, Tail(Batches(stack)[1]))
    BY <1>8, <2>1, <2>2, ReturnBatches DEF EndFunctor, Returns
  <2>. QED
    BY <1>8, <2>1, <2>2, <2>3 DEF EndFunctor, Returns, Returned, Moves
<1>9. CASE DrainAgain /\ UNCHANGED kind
  <2>1. /\ stack # <<>> /\ Head(stack).batch # <<>>
        /\ \E p \in Phases : stack' = [stack EXCEPT ![1].phase = p]
    BY <1>9, FrontIs DEF DrainAgain, InPhase, Becomes, Phases, Stack
  <2>2. PICK p \in Phases : stack' = [stack EXCEPT ![1].phase = p]
    BY <2>1
  <2>3. Batches(stack)' = Batches(stack)
    BY <2>1, <2>2, BatchesStay DEF Stack
  <2>. QED
    BY <1>9, <2>3 DEF DrainAgain, Still, Same, Moves
<1>10. CASE LoopExit /\ UNCHANGED kind
  <2>1. /\ stack # <<>> /\ Head(stack).batch # <<>>
        /\ \E p \in Phases : stack' = [stack EXCEPT ![1].phase = p]
    BY <1>10, FrontIs DEF LoopExit, InPhase, Becomes, Phases, Stack
  <2>2. PICK p \in Phases : stack' = [stack EXCEPT ![1].phase = p]
    BY <2>1
  <2>3. Batches(stack)' = Batches(stack)
    BY <2>1, <2>2, BatchesStay DEF Stack
  <2>. QED
    BY <1>10, <2>3 DEF LoopExit, Still, Same, Moves
<1>11. CASE EndStop /\ UNCHANGED kind
  <2>1. /\ stack # <<>> /\ Head(stack).batch # <<>> /\ Nested(stack)
    BY <1>11, FrontIs DEF EndStop, InPhase, Stack
  <2>2. Batches(stack)[1] = Head(stack).batch
    BY <2>1, BatchesOf
  <2>3. Batches(stack)' = Put(Batches(stack), 1, Tail(Batches(stack)[1]))
    BY <1>11, <2>1, <2>2, ReturnBatches DEF EndStop, Returns
  <2>. QED
    BY <1>11, <2>1, <2>2, <2>3 DEF EndStop, Returns, Returned, Moves
<1>12. CASE EndBatch /\ UNCHANGED kind
  <2>1. /\ stack # <<>> /\ Head(stack).batch = <<>> /\ stack' = Tail(stack)
        /\ Nested(stack)
    BY <1>12 DEF EndBatch, InPhase, Stack
  <2>2. /\ Batches(stack)[1] = <<>> /\ DOMAIN Batches(stack) = 1 .. Len(stack)
        /\ Len(stack) \in Nat
    BY <2>1, BatchesOf
  <2>3. /\ DOMAIN Batches(stack') = 1 .. Len(stack) - 1
        /\ \A i \in 1 .. Len(stack) - 1 : Batches(stack')[i] = Batches(stack)[i + 1]
    BY <2>1, TailBatches
  <2>4. \A i \in DOMAIN Batches(stack) :
          i = 1 \/ (i - 1 \in DOMAIN Batches(stack') /\ Batches(stack')[i - 1] = Batches(stack)[i])
    <3> SUFFICES ASSUME NEW i \in 1 .. Len(stack), i # 1
                 PROVE  /\ i - 1 \in DOMAIN Batches(stack')
                        /\ Batches(stack')[i - 1] = Batches(stack)[i]
      BY <2>2
    <3>1. i - 1 \in 1 .. Len(stack) - 1 /\ (i - 1) + 1 = i
      BY <2>2
    <3>. QED
      BY <3>1, <2>3
  <2>5. \A i \in DOMAIN Batches(stack') :
          i + 1 \in DOMAIN Batches(stack) /\ Batches(stack')[i] = Batches(stack)[i + 1]
    BY <2>2, <2>3
  <2>. QED
    BY <1>12, <2>1, <2>2, <2>4, <2>5 DEF EndBatch, Popped, Moves
<1>13. ASSUME NEW c \in Callers, PushStop(c), UNCHANGED kind PROVE Moves
  <2>1. Fresh(c) /\ c \in Items /\ c \notin Standing("count")
    BY <1>13 DEF PushStop, PushesFresh
  <2>2. Standing("count")' = Standing("count") \cup {c}
    BY <1>13 DEF PushStop, Push
  <2>3. \A d \in Callers : at'[d] = "push" => d # c
    BY <1>13 DEF PushStop, Push
  <2>4. pending' = Append(pending, c) /\ order' = Append(order, c) /\ done' = done
    BY <1>13 DEF PushStop, Push
  <2>5. Batches(stack)' = Batches(stack) /\ Tally(0)
    BY <1>13 DEF PushStop, Push
  <2>6. Pushed
    BY <2>1, <2>2, <2>3, <2>4, <2>5 DEF Pushed
  <2>. QED
    BY <2>6 DEF Moves
<1>14. ASSUME NEW c \in Callers, Count(c), UNCHANGED kind PROVE Moves
  <2>1. c \in Standing("count") /\ Standing("count")' = Standing("count") \ {c}
    BY <1>14 DEF Count
  <2>. QED
    BY <1>14, <2>1 DEF Count, Counted, Same, Moves
<1>15. ASSUME NEW c \in Callers, Test(c), UNCHANGED kind PROVE Moves
  <2>1. Standing("count")' = Standing("count")
    BY <1>15 DEF Test
  <2>. QED
    BY <1>15, <2>1 DEF Test, Still, Same, Moves
<1>16. ASSUME NEW c \in Callers, Store(c), UNCHANGED kind PROVE Moves
  <2>1. Standing("count")' = Standing("count")
    BY <1>16 DEF Store
  <2>. QED
    BY <1>16, <2>1 DEF Store, Still, Same, Moves
<1>17. ASSUME NEW c \in Callers, Notify(c), UNCHANGED kind PROVE Moves
  <2>1. Standing("count")' = Standing("count")
    BY <1>17 DEF Notify
  <2>. QED
    BY <1>17, <2>1 DEF Notify, Still, Same, Moves
<1>18. ASSUME NEW c \in Callers, NotifyDestroyed(c), UNCHANGED kind PROVE Moves
  <2>1. Standing("count")' = Standing("count")
    BY <1>18 DEF NotifyDestroyed
  <2>. QED
    BY <1>18, <2>1 DEF NotifyDestroyed, Still, Same, Moves
<1>19. ASSUME NEW c \in Callers, NEW f \in Functors, Queue(c, f), UNCHANGED kind
       PROVE  Moves
  <2>1. Fresh(f) /\ f \in Items /\ f \notin Callers /\ c \notin Standing("count")
    BY <1>19, FunctorsAssumption DEF Queue, MayCall
  <2>2. Standing("count")' = Standing("count") \cup {c}
    BY <1>19 DEF Queue, Push
  <2>. QED
    BY <1>19, <2>1, <2>2 DEF Queue, Push, Pushed, Moves
<1>20. ASSUME NEW f \in Functors, RunHere(f), UNCHANGED kind PROVE Moves
  BY <1>20 DEF RunHere, Here, Moves
<1>21. ASSUME NEW c \in Stoppers, CallStop(c), UNCHANGED kind PROVE Moves
  <2>1. Standing("count")' = Standing("count")
    BY <1>21 DEF CallStop, MayCall
  <2>. QED
    BY <1>21, <2>1 DEF CallStop, Still, Same, Moves
<1>22. CASE UNCHANGED vars
  BY <1>22 DEF vars, Still, Same, Moves
<1>. QED
  BY <1>1, <1>2, <1>3, <1>4, <1>5, <1>6, <1>7, <1>8, <1>9, <1>10, <1>11, <1>12,
     <1>13, <1>14, <1>15, <1>16, <1>17, <1>18, <1>19, <1>20, <1>21, <1>22
  DEF Next, LoopStep, QueueStep, Call

\* A thread gets to the push of its StopInLoop with a functor that nobody has seen.
CallsFresh == \A d \in Callers : at'[d] = "push" => at[d] = "push" \/ Fresh(d)

LEMMA NextCalls == Types /\ [Next]_vars => CallsFresh
<1> SUFFICES ASSUME Types, [Next]_vars PROVE  CallsFresh
  OBVIOUS
<1> USE ItemsAndCallers DEF CallsFresh, Types, Queues, CallPlaces, flags, run
<1>1. CASE RunBegins /\ UNCHANGED kind
  BY <1>1 DEF RunBegins
<1>2. CASE Dispatch /\ UNCHANGED kind
  BY <1>2 DEF Dispatch
<1>3. CASE Receive /\ UNCHANGED kind
  BY <1>3 DEF Receive
<1>4. CASE ResetWatcher /\ UNCHANGED kind
  BY <1>4 DEF ResetWatcher
<1>5. CASE RunEnds /\ UNCHANGED kind
  BY <1>5 DEF RunEnds
<1>6. CASE TakeBatch /\ UNCHANGED kind
  BY <1>6 DEF TakeBatch
<1>7. CASE Begin /\ UNCHANGED kind
  BY <1>7 DEF Begin
<1>8. CASE EndFunctor /\ UNCHANGED kind
  BY <1>8 DEF EndFunctor, Returns
<1>9. CASE DrainAgain /\ UNCHANGED kind
  BY <1>9 DEF DrainAgain
<1>10. CASE LoopExit /\ UNCHANGED kind
  BY <1>10 DEF LoopExit
<1>11. CASE EndStop /\ UNCHANGED kind
  BY <1>11 DEF EndStop, Returns
<1>12. CASE EndBatch /\ UNCHANGED kind
  BY <1>12 DEF EndBatch
<1>13. ASSUME NEW c \in Callers, PushStop(c), UNCHANGED kind PROVE CallsFresh
  BY <1>13 DEF PushStop, Push
<1>14. ASSUME NEW c \in Callers, Count(c), UNCHANGED kind PROVE CallsFresh
  BY <1>14 DEF Count
<1>15. ASSUME NEW c \in Callers, Test(c), UNCHANGED kind PROVE CallsFresh
  BY <1>15 DEF Test
<1>16. ASSUME NEW c \in Callers, Store(c), UNCHANGED kind PROVE CallsFresh
  BY <1>16 DEF Store
<1>17. ASSUME NEW c \in Callers, Notify(c), UNCHANGED kind PROVE CallsFresh
  BY <1>17 DEF Notify
<1>18. ASSUME NEW c \in Callers, NotifyDestroyed(c), UNCHANGED kind PROVE CallsFresh
  BY <1>18 DEF NotifyDestroyed
<1>19. ASSUME NEW c \in Callers, NEW f \in Functors, Queue(c, f), UNCHANGED kind
       PROVE  CallsFresh
  BY <1>19 DEF Queue, Push, MayCall
<1>20. ASSUME NEW f \in Functors, RunHere(f), UNCHANGED kind PROVE CallsFresh
  BY <1>20 DEF RunHere
<1>21. ASSUME NEW c \in Stoppers, CallStop(c), UNCHANGED kind PROVE CallsFresh
  BY <1>21 DEF CallStop, MayCall
<1>22. CASE UNCHANGED vars
  BY <1>22 DEF vars
<1>. QED
  BY <1>1, <1>2, <1>3, <1>4, <1>5, <1>6, <1>7, <1>8, <1>9, <1>10, <1>11, <1>12,
     <1>13, <1>14, <1>15, <1>16, <1>17, <1>18, <1>19, <1>20, <1>21, <1>22
  DEF Next, LoopStep, QueueStep, Call
-------------------------------------------------------------------------------
(* Every item that waits is in the queue or in one batch, once *)

\* The inductive invariant: the queue and the batches share no item and hold what waits,
\* and a thread that is about to push its StopInLoop brings an item nobody has seen.
Holding ==
  /\ Distinct(pending) /\ Distinct(order)
  /\ Apart(Batches(stack))
  /\ Elements(pending) \cap Held(Batches(stack)) = {}
  /\ Waiting = Elements(pending) \cup Held(Batches(stack))
  /\ PushesFresh

LEMMA MembersAreElements == \A q : Members(q) = Elements(q)
  BY DEF Members, Elements

\* A batch joins or leaves the stack at its top.
LEMMA StackApart ==
  ASSUME NEW Q, NEW R, NEW q,
         DOMAIN R \subseteq {1} \cup {i \in Nat : i > 1 /\ i - 1 \in DOMAIN Q},
         DOMAIN Q \subseteq Nat \ {0}, 1 \in DOMAIN R, R[1] = q,
         \A i \in DOMAIN Q : i + 1 \in DOMAIN R /\ R[i + 1] = Q[i]
  PROVE  /\ Held(R) = Elements(q) \cup Held(Q)
         /\ Apart(Q) /\ Distinct(q) /\ Elements(q) \cap Held(Q) = {} => Apart(R)
<1>1. \A i \in DOMAIN R : i = 1 \/ (i > 1 /\ i \in Nat /\ i - 1 \in DOMAIN Q /\ R[i] = Q[i - 1])
  <2> SUFFICES ASSUME NEW i \in DOMAIN R, i # 1
               PROVE  i > 1 /\ i \in Nat /\ i - 1 \in DOMAIN Q /\ R[i] = Q[i - 1]
    OBVIOUS
  <2>1. i > 1 /\ i \in Nat /\ i - 1 \in DOMAIN Q /\ (i - 1) + 1 = i
    OBVIOUS
  <2>. QED
    BY <2>1
<1>2. Held(R) = Elements(q) \cup Held(Q)
  BY <1>1 DEF Held
<1>3. ASSUME Apart(Q), Distinct(q), Elements(q) \cap Held(Q) = {} PROVE Apart(R)
  <2>1. \A i \in DOMAIN R : Distinct(R[i])
    BY <1>1, <1>3 DEF Apart
  <2>2. ASSUME NEW i \in DOMAIN R, NEW j \in DOMAIN R, NEW x \in Elements(R[i]),
               x \in Elements(R[j])
        PROVE  i = j
    <3>1. CASE i = 1 /\ j # 1
      BY <3>1, <1>1, <1>3, <2>2 DEF Held
    <3>2. CASE i # 1 /\ j = 1
      BY <3>2, <1>1, <1>3, <2>2 DEF Held
    <3>3. CASE i # 1 /\ j # 1
      <4>1. i - 1 = j - 1
        BY <3>3, <1>1, <1>3, <2>2 DEF Apart
      <4>. QED
        BY <4>1, <3>3, <1>1
    <3>. QED
      BY <3>1, <3>2, <3>3
  <2>. QED
    BY <2>1, <2>2 DEF Apart
<1>. QED
  BY <1>2, <1>3

LEMMA MovesHold == Types /\ Holding /\ Moves /\ CallsFresh => Holding'
<1> SUFFICES ASSUME Types, Holding, Moves, CallsFresh PROVE Holding'
  OBVIOUS
<1> DEFINE B == Batches(stack)
<1>0. /\ B \in [1 .. Len(stack) -> Seq(Items)]
      /\ pending \in Seq(Items) /\ order \in Seq(Items)
      /\ DOMAIN B \subseteq Nat \ {0}
  BY BatchesOf DEF Types, Stack, Queues
<1>1. CASE Still
  BY <1>1, MembersAreElements DEF Still, Same, Holding, PushesFresh, CallsFresh, Fresh, Waiting
<1>2. CASE Counted
  BY <1>2, MembersAreElements DEF Counted, Same, Holding, PushesFresh, CallsFresh, Fresh, Waiting
<1>3. CASE Pushed
  <2> PICK x \in Items :
        /\ Fresh(x) /\ pending' = Append(pending, x) /\ order' = Append(order, x)
        /\ done' = done /\ Batches(stack)' = Batches(stack)
        /\ \A d \in Callers : at'[d] = "push" => d # x
    BY <1>3 DEF Pushed
  <2>1. x \notin Elements(order) /\ x \notin done
    BY MembersAreElements DEF Fresh
  <2>2. x \notin Elements(pending) /\ x \notin Held(B)
    BY <2>1, MembersAreElements DEF Holding, Waiting
  <2>3. Elements(pending') = Elements(pending) \cup {x} /\ Distinct(pending')
    BY <1>0, <2>2, PushElements DEF Holding
  <2>4. Elements(order') = Elements(order) \cup {x} /\ Distinct(order')
    BY <1>0, <2>1, PushElements DEF Holding
  <2>5. PushesFresh'
    BY <2>4, MembersAreElements DEF PushesFresh, CallsFresh, Fresh, Holding
  <2>6. Waiting' = Elements(pending') \cup Held(B')
    BY <2>1, <2>3, <2>4, MembersAreElements DEF Holding, Waiting
  <2>. QED
    BY <2>2, <2>3, <2>4, <2>5, <2>6 DEF Holding
<1>4. CASE Drained
  <2>1. 1 \in DOMAIN B'
    BY <1>4 DEF Drained, Batches
  <2>2. Held(B') = Elements(pending) \cup Held(B) /\ Apart(B')
    BY <1>0, <1>4, <2>1, StackApart DEF Drained, Holding
  <2>3. Elements(pending') = {} /\ Distinct(pending')
    BY <1>4 DEF Drained, Elements, Distinct
  <2>4. PushesFresh'
    BY <1>4 DEF Drained, PushesFresh, CallsFresh, Fresh, Holding
  <2>. QED
    BY <1>4, <2>2, <2>3, <2>4 DEF Holding, Waiting, Drained
<1>5. CASE Returned
  <2>1. 1 \in 1 .. Len(stack) /\ B[1] # <<>>
    BY <1>5, BatchesOf DEF Returned, Types, Stack
  <2> DEFINE h == Head(B[1])
  <2>2. Apart(B') /\ Held(B') = Held(B) \ {h} /\ h \in Held(B)
    <3>1. B' = Put(B, 1, Tail(B[1])) /\ Apart(B)
      BY <1>5 DEF Returned, Holding
    <3>2. ASSUME NEW I, NEW Q \in [I -> Seq(Items)], 1 \in I, Apart(Q), Q[1] # <<>>
          PROVE  /\ Apart(Put(Q, 1, Tail(Q[1]))) /\ Head(Q[1]) \in Held(Q)
                 /\ Held(Put(Q, 1, Tail(Q[1]))) = Held(Q) \ {Head(Q[1])}
      BY <3>2, PopApart
    <3>. QED
      BY <1>0, <2>1, <3>1, <3>2
  <2>3. done' = done \cup {h} /\ pending' = pending /\ order' = order
    BY <1>5 DEF Returned
  <2>. HIDE DEF h
  <2>4. h \in Members(order)
    BY <2>2 DEF Holding, Waiting
  <2>5. PushesFresh'
    BY <2>3, <2>4 DEF PushesFresh, CallsFresh, Fresh, Holding
  <2>. QED
    BY <2>2, <2>3, <2>5 DEF Holding, Waiting
<1>6. CASE Popped
  <2>1. 1 \in DOMAIN B /\ B[1] = <<>>
    BY <1>6, BatchesOf DEF Popped, Types, Stack
  <2>2. Held(B') = Held(B) /\ Apart(B')
    <3>1. \A i \in DOMAIN B' : i + 1 \in DOMAIN B /\ B'[i] = B[i + 1]
      BY <1>6 DEF Popped
    <3>2. \A i \in DOMAIN B : i = 1 \/ (i - 1 \in DOMAIN B' /\ B'[i - 1] = B[i])
      BY <1>6 DEF Popped
    <3>3. DOMAIN B' \subseteq Nat
      BY DEF Batches
    <3>4. Elements(B[1]) = {}
      BY <2>1 DEF Elements
    <3>5. Held(B') = Held(B)
      BY <3>1, <3>2, <3>4 DEF Held
    <3>6. Apart(B)
      BY DEF Holding
    <3>. HIDE DEF B
    <3>7. \A i \in DOMAIN B' : Distinct(B'[i])
      BY <3>1, <3>6 DEF Apart
    <3>8. ASSUME NEW i \in DOMAIN B', NEW j \in DOMAIN B', NEW x \in Elements(B'[i]),
                 x \in Elements(B'[j])
          PROVE  i = j
      <4>1. i + 1 = j + 1
        BY <3>1, <3>6, <3>8 DEF Apart
      <4>. QED
        BY <4>1, <3>3
    <3>. QED
      BY <3>5, <3>7, <3>8 DEF Apart
  <2>3. PushesFresh'
    BY <1>6 DEF Popped, PushesFresh, CallsFresh, Fresh, Holding
  <2>. QED
    BY <1>6, <2>2, <2>3 DEF Holding, Waiting, Popped
<1>7. CASE Here
  <2> PICK f \in Functors : Fresh(f) /\ done' = done \cup {f}
    BY <1>7 DEF Here
  <2>1. pending' = pending /\ order' = order /\ B' = B
    BY <1>7 DEF Here
  <2>2. f \notin Members(order) /\ f \notin Callers
    BY FunctorsAssumption DEF Fresh
  <2>3. PushesFresh'
    BY <2>1, <2>2 DEF PushesFresh, CallsFresh, Fresh, Holding
  <2>4. Waiting' = Waiting
    BY <2>1, <2>2 DEF Waiting
  <2>. QED
    BY <2>1, <2>3, <2>4 DEF Holding
<1>. QED
  BY <1>1, <1>2, <1>3, <1>4, <1>5, <1>6, <1>7 DEF Moves

LEMMA InitHolding == Init => Holding
  BY DEF Init, Holding, Batches, Distinct, Apart, Held, Elements, PushesFresh, Waiting, Members

LEMMA NextHolding == Types /\ Holding /\ [Next]_vars => Holding'
  BY NextMoves, NextCalls, MovesHold DEF Holding

\* What Holding says of the stack, in the words of the specification.
LEMMA HoldingImpliesOneBatch == Types /\ Holding => OneBatch
<1> SUFFICES ASSUME Types, Holding PROVE OneBatch
  OBVIOUS
<1> DEFINE B == Batches(stack)
<1>1. DOMAIN stack = 1 .. Len(stack) /\ pending \in Seq(Items)
  BY BatchesOf DEF Types, Stack, Queues
<1>2. DOMAIN B = DOMAIN stack /\ \A i \in DOMAIN stack : B[i] = stack[i].batch
  BY <1>1 DEF Batches
<1>. HIDE DEF B
<1>3. Held(B) = UNION {Members(stack[i].batch) : i \in DOMAIN stack}
  BY <1>2, MembersAreElements DEF Held
<1>4. Len(pending) = Cardinality(Members(pending))
  <2>1. DOMAIN pending = 1 .. Len(pending) /\ Len(pending) \in Nat
    BY <1>1
  <2>2. pending \in Bijection(1 .. Len(pending), Members(pending))
    BY <1>1, <2>1 DEF Holding, Distinct, Members, Bijection, Injection, Surjection, IsInjective
  <2>. QED
    BY <2>1, <2>2, FS_CountingElements DEF ExistsBijection
<1>5. \A i, j \in DOMAIN stack :
        i # j => Members(stack[i].batch) \cap Members(stack[j].batch) = {}
  BY <1>2, MembersAreElements DEF Holding, Apart, B
<1>6. \A x \in Items :
        x \in Waiting <=>
          x \in Members(pending) \/ \E i \in DOMAIN stack : x \in Members(stack[i].batch)
  BY <1>3, MembersAreElements DEF Holding, B
<1>7. Members(pending) \cap UNION {Members(stack[i].batch) : i \in DOMAIN stack} = {}
  BY <1>3, MembersAreElements DEF Holding, B
<1>. QED
  BY <1>4, <1>5, <1>6, <1>7 DEF OneBatch
-------------------------------------------------------------------------------
(* The count *)

LEMMA CountedSetsAreFinite == Types => IsFiniteSet(Waiting) /\ IsFiniteSet(Standing("count"))
<1> SUFFICES ASSUME Types PROVE IsFiniteSet(Waiting) /\ IsFiniteSet(Standing("count"))
  OBVIOUS
<1>1. order \in [1 .. Len(order) -> Members(order)] /\ Len(order) \in Nat
  <2>1. order \in Seq(Items)
    BY DEF Types, Queues
  <2>. QED
    BY <2>1 DEF Members
<1>2. order \in Surjection(1 .. Len(order), Members(order))
  BY <1>1 DEF Surjection, Members
<1>3. IsFiniteSet(Members(order))
  BY <1>1, <1>2, FS_Interval, FS_Surjection
<1>4. IsFiniteSet(Callers)
  BY CallersAssumption, FS_AddElement DEF Callers
<1>5. Waiting \subseteq Members(order) /\ Standing("count") \subseteq Callers
  BY DEF Waiting, Standing
<1>. QED
  BY <1>3, <1>4, <1>5, FS_Subset

LEMMA MovesCount ==
  Types /\ Types' /\ Holding /\ Moves /\ CountIsWaiting => CountIsWaiting'
<1> SUFFICES ASSUME Types, Types', Holding, Moves, CountIsWaiting PROVE CountIsWaiting'
  OBVIOUS
<1> DEFINE W == Waiting
           S == Standing("count")
<1>1. /\ IsFiniteSet(W) /\ IsFiniteSet(S)
      /\ Cardinality(W) \in Int /\ Cardinality(S) \in Int /\ count \in Int
  BY CountedSetsAreFinite, FS_CardinalityType DEF Types, Queues
<1>2. count = Cardinality(W) - Cardinality(S)
  BY DEF CountIsWaiting
<1>3. SUFFICES count' = Cardinality(W') - Cardinality(S')
  BY DEF CountIsWaiting
<1>4. UNCHANGED <<order, done>> => W' = W
  BY DEF Waiting
<1>5. CASE Still
  <2>1. W' = W /\ S' = S /\ count' = count + 0
    BY <1>5, <1>4 DEF Still, Same, Tally
  <2>. HIDE DEF W, S
  <2>. QED
    BY <2>1, <1>1, <1>2
<1>6. CASE Counted
  <2>1. W' = W /\ count' = count + 1
    BY <1>6, <1>4 DEF Counted, Same, Tally
  <2>2. PICK c \in S : S' = S \ {c}
    BY <1>6 DEF Counted
  <2>. HIDE DEF W, S
  <2>3. Cardinality(S') = Cardinality(S) - 1
    BY <2>2, <1>1, FS_RemoveElement
  <2>. QED
    BY <2>1, <2>3, <1>1, <1>2
<1>7. CASE Pushed
  <2>1. PICK c \in Callers \ S, x \in Items :
          /\ Fresh(x) /\ order' = Append(order, x) /\ done' = done
          /\ count' = count + 0 /\ S' = S \cup {c}
    BY <1>7 DEF Pushed, Tally
  <2>2. Elements(order') = Elements(order) \cup {x} /\ x \notin Elements(order) /\ x \notin done
    BY <2>1, PushElements, MembersAreElements DEF Types, Queues, Fresh
  <2>3. W' = W \cup {x} /\ x \notin W
    BY <2>1, <2>2, MembersAreElements DEF Waiting
  <2>. HIDE DEF W, S
  <2>4. Cardinality(W') = Cardinality(W) + 1
    BY <2>3, <1>1, FS_AddElement
  <2>5. Cardinality(S') = Cardinality(S) + 1
    BY <2>1, <1>1, FS_AddElement
  <2>. QED
    BY <2>1, <2>4, <2>5, <1>1, <1>2
<1>8. CASE Drained
  <2>1. W' = W /\ S' = S /\ count' = count + 0
    BY <1>8, <1>4 DEF Drained, Tally
  <2>. HIDE DEF W, S
  <2>. QED
    BY <2>1, <1>1, <1>2
<1>9. CASE Returned
  <2> DEFINE h == Head(Batches(stack)[1])
  <2>1. done' = done \cup {h} /\ order' = order /\ S' = S /\ count' = count + (-1)
    BY <1>9 DEF Returned, Tally
  <2>2. h \in W
    <3>1. 1 \in DOMAIN Batches(stack) /\ Batches(stack)[1] \in Seq(Items)
      BY <1>9, BatchesOf DEF Returned, Types, Stack
    <3>2. h \in Elements(Batches(stack)[1])
      BY <3>1, <1>9, PopElements DEF Holding, Apart, Returned
    <3>. QED
      BY <3>1, <3>2 DEF Holding, Held
  <2>. HIDE DEF h
  <2>3. W' = W \ {h}
    BY <2>1 DEF Waiting
  <2>. HIDE DEF W, S
  <2>4. Cardinality(W') = Cardinality(W) - 1
    BY <2>2, <2>3, <1>1, FS_RemoveElement
  <2>. QED
    BY <2>1, <2>4, <1>1, <1>2
<1>10. CASE Popped
  <2>1. W' = W /\ S' = S /\ count' = count + 0
    BY <1>10, <1>4 DEF Popped, Tally
  <2>. HIDE DEF W, S
  <2>. QED
    BY <2>1, <1>1, <1>2
<1>11. CASE Here
  <2>1. W' = W /\ S' = S /\ count' = count + 0
    BY <1>11 DEF Here, Tally, Waiting, Fresh
  <2>. HIDE DEF W, S
  <2>. QED
    BY <2>1, <1>1, <1>2
<1>. QED
  BY <1>5, <1>6, <1>7, <1>8, <1>9, <1>10, <1>11 DEF Moves

\* OneBatch, for every set of threads and functors: however deep StopInLoop nests
\* DoPendingFunctors, a functor that waits is in one place, and no place holds another.
THEOREM EveryItemInOneBatch == Spec => []OneBatch
  BY InitTypes, NextTypes, InitHolding, NextHolding, HoldingImpliesOneBatch, PTL DEF Spec

\* CountIsWaiting, for every set of threads and functors: pending_functor_count_ is off by
\* the pushes that are not counted yet, and by nothing else.
THEOREM CountIsExact == Spec => []CountIsWaiting
<1>1. Init => CountIsWaiting
  <2> SUFFICES ASSUME Init PROVE CountIsWaiting
    OBVIOUS
  <2>1. Waiting = {} /\ Standing("count") = {} /\ count = 0
    BY DEF Init, Waiting, Members, Standing
  <2>2. Cardinality({}) = 0
    BY FS_EmptySet
  <2>. QED
    BY <2>1, <2>2 DEF CountIsWaiting
<1>2. Types /\ Types' /\ Holding /\ CountIsWaiting /\ [Next]_vars => CountIsWaiting'
  BY NextMoves, MovesCount DEF Holding
<1>. QED
  BY InitTypes, NextTypes, InitHolding, NextHolding, <1>1, <1>2, PTL DEF Spec
-------------------------------------------------------------------------------
(* The order of the queue and of the batches *)

\* The items of q stand as they were queued.
Ordered(q) == \A i, j \in DOMAIN q : i < j => Before(q[i], q[j])

\* The queue and each batch stand in the order of the pushes, and the queue behind
\* all batches.
Sorted ==
  /\ Ordered(pending)
  /\ \A i \in DOMAIN Batches(stack) : Ordered(Batches(stack)[i])
  /\ \A x \in Held(Batches(stack)), y \in Elements(pending) : Before(x, y)

\* No item is pushed twice, so Before is a strict order.
LEMMA BeforeIsStrict ==
  ASSUME Types, Distinct(order), NEW x, NEW y, Before(x, y)
  PROVE  ~Before(y, x)
<1>1. DOMAIN order \subseteq Nat
  BY DEF Types, Queues
<1>2. PICK i, j \in DOMAIN order : i < j /\ order[i] = x /\ order[j] = y
  BY DEF Before
<1>3. ASSUME NEW k \in DOMAIN order, NEW l \in DOMAIN order, k < l, order[k] = y, order[l] = x
      PROVE  FALSE
  <2>1. k = j /\ l = i
    BY <1>2, <1>3 DEF Distinct
  <2>. QED
    BY <2>1, <1>1, <1>2, <1>3
<1>. QED
  BY <1>3 DEF Before

\* A push comes behind everything that was pushed.
LEMMA PushBefore ==
  ASSUME Types, NEW x \in Items, order' = Append(order, x)
  PROVE  /\ \A a, b : Before(a, b) => Before(a, b)'
         /\ \A a \in Elements(order) : Before(a, x)'
<1>1. /\ DOMAIN order = 1 .. Len(order) /\ Len(order) \in Nat
      /\ DOMAIN order' = 1 .. Len(order) + 1
      /\ order'[Len(order) + 1] = x
      /\ \A i \in DOMAIN order : order'[i] = order[i]
  BY DEF Types, Queues
<1>2. ASSUME NEW a, NEW b, Before(a, b) PROVE Before(a, b)'
  <2>1. PICK i, j \in DOMAIN order : i < j /\ order[i] = a /\ order[j] = b
    BY <1>2 DEF Before
  <2>. QED
    BY <1>1, <2>1 DEF Before
<1>3. ASSUME NEW a \in Elements(order) PROVE Before(a, x)'
  <2>1. PICK i \in DOMAIN order : order[i] = a
    BY DEF Elements
  <2>2. i < Len(order) + 1 /\ i \in DOMAIN order' /\ Len(order) + 1 \in DOMAIN order'
    BY <1>1
  <2>. QED
    BY <1>1, <2>1, <2>2 DEF Before
<1>. QED
  BY <1>2, <1>3

LEMMA TailOrdered ==
  ASSUME NEW q \in Seq(Items), q # <<>>, Ordered(q)
  PROVE  /\ Ordered(Tail(q))
         /\ \A x \in Elements(q) : x = Head(q) \/ Before(Head(q), x)
<1>1. /\ DOMAIN q = 1 .. Len(q) /\ Len(q) \in Nat \ {0} /\ Head(q) = q[1]
      /\ DOMAIN Tail(q) = 1 .. Len(q) - 1
      /\ \A i \in DOMAIN Tail(q) : i + 1 \in DOMAIN q /\ Tail(q)[i] = q[i + 1]
  OBVIOUS
<1>2. ASSUME NEW i \in DOMAIN Tail(q), NEW j \in DOMAIN Tail(q), i < j
      PROVE  Before(Tail(q)[i], Tail(q)[j])
  <2>1. i + 1 < j + 1
    BY <1>1, <1>2
  <2>. QED
    BY <2>1, <1>1 DEF Ordered
<1>3. ASSUME NEW x \in Elements(q) PROVE x = Head(q) \/ Before(Head(q), x)
  <2>1. PICK i \in DOMAIN q : q[i] = x
    BY DEF Elements
  <2>2. i = 1 \/ 1 < i
    BY <1>1
  <2>. QED
    BY <2>1, <2>2, <1>1 DEF Ordered
<1>. QED
  BY <1>2, <1>3 DEF Ordered

LEMMA MovesSort == Types /\ Holding /\ Sorted /\ Moves => Sorted'
<1> SUFFICES ASSUME Types, Holding, Sorted, Moves PROVE Sorted'
  OBVIOUS
<1> DEFINE B == Batches(stack)
<1>0. /\ B \in [1 .. Len(stack) -> Seq(Items)]
      /\ pending \in Seq(Items) /\ order \in Seq(Items)
      /\ DOMAIN B \subseteq Nat \ {0}
  BY BatchesOf DEF Types, Stack, Queues
<1>1. ASSUME UNCHANGED <<order, pending>>, UNCHANGED B PROVE Sorted'
  BY <1>1 DEF Sorted, Ordered, Before
<1>2. order' = order => \A a, b : Before(a, b)' <=> Before(a, b)
  BY DEF Before
<1>3. CASE Pushed
  <2> PICK x \in Items :
        /\ pending' = Append(pending, x) /\ order' = Append(order, x) /\ B' = B
    BY <1>3 DEF Pushed
  <2>1. /\ \A a, b : Before(a, b) => Before(a, b)'
        /\ \A a \in Elements(order) : Before(a, x)'
    BY PushBefore
  <2>2. Elements(pending) \subseteq Elements(order) /\ Held(B) \subseteq Elements(order)
    BY MembersAreElements DEF Holding, Waiting
  <2>3. /\ DOMAIN pending' = 1 .. Len(pending) + 1 /\ DOMAIN pending = 1 .. Len(pending)
        /\ Len(pending) \in Nat /\ pending'[Len(pending) + 1] = x
        /\ \A i \in DOMAIN pending : pending'[i] = pending[i]
    BY <1>0
  <2>4. ASSUME NEW i \in DOMAIN pending', NEW j \in DOMAIN pending', i < j
        PROVE  Before(pending[i], pending[j])'
    <3>1. i \in DOMAIN pending /\ pending'[i] = pending[i]
      BY <2>3, <2>4
    <3>2. ASSUME NEW a, NEW b, a = pending'[i], b = pending'[j] PROVE Before(a, b)'
      <4>1. CASE j \in DOMAIN pending
        BY <3>1, <3>2, <4>1, <2>1, <2>3, <2>4 DEF Sorted, Ordered
      <4>2. CASE j = Len(pending) + 1
        BY <3>1, <3>2, <4>2, <2>1, <2>2, <2>3 DEF Elements
      <4>. QED
        BY <4>1, <4>2, <2>3
    <3>. QED
      BY <3>2
  <2>5. (\A i \in DOMAIN B : Ordered(B[i]))'
    <3>1. \A i \in DOMAIN B : \A j, k \in DOMAIN B[i] : j < k => Before(B[i][j], B[i][k])'
      BY <2>1 DEF Sorted, Ordered
    <3>. QED
      BY <3>1 DEF Ordered
  <2>6. Elements(pending') = Elements(pending) \cup {x}
    BY <1>0, PushElements
  <2>7. \A a \in Held(B'), b \in Elements(pending') : Before(a, b)'
    BY <2>1, <2>2, <2>6 DEF Sorted
  <2>. QED
    BY <2>4, <2>5, <2>7 DEF Sorted, Ordered
<1>4. CASE Drained
  <2>1. Ordered(pending') /\ Elements(pending') = {}
    BY <1>4 DEF Drained, Ordered, Elements
  <2>2. \A i \in DOMAIN B' : i = 1 \/ (i \in Nat /\ i > 1 /\ i - 1 \in DOMAIN B)
    BY <1>4 DEF Drained
  <2>3. B'[1] = pending /\ \A i \in DOMAIN B : B'[i + 1] = B[i]
    BY <1>4 DEF Drained
  <2>. HIDE DEF B
  <2>4. \A i \in DOMAIN B' : i = 1 \/ (i - 1 \in DOMAIN B /\ B'[i] = B[i - 1])
    <3> SUFFICES ASSUME NEW i \in DOMAIN B', i # 1
                 PROVE  i - 1 \in DOMAIN B /\ B'[i] = B[i - 1]
      OBVIOUS
    <3>1. i \in Nat /\ i - 1 \in DOMAIN B /\ (i - 1) + 1 = i
      BY <2>2
    <3>. QED
      BY <3>1, <2>3
  <2>5. \A i \in DOMAIN B' : Ordered(B'[i])
    BY <2>3, <2>4 DEF Sorted, B
  <2>. QED
    BY <1>2, <1>4, <2>1, <2>5 DEF Drained, Sorted, Ordered, B
<1>5. CASE Returned
  <2>1. 1 \in DOMAIN B /\ B[1] \in Seq(Items) /\ B[1] # <<>>
    BY <1>0, <1>5, BatchesOf DEF Returned, Types, Stack
  <2>2. Ordered(Tail(B[1]))
    BY <2>1, TailOrdered DEF Sorted
  <2>3. B' = [B EXCEPT ![1] = Tail(B[1])]
    BY <1>5 DEF Returned, Put
  <2>4. Elements(Tail(B[1])) \subseteq Elements(B[1])
    BY <2>1, PopElements DEF Holding, Apart
  <2>. HIDE DEF B
  <2>5. \A i \in DOMAIN B' : Ordered(B'[i])
    BY <2>1, <2>2, <2>3 DEF Sorted, B
  <2>6. Held(B') \subseteq Held(B)
    BY <2>1, <2>3, <2>4 DEF Held
  <2>. QED
    BY <1>2, <1>5, <2>5, <2>6 DEF Returned, Sorted, Ordered, B
<1>6. CASE Popped
  <2>1. \A i \in DOMAIN B' : i + 1 \in DOMAIN B /\ B'[i] = B[i + 1]
    BY <1>6 DEF Popped
  <2>2. Held(B') \subseteq Held(B)
    BY <2>1 DEF Held
  <2>3. \A i \in DOMAIN B' : Ordered(B'[i])
    BY <2>1 DEF Sorted
  <2>. QED
    BY <1>2, <1>6, <2>2, <2>3 DEF Popped, Sorted, Ordered
<1>. QED
  BY <1>1, <1>3, <1>4, <1>5, <1>6 DEF Moves, Still, Counted, Same, Here

LEMMA InitSorted == Init => Sorted
  BY DEF Init, Sorted, Ordered, Batches, Held, Elements

LEMMA NextSorted == Types /\ Holding /\ Sorted /\ [Next]_vars => Sorted'
  BY NextMoves, MovesSort DEF Holding
-------------------------------------------------------------------------------
(* The functors that are being executed *)

Calls(s) == {Head(s[i].batch) : i \in {j \in DOMAIN s : s[j].phase # "begin"}}

\* A functor begins at the front of the innermost batch, and nowhere else.
LEMMA FrontCalls ==
  ASSUME NEW s, Nested(s), s # <<>>, Head(s).batch # <<>>, NEW p \in Phases
  PROVE  Calls([s EXCEPT ![1].phase = p]) \subseteq Calls(s) \cup {Head(Head(s).batch)}
<1> DEFINE t == [s EXCEPT ![1].phase = p]
<1>1. /\ 1 \in DOMAIN s /\ s[1] = Head(s) /\ DOMAIN s = 1 .. Len(s)
      /\ DOMAIN t = DOMAIN s /\ Len(t) = Len(s)
  BY FrontMoves, BatchesOf DEF Nested
<1>2. \A i \in DOMAIN s : i # 1 => t[i] = s[i]
  BY <1>1
<1>3. t[1].batch = s[1].batch
  <2>1. Batches(t)[1] = Batches(s)[1]
    BY BatchesStay
  <2>. QED
    BY <2>1, <1>1 DEF Batches
<1>. HIDE DEF t
<1>4. Calls(t) \subseteq Calls(s) \cup {Head(Head(s).batch)}
  BY <1>1, <1>2, <1>3 DEF Calls
<1>. QED
  BY <1>4 DEF t

LEMMA CalleeCalls ==
  ASSUME NEW s, Nested(s), NEW b
  PROVE  Calls(<<Callee(b)>> \o s) = Calls(s)
<1> DEFINE t == <<Callee(b)>> \o s
<1>1. s \in Seq(Frames) /\ Len(s) \in Nat /\ DOMAIN s = 1 .. Len(s)
  BY BatchesOf
<1>2. DOMAIN t = 1 .. Len(s) + 1 /\ t[1] = Callee(b) /\ \A i \in 1 .. Len(s) : t[i + 1] = s[i]
  BY <1>1
<1>3. t[1].phase = "begin"
  BY <1>2 DEF Callee
<1>. HIDE DEF t
<1>4. \A i \in DOMAIN t : i = 1 \/ (i - 1 \in DOMAIN s /\ t[i] = s[i - 1])
  <2> SUFFICES ASSUME NEW i \in DOMAIN t, i # 1 PROVE i - 1 \in DOMAIN s /\ t[i] = s[i - 1]
    OBVIOUS
  <2>1. i - 1 \in DOMAIN s /\ (i - 1) + 1 = i
    BY <1>1, <1>2
  <2>. QED
    BY <2>1, <1>1, <1>2
<1>5. \A i \in DOMAIN s : i + 1 \in DOMAIN t /\ t[i + 1] = s[i]
  BY <1>1, <1>2
<1>6. Calls(t) = Calls(s)
  BY <1>3, <1>4, <1>5 DEF Calls
<1>. QED
  BY <1>6 DEF t

LEMMA TailCalls ==
  ASSUME NEW s, Nested(s), s # <<>>
  PROVE  Calls(Tail(s)) \subseteq Calls(s)
<1>1. s \in Seq(Frames)
  BY DEF Nested
<1>2. \A i \in DOMAIN Tail(s) : i + 1 \in DOMAIN s /\ Tail(s)[i] = s[i + 1]
  BY <1>1
<1> DEFINE t == Tail(s)
<1>. HIDE DEF t
<1>3. Calls(t) \subseteq Calls(s)
  BY <1>2 DEF Calls, t
<1>. QED
  BY <1>3 DEF t

CallsBegin ==
  \A y \in Calls(stack)' \ Calls(stack) :
    stack # <<>> /\ Head(stack).batch # <<>> /\ y = Head(Head(stack).batch)

LEMMA NextBegins == Types /\ [Next]_vars => CallsBegin
<1> SUFFICES ASSUME Types, [Next]_vars PROVE  CallsBegin
  OBVIOUS
<1> USE DEF CallsBegin, Types, flags, run
<1>1. CASE RunBegins /\ UNCHANGED kind
  BY <1>1 DEF RunBegins
<1>2. CASE Dispatch /\ UNCHANGED kind
  BY <1>2 DEF Dispatch
<1>3. CASE Receive /\ UNCHANGED kind
  BY <1>3 DEF Receive
<1>4. CASE ResetWatcher /\ UNCHANGED kind
  BY <1>4 DEF ResetWatcher
<1>5. CASE RunEnds /\ UNCHANGED kind
  BY <1>5 DEF RunEnds
<1>6. CASE TakeBatch /\ UNCHANGED kind
  <2> DEFINE s == StackAtTake
  <2>1. CASE loop = "take"
    <3>1. Nested(s) /\ Calls(s) = {}
      BY <2>1 DEF StackAtTake, Nested, Calls
    <3>. QED
      BY <1>6, <3>1, CalleeCalls DEF TakeBatch
  <2>2. CASE loop # "take"
    <3>1. loop = "batch" /\ stack # <<>> /\ Head(stack).phase # "begin"
      BY <1>6, <2>2 DEF TakeBatch, AtTake, InPhase, Stack
    <3>2. Head(stack).batch # <<>>
      BY <3>1, FrontIs DEF Stack
    <3>3. PICK p \in {"drained1", "drained2"} : s = [stack EXCEPT ![1].phase = p]
      BY <2>2 DEF StackAtTake, Becomes
    <3>4. p \in Phases
      BY DEF Phases
    <3>5. Nested(s) /\ Calls(s) \subseteq Calls(stack) \cup {Head(Head(stack).batch)}
      BY <3>1, <3>2, <3>3, <3>4, FrontMoves, FrontCalls DEF Stack
    <3>. HIDE DEF s
    <3>6. Calls(stack') = Calls(s)
      BY <1>6, <3>5, CalleeCalls DEF TakeBatch, s
    <3>. QED
      BY <3>1, <3>2, <3>5, <3>6
  <2>. QED
    BY <2>1, <2>2
<1>7. CASE Begin /\ UNCHANGED kind
  <2>1. /\ stack # <<>> /\ Head(stack).batch # <<>>
        /\ \E p \in Phases : stack' = [stack EXCEPT ![1].phase = p]
    BY <1>7, FrontIs DEF Begin, InPhase, Becomes, Phases, Stack
  <2>2. PICK p \in Phases : stack' = [stack EXCEPT ![1].phase = p]
    BY <2>1
  <2>. QED
    BY <2>1, <2>2, FrontCalls DEF Stack
<1>8. CASE EndFunctor /\ UNCHANGED kind
  <2>1. /\ stack # <<>> /\ Nested(stack)
        /\ stack' = <<Callee(Tail(Head(stack).batch))>> \o Tail(stack)
    BY <1>8 DEF EndFunctor, InPhase, Stack, Returns
  <2>2. Calls(stack') \subseteq Calls(stack)
    BY <2>1, TailNests, TailCalls, CalleeCalls
  <2>. QED
    BY <2>2
<1>9. CASE DrainAgain /\ UNCHANGED kind
  <2>1. /\ stack # <<>> /\ Head(stack).batch # <<>>
        /\ \E p \in Phases : stack' = [stack EXCEPT ![1].phase = p]
    BY <1>9, FrontIs DEF DrainAgain, InPhase, Becomes, Phases, Stack
  <2>2. PICK p \in Phases : stack' = [stack EXCEPT ![1].phase = p]
    BY <2>1
  <2>. QED
    BY <2>1, <2>2, FrontCalls DEF Stack
<1>10. CASE LoopExit /\ UNCHANGED kind
  <2>1. /\ stack # <<>> /\ Head(stack).batch # <<>>
        /\ \E p \in Phases : stack' = [stack EXCEPT ![1].phase = p]
    BY <1>10, FrontIs DEF LoopExit, InPhase, Becomes, Phases, Stack
  <2>2. PICK p \in Phases : stack' = [stack EXCEPT ![1].phase = p]
    BY <2>1
  <2>. QED
    BY <2>1, <2>2, FrontCalls DEF Stack
<1>11. CASE EndStop /\ UNCHANGED kind
  <2>1. /\ stack # <<>> /\ Nested(stack)
        /\ stack' = <<Callee(Tail(Head(stack).batch))>> \o Tail(stack)
    BY <1>11 DEF EndStop, InPhase, Stack, Returns
  <2>2. Calls(stack') \subseteq Calls(stack)
    BY <2>1, TailNests, TailCalls, CalleeCalls
  <2>. QED
    BY <2>2
<1>12. CASE EndBatch /\ UNCHANGED kind
  <2>1. stack # <<>> /\ Nested(stack) /\ stack' = Tail(stack)
    BY <1>12 DEF EndBatch, InPhase, Stack
  <2>2. Calls(stack') \subseteq Calls(stack)
    BY <2>1, TailCalls
  <2>. QED
    BY <2>2
<1>13. ASSUME NEW c \in Callers, PushStop(c), UNCHANGED kind PROVE CallsBegin
  BY <1>13 DEF PushStop, Push
<1>14. ASSUME NEW c \in Callers, Count(c), UNCHANGED kind PROVE CallsBegin
  BY <1>14 DEF Count
<1>15. ASSUME NEW c \in Callers, Test(c), UNCHANGED kind PROVE CallsBegin
  BY <1>15 DEF Test
<1>16. ASSUME NEW c \in Callers, Store(c), UNCHANGED kind PROVE CallsBegin
  BY <1>16 DEF Store
<1>17. ASSUME NEW c \in Callers, Notify(c), UNCHANGED kind PROVE CallsBegin
  BY <1>17 DEF Notify
<1>18. ASSUME NEW c \in Callers, NotifyDestroyed(c), UNCHANGED kind PROVE CallsBegin
  BY <1>18 DEF NotifyDestroyed
<1>19. ASSUME NEW c \in Callers, NEW f \in Functors, Queue(c, f), UNCHANGED kind
       PROVE  CallsBegin
  BY <1>19 DEF Queue, Push, MayCall
<1>20. ASSUME NEW f \in Functors, RunHere(f), UNCHANGED kind PROVE CallsBegin
  BY <1>20 DEF RunHere
<1>21. ASSUME NEW c \in Stoppers, CallStop(c), UNCHANGED kind PROVE CallsBegin
  BY <1>21 DEF CallStop, MayCall
<1>22. CASE UNCHANGED vars
  BY <1>22 DEF vars
<1>. QED
  BY <1>1, <1>2, <1>3, <1>4, <1>5, <1>6, <1>7, <1>8, <1>9, <1>10, <1>11, <1>12,
     <1>13, <1>14, <1>15, <1>16, <1>17, <1>18, <1>19, <1>20, <1>21, <1>22
  DEF Next, LoopStep, QueueStep, Call

LEMMA SortedKeepsOrder ==
  Types /\ Holding /\ Sorted /\ CallsBegin =>
    \A y \in InCall' \ InCall : \A x \in Items :
       Before(x, y) =>
         \/ x \in done \cup InCall
         \/ \E i \in 2 .. Len(stack) : x \in Members(stack[i].batch)
<1> SUFFICES ASSUME Types, Holding, Sorted, CallsBegin,
                    NEW y \in InCall' \ InCall, NEW x \in Items, Before(x, y), x \notin done
             PROVE  \E i \in 2 .. Len(stack) : x \in Members(stack[i].batch)
  OBVIOUS
<1> DEFINE B == Batches(stack)
<1>1. InCall = Calls(stack) /\ InCall' = Calls(stack)'
  BY DEF InCall, Calls
<1>2. stack # <<>> /\ Head(stack).batch # <<>> /\ y = Head(Head(stack).batch)
  BY <1>1 DEF CallsBegin
<1>3. /\ 1 \in DOMAIN B /\ DOMAIN B = 1 .. Len(stack) /\ Len(stack) \in Nat
      /\ B[1] \in Seq(Items) /\ B[1] # <<>> /\ y = Head(B[1])
      /\ \A i \in DOMAIN B : B[i] = stack[i].batch
  BY <1>2, BatchesOf DEF Types, Stack, Batches
<1>. HIDE DEF B
<1>4. Distinct(order) /\ ~Before(y, x)
  BY BeforeIsStrict DEF Holding
<1>5. x \in Waiting
  BY DEF Before, Waiting, Members
<1>6. y \in Elements(B[1]) /\ x \in Elements(B[1]) => x = y \/ Before(y, x)
  BY <1>3, TailOrdered, PopElements DEF Sorted, Holding, Apart, B
<1>7. x # y
  BY <1>4
<1>8. y \in Held(B)
  BY <1>3, PopElements DEF Held, Holding, Apart, B
<1>9. x \notin Elements(pending)
  BY <1>4, <1>8 DEF Sorted, B
<1>10. PICK i \in DOMAIN B : x \in Elements(B[i])
  BY <1>5, <1>9 DEF Holding, Held, B
<1>11. i # 1
  BY <1>3, <1>4, <1>7, <1>10, TailOrdered DEF Sorted, B
<1>. QED
  BY <1>3, <1>10, <1>11, MembersAreElements

\* QueueOrder, for every set of threads and functors: a functor begins before one that
\* was queued earlier only if the other stands behind a StopInLoop in an outer batch.
THEOREM QueueOrderIsKept == Spec => QueueOrder
<1> DEFINE A == \A y \in InCall' \ InCall : \A x \in Items :
                  Before(x, y) =>
                    \/ x \in done \cup InCall
                    \/ \E i \in 2 .. Len(stack) : x \in Members(stack[i].batch)
<1>1. Types /\ Holding /\ Sorted /\ [Next]_vars => [A]_vars
  BY NextBegins, SortedKeepsOrder
<1>. QED
  BY InitTypes, NextTypes, InitHolding, NextHolding, InitSorted, NextSorted, <1>1, PTL
  DEF Spec, QueueOrder
-------------------------------------------------------------------------------
(* Stop *)

DrainPhases == {"drain1", "drained1", "drain2", "drained2"}

Drains(s) == \A i \in DOMAIN s : s[i].phase \in DrainPhases => Head(s[i].batch) \in Stoppers

\* The loop is told to exit by a StopInLoop that has found the queue empty.
Exits == piped /\ Ended => exiting

EarlyDone ==
  exiting => /\ \E s \in Stoppers : s \in Members(order)
             /\ \A f \in Functors : QueuedBeforeStops(f) => f \in done

LEMMA NextExits == Types /\ Exits /\ [Next]_vars => Exits'
<1> SUFFICES ASSUME Types, Exits, [Next]_vars PROVE  Exits'
  OBVIOUS
<1> USE DEF Exits, Ended, Types, Flags, Stack, LoopPlaces, kind, flags, run
<1>1. CASE RunBegins /\ UNCHANGED kind
  BY <1>1 DEF RunBegins
<1>2. CASE Dispatch /\ UNCHANGED kind
  BY <1>2 DEF Dispatch, AfterAsyncWait
<1>3. CASE Receive /\ UNCHANGED kind
  BY <1>3 DEF Receive
<1>4. CASE ResetWatcher /\ UNCHANGED kind
  BY <1>4 DEF ResetWatcher
<1>5. CASE RunEnds /\ UNCHANGED kind
  BY <1>5 DEF RunEnds
<1>6. CASE TakeBatch /\ UNCHANGED kind
  BY <1>6 DEF TakeBatch, AtTake, InPhase
<1>7. CASE Begin /\ UNCHANGED kind
  BY <1>7 DEF Begin
<1>8. CASE EndFunctor /\ UNCHANGED kind
  BY <1>8 DEF EndFunctor, Returns, InPhase
<1>9. CASE DrainAgain /\ UNCHANGED kind
  BY <1>9 DEF DrainAgain
<1>10. CASE LoopExit /\ UNCHANGED kind
  BY <1>10 DEF LoopExit
<1>11. CASE EndStop /\ UNCHANGED kind
  BY <1>11 DEF EndStop, Returns, InPhase
<1>12. CASE EndBatch /\ UNCHANGED kind
  BY <1>12 DEF EndBatch, InPhase
<1>13. ASSUME NEW c \in Callers, PushStop(c), UNCHANGED kind PROVE Exits'
  BY <1>13 DEF PushStop, Push
<1>14. ASSUME NEW c \in Callers, Count(c), UNCHANGED kind PROVE Exits'
  BY <1>14 DEF Count
<1>15. ASSUME NEW c \in Callers, Test(c), UNCHANGED kind PROVE Exits'
  BY <1>15 DEF Test
<1>16. ASSUME NEW c \in Callers, Store(c), UNCHANGED kind PROVE Exits'
  BY <1>16 DEF Store
<1>17. ASSUME NEW c \in Callers, Notify(c), UNCHANGED kind PROVE Exits'
  BY <1>17 DEF Notify
<1>18. ASSUME NEW c \in Callers, NotifyDestroyed(c), UNCHANGED kind PROVE Exits'
  BY <1>18 DEF NotifyDestroyed
<1>19. ASSUME NEW c \in Callers, NEW f \in Functors, Queue(c, f), UNCHANGED kind
       PROVE  Exits'
  BY <1>19 DEF Queue, Push, MayCall
<1>20. ASSUME NEW f \in Functors, RunHere(f), UNCHANGED kind PROVE Exits'
  BY <1>20 DEF RunHere
<1>21. ASSUME NEW c \in Stoppers, CallStop(c), UNCHANGED kind PROVE Exits'
  BY <1>21 DEF CallStop, MayCall
<1>22. CASE UNCHANGED vars
  BY <1>22 DEF vars
<1>. QED
  BY <1>1, <1>2, <1>3, <1>4, <1>5, <1>6, <1>7, <1>8, <1>9, <1>10, <1>11, <1>12,
     <1>13, <1>14, <1>15, <1>16, <1>17, <1>18, <1>19, <1>20, <1>21, <1>22
  DEF Next, LoopStep, QueueStep, Call

LEMMA NextExiting == Types /\ [Next]_vars => (exiting' = exiting \/ LoopExit)
<1> SUFFICES ASSUME Types, [Next]_vars PROVE  exiting' = exiting \/ LoopExit
  OBVIOUS
<1> USE DEF flags, run
<1>1. CASE RunBegins /\ UNCHANGED kind
  BY <1>1 DEF RunBegins
<1>2. CASE Dispatch /\ UNCHANGED kind
  BY <1>2 DEF Dispatch
<1>3. CASE Receive /\ UNCHANGED kind
  BY <1>3 DEF Receive
<1>4. CASE ResetWatcher /\ UNCHANGED kind
  BY <1>4 DEF ResetWatcher
<1>5. CASE RunEnds /\ UNCHANGED kind
  BY <1>5 DEF RunEnds
<1>6. CASE TakeBatch /\ UNCHANGED kind
  BY <1>6 DEF TakeBatch
<1>7. CASE Begin /\ UNCHANGED kind
  BY <1>7 DEF Begin
<1>8. CASE EndFunctor /\ UNCHANGED kind
  BY <1>8 DEF EndFunctor, Returns
<1>9. CASE DrainAgain /\ UNCHANGED kind
  BY <1>9 DEF DrainAgain
<1>10. CASE LoopExit /\ UNCHANGED kind
  BY <1>10 DEF LoopExit
<1>11. CASE EndStop /\ UNCHANGED kind
  BY <1>11 DEF EndStop, Returns
<1>12. CASE EndBatch /\ UNCHANGED kind
  BY <1>12 DEF EndBatch
<1>13. ASSUME NEW c \in Callers, PushStop(c), UNCHANGED kind
       PROVE  exiting' = exiting \/ LoopExit
  BY <1>13 DEF PushStop, Push
<1>14. ASSUME NEW c \in Callers, Count(c), UNCHANGED kind
       PROVE  exiting' = exiting \/ LoopExit
  BY <1>14 DEF Count
<1>15. ASSUME NEW c \in Callers, Test(c), UNCHANGED kind
       PROVE  exiting' = exiting \/ LoopExit
  BY <1>15 DEF Test
<1>16. ASSUME NEW c \in Callers, Store(c), UNCHANGED kind
       PROVE  exiting' = exiting \/ LoopExit
  BY <1>16 DEF Store
<1>17. ASSUME NEW c \in Callers, Notify(c), UNCHANGED kind
       PROVE  exiting' = exiting \/ LoopExit
  BY <1>17 DEF Notify
<1>18. ASSUME NEW c \in Callers, NotifyDestroyed(c), UNCHANGED kind
       PROVE  exiting' = exiting \/ LoopExit
  BY <1>18 DEF NotifyDestroyed
<1>19. ASSUME NEW c \in Callers, NEW f \in Functors, Queue(c, f), UNCHANGED kind
       PROVE  exiting' = exiting \/ LoopExit
  BY <1>19 DEF Queue, Push, MayCall
<1>20. ASSUME NEW f \in Functors, RunHere(f), UNCHANGED kind
       PROVE  exiting' = exiting \/ LoopExit
  BY <1>20 DEF RunHere
<1>21. ASSUME NEW c \in Stoppers, CallStop(c), UNCHANGED kind
       PROVE  exiting' = exiting \/ LoopExit
  BY <1>21 DEF CallStop, MayCall
<1>22. CASE UNCHANGED vars
  BY <1>22 DEF vars
<1>. QED
  BY <1>1, <1>2, <1>3, <1>4, <1>5, <1>6, <1>7, <1>8, <1>9, <1>10, <1>11, <1>12,
     <1>13, <1>14, <1>15, <1>16, <1>17, <1>18, <1>19, <1>20, <1>21, <1>22
  DEF Next, LoopStep, QueueStep, Call

LEMMA FrontDrains ==
  ASSUME NEW s, Nested(s), s # <<>>, Drains(s), Head(s).phase \in DrainPhases
  PROVE  Head(Head(s).batch) \in Stoppers
<1>1. 1 \in DOMAIN s /\ Head(s) = s[1]
  BY DEF Nested
<1>. QED
  BY <1>1 DEF Drains

LEMMA DrainsStay ==
  ASSUME NEW s, Nested(s), s # <<>>, Drains(s), Head(s).batch # <<>>, NEW p \in Phases,
         p \in DrainPhases => Head(Head(s).batch) \in Stoppers,
         NEW t, t = [s EXCEPT ![1].phase = p]
  PROVE  Drains(t)
<1>1. /\ 1 \in DOMAIN s /\ s[1] = Head(s) /\ DOMAIN s = 1 .. Len(s)
      /\ DOMAIN t = DOMAIN s /\ Len(t) = Len(s) /\ t[1].phase = p
  BY FrontMoves, BatchesOf DEF Nested
<1>2. \A i \in DOMAIN s : i # 1 => t[i] = s[i]
  BY <1>1
<1>3. t[1].batch = s[1].batch
  <2>1. Batches(t)[1] = Batches(s)[1]
    BY BatchesStay
  <2>. QED
    BY <2>1, <1>1 DEF Batches
<1>. QED
  BY <1>1, <1>2, <1>3 DEF Drains

LEMMA CalleeDrains ==
  ASSUME NEW s, Nested(s), Drains(s), NEW b
  PROVE  Drains(<<Callee(b)>> \o s)
<1> DEFINE t == <<Callee(b)>> \o s
<1>1. s \in Seq(Frames) /\ Len(s) \in Nat /\ DOMAIN s = 1 .. Len(s)
  BY BatchesOf
<1>2. DOMAIN t = 1 .. Len(s) + 1 /\ t[1] = Callee(b) /\ \A i \in 1 .. Len(s) : t[i + 1] = s[i]
  BY <1>1
<1>3. t[1].phase \notin DrainPhases
  BY <1>2 DEF Callee, DrainPhases
<1>. HIDE DEF t
<1>4. \A i \in DOMAIN t : i = 1 \/ (i - 1 \in DOMAIN s /\ t[i] = s[i - 1])
  <2> SUFFICES ASSUME NEW i \in DOMAIN t, i # 1 PROVE i - 1 \in DOMAIN s /\ t[i] = s[i - 1]
    OBVIOUS
  <2>1. i - 1 \in DOMAIN s /\ (i - 1) + 1 = i
    BY <1>1, <1>2
  <2>. QED
    BY <2>1, <1>1, <1>2
<1>5. Drains(t)
  BY <1>3, <1>4 DEF Drains
<1>. QED
  BY <1>5 DEF t

LEMMA TailDrains ==
  ASSUME NEW s, Nested(s), s # <<>>, Drains(s)
  PROVE  Drains(Tail(s))
<1>1. s \in Seq(Frames)
  BY DEF Nested
<1>2. \A i \in DOMAIN Tail(s) : i + 1 \in DOMAIN s /\ Tail(s)[i] = s[i + 1]
  BY <1>1
<1> DEFINE t == Tail(s)
<1>. HIDE DEF t
<1>3. Drains(t)
  BY <1>2 DEF Drains, t
<1>. QED
  BY <1>3 DEF t

LEMMA NextDrains == Types /\ Drains(stack) /\ [Next]_vars => Drains(stack)'
<1> SUFFICES ASSUME Types, Drains(stack), [Next]_vars PROVE  Drains(stack)'
  OBVIOUS
<1> USE DEF Types, flags, run
<1>1. CASE RunBegins /\ UNCHANGED kind
  BY <1>1 DEF RunBegins
<1>2. CASE Dispatch /\ UNCHANGED kind
  BY <1>2 DEF Dispatch
<1>3. CASE Receive /\ UNCHANGED kind
  BY <1>3 DEF Receive
<1>4. CASE ResetWatcher /\ UNCHANGED kind
  BY <1>4 DEF ResetWatcher
<1>5. CASE RunEnds /\ UNCHANGED kind
  BY <1>5 DEF RunEnds
<1>6. CASE TakeBatch /\ UNCHANGED kind
  <2> DEFINE s == StackAtTake
  <2>1. CASE loop = "take"
    <3>1. Nested(s) /\ Drains(s)
      BY <2>1 DEF StackAtTake, Nested, Drains
    <3>. QED
      BY <1>6, <3>1, CalleeDrains DEF TakeBatch
  <2>2. CASE loop # "take"
    <3>1. loop = "batch" /\ stack # <<>> /\ Head(stack).phase \in DrainPhases
      BY <1>6, <2>2 DEF TakeBatch, AtTake, InPhase, Stack, DrainPhases
    <3>2. Head(stack).batch # <<>> /\ Head(Head(stack).batch) \in Stoppers
      BY <3>1, FrontIs, FrontDrains DEF Stack, DrainPhases
    <3>3. PICK p \in {"drained1", "drained2"} : s = [stack EXCEPT ![1].phase = p]
      BY <2>2 DEF StackAtTake, Becomes
    <3>4. p \in Phases
      BY DEF Phases
    <3>5. Nested(s) /\ Drains(s)
      BY <3>1, <3>2, <3>3, <3>4, FrontMoves, DrainsStay DEF Stack
    <3>. HIDE DEF s
    <3>. QED
      BY <1>6, <3>5, CalleeDrains DEF TakeBatch, s
  <2>. QED
    BY <2>1, <2>2
<1>7. CASE Begin /\ UNCHANGED kind
  <2>1. /\ stack # <<>> /\ Head(stack).batch # <<>>
        /\ \E p \in Phases : /\ stack' = [stack EXCEPT ![1].phase = p]
                             /\ p \in DrainPhases => Head(Head(stack).batch) \in Stoppers
    BY <1>7, FrontIs, FrontDrains DEF Begin, InPhase, Becomes, Phases, DrainPhases, Stack
  <2>2. PICK p \in Phases : /\ stack' = [stack EXCEPT ![1].phase = p]
                            /\ p \in DrainPhases => Head(Head(stack).batch) \in Stoppers
    BY <2>1
  <2>. QED
    BY <2>1, <2>2, DrainsStay DEF Stack
<1>8. CASE EndFunctor /\ UNCHANGED kind
  <2>1. /\ stack # <<>> /\ Nested(stack)
        /\ stack' = <<Callee(Tail(Head(stack).batch))>> \o Tail(stack)
    BY <1>8 DEF EndFunctor, InPhase, Stack, Returns
  <2>2. Drains(stack')
    BY <2>1, TailNests, TailDrains, CalleeDrains
  <2>. QED
    BY <2>2
<1>9. CASE DrainAgain /\ UNCHANGED kind
  <2>1. /\ stack # <<>> /\ Head(stack).batch # <<>>
        /\ \E p \in Phases : /\ stack' = [stack EXCEPT ![1].phase = p]
                             /\ p \in DrainPhases => Head(Head(stack).batch) \in Stoppers
    BY <1>9, FrontIs, FrontDrains DEF DrainAgain, InPhase, Becomes, Phases, DrainPhases, Stack
  <2>2. PICK p \in Phases : /\ stack' = [stack EXCEPT ![1].phase = p]
                            /\ p \in DrainPhases => Head(Head(stack).batch) \in Stoppers
    BY <2>1
  <2>. QED
    BY <2>1, <2>2, DrainsStay DEF Stack
<1>10. CASE LoopExit /\ UNCHANGED kind
  <2>1. /\ stack # <<>> /\ Head(stack).batch # <<>>
        /\ \E p \in Phases : /\ stack' = [stack EXCEPT ![1].phase = p]
                             /\ p \in DrainPhases => Head(Head(stack).batch) \in Stoppers
    BY <1>10, FrontIs, FrontDrains DEF LoopExit, InPhase, Becomes, Phases, DrainPhases, Stack
  <2>2. PICK p \in Phases : /\ stack' = [stack EXCEPT ![1].phase = p]
                            /\ p \in DrainPhases => Head(Head(stack).batch) \in Stoppers
    BY <2>1
  <2>. QED
    BY <2>1, <2>2, DrainsStay DEF Stack
<1>11. CASE EndStop /\ UNCHANGED kind
  <2>1. /\ stack # <<>> /\ Nested(stack)
        /\ stack' = <<Callee(Tail(Head(stack).batch))>> \o Tail(stack)
    BY <1>11 DEF EndStop, InPhase, Stack, Returns
  <2>2. Drains(stack')
    BY <2>1, TailNests, TailDrains, CalleeDrains
  <2>. QED
    BY <2>2
<1>12. CASE EndBatch /\ UNCHANGED kind
  <2>1. stack # <<>> /\ Nested(stack) /\ stack' = Tail(stack)
    BY <1>12 DEF EndBatch, InPhase, Stack
  <2>2. Drains(stack')
    BY <2>1, TailDrains
  <2>. QED
    BY <2>2
<1>13. ASSUME NEW c \in Callers, PushStop(c), UNCHANGED kind PROVE Drains(stack)'
  BY <1>13 DEF PushStop, Push
<1>14. ASSUME NEW c \in Callers, Count(c), UNCHANGED kind PROVE Drains(stack)'
  BY <1>14 DEF Count
<1>15. ASSUME NEW c \in Callers, Test(c), UNCHANGED kind PROVE Drains(stack)'
  BY <1>15 DEF Test
<1>16. ASSUME NEW c \in Callers, Store(c), UNCHANGED kind PROVE Drains(stack)'
  BY <1>16 DEF Store
<1>17. ASSUME NEW c \in Callers, Notify(c), UNCHANGED kind PROVE Drains(stack)'
  BY <1>17 DEF Notify
<1>18. ASSUME NEW c \in Callers, NotifyDestroyed(c), UNCHANGED kind PROVE Drains(stack)'
  BY <1>18 DEF NotifyDestroyed
<1>19. ASSUME NEW c \in Callers, NEW f \in Functors, Queue(c, f), UNCHANGED kind
       PROVE  Drains(stack)'
  BY <1>19 DEF Queue, Push, MayCall
<1>20. ASSUME NEW f \in Functors, RunHere(f), UNCHANGED kind PROVE Drains(stack)'
  BY <1>20 DEF RunHere
<1>21. ASSUME NEW c \in Stoppers, CallStop(c), UNCHANGED kind PROVE Drains(stack)'
  BY <1>21 DEF CallStop, MayCall
<1>22. CASE UNCHANGED vars
  BY <1>22 DEF vars
<1>. QED
  BY <1>1, <1>2, <1>3, <1>4, <1>5, <1>6, <1>7, <1>8, <1>9, <1>10, <1>11, <1>12,
     <1>13, <1>14, <1>15, <1>16, <1>17, <1>18, <1>19, <1>20, <1>21, <1>22
  DEF Next, LoopStep, QueueStep, Call

\* StopInLoop finds the queue empty: nothing that was queued before it is left.
LEMMA LoopExitIsLate ==
  ASSUME Types, Holding, Sorted, Drains(stack), LoopExit
  PROVE  /\ \E s \in Stoppers : s \in Members(order)
         /\ \A f \in Functors : QueuedBeforeStops(f) => f \in done
<1> DEFINE B == Batches(stack)
<1>1. /\ stack # <<>> /\ Head(stack).phase \in DrainPhases /\ pending = <<>>
      /\ Nested(stack)
  BY DEF LoopExit, InPhase, DrainPhases, Types, Stack
<1>2. /\ DOMAIN B = DOMAIN stack /\ 1 \in DOMAIN B
      /\ B \in [DOMAIN B -> Seq(Items)]
      /\ \A i \in DOMAIN B : B[i] = stack[i].batch
  BY <1>1, BatchesOf DEF Batches
<1>3. \A i \in DOMAIN B : i = 1 \/ i > 1
  BY <1>1, BatchesOf DEF Batches
<1>4. \A i \in DOMAIN B : stack[i].phase \in DrainPhases
  BY <1>1, <1>2, <1>3 DEF Nested, DrainPhases
<1>5. \A i \in DOMAIN B : Head(B[i]) \in Stoppers /\ B[i] # <<>>
  BY <1>1, <1>2, <1>4 DEF Drains, Nested, DrainPhases
<1>. HIDE DEF B
<1>6. \A i \in DOMAIN B : Head(B[i]) \in Elements(B[i])
  BY <1>2, <1>5, PopElements DEF Holding, Apart, B
<1>7. \A i \in DOMAIN B : Ordered(B[i])
  BY DEF Sorted, B
<1>8. Waiting = Held(B)
  BY <1>1 DEF Holding, Elements, B
<1>9. Head(B[1]) \in Members(order)
  BY <1>2, <1>6, <1>8 DEF Held, Waiting
<1>10. ASSUME NEW f \in Functors, QueuedBeforeStops(f), f \notin done PROVE FALSE
  <2>1. f \in Held(B)
    BY <1>8, <1>10 DEF QueuedBeforeStops, Waiting
  <2>2. PICK i \in DOMAIN B : f \in Elements(B[i])
    BY <2>1 DEF Held
  <2>3. f # Head(B[i])
    BY <1>5, CallersAssumption, FunctorsAssumption
  <2>4. Before(Head(B[i]), f)
    BY <1>2, <1>5, <1>7, <2>2, <2>3, TailOrdered
  <2>. QED
    BY <1>5, <1>10, <2>4 DEF QueuedBeforeStops
<1>. QED
  BY <1>2, <1>5, <1>9, <1>10

LEMMA NextEarly ==
  Types /\ Holding /\ Sorted /\ Drains(stack) /\ EarlyDone /\ [Next]_vars => EarlyDone'
<1> SUFFICES ASSUME Types, Holding, Sorted, Drains(stack), EarlyDone, [Next]_vars, exiting'
             PROVE  /\ \E s \in Stoppers : s \in Members(order')
                    /\ \A f \in Functors : QueuedBeforeStops(f)' => f \in done'
  BY DEF EarlyDone
<1>1. /\ \E s \in Stoppers : s \in Members(order)
      /\ \A f \in Functors : QueuedBeforeStops(f) => f \in done
  BY NextExiting, LoopExitIsLate DEF EarlyDone
<1>2. Moves
  BY NextMoves DEF Holding
<1>3. CASE order' = order
  <2>1. done \subseteq done'
    BY <1>2, <1>3 DEF Moves, Still, Counted, Same, Pushed, Drained, Returned, Popped, Here
  <2>. QED
    BY <1>1, <1>3, <2>1 DEF QueuedBeforeStops, Before
<1>4. CASE Pushed
  <2> PICK x \in Items : Fresh(x) /\ order' = Append(order, x) /\ done' = done
    BY <1>4 DEF Pushed
  <2>1. /\ \A a, b : Before(a, b) => Before(a, b)'
        /\ \A a \in Elements(order) : Before(a, x)'
    BY PushBefore
  <2>2. Elements(order') = Elements(order) \cup {x}
    BY PushElements DEF Types, Queues
  <2>3. ~QueuedBeforeStops(x)'
    BY <1>1, <2>1, MembersAreElements DEF QueuedBeforeStops
  <2>4. \A f : f # x /\ QueuedBeforeStops(f)' => QueuedBeforeStops(f)
    BY <2>1, <2>2, MembersAreElements DEF QueuedBeforeStops
  <2>. QED
    BY <1>1, <2>2, <2>3, <2>4, MembersAreElements
<1>. QED
  BY <1>2, <1>3, <1>4 DEF Moves, Still, Counted, Same, Drained, Returned, Popped, Here

\* EarlyRunFirst, for every set of threads and functors: event_base_loopexit is called
\* with the queue empty, every batch on the stack has a StopInLoop in front, and so
\* nothing that was queued before the first of them is left.
THEOREM EarlyFunctorsRun == Spec => []EarlyRunFirst
<1>1. Init => Exits /\ Drains(stack) /\ EarlyDone
  BY DEF Init, InitNotifyPipeWatcher, Exits, Ended, Drains, EarlyDone
<1>2. Exits /\ EarlyDone => EarlyRunFirst
  BY DEF Exits, EarlyDone, EarlyRunFirst
<1>. QED
  BY InitTypes, NextTypes, InitHolding, NextHolding, InitSorted, NextSorted, <1>1, <1>2,
     NextExits, NextDrains, NextEarly, PTL DEF Spec
================================================================================
