----------------------------- MODULE LoopPoolProofs -----------------------------
(***************************************************************************)
(* Theorems about LoopPool, for any number of threads, of calls of Stop    *)
(* and of users, and any set of loops whose pipe has failed.               *)
(***************************************************************************)
EXTENDS LoopPool, FiniteSetTheorems, TLAPS

OwnerPlaces  == {"new", "spawn", "poll", "push", "await", "idle", "assign", "ask",
                 "notify", "final", "join", "joined"}
ThreadPlaces == Starting \cup Looping \cup {"last", "test", "found", "calling", "leaving", "gone"}

\* The types, the counts apart.
Fields ==
  /\ num \in 0 .. MaxThreads
  /\ broken \subseteq Threads
  /\ shortcut \in BOOLEAN /\ waits \in BOOLEAN /\ withFn \in BOOLEAN
  /\ waited \in BOOLEAN
  /\ fault \in {"none", "pick", "callback", "notify"}
  /\ status \in Statuses
  /\ threads \in 0 .. num
  /\ owner \in OwnerPlaces
  /\ stops \in 0 .. MaxStops
  /\ cb \in 0 .. stops
  /\ next \in 1 .. num + 1
  /\ thread \in [Threads -> ThreadPlaces]
  /\ tstatus \in [Threads -> Statuses]
  /\ asked \subseteq Threads
  /\ at \in [Users -> {Inside} \cup 0 .. num]
  /\ called \subseteq 1 .. stops
  /\ owner = "assign" => cb < stops
  /\ owner = "notify" => next \in Threads

\* How far Start has come: the threads it has not created are "none", and it leaves
\* with threads_ complete.
Spawned ==
  /\ owner \in {"new", "spawn"} => \A i \in Threads : i > threads => thread[i] = "none"
  /\ owner \in {"poll", "push"} =>
       threads < num /\ \A i \in Threads : i > threads + 1 => thread[i] = "none"
  /\ owner \notin {"new", "spawn", "poll", "push", "joined"} => threads = num

\* A loop without pipe ends without starting.
BrokenNeverStart ==
  \A i \in broken : thread[i] \notin {"started", "announce", "loop"}

Started == {i \in Threads : thread[i] \notin Starting} \ broken
Exited  == {i \in Threads : thread[i] \notin Starting \cup Looping}

Counts == started = Cardinality(Started) /\ exited = Cardinality(Exited)

Shape == Fields /\ Spawned /\ BrokenNeverStart

LEMMA MaxIsNat == MaxThreads \in Nat /\ MaxStops \in Nat
  BY BoundsAssumption

LEMMA NextFields == Shape /\ [Next]_vars => Fields'
<1> SUFFICES ASSUME Shape, [Next]_vars PROVE Fields'
  OBVIOUS
<1> USE MaxIsNat DEF Shape, Fields, vars, setup, args, loops, hist, Threads, Spawned, Inside,
       Statuses, OwnerPlaces, ThreadPlaces, Starting, Looping
<1>1. ASSUME NEW wait \in BOOLEAN, Start(wait) PROVE Fields'
  BY <1>1 DEF Start, OwnerMoves
<1>2. CASE StartEmpty
  BY <1>2 DEF StartEmpty, OwnerMoves
<1>3. CASE StartThread
  BY <1>3 DEF StartThread, OwnerMoves
<1>4. CASE ThreadIsStarted
  BY <1>4 DEF ThreadIsStarted, OwnerMoves
<1>5. CASE PushThread
  BY <1>5 DEF PushThread, OwnerMoves
<1>6. CASE AllSpawned
  BY <1>6 DEF AllSpawned, OwnerMoves
<1>7. CASE AwaitRunning
  BY <1>7 DEF AwaitRunning, OwnerMoves
<1>8. ASSUME NEW wait \in BOOLEAN, NEW fn \in BOOLEAN, Stop(wait, fn) PROVE Fields'
  <2>1. /\ stops \in Nat /\ stops' = stops + 1 /\ stops' \in 0 .. MaxStops /\ cb' = cb /\ cb' = cb
        /\ called' = called
    BY <1>8 DEF Stop
  <2>2. called' \subseteq 1 .. stops' /\ cb' \in 0 .. stops' /\ cb' < stops'
    BY <2>1
  <2>. QED
    BY <1>8, <2>1, <2>2 DEF Stop, OwnerMoves
<1>9. CASE StopEmpty
  <2>1. stops \in 1 .. stops /\ stops' = stops
    BY <1>9 DEF StopEmpty, OwnerMoves
  <2>2. called' \subseteq 1 .. stops'
    BY <1>9, <2>1 DEF StopEmpty
  <2>. QED
    BY <1>9, <2>1, <2>2 DEF StopEmpty, OwnerMoves
<1>10. CASE AssignCallback
  <2>1. cb' \in 0 .. stops' /\ owner' = "ask"
    BY <1>10 DEF AssignCallback, OwnerMoves, Given
  <2>. QED
    BY <1>10, <2>1 DEF AssignCallback, OwnerMoves
<1>11. CASE AskThread
  BY <1>11 DEF AskThread, OwnerMoves
<1>12. CASE NotifyLoop
  BY <1>12 DEF NotifyLoop, OwnerMoves
<1>13. CASE AwaitExit
  BY <1>13 DEF AwaitExit, OwnerMoves
<1>14. CASE StopReturns
  BY <1>14 DEF StopReturns, OwnerMoves
<1>15. CASE Join
  BY <1>15 DEF Join, OwnerMoves
<1>16. CASE JoinReturns
  BY <1>16 DEF JoinReturns, OwnerMoves
<1>17. ASSUME NEW i \in Threads, RunFirst(i) PROVE Fields'
  BY <1>17 DEF RunFirst, Moves
<1>18. ASSUME NEW i \in Threads, RunFails(i) PROVE Fields'
  BY <1>18 DEF RunFails, Moves
<1>19. ASSUME NEW i \in Threads, CountStarted(i) PROVE Fields'
  BY <1>19 DEF CountStarted, Moves
<1>20. ASSUME NEW i \in Threads, Announce(i) PROVE Fields'
  BY <1>20 DEF Announce, Moves
<1>21. ASSUME NEW i \in Threads, LoopEnds(i) PROVE Fields'
  BY <1>21 DEF LoopEnds, Moves
<1>22. ASSUME NEW i \in Threads, CountExited(i) PROVE Fields'
  BY <1>22 DEF CountExited, Moves
<1>23. ASSUME NEW i \in Threads, StoreStopped(i) PROVE Fields'
  BY <1>23 DEF StoreStopped, Moves
<1>24. ASSUME NEW i \in Threads, TestCallback(i) PROVE Fields'
  BY <1>24 DEF TestCallback, Moves
<1>25. ASSUME NEW i \in Threads, CallBack(i) PROVE Fields'
  <2>1. stops \in Nat /\ stops' = stops /\ Seen \subseteq 0 .. stops
    BY <1>25 DEF CallBack, Moves, Seen, Given
  <2>2. called' \subseteq 1 .. stops'
    BY <1>25, <2>1 DEF CallBack
  <2>. QED
    BY <1>25, <2>1, <2>2 DEF CallBack, Moves
<1>26. ASSUME NEW i \in Threads, CallUnsafe(i) PROVE Fields'
  BY <1>26 DEF CallUnsafe
<1>27. ASSUME NEW i \in Threads, ClearCallback(i) PROVE Fields'
  BY <1>27 DEF ClearCallback, Moves
<1>28. ASSUME NEW i \in Threads, Leave(i) PROVE Fields'
  BY <1>28 DEF Leave, Moves
<1>29. ASSUME NEW u \in Users, Look(u) PROVE Fields'
  BY <1>29 DEF Look
<1>30. ASSUME NEW u \in Users, Pick(u) PROVE Fields'
  BY <1>30 DEF Pick
<1>31. ASSUME NEW u \in Users, PickUnsafe(u) PROVE Fields'
  BY <1>31 DEF PickUnsafe
<1>32. CASE UNCHANGED vars
  BY <1>32
<1>. QED
  BY <1>1, <1>2, <1>3, <1>4, <1>5, <1>6, <1>7, <1>8, <1>9, <1>10, <1>11, <1>12, <1>13, <1>14,
     <1>15, <1>16, <1>17, <1>18, <1>19, <1>20, <1>21, <1>22, <1>23, <1>24, <1>25, <1>26, <1>27,
     <1>28, <1>29, <1>30, <1>31, <1>32 DEF Next, OwnerStep, ThreadStep, Call

LEMMA NextSpawned == Shape /\ [Next]_vars => Spawned'
<1> SUFFICES ASSUME Shape, [Next]_vars PROVE Spawned'
  OBVIOUS
<1> USE MaxIsNat DEF Shape, Spawned, Fields, vars, setup, args, loops, hist, Threads,
       OwnerPlaces
<1>1. ASSUME NEW wait \in BOOLEAN, Start(wait) PROVE Spawned'
  BY <1>1 DEF Start, OwnerMoves
<1>2. CASE StartEmpty
  BY <1>2 DEF StartEmpty, OwnerMoves
<1>3. CASE StartThread
  BY <1>3 DEF StartThread, OwnerMoves
<1>4. CASE ThreadIsStarted
  BY <1>4 DEF ThreadIsStarted, OwnerMoves
<1>5. CASE PushThread
  BY <1>5 DEF PushThread, OwnerMoves
<1>6. CASE AllSpawned
  BY <1>6 DEF AllSpawned, OwnerMoves
<1>7. CASE AwaitRunning
  BY <1>7 DEF AwaitRunning, OwnerMoves
<1>8. ASSUME NEW wait \in BOOLEAN, NEW fn \in BOOLEAN, Stop(wait, fn) PROVE Spawned'
  BY <1>8 DEF Stop, OwnerMoves
<1>9. CASE StopEmpty
  BY <1>9 DEF StopEmpty, OwnerMoves
<1>10. CASE AssignCallback
  BY <1>10 DEF AssignCallback, OwnerMoves
<1>11. CASE AskThread
  BY <1>11 DEF AskThread, OwnerMoves
<1>12. CASE NotifyLoop
  BY <1>12 DEF NotifyLoop, OwnerMoves
<1>13. CASE AwaitExit
  BY <1>13 DEF AwaitExit, OwnerMoves
<1>14. CASE StopReturns
  BY <1>14 DEF StopReturns, OwnerMoves
<1>15. CASE Join
  BY <1>15 DEF Join, OwnerMoves
<1>16. CASE JoinReturns
  BY <1>16 DEF JoinReturns, OwnerMoves
<1>17. ASSUME NEW i \in Threads, RunFirst(i) PROVE Spawned'
  BY <1>17 DEF RunFirst, Moves
<1>18. ASSUME NEW i \in Threads, RunFails(i) PROVE Spawned'
  BY <1>18 DEF RunFails, Moves
<1>19. ASSUME NEW i \in Threads, CountStarted(i) PROVE Spawned'
  BY <1>19 DEF CountStarted, Moves
<1>20. ASSUME NEW i \in Threads, Announce(i) PROVE Spawned'
  BY <1>20 DEF Announce, Moves
<1>21. ASSUME NEW i \in Threads, LoopEnds(i) PROVE Spawned'
  BY <1>21 DEF LoopEnds, Moves
<1>22. ASSUME NEW i \in Threads, CountExited(i) PROVE Spawned'
  BY <1>22 DEF CountExited, Moves
<1>23. ASSUME NEW i \in Threads, StoreStopped(i) PROVE Spawned'
  BY <1>23 DEF StoreStopped, Moves
<1>24. ASSUME NEW i \in Threads, TestCallback(i) PROVE Spawned'
  BY <1>24 DEF TestCallback, Moves
<1>25. ASSUME NEW i \in Threads, CallBack(i) PROVE Spawned'
  BY <1>25 DEF CallBack, Moves
<1>26. ASSUME NEW i \in Threads, CallUnsafe(i) PROVE Spawned'
  BY <1>26 DEF CallUnsafe
<1>27. ASSUME NEW i \in Threads, ClearCallback(i) PROVE Spawned'
  BY <1>27 DEF ClearCallback, Moves
<1>28. ASSUME NEW i \in Threads, Leave(i) PROVE Spawned'
  BY <1>28 DEF Leave, Moves
<1>29. ASSUME NEW u \in Users, Look(u) PROVE Spawned'
  BY <1>29 DEF Look
<1>30. ASSUME NEW u \in Users, Pick(u) PROVE Spawned'
  BY <1>30 DEF Pick
<1>31. ASSUME NEW u \in Users, PickUnsafe(u) PROVE Spawned'
  BY <1>31 DEF PickUnsafe
<1>32. CASE UNCHANGED vars
  BY <1>32
<1>. QED
  BY <1>1, <1>2, <1>3, <1>4, <1>5, <1>6, <1>7, <1>8, <1>9, <1>10, <1>11, <1>12, <1>13, <1>14,
     <1>15, <1>16, <1>17, <1>18, <1>19, <1>20, <1>21, <1>22, <1>23, <1>24, <1>25, <1>26, <1>27,
     <1>28, <1>29, <1>30, <1>31, <1>32 DEF Next, OwnerStep, ThreadStep, Call

LEMMA NextBroken == Shape /\ [Next]_vars => BrokenNeverStart'
<1> SUFFICES ASSUME Shape, [Next]_vars PROVE BrokenNeverStart'
  OBVIOUS
<1> USE MaxIsNat DEF Shape, Spawned, BrokenNeverStart, Fields, vars, setup, args, loops, hist,
       Threads
<1>1. ASSUME NEW wait \in BOOLEAN, Start(wait) PROVE BrokenNeverStart'
  BY <1>1 DEF Start, OwnerMoves
<1>2. CASE StartEmpty
  BY <1>2 DEF StartEmpty, OwnerMoves
<1>3. CASE StartThread
  BY <1>3 DEF StartThread, OwnerMoves
<1>4. CASE ThreadIsStarted
  BY <1>4 DEF ThreadIsStarted, OwnerMoves
<1>5. CASE PushThread
  BY <1>5 DEF PushThread, OwnerMoves
<1>6. CASE AllSpawned
  BY <1>6 DEF AllSpawned, OwnerMoves
<1>7. CASE AwaitRunning
  BY <1>7 DEF AwaitRunning, OwnerMoves
<1>8. ASSUME NEW wait \in BOOLEAN, NEW fn \in BOOLEAN, Stop(wait, fn) PROVE BrokenNeverStart'
  BY <1>8 DEF Stop, OwnerMoves
<1>9. CASE StopEmpty
  BY <1>9 DEF StopEmpty, OwnerMoves
<1>10. CASE AssignCallback
  BY <1>10 DEF AssignCallback, OwnerMoves
<1>11. CASE AskThread
  BY <1>11 DEF AskThread, OwnerMoves
<1>12. CASE NotifyLoop
  BY <1>12 DEF NotifyLoop, OwnerMoves
<1>13. CASE AwaitExit
  BY <1>13 DEF AwaitExit, OwnerMoves
<1>14. CASE StopReturns
  BY <1>14 DEF StopReturns, OwnerMoves
<1>15. CASE Join
  BY <1>15 DEF Join, OwnerMoves
<1>16. CASE JoinReturns
  BY <1>16 DEF JoinReturns, OwnerMoves
<1>17. ASSUME NEW i \in Threads, RunFirst(i) PROVE BrokenNeverStart'
  BY <1>17 DEF RunFirst, Moves
<1>18. ASSUME NEW i \in Threads, RunFails(i) PROVE BrokenNeverStart'
  BY <1>18 DEF RunFails, Moves
<1>19. ASSUME NEW i \in Threads, CountStarted(i) PROVE BrokenNeverStart'
  BY <1>19 DEF CountStarted, Moves
<1>20. ASSUME NEW i \in Threads, Announce(i) PROVE BrokenNeverStart'
  BY <1>20 DEF Announce, Moves
<1>21. ASSUME NEW i \in Threads, LoopEnds(i) PROVE BrokenNeverStart'
  BY <1>21 DEF LoopEnds, Moves
<1>22. ASSUME NEW i \in Threads, CountExited(i) PROVE BrokenNeverStart'
  BY <1>22 DEF CountExited, Moves
<1>23. ASSUME NEW i \in Threads, StoreStopped(i) PROVE BrokenNeverStart'
  BY <1>23 DEF StoreStopped, Moves
<1>24. ASSUME NEW i \in Threads, TestCallback(i) PROVE BrokenNeverStart'
  BY <1>24 DEF TestCallback, Moves
<1>25. ASSUME NEW i \in Threads, CallBack(i) PROVE BrokenNeverStart'
  BY <1>25 DEF CallBack, Moves
<1>26. ASSUME NEW i \in Threads, CallUnsafe(i) PROVE BrokenNeverStart'
  BY <1>26 DEF CallUnsafe
<1>27. ASSUME NEW i \in Threads, ClearCallback(i) PROVE BrokenNeverStart'
  BY <1>27 DEF ClearCallback, Moves
<1>28. ASSUME NEW i \in Threads, Leave(i) PROVE BrokenNeverStart'
  BY <1>28 DEF Leave, Moves
<1>29. ASSUME NEW u \in Users, Look(u) PROVE BrokenNeverStart'
  BY <1>29 DEF Look
<1>30. ASSUME NEW u \in Users, Pick(u) PROVE BrokenNeverStart'
  BY <1>30 DEF Pick
<1>31. ASSUME NEW u \in Users, PickUnsafe(u) PROVE BrokenNeverStart'
  BY <1>31 DEF PickUnsafe
<1>32. CASE UNCHANGED vars
  BY <1>32
<1>. QED
  BY <1>1, <1>2, <1>3, <1>4, <1>5, <1>6, <1>7, <1>8, <1>9, <1>10, <1>11, <1>12, <1>13, <1>14,
     <1>15, <1>16, <1>17, <1>18, <1>19, <1>20, <1>21, <1>22, <1>23, <1>24, <1>25, <1>26, <1>27,
     <1>28, <1>29, <1>30, <1>31, <1>32 DEF Next, OwnerStep, ThreadStep, Call

\* One more element in a counted set, and a counted set that is complete.
LEMMA CountOne ==
  ASSUME NEW S, IsFiniteSet(S), NEW x, x \notin S
  PROVE  Cardinality(S \cup {x}) = Cardinality(S) + 1
  BY FS_AddElement

LEMMA ThreadsAreCounted ==
  ASSUME num \in Nat
  PROVE  /\ IsFiniteSet(Threads) /\ Cardinality(Threads) = num
         /\ \A S \in SUBSET Threads :
              IsFiniteSet(S) /\ (Cardinality(S) = num => S = Threads)
<1>1. IsFiniteSet(Threads) /\ Cardinality(Threads) = num
  <2>1. 1 <= num + 1 /\ 1 \in Int /\ num \in Int
    OBVIOUS
  <2>2. IsFiniteSet(1 .. num) /\ Cardinality(1 .. num) = (IF 1 > num THEN 0 ELSE num - 1 + 1)
    BY <2>1, FS_Interval
  <2>. QED
    BY <2>2 DEF Threads
<1>2. ASSUME NEW S \in SUBSET Threads PROVE IsFiniteSet(S) /\ (Cardinality(S) = num => S = Threads)
  BY <1>1, FS_Subset
<1>. QED
  BY <1>1, <1>2

LEMMA NextCounts == Shape /\ Counts /\ [Next]_vars => Counts'
<1> SUFFICES ASSUME Shape, Counts, [Next]_vars PROVE Counts'
  OBVIOUS
<1> USE MaxIsNat DEF Shape, Spawned, BrokenNeverStart, Counts, Fields, vars, setup, args,
       loops, hist, Threads
<1>0. IsFiniteSet(Started) /\ IsFiniteSet(Exited)
  BY ThreadsAreCounted DEF Started, Exited
<1> DEFINE Same == thread' = thread /\ num' = num /\ broken' = broken
<1>s. Same => Started' = Started /\ Exited' = Exited
  BY DEF Started, Exited
<1> HIDE DEF Same
<1>1. ASSUME NEW wait \in BOOLEAN, Start(wait) PROVE Counts'
  <2>1. Same
    BY <1>1 DEF Start, OwnerMoves, Same
  <2>. QED
    BY <1>1, <2>1, <1>s DEF Start, OwnerMoves
<1>2. CASE StartEmpty
  <2>1. Same
    BY <1>2 DEF StartEmpty, OwnerMoves, Same
  <2>. QED
    BY <1>2, <2>1, <1>s DEF StartEmpty, OwnerMoves
<1>3. CASE StartThread
  <2>1. Started' = Started /\ Exited' = Exited
    BY <1>3 DEF StartThread, OwnerMoves, Started, Exited, Starting, Looping, ThreadPlaces
  <2>. QED
    BY <1>3, <2>1 DEF StartThread, OwnerMoves
<1>4. CASE ThreadIsStarted
  <2>1. Same
    BY <1>4 DEF ThreadIsStarted, OwnerMoves, Same
  <2>. QED
    BY <1>4, <2>1, <1>s DEF ThreadIsStarted, OwnerMoves
<1>5. CASE PushThread
  <2>1. Same
    BY <1>5 DEF PushThread, OwnerMoves, Same
  <2>. QED
    BY <1>5, <2>1, <1>s DEF PushThread, OwnerMoves
<1>6. CASE AllSpawned
  <2>1. Same
    BY <1>6 DEF AllSpawned, OwnerMoves, Same
  <2>. QED
    BY <1>6, <2>1, <1>s DEF AllSpawned, OwnerMoves
<1>7. CASE AwaitRunning
  <2>1. Same
    BY <1>7 DEF AwaitRunning, OwnerMoves, Same
  <2>. QED
    BY <1>7, <2>1, <1>s DEF AwaitRunning, OwnerMoves
<1>8. ASSUME NEW wait \in BOOLEAN, NEW fn \in BOOLEAN, Stop(wait, fn) PROVE Counts'
  <2>1. Same
    BY <1>8 DEF Stop, OwnerMoves, Same
  <2>. QED
    BY <1>8, <2>1, <1>s DEF Stop, OwnerMoves
<1>9. CASE StopEmpty
  <2>1. Same
    BY <1>9 DEF StopEmpty, OwnerMoves, Same
  <2>. QED
    BY <1>9, <2>1, <1>s DEF StopEmpty, OwnerMoves
<1>10. CASE AssignCallback
  <2>1. Same
    BY <1>10 DEF AssignCallback, OwnerMoves, Same
  <2>. QED
    BY <1>10, <2>1, <1>s DEF AssignCallback, OwnerMoves
<1>11. CASE AskThread
  <2>1. Same
    BY <1>11 DEF AskThread, OwnerMoves, Same
  <2>. QED
    BY <1>11, <2>1, <1>s DEF AskThread, OwnerMoves
<1>12. CASE NotifyLoop
  <2>1. Same
    BY <1>12 DEF NotifyLoop, OwnerMoves, Same
  <2>. QED
    BY <1>12, <2>1, <1>s DEF NotifyLoop, OwnerMoves
<1>13. CASE AwaitExit
  <2>1. Same
    BY <1>13 DEF AwaitExit, OwnerMoves, Same
  <2>. QED
    BY <1>13, <2>1, <1>s DEF AwaitExit, OwnerMoves
<1>14. CASE StopReturns
  <2>1. Same
    BY <1>14 DEF StopReturns, OwnerMoves, Same
  <2>. QED
    BY <1>14, <2>1, <1>s DEF StopReturns, OwnerMoves
<1>15. CASE Join
  <2>1. Same
    BY <1>15 DEF Join, OwnerMoves, Same
  <2>. QED
    BY <1>15, <2>1, <1>s DEF Join, OwnerMoves
<1>16. CASE JoinReturns
  <2>1. Same
    BY <1>16 DEF JoinReturns, OwnerMoves, Same
  <2>. QED
    BY <1>16, <2>1, <1>s DEF JoinReturns, OwnerMoves
<1>17. ASSUME NEW i \in Threads, RunFirst(i) PROVE Counts'
  <2>1. Started' = Started /\ Exited' = Exited
    BY <1>17 DEF RunFirst, Moves, Started, Exited, Starting, Looping, ThreadPlaces
  <2>. QED
    BY <1>17, <2>1 DEF RunFirst, Moves
<1>18. ASSUME NEW i \in Threads, RunFails(i) PROVE Counts'
  <2>1. Started' = Started /\ Exited' = Exited
    BY <1>18 DEF RunFails, Moves, Started, Exited, Starting, Looping, ThreadPlaces
  <2>. QED
    BY <1>18, <2>1 DEF RunFails, Moves
<1>19. ASSUME NEW i \in Threads, CountStarted(i) PROVE Counts'
  <2>1. i \notin Started /\ Started' = Started \cup {i} /\ Exited' = Exited
    BY <1>19 DEF CountStarted, Moves, Started, Exited, Starting, Looping, ThreadPlaces
  <2>2. Cardinality(Started') = Cardinality(Started) + 1
    BY <2>1, <1>0, CountOne
  <2>. QED
    BY <1>19, <2>1, <2>2 DEF CountStarted, Moves
<1>20. ASSUME NEW i \in Threads, Announce(i) PROVE Counts'
  <2>1. Started' = Started /\ Exited' = Exited
    BY <1>20 DEF Announce, Moves, Started, Exited, Starting, Looping, ThreadPlaces
  <2>. QED
    BY <1>20, <2>1 DEF Announce, Moves
<1>21. ASSUME NEW i \in Threads, LoopEnds(i) PROVE Counts'
  <2>1. Started' = Started /\ Exited' = Exited
    BY <1>21 DEF LoopEnds, Moves, Started, Exited, Starting, Looping, ThreadPlaces
  <2>. QED
    BY <1>21, <2>1 DEF LoopEnds, Moves
<1>22. ASSUME NEW i \in Threads, CountExited(i) PROVE Counts'
  <2>1. i \notin Exited /\ Exited' = Exited \cup {i} /\ Started' = Started
    BY <1>22 DEF CountExited, Moves, Started, Exited, Starting, Looping, ThreadPlaces
  <2>2. Cardinality(Exited') = Cardinality(Exited) + 1
    BY <2>1, <1>0, CountOne
  <2>. QED
    BY <1>22, <2>1, <2>2 DEF CountExited, Moves
<1>23. ASSUME NEW i \in Threads, StoreStopped(i) PROVE Counts'
  <2>1. Started' = Started /\ Exited' = Exited
    BY <1>23 DEF StoreStopped, Moves, Started, Exited, Starting, Looping, ThreadPlaces
  <2>. QED
    BY <1>23, <2>1 DEF StoreStopped, Moves
<1>24. ASSUME NEW i \in Threads, TestCallback(i) PROVE Counts'
  <2>1. Started' = Started /\ Exited' = Exited
    BY <1>24 DEF TestCallback, Moves, Started, Exited, Starting, Looping, ThreadPlaces
  <2>. QED
    BY <1>24, <2>1 DEF TestCallback, Moves
<1>25. ASSUME NEW i \in Threads, CallBack(i) PROVE Counts'
  <2>1. Started' = Started /\ Exited' = Exited
    BY <1>25 DEF CallBack, Moves, Started, Exited, Starting, Looping, ThreadPlaces
  <2>. QED
    BY <1>25, <2>1 DEF CallBack, Moves
<1>26. ASSUME NEW i \in Threads, CallUnsafe(i) PROVE Counts'
  <2>1. Same
    BY <1>26 DEF CallUnsafe, Same
  <2>. QED
    BY <1>26, <2>1, <1>s DEF CallUnsafe
<1>27. ASSUME NEW i \in Threads, ClearCallback(i) PROVE Counts'
  <2>1. Started' = Started /\ Exited' = Exited
    BY <1>27 DEF ClearCallback, Moves, Started, Exited, Starting, Looping, ThreadPlaces
  <2>. QED
    BY <1>27, <2>1 DEF ClearCallback, Moves
<1>28. ASSUME NEW i \in Threads, Leave(i) PROVE Counts'
  <2>1. Started' = Started /\ Exited' = Exited
    BY <1>28 DEF Leave, Moves, Started, Exited, Starting, Looping, ThreadPlaces
  <2>. QED
    BY <1>28, <2>1 DEF Leave, Moves
<1>29. ASSUME NEW u \in Users, Look(u) PROVE Counts'
  <2>1. Same
    BY <1>29 DEF Look, Same
  <2>. QED
    BY <1>29, <2>1, <1>s DEF Look
<1>30. ASSUME NEW u \in Users, Pick(u) PROVE Counts'
  <2>1. Same
    BY <1>30 DEF Pick, Same
  <2>. QED
    BY <1>30, <2>1, <1>s DEF Pick
<1>31. ASSUME NEW u \in Users, PickUnsafe(u) PROVE Counts'
  <2>1. Same
    BY <1>31 DEF PickUnsafe, Same
  <2>. QED
    BY <1>31, <2>1, <1>s DEF PickUnsafe
<1>32. CASE UNCHANGED vars
  <2>1. Same
    BY <1>32 DEF Same
  <2>. QED
    BY <1>32, <2>1, <1>s
<1>. QED
  BY <1>1, <1>2, <1>3, <1>4, <1>5, <1>6, <1>7, <1>8, <1>9, <1>10, <1>11, <1>12, <1>13, <1>14,
     <1>15, <1>16, <1>17, <1>18, <1>19, <1>20, <1>21, <1>22, <1>23, <1>24, <1>25, <1>26, <1>27,
     <1>28, <1>29, <1>30, <1>31, <1>32 DEF Next, OwnerStep, ThreadStep, Call

LEMMA TypesImplyTypeOK == Shape /\ Counts => TypeOK
<1> SUFFICES ASSUME Shape, Counts PROVE TypeOK
  OBVIOUS
<1>1. {shortcut, waits, withFn, waited} \subseteq BOOLEAN
  BY DEF Shape, Fields
<1>2. /\ started = Cardinality({i \in Threads : thread[i] \notin Starting} \ broken)
      /\ exited = Cardinality({i \in Threads : thread[i] \notin Starting \cup Looping})
  BY DEF Counts, Started, Exited
<1>. QED
  BY <1>1, <1>2 DEF Shape, Fields, TypeOK, OwnerPlaces, ThreadPlaces

LEMMA InitShape == Init => Shape /\ Counts
<1> SUFFICES ASSUME Init PROVE Shape /\ Counts
  OBVIOUS
<1>0. num \in 0 .. MaxThreads /\ num \in Nat /\ MaxStops \in Nat
  BY MaxIsNat DEF Init
<1>1. Fields
  <2>1. /\ broken \subseteq Threads /\ asked \subseteq Threads
        /\ thread \in [Threads -> ThreadPlaces] /\ tstatus \in [Threads -> Statuses]
        /\ at \in [Users -> {Inside} \cup 0 .. num]
    BY <1>0 DEF Init, ThreadPlaces, Starting, Statuses
  <2>2. /\ status \in Statuses /\ owner \in OwnerPlaces /\ owner # "assign"
        /\ threads \in 0 .. num /\ next \in 1 .. num + 1
        /\ stops \in 0 .. MaxStops /\ cb \in 0 .. stops /\ called \subseteq 1 .. stops
    BY <1>0 DEF Init, OwnerPlaces, Statuses
  <2>. QED
    BY <1>0, <2>1, <2>2 DEF Init, Fields
<1>2. Spawned /\ BrokenNeverStart
  BY MaxIsNat DEF Init, Spawned, BrokenNeverStart, Threads
<1>3. Started = {} /\ Exited = {}
  BY DEF Init, Started, Exited, Starting
<1>4. Counts
  BY <1>3, FS_EmptySet DEF Init, Counts
<1>. QED
  BY <1>1, <1>2, <1>4 DEF Shape

LEMMA NextShape == Shape /\ Counts /\ [Next]_vars => (Shape /\ Counts)'
  BY NextFields, NextSpawned, NextBroken, NextCounts DEF Shape

\* TypeOK, for every number of threads: in particular the counters of started and
\* exited threads, which decide who is the last, are exact.
THEOREM LoopPoolTypeCorrect == Spec => []TypeOK
  BY InitShape, NextShape, TypesImplyTypeOK, PTL DEF Spec

-------------------------------------------------------------------------------
(* Which loops are handed out *)

\* Once the last thread is about to announce kRunning, and for whoever has seen it, all
\* threads have reported their start.
AllStarted ==
  (\/ status = "running"
   \/ \E i \in Threads : thread[i] = "announce"
   \/ \E u \in Users : at[u] = Inside)
    => \A i \in Threads : thread[i] \notin Starting

LEMMA NextAllStarted == Shape /\ Counts /\ AllStarted /\ [Next]_vars => AllStarted'
<1> SUFFICES ASSUME Shape, Counts, AllStarted, [Next]_vars PROVE AllStarted'
  OBVIOUS
<1> USE MaxIsNat DEF AllStarted, Shape, Spawned, BrokenNeverStart, Fields, vars, setup, args,
       loops, hist, Threads, Starting, Looping, Inside
<1>1. ASSUME NEW wait \in BOOLEAN, Start(wait) PROVE AllStarted'
  BY <1>1 DEF Start, OwnerMoves
<1>2. CASE StartEmpty
  BY <1>2 DEF StartEmpty, OwnerMoves
<1>3. CASE StartThread
  BY <1>3 DEF StartThread, OwnerMoves
<1>4. CASE ThreadIsStarted
  BY <1>4 DEF ThreadIsStarted, OwnerMoves
<1>5. CASE PushThread
  BY <1>5 DEF PushThread, OwnerMoves
<1>6. CASE AllSpawned
  BY <1>6 DEF AllSpawned, OwnerMoves
<1>7. CASE AwaitRunning
  BY <1>7 DEF AwaitRunning, OwnerMoves
<1>8. ASSUME NEW wait \in BOOLEAN, NEW fn \in BOOLEAN, Stop(wait, fn) PROVE AllStarted'
  BY <1>8 DEF Stop, OwnerMoves
<1>9. CASE StopEmpty
  BY <1>9 DEF StopEmpty, OwnerMoves
<1>10. CASE AssignCallback
  BY <1>10 DEF AssignCallback, OwnerMoves
<1>11. CASE AskThread
  BY <1>11 DEF AskThread, OwnerMoves
<1>12. CASE NotifyLoop
  BY <1>12 DEF NotifyLoop, OwnerMoves
<1>13. CASE AwaitExit
  BY <1>13 DEF AwaitExit, OwnerMoves
<1>14. CASE StopReturns
  BY <1>14 DEF StopReturns, OwnerMoves
<1>15. CASE Join
  BY <1>15 DEF Join, OwnerMoves
<1>16. CASE JoinReturns
  BY <1>16 DEF JoinReturns, OwnerMoves
<1>17. ASSUME NEW i \in Threads, RunFirst(i) PROVE AllStarted'
  BY <1>17 DEF RunFirst, Moves
<1>18. ASSUME NEW i \in Threads, RunFails(i) PROVE AllStarted'
  BY <1>18 DEF RunFails, Moves
<1>19. ASSUME NEW i \in Threads, CountStarted(i) PROVE AllStarted'
  <2>1. CASE started + 1 = num
    <3>1. i \notin Started /\ Started' = Started \cup {i} /\ Started' \subseteq Threads
      BY <1>19 DEF CountStarted, Moves, Started, Starting, ThreadPlaces
    <3>2. IsFiniteSet(Started)
      BY ThreadsAreCounted DEF Started
    <3>3. Cardinality(Started') = num
      BY <3>1, <3>2, CountOne, <2>1 DEF Counts
    <3>4. num \in Nat /\ Started' \in SUBSET Threads
      BY <3>1
    <3>5. Started' = Threads
      BY <3>3, <3>4, ThreadsAreCounted
    <3>. QED
      BY <1>19, <3>5 DEF CountStarted, Moves, Started
  <2>2. CASE started + 1 # num
    BY <1>19, <2>2 DEF CountStarted, Moves
  <2>. QED
    BY <2>1, <2>2
<1>20. ASSUME NEW i \in Threads, Announce(i) PROVE AllStarted'
  BY <1>20 DEF Announce, Moves
<1>21. ASSUME NEW i \in Threads, LoopEnds(i) PROVE AllStarted'
  BY <1>21 DEF LoopEnds, Moves
<1>22. ASSUME NEW i \in Threads, CountExited(i) PROVE AllStarted'
  BY <1>22 DEF CountExited, Moves
<1>23. ASSUME NEW i \in Threads, StoreStopped(i) PROVE AllStarted'
  BY <1>23 DEF StoreStopped, Moves
<1>24. ASSUME NEW i \in Threads, TestCallback(i) PROVE AllStarted'
  BY <1>24 DEF TestCallback, Moves
<1>25. ASSUME NEW i \in Threads, CallBack(i) PROVE AllStarted'
  BY <1>25 DEF CallBack, Moves
<1>26. ASSUME NEW i \in Threads, CallUnsafe(i) PROVE AllStarted'
  BY <1>26 DEF CallUnsafe
<1>27. ASSUME NEW i \in Threads, ClearCallback(i) PROVE AllStarted'
  BY <1>27 DEF ClearCallback, Moves
<1>28. ASSUME NEW i \in Threads, Leave(i) PROVE AllStarted'
  BY <1>28 DEF Leave, Moves
<1>29. ASSUME NEW u \in Users, Look(u) PROVE AllStarted'
  BY <1>29 DEF Look
<1>30. ASSUME NEW u \in Users, Pick(u) PROVE AllStarted'
  BY <1>30 DEF Pick
<1>31. ASSUME NEW u \in Users, PickUnsafe(u) PROVE AllStarted'
  BY <1>31 DEF PickUnsafe
<1>32. CASE UNCHANGED vars
  BY <1>32
<1>. QED
  BY <1>1, <1>2, <1>3, <1>4, <1>5, <1>6, <1>7, <1>8, <1>9, <1>10, <1>11, <1>12, <1>13, <1>14,
     <1>15, <1>16, <1>17, <1>18, <1>19, <1>20, <1>21, <1>22, <1>23, <1>24, <1>25, <1>26, <1>27,
     <1>28, <1>29, <1>30, <1>31, <1>32 DEF Next, OwnerStep, ThreadStep, Call

LEMMA NextHanded ==
  Shape /\ AllStarted /\ HandedLoopsHaveStarted /\ [Next]_vars => HandedLoopsHaveStarted'
<1> SUFFICES ASSUME Shape, AllStarted, HandedLoopsHaveStarted, [Next]_vars
             PROVE  HandedLoopsHaveStarted'
  OBVIOUS
<1> USE MaxIsNat DEF HandedLoopsHaveStarted, AllStarted, Shape, Spawned, BrokenNeverStart,
       Fields, vars, setup, args, loops, hist, Threads, Starting, Looping, Inside
<1>1. ASSUME NEW wait \in BOOLEAN, Start(wait) PROVE HandedLoopsHaveStarted'
  BY <1>1 DEF Start, OwnerMoves
<1>2. CASE StartEmpty
  BY <1>2 DEF StartEmpty, OwnerMoves
<1>3. CASE StartThread
  BY <1>3 DEF StartThread, OwnerMoves
<1>4. CASE ThreadIsStarted
  BY <1>4 DEF ThreadIsStarted, OwnerMoves
<1>5. CASE PushThread
  BY <1>5 DEF PushThread, OwnerMoves
<1>6. CASE AllSpawned
  BY <1>6 DEF AllSpawned, OwnerMoves
<1>7. CASE AwaitRunning
  BY <1>7 DEF AwaitRunning, OwnerMoves
<1>8. ASSUME NEW wait \in BOOLEAN, NEW fn \in BOOLEAN, Stop(wait, fn) PROVE HandedLoopsHaveStarted'
  BY <1>8 DEF Stop, OwnerMoves
<1>9. CASE StopEmpty
  BY <1>9 DEF StopEmpty, OwnerMoves
<1>10. CASE AssignCallback
  BY <1>10 DEF AssignCallback, OwnerMoves
<1>11. CASE AskThread
  BY <1>11 DEF AskThread, OwnerMoves
<1>12. CASE NotifyLoop
  BY <1>12 DEF NotifyLoop, OwnerMoves
<1>13. CASE AwaitExit
  BY <1>13 DEF AwaitExit, OwnerMoves
<1>14. CASE StopReturns
  BY <1>14 DEF StopReturns, OwnerMoves
<1>15. CASE Join
  BY <1>15 DEF Join, OwnerMoves
<1>16. CASE JoinReturns
  BY <1>16 DEF JoinReturns, OwnerMoves
<1>17. ASSUME NEW i \in Threads, RunFirst(i) PROVE HandedLoopsHaveStarted'
  BY <1>17 DEF RunFirst, Moves
<1>18. ASSUME NEW i \in Threads, RunFails(i) PROVE HandedLoopsHaveStarted'
  BY <1>18 DEF RunFails, Moves
<1>19. ASSUME NEW i \in Threads, CountStarted(i) PROVE HandedLoopsHaveStarted'
  BY <1>19 DEF CountStarted, Moves
<1>20. ASSUME NEW i \in Threads, Announce(i) PROVE HandedLoopsHaveStarted'
  BY <1>20 DEF Announce, Moves
<1>21. ASSUME NEW i \in Threads, LoopEnds(i) PROVE HandedLoopsHaveStarted'
  BY <1>21 DEF LoopEnds, Moves
<1>22. ASSUME NEW i \in Threads, CountExited(i) PROVE HandedLoopsHaveStarted'
  BY <1>22 DEF CountExited, Moves
<1>23. ASSUME NEW i \in Threads, StoreStopped(i) PROVE HandedLoopsHaveStarted'
  BY <1>23 DEF StoreStopped, Moves
<1>24. ASSUME NEW i \in Threads, TestCallback(i) PROVE HandedLoopsHaveStarted'
  BY <1>24 DEF TestCallback, Moves
<1>25. ASSUME NEW i \in Threads, CallBack(i) PROVE HandedLoopsHaveStarted'
  BY <1>25 DEF CallBack, Moves
<1>26. ASSUME NEW i \in Threads, CallUnsafe(i) PROVE HandedLoopsHaveStarted'
  BY <1>26 DEF CallUnsafe
<1>27. ASSUME NEW i \in Threads, ClearCallback(i) PROVE HandedLoopsHaveStarted'
  BY <1>27 DEF ClearCallback, Moves
<1>28. ASSUME NEW i \in Threads, Leave(i) PROVE HandedLoopsHaveStarted'
  BY <1>28 DEF Leave, Moves
<1>29. ASSUME NEW u \in Users, Look(u) PROVE HandedLoopsHaveStarted'
  BY <1>29 DEF Look
<1>30. ASSUME NEW u \in Users, Pick(u) PROVE HandedLoopsHaveStarted'
  BY <1>30 DEF Pick
<1>31. ASSUME NEW u \in Users, PickUnsafe(u) PROVE HandedLoopsHaveStarted'
  BY <1>31 DEF PickUnsafe
<1>32. CASE UNCHANGED vars
  BY <1>32
<1>. QED
  BY <1>1, <1>2, <1>3, <1>4, <1>5, <1>6, <1>7, <1>8, <1>9, <1>10, <1>11, <1>12, <1>13, <1>14,
     <1>15, <1>16, <1>17, <1>18, <1>19, <1>20, <1>21, <1>22, <1>23, <1>24, <1>25, <1>26, <1>27,
     <1>28, <1>29, <1>30, <1>31, <1>32 DEF Next, OwnerStep, ThreadStep, Call

\* HandedLoopsHaveStarted, for every number of threads and users: no loop is handed out
\* before its thread has reported its start.
THEOREM OnlyStartedLoops == Spec => []HandedLoopsHaveStarted
<1>1. Init => AllStarted /\ HandedLoopsHaveStarted
  BY DEF Init, AllStarted, HandedLoopsHaveStarted, Threads, Inside
<1>. QED
  BY InitShape, NextShape, <1>1, NextAllStarted, NextHanded, PTL DEF Spec

-------------------------------------------------------------------------------
(* When the unlocked use of threads_ and stopped_cb_ is fatal *)

\* Whoever has passed the two tests finds a thread, until Join.
InsideHasThreads ==
  \A u \in Users : at[u] = Inside => threads > 0 \/ owner = "joined"

LastPlaces == {"last", "test", "found", "calling"}

\* The thread that counted last is alone, because by then all have counted.
OneLast ==
  /\ \A i \in Threads : thread[i] \in LastPlaces => exited = num
  /\ \A i, j \in Threads : thread[i] \in LastPlaces /\ thread[j] \in LastPlaces => i = j

\* It has found the callback that is there, or that the present Stop assigns, unless a
\* second Stop has exchanged it.
CallingItsCallback ==
  \A i \in Threads : thread[i] \in {"found", "calling"} =>
    cb # 0 \/ stops > 1 \/ (owner = "assign" /\ withFn)

\* A loop that has ended has been asked to, or has lost its pipe, and the first Stop asks
\* no loop before it has assigned the callback.
EndedAsked ==
  /\ \A i \in Threads :
       thread[i] \notin Starting \cup {"announce", "loop"} => i \in asked \cup broken
  /\ stops = 0 \/ (stops = 1 /\ owner = "assign") => asked = {}
  /\ owner \in {"ask", "notify"} => stops > 0

LEMMA NextInside == Shape /\ InsideHasThreads /\ [Next]_vars => InsideHasThreads'
<1> SUFFICES ASSUME Shape, InsideHasThreads, [Next]_vars PROVE InsideHasThreads'
  OBVIOUS
<1> USE MaxIsNat DEF InsideHasThreads, Inside, Shape, Spawned, Fields, vars, setup, args,
       loops, hist, Threads
<1>1. ASSUME NEW wait \in BOOLEAN, Start(wait) PROVE InsideHasThreads'
  BY <1>1 DEF Start, OwnerMoves
<1>2. CASE StartEmpty
  BY <1>2 DEF StartEmpty, OwnerMoves
<1>3. CASE StartThread
  BY <1>3 DEF StartThread, OwnerMoves
<1>4. CASE ThreadIsStarted
  BY <1>4 DEF ThreadIsStarted, OwnerMoves
<1>5. CASE PushThread
  BY <1>5 DEF PushThread, OwnerMoves
<1>6. CASE AllSpawned
  BY <1>6 DEF AllSpawned, OwnerMoves
<1>7. CASE AwaitRunning
  BY <1>7 DEF AwaitRunning, OwnerMoves
<1>8. ASSUME NEW wait \in BOOLEAN, NEW fn \in BOOLEAN, Stop(wait, fn) PROVE InsideHasThreads'
  BY <1>8 DEF Stop, OwnerMoves
<1>9. CASE StopEmpty
  BY <1>9 DEF StopEmpty, OwnerMoves
<1>10. CASE AssignCallback
  BY <1>10 DEF AssignCallback, OwnerMoves
<1>11. CASE AskThread
  BY <1>11 DEF AskThread, OwnerMoves
<1>12. CASE NotifyLoop
  BY <1>12 DEF NotifyLoop, OwnerMoves
<1>13. CASE AwaitExit
  BY <1>13 DEF AwaitExit, OwnerMoves
<1>14. CASE StopReturns
  BY <1>14 DEF StopReturns, OwnerMoves
<1>15. CASE Join
  BY <1>15 DEF Join, OwnerMoves
<1>16. CASE JoinReturns
  BY <1>16 DEF JoinReturns, OwnerMoves
<1>17. ASSUME NEW i \in Threads, RunFirst(i) PROVE InsideHasThreads'
  BY <1>17 DEF RunFirst, Moves
<1>18. ASSUME NEW i \in Threads, RunFails(i) PROVE InsideHasThreads'
  BY <1>18 DEF RunFails, Moves
<1>19. ASSUME NEW i \in Threads, CountStarted(i) PROVE InsideHasThreads'
  BY <1>19 DEF CountStarted, Moves
<1>20. ASSUME NEW i \in Threads, Announce(i) PROVE InsideHasThreads'
  BY <1>20 DEF Announce, Moves
<1>21. ASSUME NEW i \in Threads, LoopEnds(i) PROVE InsideHasThreads'
  BY <1>21 DEF LoopEnds, Moves
<1>22. ASSUME NEW i \in Threads, CountExited(i) PROVE InsideHasThreads'
  BY <1>22 DEF CountExited, Moves
<1>23. ASSUME NEW i \in Threads, StoreStopped(i) PROVE InsideHasThreads'
  BY <1>23 DEF StoreStopped, Moves
<1>24. ASSUME NEW i \in Threads, TestCallback(i) PROVE InsideHasThreads'
  BY <1>24 DEF TestCallback, Moves
<1>25. ASSUME NEW i \in Threads, CallBack(i) PROVE InsideHasThreads'
  BY <1>25 DEF CallBack, Moves
<1>26. ASSUME NEW i \in Threads, CallUnsafe(i) PROVE InsideHasThreads'
  BY <1>26 DEF CallUnsafe
<1>27. ASSUME NEW i \in Threads, ClearCallback(i) PROVE InsideHasThreads'
  BY <1>27 DEF ClearCallback, Moves
<1>28. ASSUME NEW i \in Threads, Leave(i) PROVE InsideHasThreads'
  BY <1>28 DEF Leave, Moves
<1>29. ASSUME NEW u \in Users, Look(u) PROVE InsideHasThreads'
  BY <1>29 DEF Look
<1>30. ASSUME NEW u \in Users, Pick(u) PROVE InsideHasThreads'
  BY <1>30 DEF Pick
<1>31. ASSUME NEW u \in Users, PickUnsafe(u) PROVE InsideHasThreads'
  BY <1>31 DEF PickUnsafe
<1>32. CASE UNCHANGED vars
  BY <1>32
<1>. QED
  BY <1>1, <1>2, <1>3, <1>4, <1>5, <1>6, <1>7, <1>8, <1>9, <1>10, <1>11, <1>12, <1>13, <1>14,
     <1>15, <1>16, <1>17, <1>18, <1>19, <1>20, <1>21, <1>22, <1>23, <1>24, <1>25, <1>26, <1>27,
     <1>28, <1>29, <1>30, <1>31, <1>32 DEF Next, OwnerStep, ThreadStep, Call

LEMMA NextEndedAsked == Shape /\ EndedAsked /\ [Next]_vars => EndedAsked'
<1> SUFFICES ASSUME Shape, EndedAsked, [Next]_vars PROVE EndedAsked'
  OBVIOUS
<1> USE MaxIsNat DEF EndedAsked, Shape, Spawned, Fields, vars, setup, args,
       loops, hist, Threads, Starting, Looping
<1>1. ASSUME NEW wait \in BOOLEAN, Start(wait) PROVE EndedAsked'
  BY <1>1 DEF Start, OwnerMoves
<1>2. CASE StartEmpty
  BY <1>2 DEF StartEmpty, OwnerMoves
<1>3. CASE StartThread
  BY <1>3 DEF StartThread, OwnerMoves
<1>4. CASE ThreadIsStarted
  BY <1>4 DEF ThreadIsStarted, OwnerMoves
<1>5. CASE PushThread
  BY <1>5 DEF PushThread, OwnerMoves
<1>6. CASE AllSpawned
  BY <1>6 DEF AllSpawned, OwnerMoves
<1>7. CASE AwaitRunning
  BY <1>7 DEF AwaitRunning, OwnerMoves
<1>8. ASSUME NEW wait \in BOOLEAN, NEW fn \in BOOLEAN, Stop(wait, fn) PROVE EndedAsked'
  BY <1>8 DEF Stop, OwnerMoves
<1>9. CASE StopEmpty
  BY <1>9 DEF StopEmpty, OwnerMoves
<1>10. CASE AssignCallback
  BY <1>10 DEF AssignCallback, OwnerMoves
<1>11. CASE AskThread
  BY <1>11 DEF AskThread, OwnerMoves
<1>12. CASE NotifyLoop
  BY <1>12 DEF NotifyLoop, OwnerMoves
<1>13. CASE AwaitExit
  BY <1>13 DEF AwaitExit, OwnerMoves
<1>14. CASE StopReturns
  BY <1>14 DEF StopReturns, OwnerMoves
<1>15. CASE Join
  BY <1>15 DEF Join, OwnerMoves
<1>16. CASE JoinReturns
  BY <1>16 DEF JoinReturns, OwnerMoves
<1>17. ASSUME NEW i \in Threads, RunFirst(i) PROVE EndedAsked'
  BY <1>17 DEF RunFirst, Moves
<1>18. ASSUME NEW i \in Threads, RunFails(i) PROVE EndedAsked'
  BY <1>18 DEF RunFails, Moves
<1>19. ASSUME NEW i \in Threads, CountStarted(i) PROVE EndedAsked'
  BY <1>19 DEF CountStarted, Moves
<1>20. ASSUME NEW i \in Threads, Announce(i) PROVE EndedAsked'
  BY <1>20 DEF Announce, Moves
<1>21. ASSUME NEW i \in Threads, LoopEnds(i) PROVE EndedAsked'
  BY <1>21 DEF LoopEnds, Moves
<1>22. ASSUME NEW i \in Threads, CountExited(i) PROVE EndedAsked'
  BY <1>22 DEF CountExited, Moves
<1>23. ASSUME NEW i \in Threads, StoreStopped(i) PROVE EndedAsked'
  BY <1>23 DEF StoreStopped, Moves
<1>24. ASSUME NEW i \in Threads, TestCallback(i) PROVE EndedAsked'
  BY <1>24 DEF TestCallback, Moves
<1>25. ASSUME NEW i \in Threads, CallBack(i) PROVE EndedAsked'
  BY <1>25 DEF CallBack, Moves
<1>26. ASSUME NEW i \in Threads, CallUnsafe(i) PROVE EndedAsked'
  BY <1>26 DEF CallUnsafe
<1>27. ASSUME NEW i \in Threads, ClearCallback(i) PROVE EndedAsked'
  BY <1>27 DEF ClearCallback, Moves
<1>28. ASSUME NEW i \in Threads, Leave(i) PROVE EndedAsked'
  BY <1>28 DEF Leave, Moves
<1>29. ASSUME NEW u \in Users, Look(u) PROVE EndedAsked'
  BY <1>29 DEF Look
<1>30. ASSUME NEW u \in Users, Pick(u) PROVE EndedAsked'
  BY <1>30 DEF Pick
<1>31. ASSUME NEW u \in Users, PickUnsafe(u) PROVE EndedAsked'
  BY <1>31 DEF PickUnsafe
<1>32. CASE UNCHANGED vars
  BY <1>32
<1>. QED
  BY <1>1, <1>2, <1>3, <1>4, <1>5, <1>6, <1>7, <1>8, <1>9, <1>10, <1>11, <1>12, <1>13, <1>14,
     <1>15, <1>16, <1>17, <1>18, <1>19, <1>20, <1>21, <1>22, <1>23, <1>24, <1>25, <1>26, <1>27,
     <1>28, <1>29, <1>30, <1>31, <1>32 DEF Next, OwnerStep, ThreadStep, Call

LEMMA NextOneLast == Shape /\ Counts /\ OneLast /\ [Next]_vars => OneLast'
<1> SUFFICES ASSUME Shape, Counts, OneLast, [Next]_vars PROVE OneLast'
  OBVIOUS
<1> USE MaxIsNat DEF OneLast, LastPlaces, Shape, Spawned, Fields, vars, setup, args, loops,
       hist, Threads
<1>1. ASSUME NEW wait \in BOOLEAN, Start(wait) PROVE OneLast'
  BY <1>1 DEF Start, OwnerMoves
<1>2. CASE StartEmpty
  BY <1>2 DEF StartEmpty, OwnerMoves
<1>3. CASE StartThread
  BY <1>3 DEF StartThread, OwnerMoves
<1>4. CASE ThreadIsStarted
  BY <1>4 DEF ThreadIsStarted, OwnerMoves
<1>5. CASE PushThread
  BY <1>5 DEF PushThread, OwnerMoves
<1>6. CASE AllSpawned
  BY <1>6 DEF AllSpawned, OwnerMoves
<1>7. CASE AwaitRunning
  BY <1>7 DEF AwaitRunning, OwnerMoves
<1>8. ASSUME NEW wait \in BOOLEAN, NEW fn \in BOOLEAN, Stop(wait, fn) PROVE OneLast'
  BY <1>8 DEF Stop, OwnerMoves
<1>9. CASE StopEmpty
  BY <1>9 DEF StopEmpty, OwnerMoves
<1>10. CASE AssignCallback
  BY <1>10 DEF AssignCallback, OwnerMoves
<1>11. CASE AskThread
  BY <1>11 DEF AskThread, OwnerMoves
<1>12. CASE NotifyLoop
  BY <1>12 DEF NotifyLoop, OwnerMoves
<1>13. CASE AwaitExit
  BY <1>13 DEF AwaitExit, OwnerMoves
<1>14. CASE StopReturns
  BY <1>14 DEF StopReturns, OwnerMoves
<1>15. CASE Join
  BY <1>15 DEF Join, OwnerMoves
<1>16. CASE JoinReturns
  BY <1>16 DEF JoinReturns, OwnerMoves
<1>17. ASSUME NEW i \in Threads, RunFirst(i) PROVE OneLast'
  BY <1>17 DEF RunFirst, Moves
<1>18. ASSUME NEW i \in Threads, RunFails(i) PROVE OneLast'
  BY <1>18 DEF RunFails, Moves
<1>19. ASSUME NEW i \in Threads, CountStarted(i) PROVE OneLast'
  BY <1>19 DEF CountStarted, Moves
<1>20. ASSUME NEW i \in Threads, Announce(i) PROVE OneLast'
  BY <1>20 DEF Announce, Moves
<1>21. ASSUME NEW i \in Threads, LoopEnds(i) PROVE OneLast'
  BY <1>21 DEF LoopEnds, Moves
<1>22. ASSUME NEW i \in Threads, CountExited(i) PROVE OneLast'
  <2>1. thread[i] = "ended" /\ num \in Nat
    BY <1>22 DEF CountExited, Moves
  <2>2. i \notin Exited /\ i \in Threads
    BY <2>1 DEF Exited, Looping
  <2>3. Exited # Threads /\ Exited \in SUBSET Threads
    BY <2>2 DEF Exited
  <2>4. exited # num
    BY <2>1, <2>3, ThreadsAreCounted DEF Counts
  <2>5. \A j \in Threads : thread[j] \notin LastPlaces
    BY <2>4
  <2>6. Threads' = Threads
    BY <1>22 DEF CountExited, Moves
  <2>7. \A j \in Threads : thread'[j] \in LastPlaces => j = i /\ exited + 1 = num
    BY <1>22, <2>5 DEF CountExited, Moves
  <2>. QED
    BY <1>22, <2>6, <2>7 DEF CountExited, Moves
<1>23. ASSUME NEW i \in Threads, StoreStopped(i) PROVE OneLast'
  BY <1>23 DEF StoreStopped, Moves
<1>24. ASSUME NEW i \in Threads, TestCallback(i) PROVE OneLast'
  BY <1>24 DEF TestCallback, Moves
<1>25. ASSUME NEW i \in Threads, CallBack(i) PROVE OneLast'
  BY <1>25 DEF CallBack, Moves
<1>26. ASSUME NEW i \in Threads, CallUnsafe(i) PROVE OneLast'
  BY <1>26 DEF CallUnsafe
<1>27. ASSUME NEW i \in Threads, ClearCallback(i) PROVE OneLast'
  BY <1>27 DEF ClearCallback, Moves
<1>28. ASSUME NEW i \in Threads, Leave(i) PROVE OneLast'
  BY <1>28 DEF Leave, Moves
<1>29. ASSUME NEW u \in Users, Look(u) PROVE OneLast'
  BY <1>29 DEF Look
<1>30. ASSUME NEW u \in Users, Pick(u) PROVE OneLast'
  BY <1>30 DEF Pick
<1>31. ASSUME NEW u \in Users, PickUnsafe(u) PROVE OneLast'
  BY <1>31 DEF PickUnsafe
<1>32. CASE UNCHANGED vars
  BY <1>32
<1>. QED
  BY <1>1, <1>2, <1>3, <1>4, <1>5, <1>6, <1>7, <1>8, <1>9, <1>10, <1>11, <1>12, <1>13, <1>14,
     <1>15, <1>16, <1>17, <1>18, <1>19, <1>20, <1>21, <1>22, <1>23, <1>24, <1>25, <1>26, <1>27,
     <1>28, <1>29, <1>30, <1>31, <1>32 DEF Next, OwnerStep, ThreadStep, Call

LEMMA NextCalling ==
  Shape /\ OneLast /\ CallingItsCallback /\ [Next]_vars => CallingItsCallback'
<1> SUFFICES ASSUME Shape, OneLast, CallingItsCallback, [Next]_vars
             PROVE  CallingItsCallback'
  OBVIOUS
<1> USE MaxIsNat DEF CallingItsCallback, OneLast, LastPlaces, Shape, Spawned, Fields, vars,
       setup, args, loops, hist, Threads
<1>1. ASSUME NEW wait \in BOOLEAN, Start(wait) PROVE CallingItsCallback'
  BY <1>1 DEF Start, OwnerMoves
<1>2. CASE StartEmpty
  BY <1>2 DEF StartEmpty, OwnerMoves
<1>3. CASE StartThread
  BY <1>3 DEF StartThread, OwnerMoves
<1>4. CASE ThreadIsStarted
  BY <1>4 DEF ThreadIsStarted, OwnerMoves
<1>5. CASE PushThread
  BY <1>5 DEF PushThread, OwnerMoves
<1>6. CASE AllSpawned
  BY <1>6 DEF AllSpawned, OwnerMoves
<1>7. CASE AwaitRunning
  BY <1>7 DEF AwaitRunning, OwnerMoves
<1>8. ASSUME NEW wait \in BOOLEAN, NEW fn \in BOOLEAN, Stop(wait, fn) PROVE CallingItsCallback'
  BY <1>8 DEF Stop, OwnerMoves
<1>9. CASE StopEmpty
  BY <1>9 DEF StopEmpty, OwnerMoves
<1>10. CASE AssignCallback
  <2>1. cb \in Nat /\ stops \in Nat /\ cb < stops /\ stops' = stops /\ thread' = thread
        /\ num' = num
    BY <1>10 DEF AssignCallback, OwnerMoves
  <2>2. cb' = IF withFn THEN stops ELSE 0
    BY <1>10 DEF AssignCallback, Given
  <2>. QED
    BY <2>1, <2>2
<1>11. CASE AskThread
  BY <1>11 DEF AskThread, OwnerMoves
<1>12. CASE NotifyLoop
  BY <1>12 DEF NotifyLoop, OwnerMoves
<1>13. CASE AwaitExit
  BY <1>13 DEF AwaitExit, OwnerMoves
<1>14. CASE StopReturns
  BY <1>14 DEF StopReturns, OwnerMoves
<1>15. CASE Join
  BY <1>15 DEF Join, OwnerMoves
<1>16. CASE JoinReturns
  BY <1>16 DEF JoinReturns, OwnerMoves
<1>17. ASSUME NEW i \in Threads, RunFirst(i) PROVE CallingItsCallback'
  BY <1>17 DEF RunFirst, Moves
<1>18. ASSUME NEW i \in Threads, RunFails(i) PROVE CallingItsCallback'
  BY <1>18 DEF RunFails, Moves
<1>19. ASSUME NEW i \in Threads, CountStarted(i) PROVE CallingItsCallback'
  BY <1>19 DEF CountStarted, Moves
<1>20. ASSUME NEW i \in Threads, Announce(i) PROVE CallingItsCallback'
  BY <1>20 DEF Announce, Moves
<1>21. ASSUME NEW i \in Threads, LoopEnds(i) PROVE CallingItsCallback'
  BY <1>21 DEF LoopEnds, Moves
<1>22. ASSUME NEW i \in Threads, CountExited(i) PROVE CallingItsCallback'
  BY <1>22 DEF CountExited, Moves
<1>23. ASSUME NEW i \in Threads, StoreStopped(i) PROVE CallingItsCallback'
  BY <1>23 DEF StoreStopped, Moves
<1>24. ASSUME NEW i \in Threads, TestCallback(i) PROVE CallingItsCallback'
  <2>1. PICK c \in Seen : Moves(i, "test", IF c = 0 THEN "leaving" ELSE "found")
    BY <1>24 DEF TestCallback
  <2>2. c # 0 => cb # 0 \/ (owner = "assign" /\ withFn)
    BY <2>1 DEF Seen, Given
  <2>. QED
    BY <1>24, <2>1, <2>2 DEF TestCallback, Moves
<1>25. ASSUME NEW i \in Threads, CallBack(i) PROVE CallingItsCallback'
  BY <1>25 DEF CallBack, Moves
<1>26. ASSUME NEW i \in Threads, CallUnsafe(i) PROVE CallingItsCallback'
  BY <1>26 DEF CallUnsafe
<1>27. ASSUME NEW i \in Threads, ClearCallback(i) PROVE CallingItsCallback'
  BY <1>27 DEF ClearCallback, Moves
<1>28. ASSUME NEW i \in Threads, Leave(i) PROVE CallingItsCallback'
  BY <1>28 DEF Leave, Moves
<1>29. ASSUME NEW u \in Users, Look(u) PROVE CallingItsCallback'
  BY <1>29 DEF Look
<1>30. ASSUME NEW u \in Users, Pick(u) PROVE CallingItsCallback'
  BY <1>30 DEF Pick
<1>31. ASSUME NEW u \in Users, PickUnsafe(u) PROVE CallingItsCallback'
  BY <1>31 DEF PickUnsafe
<1>32. CASE UNCHANGED vars
  BY <1>32
<1>. QED
  BY <1>1, <1>2, <1>3, <1>4, <1>5, <1>6, <1>7, <1>8, <1>9, <1>10, <1>11, <1>12, <1>13, <1>14,
     <1>15, <1>16, <1>17, <1>18, <1>19, <1>20, <1>21, <1>22, <1>23, <1>24, <1>25, <1>26, <1>27,
     <1>28, <1>29, <1>30, <1>31, <1>32 DEF Next, OwnerStep, ThreadStep, Call

\* The process dies in one of three actions, and takes no further step.
LEMMA FaultArises ==
  Next => /\ fault = "none"
          /\ \/ fault' = "none" \/ NotifyLoop
             \/ \E i \in Threads : CallUnsafe(i)
             \/ \E u \in Users : PickUnsafe(u)
<1> SUFFICES ASSUME Next
             PROVE  /\ fault = "none"
                    /\ \/ fault' = "none" \/ NotifyLoop
                       \/ \E i \in Threads : CallUnsafe(i)
                       \/ \E u \in Users : PickUnsafe(u)
  OBVIOUS
<1> USE DEF hist
<1>1. CASE OwnerStep
  BY <1>1 DEF OwnerStep, StartEmpty, StartThread, ThreadIsStarted, PushThread, AllSpawned,
     AwaitRunning, StopEmpty, AssignCallback, AskThread, AwaitExit, StopReturns, JoinReturns
<1>2. ASSUME NEW i \in Threads, ThreadStep(i)
      PROVE  fault = "none" /\ (fault' = "none" \/ CallUnsafe(i))
  BY <1>2 DEF ThreadStep, Moves, RunFirst, RunFails, CountStarted, Announce, LoopEnds,
     CountExited, StoreStopped, TestCallback, CallBack, ClearCallback, Leave
<1>3. CASE Call
  BY <1>3 DEF Call, Start, Stop, Join, Look, Pick
<1>. QED
  BY <1>1, <1>2, <1>3 DEF Next

LEMMA NextFatal ==
  /\ Shape /\ Counts /\ InsideHasThreads /\ EndedAsked /\ OneLast /\ CallingItsCallback
  /\ FatalRaces /\ [Next]_vars
  => FatalRaces'
<1> SUFFICES ASSUME Shape, Counts, InsideHasThreads, EndedAsked, OneLast, CallingItsCallback,
                    FatalRaces, [Next]_vars
             PROVE  FatalRaces'
  OBVIOUS
<1>1. CASE UNCHANGED vars
  BY <1>1 DEF FatalRaces, vars, setup, args, hist, Threads
<1>2. CASE NotifyLoop
  BY <1>2 DEF NotifyLoop, FatalRaces
<1>3. ASSUME NEW u \in Users, PickUnsafe(u) PROVE FatalRaces'
  BY <1>3, MaxIsNat DEF PickUnsafe, FatalRaces, InsideHasThreads, Shape, Fields
<1>4. ASSUME NEW i \in Threads, CallUnsafe(i) PROVE FatalRaces'
  <2>1. /\ thread[i] \in {"found", "calling"}
        /\ owner = "assign" \/ cb = 0
        /\ fault' = "callback"
        /\ stops' = stops /\ owner' = owner /\ withFn' = withFn /\ broken' = broken
        /\ Threads' = Threads
    BY <1>4 DEF CallUnsafe, setup, args, Threads
  <2>2. stops \in Nat /\ cb \in 0 .. stops /\ (owner = "assign" => cb < stops) /\ num \in Nat
        /\ broken \subseteq Threads
    BY MaxIsNat DEF Shape, Fields
  <2>3. Exited = Threads
    <3>1. exited = num
      BY <2>1 DEF OneLast, LastPlaces
    <3>. QED
      BY <3>1, <2>2, ThreadsAreCounted DEF Counts, Exited
  <2>4. \A j \in Threads : j \in asked \cup broken
    BY <2>3 DEF Exited, EndedAsked, Looping
  <2>5. stops > 1 \/ (owner = "assign" /\ withFn /\ stops = 1)
    BY <2>1, <2>2 DEF CallingItsCallback, EndedAsked
  <2>6. stops > 1 \/ (owner = "assign" /\ withFn /\ broken = Threads)
    BY <2>2, <2>4, <2>5 DEF EndedAsked
  <2>. QED
    BY <2>1, <2>6 DEF FatalRaces
<1>5. CASE fault' = "none"
  BY <1>5 DEF FatalRaces
<1>. QED
  BY <1>1, <1>2, <1>3, <1>4, <1>5, FaultArises

\* FatalRaces, for every number of threads, users and calls of Stop: the unlocked use of
\* threads_ is fatal only in a push_back and after Join, that of stopped_cb_ only from
\* the second Stop on or when every loop has ended for want of its pipe.
THEOREM FatalOnlyInRaces == Spec => []FatalRaces
<1>1. Init => InsideHasThreads /\ EndedAsked /\ OneLast /\ CallingItsCallback /\ FatalRaces
  BY DEF Init, InsideHasThreads, EndedAsked, OneLast, CallingItsCallback, FatalRaces, Threads,
         LastPlaces, Inside, Starting
<1>. QED
  BY InitShape, NextShape, <1>1, NextInside, NextEndedAsked, NextOneLast, NextCalling,
     NextFatal, PTL DEF Spec

-------------------------------------------------------------------------------
(* What Stop(true) waits for *)

\* A thread that is seen stopped has left the pool for good.
StoppedIsGone == \A i \in Threads : tstatus[i] = "stopped" => thread[i] = "gone"

AllGone == \A i \in Threads : thread[i] = "gone"

WaitedForAll == waited \/ (owner = "final" /\ waits) => AllGone

LEMMA NextStopped == Shape /\ StoppedIsGone /\ [Next]_vars => StoppedIsGone'
<1> SUFFICES ASSUME Shape, StoppedIsGone, [Next]_vars PROVE StoppedIsGone'
  OBVIOUS
<1> USE MaxIsNat DEF StoppedIsGone, Shape, Spawned, Fields, vars, setup, args, loops, hist,
       Threads
<1>1. ASSUME NEW wait \in BOOLEAN, Start(wait) PROVE StoppedIsGone'
  BY <1>1 DEF Start, OwnerMoves
<1>2. CASE StartEmpty
  BY <1>2 DEF StartEmpty, OwnerMoves
<1>3. CASE StartThread
  BY <1>3 DEF StartThread, OwnerMoves
<1>4. CASE ThreadIsStarted
  BY <1>4 DEF ThreadIsStarted, OwnerMoves
<1>5. CASE PushThread
  BY <1>5 DEF PushThread, OwnerMoves
<1>6. CASE AllSpawned
  BY <1>6 DEF AllSpawned, OwnerMoves
<1>7. CASE AwaitRunning
  BY <1>7 DEF AwaitRunning, OwnerMoves
<1>8. ASSUME NEW wait \in BOOLEAN, NEW fn \in BOOLEAN, Stop(wait, fn) PROVE StoppedIsGone'
  BY <1>8 DEF Stop, OwnerMoves
<1>9. CASE StopEmpty
  BY <1>9 DEF StopEmpty, OwnerMoves
<1>10. CASE AssignCallback
  BY <1>10 DEF AssignCallback, OwnerMoves
<1>11. CASE AskThread
  BY <1>11 DEF AskThread, OwnerMoves
<1>12. CASE NotifyLoop
  BY <1>12 DEF NotifyLoop, OwnerMoves
<1>13. CASE AwaitExit
  BY <1>13 DEF AwaitExit, OwnerMoves
<1>14. CASE StopReturns
  BY <1>14 DEF StopReturns, OwnerMoves
<1>15. CASE Join
  BY <1>15 DEF Join, OwnerMoves
<1>16. CASE JoinReturns
  BY <1>16 DEF JoinReturns, OwnerMoves
<1>17. ASSUME NEW i \in Threads, RunFirst(i) PROVE StoppedIsGone'
  BY <1>17 DEF RunFirst, Moves
<1>18. ASSUME NEW i \in Threads, RunFails(i) PROVE StoppedIsGone'
  BY <1>18 DEF RunFails, Moves
<1>19. ASSUME NEW i \in Threads, CountStarted(i) PROVE StoppedIsGone'
  BY <1>19 DEF CountStarted, Moves
<1>20. ASSUME NEW i \in Threads, Announce(i) PROVE StoppedIsGone'
  BY <1>20 DEF Announce, Moves
<1>21. ASSUME NEW i \in Threads, LoopEnds(i) PROVE StoppedIsGone'
  BY <1>21 DEF LoopEnds, Moves
<1>22. ASSUME NEW i \in Threads, CountExited(i) PROVE StoppedIsGone'
  BY <1>22 DEF CountExited, Moves
<1>23. ASSUME NEW i \in Threads, StoreStopped(i) PROVE StoppedIsGone'
  BY <1>23 DEF StoreStopped, Moves
<1>24. ASSUME NEW i \in Threads, TestCallback(i) PROVE StoppedIsGone'
  BY <1>24 DEF TestCallback, Moves
<1>25. ASSUME NEW i \in Threads, CallBack(i) PROVE StoppedIsGone'
  BY <1>25 DEF CallBack, Moves
<1>26. ASSUME NEW i \in Threads, CallUnsafe(i) PROVE StoppedIsGone'
  BY <1>26 DEF CallUnsafe
<1>27. ASSUME NEW i \in Threads, ClearCallback(i) PROVE StoppedIsGone'
  BY <1>27 DEF ClearCallback, Moves
<1>28. ASSUME NEW i \in Threads, Leave(i) PROVE StoppedIsGone'
  BY <1>28 DEF Leave, Moves
<1>29. ASSUME NEW u \in Users, Look(u) PROVE StoppedIsGone'
  BY <1>29 DEF Look
<1>30. ASSUME NEW u \in Users, Pick(u) PROVE StoppedIsGone'
  BY <1>30 DEF Pick
<1>31. ASSUME NEW u \in Users, PickUnsafe(u) PROVE StoppedIsGone'
  BY <1>31 DEF PickUnsafe
<1>32. CASE UNCHANGED vars
  BY <1>32
<1>. QED
  BY <1>1, <1>2, <1>3, <1>4, <1>5, <1>6, <1>7, <1>8, <1>9, <1>10, <1>11, <1>12, <1>13, <1>14,
     <1>15, <1>16, <1>17, <1>18, <1>19, <1>20, <1>21, <1>22, <1>23, <1>24, <1>25, <1>26, <1>27,
     <1>28, <1>29, <1>30, <1>31, <1>32 DEF Next, OwnerStep, ThreadStep, Call

LEMMA NextWaited == Shape /\ StoppedIsGone /\ WaitedForAll /\ [Next]_vars => WaitedForAll'
<1> SUFFICES ASSUME Shape, StoppedIsGone, WaitedForAll, [Next]_vars PROVE WaitedForAll'
  OBVIOUS
<1> USE MaxIsNat DEF StoppedIsGone, WaitedForAll, AllGone, Shape, Spawned, Fields, vars, setup,
       args, loops, hist, Threads
<1>1. ASSUME NEW wait \in BOOLEAN, Start(wait) PROVE WaitedForAll'
  BY <1>1 DEF Start, OwnerMoves
<1>2. CASE StartEmpty
  BY <1>2 DEF StartEmpty, OwnerMoves
<1>3. CASE StartThread
  BY <1>3 DEF StartThread, OwnerMoves
<1>4. CASE ThreadIsStarted
  BY <1>4 DEF ThreadIsStarted, OwnerMoves
<1>5. CASE PushThread
  BY <1>5 DEF PushThread, OwnerMoves
<1>6. CASE AllSpawned
  BY <1>6 DEF AllSpawned, OwnerMoves
<1>7. CASE AwaitRunning
  BY <1>7 DEF AwaitRunning, OwnerMoves
<1>8. ASSUME NEW wait \in BOOLEAN, NEW fn \in BOOLEAN, Stop(wait, fn) PROVE WaitedForAll'
  BY <1>8 DEF Stop, OwnerMoves
<1>9. CASE StopEmpty
  BY <1>9 DEF StopEmpty, OwnerMoves
<1>10. CASE AssignCallback
  BY <1>10 DEF AssignCallback, OwnerMoves
<1>11. CASE AskThread
  BY <1>11 DEF AskThread, OwnerMoves
<1>12. CASE NotifyLoop
  BY <1>12 DEF NotifyLoop, OwnerMoves
<1>13. CASE AwaitExit
  BY <1>13 DEF AwaitExit, OwnerMoves
<1>14. CASE StopReturns
  BY <1>14 DEF StopReturns, OwnerMoves
<1>15. CASE Join
  BY <1>15 DEF Join, OwnerMoves
<1>16. CASE JoinReturns
  BY <1>16 DEF JoinReturns, OwnerMoves
<1>17. ASSUME NEW i \in Threads, RunFirst(i) PROVE WaitedForAll'
  BY <1>17 DEF RunFirst, Moves
<1>18. ASSUME NEW i \in Threads, RunFails(i) PROVE WaitedForAll'
  BY <1>18 DEF RunFails, Moves
<1>19. ASSUME NEW i \in Threads, CountStarted(i) PROVE WaitedForAll'
  BY <1>19 DEF CountStarted, Moves
<1>20. ASSUME NEW i \in Threads, Announce(i) PROVE WaitedForAll'
  BY <1>20 DEF Announce, Moves
<1>21. ASSUME NEW i \in Threads, LoopEnds(i) PROVE WaitedForAll'
  BY <1>21 DEF LoopEnds, Moves
<1>22. ASSUME NEW i \in Threads, CountExited(i) PROVE WaitedForAll'
  BY <1>22 DEF CountExited, Moves
<1>23. ASSUME NEW i \in Threads, StoreStopped(i) PROVE WaitedForAll'
  BY <1>23 DEF StoreStopped, Moves
<1>24. ASSUME NEW i \in Threads, TestCallback(i) PROVE WaitedForAll'
  BY <1>24 DEF TestCallback, Moves
<1>25. ASSUME NEW i \in Threads, CallBack(i) PROVE WaitedForAll'
  BY <1>25 DEF CallBack, Moves
<1>26. ASSUME NEW i \in Threads, CallUnsafe(i) PROVE WaitedForAll'
  BY <1>26 DEF CallUnsafe
<1>27. ASSUME NEW i \in Threads, ClearCallback(i) PROVE WaitedForAll'
  BY <1>27 DEF ClearCallback, Moves
<1>28. ASSUME NEW i \in Threads, Leave(i) PROVE WaitedForAll'
  BY <1>28 DEF Leave, Moves
<1>29. ASSUME NEW u \in Users, Look(u) PROVE WaitedForAll'
  BY <1>29 DEF Look
<1>30. ASSUME NEW u \in Users, Pick(u) PROVE WaitedForAll'
  BY <1>30 DEF Pick
<1>31. ASSUME NEW u \in Users, PickUnsafe(u) PROVE WaitedForAll'
  BY <1>31 DEF PickUnsafe
<1>32. CASE UNCHANGED vars
  BY <1>32
<1>. QED
  BY <1>1, <1>2, <1>3, <1>4, <1>5, <1>6, <1>7, <1>8, <1>9, <1>10, <1>11, <1>12, <1>13, <1>14,
     <1>15, <1>16, <1>17, <1>18, <1>19, <1>20, <1>21, <1>22, <1>23, <1>24, <1>25, <1>26, <1>27,
     <1>28, <1>29, <1>30, <1>31, <1>32 DEF Next, OwnerStep, ThreadStep, Call

\* StopWaitsForAll, for every number of threads: when a Stop that waits has returned, no
\* thread is left that would touch the pool.
THEOREM StopTrueWaits == Spec => []StopWaitsForAll
<1>1. Init => StoppedIsGone /\ WaitedForAll
  BY DEF Init, StoppedIsGone, WaitedForAll, Threads
<1>2. Shape /\ Counts /\ WaitedForAll => StopWaitsForAll
  <2> SUFFICES ASSUME Shape, Counts, AllGone PROVE exited = num
    BY DEF WaitedForAll, StopWaitsForAll, AllGone
  <2>1. num \in Nat
    BY MaxIsNat DEF Shape, Fields
  <2>2. Exited = Threads
    BY DEF AllGone, Exited, Starting, Looping
  <2>. QED
    BY <2>1, <2>2, ThreadsAreCounted DEF Counts
<1>. QED
  BY InitShape, NextShape, <1>1, NextStopped, NextWaited, <1>2, PTL DEF Spec
================================================================================
