---------------------------- MODULE TimerWheelProofs ----------------------------
(***************************************************************************)
(* Theorems about TimerWheel, for wheels of every size that satisfies the  *)
(* assumptions of that module, those of the code (256 slots, 4 wheels of   *)
(* 64) among them.                                                         *)
(***************************************************************************)
EXTENDS TimerWheel, QueueLemmas, FiniteSetTheorems, WellFoundedInduction, TLAPS

NearSlots  == 0 .. TIME_NEAR - 1
LevelSlots == 0 .. TIME_LEVEL - 1

\* The sizes as the proofs use them.
LEMMA Sizes ==
  /\ TIME_NEAR \in Nat \ {0}
  /\ TIME_LEVEL \in Nat \ {0, 1}
  /\ TIME_LEVEL_COUNT \in Nat \ {0, 1}
  /\ \A l \in 0 .. TIME_LEVEL_COUNT : SPAN[l] \in Nat \ {0}
  /\ WORD \in Nat \ {0}
  /\ SPAN[1] \in Nat
  /\ SPAN[1] = TIME_NEAR * TIME_LEVEL
  /\ SPAN[1] < WORD
<1>1. /\ TIME_NEAR \in Nat \ {0}
      /\ TIME_LEVEL \in Nat \ {0, 1}
      /\ TIME_LEVEL_COUNT \in Nat \ {0, 1}
  BY WheelAssumption
<1>2. \A l \in 0 .. TIME_LEVEL_COUNT : SPAN[l] \in Nat \ {0}
  BY <1>1, SpanAssumption
<1>3. 0 \in 0 .. TIME_LEVEL_COUNT - 1 /\ 0 + 1 = 1 /\ 1 \in 0 .. TIME_LEVEL_COUNT
  BY <1>1
<1>4. SPAN[1] = TIME_NEAR * TIME_LEVEL
  BY <1>3, SpanAssumption
<1>5. WORD \in Nat \ {0}
  BY <1>1, <1>2 DEF WORD
<1>. QED
  BY <1>1, <1>2, <1>3, <1>4, <1>5, SpanAssumption

\* A set of numbers up to n has a least one.
LEMMA LeastElement ==
  ASSUME NEW n \in Nat, NEW S, S \subseteq 0 .. n, S # {}
  PROVE  \E l \in S : \A k \in 0 .. n : k < l => k \notin S
<1> DEFINE R == 0 .. n
           Below(l) == 0 .. l
           T == {Below(l) : l \in S}
<1>1. T \subseteq SUBSET R /\ T # {}
  <2>1. \A l \in S : Below(l) \in SUBSET R
    OBVIOUS
  <2> HIDE DEF R, Below
  <2>. QED
    BY <2>1
<1>2. PICK b \in T : \A c \in T : ~(<<c, b>> \in StrictSubsetOrdering(R))
  <2>1. IsFiniteSet(R)
    BY FS_Interval
  <2> HIDE DEF T, R
  <2>2. IsWellFoundedOn(StrictSubsetOrdering(R), SUBSET R)
    BY <2>1, FS_StrictSubsetOrderingWellFounded, FS_FiniteSubsetsOfFinite
  <2>. QED
    BY <2>2, <1>1, WFMin
<1>3. PICK l \in S : b = Below(l)
  OBVIOUS
<1>4. ASSUME NEW k \in 0 .. n, k < l, k \in S PROVE FALSE
  <2>1. Below(k) \subseteq Below(l) /\ Below(k) # Below(l)
    BY <1>4
  <2>2. Below(k) \in SUBSET R /\ Below(l) \in SUBSET R
    BY <1>4
  <2>3. <<Below(k), Below(l)>> \in StrictSubsetOrdering(R)
    BY <2>1, <2>2 DEF StrictSubsetOrdering
  <2>. QED
    BY <2>3, <1>2, <1>3, <1>4
<1>. QED
  BY <1>4

Fits(e, l) == l = TIME_LEVEL_COUNT - 1 \/ SameTurn(e, m_tick, SPAN[l + 1])

\* emplace_task always finds a level: a first one exists among those that fit.
LEMMA LevelExists ==
  ASSUME NEW e
  PROVE  /\ LevelOf(e) \in Levels
         /\ Fits(e, LevelOf(e))
         /\ \A k \in 0 .. LevelOf(e) - 1 : ~SameTurn(e, m_tick, SPAN[k + 1])
<1> DEFINE S == {l \in Levels : Fits(e, l)}
<1>1. TIME_LEVEL_COUNT - 1 \in Levels /\ TIME_LEVEL_COUNT - 1 \in Nat
      /\ Levels = 0 .. TIME_LEVEL_COUNT - 1
  BY Sizes DEF Levels
<1>2. S \subseteq 0 .. TIME_LEVEL_COUNT - 1 /\ S # {}
  BY <1>1 DEF Fits
<1> HIDE DEF S
<1>3. PICK l \in S : \A k \in 0 .. TIME_LEVEL_COUNT - 1 : k < l => k \notin S
  BY <1>1, <1>2, LeastElement
<1>4. l \in Levels /\ Fits(e, l)
  BY DEF S
<1>5. ASSUME NEW k \in 0 .. l - 1 PROVE ~SameTurn(e, m_tick, SPAN[k + 1])
  <2>1. k \in Levels /\ k < l
    BY <1>1, <1>4
  <2>. QED
    BY <2>1, <1>1, <1>3 DEF S, Fits
<1>6. \E j \in Levels :
        /\ j = TIME_LEVEL_COUNT - 1 \/ SameTurn(e, m_tick, SPAN[j + 1])
        /\ \A k \in 0 .. j - 1 : ~SameTurn(e, m_tick, SPAN[k + 1])
  BY <1>4, <1>5 DEF Fits
<1>. QED
  BY <1>6 DEF LevelOf, Fits

NearType  == [NearSlots -> Seq(Tasks)]
TableType == [Levels -> [LevelSlots -> Seq(Tasks)]]

\* A level has a slot for every tick.
LEMMA SlotExists ==
  ASSUME NEW e \in Nat, NEW l \in Levels
  PROVE  SlotOf(e, l) \in LevelSlots
<1> DEFINE s == SPAN[l]
<1>1. s \in Nat \ {0}
  BY Sizes DEF Levels
<1>2. e \div s \in Nat
  BY <1>1
<1> HIDE DEF s
<1>3. (e \div s) % TIME_LEVEL \in LevelSlots
  BY <1>2, Sizes DEF LevelSlots
<1>. QED
  BY <1>3 DEF SlotOf, s

\* emplace_task keeps the shape of the wheels.
LEMMA EmplaceTyped ==
  ASSUME NEW t \in Tasks, NEW e \in Nat, NEW near \in NearType, NEW table \in TableType,
         EmplaceTask(t, e, near, table)
  PROVE  m_near' \in NearType /\ m_table' \in TableType
<1>1. e % TIME_NEAR \in NearSlots
  BY Sizes DEF NearSlots
<1>2. LevelOf(e) \in Levels /\ SlotOf(e, LevelOf(e)) \in LevelSlots
  BY LevelExists, SlotExists
<1>4. CASE SameTurn(e, m_tick, TIME_NEAR)
  <2> DEFINE i == e % TIME_NEAR
  <2>1. m_table' = table /\ m_near' = [near EXCEPT ![i] = Append(@, t)]
    BY <1>4 DEF EmplaceTask
  <2>2. i \in NearSlots
    BY <1>1
  <2> HIDE DEF i
  <2>. QED
    BY <2>1, <2>2 DEF NearType
<1>5. CASE ~SameTurn(e, m_tick, TIME_NEAR)
  <2> DEFINE l == LevelOf(e)
             i == SlotOf(e, l)
  <2>1. m_near' = near /\ m_table' = [table EXCEPT ![l][i] = Append(@, t)]
    BY <1>5 DEF EmplaceTask
  <2>2. l \in Levels /\ i \in LevelSlots
    BY <1>2
  <2> HIDE DEF l, i
  <2>. QED
    BY <2>1, <2>2 DEF TableType
<1>. QED
  BY <1>4, <1>5

-------------------------------------------------------------------------------
(* Types, the stall and the clock *)

\* The search of timer_shift, up to the tick at which it never ends.
SearchInv ==
  /\ m_tick <= SPAN[1]
  /\ m_tick = SPAN[1] => pc = "search"
  /\ pc = "search" =>
       /\ shift_ti \in 0 .. TIME_LEVEL
       /\ m_tick = SPAN[1] <=> shift_ti \in {0, TIME_LEVEL}
       /\ shift_ti # 0 => lv = 0
  /\ pc = "cascade" => lv = 0

\* The catch-up loop: m_record and idx account for every tick of the wheel.
ClockInv ==
  /\ pc = "sleep" => idx = 0
  /\ pc # "sleep" => m_record + idx <= sys_tick
  /\ pc \in {"execute1", "search", "cascade", "execute2"} => m_record + idx < sys_tick
  /\ m_record <= clock /\ sys_tick <= clock
  /\ m_tick = m_record + idx + (IF pc \in {"search", "cascade", "execute2"} THEN 1 ELSE 0)

TimerInv == TypeOK /\ SearchInv /\ ClockInv

\* Division by the near wheel's size, for the ticks up to the stall.
LEMMA NearTurns ==
  ASSUME NEW a \in Nat \ {0}, NEW n \in Nat \ {0}, NEW l \in Nat \ {0}, a <= n * l, a % n = 0
  PROVE  /\ a \div n \in 1 .. l
         /\ a \div n = l <=> a = n * l
<1> DEFINE q == a \div n
<1>1. q \in Nat /\ a = n * q
  OBVIOUS
<1> HIDE DEF q
<1>2. q # 0
  BY <1>1
<1>3. q <= l
  <2> SUFFICES ASSUME q >= l + 1 PROVE FALSE
    BY <1>1
  <2>1. n * q >= n * (l + 1)
    BY <1>1
  <2>. QED
    BY <2>1, <1>1
<1>4. a = n * l => q = l
  <2> SUFFICES ASSUME n * q = n * l PROVE q = l
    BY <1>1
  <2>. QED
    BY <1>1
<1>. QED
  BY <1>1, <1>2, <1>3, <1>4 DEF q

\* The wheel starts empty, at the clock's tick.
LEMMA TimerInvInit == Init => TimerInv
<1> SUFFICES ASSUME Init PROVE TimerInv
  OBVIOUS
<1>1. /\ m_near \in [0 .. TIME_NEAR - 1 -> Seq(Tasks)]
      /\ m_table \in [Levels -> [0 .. TIME_LEVEL - 1 -> Seq(Tasks)]]
  BY DEF Init
<1>2. /\ 0 \in Ticks
      /\ 0 \in 0 .. TIME_LEVEL_COUNT
      /\ 0 < SPAN[1]
  BY Sizes DEF Ticks
<1>3. TypeOK
  BY <1>1, <1>2 DEF Init, TypeOK
<1>4. SearchInv
  BY <1>2, Sizes DEF Init, SearchInv
<1>5. ClockInv
  BY DEF Init, ClockInv
<1>. QED
  BY <1>3, <1>4, <1>5 DEF TimerInv

\* A step that leaves the wheel's position, the search and the loop alone.
LEMMA TimerInvKept ==
  ASSUME TimerInv, TypeOK',
         UNCHANGED <<m_tick, m_record, pc, sys_tick, idx, shift_ti, lv, clock>>
  PROVE  TimerInv'
  BY DEF TimerInv, SearchInv, ClockInv

\* Every step of the callers, of the timer thread and of the clock keeps TimerInv.
LEMMA TimerInvStep == TimerInv /\ [Next]_vars => TimerInv'
<1> SUFFICES ASSUME TimerInv, [Next]_vars
             PROVE  TimerInv'
  OBVIOUS
<1> USE DEF wheels, local, tasks
<1>t. /\ m_tick \in Nat /\ m_tick \in Ticks
      /\ m_record \in Nat /\ sys_tick \in Nat /\ idx \in Nat /\ clock \in Nat
      /\ shift_ti \in Nat
      /\ lv \in 0 .. TIME_LEVEL_COUNT
      /\ m_near \in NearType /\ m_table \in TableType
      /\ stage \in [Tasks -> {"new", "read", "queued", "handed"}]
      /\ expire \in [Tasks -> Ticks]
      /\ due \in [Tasks -> Nat]
      /\ pc \in {"sleep", "loop", "execute1", "search", "cascade", "execute2"}
      /\ pc = "cascade" => lv \in Levels
  BY Sizes DEF TimerInv, TypeOK, Ticks, NearType, TableType, NearSlots, LevelSlots
<1>n. \A t \in Tasks : expire[t] \in Nat
  BY <1>t, Sizes DEF Ticks
<1>1. ASSUME NEW t \in Tasks, NEW ms \in Delays, ReadTick(t, ms)
      PROVE  TimerInv'
  <2> DEFINE arg_tick == ms \div UNIT_MILLISECOND
             e == (m_tick + arg_tick) % WORD
  <2>1. arg_tick \in Nat
    BY DelaysAssumption
  <2>2. e \in Ticks
    BY <1>t, <2>1, Sizes DEF Ticks
  <2>3. clock + arg_tick \in Nat
    BY <1>t, <2>1
  <2> HIDE DEF e
  <2>4. TypeOK'
    BY <1>1, <1>t, <2>2, <2>3 DEF ReadTick, TypeOK, TimerInv, e
  <2>. QED
    BY <1>1, <2>4, TimerInvKept DEF ReadTick
<1>2. ASSUME NEW t \in Tasks, Insert(t)
      PROVE  TimerInv'
  <2>1. m_near' \in NearType /\ m_table' \in TableType
    BY <1>2, <1>t, <1>n, EmplaceTyped DEF Insert
  <2>2. TypeOK'
    BY <1>2, <1>t, <2>1 DEF Insert, TypeOK, TimerInv, NearType, TableType, NearSlots, LevelSlots
  <2>. QED
    BY <1>2, <2>2, TimerInvKept DEF Insert
<1>3. CASE Wake
  BY <1>3, <1>t DEF Wake, TimerInv, TypeOK, SearchInv, ClockInv
<1>4. CASE BeginTick
  BY <1>4, <1>t DEF BeginTick, TimerInv, TypeOK, SearchInv, ClockInv
<1>5. CASE EndUpdate
  BY <1>5, <1>t DEF EndUpdate, TimerInv, TypeOK, SearchInv, ClockInv
<1>6. CASE ExecuteOne
  <2> DEFINE q == m_near[NearSlot]
             t == Head(q)
  <2>1. NearSlot \in NearSlots
    BY <1>t, Sizes DEF NearSlot, NearSlots
  <2>2. q \in Seq(Tasks) /\ q # <<>>
    BY <1>6, <1>t, <2>1 DEF ExecuteOne, NearType
  <2>3. t \in Tasks /\ Tail(q) \in Seq(Tasks)
    BY <2>2
  <2>4. 0 \in Ticks
    BY Sizes DEF Ticks
  <2>6. m_near' \in NearType
    BY <1>6, <1>t, <2>1, <2>3 DEF ExecuteOne, NearType
  <2> HIDE DEF t
  <2>7. TypeOK'
    BY <1>6, <1>t, <2>3, <2>4, <2>6
    DEF ExecuteOne, TypeOK, TimerInv, NearType, NearSlots, t
  <2>. QED
    BY <1>6, <2>7, TimerInvKept DEF ExecuteOne
<1>7. CASE Unlock
  BY <1>7, <1>t DEF Unlock, TimerInv, TypeOK, SearchInv, ClockInv
<1>8. CASE Shift
  <2> DEFINE n == m_tick + 1
  <2>1. m_tick < SPAN[1]
    BY <1>8, <1>t, Sizes DEF Shift, TimerInv, SearchInv
  <2>2. n \in Nat \ {0} /\ n <= SPAN[1] /\ n < WORD /\ n \in Ticks /\ n % WORD = n
    <3>1. n \in Nat \ {0} /\ n <= SPAN[1] /\ n < WORD
      BY <1>t, <2>1, Sizes
    <3> HIDE DEF n
    <3>. QED
      BY <3>1, Sizes DEF Ticks
  <2>3. m_tick' = n
    BY <1>8, <2>2 DEF Shift
  <2>4. CASE n % TIME_NEAR = 0
    <3>1. n \div TIME_NEAR \in 1 .. TIME_LEVEL /\ (n \div TIME_NEAR = TIME_LEVEL <=> n = SPAN[1])
      <4> HIDE DEF n
      <4>1. /\ TIME_NEAR \in Nat \ {0} /\ TIME_LEVEL \in Nat \ {0}
            /\ SPAN[1] = TIME_NEAR * TIME_LEVEL
        BY Sizes
      <4>2. n \in Nat \ {0} /\ n <= TIME_NEAR * TIME_LEVEL /\ n % TIME_NEAR = 0
        BY <2>2, <2>4, <4>1
      <4>. QED
        BY <4>1, <4>2, NearTurns
    <3>2. pc' = "search" /\ shift_ti' = n \div TIME_NEAR /\ lv' = 0
      BY <1>8, <2>2, <2>3, <2>4 DEF Shift
    <3>3. TypeOK'
      BY <1>8, <1>t, <2>2, <2>3, <3>1, <3>2, Sizes DEF Shift, TimerInv, TypeOK
    <3>4. SearchInv'
      <4> DEFINE q == n \div TIME_NEAR
      <4>1. q \in 1 .. TIME_LEVEL /\ (q = TIME_LEVEL <=> n = SPAN[1]) /\ shift_ti' = q
        BY <3>1, <3>2
      <4> HIDE DEF q
      <4>. QED
        BY <2>2, <2>3, <3>2, <4>1, Sizes DEF SearchInv
    <3>5. ClockInv'
      BY <1>8, <1>t, <2>3, <3>2 DEF Shift, TimerInv, ClockInv
    <3>. QED
      BY <3>3, <3>4, <3>5 DEF TimerInv
  <2>5. CASE n % TIME_NEAR # 0
    <3>1. n # SPAN[1]
      BY <2>5, Sizes
    <3>2. pc' = "execute2" /\ shift_ti' = shift_ti /\ lv' = lv
      BY <1>8, <2>2, <2>3, <2>5 DEF Shift
    <3>. QED
      BY <1>8, <1>t, <2>2, <2>3, <3>1, <3>2, Sizes
      DEF Shift, TimerInv, TypeOK, SearchInv, ClockInv
  <2>. QED
    BY <2>4, <2>5
<1>9. CASE Found
  <2>1. shift_ti # 0 /\ shift_ti # TIME_LEVEL
    BY <1>9, Sizes DEF Found
  <2>2. lv = 0 /\ 0 \in Levels /\ m_tick # SPAN[1]
    BY <1>9, <2>1, Sizes DEF Found, TimerInv, SearchInv, Levels
  <2>. QED
    BY <1>9, <1>t, <2>2 DEF Found, TimerInv, TypeOK, SearchInv, ClockInv
<1>10. CASE GoUp
  <2>1. shift_ti \in {0, TIME_LEVEL}
    <3>1. shift_ti \in 0 .. TIME_LEVEL /\ shift_ti % TIME_LEVEL = 0
      BY <1>10 DEF GoUp, TimerInv, SearchInv
    <3>. QED
      BY <3>1, Sizes
  <2>2. shift_ti' = 0
    BY <1>10, <2>1, ShiftAssumption DEF GoUp
  <2>3. lv' \in 0 .. TIME_LEVEL_COUNT
    BY <1>10, <1>t, Sizes DEF GoUp
  <2>. QED
    BY <1>10, <1>t, <2>1, <2>2, <2>3, Sizes DEF GoUp, TimerInv, TypeOK, SearchInv, ClockInv
<1>11. CASE CascadeOne
  <2> DEFINE q == m_table[lv][DownSlot]
             t == Head(q)
             table == [m_table EXCEPT ![lv][DownSlot] = Tail(@)]
  <2>1. DownSlot \in LevelSlots /\ lv \in Levels
    <3>1. pc = "cascade"
      BY <1>11 DEF CascadeOne
    <3>. QED
      BY <3>1, <1>t, Sizes DEF DownSlot, LevelSlots
  <2>2. q \in Seq(Tasks) /\ q # <<>>
    BY <1>11, <1>t, <2>1 DEF CascadeOne, TableType
  <2>3. t \in Tasks /\ Tail(q) \in Seq(Tasks)
    BY <2>2
  <2>4. table \in TableType
    BY <1>t, <2>1, <2>3 DEF TableType
  <2>5. EmplaceTask(t, expire[t], m_near, table)
    BY <1>11 DEF CascadeOne
  <2> HIDE DEF t, table
  <2>6. m_near' \in NearType /\ m_table' \in TableType
    BY <1>t, <1>n, <2>3, <2>4, <2>5, EmplaceTyped
  <2>7. TypeOK'
    BY <1>11, <1>t, <2>6
    DEF CascadeOne, TypeOK, TimerInv, NearType, TableType, NearSlots, LevelSlots
  <2>. QED
    BY <1>11, <2>7, TimerInvKept DEF CascadeOne
<1>12. CASE CascadeDone
  <2>1. 0 \in 0 .. TIME_LEVEL_COUNT
    BY Sizes
  <2>. QED
    BY <1>12, <1>t, <2>1 DEF CascadeDone, TimerInv, TypeOK, SearchInv, ClockInv
<1>13. CASE ClockAdvance
  BY <1>13, <1>t DEF ClockAdvance, TimerInv, TypeOK, SearchInv, ClockInv
<1>14. CASE UNCHANGED vars
  <2>1. TypeOK'
    BY <1>14 DEF vars, TimerInv, TypeOK
  <2>. QED
    BY <1>14, <2>1, TimerInvKept DEF vars
<1>. QED
  BY <1>1, <1>2, <1>3, <1>4, <1>5, <1>6, <1>7, <1>8, <1>9, <1>10, <1>11, <1>12, <1>13, <1>14
  DEF Next, TimerStep

\* TimerInv is an invariant.
LEMMA TimerInvHolds == Spec => []TimerInv
  BY TimerInvInit, TimerInvStep, PTL DEF Spec

\* The wheel's data keep their types; no index leaves the wheels.
THEOREM TimerTypeCorrect == Spec => []TypeOK
  BY TimerInvHolds, PTL DEF TimerInv

\* The wheel never gets past TIME_NEAR * TIME_LEVEL ticks: there the search of
\* timer_shift does not end (line 208).
THEOREM TimerStops == Spec => []StopsAfterOneTurn
<1>1. TimerInv => StopsAfterOneTurn
  <2> SUFFICES ASSUME TimerInv PROVE StopsAfterOneTurn
    OBVIOUS
  <2>1. 0 % TIME_LEVEL = 0 /\ TIME_LEVEL % TIME_LEVEL = 0
    BY Sizes
  <2>. QED
    BY <2>1 DEF TimerInv, SearchInv, StopsAfterOneTurn
<1>. QED
  BY <1>1, TimerInvHolds, PTL

\* No tick of the clock is skipped or counted twice, however updates and clock mix.
THEOREM TickKeepsUp == Spec => []TickTracksClock
<1>1. TimerInv => TickTracksClock
  <2> SUFFICES ASSUME TimerInv PROVE TickTracksClock
    OBVIOUS
  <2>1. m_record \in Nat /\ sys_tick \in Nat /\ idx \in Nat /\ clock \in Nat
    BY DEF TimerInv, TypeOK
  <2>. QED
    BY <2>1 DEF TimerInv, TypeOK, ClockInv, TickTracksClock
<1>. QED
  BY <1>1, TimerInvHolds, PTL

-------------------------------------------------------------------------------
(* Every task stands in one slot *)

\* The two kinds of wheel as one family of queues.
Family(near, table) ==
  [p \in Places |-> IF p[1] = 0 THEN near[p[2]] ELSE table[p[1] - 1][p[2]]]

\* The places, as pairs.
LEMMA PlacesAre ==
  /\ \A i \in NearSlots : <<0, i>> \in Places
  /\ \A l \in Levels, i \in LevelSlots : <<l + 1, i>> \in Places
  /\ \A p \in Places :
       \/ \E i \in NearSlots : p = <<0, i>>
       \/ \E l \in Levels, i \in LevelSlots : p = <<l + 1, i>>
  /\ \A l \in Levels : l + 1 # 0 /\ (l + 1) - 1 = l /\ l \in Nat
  BY Sizes DEF Places, NearSlots, LevelSlots, Levels

\* The family holds queues of tasks.
LEMMA FamilyTyped ==
  ASSUME NEW near \in NearType, NEW table \in TableType
  PROVE  Family(near, table) \in [Places -> Seq(Tasks)]
<1> SUFFICES ASSUME NEW p \in Places
             PROVE  (IF p[1] = 0 THEN near[p[2]] ELSE table[p[1] - 1][p[2]]) \in Seq(Tasks)
  BY DEF Family
<1>1. ASSUME NEW i \in NearSlots, p = <<0, i>>
      PROVE  (IF p[1] = 0 THEN near[p[2]] ELSE table[p[1] - 1][p[2]]) \in Seq(Tasks)
  BY <1>1 DEF NearType
<1>2. ASSUME NEW l \in Levels, NEW i \in LevelSlots, p = <<l + 1, i>>
      PROVE  (IF p[1] = 0 THEN near[p[2]] ELSE table[p[1] - 1][p[2]]) \in Seq(Tasks)
  BY <1>2, PlacesAre DEF TableType
<1>. QED
  BY <1>1, <1>2, PlacesAre

\* A change of one slot of the near wheel is a change at one place.
LEMMA NearChange ==
  ASSUME NEW near \in NearType, NEW table \in TableType, NEW i \in NearSlots, NEW q
  PROVE  Family(Put(near, i, q), table) = Put(Family(near, table), <<0, i>>, q)
<1> DEFINE F == Family(near, table)
           G == Family(Put(near, i, q), table)
<1>1. ASSUME NEW p \in Places
      PROVE  G[p] = IF p = <<0, i>> THEN q ELSE F[p]
  <2>1. ASSUME NEW j \in NearSlots, p = <<0, j>>
        PROVE  G[p] = IF p = <<0, i>> THEN q ELSE F[p]
    BY <2>1 DEF Family, NearType, Put
  <2>2. ASSUME NEW l \in Levels, NEW j \in LevelSlots, p = <<l + 1, j>>
        PROVE  G[p] = IF p = <<0, i>> THEN q ELSE F[p]
    BY <2>2, PlacesAre DEF Family
  <2>. QED
    BY <2>1, <2>2, PlacesAre
<1>2. <<0, i>> \in Places
  BY PlacesAre
<1>3. /\ F = [p \in Places |-> F[p]]
      /\ G = [p \in Places |-> G[p]]
  BY DEF Family
<1> HIDE DEF F, G
<1>4. G = Put(F, <<0, i>>, q)
  BY <1>1, <1>2, <1>3 DEF Put
<1>. QED
  BY <1>4 DEF F, G

\* A change of one slot of a level is a change at one place.
LEMMA TableChange ==
  ASSUME NEW near \in NearType, NEW table \in TableType,
         NEW l \in Levels, NEW i \in LevelSlots, NEW q
  PROVE  Family(near, Put(table, l, Put(table[l], i, q)))
           = Put(Family(near, table), <<l + 1, i>>, q)
<1> DEFINE table2 == Put(table, l, Put(table[l], i, q))
           F == Family(near, table)
           G == Family(near, table2)
<1>1. ASSUME NEW p \in Places
      PROVE  G[p] = IF p = <<l + 1, i>> THEN q ELSE F[p]
  <2>1. ASSUME NEW j \in NearSlots, p = <<0, j>>
        PROVE  G[p] = IF p = <<l + 1, i>> THEN q ELSE F[p]
    BY <2>1, PlacesAre DEF Family
  <2>2. ASSUME NEW k \in Levels, NEW j \in LevelSlots, p = <<k + 1, j>>
        PROVE  G[p] = IF p = <<l + 1, i>> THEN q ELSE F[p]
    <3>1. p = <<l + 1, i>> <=> k = l /\ j = i
      BY <2>2, PlacesAre
    <3>2. G[p] = table2[k][j] /\ F[p] = table[k][j]
      BY <2>2, PlacesAre DEF Family
    <3>3. table2[k][j] = IF k = l /\ j = i THEN q ELSE table[k][j]
      BY DEF TableType, Put
    <3>. QED
      BY <3>1, <3>2, <3>3
  <2>. QED
    BY <2>1, <2>2, PlacesAre
<1>2. <<l + 1, i>> \in Places
  BY PlacesAre
<1>3. /\ F = [p \in Places |-> F[p]]
      /\ G = [p \in Places |-> G[p]]
  BY DEF Family
<1> HIDE DEF F, G
<1>4. G = Put(F, <<l + 1, i>>, q)
  BY <1>1, <1>2, <1>3 DEF Put
<1>. QED
  BY <1>4 DEF F, G

\* Where emplace_task puts a task.
PlaceOf(e) ==
  IF SameTurn(e, m_tick, TIME_NEAR) THEN <<0, e % TIME_NEAR>>
  ELSE <<LevelOf(e) + 1, SlotOf(e, LevelOf(e))>>

\* emplace_task pushes its task to one queue and touches no other.
LEMMA EmplacePushes ==
  ASSUME NEW t \in Tasks, NEW e \in Nat, NEW near \in NearType, NEW table \in TableType,
         EmplaceTask(t, e, near, table)
  PROVE  /\ PlaceOf(e) \in Places
         /\ Family(m_near', m_table')
              = Put(Family(near, table), PlaceOf(e), Append(Family(near, table)[PlaceOf(e)], t))
<1> DEFINE F == Family(near, table)
<1>1. CASE SameTurn(e, m_tick, TIME_NEAR)
  <2> DEFINE i == e % TIME_NEAR
             q == Append(near[i], t)
  <2>1. i \in NearSlots
    BY Sizes DEF NearSlots
  <2>2. m_near' = Put(near, i, q) /\ m_table' = table
    BY <1>1 DEF EmplaceTask, Put
  <2>3. PlaceOf(e) = <<0, i>>
    BY <1>1 DEF PlaceOf
  <2>4. <<0, i>> \in Places /\ F[<<0, i>>] = near[i]
    BY <2>1, PlacesAre DEF Family
  <2> HIDE DEF i
  <2>5. Family(m_near', m_table') = Put(F, <<0, i>>, q)
    <3> HIDE DEF q
    <3>. QED
      BY <2>1, <2>2, NearChange
  <2> HIDE DEF F
  <2>. QED
    BY <2>3, <2>4, <2>5 DEF F
<1>2. CASE ~SameTurn(e, m_tick, TIME_NEAR)
  <2> DEFINE l == LevelOf(e)
             i == SlotOf(e, l)
             q == Append(table[l][i], t)
  <2>1. l \in Levels /\ i \in LevelSlots
    BY LevelExists, SlotExists
  <2>2. m_near' = near /\ m_table' = Put(table, l, Put(table[l], i, q))
    BY <1>2, <2>1 DEF EmplaceTask, Put, TableType
  <2>3. PlaceOf(e) = <<l + 1, i>>
    BY <1>2 DEF PlaceOf
  <2> HIDE DEF l, i
  <2>4. <<l + 1, i>> \in Places /\ F[<<l + 1, i>>] = table[l][i]
    BY <2>1, PlacesAre DEF Family
  <2>5. Family(m_near', m_table') = Put(F, <<l + 1, i>>, q)
    <3> HIDE DEF q
    <3>. QED
      BY <2>1, <2>2, TableChange
  <2> HIDE DEF F
  <2>. QED
    BY <2>3, <2>4, <2>5 DEF F
<1>. QED
  BY <1>1, <1>2

\* OneSlot in the terms of QueueLemmas.
Wheel == Family(m_near, m_table)

SlotInv ==
  /\ Apart(Wheel)
  /\ \A t \in Tasks : stage[t] = "queued" <=> t \in Held(Wheel)

\* Said of the family of queues, the invariant gives the property as it is stated.
LEMMA SlotInvIsOneSlot == TypeOK /\ SlotInv => OneSlot
<1> SUFFICES ASSUME TypeOK, SlotInv PROVE OneSlot
  OBVIOUS
<1>1. DOMAIN Wheel = Places /\ \A p \in Places : Wheel[p] = QueueAt(p)
  BY DEF Wheel, Family, QueueAt
<1>2. \A p \in Places, t \in Tasks : StandsAt(t, p) <=> t \in Elements(Wheel[p])
  BY <1>1 DEF StandsAt, Elements
<1>3. \A p \in Places : \A i, j \in DOMAIN QueueAt(p) : QueueAt(p)[i] = QueueAt(p)[j] => i = j
  BY <1>1 DEF SlotInv, Apart, Distinct
<1>4. \A p, r \in Places, t \in Tasks : StandsAt(t, p) /\ StandsAt(t, r) => p = r
  BY <1>1, <1>2 DEF SlotInv, Apart
<1>5. \A t \in Tasks : stage[t] = "queued" <=> \E p \in Places : StandsAt(t, p)
  BY <1>1, <1>2 DEF SlotInv, Held
<1>. QED
  BY <1>3, <1>4, <1>5 DEF OneSlot

-------------------------------------------------------------------------------
(* What the actions do to the family of queues *)

\* The types that the lemmas below use.
LEMMA WheelTypes ==
  ASSUME TypeOK
  PROVE  /\ m_near \in NearType /\ m_table \in TableType
         /\ stage \in [Tasks -> {"new", "read", "queued", "handed"}]
         /\ expire \in [Tasks -> Ticks]
         /\ \A t \in Tasks : expire[t] \in Nat
         /\ m_tick \in Nat /\ shift_ti \in Nat
         /\ pc = "cascade" => lv \in Levels
         /\ Wheel \in [Places -> Seq(Tasks)]
         /\ <<0, NearSlot>> \in Places
<1>1. /\ m_near \in NearType /\ m_table \in TableType
      /\ stage \in [Tasks -> {"new", "read", "queued", "handed"}]
      /\ \A t \in Tasks : expire[t] \in Nat
      /\ m_tick \in Nat /\ shift_ti \in Nat
      /\ pc = "cascade" => lv \in Levels
  BY Sizes DEF TypeOK, Ticks, NearType, TableType, NearSlots, LevelSlots
<1>2. Wheel \in [Places -> Seq(Tasks)]
  BY <1>1, FamilyTyped DEF Wheel
<1>3. <<0, NearSlot>> \in Places
  BY <1>1, PlacesAre, Sizes DEF NearSlot, NearSlots
<1>. QED
  BY <1>1, <1>2, <1>3 DEF TypeOK

\* The inserted task joins the queue of its place.
LEMMA InsertPushes ==
  ASSUME TypeOK, NEW t \in Tasks, Insert(t)
  PROVE  /\ PlaceOf(expire[t]) \in Places
         /\ Wheel' = Put(Wheel, PlaceOf(expire[t]), Append(Wheel[PlaceOf(expire[t])], t))
<1>1. EmplaceTask(t, expire[t], m_near, m_table) /\ expire[t] \in Nat
  BY WheelTypes DEF Insert
<1> DEFINE e == expire[t]
<1> HIDE DEF e
<1>2. /\ PlaceOf(e) \in Places
      /\ Family(m_near', m_table')
           = Put(Family(m_near, m_table), PlaceOf(e),
                 Append(Family(m_near, m_table)[PlaceOf(e)], t))
  BY <1>1, WheelTypes, EmplacePushes DEF e
<1>. QED
  BY <1>2 DEF Wheel, e

\* The task handed over was the first of the near wheel's present slot.
LEMMA ExecutePops ==
  ASSUME TypeOK, ExecuteOne, NEW p, p = <<0, NearSlot>>
  PROVE  /\ Wheel[p] # <<>>
         /\ Wheel' = Put(Wheel, p, Tail(Wheel[p]))
         /\ Head(Wheel[p]) \in Tasks
         /\ stage' = [stage EXCEPT ![Head(Wheel[p])] = "handed"]
         /\ expire' = [expire EXCEPT ![Head(Wheel[p])] = 0]
         /\ due' = [due EXCEPT ![Head(Wheel[p])] = 0]
<1> DEFINE i == NearSlot
<1>1. i \in NearSlots
  BY WheelTypes, Sizes DEF NearSlot, NearSlots
<1>2. p \in Places /\ Wheel[p] = m_near[i]
  BY <1>1, PlacesAre DEF Wheel, Family
<1>3. /\ m_near[i] # <<>>
      /\ m_near' = Put(m_near, i, Tail(m_near[i])) /\ m_table' = m_table
      /\ stage' = [stage EXCEPT ![Head(m_near[i])] = "handed"]
      /\ expire' = [expire EXCEPT ![Head(m_near[i])] = 0]
      /\ due' = [due EXCEPT ![Head(m_near[i])] = 0]
  BY DEF ExecuteOne, Put
<1>4. Head(m_near[i]) \in Tasks
  <2>1. m_near[i] \in Seq(Tasks)
    BY <1>1, WheelTypes DEF NearType
  <2>. QED
    BY <2>1, <1>3
<1>5. p = <<0, i>>
  OBVIOUS
<1> HIDE DEF i
<1>6. Wheel' = Put(Wheel, <<0, i>>, Tail(m_near[i]))
  BY <1>1, <1>3, WheelTypes, NearChange DEF Wheel
<1>. QED
  BY <1>2, <1>3, <1>4, <1>5, <1>6

\* One round of down_queue: the first task of the slot goes to the place that
\* emplace_task chooses for it now.
LEMMA CascadeMoves ==
  ASSUME TypeOK, CascadeOne, NEW d, d = <<lv + 1, DownSlot>>
  PROVE  /\ d \in Places /\ Wheel[d] # <<>> /\ Head(Wheel[d]) \in Tasks
         /\ LET t == Head(Wheel[d])
                p == PlaceOf(expire[t])
                W == Put(Wheel, d, Tail(Wheel[d]))
            IN  p \in Places /\ Wheel' = Put(W, p, Append(W[p], t))
<1> DEFINE i == DownSlot
           t == Head(m_table[lv][i])
           e == expire[t]
           table == Put(m_table, lv, Put(m_table[lv], i, Tail(m_table[lv][i])))
<1>1. i \in LevelSlots /\ lv \in Levels
  <2>1. pc = "cascade"
    BY DEF CascadeOne
  <2>. QED
    BY <2>1, WheelTypes, Sizes DEF DownSlot, LevelSlots
<1>2. m_table[lv][i] # <<>> /\ EmplaceTask(t, e, m_near, table)
  BY <1>1, WheelTypes DEF CascadeOne, Put, TableType
<1>3. m_table[lv][i] \in Seq(Tasks)
  BY <1>1, WheelTypes DEF TableType
<1>4. t \in Tasks /\ e \in Nat /\ Tail(m_table[lv][i]) \in Seq(Tasks)
  BY <1>2, <1>3, WheelTypes
<1>5. d \in Places /\ Wheel[d] = m_table[lv][i]
  BY <1>1, PlacesAre DEF Wheel, Family
<1>6. table \in TableType
  BY <1>1, <1>4, WheelTypes DEF TableType, Put
<1>7. d = <<lv + 1, i>>
  OBVIOUS
<1> HIDE DEF i
<1> DEFINE W == Family(m_near, table)
           p == PlaceOf(e)
<1>8. W = Put(Wheel, d, Tail(Wheel[d]))
  BY <1>1, <1>5, <1>7, WheelTypes, TableChange DEF Wheel
<1>9. t = Head(Wheel[d]) /\ e = expire[Head(Wheel[d])]
  BY <1>5
<1> HIDE DEF t, table, e
<1>10. p \in Places /\ Wheel' = Put(W, p, Append(W[p], t))
  BY <1>2, <1>4, <1>6, WheelTypes, EmplacePushes DEF Wheel
<1> HIDE DEF W
<1>. QED
  BY <1>2, <1>4, <1>5, <1>8, <1>9, <1>10

LEMMA SlotInvInit == Init => SlotInv
<1> SUFFICES ASSUME Init PROVE SlotInv
  OBVIOUS
<1>1. \A p \in Places : Wheel[p] = <<>>
  BY PlacesAre DEF Init, Wheel, Family, NearSlots, LevelSlots
<1>2. DOMAIN Wheel = Places
  BY DEF Wheel, Family
<1>3. Apart(Wheel) /\ Held(Wheel) = {}
  BY <1>1, <1>2 DEF Apart, Held, Elements, Distinct
<1>. QED
  BY <1>3 DEF Init, SlotInv

LEMMA SlotInvStep == TimerInv /\ SlotInv /\ [Next]_vars => SlotInv'
<1> SUFFICES ASSUME TimerInv, SlotInv, [Next]_vars PROVE SlotInv'
  OBVIOUS
<1> USE DEF wheels, local, tasks
<1>t. TypeOK /\ stage \in [Tasks -> {"new", "read", "queued", "handed"}]
  BY WheelTypes DEF TimerInv
<1>s. /\ Wheel \in [Places -> Seq(Tasks)] /\ Apart(Wheel)
      /\ \A t \in Tasks : stage[t] = "queued" <=> t \in Held(Wheel)
  BY <1>t, WheelTypes DEF SlotInv
<1>1. CASE UNCHANGED <<m_near, m_table, stage>>
  BY <1>1, <1>s DEF SlotInv, Wheel
<1>2. ASSUME NEW t \in Tasks, NEW ms \in Delays, ReadTick(t, ms) PROVE SlotInv'
  <2>1. Wheel' = Wheel /\ stage[t] = "new" /\ stage' = [stage EXCEPT ![t] = "read"]
    BY <1>2 DEF ReadTick, Wheel
  <2>. QED
    BY <1>t, <1>s, <2>1 DEF SlotInv
<1>3. ASSUME NEW t \in Tasks, Insert(t) PROVE SlotInv'
  <2>1. stage[t] = "read" /\ stage' = [stage EXCEPT ![t] = "queued"]
    BY <1>3 DEF Insert
  <2>2. PICK p \in Places : Wheel' = Put(Wheel, p, Append(Wheel[p], t))
    BY <1>3, <1>t, InsertPushes
  <2>3. Apart(Wheel') /\ Held(Wheel') = Held(Wheel) \cup {t}
    BY <1>s, <2>1, <2>2, PushApart
  <2>. QED
    BY <1>t, <1>s, <2>1, <2>3 DEF SlotInv
<1>4. CASE ExecuteOne
  <2> DEFINE p == <<0, NearSlot>>
             t == Head(Wheel[p])
  <2>1. /\ p \in Places /\ Wheel[p] # <<>> /\ t \in Tasks
        /\ Wheel' = Put(Wheel, p, Tail(Wheel[p]))
        /\ stage' = [stage EXCEPT ![t] = "handed"]
    BY <1>4, <1>t, WheelTypes, ExecutePops
  <2> HIDE DEF p
  <2>2. Apart(Wheel') /\ Held(Wheel') = Held(Wheel) \ {t}
    BY <1>s, <2>1, PopApart
  <2> HIDE DEF t
  <2>. QED
    BY <1>t, <1>s, <2>1, <2>2 DEF SlotInv
<1>5. CASE CascadeOne
  <2> DEFINE d == <<lv + 1, DownSlot>>
             t == Head(Wheel[d])
             W == Put(Wheel, d, Tail(Wheel[d]))
  <2>1. /\ d \in Places /\ Wheel[d] # <<>> /\ t \in Tasks
        /\ \E p \in Places : Wheel' = Put(W, p, Append(W[p], t))
    BY <1>5, <1>t, CascadeMoves
  <2> HIDE DEF d
  <2>2. /\ W \in [Places -> Seq(Tasks)] /\ Apart(W)
        /\ t \in Held(Wheel) /\ Held(W) = Held(Wheel) \ {t}
    BY <1>s, <2>1, PopApart
  <2> HIDE DEF t, W
  <2>3. PICK p \in Places : Wheel' = Put(W, p, Append(W[p], t))
    BY <2>1
  <2>4. Apart(Wheel') /\ Held(Wheel') = Held(W) \cup {t}
    BY <2>1, <2>2, <2>3, PushApart
  <2>5. Held(Wheel') = Held(Wheel)
    BY <2>2, <2>4
  <2>. QED
    BY <1>5, <1>s, <2>4, <2>5 DEF CascadeOne, SlotInv
<1>. QED
  BY <1>1, <1>2, <1>3, <1>4, <1>5
  DEF Next, TimerStep, Wake, BeginTick, EndUpdate, Unlock, Shift, Found, GoUp, CascadeDone,
      ClockAdvance, vars

\* A task that thesky_timeout has inserted is in one slot, once, until it is handed to
\* the pool: neither emplace_task nor the cascade of down_queue loses or doubles it.
THEOREM TaskHasOneSlot == Spec => []OneSlot
  BY SlotInvInit, SlotInvStep, TimerInvHolds, SlotInvIsOneSlot, PTL DEF Spec, TimerInv
================================================================================
