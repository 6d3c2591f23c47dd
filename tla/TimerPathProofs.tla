----------------------------- MODULE TimerPathProofs -----------------------------
(***************************************************************************)
(* Theorems about the way of a task through the wheels of TimerWheel.      *)
(***************************************************************************)
EXTENDS TimerWheelProofs

-------------------------------------------------------------------------------
(* Division and the sizes of the wheels *)

LEMMA DivMod ==
  ASSUME NEW a \in Nat, NEW n \in Nat \ {0}
  PROVE  /\ a \div n \in Nat /\ a % n \in 0 .. n - 1
         /\ a = (n * (a \div n)) + (a % n)
  OBVIOUS

\* A later tick is in no earlier turn.
LEMMA DivMonotone ==
  ASSUME NEW a \in Nat, NEW b \in Nat, NEW n \in Nat \ {0}, a <= b
  PROVE  a \div n <= b \div n
<1> DEFINE q == a \div n
           r == b \div n
<1>1. q \in Nat /\ r \in Nat /\ n * q <= a /\ b < n * r + n
  <2>1. a % n >= 0 /\ b % n < n /\ a = (n * q) + (a % n) /\ b = (n * r) + (b % n)
    BY DivMod
  <2>2. q \in Nat /\ r \in Nat /\ a % n \in Nat /\ b % n \in Nat
    BY DivMod
  <2> HIDE DEF q, r
  <2>. QED
    BY <2>1, <2>2
<1> HIDE DEF q, r
<1>2. SUFFICES ASSUME q >= r + 1 PROVE FALSE
  BY <1>1 DEF q, r
<1>3. n * q >= n * (r + 1)
  BY <1>1, <1>2
<1>4. n * (r + 1) = n * r + n
  BY <1>1
<1>. QED
  BY <1>1, <1>3, <1>4

\* The turns of n ticks in the first n * l ticks.
LEMMA DivBelow ==
  ASSUME NEW a \in Nat, NEW n \in Nat \ {0}, NEW l \in Nat
  PROVE  a < n * l <=> a \div n < l
<1> DEFINE q == a \div n
<1>1. q \in Nat /\ n * q <= a /\ a < n * q + n
  <2>1. a % n >= 0 /\ a % n < n /\ a = (n * q) + (a % n) /\ q \in Nat /\ a % n \in Nat
    BY DivMod
  <2> HIDE DEF q
  <2>. QED
    BY <2>1
<1> HIDE DEF q
<1>2. ASSUME a < n * l PROVE q < l
  <2> SUFFICES ASSUME q >= l PROVE FALSE
    BY <1>1
  <2>1. n * q >= n * l
    BY <1>1
  <2>. QED
    BY <2>1, <1>1, <1>2
<1>3. ASSUME q < l PROVE a < n * l
  <2>1. n * l >= n * (q + 1) /\ n * (q + 1) = n * q + n
    BY <1>1, <1>3
  <2>. QED
    BY <2>1, <1>1
<1>. QED
  BY <1>2, <1>3 DEF q

LEMMA DivIsZero ==
  ASSUME NEW a \in Nat, NEW n \in Nat \ {0}
  PROVE  a \div n = 0 <=> a < n
<1>1. a < n * 1 <=> a \div n < 1
  BY DivBelow
<1>2. a \div n \in Nat
  OBVIOUS
<1> DEFINE q == a \div n
<1> HIDE DEF q
<1>. QED
  BY <1>1, <1>2 DEF q

\* Ticks with the same slot of the near wheel are whole turns apart.
LEMMA SameSlot ==
  ASSUME NEW a \in Nat, NEW b \in Nat, NEW n \in Nat \ {0},
         a % n = b % n, a \div n <= b \div n
  PROVE  a <= b /\ (b - a) % n = 0
<1> DEFINE q == a \div n
           r == b \div n
           s == a % n
<1>1. q \in Nat /\ r \in Nat /\ s \in Nat /\ a = (n * q) + s /\ b = (n * r) + s /\ q <= r
  <2>1. s \in Nat /\ b % n = s
    BY DivMod
  <2>2. a = (n * q) + s /\ b = (n * r) + s /\ q \in Nat /\ r \in Nat
    BY <2>1, DivMod
  <2>. QED
    BY <2>1, <2>2
<1> HIDE DEF q, r, s
<1>2. n * r >= n * q
  BY <1>1
<1>3. b - a = n * (r - q) /\ r - q \in Nat
  <2>1. n * (r - q) = n * r - n * q
    BY <1>1
  <2>. QED
    BY <1>1, <2>1
<1>4. \A k \in Nat : (n * k) % n = 0
  OBVIOUS
<1>. QED
  BY <1>1, <1>2, <1>3, <1>4

\* The turn ends only at a multiple of its length.
LEMMA SameTurnGoesOn ==
  ASSUME NEW a \in Nat, NEW n \in Nat \ {0}, (a + 1) % n # 0
  PROVE  (a + 1) \div n = a \div n
<1> DEFINE b == a + 1
           q == a \div n
           r == b \div n
           s == b % n
<1>1. q \in Nat /\ r \in Nat /\ s \in Nat /\ b = (n * r) + s /\ s < n /\ s # 0
  BY DivMod
<1>2. n * r <= a /\ b = a + 1
  BY <1>1
<1>3. q <= r
  BY DivMonotone
<1>4. ~(a < n * r)
  BY <1>1, <1>2
<1>5. ~(q < r)
  BY <1>1, <1>4, DivBelow
<1> HIDE DEF b, q, r, s
<1>6. q = r
  BY <1>1, <1>3, <1>5
<1>. QED
  BY <1>6 DEF q, r, b

\* No turn is shorter than that of the first upper wheel.
LEMMA SpanGrows == \A l \in 1 .. TIME_LEVEL_COUNT : SPAN[l] >= SPAN[1]
<1> DEFINE S == {l \in 0 .. TIME_LEVEL_COUNT : l # 0 /\ SPAN[l] < SPAN[1]}
<1>1. SUFFICES ASSUME S # {} PROVE FALSE
  BY Sizes
<1>2. PICK l \in S : \A k \in 0 .. TIME_LEVEL_COUNT : k < l => k \notin S
  <2>1. S \subseteq 0 .. TIME_LEVEL_COUNT /\ TIME_LEVEL_COUNT \in Nat
    BY Sizes
  <2> HIDE DEF S
  <2>. QED
    BY <2>1, <1>1, LeastElement
<1> DEFINE k == l - 1
<1>3. /\ l \in 0 .. TIME_LEVEL_COUNT /\ l # 0 /\ l # 1 /\ SPAN[l] < SPAN[1]
      /\ k \in 0 .. TIME_LEVEL_COUNT - 1 /\ k \in 0 .. TIME_LEVEL_COUNT /\ k < l /\ k # 0
      /\ k + 1 = l
  BY Sizes
<1>4. SPAN[k] >= SPAN[1]
  BY <1>2, <1>3, Sizes
<1>5. SPAN[l] = SPAN[k] * TIME_LEVEL
  <2>1. SPAN[k + 1] = SPAN[k] * TIME_LEVEL
    BY <1>3, SpanAssumption
  <2>. QED
    BY <2>1, <1>3
<1>6. SPAN[k] \in Nat /\ SPAN[l] \in Nat /\ SPAN[1] \in Nat
  BY <1>3, Sizes
<1> HIDE DEF k
<1>7. \A a \in Nat, b \in Nat \ {0, 1} : a * b >= a
  OBVIOUS
<1>. QED
  BY <1>3, <1>4, <1>5, <1>6, <1>7, Sizes

\* No sum of a tick up to the stall and a delay wraps.
LEMMA NoWrap ==
  ASSUME NEW a \in Nat, a <= SPAN[1], NEW ms \in Delays
  PROVE  /\ ms \div UNIT_MILLISECOND \in Nat
         /\ a + (ms \div UNIT_MILLISECOND) < WORD
         /\ (a + (ms \div UNIT_MILLISECOND)) % WORD = a + (ms \div UNIT_MILLISECOND)
<1> DEFINE k == TIME_LEVEL_COUNT - 1
           d == ms \div UNIT_MILLISECOND
<1>1. k \in 1 .. TIME_LEVEL_COUNT /\ k \in 0 .. TIME_LEVEL_COUNT - 1 /\ k + 1 = TIME_LEVEL_COUNT
  BY Sizes
<1>2. WORD = SPAN[k] * TIME_LEVEL
  <2>1. SPAN[k + 1] = SPAN[k] * TIME_LEVEL
    BY <1>1, SpanAssumption
  <2>. QED
    BY <2>1, <1>1 DEF WORD
<1>3. SPAN[k] >= SPAN[1] /\ SPAN[k] \in Nat
  BY <1>1, SpanGrows, Sizes
<1>4. d \in Nat /\ d < WORD \div 2
  BY DelaysAssumption
<1> HIDE DEF k, d
<1>5. WORD >= 2 * SPAN[1]
  <2>1. \A x \in Nat, y \in Nat \ {0, 1} : x * y >= 2 * x
    OBVIOUS
  <2>. QED
    BY <2>1, <1>2, <1>3, Sizes
<1>6. a + d < WORD
  BY <1>4, <1>5, Sizes
<1>7. (a + d) % WORD = a + d
  BY <1>4, <1>6, Sizes
<1>. QED
  BY <1>4, <1>6, <1>7 DEF d

-------------------------------------------------------------------------------
(* The path of a task *)

\* Up to the stall only the first upper wheel is cascaded: emplace_task has three cases.
LEMMA PlaceBelowStall ==
  ASSUME TypeOK, m_tick < SPAN[1], NEW e \in Ticks
  PROVE  \/ /\ SameTurn(e, m_tick, TIME_NEAR)
            /\ PlaceOf(e) = <<0, e % TIME_NEAR>>
         \/ /\ ~SameTurn(e, m_tick, TIME_NEAR) /\ e < SPAN[1]
            /\ PlaceOf(e) = <<1, e \div TIME_NEAR>>
         \/ /\ ~SameTurn(e, m_tick, TIME_NEAR) /\ e >= SPAN[1]
            /\ \E l \in Levels : /\ l >= 1 /\ SPAN[l] <= e /\ e < SPAN[l + 1]
                                 /\ PlaceOf(e) = <<l + 1, SlotOf(e, l)>>
<1> DEFINE l == LevelOf(e)
<1>1. e \in Nat /\ e < WORD /\ m_tick \in Nat
  BY Sizes DEF Ticks, TypeOK
<1>2. CASE SameTurn(e, m_tick, TIME_NEAR)
  BY <1>2 DEF PlaceOf
<1>3. /\ l \in Levels /\ l \in Nat /\ Fits(e, l)
      /\ \A k \in 0 .. l - 1 : ~SameTurn(e, m_tick, SPAN[k + 1])
  BY LevelExists, Sizes DEF Levels
<1>4. \A k \in 1 .. TIME_LEVEL_COUNT : SPAN[k] \in Nat \ {0} /\ m_tick \div SPAN[k] = 0
  <2> SUFFICES ASSUME NEW k \in 1 .. TIME_LEVEL_COUNT
               PROVE  SPAN[k] \in Nat \ {0} /\ m_tick \div SPAN[k] = 0
    OBVIOUS
  <2>1. SPAN[k] \in Nat \ {0} /\ m_tick < SPAN[k]
    BY <1>1, SpanGrows, Sizes
  <2>. QED
    BY <2>1, <1>1, DivIsZero
<1>5. \A k \in 1 .. TIME_LEVEL_COUNT : SameTurn(e, m_tick, SPAN[k]) <=> e < SPAN[k]
  BY <1>1, <1>4, DivIsZero DEF SameTurn
<1> HIDE DEF l
<1>6. CASE ~SameTurn(e, m_tick, TIME_NEAR) /\ e < SPAN[1]
  <2>1. l = 0
    <3>1. SameTurn(e, m_tick, SPAN[0 + 1])
      BY <1>5, <1>6, Sizes
    <3>2. 0 \in 0 .. l - 1 => l = 0
      BY <3>1, <1>3
    <3>. QED
      BY <3>2, <1>3
  <2>2. e \div TIME_NEAR < TIME_LEVEL /\ e \div TIME_NEAR \in Nat
    BY <1>1, <1>6, DivBelow, Sizes
  <2>3. SlotOf(e, 0) = e \div TIME_NEAR
    <3> DEFINE q == e \div TIME_NEAR
    <3>1. SlotOf(e, 0) = q % TIME_LEVEL
      BY SpanAssumption DEF SlotOf
    <3>2. q < TIME_LEVEL /\ q \in Nat
      BY <2>2
    <3> HIDE DEF q
    <3>3. q % TIME_LEVEL = q
      BY <3>2, Sizes
    <3>. QED
      BY <3>1, <3>3 DEF q
  <2>4. PlaceOf(e) = <<0 + 1, SlotOf(e, 0)>>
    BY <1>6, <2>1 DEF PlaceOf, l
  <2>. QED
    BY <1>6, <2>3, <2>4
<1>7. CASE ~SameTurn(e, m_tick, TIME_NEAR) /\ e >= SPAN[1]
  <2>1. l + 1 \in 1 .. TIME_LEVEL_COUNT /\ l \in 0 .. TIME_LEVEL_COUNT - 1
    BY <1>3, Sizes DEF Levels
  <2>2. e < SPAN[l + 1]
    <3>1. CASE l = TIME_LEVEL_COUNT - 1
      BY <3>1, <1>1, Sizes DEF WORD
    <3>2. CASE SameTurn(e, m_tick, SPAN[l + 1])
      BY <3>2, <2>1, <1>5
    <3>. QED
      BY <3>1, <3>2, <1>3 DEF Fits
  <2>3. l # 0
    BY <1>1, <1>7, <2>2, Sizes
  <2>4. SPAN[l] <= e
    <3>1. l - 1 \in 0 .. l - 1 /\ (l - 1) + 1 = l /\ l \in 1 .. TIME_LEVEL_COUNT
      <4>1. l \in Nat /\ l # 0 /\ l <= TIME_LEVEL_COUNT - 1 /\ TIME_LEVEL_COUNT \in Nat
        BY <1>3, <2>1, <2>3, Sizes
      <4>. QED
        BY <4>1
    <3>2. ~SameTurn(e, m_tick, SPAN[l])
      BY <3>1, <1>3
    <3>3. ~(e < SPAN[l]) /\ SPAN[l] \in Nat
      BY <3>1, <3>2, <1>5, Sizes
    <3>. QED
      BY <3>3, <1>1
  <2>5. PlaceOf(e) = <<l + 1, SlotOf(e, l)>>
    BY <1>7 DEF PlaceOf, l
  <2>6. l >= 1
    BY <1>3, <2>3
  <2>. QED
    BY <1>3, <1>7, <2>2, <2>4, <2>5, <2>6
<1>. QED
  BY <1>1, <1>2, <1>6, <1>7, Sizes

\* The slots of a tick in the near wheel and in the first upper wheel.
Near(e)  == <<0, e % TIME_NEAR>>
Upper(e) == <<1, e \div TIME_NEAR>>

\* Where a task for tick e may stand, while the near wheel is in its given turn: in
\* the near wheel when its turn has come, in the first upper wheel until its slot has
\* been sent down, or higher up when it lies behind the stall.
OnPath(e, p, turn, down) ==
  \/ p = Near(e) /\ e \div TIME_NEAR <= turn
  \/ p = Upper(e) /\ e < SPAN[1] /\ (e \div TIME_NEAR = turn => down)
  \/ \E l \in Levels : /\ l >= 1 /\ p = <<l + 1, SlotOf(e, l)>>
                       /\ e >= SPAN[1] /\ SPAN[l] <= e /\ e < SPAN[l + 1]

Turn == m_tick \div TIME_NEAR
Down == pc \in {"search", "cascade"}

PathInv ==
  /\ \A p \in Places : \A t \in Elements(Wheel[p]) : OnPath(expire[t], p, Turn, Down)
  /\ Down /\ m_tick < SPAN[1] => shift_ti = Turn

\* The slots of the ticks below the stall.
LEMMA PlacesOfTicks ==
  ASSUME NEW e \in Nat
  PROVE  /\ Near(e) \in Places
         /\ e < SPAN[1] => e \div TIME_NEAR \in LevelSlots /\ Upper(e) \in Places
<1>1. e % TIME_NEAR \in NearSlots
  BY Sizes DEF NearSlots
<1>2. ASSUME e < SPAN[1] PROVE e \div TIME_NEAR \in LevelSlots /\ Upper(e) \in Places
  <2>1. e \div TIME_NEAR < TIME_LEVEL /\ e \div TIME_NEAR \in Nat
    BY <1>2, DivBelow, Sizes
  <2> DEFINE i == e \div TIME_NEAR
  <2>2. i \in LevelSlots
    <3> HIDE DEF i
    <3>. QED
      BY <2>1, Sizes DEF LevelSlots, i
  <2>3. 0 \in Levels /\ 0 + 1 = 1
    BY Sizes DEF Levels
  <2>4. <<0 + 1, i>> \in Places
    BY <2>2, <2>3, PlacesAre
  <2>. QED
    BY <2>2, <2>3, <2>4 DEF Upper
<1>. QED
  BY <1>1, <1>2, PlacesAre DEF Near

\* The three kinds of place.
LEMMA PathsDiffer ==
  ASSUME NEW e \in Nat, NEW p, NEW turn, NEW down, OnPath(e, p, turn, down)
  PROVE  /\ p[1] = 0 => p = Near(e) /\ e \div TIME_NEAR <= turn
         /\ p[1] = 1 => p = Upper(e) /\ e < SPAN[1] /\ (e \div TIME_NEAR = turn => down)
         /\ e < SPAN[1] => p = Near(e) \/ p = Upper(e)
<1>1. ASSUME p = Near(e) PROVE p[1] = 0
  BY <1>1 DEF Near
<1>2. ASSUME p = Upper(e) PROVE p[1] = 1
  BY <1>2 DEF Upper
<1>3. ASSUME NEW l \in Levels, l >= 1, p = <<l + 1, SlotOf(e, l)>>
      PROVE  p[1] # 0 /\ p[1] # 1
  <2>1. p[1] = l + 1 /\ l \in Nat
    BY <1>3, PlacesAre
  <2>. QED
    BY <2>1, <1>3
<1>4. ASSUME e >= SPAN[1] PROVE ~(e < SPAN[1])
  BY <1>4, Sizes
<1>. QED
  BY <1>1, <1>2, <1>3, <1>4 DEF OnPath

\* emplace_task puts a task on its path.
LEMMA PlaceIsOnPath ==
  ASSUME TypeOK, m_tick < SPAN[1], NEW e \in Ticks, NEW down
  PROVE  OnPath(e, PlaceOf(e), Turn, down)
<1> DEFINE a == e \div TIME_NEAR
<1>1. a \in Nat /\ Turn \in Nat
  <2>1. e \in Nat /\ m_tick \in Nat
    BY WheelTypes, Sizes DEF Ticks
  <2>. QED
    BY <2>1, Sizes DEF Turn
<1>2. SameTurn(e, m_tick, TIME_NEAR) <=> a = Turn
  BY DEF SameTurn, Turn
<1> HIDE DEF a
<1>3. CASE SameTurn(e, m_tick, TIME_NEAR) /\ PlaceOf(e) = <<0, e % TIME_NEAR>>
  BY <1>1, <1>2, <1>3 DEF OnPath, Near, a
<1>4. CASE /\ ~SameTurn(e, m_tick, TIME_NEAR) /\ e < SPAN[1]
           /\ PlaceOf(e) = <<1, e \div TIME_NEAR>>
  BY <1>2, <1>4 DEF OnPath, Upper, a
<1>5. CASE /\ ~SameTurn(e, m_tick, TIME_NEAR) /\ e >= SPAN[1]
           /\ \E l \in Levels : /\ l >= 1 /\ SPAN[l] <= e /\ e < SPAN[l + 1]
                                /\ PlaceOf(e) = <<l + 1, SlotOf(e, l)>>
  BY <1>5 DEF OnPath
<1>. QED
  BY <1>3, <1>4, <1>5, PlaceBelowStall

\* A turn that goes on, or a slot that is about to be sent down, takes no task off
\* its path.
LEMMA PathGoesOn ==
  ASSUME NEW e \in Nat, NEW p, NEW turn \in Nat, NEW down, OnPath(e, p, turn, down),
         NEW turn2 \in Nat, NEW down2,
         turn <= turn2, turn2 # turn => down2, down => down2
  PROVE  OnPath(e, p, turn2, down2)
<1> DEFINE a == e \div TIME_NEAR
<1>1. a \in Nat
  BY Sizes
<1> HIDE DEF a
<1>2. a <= turn => a <= turn2
  BY <1>1
<1>3. (a = turn => down) => (a = turn2 => down2)
  BY <1>1
<1>. QED
  BY <1>2, <1>3 DEF OnPath, a

\* The wheels of Init are empty.
LEMMA WheelStartsEmpty == Init => Wheel = [p \in Places |-> <<>>]
  BY PlacesAre DEF Init, Wheel, Family, NearSlots, LevelSlots

LEMMA PathInvInit == Init => PathInv
  BY WheelStartsEmpty DEF Init, PathInv, Elements, Down

\* The slot that down_queue empties is that of the present turn, in the first wheel.
LEMMA DownSlotIsTurn ==
  ASSUME TimerInv, PathInv, pc = "cascade"
  PROVE  /\ m_tick < SPAN[1] /\ lv = 0
         /\ <<lv + 1, DownSlot>> = Upper(m_tick) /\ Upper(m_tick) \in Places
         /\ m_table[lv][DownSlot] = Wheel[Upper(m_tick)]
<1>1. lv = 0 /\ m_tick \in Nat /\ m_tick < SPAN[1] /\ shift_ti = Turn
  BY Sizes DEF TimerInv, TypeOK, Ticks, SearchInv, PathInv, Down
<1>2. Turn \in LevelSlots /\ Upper(m_tick) \in Places
  BY <1>1, PlacesOfTicks DEF Turn
<1>3. DownSlot = Turn
  BY <1>1, <1>2, Sizes DEF DownSlot, LevelSlots
<1>4. <<lv + 1, DownSlot>> = Upper(m_tick)
  BY <1>1, <1>3 DEF Upper, Turn
<1>5. Wheel[Upper(m_tick)] = m_table[1 - 1][Turn]
  BY <1>2 DEF Wheel, Family, Upper, Turn
<1>. QED
  BY <1>1, <1>2, <1>3, <1>4, <1>5

\* Numbers and elements of the wheel, as the steps below use them.
LEMMA PathTypes ==
  ASSUME TimerInv
  PROVE  /\ Turn \in Nat /\ m_tick \in Nat
         /\ Wheel \in [Places -> Seq(Tasks)]
         /\ \A p \in Places : \A t \in Elements(Wheel[p]) : t \in Tasks /\ expire[t] \in Nat
<1>1. m_tick \in Nat /\ Wheel \in [Places -> Seq(Tasks)] /\ \A t \in Tasks : expire[t] \in Nat
  BY WheelTypes DEF TimerInv
<1>2. Turn \in Nat
  BY <1>1, Sizes DEF Turn
<1>. QED
  BY <1>1, <1>2 DEF Elements

\* ++m_tick does not wrap before the stall.
LEMMA ShiftTicks ==
  ASSUME TimerInv, Shift
  PROVE  /\ m_tick \in Nat /\ m_tick < SPAN[1] /\ pc = "execute1"
         /\ m_tick' = m_tick + 1
<1>1. m_tick \in Nat /\ m_tick < SPAN[1] /\ pc = "execute1"
  BY PathTypes, Sizes DEF Shift, TimerInv, SearchInv
<1> DEFINE n == m_tick + 1
<1>2. n \in Nat /\ n < WORD
  BY <1>1, Sizes
<1>3. m_tick' = n % WORD
  BY DEF Shift
<1> HIDE DEF n
<1>4. n % WORD = n
  BY <1>2, Sizes
<1>. QED
  BY <1>1, <1>3, <1>4 DEF n

\* A step that neither moves a task nor takes the wheel past a turn.
LEMMA PathInvKept ==
  ASSUME TimerInv, PathInv, m_near' = m_near, m_table' = m_table,
         \A t \in Held(Wheel) : expire'[t] = expire[t],
         m_tick' = m_tick, Down' = Down, shift_ti' = shift_ti
  PROVE  PathInv'
<1>1. Wheel' = Wheel /\ Turn' = Turn
  BY DEF Wheel, Turn
<1>2. \A p \in Places : \A t \in Elements(Wheel[p]) : expire'[t] = expire[t]
  BY PathTypes DEF Held
<1>. QED
  BY <1>1, <1>2 DEF PathInv

LEMMA PathInvStep == TimerInv /\ SlotInv /\ PathInv /\ [Next]_vars => PathInv'
<1> SUFFICES ASSUME TimerInv, SlotInv, PathInv, [Next]_vars PROVE PathInv'
  OBVIOUS
<1> USE DEF wheels, local, tasks
<1>t. /\ TypeOK /\ stage \in [Tasks -> {"new", "read", "queued", "handed"}]
      /\ expire \in [Tasks -> Ticks]
      /\ Wheel \in [Places -> Seq(Tasks)] /\ Apart(Wheel)
      /\ \A t \in Tasks : stage[t] = "queued" <=> t \in Held(Wheel)
  BY WheelTypes DEF TimerInv, SlotInv
<1>p. /\ \A p \in Places : \A t \in Elements(Wheel[p]) : OnPath(expire[t], p, Turn, Down)
      /\ Down /\ m_tick < SPAN[1] => shift_ti = Turn
  BY DEF PathInv
<1>1. CASE Wake \/ BeginTick \/ EndUpdate \/ Unlock \/ Found \/ ClockAdvance \/ UNCHANGED vars
  <2>1. /\ m_near' = m_near /\ m_table' = m_table /\ expire' = expire
        /\ m_tick' = m_tick /\ shift_ti' = shift_ti /\ Down' = Down
    BY <1>1 DEF Wake, BeginTick, EndUpdate, Unlock, Found, ClockAdvance, vars, Down
  <2>. QED
    BY <2>1, PathInvKept
<1>2. ASSUME NEW t \in Tasks, NEW ms \in Delays, ReadTick(t, ms) PROVE PathInv'
  <2>1. /\ m_near' = m_near /\ m_table' = m_table /\ m_tick' = m_tick /\ pc' = pc
        /\ shift_ti' = shift_ti
        /\ stage[t] = "new" /\ \A u \in Tasks : u # t => expire'[u] = expire[u]
    BY <1>2, <1>t DEF ReadTick
  <2>2. t \notin Held(Wheel) /\ Held(Wheel) \subseteq Tasks
    BY <1>t, <2>1, PathTypes DEF Held
  <2>. QED
    BY <2>1, <2>2, PathInvKept DEF Down
<1>3. ASSUME NEW t \in Tasks, Insert(t) PROVE PathInv'
  <2> DEFINE e == expire[t]
             r == PlaceOf(e)
  <2>1. m_tick' = m_tick /\ pc' = pc /\ shift_ti' = shift_ti /\ expire' = expire /\ ~Down
    BY <1>3 DEF Insert, LockFree, Down
  <2>2. m_tick < SPAN[1] /\ e \in Ticks
    BY <1>t, <2>1, PathTypes, Sizes DEF TimerInv, SearchInv, Down
  <2>3. r \in Places /\ Wheel' = Put(Wheel, r, Append(Wheel[r], t))
    BY <1>3, <1>t, InsertPushes
  <2>4. OnPath(e, r, Turn, Down)
    BY <1>t, <2>2, PlaceIsOnPath
  <2> HIDE DEF r, e
  <2>5. ASSUME NEW p \in Places, NEW u \in Elements(Wheel'[p])
        PROVE  OnPath(expire[u], p, Turn, Down)
    <3>1. CASE p = r
      <4>1. Elements(Wheel'[p]) = Elements(Wheel[p]) \cup {t}
        BY <1>t, <2>3, <3>1, PushElements DEF Put
      <4>. QED
        BY <1>p, <2>4, <3>1, <4>1 DEF e
    <3>2. CASE p # r
      BY <1>p, <1>t, <2>3, <2>5, <3>2 DEF Put
    <3>. QED
      BY <3>1, <3>2
  <2>6. Turn' = Turn /\ Down' = Down
    BY <2>1 DEF Turn, Down
  <2>. QED
    BY <1>p, <2>1, <2>5, <2>6 DEF PathInv
<1>4. CASE ExecuteOne
  <2> DEFINE r == <<0, NearSlot>>
             h == Head(Wheel[r])
  <2>1. /\ r \in Places /\ Wheel[r] # <<>> /\ h \in Tasks
        /\ Wheel' = Put(Wheel, r, Tail(Wheel[r]))
        /\ expire' = [expire EXCEPT ![h] = 0]
    BY <1>4, <1>t, WheelTypes, ExecutePops
  <2>2. m_tick' = m_tick /\ pc' = pc /\ shift_ti' = shift_ti
    BY <1>4 DEF ExecuteOne
  <2> HIDE DEF r
  <2>3. /\ h \in Elements(Wheel[r])
        /\ Elements(Tail(Wheel[r])) = Elements(Wheel[r]) \ {h}
    BY <1>t, <2>1, PopElements DEF Apart
  <2> HIDE DEF h
  <2>4. ASSUME NEW p \in Places, NEW u \in Elements(Wheel'[p])
        PROVE  u \in Elements(Wheel[p]) /\ u # h
    BY <1>t, <2>1, <2>3, <2>4 DEF Put, Apart
  <2>5. Turn' = Turn /\ Down' = Down
    BY <2>2 DEF Turn, Down
  <2>6. \A p \in Places : \A u \in Elements(Wheel'[p]) : expire'[u] = expire[u]
    BY <1>t, <2>1, <2>4, PathTypes
  <2>. QED
    BY <1>p, <2>2, <2>4, <2>5, <2>6 DEF PathInv
<1>5. CASE Shift
  <2> DEFINE n == m_tick + 1
  <2>1. /\ m_tick \in Nat /\ m_tick < SPAN[1] /\ pc = "execute1" /\ ~Down
        /\ m_near' = m_near /\ m_table' = m_table /\ expire' = expire
    BY <1>5, PathTypes, Sizes DEF Shift, TimerInv, SearchInv, Down
  <2>2. n \in Nat \ {0}
    BY <2>1
  <2>3. m_tick' = n
    BY <1>5, ShiftTicks
  <2>4. /\ n % TIME_NEAR = 0 => pc' = "search" /\ shift_ti' = n \div TIME_NEAR
        /\ n % TIME_NEAR # 0 => pc' = "execute2"
    BY <1>5, <2>2, <2>3 DEF Shift
  <2>5. Turn' = n \div TIME_NEAR /\ Turn' \in Nat /\ Turn <= Turn'
    <3>1. m_tick \div TIME_NEAR <= n \div TIME_NEAR /\ n \div TIME_NEAR \in Nat
      <4>1. n \in Nat /\ m_tick <= n
        BY <2>1, <2>2
      <4> HIDE DEF n
      <4>. QED
        BY <2>1, <4>1, DivMod, DivMonotone, Sizes
    <3>. QED
      BY <2>3, <3>1 DEF Turn
  <2>6. n % TIME_NEAR # 0 => Turn' = Turn
    BY <2>1, <2>3, SameTurnGoesOn, Sizes DEF Turn
  <2> HIDE DEF n
  <2>7. Turn' # Turn => Down'
    BY <2>4, <2>6 DEF Down
  <2>8. Wheel' = Wheel
    BY <2>1 DEF Wheel
  <2>9. \A p \in Places : \A t \in Elements(Wheel[p]) : OnPath(expire[t], p, Turn', Down')
    BY <1>p, <2>1, <2>5, <2>7, PathTypes, PathGoesOn
  <2>10. Down' => shift_ti' = Turn'
    BY <2>4, <2>5 DEF Down
  <2>. QED
    BY <2>1, <2>8, <2>9, <2>10 DEF PathInv
<1>6. CASE GoUp
  <2>1. /\ m_near' = m_near /\ m_table' = m_table /\ expire' = expire
        /\ m_tick' = m_tick /\ pc' = pc
    BY <1>6 DEF GoUp
  <2>2. m_tick = SPAN[1]
    <3>1. shift_ti \in 0 .. TIME_LEVEL /\ shift_ti % TIME_LEVEL = 0 /\ pc = "search"
      BY <1>6 DEF GoUp, TimerInv, SearchInv
    <3>2. shift_ti \in {0, TIME_LEVEL}
      BY <3>1, Sizes
    <3>. QED
      BY <3>1, <3>2 DEF TimerInv, SearchInv
  <2>3. Wheel' = Wheel /\ Turn' = Turn /\ Down' = Down /\ ~(m_tick' < SPAN[1])
    BY <2>1, <2>2, Sizes DEF Wheel, Turn, Down
  <2>. QED
    BY <1>p, <2>1, <2>3 DEF PathInv
<1>7. CASE CascadeOne
  <2> DEFINE d == Upper(m_tick)
             h == Head(Wheel[d])
             e == expire[h]
  <2>1. /\ m_tick < SPAN[1] /\ d = <<lv + 1, DownSlot>> /\ pc = "cascade" /\ Down
        /\ m_tick' = m_tick /\ pc' = pc /\ shift_ti' = shift_ti /\ expire' = expire
    BY <1>7, DownSlotIsTurn DEF CascadeOne, Down
  <2>2. d \in Places /\ Wheel[d] # <<>> /\ h \in Tasks
    BY <1>7, <1>t, <2>1, CascadeMoves
  <2>3. LET p == PlaceOf(e)
            W == Put(Wheel, d, Tail(Wheel[d]))
        IN  p \in Places /\ Wheel' = Put(W, p, Append(W[p], h))
    BY <1>7, <1>t, <2>1, CascadeMoves
  <2> DEFINE r == PlaceOf(e)
             W == Put(Wheel, d, Tail(Wheel[d]))
  <2>4. OnPath(e, r, Turn, Down)
    BY <1>t, <2>1, <2>2, PlaceIsOnPath
  <2>5. r \in Places /\ Wheel' = Put(W, r, Append(W[r], h))
    BY <2>3
  <2> HIDE DEF d, r, e
  <2>6. /\ h \in Elements(Wheel[d])
        /\ Elements(Tail(Wheel[d])) = Elements(Wheel[d]) \ {h}
        /\ W \in [Places -> Seq(Tasks)]
        /\ \A p \in Places : Elements(W[p]) \subseteq Elements(Wheel[p])
    <3>1. /\ h \in Elements(Wheel[d])
          /\ Elements(Tail(Wheel[d])) = Elements(Wheel[d]) \ {h}
      BY <1>t, <2>2, PopElements DEF Apart
    <3>2. W \in [Places -> Seq(Tasks)]
      BY <1>t, <2>2, PopApart
    <3>3. \A p \in Places : Elements(W[p]) \subseteq Elements(Wheel[p])
      BY <1>t, <2>2, <3>1 DEF Put
    <3>. QED
      BY <3>1, <3>2, <3>3
  <2> HIDE DEF W, h
  <2>7. ASSUME NEW p \in Places, NEW u \in Elements(Wheel'[p])
        PROVE  OnPath(expire[u], p, Turn, Down)
    <3>1. CASE p = r
      <4>1. Elements(Wheel'[p]) = Elements(W[p]) \cup {h}
        BY <2>2, <2>5, <2>6, <3>1, PushElements DEF Put
      <4>. QED
        BY <1>p, <2>4, <2>6, <3>1, <4>1 DEF e
    <3>2. CASE p # r
      BY <1>p, <2>5, <2>6, <2>7, <3>2 DEF Put
    <3>. QED
      BY <3>1, <3>2
  <2>8. Turn' = Turn /\ Down' = Down
    BY <2>1 DEF Turn, Down
  <2>. QED
    BY <1>p, <2>1, <2>7, <2>8 DEF PathInv
<1>8. CASE CascadeDone
  <2>1. /\ pc = "cascade" /\ pc' = "execute2" /\ m_tick' = m_tick /\ expire' = expire
        /\ m_near' = m_near /\ m_table' = m_table
        /\ Wheel[Upper(m_tick)] = <<>>
    BY <1>8, DownSlotIsTurn DEF CascadeDone
  <2>2. ASSUME NEW p \in Places, NEW t \in Elements(Wheel[p])
        PROVE  OnPath(expire[t], p, Turn, FALSE)
    <3>1. p # Upper(m_tick)
      BY <2>1, <2>2 DEF Elements
    <3>2. p = Upper(expire[t]) => expire[t] \div TIME_NEAR # Turn
      BY <3>1 DEF Upper, Turn
    <3>. QED
      BY <1>p, <2>2, <3>2 DEF OnPath
  <2>3. Wheel' = Wheel /\ Turn' = Turn /\ Down' = FALSE
    BY <2>1 DEF Wheel, Turn, Down
  <2>. QED
    BY <2>1, <2>2, <2>3 DEF PathInv
<1>. QED
  BY <1>1, <1>2, <1>3, <1>4, <1>5, <1>6, <1>7, <1>8 DEF Next, TimerStep

LEMMA PathInvHolds == Spec => [](TimerInv /\ SlotInv /\ PathInv)
<1>1. Init => SlotInv /\ PathInv
  BY SlotInvInit, PathInvInit
<1>2. TimerInv /\ SlotInv /\ PathInv /\ [Next]_vars => SlotInv' /\ PathInv'
  BY SlotInvStep, PathInvStep
<1>. QED
  BY <1>1, <1>2, TimerInvHolds, PTL DEF Spec

\* A task in the wheels stands at a place on its path.
LEMMA QueuedOnPath ==
  ASSUME TimerInv, SlotInv, PathInv, NEW t \in Tasks, stage[t] = "queued"
  PROVE  \E p \in Places : t \in Elements(Wheel[p]) /\ OnPath(expire[t], p, Turn, Down)
<1>1. DOMAIN Wheel = Places
  BY DEF Wheel, Family
<1>. QED
  BY <1>1 DEF SlotInv, Held, PathInv

\* The slot of a tick before the stall in the first upper wheel.
LEMMA SlotBelowStall ==
  ASSUME NEW e \in Nat, e < SPAN[1]
  PROVE  SlotOf(e, 0) = e \div TIME_NEAR
<1> DEFINE q == e \div TIME_NEAR
<1>1. q \in LevelSlots
  BY PlacesOfTicks
<1>2. SlotOf(e, 0) = q % TIME_LEVEL
  BY SpanAssumption DEF SlotOf
<1> HIDE DEF q
<1>3. q % TIME_LEVEL = q
  BY <1>1, Sizes DEF LevelSlots
<1>. QED
  BY <1>2, <1>3 DEF q

\* In the words of the property.
LEMMA ElementStands ==
  ASSUME NEW p \in Places, NEW t \in Elements(Wheel[p])
  PROVE  StandsAt(t, p)
<1>1. Wheel[p] = QueueAt(p)
  BY DEF Wheel, Family, QueueAt
<1>. QED
  BY <1>1 DEF StandsAt, Elements

\* The levels above the first, seen from a tick before the stall.
LEMMA UpperLevel ==
  ASSUME NEW m \in Nat, m < SPAN[1], NEW e \in Nat, NEW l \in Levels, l >= 1,
         SPAN[l] <= e, e < SPAN[l + 1]
  PROVE  SameTurn(e, m, SPAN[l + 1]) /\ SlotOf(e, l) > SlotOf(m, l)
<1>1. /\ l \in 1 .. TIME_LEVEL_COUNT /\ l + 1 \in 1 .. TIME_LEVEL_COUNT
      /\ l \in 0 .. TIME_LEVEL_COUNT - 1
  BY Sizes DEF Levels
<1>2. SPAN[l] \in Nat \ {0} /\ SPAN[l + 1] \in Nat \ {0} /\ m < SPAN[l] /\ m < SPAN[l + 1]
  BY <1>1, SpanGrows, Sizes
<1>3. SPAN[l + 1] = SPAN[l] * TIME_LEVEL
  BY <1>1, SpanAssumption
<1>4. SameTurn(e, m, SPAN[l + 1])
  BY <1>2, DivIsZero DEF SameTurn
<1> DEFINE a == e \div SPAN[l]
<1>5. a \in Nat /\ a < TIME_LEVEL /\ a # 0
  <2>1. e < SPAN[l] * TIME_LEVEL /\ TIME_LEVEL \in Nat
    BY <1>3, Sizes
  <2>2. a < TIME_LEVEL
    BY <1>2, <2>1, DivBelow
  <2>3. a # 0
    BY <1>2, DivIsZero
  <2>. QED
    BY <1>2, <2>2, <2>3
<1>6. m \div SPAN[l] = 0
  BY <1>2, DivIsZero
<1> HIDE DEF a
<1>7. SlotOf(e, l) = a
  BY <1>5, Sizes DEF SlotOf, a
<1>8. SlotOf(m, l) = 0
  BY <1>6, Sizes DEF SlotOf
<1>. QED
  BY <1>4, <1>5, <1>7, <1>8

LEMMA PathIsAhead == TimerInv /\ SlotInv /\ PathInv => WaitsOnItsPath
<1> SUFFICES ASSUME TimerInv, SlotInv, PathInv, LockFree, NEW t \in Punctual
             PROVE  \/ /\ SameTurn(expire[t], m_tick, TIME_NEAR)
                       /\ StandsAt(t, <<0, expire[t] % TIME_NEAR>>)
                    \/ \E l \in Levels :
                         /\ SameTurn(expire[t], m_tick, SPAN[l + 1])
                         /\ SlotOf(expire[t], l) > SlotOf(m_tick, l)
                         /\ StandsAt(t, <<l + 1, SlotOf(expire[t], l)>>)
  BY DEF WaitsOnItsPath
<1> DEFINE e == expire[t]
<1>1. /\ t \in Tasks /\ stage[t] = "queued" /\ e >= m_tick /\ e \in Nat
      /\ m_tick \in Nat /\ Turn \in Nat
  BY PathTypes, WheelTypes DEF Punctual, TimerInv
<1>2. ~Down /\ m_tick < SPAN[1]
  BY <1>1, Sizes DEF LockFree, Down, TimerInv, SearchInv
<1>3. PICK p \in Places : t \in Elements(Wheel[p]) /\ OnPath(e, p, Turn, Down)
  BY <1>1, QueuedOnPath
<1>4. StandsAt(t, p)
  BY <1>3, ElementStands
<1> HIDE DEF e
<1>5. Turn <= e \div TIME_NEAR /\ e \div TIME_NEAR \in Nat
  <2>1. m_tick <= e /\ TIME_NEAR \in Nat \ {0}
    BY <1>1, Sizes
  <2>2. m_tick \div TIME_NEAR <= e \div TIME_NEAR
    BY <1>1, <2>1, DivMonotone
  <2>3. e \div TIME_NEAR \in Nat
    BY <1>1, <2>1
  <2>. QED
    BY <2>2, <2>3 DEF Turn
<1>6. CASE p = Near(e) /\ e \div TIME_NEAR <= Turn
  <2>1. SameTurn(e, m_tick, TIME_NEAR)
    BY <1>1, <1>5, <1>6 DEF SameTurn, Turn
  <2>. QED
    BY <1>4, <1>6, <2>1 DEF Near, e
<1>7. CASE p = Upper(e) /\ e < SPAN[1] /\ e \div TIME_NEAR # Turn
  <2>1. 0 \in Levels /\ 0 + 1 = 1 /\ SPAN[1] \in Nat \ {0} /\ 1 \in 0 .. TIME_LEVEL_COUNT
    BY Sizes DEF Levels
  <2>2. SameTurn(e, m_tick, SPAN[0 + 1])
    BY <1>1, <1>2, <1>7, <2>1, DivIsZero DEF SameTurn
  <2>3. SlotOf(e, 0) = e \div TIME_NEAR /\ SlotOf(m_tick, 0) = Turn
    BY <1>1, <1>2, <1>7, SlotBelowStall DEF Turn
  <2>4. StandsAt(t, <<0 + 1, SlotOf(e, 0)>>)
    BY <1>4, <1>7, <2>1, <2>3 DEF Upper
  <2>5. SlotOf(e, 0) > SlotOf(m_tick, 0)
    BY <1>1, <1>5, <1>7, <2>3
  <2>. QED
    BY <2>1, <2>2, <2>4, <2>5 DEF e
<1>8. CASE \E l \in Levels : /\ l >= 1 /\ p = <<l + 1, SlotOf(e, l)>>
                             /\ e >= SPAN[1] /\ SPAN[l] <= e /\ e < SPAN[l + 1]
  <2>1. PICK l \in Levels : /\ l >= 1 /\ p = <<l + 1, SlotOf(e, l)>>
                            /\ SPAN[l] <= e /\ e < SPAN[l + 1]
    BY <1>8
  <2>2. SameTurn(e, m_tick, SPAN[l + 1]) /\ SlotOf(e, l) > SlotOf(m_tick, l)
    BY <1>1, <1>2, <2>1, UpperLevel
  <2>. QED
    BY <1>4, <2>1, <2>2 DEF e
<1>. QED
  BY <1>2, <1>3, <1>6, <1>7, <1>8 DEF OnPath

\* Whenever m_mutex is free, every task whose tick has not passed stands where the
\* wheel will find it in time: emplace_task and timer_shift agree on the slots.
THEOREM TaskWaitsOnItsPath == Spec => []WaitsOnItsPath
  BY PathIsAhead, PathInvHolds, PTL

\* The near wheel's present slot, as a place.
LEMMA NearSlotIsNear == <<0, NearSlot>> = Near(m_tick) /\ Near(m_tick)[1] = 0
  BY DEF NearSlot, Near

\* The task that is handed over was the first in the present slot, and on its path.
LEMMA HandedFromNear ==
  ASSUME TimerInv, PathInv, [Next]_vars, NEW t \in Tasks, HandedOver(t)
  PROVE  /\ ExecuteOne
         /\ Near(m_tick) \in Places /\ Wheel[Near(m_tick)] # <<>>
         /\ t = Head(Wheel[Near(m_tick)]) /\ t \in Elements(Wheel[Near(m_tick)])
         /\ Near(expire[t]) = Near(m_tick) /\ expire[t] \div TIME_NEAR <= Turn
<1> USE DEF wheels, local, tasks
<1>t. TypeOK /\ stage \in [Tasks -> {"new", "read", "queued", "handed"}]
  BY WheelTypes DEF TimerInv
<1>h. stage[t] = "queued" /\ stage'[t] = "handed"
  BY DEF HandedOver
<1>1. ASSUME NEW u \in Tasks, NEW ms \in Delays, ReadTick(u, ms) PROVE FALSE
  BY <1>1, <1>t, <1>h DEF ReadTick
<1>2. ASSUME NEW u \in Tasks, Insert(u) PROVE FALSE
  BY <1>2, <1>t, <1>h DEF Insert
<1>3. ExecuteOne
  BY <1>1, <1>2, <1>h
  DEF Next, TimerStep, Wake, BeginTick, EndUpdate, Unlock, Shift, Found, GoUp, CascadeOne,
      CascadeDone, ClockAdvance, vars
<1> DEFINE p == Near(m_tick)
<1>4. /\ p \in Places /\ Wheel[p] # <<>>
      /\ stage' = [stage EXCEPT ![Head(Wheel[p])] = "handed"]
  BY <1>3, <1>t, WheelTypes, NearSlotIsNear, ExecutePops
<1>5. t = Head(Wheel[p])
  BY <1>4, <1>t, <1>h
<1>6. t \in Elements(Wheel[p])
  BY <1>4, <1>5, PathTypes DEF Elements
<1>7. OnPath(expire[t], p, Turn, Down) /\ expire[t] \in Nat
  BY <1>4, <1>6, PathTypes DEF PathInv
<1>8. p = Near(expire[t]) /\ expire[t] \div TIME_NEAR <= Turn
  BY <1>7, NearSlotIsNear, PathsDiffer
<1>. QED
  BY <1>3, <1>4, <1>5, <1>6, <1>8

\* The tick of a task handed over is the present one or whole turns of the near
\* wheel before it.
LEMMA HandedLate ==
  ASSUME TimerInv, PathInv, [Next]_vars, NEW t \in Tasks, HandedOver(t)
  PROVE  m_tick >= expire[t] /\ (m_tick - expire[t]) % TIME_NEAR = 0
<1> DEFINE e == expire[t]
<1>1. Near(e) = Near(m_tick) /\ e \div TIME_NEAR <= Turn
  BY HandedFromNear
<1>2. e \in Nat /\ m_tick \in Nat
  BY PathTypes, WheelTypes DEF TimerInv
<1>3. e % TIME_NEAR = m_tick % TIME_NEAR
  BY <1>1 DEF Near
<1>. QED
  BY <1>1, <1>2, <1>3, SameSlot, Sizes DEF Turn

\* A task is never handed over before its tick, and after it only whole turns of the
\* near wheel late: timer_execute empties the slot, whatever turn a task belongs to.
THEOREM HandedLateByWholeTurns == Spec => LateByWholeTurns
<1>1. TimerInv /\ SlotInv /\ PathInv /\ [Next]_vars =>
        [\A t \in Tasks : HandedOver(t) =>
           m_tick >= expire[t] /\ (m_tick - expire[t]) % TIME_NEAR = 0]_vars
  BY HandedLate
<1>. QED
  BY <1>1, PathInvHolds, PTL DEF Spec, LateByWholeTurns

\* No step moves the wheel past a task whose tick has not passed, unless it is handed
\* over: it cannot stay behind in a slot of a wheel that has turned on.
THEOREM NoTaskIsSteppedOver == Spec => NeverSteppedOver
<1>1. ASSUME TimerInv, SlotInv, PathInv, [Next]_vars
      PROVE  \A t \in Punctual : t \in Punctual' \/ HandedOver(t)
  <2> SUFFICES ASSUME NEW t \in Punctual
               PROVE  t \in Punctual' \/ HandedOver(t)
    OBVIOUS
  <2> USE DEF wheels, local, tasks
  <2>t. /\ TypeOK /\ stage \in [Tasks -> {"new", "read", "queued", "handed"}]
        /\ expire \in [Tasks -> Ticks] /\ m_tick \in Nat
        /\ t \in Tasks /\ stage[t] = "queued" /\ expire[t] >= m_tick /\ expire[t] \in Nat
    BY <1>1, WheelTypes DEF TimerInv, Punctual
  <2>1. CASE UNCHANGED <<m_tick, stage, expire>>
    BY <2>1, <2>t DEF Punctual
  <2>2. ASSUME NEW u \in Tasks, NEW ms \in Delays, ReadTick(u, ms)
        PROVE  t \in Punctual'
    <3>1. stage'[t] = "queued" /\ expire'[t] = expire[t] /\ m_tick' = m_tick
      BY <2>2, <2>t DEF ReadTick
    <3>. QED
      BY <3>1, <2>t DEF Punctual
  <2>3. ASSUME NEW u \in Tasks, Insert(u)
        PROVE  t \in Punctual'
    <3>1. stage'[t] = "queued" /\ expire'[t] = expire[t] /\ m_tick' = m_tick
      BY <2>3, <2>t DEF Insert
    <3>. QED
      BY <3>1, <2>t DEF Punctual
  <2>4. CASE ExecuteOne
    <3> DEFINE h == Head(Wheel[<<0, NearSlot>>])
    <3>1. /\ stage' = [stage EXCEPT ![h] = "handed"]
          /\ expire' = [expire EXCEPT ![h] = 0]
          /\ m_tick' = m_tick
      BY <2>4, <2>t, ExecutePops DEF ExecuteOne
    <3> HIDE DEF h
    <3>. QED
      BY <3>1, <2>t DEF Punctual, HandedOver
  <2>5. CASE Shift
    <3>1. /\ m_tick < SPAN[1] /\ pc = "execute1" /\ m_near[NearSlot] = <<>>
          /\ stage' = stage /\ expire' = expire
      BY <1>1, <2>5, <2>t, Sizes DEF Shift, TimerInv, SearchInv
    <3>2. m_tick' = m_tick + 1
      BY <1>1, <2>5, ShiftTicks
    <3>3. PICK p \in Places : t \in Elements(Wheel[p]) /\ OnPath(expire[t], p, Turn, Down)
      BY <1>1, <2>t, QueuedOnPath
    <3>4. ASSUME expire[t] = m_tick PROVE FALSE
      <4>1. p = Near(m_tick) \/ p = Upper(m_tick)
        BY <2>t, <3>1, <3>3, <3>4, PathsDiffer
      <4>2. p # Near(m_tick)
        <5>1. Wheel[Near(m_tick)] = m_near[NearSlot]
          BY <2>t, PlacesOfTicks DEF Wheel, Family, Near, NearSlot
        <5>. QED
          BY <3>1, <3>3, <5>1 DEF Elements
      <4>3. p # Upper(m_tick)
        <5>1. Upper(m_tick)[1] = 1 /\ m_tick \div TIME_NEAR = Turn /\ ~Down
          BY <3>1 DEF Upper, Turn, Down
        <5>. QED
          BY <2>t, <3>3, <3>4, <5>1, PathsDiffer
      <4>. QED
        BY <4>1, <4>2, <4>3
    <3>5. expire[t] >= m_tick + 1
      BY <2>t, <3>4
    <3>. QED
      BY <2>t, <3>1, <3>2, <3>5 DEF Punctual
  <2>. QED
    BY <1>1, <2>1, <2>2, <2>3, <2>4, <2>5
    DEF Next, TimerStep, Wake, BeginTick, EndUpdate, Unlock, Found, GoUp, CascadeOne,
        CascadeDone, ClockAdvance, vars
<1>2. TimerInv /\ SlotInv /\ PathInv /\ [Next]_vars =>
        [\A t \in Punctual : t \in Punctual' \/ HandedOver(t)]_vars
  BY <1>1
<1>. QED
  BY <1>2, PathInvHolds, PTL DEF Spec, NeverSteppedOver

-------------------------------------------------------------------------------
(* How early *)

\* A task's expire lags behind what its caller expects by no more than the wheel did
\* when m_tick was read for it.
LagInv ==
  /\ clock - m_tick <= MaxLag
  /\ \A t \in Tasks : stage[t] \in {"read", "queued"} => due[t] <= expire[t] + MaxLag

LEMMA LagInvInit == Init => LagInv
  BY BoundsAssumption DEF Init, LagInv

LEMMA LagInvStep == TimerInv /\ LagInv /\ [Next]_vars => LagInv'
<1> SUFFICES ASSUME TimerInv, LagInv, [Next]_vars PROVE LagInv'
  OBVIOUS
<1> USE DEF wheels, local, tasks
<1>t. /\ TypeOK /\ stage \in [Tasks -> {"new", "read", "queued", "handed"}]
      /\ expire \in [Tasks -> Ticks] /\ due \in [Tasks -> Nat]
      /\ m_tick \in Nat /\ clock \in Nat /\ MaxLag \in Nat
      /\ m_tick <= SPAN[1]
  BY WheelTypes, BoundsAssumption DEF TimerInv, TypeOK, SearchInv
<1>1. CASE UNCHANGED <<clock, m_tick, stage, expire, due>>
  BY <1>1 DEF LagInv
<1>2. ASSUME NEW t \in Tasks, NEW ms \in Delays, ReadTick(t, ms) PROVE LagInv'
  <2> DEFINE d == ms \div UNIT_MILLISECOND
  <2>1. d \in Nat /\ (m_tick + d) % WORD = m_tick + d
    BY <1>t, NoWrap
  <2> HIDE DEF d
  <2>2. /\ expire' = [expire EXCEPT ![t] = (m_tick + d) % WORD]
        /\ due' = [due EXCEPT ![t] = clock + d]
        /\ stage' = [stage EXCEPT ![t] = "read"]
        /\ clock' = clock /\ m_tick' = m_tick
    BY <1>2 DEF ReadTick, d
  <2>3. due'[t] <= expire'[t] + MaxLag
    BY <1>t, <2>1, <2>2 DEF LagInv
  <2>. QED
    BY <1>t, <2>2, <2>3 DEF LagInv
<1>3. ASSUME NEW t \in Tasks, Insert(t) PROVE LagInv'
  BY <1>3, <1>t DEF Insert, LagInv
<1>4. CASE ExecuteOne
  <2> DEFINE h == Head(Wheel[<<0, NearSlot>>])
  <2>1. /\ stage' = [stage EXCEPT ![h] = "handed"]
        /\ expire' = [expire EXCEPT ![h] = 0]
        /\ due' = [due EXCEPT ![h] = 0]
        /\ clock' = clock /\ m_tick' = m_tick
    BY <1>4, <1>t, ExecutePops DEF ExecuteOne
  <2> HIDE DEF h
  <2>. QED
    BY <1>t, <2>1 DEF LagInv
<1>5. CASE Shift
  <2>2. m_tick' = m_tick + 1 /\ clock' = clock /\ UNCHANGED <<stage, expire, due>>
    BY <1>5, ShiftTicks DEF Shift
  <2>. QED
    BY <1>t, <2>2 DEF LagInv
<1>6. CASE ClockAdvance
  BY <1>6, <1>t DEF ClockAdvance, LagInv
<1>. QED
  BY <1>1, <1>2, <1>3, <1>4, <1>5, <1>6
  DEF Next, TimerStep, Wake, BeginTick, EndUpdate, Unlock, Found, GoUp, CascadeOne,
      CascadeDone, vars

\* A task comes early by no more than the wheel can be behind the clock: the m_tick
\* that thesky_timeout reads without m_mutex is at most that old.
THEOREM EarlyByTheLag == Spec => EarlyOnlyByLag
<1>1. ASSUME TimerInv, PathInv, LagInv, [Next]_vars, NEW t \in Tasks, HandedOver(t)
      PROVE  clock + MaxLag >= due[t]
  <2>1. m_tick >= expire[t]
    BY <1>1, HandedLate
  <2>2. m_tick <= clock
    BY <1>1 DEF TimerInv, TypeOK, ClockInv
  <2>3. due[t] <= expire[t] + MaxLag
    BY <1>1 DEF LagInv, HandedOver
  <2>4. /\ m_tick \in Nat /\ clock \in Nat /\ MaxLag \in Nat /\ due[t] \in Nat
        /\ expire[t] \in Nat
    BY <1>1, WheelTypes, BoundsAssumption DEF TimerInv, TypeOK
  <2>. QED
    BY <2>1, <2>2, <2>3, <2>4
<1>2. TimerInv /\ SlotInv /\ PathInv /\ LagInv /\ [Next]_vars =>
        [\A t \in Tasks : HandedOver(t) => clock + MaxLag >= due[t]]_vars
  BY <1>1
<1>. QED
  BY <1>2, LagInvInit, LagInvStep, PathInvHolds, PTL DEF Spec, EarlyOnlyByLag

-------------------------------------------------------------------------------
(* The order of the tasks of one tick *)

\* t is in line before u, both for tick e: in the same slot, or one wheel further on.
InLine(Q, t, u, e) ==
  \/ Ahead(Q[Near(e)], t, u)
  \/ Ahead(Q[Upper(e)], t, u)
  \/ t \in Elements(Q[Near(e)]) /\ u \in Elements(Q[Upper(e)])

\* A task pushed behind others changes no order.
LEMMA LinePush ==
  ASSUME NEW Q \in [Places -> Seq(Tasks)], NEW p \in Places, NEW x \in Tasks,
         NEW t, NEW u, NEW e \in Nat, e < SPAN[1], InLine(Q, t, u, e)
  PROVE  InLine(Put(Q, p, Append(Q[p], x)), t, u, e)
<1> DEFINE R == Put(Q, p, Append(Q[p], x))
<1>1. \A r \in Places : R[r] = Q[r] \/ R[r] = Append(Q[r], x)
  BY DEF Put
<1>2. /\ \A r \in Places : Ahead(Q[r], t, u) => Ahead(R[r], t, u)
      /\ \A r \in Places : Elements(Q[r]) \subseteq Elements(R[r])
  <2> HIDE DEF R
  <2> SUFFICES ASSUME NEW r \in Places
               PROVE  /\ Ahead(Q[r], t, u) => Ahead(R[r], t, u)
                      /\ Elements(Q[r]) \subseteq Elements(R[r])
    OBVIOUS
  <2>1. Q[r] \in Seq(Tasks)
    OBVIOUS
  <2>2. CASE R[r] = Append(Q[r], x)
    BY <2>1, <2>2, PushAhead, PushElements
  <2>. QED
    BY <1>1, <2>2
<1>3. Near(e) \in Places /\ Upper(e) \in Places
  BY PlacesOfTicks
<1> HIDE DEF R
<1>4. InLine(R, t, u, e)
  BY <1>2, <1>3 DEF InLine
<1>. QED
  BY <1>4 DEF R

\* A task taken from the front changes no order among the others.
LEMMA LinePop ==
  ASSUME NEW Q \in [Places -> Seq(Tasks)], Apart(Q), NEW p \in Places, Q[p] # <<>>,
         NEW t, NEW u, t # Head(Q[p]), u # Head(Q[p]),
         NEW e \in Nat, e < SPAN[1], InLine(Q, t, u, e)
  PROVE  InLine(Put(Q, p, Tail(Q[p])), t, u, e)
<1> DEFINE R == Put(Q, p, Tail(Q[p]))
<1>1. \A r \in Places : R[r] = Q[r] \/ (r = p /\ R[r] = Tail(Q[r]))
  BY DEF Put
<1>2. Q[p] \in Seq(Tasks) /\ Distinct(Q[p])
  BY DEF Apart
<1>3. Elements(Tail(Q[p])) = Elements(Q[p]) \ {Head(Q[p])}
  BY <1>2, PopElements
<1>4. Ahead(Q[p], t, u) => Ahead(Tail(Q[p]), t, u)
  BY <1>2, PopAhead
<1> HIDE DEF R
<1>5. \A r \in Places : /\ Ahead(Q[r], t, u) => Ahead(R[r], t, u)
                        /\ t \in Elements(Q[r]) => t \in Elements(R[r])
                        /\ u \in Elements(Q[r]) => u \in Elements(R[r])
  BY <1>1, <1>3, <1>4
<1>6. Near(e) \in Places /\ Upper(e) \in Places
  BY PlacesOfTicks
<1>7. InLine(R, t, u, e)
  BY <1>5, <1>6 DEF InLine
<1>. QED
  BY <1>7 DEF R

\* down_queue sends the tasks of a slot down in their order, behind those that are
\* in the near wheel already.
LEMMA LineCascade ==
  ASSUME NEW Q \in [Places -> Seq(Tasks)], Apart(Q),
         NEW f \in Nat, f < SPAN[1], NEW d, d = Upper(f), NEW r, r = Near(f),
         Q[d] # <<>>, NEW h, h = Head(Q[d]),
         NEW t, NEW u, NEW e \in Nat, e < SPAN[1], InLine(Q, t, u, e),
         t = h \/ u = h => e = f
  PROVE  LET W == Put(Q, d, Tail(Q[d]))
         IN  InLine(Put(W, r, Append(W[r], h)), t, u, e)
<1> DEFINE W == Put(Q, d, Tail(Q[d]))
           R == Put(W, r, Append(W[r], h))
<1>1. d \in Places /\ r \in Places /\ r # d
  BY PlacesOfTicks DEF Near, Upper
<1>2. W \in [Places -> Seq(Tasks)] /\ h \in Tasks
  BY <1>1, PopApart
<1>3. ASSUME t # h, u # h
      PROVE  InLine(R, t, u, e)
  <2>1. InLine(W, t, u, e)
    BY <1>1, <1>3, LinePop
  <2> HIDE DEF W
  <2>. QED
    BY <1>1, <1>2, <2>1, LinePush
<1>4. ASSUME t = h \/ u = h
      PROVE  InLine(R, t, u, e)
  <2>1. Q[d] \in Seq(Tasks) /\ Distinct(Q[d]) /\ h \in Elements(Q[d])
    BY <1>1, PopElements DEF Apart
  <2>2. h \notin Elements(Q[r])
    BY <1>1, <2>1 DEF Apart
  <2>3. /\ W[r] = Q[r] /\ R[r] = Append(Q[r], h) /\ R[d] = Tail(Q[d])
        /\ Q[r] \in Seq(Tasks)
    BY <1>1 DEF Put
  <2>4. Near(e) = r /\ Upper(e) = d
    BY <1>4
  <2> HIDE DEF W, R
  <2>5. ~Ahead(Q[r], t, u)
    BY <1>4, <2>2, AheadElements
  <2>6. CASE Ahead(Q[d], t, u)
    <3>1. t = h /\ u \in Elements(Tail(Q[d]))
      BY <1>4, <2>1, <2>6, PopAhead
    <3>2. h \in Elements(R[r])
      BY <1>2, <2>3, PushElements
    <3>. QED
      BY <2>3, <2>4, <3>1, <3>2 DEF InLine
  <2>7. CASE t \in Elements(Q[r]) /\ u \in Elements(Q[d])
    <3>1. u = h
      BY <1>4, <2>2, <2>7
    <3>2. Ahead(R[r], t, h)
      BY <1>2, <2>3, <2>7, PushAhead
    <3>. QED
      BY <2>4, <3>1, <3>2 DEF InLine
  <2>. QED
    BY <2>4, <2>5, <2>6, <2>7 DEF InLine
<1>. QED
  BY <1>3, <1>4

\* With m_mutex free, emplace_task uses the near wheel for the present turn and the
\* first upper wheel for the later ones up to the stall; what stands in the near
\* wheel is of no later turn.
LEMMA PlaceWhenFree ==
  ASSUME TypeOK, m_tick < SPAN[1], NEW e \in Ticks, e < SPAN[1],
         NEW r, r = Near(e) \/ r = Upper(e), OnPath(e, r, Turn, FALSE)
  PROVE  \/ PlaceOf(e) = r
         \/ r = Near(e) /\ PlaceOf(e) = Upper(e)
<1>1. e \in Nat /\ SPAN[1] \in Nat /\ ~(e >= SPAN[1])
  BY Sizes DEF Ticks
<1>2. Near(e)[1] = 0 /\ Upper(e)[1] = 1
  BY DEF Near, Upper
<1>3. r = Upper(e) => e \div TIME_NEAR # Turn
  BY <1>1, <1>2, PathsDiffer
<1>4. SameTurn(e, m_tick, TIME_NEAR) <=> e \div TIME_NEAR = Turn
  BY DEF SameTurn, Turn
<1>5. \/ SameTurn(e, m_tick, TIME_NEAR) /\ PlaceOf(e) = Near(e)
      \/ ~SameTurn(e, m_tick, TIME_NEAR) /\ PlaceOf(e) = Upper(e)
  BY <1>1, PlaceBelowStall DEF Near, Upper
<1>. QED
  BY <1>3, <1>4, <1>5

\* A tick of no later turn is before the stall, too.
LEMMA TurnBelowStall ==
  ASSUME NEW e \in Nat, NEW m \in Nat, m < SPAN[1], e \div TIME_NEAR <= m \div TIME_NEAR
  PROVE  e < SPAN[1]
<1>1. m \div TIME_NEAR < TIME_LEVEL
  BY DivBelow, Sizes
<1>2. e \div TIME_NEAR \in Nat /\ m \div TIME_NEAR \in Nat
  BY Sizes
<1>3. e \div TIME_NEAR < TIME_LEVEL
  BY <1>1, <1>2, Sizes
<1>. QED
  BY <1>3, DivBelow, Sizes

\* Tasks of one tick stand in the order in which they were inserted.
LineInv ==
  /\ order \in Seq(Tasks)
  /\ \A t \in Elements(order) : stage[t] \in {"queued", "handed"}
  /\ \A t, u \in Tasks :
       /\ stage[t] = "queued" /\ stage[u] = "queued" /\ Ahead(order, t, u)
       /\ expire[t] = expire[u] /\ expire[u] < SPAN[1]
       => InLine(Wheel, t, u, expire[u])

LEMMA LineInvInit == Init => LineInv
  BY DEF Init, LineInv, Elements

LEMMA LineInvStep == TimerInv /\ SlotInv /\ PathInv /\ LineInv /\ [Next]_vars => LineInv'
<1> SUFFICES ASSUME TimerInv, SlotInv, PathInv, LineInv, [Next]_vars PROVE LineInv'
  OBVIOUS
<1> USE DEF wheels, local, tasks
<1>t. /\ TypeOK /\ stage \in [Tasks -> {"new", "read", "queued", "handed"}]
      /\ expire \in [Tasks -> Ticks] /\ \A t \in Tasks : expire[t] \in Nat
      /\ Wheel \in [Places -> Seq(Tasks)] /\ Apart(Wheel)
      /\ \A t \in Tasks : stage[t] = "queued" <=> t \in Held(Wheel)
  BY WheelTypes DEF TimerInv, SlotInv
<1>l. /\ order \in Seq(Tasks)
      /\ \A t \in Elements(order) : stage[t] \in {"queued", "handed"}
      /\ \A t, u \in Tasks :
           /\ stage[t] = "queued" /\ stage[u] = "queued" /\ Ahead(order, t, u)
           /\ expire[t] = expire[u] /\ expire[u] < SPAN[1]
           => InLine(Wheel, t, u, expire[u])
  BY DEF LineInv
<1>1. CASE UNCHANGED <<m_near, m_table, stage, expire, order>>
  <2>1. Wheel' = Wheel
    BY <1>1 DEF Wheel
  <2>. QED
    BY <1>1, <1>l, <2>1 DEF LineInv
<1>2. ASSUME NEW x \in Tasks, NEW ms \in Delays, ReadTick(x, ms) PROVE LineInv'
  <2>1. /\ Wheel' = Wheel /\ order' = order
        /\ stage[x] = "new" /\ stage' = [stage EXCEPT ![x] = "read"]
        /\ \A u \in Tasks : u # x => expire'[u] = expire[u]
    BY <1>2, <1>t DEF ReadTick, Wheel
  <2>2. \A t \in Elements(order) : stage'[t] \in {"queued", "handed"}
    BY <1>t, <1>l, <2>1
  <2>3. ASSUME NEW t \in Tasks, stage'[t] = "queued"
        PROVE  stage[t] = "queued" /\ expire'[t] = expire[t]
    BY <1>t, <2>1, <2>3
  <2>. QED
    BY <1>l, <2>1, <2>2, <2>3 DEF LineInv
<1>3. ASSUME NEW x \in Tasks, Insert(x) PROVE LineInv'
  <2> DEFINE e == expire[x]
             p == PlaceOf(e)
  <2>1. /\ stage[x] = "read" /\ stage' = [stage EXCEPT ![x] = "queued"]
        /\ order' = Append(order, x) /\ expire' = expire /\ ~Down
    BY <1>3 DEF Insert, LockFree, Down
  <2>2. m_tick < SPAN[1] /\ e \in Ticks /\ e \in Nat
    BY <1>t, <2>1, PathTypes, Sizes DEF TimerInv, SearchInv, Down
  <2>3. p \in Places /\ Wheel' = Put(Wheel, p, Append(Wheel[p], x))
    BY <1>3, <1>t, InsertPushes
  <2> HIDE DEF p, e
  <2>5. order' \in Seq(Tasks) /\ Elements(order') = Elements(order) \cup {x}
    BY <1>l, <2>1, PushElements
  <2>6. \A t \in Elements(order') : stage'[t] \in {"queued", "handed"}
    BY <1>t, <1>l, <2>1, <2>5 DEF Elements
  <2>7. ASSUME NEW t \in Tasks, NEW u \in Tasks,
               stage'[t] = "queued", stage'[u] = "queued", Ahead(order', t, u),
               expire[t] = expire[u], expire[u] < SPAN[1]
        PROVE  InLine(Wheel', t, u, expire[u])
    <3>1. CASE Ahead(order, t, u)
      <4>1. stage[t] = "queued" /\ stage[u] = "queued"
        BY <1>t, <1>l, <2>1, <2>7, <3>1, AheadElements
      <4>2. InLine(Wheel, t, u, expire[u])
        BY <1>l, <2>7, <3>1, <4>1
      <4>. QED
        BY <1>t, <2>3, <2>7, <4>2, LinePush
    <3>2. CASE u = x /\ t \in Elements(order)
      <4>1. stage[t] = "queued" /\ expire[t] = e /\ e < SPAN[1]
        BY <1>t, <1>l, <2>1, <2>7, <3>2 DEF e
      <4>2. PICK r \in Places : t \in Elements(Wheel[r]) /\ OnPath(e, r, Turn, Down)
        BY <4>1, QueuedOnPath
      <4>3. r = Near(e) \/ r = Upper(e)
        BY <2>2, <4>1, <4>2, PathsDiffer
      <4>4. p = r \/ (r = Near(e) /\ p = Upper(e))
        <5>1. Down = FALSE
          BY <2>1 DEF Down
        <5>2. OnPath(e, r, Turn, FALSE)
          BY <4>2, <5>1
        <5>. QED
          BY <1>t, <2>2, <4>1, <4>3, <5>2, PlaceWhenFree DEF p
      <4>6. Wheel'[p] = Append(Wheel[p], x) /\ \A s \in Places : s # p => Wheel'[s] = Wheel[s]
        BY <1>t, <2>3 DEF Put
      <4>7. CASE r = p
        <5>1. Ahead(Wheel'[p], t, x)
          BY <1>t, <4>2, <4>6, <4>7, PushAhead
        <5>. QED
          BY <3>2, <4>3, <4>7, <5>1 DEF InLine, e
      <4>8. CASE r # p
        <5>1. r = Near(e) /\ p = Upper(e)
          BY <4>4, <4>8
        <5>2. x \in Elements(Wheel'[p])
          BY <1>t, <2>3, <4>6, PushElements
        <5>3. t \in Elements(Wheel'[r])
          BY <4>2, <4>6, <4>8
        <5>. QED
          BY <3>2, <5>1, <5>2, <5>3 DEF InLine, e
      <4>. QED
        BY <4>7, <4>8
    <3>3. Ahead(order, t, u) \/ (u = x /\ t \in Elements(order))
      BY <1>l, <2>1, <2>7, PushAhead
    <3>. QED
      BY <3>1, <3>2, <3>3
  <2>. QED
    BY <2>1, <2>5, <2>6, <2>7 DEF LineInv
<1>4. CASE ExecuteOne
  <2> DEFINE p == <<0, NearSlot>>
             h == Head(Wheel[p])
  <2>1. /\ p \in Places /\ Wheel[p] # <<>> /\ h \in Tasks
        /\ Wheel' = Put(Wheel, p, Tail(Wheel[p]))
        /\ stage' = [stage EXCEPT ![h] = "handed"]
        /\ expire' = [expire EXCEPT ![h] = 0]
    BY <1>4, <1>t, WheelTypes, ExecutePops
  <2>2. order' = order
    BY <1>4 DEF ExecuteOne
  <2> HIDE DEF p
  <2>3. \A t \in Elements(order) : stage'[t] \in {"queued", "handed"}
    BY <1>t, <1>l, <2>1
  <2>4. ASSUME NEW t \in Tasks, NEW u \in Tasks,
               stage'[t] = "queued", stage'[u] = "queued", Ahead(order, t, u),
               expire'[t] = expire'[u], expire'[u] < SPAN[1]
        PROVE  InLine(Wheel', t, u, expire'[u])
    <3>1. /\ t # h /\ u # h /\ stage[t] = "queued" /\ stage[u] = "queued"
          /\ expire'[t] = expire[t] /\ expire'[u] = expire[u]
      BY <1>t, <2>1, <2>4
    <3>2. InLine(Wheel, t, u, expire[u])
      BY <1>l, <2>4, <3>1
    <3>. QED
      BY <1>t, <2>1, <2>4, <3>1, <3>2, LinePop
  <2>. QED
    BY <1>l, <2>2, <2>3, <2>4 DEF LineInv
<1>5. CASE CascadeOne
  <2> DEFINE d == Upper(m_tick)
             h == Head(Wheel[d])
             f == expire[h]
  <2>1. /\ m_tick < SPAN[1] /\ d = <<lv + 1, DownSlot>>
        /\ order' = order /\ stage' = stage /\ expire' = expire
    BY <1>5, DownSlotIsTurn DEF CascadeOne
  <2>2. d \in Places /\ Wheel[d] # <<>> /\ h \in Tasks
    BY <1>5, <1>t, <2>1, CascadeMoves
  <2>3. LET p == PlaceOf(f)
            W == Put(Wheel, d, Tail(Wheel[d]))
        IN  p \in Places /\ Wheel' = Put(W, p, Append(W[p], h))
    BY <1>5, <1>t, <2>1, CascadeMoves
  <2>4. f \in Nat /\ f < SPAN[1] /\ d = Upper(f)
    <3>1. h \in Elements(Wheel[d])
      BY <1>t, <2>2, PopElements DEF Apart
    <3>2. OnPath(f, d, Turn, Down) /\ f \in Nat
      BY <1>t, <2>2, <3>1 DEF PathInv
    <3>3. d[1] = 1
      BY DEF Upper
    <3>. QED
      BY <3>2, <3>3, PathsDiffer
  <2>5. PlaceOf(f) = Near(f)
    BY <2>4 DEF PlaceOf, SameTurn, Upper, Near
  <2> HIDE DEF d, f, h
  <2>6. ASSUME NEW t \in Tasks, NEW u \in Tasks,
               stage[t] = "queued", stage[u] = "queued", Ahead(order, t, u),
               expire[t] = expire[u], expire[u] < SPAN[1]
        PROVE  InLine(Wheel', t, u, expire[u])
    <3>1. InLine(Wheel, t, u, expire[u])
      BY <1>l, <2>6
    <3>2. t = h \/ u = h => expire[u] = f
      BY <2>6 DEF f
    <3>. QED
      BY <1>t, <2>2, <2>3, <2>4, <2>5, <2>6, <3>1, <3>2, LineCascade DEF h
  <2>. QED
    BY <1>l, <2>1, <2>6 DEF LineInv
<1>. QED
  BY <1>1, <1>2, <1>3, <1>4, <1>5
  DEF Next, TimerStep, Wake, BeginTick, EndUpdate, Unlock, Shift, Found, GoUp, CascadeDone,
      ClockAdvance, vars

\* Tasks for the same tick go to the pool in the order of their insertion: a later
\* thesky_timeout never overtakes an earlier one by way of a lower wheel.
THEOREM SameTickInOrder == Spec => SameTickFIFO
<1>1. ASSUME TimerInv, SlotInv, PathInv, LineInv, [Next]_vars,
             NEW t \in Tasks, NEW u \in Tasks,
             HandedOver(u), Before(t, u), stage[t] = "queued"
      PROVE  expire[t] # expire[u]
  <2> SUFFICES ASSUME expire[t] = expire[u] PROVE FALSE
    OBVIOUS
  <2> DEFINE e == expire[u]
             p == Near(e)
  <2>1. /\ p \in Places /\ Wheel[p] # <<>> /\ u = Head(Wheel[p]) /\ u \in Elements(Wheel[p])
        /\ e \div TIME_NEAR <= Turn /\ ExecuteOne
    BY <1>1, HandedFromNear
  <2>2. /\ e \in Nat /\ m_tick \in Nat
        /\ Wheel \in [Places -> Seq(Tasks)] /\ Apart(Wheel) /\ Wheel[p] \in Seq(Tasks)
    BY <1>1, <2>1, WheelTypes DEF TimerInv, SlotInv
  <2>3. e < SPAN[1]
    <3>1. m_tick < SPAN[1]
      BY <1>1, <2>1, <2>2, Sizes DEF ExecuteOne, TimerInv, SearchInv
    <3>. QED
      BY <2>1, <2>2, <3>1, TurnBelowStall DEF Turn
  <2>4. InLine(Wheel, t, u, e)
    BY <1>1, <2>3 DEF LineInv, HandedOver, Before, Ahead
  <2>5. p # Upper(e) /\ Upper(e) \in Places
    BY <2>2, <2>3, PlacesOfTicks DEF Near, Upper
  <2>6. u \notin Elements(Wheel[Upper(e)])
    BY <2>1, <2>2, <2>5 DEF Apart
  <2>7. ~Ahead(Wheel[Upper(e)], t, u)
    BY <2>6, AheadElements
  <2>8. ~Ahead(Wheel[p], t, u)
    BY <2>1, <2>2, PopAhead DEF Apart
  <2>. QED
    BY <2>4, <2>6, <2>7, <2>8 DEF InLine
<1>2. TimerInv /\ SlotInv /\ PathInv /\ LineInv /\ [Next]_vars =>
        [\A t, u \in Tasks :
           HandedOver(u) /\ Before(t, u) /\ stage[t] = "queued" => expire[t] # expire[u]]_vars
  BY <1>1
<1>. QED
  BY <1>2, LineInvInit, LineInvStep, PathInvHolds, PTL DEF Spec, SameTickFIFO
================================================================================
