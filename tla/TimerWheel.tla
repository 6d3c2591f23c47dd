------------------------------- MODULE TimerWheel -------------------------------
(***************************************************************************)
(* timer of src/thesky-src/thesky_timer.h: a hashed hierarchical timing    *)
(* wheel.  Any thread calls thesky_timeout; one thread, itself a task of   *)
(* the pool, runs thesky_thread, which moves the wheel one tick for every  *)
(* UNIT_MILLISECOND that the system clock has gone on.                     *)
(*                                                                         *)
(* thesky_timeout is two actions, because it reads m_tick before it takes  *)
(* m_mutex.  The timer thread moves in small steps (one task handed over,  *)
(* one task cascaded), since the clock and the unlocked read of m_tick go  *)
(* on while it holds m_mutex.  What it does with m_mutex held excludes     *)
(* every Insert.                                                           *)
(*                                                                         *)
(* The clock counts ticks: it is get_systemruntime() / UNIT_MILLISECOND,   *)
(* from the construction of the timer on.                                  *)
(***************************************************************************)
EXTENDS Integers, Sequences, FiniteSets

CONSTANTS TIME_NEAR,         \* slots of the near wheel (256)
          TIME_LEVEL,        \* slots of each upper wheel (64)
          TIME_LEVEL_COUNT,  \* number of upper wheels (4)
          SPAN,              \* SPAN[lv] ticks for one turn of all wheels below lv
          WORD_BITS,         \* width of uint32_t (32)
          UNIT_MILLISECOND,  \* milliseconds of a tick (10)
          Tasks,             \* every task is one call of thesky_timeout
          Delays,            \* the values of ms it is called with
          MaxClock,          \* bound: the tick at which the clock stops
          MaxLag             \* bound: ticks that the wheel may be behind the clock

WORD == SPAN[TIME_LEVEL_COUNT]

\* v >> TIME_LEVEL_MASK.  A shift by more than the width is undefined; builds
\* give 0 (folded) or shift by the amount modulo the width (the processor).
ShiftByLevelMask(v) ==
  LET n == TIME_LEVEL - 1
  IN  IF n < WORD_BITS THEN {v \div 2^n} ELSE {0, v \div 2^(n % WORD_BITS)}

ASSUME WheelAssumption ==
  /\ TIME_NEAR \in Nat \ {0}
  /\ TIME_LEVEL \in Nat \ {0, 1}
  /\ TIME_LEVEL_COUNT \in Nat \ {0, 1}
  /\ WORD_BITS \in Nat \ {0}
ASSUME SpanAssumption ==
  /\ SPAN \in [0 .. TIME_LEVEL_COUNT -> Nat \ {0}]
  /\ SPAN[0] = TIME_NEAR
  /\ \A lv \in 0 .. TIME_LEVEL_COUNT - 1 : SPAN[lv + 1] = SPAN[lv] * TIME_LEVEL
  /\ SPAN[1] < WORD
  /\ WORD = 2^WORD_BITS
\* The guard INT32_MAX < arg_tick is true of no uint32_t ms.
ASSUME DelaysAssumption ==
  /\ UNIT_MILLISECOND \in Nat \ {0}
  /\ Delays \subseteq Nat
  /\ \A ms \in Delays : ms \div UNIT_MILLISECOND < WORD \div 2
\* The shift clears the only index that can reach it, as 64 >> 63 and 64 >> 31 do.
ASSUME ShiftAssumption ==
  ShiftByLevelMask(TIME_LEVEL) = {0} /\ ShiftByLevelMask(0) = {0}
ASSUME BoundsAssumption == MaxClock \in Nat /\ MaxLag \in Nat

VARIABLES m_tick,    \* the tick the wheel stands at
          m_record,  \* the clock's tick at the last complete update
          m_near,    \* the near wheel: a queue for each slot
          m_table,   \* the upper wheels: a queue for each level and slot
          pc,        \* where the timer thread stands
          sys_tick,  \* its local variables: the clock as sampled,
          idx,       \*   the iteration of the catch-up loop,
          shift_ti,  \*   and those of the search in timer_shift
          lv,
          clock,     \* get_systemruntime() / UNIT_MILLISECOND
          stage,     \* how far each task has come
          expire,    \* task_node::expire
          due,       \* history: the clock's tick at which the caller expects it
          order      \* history: the tasks in the order of their insertion

wheels == <<m_tick, m_near, m_table>>
local  == <<sys_tick, idx, shift_ti, lv>>
tasks  == <<stage, expire, due, order>>
vars   == <<wheels, m_record, pc, local, clock, tasks>>

Levels == 0 .. TIME_LEVEL_COUNT - 1
Ticks  == 0 .. WORD - 1

(***************************************************************************)
(* pc:    "sleep"    in thread_sleep, or about to enter timer_update       *)
(*        "loop"     at the head of the catch-up loop, m_mutex free        *)
(*        "execute1" in the first timer_execute, m_mutex held from here on *)
(*        "search"   in the loop of timer_shift, "cascade" in down_queue   *)
(*        "execute2" in the second timer_execute                           *)
(* stage: "new", "read" (m_tick read, m_mutex not taken yet), "queued" in  *)
(*        a wheel, "handed" to the thread pool                             *)
(***************************************************************************)
TypeOK ==
  /\ m_tick \in Ticks
  /\ m_record \in Nat
  /\ m_near \in [0 .. TIME_NEAR - 1 -> Seq(Tasks)]
  /\ m_table \in [Levels -> [0 .. TIME_LEVEL - 1 -> Seq(Tasks)]]
  /\ pc \in {"sleep", "loop", "execute1", "search", "cascade", "execute2"}
  /\ sys_tick \in Nat
  /\ idx \in Nat
  /\ shift_ti \in Nat
  /\ lv \in 0 .. TIME_LEVEL_COUNT
  /\ pc = "cascade" => lv \in Levels
  /\ clock \in Nat
  /\ stage \in [Tasks -> {"new", "read", "queued", "handed"}]
  /\ expire \in [Tasks -> Ticks]
  /\ due \in [Tasks -> Nat]

Init ==
  /\ m_tick   = 0
  /\ m_record = 0
  /\ m_near   = [i \in 0 .. TIME_NEAR - 1 |-> <<>>]
  /\ m_table  = [l \in Levels |-> [i \in 0 .. TIME_LEVEL - 1 |-> <<>>]]
  /\ pc       = "sleep"
  /\ sys_tick = 0
  /\ idx      = 0
  /\ shift_ti = 0
  /\ lv       = 0
  /\ clock    = 0
  /\ stage    = [t \in Tasks |-> "new"]
  /\ expire   = [t \in Tasks |-> 0]
  /\ due      = [t \in Tasks |-> 0]
  /\ order    = <<>>

-------------------------------------------------------------------------------
(* emplace_task *)

\* (a | mask) == (b | mask), where the mask covers a turn of s ticks.
SameTurn(a, b, s) == a \div s = b \div s

\* Variant for the checks: the first level is tried with the near wheel's turn.
LevelOneLow(e) ==
  CHOOSE l \in Levels :
    /\ l = TIME_LEVEL_COUNT - 1 \/ SameTurn(e, m_tick, SPAN[l])
    /\ \A k \in 0 .. l - 1 : ~SameTurn(e, m_tick, SPAN[k])

\* The first level whose whole turn holds both ticks, otherwise the last one.
LevelOf(e) ==
  CHOOSE l \in Levels :
    /\ l = TIME_LEVEL_COUNT - 1 \/ SameTurn(e, m_tick, SPAN[l + 1])
    /\ \A k \in 0 .. l - 1 : ~SameTurn(e, m_tick, SPAN[k + 1])

SlotOf(e, l) == (e \div SPAN[l]) % TIME_LEVEL

EmplaceTask(t, e, near, table) ==
  IF SameTurn(e, m_tick, TIME_NEAR)
  THEN /\ m_near'  = [near EXCEPT ![e % TIME_NEAR] = Append(@, t)]
       /\ m_table' = table
  ELSE /\ m_near'  = near
       /\ m_table' = [table EXCEPT ![LevelOf(e)][SlotOf(e, LevelOf(e))] = Append(@, t)]

-------------------------------------------------------------------------------
(* thesky_timeout *)

LockFree == pc \in {"sleep", "loop"}

\* expire is computed from m_tick without m_mutex.
ReadTick(t, ms) ==
  LET arg_tick == ms \div UNIT_MILLISECOND
  IN  /\ stage[t] = "new"
      /\ expire' = [expire EXCEPT ![t] = (m_tick + arg_tick) % WORD]
      /\ due'    = [due EXCEPT ![t] = clock + arg_tick]
      /\ stage'  = [stage EXCEPT ![t] = "read"]
      /\ UNCHANGED <<wheels, m_record, pc, local, clock, order>>

\* Variant for the checks: emplace_task without m_mutex.
InsertUnlocked(t) ==
  /\ stage[t] = "read"
  /\ EmplaceTask(t, expire[t], m_near, m_table)
  /\ stage' = [stage EXCEPT ![t] = "queued"]
  /\ order' = Append(order, t)
  /\ UNCHANGED <<m_tick, m_record, pc, local, clock, expire, due>>

Insert(t) ==
  /\ stage[t] = "read"
  /\ LockFree
  /\ EmplaceTask(t, expire[t], m_near, m_table)
  /\ stage' = [stage EXCEPT ![t] = "queued"]
  /\ order' = Append(order, t)
  /\ UNCHANGED <<m_tick, m_record, pc, local, clock, expire, due>>

-------------------------------------------------------------------------------
(* thesky_thread and timer_update *)

\* The sleep is over: sample the clock; go back to sleep if it shows no new tick.
Wake ==
  /\ pc = "sleep"
  /\ pc'       = IF m_record < clock THEN "loop" ELSE "sleep"
  /\ sys_tick' = clock
  /\ UNCHANGED <<wheels, m_record, idx, shift_ti, lv, clock, tasks>>

\* Variant for the checks: one iteration too many.
BeginTickInclusive ==
  /\ pc = "loop"
  /\ idx <= sys_tick - m_record
  /\ pc' = "execute1"
  /\ UNCHANGED <<wheels, m_record, local, clock, tasks>>

BeginTick ==
  /\ pc = "loop"
  /\ idx < sys_tick - m_record
  /\ pc' = "execute1"
  /\ UNCHANGED <<wheels, m_record, local, clock, tasks>>

\* Variant for the checks: the clock is read again for m_record.
EndUpdateRereads ==
  /\ pc = "loop"
  /\ ~(idx < sys_tick - m_record)
  /\ m_record' = clock
  /\ pc'  = "sleep"
  /\ idx' = 0
  /\ UNCHANGED <<wheels, sys_tick, shift_ti, lv, clock, tasks>>

EndUpdate ==
  /\ pc = "loop"
  /\ ~(idx < sys_tick - m_record)
  /\ m_record' = sys_tick
  /\ pc'  = "sleep"
  /\ idx' = 0
  /\ UNCHANGED <<wheels, sys_tick, shift_ti, lv, clock, tasks>>

-------------------------------------------------------------------------------
(* timer_execute *)

\* Variant for the checks: the slot after the present one.
NextNearSlot == (m_tick + 1) % TIME_NEAR

NearSlot == m_tick % TIME_NEAR

\* One round of the loop: the front task goes to the pool and its node is freed.
ExecuteOne ==
  /\ pc \in {"execute1", "execute2"}
  /\ m_near[NearSlot] # <<>>
  /\ LET t == Head(m_near[NearSlot])
     IN  /\ stage'  = [stage EXCEPT ![t] = "handed"]
         /\ expire' = [expire EXCEPT ![t] = 0]
         /\ due'    = [due EXCEPT ![t] = 0]
  /\ m_near' = [m_near EXCEPT ![NearSlot] = Tail(@)]
  /\ UNCHANGED <<m_tick, m_table, m_record, pc, local, clock, order>>

\* The second timer_execute is over: unlock and go round the catch-up loop.
Unlock ==
  /\ pc = "execute2"
  /\ m_near[NearSlot] = <<>>
  /\ idx' = idx + 1
  /\ pc'  = "loop"
  /\ UNCHANGED <<wheels, m_record, sys_tick, shift_ti, lv, clock, tasks>>

-------------------------------------------------------------------------------
(* timer_shift and down_queue *)

\* Variant for the checks: the wheel moves on before its slot is executed.
ShiftBeforeExecuted ==
  /\ pc = "execute1"
  /\ m_tick' = (m_tick + 1) % WORD
  /\ IF m_tick' % TIME_NEAR = 0
     THEN pc' = "search" /\ shift_ti' = m_tick' \div TIME_NEAR /\ lv' = 0
     ELSE pc' = "execute2" /\ UNCHANGED <<shift_ti, lv>>
  /\ UNCHANGED <<m_near, m_table, m_record, sys_tick, idx, clock, tasks>>

\* ++m_tick.  At 0 the last wheel's slot 0 is cascaded; at the end of a turn of
\* the near wheel the slot to cascade is searched.
Shift ==
  /\ pc = "execute1"
  /\ m_near[NearSlot] = <<>>
  /\ m_tick' = (m_tick + 1) % WORD
  /\ IF m_tick' = 0
     THEN pc' = "cascade" /\ shift_ti' = 0 /\ lv' = TIME_LEVEL_COUNT - 1
     ELSE IF m_tick' % TIME_NEAR = 0
     THEN pc' = "search" /\ shift_ti' = m_tick' \div TIME_NEAR /\ lv' = 0
     ELSE pc' = "execute2" /\ UNCHANGED <<shift_ti, lv>>
  /\ UNCHANGED <<m_near, m_table, m_record, sys_tick, idx, clock, tasks>>

\* Variant for the checks: the search gives up, one wheel too late.
FoundPastTop ==
  /\ pc = "search"
  /\ shift_ti % TIME_LEVEL # 0 \/ lv = TIME_LEVEL_COUNT
  /\ pc' = "cascade"
  /\ UNCHANGED <<wheels, m_record, local, clock, tasks>>

\* The search finds a slot other than 0 at level lv.
Found ==
  /\ pc = "search"
  /\ shift_ti % TIME_LEVEL # 0
  /\ pc' = "cascade"
  /\ UNCHANGED <<wheels, m_record, local, clock, tasks>>

\* Variant for the checks: the shift that was meant, by TIME_LEVEL_SHIFT.
GoUpOneWheel ==
  /\ pc = "search"
  /\ shift_ti % TIME_LEVEL = 0
  /\ shift_ti' = shift_ti \div TIME_LEVEL
  /\ lv' = IF lv < TIME_LEVEL_COUNT THEN lv + 1 ELSE lv
  /\ UNCHANGED <<wheels, m_record, pc, sys_tick, idx, clock, tasks>>

\* Slot 0: go up one wheel.  lv is not read again unless a slot is found; it
\* stops counting at TIME_LEVEL_COUNT here.
GoUp ==
  /\ pc = "search"
  /\ shift_ti % TIME_LEVEL = 0
  /\ shift_ti' \in ShiftByLevelMask(shift_ti)
  /\ lv' = IF lv < TIME_LEVEL_COUNT THEN lv + 1 ELSE lv
  /\ UNCHANGED <<wheels, m_record, pc, sys_tick, idx, clock, tasks>>

DownSlot == shift_ti % TIME_LEVEL

\* Variant for the checks: front() and emplace without pop().
CascadeKeeps ==
  /\ pc = "cascade"
  /\ m_table[lv][DownSlot] # <<>>
  /\ LET t == Head(m_table[lv][DownSlot])
     IN  EmplaceTask(t, expire[t], m_near, m_table)
  /\ pc' = "execute2"
  /\ UNCHANGED <<m_tick, m_record, local, clock, tasks>>

\* One round of the loop of down_queue: front(), emplace_task, pop().
CascadeOne ==
  /\ pc = "cascade"
  /\ m_table[lv][DownSlot] # <<>>
  /\ LET t == Head(m_table[lv][DownSlot])
     IN  EmplaceTask(t, expire[t], m_near,
                     [m_table EXCEPT ![lv][DownSlot] = Tail(@)])
  /\ UNCHANGED <<m_tick, m_record, pc, local, clock, tasks>>

\* Variant for the checks: only the first task of the slot is sent down.
CascadeDoneEarly ==
  /\ pc = "cascade"
  /\ pc' = "execute2"
  /\ shift_ti' = 0
  /\ lv' = 0
  /\ UNCHANGED <<wheels, m_record, sys_tick, idx, clock, tasks>>

CascadeDone ==
  /\ pc = "cascade"
  /\ m_table[lv][DownSlot] = <<>>
  /\ pc' = "execute2"
  /\ shift_ti' = 0
  /\ lv' = 0
  /\ UNCHANGED <<wheels, m_record, sys_tick, idx, clock, tasks>>

-------------------------------------------------------------------------------

ClockAdvance ==
  /\ clock < MaxClock
  /\ clock - m_tick < MaxLag
  /\ clock' = clock + 1
  /\ UNCHANGED <<wheels, m_record, pc, local, tasks>>

TimerStep ==
  \/ Wake \/ BeginTick \/ EndUpdate
  \/ ExecuteOne \/ Unlock
  \/ Shift \/ Found \/ GoUp \/ CascadeOne \/ CascadeDone

Next ==
  \/ \E t \in Tasks, ms \in Delays : ReadTick(t, ms)
  \/ \E t \in Tasks : Insert(t)
  \/ TimerStep
  \/ ClockAdvance

Spec == Init /\ [][Next]_vars

\* The clock goes on and the timer thread is scheduled.  Callers may stop anywhere.
FairSpec == Spec /\ WF_vars(TimerStep) /\ WF_vars(ClockAdvance)
-------------------------------------------------------------------------------
(* Properties *)

\* The queues of the wheels: place <<0, i>> is slot i of the near wheel, place
\* <<l + 1, i>> is slot i of level l.
Places == {<<0, i>> : i \in 0 .. TIME_NEAR - 1}
            \cup {<<l + 1, i>> : l \in Levels, i \in 0 .. TIME_LEVEL - 1}

QueueAt(p) == IF p[1] = 0 THEN m_near[p[2]] ELSE m_table[p[1] - 1][p[2]]

StandsAt(t, p) == \E i \in DOMAIN QueueAt(p) : QueueAt(p)[i] = t

\* A task that has entered the wheels stands in exactly one queue, once, until it
\* is handed over: cascading (down_queue, emplace_task) loses and doubles nothing.
OneSlot ==
  /\ \A p \in Places : \A i, j \in DOMAIN QueueAt(p) :
       QueueAt(p)[i] = QueueAt(p)[j] => i = j
  /\ \A p, r \in Places, t \in Tasks : StandsAt(t, p) /\ StandsAt(t, r) => p = r
  /\ \A t \in Tasks : stage[t] = "queued" <=> \E p \in Places : StandsAt(t, p)

\* The tasks in the wheels whose tick has not passed.
Punctual == {t \in Tasks : stage[t] = "queued" /\ expire[t] >= m_tick}

\* Whenever m_mutex is free, a punctual task stands where the wheel will find it in
\* time: in its slot of the present turn of the near wheel, or in a slot of a level
\* that this turn of the level has still to reach (emplace_task, timer_shift).
WaitsOnItsPath ==
  LockFree => \A t \in Punctual :
    \/ SameTurn(expire[t], m_tick, TIME_NEAR) /\ StandsAt(t, <<0, expire[t] % TIME_NEAR>>)
    \/ \E l \in Levels :
         /\ SameTurn(expire[t], m_tick, SPAN[l + 1])
         /\ SlotOf(expire[t], l) > SlotOf(m_tick, l)
         /\ StandsAt(t, <<l + 1, SlotOf(expire[t], l)>>)

\* However the clock moves during an update, no tick is skipped or done twice: the
\* wheel stands where the last update and the iterations since then have put it.
TickTracksClock ==
  /\ m_record + idx <= sys_tick \/ pc = "sleep"
  /\ m_tick = m_record + idx + (IF pc \in {"search", "cascade", "execute2"} THEN 1 ELSE 0)
  /\ m_tick <= clock

\* The loop that looks for the slot to cascade shifts by TIME_LEVEL_MASK, so it
\* never ends when the first upper wheel has turned once: the wheel never gets past
\* that tick and the timer thread keeps m_mutex.
StopsAfterOneTurn ==
  /\ m_tick <= SPAN[1]
  /\ m_tick = SPAN[1] => pc = "search" /\ shift_ti % TIME_LEVEL = 0

HandedOver(t) == stage[t] = "queued" /\ stage'[t] = "handed"

\* The wheel does not move past the tick of a task that waits for it, whichever
\* wheels the task had to come down through.
NeverSteppedOver == [][\A t \in Punctual : t \in Punctual' \/ HandedOver(t)]_vars

\* A task is handed over at its own tick or, when m_tick was read too early for it,
\* whole turns of the near wheel after that; never before and never in between.
LateByWholeTurns ==
  [][\A t \in Tasks : HandedOver(t) =>
       m_tick >= expire[t] /\ (m_tick - expire[t]) % TIME_NEAR = 0]_vars

Before(t, u) == \E i, j \in DOMAIN order : i < j /\ order[i] = t /\ order[j] = u

\* Tasks for the same tick are handed over in the order in which they were inserted,
\* although they may have been inserted into different wheels.
SameTickFIFO ==
  [][\A t, u \in Tasks :
       HandedOver(u) /\ Before(t, u) /\ stage[t] = "queued" => expire[t] # expire[u]]_vars

\* A task may come early, but never by more than the wheel was behind the clock.
EarlyOnlyByLag ==
  [][\A t \in Tasks : HandedOver(t) => clock + MaxLag >= due[t]]_vars

\* A punctual task whose tick lies in the first turn of the first upper wheel is
\* handed over to the thread pool.
PunctualFires ==
  \A t \in Tasks :
    (t \in Punctual /\ expire[t] < SPAN[1]) ~> stage[t] = "handed"

-------------------------------------------------------------------------------
(* What the comments of the code say, and what the code does not do *)

\* "time: execute the task X milliseconds in the future" (lines 59 to 63): a task
\* that thesky_timeout has inserted in time is executed.
EveryTaskFires == \A t \in Tasks : t \in Punctual ~> stage[t] = "handed"

\* "execute the queue of the present tick" (line 80): what is handed over belongs
\* to the present tick.
FiresAtItsTick ==
  [][\A t \in Tasks : HandedOver(t) => expire[t] = m_tick]_vars

\* "time: execute the task X milliseconds in the future" (lines 59 to 63), not
\* sooner; one tick is granted for the resolution of the wheel.
NotEarly ==
  [][\A t \in Tasks : HandedOver(t) => clock + 1 >= due[t]]_vars
================================================================================
