----------------------------- MODULE FrameProofs -----------------------------
(****************************************************************************)
(* Theorems about frames: when the main loop paints one (MainLoop), for     *)
(* every fade step, unredirection delay and number of waiting events, and   *)
(* that it shows all that changed (Buffers), for every screen and every     *)
(* CGLX_MAX_BUFFER_AGE.  The two have nothing in common but this module.    *)
(****************************************************************************)
EXTENDS MainLoop, Buffers, TLAPS

------------------------------------------------------------------------------
(* The main loop.                                                           *)

Asleep == pc \in {"select", "blocked"}

(* The fade clock: unset, it counts nothing; set, it is less than a fifth   *)
(* of a step ahead, and a sleep does not let it fall behind by more than    *)
(* the bound.                                                               *)
ClockKept ==
  /\ owed = fadeLag
  /\ ~fadeSet => fadeLag = 0
  /\ -FadeDelta <= 5 * fadeLag
  /\ Asleep /\ fadeSet =>
       /\ wait \in 0 .. 2 * FadeDelta
       /\ fadeLag + wait <= MaxLag + 2 * FadeDelta

(* The clock is set as long as the loop is not idle, and only an event can  *)
(* end the idling without setting it; a window that has to fade keeps the   *)
(* loop from idling, or an event has come that does, unless a D-Bus request *)
(* began the fade after the loop had looked.                                *)
FadeNoticed ==
  /\ idling => ~fadeSet
  /\ ~idling /\ ~fadeSet => evReceived /\ pc # "head"
  /\ left > 0 => "fade" \in late \/ ~idling \/ (evReceived /\ pc # "head")
  /\ Asleep => ~evReceived

(* The timer runs only while the screen is redirected, and is never older   *)
(* than the time for which every cycle found it possible to unredirect.     *)
TimerKept ==
  /\ timerOn => Delay > 0 /\ redirected /\ ~hit /\ timerAge <= possibleFor
  /\ hit => redirected /\ Delay - TimeoutTolerance <= possibleFor

(* Before it sleeps the thread has emptied Xlib's queue, but for what a     *)
(* D-Bus request read since, and looked at ps->reset; the sleep is no       *)
(* longer than the fade clock and the timer allow.                          *)
SleepBounded ==
  /\ pc \in {"dbus", "timeout", "select", "blocked"} /\ xq > 0 => "events" \in late
  /\ Asleep =>
       /\ left > 0 => "fade" \in late \/ (wait # Forever /\ 5 * wait <= 6 * FadeDelta)
       /\ reset => "reset" \in late
       /\ timerOn => wait # Forever /\ wait <= Delay

(* No more events have been sent than are waited for.                       *)
QueueBound == wire + xq <= MaxEvents

IInv == TypeOK /\ ClockKept /\ FadeNoticed /\ TimerKept /\ SleepBounded /\ QueueBound

------------------------------------------------------------------------------
(* Arithmetic.                                                              *)
LEMMA Quotient ==
  ASSUME NEW a \in Int, NEW b \in Nat \ {0}
  PROVE  /\ a \div b \in Int
         /\ b * (a \div b) <= a
         /\ a < b * (a \div b) + b
OBVIOUS

LEMMA SmallQuotient ==
  ASSUME NEW d \in Nat \ {0}, NEW x \in Nat, x < d
  PROVE  x \div d = 0
OBVIOUS

(* The unredirection timer is due its whole delay after it was started.     *)
LEMMA NewrunIsDelay ==
  ASSUME Delay > 0
  PROVE  TimeoutNewrun = Delay
<1>1. Delay \in Nat \ {0}
  BY MainLoopAssumption
<1>2. /\ Delay \div 20 \in Nat /\ Delay \div 20 < Delay
      /\ (19 * Delay) \div 20 \in Nat /\ (19 * Delay) \div 20 < Delay
  BY <1>1
<1>3. (Delay \div 20) \div Delay = 0 /\ ((19 * Delay) \div 20) \div Delay = 0
  BY <1>1, <1>2, SmallQuotient
<1> QED
  BY <1>1, <1>3 DEF TimeoutNewrun, Later

LEMMA ToleranceSmall == TimeoutTolerance \in Nat /\ TimeoutTolerance <= Delay
BY MainLoopAssumption DEF TimeoutTolerance

(* The steps of a cycle are worth the time on the fade clock, to within a   *)
(* fifth of a step early and four fifths late.                              *)
LEMMA StepsExact ==
  ASSUME fadeLag \in Int, -FadeDelta <= 5 * fadeLag, ~fadeSet => fadeLag = 0
  PROVE  /\ FadeSteps \in Nat
         /\ fadeLag - FadeSteps * FadeDelta \in Int
         /\ -FadeDelta <= 5 * (fadeLag - FadeSteps * FadeDelta)
         /\ 5 * (fadeLag - FadeSteps * FadeDelta) < 4 * FadeDelta
<1> FadeDelta \in Nat \ {0}
  BY MainLoopAssumption
<1>1. CASE fadeSet
  <2> DEFINE a == 5 * fadeLag + FadeDelta
             b == 5 * FadeDelta
             q == a \div b
             p == q * FadeDelta
  <2>1. a \in Nat /\ b \in Nat \ {0}
    OBVIOUS
  <2>2. q \in Int /\ b * q <= a /\ a < b * q + b
    <3> HIDE DEF a, b
    <3> QED
      BY <2>1, Quotient
  <2>3. p \in Int /\ (5 * FadeDelta) * q = 5 * p
    BY <2>2
  <2>4. q \in Nat
    <3>1. 0 < 5 * FadeDelta * (q + 1)
      BY <2>1, <2>2
    <3> QED
      BY <2>2, <3>1
  <2>5. FadeSteps = q
    BY <1>1 DEF FadeSteps
  <2> HIDE DEF q
  <2>6. -FadeDelta <= 5 * (fadeLag - p) /\ 5 * (fadeLag - p) < 4 * FadeDelta
    <3> HIDE DEF p
    <3> QED
      BY <2>2, <2>3
  <2> QED
    BY <2>3, <2>4, <2>5, <2>6
<1>2. CASE ~fadeSet
  BY <1>2 DEF FadeSteps
<1> QED
  BY <1>1, <1>2

(* What mainloop computes for select().                                     *)
LEMMA TimeoutBounds ==
  ASSUME IInv
  PROVE  /\ SelectTimeout \in Nat \cup {Forever}
         /\ evReceived => SelectTimeout = 0
         /\ ~evReceived /\ ~idling => 
              /\ SelectTimeout \in 0 .. 2 * FadeDelta
              /\ SelectTimeout = 0 \/ SelectTimeout <= FadeDelta - fadeLag
         /\ timerOn => SelectTimeout # Forever /\ SelectTimeout <= Delay
<1> FadeDelta \in Nat \ {0} /\ Delay \in Nat
  BY MainLoopAssumption
<1>1. fadeLag \in Int
  BY DEF IInv, TypeOK
<1>2. /\ FadeTimeout \in 0 .. 2 * FadeDelta
      /\ FadeTimeout = 0 \/ FadeTimeout <= FadeDelta - fadeLag
  BY <1>1 DEF FadeTimeout, Clamp, Earlier, Later
<1>3. /\ PollTime \in Nat \cup {Forever}
      /\ timerOn => PollTime \in 0 .. Delay
  <2>1. CASE timerOn
    <3>1. TimeoutNewrun = Delay /\ timerAge \in Nat
      BY <2>1, NewrunIsDelay DEF IInv, TimerKept, TypeOK
    <3> QED
      BY <2>1, <3>1 DEF PollTime, Later
  <2>2. CASE ~timerOn
    BY <2>2 DEF PollTime
  <2> QED
    BY <2>1, <2>2
<1>4. CASE evReceived
  BY <1>3, <1>4 DEF PaintWait, SelectTimeout, Earlier, Forever
<1>5. CASE ~evReceived /\ idling
  BY <1>3, <1>5 DEF PaintWait, SelectTimeout, Earlier, Forever
<1>6. CASE ~evReceived /\ ~idling
  BY <1>1, <1>2, <1>3, <1>6 DEF PaintWait, SelectTimeout, Earlier, Forever
<1> QED
  BY <1>4, <1>5, <1>6

------------------------------------------------------------------------------
(* Each step keeps the invariant.                                           *)
LEMMA TickKeeps == ASSUME IInv, Tick PROVE IInv'
<1> FadeDelta \in Nat \ {0} /\ Delay \in Nat /\ MaxLag \in Nat /\ MaxLag > FadeDelta
  BY MainLoopAssumption
<1> TimeoutTolerance \in Nat /\ TimeoutTolerance <= Delay /\ TimeoutTolerance' = TimeoutTolerance
  BY ToleranceSmall DEF TimeoutTolerance
<1> USE DEF Forever, Never
<1>1. TypeOK' /\ QueueBound'
  <2>1. fadeLag' <= MaxLag + 2 * FadeDelta /\ fadeLag' \in Int /\ owed' \in Int
    BY DEF IInv, TypeOK, QueueBound, ClockKept, Tick, Asleep
  <2>2. wait' \in Nat \cup {Forever}
    BY DEF IInv, TypeOK, QueueBound, Tick
  <2>3. timerAge' \in 0 .. Delay + 1
    BY DEF IInv, TypeOK, QueueBound, Tick, Earlier
  <2>4. possibleFor' \in Never .. Delay + 1
    BY DEF IInv, TypeOK, QueueBound, Tick, Earlier
  <2> QED
    BY <2>1, <2>2, <2>3, <2>4
    DEF IInv, TypeOK, QueueBound, Tick, queueVars, paintVars
<1>2. ClockKept'
  BY DEF IInv, TypeOK, QueueBound, ClockKept, Asleep, Tick
<1>3. FadeNoticed'
  BY DEF IInv, FadeNoticed, Asleep, Tick, paintVars
<1>4. TimerKept'
  BY DEF IInv, TypeOK, QueueBound, TimerKept, Tick, Earlier, paintVars
<1>5. SleepBounded'
  BY DEF IInv, TypeOK, QueueBound, SleepBounded, Asleep, Tick, queueVars, paintVars
<1> QED
  BY <1>1, <1>2, <1>3, <1>4, <1>5 DEF IInv

(* Events, messages and signals.                                            *)
LEMMA ArrivalKeeps == ASSUME IInv, XEvent \/ DBusMessage \/ Sigusr1 PROVE IInv'
<1> MaxEvents \in Nat
  BY MainLoopAssumption
<1> USE DEF clockVars, timerVars, queueVars, paintVars, loopVars
<1>1. TypeOK' /\ QueueBound'
  <2>1. CASE XEvent
    <3>1. wire' \in 0 .. MaxEvents
      BY <2>1 DEF IInv, TypeOK, QueueBound, XEvent
    <3> QED
      BY <2>1, <3>1 DEF IInv, TypeOK, QueueBound, XEvent
  <2>2. CASE DBusMessage
    <3>1. dbq' \in 0 .. MaxEvents
      BY <2>2 DEF IInv, TypeOK, QueueBound, DBusMessage
    <3> QED
      BY <2>2, <3>1 DEF IInv, TypeOK, QueueBound, DBusMessage
  <2>3. CASE Sigusr1
    <3>1. late' \subseteq Belated
      BY <2>3 DEF IInv, TypeOK, Sigusr1, Belated
    <3>2. wait' \in Nat \cup {Forever}
      BY <2>3 DEF IInv, TypeOK, Sigusr1
    <3> QED
      BY <2>3, <3>1, <3>2 DEF IInv, TypeOK, QueueBound, Sigusr1
  <2> QED
    BY <2>1, <2>2, <2>3
<1>2. ClockKept'
  BY DEF IInv, ClockKept, Asleep, XEvent, DBusMessage, Sigusr1
<1>3. FadeNoticed'
  BY DEF IInv, FadeNoticed, Asleep, XEvent, DBusMessage, Sigusr1
<1>4. TimerKept'
  BY DEF IInv, TimerKept, TimeoutTolerance, XEvent, DBusMessage, Sigusr1
<1>5. SleepBounded'
  BY DEF IInv, SleepBounded, Asleep, XEvent, DBusMessage, Sigusr1
<1> QED
  BY <1>1, <1>2, <1>3, <1>4, <1>5 DEF IInv

LEMMA RunTimeoutsKeeps == ASSUME IInv, RunTimeouts PROVE IInv'
<1> Delay \in Nat /\ TimeoutTolerance \in Nat /\ TimeoutTolerance' = TimeoutTolerance
  BY MainLoopAssumption, ToleranceSmall DEF TimeoutTolerance
<1> USE DEF clockVars, queueVars, paintVars
<1>1. TypeOK' /\ QueueBound'
  <2>1. timerOn' \in BOOLEAN /\ hit' \in BOOLEAN /\ timerAge' \in 0 .. Delay + 1
    <3>1. CASE timerOn /\ TimeoutNewrun <= timerAge + TimeoutTolerance
      <4>1. hit' = TRUE /\ timerOn' = FALSE /\ timerAge' = 0
        BY <3>1 DEF RunTimeouts
      <4>2. timerAge' \in 0 .. Delay + 1
        BY <4>1
      <4>3. timerOn' \in BOOLEAN /\ hit' \in BOOLEAN
        BY <4>1
      <4> QED
        BY <4>2, <4>3
    <3>2. CASE ~(timerOn /\ TimeoutNewrun <= timerAge + TimeoutTolerance)
      BY <3>2 DEF IInv, TypeOK, QueueBound, RunTimeouts
    <3> QED
      BY <3>1, <3>2
  <2> QED
    BY <2>1 DEF IInv, TypeOK, QueueBound, RunTimeouts
<1>2. ClockKept' /\ FadeNoticed' /\ SleepBounded'
  BY DEF IInv, ClockKept, FadeNoticed, SleepBounded, Asleep, RunTimeouts
<1>3. TimerKept'
  <2>1. CASE timerOn /\ TimeoutNewrun <= timerAge + TimeoutTolerance
    <3>1. TimeoutNewrun = Delay /\ timerAge \in Nat /\ possibleFor \in Int
      BY <2>1, NewrunIsDelay DEF IInv, TypeOK, QueueBound, TimerKept, Never
    <3> QED
      BY <2>1, <3>1 DEF IInv, TimerKept, RunTimeouts
  <2>2. CASE ~(timerOn /\ TimeoutNewrun <= timerAge + TimeoutTolerance)
    BY <2>2 DEF IInv, TimerKept, RunTimeouts
  <2> QED
    BY <2>1, <2>2
<1> QED
  BY <1>1, <1>2, <1>3 DEF IInv

LEMMA HandleEventKeeps == ASSUME IInv, HandleEvent PROVE IInv'
<1> MaxEvents \in Nat
  BY MainLoopAssumption
<1> USE DEF clockVars, timerVars, Changed
<1>1. TypeOK' /\ QueueBound'
  <2>1. wire' \in 0 .. MaxEvents /\ xq' \in 0 .. MaxEvents
    <3>1. PICK read \in IF xq = 0 THEN {wire} ELSE {0, wire} :
                 xq' = xq + read - 1 /\ wire' = wire - read
      BY DEF HandleEvent
    <3>2. read \in {0, wire} /\ (xq = 0 => read = wire) /\ wire + xq > 0
      BY <3>1 DEF HandleEvent
    <3>3. wire \in Nat /\ xq \in Nat /\ wire + xq <= MaxEvents
      BY DEF IInv, TypeOK, QueueBound
    <3> QED
      BY <3>1, <3>2, <3>3
  <2>2. idling' \in BOOLEAN
    BY DEF IInv, TypeOK, QueueBound, HandleEvent
  <2> QED
    BY <2>1, <2>2 DEF IInv, TypeOK, QueueBound, HandleEvent
<1>2. ClockKept' /\ SleepBounded'
  BY DEF IInv, ClockKept, SleepBounded, Asleep, HandleEvent
<1>3. FadeNoticed'
  <2>1. idling' => idling
    BY Zenon DEF HandleEvent
  <2>2. evReceived' /\ pc' = "run" /\ fadeSet' = fadeSet
    BY DEF HandleEvent
  <2> QED
    BY <2>1, <2>2 DEF IInv, FadeNoticed, Asleep
<1>4. TimerKept'
  BY DEF IInv, TimerKept, TimeoutTolerance, HandleEvent
<1> QED
  BY <1>1, <1>2, <1>3, <1>4 DEF IInv

LEMMA NoEventKeeps == ASSUME IInv, NoEvent PROVE IInv'
<1> USE DEF clockVars, timerVars, queueVars, paintVars
<1>1. TypeOK' /\ QueueBound'
  BY DEF IInv, TypeOK, QueueBound, NoEvent
<1>2. ClockKept' /\ FadeNoticed'
  BY DEF IInv, ClockKept, FadeNoticed, Asleep, NoEvent
<1>3. TimerKept'
  BY DEF IInv, TimerKept, TimeoutTolerance, NoEvent
<1>4. SleepBounded'
  BY DEF IInv, TypeOK, QueueBound, SleepBounded, Asleep, NoEvent
<1> QED
  BY <1>1, <1>2, <1>3, <1>4 DEF IInv

LEMMA ProcessDBusKeeps == ASSUME IInv, ProcessDBus PROVE IInv'
<1> USE DEF clockVars, timerVars, paintVars, Changed
<1>1. TypeOK' /\ QueueBound'
  <2>1. /\ wire' \in 0 .. MaxEvents /\ xq' \in 0 .. MaxEvents /\ wire' + xq' <= MaxEvents
        /\ late' \subseteq Belated
    <3>1. wire \in Nat /\ xq \in Nat /\ wire + xq <= MaxEvents /\ late \subseteq Belated
      BY DEF IInv, TypeOK, QueueBound
    <3>2. \E read \in {0, wire} : xq' = xq + read /\ wire' = wire - read
      BY <3>1 DEF ProcessDBus, RequestReads
    <3>3. late' = late \/ late' = late \cup {"events"} \/ late' = late \cup {"fade"}
          \/ late' = late \cup {"fade"} \cup {"events"}
      BY DEF ProcessDBus, RequestReads
    <3>4. wire' \in 0 .. MaxEvents /\ xq' \in 0 .. MaxEvents /\ wire' + xq' <= MaxEvents
      BY <3>1, <3>2, MainLoopAssumption
    <3>5. late' \subseteq Belated
      BY <3>1, <3>3 DEF Belated
    <3> QED
      BY <3>4, <3>5
  <2>2. evReceived' \in BOOLEAN /\ reset' \in BOOLEAN
    BY DEF IInv, TypeOK, ProcessDBus
  <2>3. left' \in 0 .. MaxFade /\ top' \in Top /\ redirected' \in BOOLEAN
    BY DEF IInv, TypeOK, ProcessDBus
  <2>4. dbq' \in 0 .. MaxEvents
    BY MainLoopAssumption DEF ProcessDBus
  <2> QED
    BY <2>1, <2>2, <2>3, <2>4 DEF IInv, TypeOK, QueueBound, ProcessDBus
<1>2. ClockKept'
  BY DEF IInv, ClockKept, Asleep, ProcessDBus
<1>3. FadeNoticed'
  <2>1. late \subseteq late'
    BY DEF ProcessDBus, RequestReads
  <2>2. \/ evReceived' /\ left' \in Int
        \/ UNCHANGED <<left, evReceived>>
        \/ "fade" \in late' /\ UNCHANGED evReceived
    BY DEF ProcessDBus
  <2>3. UNCHANGED <<idling, fadeSet>> /\ pc = "dbus" /\ pc' = "timeout"
    BY DEF ProcessDBus
  <2> QED
    BY <2>1, <2>2, <2>3 DEF IInv, FadeNoticed, Asleep
<1>4. TimerKept'
  BY DEF IInv, TimerKept, TimeoutTolerance, ProcessDBus
<1>5. SleepBounded'
  <2>1. xq' > 0 => "events" \in late'
    <3>1. wire \in Nat /\ xq \in Nat
      BY DEF IInv, TypeOK
    <3>2. xq > 0 => "events" \in late
      BY DEF IInv, SleepBounded, ProcessDBus
    <3>3. CASE UNCHANGED <<xq, late>>
      BY <3>2, <3>3
    <3>4. CASE RequestReads
      BY <3>1, <3>2, <3>4 DEF RequestReads
    <3>5. CASE xq' = wire + xq
               /\ late' = late \cup {"fade"} \cup (IF wire > 0 THEN {"events"} ELSE {})
      BY <3>1, <3>2, <3>5
    <3> QED
      BY <3>3, <3>4, <3>5 DEF ProcessDBus
  <2>2. pc' = "timeout"
    BY DEF ProcessDBus
  <2> QED
    BY <2>1, <2>2 DEF SleepBounded, Asleep
<1> QED
  BY <1>1, <1>2, <1>3, <1>4, <1>5 DEF IInv

LEMMA ComputeTimeoutKeeps == ASSUME IInv, ComputeTimeout PROVE IInv'
<1> FadeDelta \in Nat \ {0} /\ Delay \in Nat /\ MaxLag \in Nat /\ MaxLag > FadeDelta
  BY MainLoopAssumption
<1> USE DEF clockVars, timerVars, queueVars, paintVars, Forever
<1>1. TypeOK' /\ QueueBound'
  <2>1. wait' \in Nat \cup {Forever}
    BY TimeoutBounds DEF ComputeTimeout
  <2> QED
    BY <2>1 DEF IInv, TypeOK, QueueBound, ComputeTimeout
<1>2. CASE reset \/ SelectTimeout = 0
  <2>1. ~Asleep'
    BY <1>2 DEF Asleep, ComputeTimeout
  <2> QED
    BY <1>1, <1>2, <2>1 DEF IInv, ClockKept, FadeNoticed, TimerKept, TimeoutTolerance,
      SleepBounded, ComputeTimeout
<1>3. CASE ~(reset \/ SelectTimeout = 0)
  <2>1. wait' = SelectTimeout /\ pc' = "select" /\ ~evReceived /\ wait' \in Nat \cup {Forever}
    BY <1>3, TimeoutBounds DEF ComputeTimeout
  <2>2. ~idling => wait' \in 0 .. 2 * FadeDelta /\ wait' <= FadeDelta - fadeLag
    BY <1>3, <2>1, TimeoutBounds
  <2>3. timerOn => wait' # Forever /\ wait' <= Delay
    BY <2>1, TimeoutBounds
  <2>4. FadeNoticed'
    BY <2>1 DEF IInv, FadeNoticed, Asleep, ComputeTimeout
  <2>5. ClockKept'
    <3>1. fadeSet => ~idling
      BY DEF IInv, FadeNoticed
    <3>2. fadeLag \in Int /\ UNCHANGED <<fadeLag, owed, fadeSet>>
      BY DEF IInv, TypeOK, ComputeTimeout
    <3> QED
      BY <2>2, <3>1, <3>2 DEF IInv, ClockKept
  <2>6. TimerKept'
    BY DEF IInv, TimerKept, TimeoutTolerance, ComputeTimeout
  <2>7. SleepBounded'
    <3>1. left > 0 => "fade" \in late \/ ~idling
      BY <2>1 DEF IInv, FadeNoticed
    <3>2. fadeLag \in Int /\ -FadeDelta <= 5 * fadeLag
      BY DEF IInv, TypeOK, ClockKept
    <3>3. /\ UNCHANGED <<xq, left, timerOn, reset>> /\ pc = "timeout" /\ ~reset
          /\ "events" \in late => "events" \in late'
          /\ "fade" \in late => "fade" \in late'
      BY <1>3 DEF ComputeTimeout
    <3> QED
      BY <2>1, <2>2, <2>3, <3>1, <3>2, <3>3 DEF IInv, SleepBounded
  <2> QED
    BY <1>1, <2>4, <2>5, <2>6, <2>7 DEF IInv
<1> QED
  BY <1>2, <1>3

LEMMA SleepKeeps == ASSUME IInv, Block \/ Wake PROVE IInv'
<1> USE DEF clockVars, timerVars, queueVars, paintVars
<1>1. TypeOK' /\ QueueBound'
  BY DEF IInv, TypeOK, QueueBound, Block, Wake
<1>2. ClockKept' /\ FadeNoticed'
  BY DEF IInv, ClockKept, FadeNoticed, Asleep, Block, Wake
<1>3. TimerKept'
  BY DEF IInv, TimerKept, TimeoutTolerance, Block, Wake
<1>4. SleepBounded'
  BY DEF IInv, SleepBounded, Asleep, Block, Wake
<1> QED
  BY <1>1, <1>2, <1>3, <1>4 DEF IInv

LEMMA NextCycleKeeps == ASSUME IInv, NextCycle PROVE IInv'
<1> USE DEF clockVars, timerVars, queueVars, paintVars
<1>1. TypeOK' /\ QueueBound'
  BY DEF IInv, TypeOK, QueueBound, NextCycle
<1>2. ClockKept'
  BY DEF IInv, ClockKept, Asleep, NextCycle
<1>3. FadeNoticed'
  BY DEF IInv, FadeNoticed, Asleep, NextCycle
<1>4. TimerKept'
  BY DEF IInv, TimerKept, TimeoutTolerance, NextCycle
<1>5. SleepBounded'
  BY DEF IInv, SleepBounded, Asleep, NextCycle
<1> QED
  BY <1>1, <1>2, <1>3, <1>4, <1>5 DEF IInv

(* A cycle leaves the fade clock within a fifth of a step ahead and four    *)
(* fifths behind.                                                           *)
LEMMA PaintCyclePaces ==
  ASSUME IInv, PaintCycle
  PROVE  /\ fadeLag' \in Int /\ owed' = fadeLag'
         /\ -FadeDelta <= 5 * owed' /\ 5 * owed' < 4 * FadeDelta
<1> FadeDelta \in Nat \ {0}
  BY MainLoopAssumption
<1> DEFINE p == FadeSteps * FadeDelta
<1>1. /\ FadeSteps \in Nat /\ p \in Int
      /\ -FadeDelta <= 5 * (fadeLag - p) /\ 5 * (fadeLag - p) < 4 * FadeDelta
  BY StepsExact DEF IInv, TypeOK, ClockKept
<1>2. fadeLag \in Int /\ owed = fadeLag /\ (~fadeSet => fadeLag = 0)
  BY DEF IInv, TypeOK, ClockKept
<1>3. /\ fadeLag' = IF idling' \/ ~fadeSet THEN 0 ELSE fadeLag - p
      /\ owed' = IF idling' \/ ~fadeSet THEN 0 ELSE fadeLag - p
  BY <1>2 DEF PaintCycle, FadeClock
<1> HIDE DEF p
<1> QED
  BY <1>1, <1>2, <1>3

LEMMA PaintCycleKeeps == ASSUME IInv, PaintCycle PROVE IInv'
<1> FadeDelta \in Nat \ {0} /\ Delay \in Nat /\ MaxLag \in Nat /\ MaxLag > FadeDelta
  BY MainLoopAssumption
<1> MaxEvents \in Nat /\ MaxFade \in Nat
  BY MainLoopAssumption
<1>1. FadeSteps \in Nat
  BY StepsExact DEF IInv, TypeOK, ClockKept
<1>2. PICK called \in BOOLEAN : idling' = IdleAfter(FadeSteps, called)
  BY DEF PaintCycle
<1>3. idling' \in BOOLEAN /\ fadeSet' = ~idling' /\ pc' = "head" /\ (left' > 0 => ~idling')
  <2>1. idling' = (left <= FadeSteps /\ ~called)
    BY <1>2 DEF IdleAfter
  <2>2. left' = Later(left - FadeSteps, 0) /\ left \in Nat
    BY DEF IInv, TypeOK, PaintCycle
  <2>3. left' > 0 => ~(left <= FadeSteps)
    BY <1>1, <2>2 DEF Later
  <2>4. fadeSet' = ~idling' /\ pc' = "head"
    BY DEF PaintCycle
  <2> QED
    BY <2>1, <2>3, <2>4
<1>4. TypeOK' /\ QueueBound'
  <2>1. left' \in 0 .. MaxFade
    BY <1>1 DEF IInv, TypeOK, PaintCycle, Later
  <2>2. fadeLag' \in Int /\ owed' \in Int /\ fadeLag' <= MaxLag + 2 * FadeDelta
    BY PaintCyclePaces
  <2>3. top' \in Top
    BY DEF IInv, TypeOK, PaintCycle
  <2>4. /\ timerOn' \in BOOLEAN /\ timerAge' \in 0 .. Delay + 1
        /\ redirected' \in BOOLEAN /\ hit' \in BOOLEAN
    <3>1. Redirect(top') /\ hit' = FALSE
      BY DEF PaintCycle, HitAfter
    <3>2. timerAge' \in 0 .. Delay + 1
      BY <3>1 DEF IInv, TypeOK, Redirect
    <3>3. timerOn' \in BOOLEAN /\ redirected' \in BOOLEAN
      BY <3>1 DEF IInv, TypeOK, Redirect
    <3> QED
      BY <3>1, <3>2, <3>3
  <2>5. possibleFor' \in Never .. Delay + 1
    BY DEF IInv, TypeOK, PaintCycle, Later, Never
  <2>6. /\ wire' \in 0 .. MaxEvents /\ xq' \in 0 .. MaxEvents /\ wire' + xq' <= MaxEvents
    <3>1. PICK read \in {0, wire} : xq' = xq + read /\ wire' = wire - read
      BY DEF PaintCycle
    <3> QED
      BY <3>1 DEF IInv, TypeOK, QueueBound
  <2> QED
    BY <1>3, <2>1, <2>2, <2>3, <2>4, <2>5, <2>6 DEF IInv, TypeOK, QueueBound, PaintCycle
<1>5. ClockKept'
  <2>1. ~fadeSet' => fadeLag' = 0
    BY <1>3 DEF PaintCycle
  <2> QED
    BY <1>3, <2>1, PaintCyclePaces DEF ClockKept, Asleep
<1>6. FadeNoticed' /\ SleepBounded'
  BY <1>3 DEF FadeNoticed, SleepBounded, Asleep
<1>7. TimerKept'
  <2>1. /\ hit' = FALSE /\ Redirect(top') /\ possibleFor \in Int
        /\ possibleFor' = IF UnredirPossible(top') /\ redirected'
                          THEN Later(possibleFor, 0) ELSE Never
    BY DEF IInv, TypeOK, PaintCycle, HitAfter, Never
  <2>2. timerOn' => Delay > 0 /\ redirected' /\ timerAge' <= possibleFor'
    <3>1. timerAge \in Int /\ Later(possibleFor, 0) >= possibleFor /\ Later(possibleFor, 0) >= 0
      BY <2>1 DEF IInv, TypeOK, Later
    <3>2. (timerOn => Delay > 0 /\ redirected /\ ~hit /\ timerAge <= possibleFor) /\ (hit => redirected)
      BY DEF IInv, TimerKept
    <3>3. Later(possibleFor, 0) \in Int
      BY <2>1 DEF Later
    <3>4. UnredirPossible(top') /\ redirected' => possibleFor' = Later(possibleFor, 0)
      BY <2>1
    <3>9. redirected \in BOOLEAN /\ timerOn \in BOOLEAN
      BY DEF IInv, TypeOK
    <3>5. CASE UnredirPossible(top') /\ redirected /\ (Delay = 0 \/ hit)
      <4>1. ~(Delay > 0 /\ ~hit) /\ ~timerOn
        BY <3>2, <3>5
      <4>2. timerOn' = timerOn
        BY <2>1, <3>5, <4>1, Zenon DEF Redirect
      <4> QED
        BY <4>1, <4>2
    <3>6. CASE UnredirPossible(top') /\ redirected /\ Delay > 0 /\ ~hit
      <4>1. ~(Delay = 0 \/ hit)
        BY <3>6
      <4>2. redirected' = redirected /\ timerAge' = IF timerOn THEN timerAge ELSE 0
        BY <2>1, <3>6, <4>1, Zenon DEF Redirect
      <4>3. possibleFor' = Later(possibleFor, 0)
        BY <3>4, <3>6, <4>2
      <4> HIDE DEF Later
      <4> QED
        BY <2>1, <3>1, <3>2, <3>3, <3>6, <3>9, <4>2, <4>3
    <3>7. CASE UnredirPossible(top') /\ ~redirected
      BY <2>1, <3>2, <3>7 DEF Redirect
    <3>8. CASE ~UnredirPossible(top')
      BY <2>1, <3>8 DEF Redirect
    <3> QED
      BY <3>5, <3>6, <3>7, <3>8
  <2> QED
    BY <2>1, <2>2 DEF TimerKept
<1> QED
  BY <1>4, <1>5, <1>6, <1>7 DEF IInv

(* A session that has just begun: the state of Init and after Restart.      *)
LEMMA FreshSession ==
  ASSUME pc = "head", ~evReceived, ~idling, fadeSet, fadeLag = 0, owed = 0,
         ~timerOn, ~hit
  PROVE  ClockKept /\ FadeNoticed /\ TimerKept /\ SleepBounded
BY MainLoopAssumption DEF ClockKept, FadeNoticed, TimerKept, SleepBounded, Asleep

LEMMA RestartKeeps == ASSUME IInv, Restart PROVE IInv'
<1>1. TypeOK' /\ QueueBound'
  <2>1. wire' \in 0 .. MaxEvents /\ xq' \in 0 .. MaxEvents /\ wire' + xq' <= MaxEvents
    BY MainLoopAssumption DEF IInv, TypeOK, QueueBound, Restart
  <2>2. possibleFor' \in Never .. Delay + 1 /\ timerAge' \in 0 .. Delay + 1
        /\ fadeLag' <= MaxLag + 2 * FadeDelta /\ fadeLag' \in Int /\ owed' \in Int
    BY MainLoopAssumption DEF Restart, FirstCycle, Never
  <2>3. redirected' \in BOOLEAN /\ left' \in 0 .. MaxFade /\ top' \in Top
    BY DEF Restart, FirstCycle
  <2> QED
    BY <2>1, <2>2, <2>3 DEF IInv, TypeOK, QueueBound, Restart, FirstCycle
<1>2. (ClockKept /\ FadeNoticed /\ TimerKept /\ SleepBounded)'
  BY MainLoopAssumption DEF Restart, FirstCycle, ClockKept, FadeNoticed, TimerKept, SleepBounded, Asleep
<1> QED
  BY <1>1, <1>2 DEF IInv

LEMMA InitHolds == Init => IInv
<1> SUFFICES ASSUME Init PROVE IInv
  OBVIOUS
<1>1. TypeOK /\ QueueBound
  <2>1. possibleFor \in Never .. Delay + 1 /\ timerAge \in 0 .. Delay + 1
        /\ fadeLag <= MaxLag + 2 * FadeDelta /\ fadeLag \in Int /\ owed \in Int
        /\ wire \in 0 .. MaxEvents /\ xq \in 0 .. MaxEvents /\ dbq \in 0 .. MaxEvents
        /\ wire + xq <= MaxEvents
    BY MainLoopAssumption DEF Init, Never
  <2>2. redirected \in BOOLEAN
    BY DEF Init
  <2> QED
    BY <2>1, <2>2 DEF TypeOK, QueueBound, Init
<1>2. ClockKept /\ FadeNoticed /\ TimerKept /\ SleepBounded
  BY FreshSession DEF Init
<1> QED
  BY <1>1, <1>2 DEF IInv

LEMMA StutterKeeps == ASSUME IInv, UNCHANGED vars PROVE IInv'
BY DEF IInv, TypeOK, ClockKept, FadeNoticed, TimerKept, TimeoutTolerance, SleepBounded,
  QueueBound, Asleep, vars, clockVars, timerVars, queueVars, paintVars, loopVars

LEMMA StepKeeps == IInv /\ [Next]_vars => IInv'
BY TickKeeps, ArrivalKeeps, RunTimeoutsKeeps, HandleEventKeeps, NoEventKeeps,
   ProcessDBusKeeps, ComputeTimeoutKeeps, SleepKeeps, PaintCycleKeeps,
   NextCycleKeeps, RestartKeeps, StutterKeeps
DEF Next, Thread

LEMMA Inductive == Spec => []IInv
BY InitHolds, StepKeeps, PTL DEF Spec

------------------------------------------------------------------------------
(* The types, among them the number of fade steps and the sleep of select():*)
(* neither is ever negative, whatever the clock says.                       *)
THEOREM TypesKept == Spec => []TypeOK
BY Inductive, PTL DEF IInv

(* The thread never goes to sleep on an event Xlib has read before the last *)
(* look at it, past the next fade step of a window whose fade a cycle or an *)
(* event announced, on a SIGUSR1 that came before the check of ps->reset,   *)
(* or past the unredirection timer: what it sleeps on came with a D-Bus     *)
(* request or a signal after the check.                                     *)
THEOREM NeverForgets == Spec => []NothingForgotten
<1>1. IInv => NothingForgotten
  BY DEF IInv, SleepBounded, NothingForgotten, Asleep
<1> QED
  BY <1>1, Inductive, PTL

(* However early or late the cycles come, the fade steps made are worth the *)
(* time that has passed, to within a fifth early and four fifths late.      *)
THEOREM FadesKeepPace == Spec => FadePace
<1>1. IInv /\ [Next]_vars =>
        [PaintCycle /\ fadeSet' => -FadeDelta <= 5 * owed' /\ 5 * owed' < 4 * FadeDelta]_vars
  BY PaintCyclePaces
<1> QED
  BY <1>1, Inductive, PTL DEF Spec, FadePace

(* The screen is never unredirected before every cycle of the delay, less   *)
(* the tolerance of timeout_run, has found that it could be.                *)
THEOREM UnredirWaits == Spec => UnredirDelayed
<1>1. ASSUME IInv, PaintCycle, redirected, ~redirected'
      PROVE  Delay = 0 \/ possibleFor >= Delay - TimeoutTolerance
  <2>1. Delay = 0 \/ hit
    BY <1>1 DEF PaintCycle, Redirect
  <2> QED
    BY <2>1, <1>1, ToleranceSmall, MainLoopAssumption DEF IInv, TypeOK, TimerKept, Never
<1>2. IInv /\ [Next]_vars =>
        [PaintCycle /\ redirected /\ ~redirected' =>
           Delay = 0 \/ possibleFor >= Delay - TimeoutTolerance]_vars
  BY <1>1
<1> QED
  BY <1>2, Inductive, PTL DEF Spec, UnredirDelayed

------------------------------------------------------------------------------
(* What a frame paints, and what the buffers have of it.                    *)

(* A swap method that needs no older damage keeps none.                     *)
NoneKept == cfg.method \in {0, 1} => last = Forgotten

BuffersInv == BuffersTypeOK /\ NoneKept /\ BackCovered

(* What paint_all() may rely on: the buffers h and the region d.            *)
Covered(h, d) ==
  /\ h \in [Ages -> SUBSET Area]
  /\ d \in SUBSET Area
  /\ h[1] \subseteq d
  /\ ~cfg.partial => \A n \in Ages : Known(n) => h[n] \subseteq d \cup Older(n)

------------------------------------------------------------------------------
(* Facts about ages.                                                        *)
LEMMA OneIsAnAge == 1 \in Ages /\ Ages \subseteq Int
BY MaxAgeAssumption DEF Ages

(* Older buffers are known only with the damage of the last frame.          *)
LEMMA OlderNeedsFirst ==
  ASSUME NEW n \in Ages, n # 1
  PROVE  0 \in 0 .. n - 2 /\ 0 \in 0 .. MaxAge - 1 /\ n > 1
BY MaxAgeAssumption DEF Ages

(* Nothing stale is left on the frame, whichever buffer it was painted to:  *)
(* glx_paint_pre() copies and paints all that the buffer lacks.             *)
LEMMA DrawnWhole ==
  ASSUME BuffersTypeOK, NEW h, NEW d, Covered(h, d), ~cfg.partial, NEW k \in DriverAge
  PROVE  Drawn(h, d, k) = {}
<1> DEFINE b == BufferAge(k)
           c == Content(h, k)
<1>1. c \subseteq Area /\ h[1] \subseteq d /\ d \subseteq Area
  BY OneIsAnAge DEF Covered, Content
<1>2. CASE Known(k)
  <2>1. b = k /\ k \in Ages /\ c = h[k] /\ k # 0
    BY <1>2 DEF BufferAge, Known, Content, Ages
  <2>2. c \subseteq d \cup Older(k)
    BY <1>2, <2>1 DEF Covered
  <2>3. CASE k = 1
    BY <1>1, <2>1, <2>3 DEF Drawn, Copied, Painted
  <2>4. CASE k # 1 /\ cfg.copyfront
    BY <1>1, <2>1, <2>2, <2>4 DEF Drawn, Copied, Painted
  <2>5. CASE k # 1 /\ ~cfg.copyfront
    BY <1>1, <2>1, <2>2, <2>5 DEF Drawn, Copied, Painted
  <2> QED
    BY <2>3, <2>4, <2>5
<1>3. CASE ~Known(k)
  <2>1. b = 0
    BY <1>3 DEF BufferAge
  <2>2. CASE cfg.copyfront
    BY <1>1, <2>1, <2>2 DEF Drawn, Copied, Painted
  <2>3. CASE ~cfg.copyfront
    BY <1>1, <2>1, <2>3 DEF Drawn, Copied, Painted
  <2> QED
    BY <2>2, <2>3
<1> QED
  BY <1>2, <1>3

(* The damage of the frame joins that of the frames before it.              *)
LEMMA ShiftedCovers ==
  ASSUME BuffersTypeOK, NoneKept, NEW d \in SUBSET Area, last' = Shifted(Kept(d)),
         NEW n \in Ages, n # 1, Known(n)'
  PROVE  Known(n - 1) /\ d \cup Older(n - 1) \subseteq Older(n)'
<1>1. n - 1 \in Ages /\ n > 1 /\ n \in Int /\ n <= MaxAge + 1 /\ MaxAge \in Int
  BY MaxAgeAssumption DEF Ages
<1>2. cfg.method \notin {0, 1}
  <2> SUFFICES ASSUME cfg.method \in {0, 1} PROVE FALSE
    OBVIOUS
  <2>1. last' = Forgotten
    BY DEF NoneKept, Shifted
  <2>2. 0 \in 0 .. n - 2 /\ 0 \in 0 .. MaxAge - 1
    BY <1>1
  <2>3. ~(last')[0].kept
    BY <2>1, <2>2 DEF Forgotten, None
  <2> QED
    BY <1>1, <2>2, <2>3 DEF Known
<1>3. last' = [i \in 0 .. MaxAge - 1 |-> IF i = 0 THEN Kept(d) ELSE last[i - 1]]
  BY <1>2 DEF Shifted
<1>4. ASSUME NEW i \in 0 .. n - 3
      PROVE  i + 1 \in 0 .. n - 2 /\ (last')[i + 1] = last[i]
  <2>1. i + 1 \in 0 .. n - 2 /\ i + 1 \in 0 .. MaxAge - 1 /\ i + 1 # 0 /\ (i + 1) - 1 = i
    BY <1>1
  <2> QED
    BY <1>3, <2>1
<1>5. (last')[0] = Kept(d) /\ 0 \in 0 .. n - 2
  <2>1. 0 \in 0 .. MaxAge - 1
    BY <1>1
  <2> QED
    BY <1>1, <1>3, <2>1
<1>6. Known(n - 1)
  <2>1. \A i \in 0 .. n - 2 : (last')[i].kept
    BY <1>1 DEF Known
  <2>2. \A i \in 0 .. n - 3 : last[i].kept
    BY <1>4, <2>1
  <2>3. (n - 1) - 2 = n - 3
    BY <1>1
  <2> QED
    BY <1>1, <2>2, <2>3 DEF Known
<1>7. d \subseteq Older(n)'
  BY <1>5 DEF Older, Kept
<1>8. Older(n - 1) \subseteq Older(n)'
  <2>1. (n - 1) - 2 = n - 3
    BY <1>1
  <2> SUFFICES ASSUME NEW i \in 0 .. n - 3, NEW x \in last[i].area
               PROVE  x \in Older(n)'
    BY <2>1 DEF Older
  <2>2. x \in (last')[i + 1].area /\ i + 1 \in 0 .. n - 2
    BY <1>4
  <2> QED
    BY <2>2 DEF Older
<1> QED
  BY <1>6, <1>7, <1>8

------------------------------------------------------------------------------
(* Each step keeps the types, and the damage of no frame when it need not.  *)
LEMMA ShiftedType ==
  ASSUME BuffersTypeOK, NEW r \in [kept : BOOLEAN, area : SUBSET Area]
  PROVE  Shifted(r) \in [0 .. MaxAge - 1 -> [kept : BOOLEAN, area : SUBSET Area]]
<1>1. ASSUME NEW i \in 0 .. MaxAge - 1, i # 0  PROVE  i - 1 \in 0 .. MaxAge - 1
  BY <1>1, MaxAgeAssumption
<1> QED
  BY <1>1 DEF Shifted, BuffersTypeOK

LEMMA SwappedType ==
  ASSUME NEW h \in [Ages -> SUBSET Area], NEW S \in SUBSET Area
  PROVE  Swapped(h, S) \in [Ages -> SUBSET Area]
<1>1. ASSUME NEW n \in Ages, n # 1  PROVE  n - 1 \in Ages
  BY <1>1, MaxAgeAssumption DEF Ages
<1> QED
  BY <1>1 DEF Swapped

(* A frame painted with a region leaves nothing stale on the screen, and    *)
(* the older buffers covered without any other damage.                      *)
LEMMA PaintAllWhole ==
  ASSUME BuffersTypeOK, NoneKept, NEW h, NEW d, Covered(h, d), PaintAll(h, d),
         UNCHANGED cfg
  PROVE  /\ hist' \in [Ages -> SUBSET Area]
         /\ last' \in [0 .. MaxAge - 1 -> [kept : BOOLEAN, area : SUBSET Area]]
         /\ NoneKept'
         /\ hist'[1] = {}
         /\ ~cfg.partial =>
              \A n \in Ages : Known(n)' => hist'[n] \subseteq Older(n)'
<1>1. d \in SUBSET Area /\ h \in [Ages -> SUBSET Area] /\ h[1] \subseteq d
  BY DEF Covered
<1>2. last' = Shifted(Kept(d)) /\ Kept(d) \in [kept : BOOLEAN, area : SUBSET Area]
  BY <1>1 DEF PaintAll, Kept
<1>3. last' \in [0 .. MaxAge - 1 -> [kept : BOOLEAN, area : SUBSET Area]]
  BY <1>2, ShiftedType
<1>4. NoneKept'
  BY <1>2 DEF NoneKept, Shifted
<1>5. CASE cfg.partial
  <2>1. hist' = [h EXCEPT ![1] = @ \ d]
    BY <1>5 DEF PaintAll
  <2>2. hist' \in [Ages -> SUBSET Area] /\ hist'[1] = {}
    BY <1>1, <2>1, OneIsAnAge
  <2> QED
    BY <1>3, <1>4, <1>5, <2>2
<1>6. CASE ~cfg.partial
  <2>1. PICK k \in DriverAge : hist' = Swapped(h, Drawn(h, d, k))
    BY <1>6 DEF PaintAll
  <2>2. hist' = Swapped(h, {})
    BY <1>6, <2>1, DrawnWhole
  <2>3. hist' \in [Ages -> SUBSET Area]
    BY <1>1, <2>2, SwappedType
  <2>4. hist'[1] = {}
    BY <2>2, OneIsAnAge DEF Swapped
  <2>5. ASSUME NEW n \in Ages, Known(n)'  PROVE  hist'[n] \subseteq Older(n)'
    <3>1. CASE n = 1
      BY <2>4, <3>1
    <3>2. CASE n # 1
      <4>1. Known(n - 1) /\ d \cup Older(n - 1) \subseteq Older(n)'
        BY <1>1, <1>2, <2>5, <3>2, ShiftedCovers
      <4>2. n - 1 \in Ages
        BY <4>1 DEF Known
      <4>3. h[n - 1] \subseteq d \cup Older(n - 1)
        BY <1>6, <4>1, <4>2 DEF Covered
      <4>4. hist'[n] = h[n - 1]
        BY <2>2, <3>2 DEF Swapped
      <4> QED
        BY <4>1, <4>3, <4>4
    <3> QED
      BY <3>1, <3>2
  <2> QED
    BY <1>3, <1>4, <2>3, <2>4, <2>5
<1> QED
  BY <1>5, <1>6

(* A frame painted without a region leaves nothing stale either, and the    *)
(* older buffers unknown.                                                   *)
LEMMA PaintWholeWhole ==
  ASSUME BuffersTypeOK, NoneKept, NEW h \in [Ages -> SUBSET Area], PaintWhole(h),
         UNCHANGED cfg
  PROVE  /\ hist' \in [Ages -> SUBSET Area]
         /\ last' \in [0 .. MaxAge - 1 -> [kept : BOOLEAN, area : SUBSET Area]]
         /\ NoneKept'
         /\ hist'[1] = {}
         /\ \A n \in Ages : Known(n)' => n = 1
<1>1. last' = Shifted(None) /\ None \in [kept : BOOLEAN, area : SUBSET Area]
  BY DEF PaintWhole, None
<1>2. last' \in [0 .. MaxAge - 1 -> [kept : BOOLEAN, area : SUBSET Area]]
  BY <1>1, ShiftedType
<1>3. NoneKept'
  BY <1>1 DEF NoneKept, Shifted
<1>4. hist' \in [Ages -> SUBSET Area] /\ hist'[1] = {}
  <2>1. CASE cfg.partial
    BY <2>1, OneIsAnAge DEF PaintWhole
  <2>2. CASE ~cfg.partial
    <3>1. hist' = Swapped(h, {})
      BY <2>2 DEF PaintWhole
    <3> QED
      BY <3>1, SwappedType, OneIsAnAge DEF Swapped
  <2> QED
    BY <2>1, <2>2
<1>5. ASSUME NEW n \in Ages, n # 1  PROVE  ~Known(n)'
  <2>1. 0 \in 0 .. n - 2 /\ 0 \in 0 .. MaxAge - 1 /\ n > 1
    BY <1>5, OlderNeedsFirst
  <2>2. ~(last')[0].kept
    BY <1>1, <2>1 DEF NoneKept, Shifted, Forgotten, None
  <2> QED
    BY <2>1, <2>2 DEF Known
<1> QED
  BY <1>2, <1>3, <1>4, <1>5

------------------------------------------------------------------------------
(* The invariant.                                                           *)
LEMMA InitInv == BuffersInit => BuffersInv
<1> SUFFICES ASSUME BuffersInit PROVE BuffersInv
  OBVIOUS
<1>1. BuffersTypeOK
  BY DEF BuffersInit, BuffersTypeOK, Forgotten, None, Lost
<1>2. NoneKept /\ BackCovered
  BY DEF BuffersInit, NoneKept, BackCovered
<1> QED
  BY <1>1, <1>2 DEF BuffersInv

LEMMA StartInv == ASSUME BuffersInv, Start PROVE BuffersInv'
<1> USE DEF Start
<1>1. BuffersTypeOK /\ NoneKept /\ BackCovered /\ UNCHANGED cfg
  BY DEF BuffersInv
<1>2. CASE psRedirected' = TRUE /\ damage' = Area /\ PaintWhole(hist)
  <2>1. hist \in [Ages -> SUBSET Area]
    BY <1>1 DEF BuffersTypeOK
  <2>2. /\ hist' \in [Ages -> SUBSET Area]
        /\ last' \in [0 .. MaxAge - 1 -> [kept : BOOLEAN, area : SUBSET Area]]
        /\ NoneKept'
        /\ hist'[1] = {}
        /\ \A n \in Ages : Known(n)' => n = 1
    BY <1>1, <1>2, <2>1, PaintWholeWhole
  <2>3. BuffersTypeOK'
    BY <1>1, <1>2, <2>2 DEF BuffersTypeOK
  <2>4. BackCovered'
    BY <2>2 DEF BackCovered
  <2> QED
    BY <2>2, <2>3, <2>4 DEF BuffersInv
<1>3. CASE UNCHANGED <<psRedirected, damage, last, hist>>
  BY <1>3 DEF BuffersInv, BuffersTypeOK, NoneKept, BackCovered, Known, Older
<1> QED
  BY <1>2, <1>3

(* Damage that is added covers the parts that went stale.                   *)
LEMMA DrawInv == ASSUME BuffersInv, NEW S \in SUBSET Area, Draw(S) PROVE BuffersInv'
<1> USE DEF Draw
<1>1. BuffersTypeOK /\ NoneKept /\ BackCovered
  BY DEF BuffersInv
<1>2. UNCHANGED <<cfg, started, psRedirected, last>> /\ AddDamage(S) /\ Stale(S)
  OBVIOUS
<1>3. BuffersTypeOK' /\ NoneKept'
  BY <1>1, <1>2 DEF BuffersTypeOK, NoneKept, AddDamage, Stale
<1>4. ASSUME psRedirected
      PROVE  /\ hist'[1] \subseteq damage'
             /\ ~cfg.partial =>
                  \A n \in Ages : Known(n)' => hist'[n] \subseteq damage' \cup Older(n)'
  <2>1. damage' = damage \cup S /\ \A n \in Ages : hist'[n] = hist[n] \cup S
    BY <1>2, <1>4 DEF AddDamage, Stale
  <2>2. ASSUME NEW n \in Ages  PROVE  (Known(n)' <=> Known(n)) /\ Older(n)' = Older(n)
    BY <1>2 DEF Known, Older
  <2> QED
    BY <1>1, <1>4, <2>1, <2>2, OneIsAnAge DEF BackCovered
<1> QED
  BY <1>2, <1>3, <1>4 DEF BuffersInv, BackCovered

(* Pixels the server lost: the older buffers are not trusted any more.      *)
LEMMA ExposeInv == ASSUME BuffersInv, NEW S \in SUBSET Area, Expose(S) PROVE BuffersInv'
<1> USE DEF Expose, Exposed
<1>1. BuffersTypeOK /\ BackCovered
  BY DEF BuffersInv
<1>2. UNCHANGED <<cfg, started, psRedirected>> /\ AddDamage(S) /\ Stale(S) /\ last' = Forgotten
  OBVIOUS
<1>3. BuffersTypeOK' /\ NoneKept'
  BY <1>1, <1>2 DEF BuffersTypeOK, NoneKept, AddDamage, Stale, Forgotten, None
<1>4. ASSUME psRedirected  PROVE  hist'[1] \subseteq damage'
  BY <1>1, <1>2, <1>4, OneIsAnAge DEF BackCovered, AddDamage, Stale
<1>5. ASSUME NEW n \in Ages, Known(n)'  PROVE  n = 1
  BY <1>2, <1>5, OlderNeedsFirst DEF Known, Forgotten, None
<1> QED
  BY <1>2, <1>3, <1>4, <1>5 DEF BuffersInv, BackCovered

(* A new size of the root: everything is damaged.                           *)
LEMMA RootChangeInv == ASSUME BuffersInv, RootChange PROVE BuffersInv'
<1> USE DEF RootChange
<1>1. BuffersTypeOK
  BY DEF BuffersInv
<1>2. BuffersTypeOK' /\ NoneKept'
  BY <1>1 DEF BuffersTypeOK, NoneKept, AddDamage, Lost, Forgotten, None
<1>3. psRedirected => Area \subseteq damage'
  BY DEF AddDamage
<1>4. BackCovered'
  BY <1>2, <1>3, OneIsAnAge DEF BackCovered, BuffersTypeOK
<1> QED
  BY <1>2, <1>4 DEF BuffersInv

LEMMA PaintInv == ASSUME BuffersInv, Paint PROVE BuffersInv'
<1> USE DEF Paint
<1>1. BuffersTypeOK /\ NoneKept /\ BackCovered /\ UNCHANGED <<cfg, started, psRedirected>>
  BY DEF BuffersInv
<1>2. Covered(hist, damage)
  BY <1>1 DEF Covered, BuffersTypeOK, BackCovered
<1>3. /\ hist' \in [Ages -> SUBSET Area]
      /\ last' \in [0 .. MaxAge - 1 -> [kept : BOOLEAN, area : SUBSET Area]]
      /\ NoneKept'
      /\ hist'[1] = {}
      /\ ~cfg.partial =>
           \A n \in Ages : Known(n)' => hist'[n] \subseteq Older(n)'
  BY <1>1, <1>2, PaintAllWhole
<1>4. BuffersTypeOK'
  BY <1>1, <1>3 DEF BuffersTypeOK
<1>5. BackCovered'
  BY <1>1, <1>3 DEF BackCovered
<1> QED
  BY <1>3, <1>4, <1>5 DEF BuffersInv

LEMMA RedirectInv == ASSUME BuffersInv, RedirectAgain PROVE BuffersInv' /\ hist'[1] = {}
<1> USE DEF RedirectAgain
<1>1. BuffersTypeOK /\ NoneKept /\ UNCHANGED <<cfg, started>>
  BY DEF BuffersInv
<1>2. Covered(Lost, Area)
  BY OneIsAnAge DEF Covered, Lost
<1>3. /\ hist' \in [Ages -> SUBSET Area]
      /\ last' \in [0 .. MaxAge - 1 -> [kept : BOOLEAN, area : SUBSET Area]]
      /\ NoneKept'
      /\ hist'[1] = {}
      /\ ~cfg.partial =>
           \A n \in Ages : Known(n)' => hist'[n] \subseteq Older(n)'
  BY <1>1, <1>2, PaintAllWhole
<1>4. BuffersTypeOK'
  BY <1>1, <1>3 DEF BuffersTypeOK
<1>5. BackCovered'
  BY <1>1, <1>3 DEF BackCovered
<1> QED
  BY <1>3, <1>4, <1>5 DEF BuffersInv

LEMMA UnredirectInv == ASSUME BuffersInv, Unredirect PROVE BuffersInv'
BY DEF Unredirect, BuffersInv, BuffersTypeOK, NoneKept, BackCovered

LEMMA NextInv == ASSUME BuffersInv, [BuffersNext]_buffersVars PROVE BuffersInv'
<1>1. CASE UNCHANGED buffersVars
  BY <1>1 DEF buffersVars, BuffersInv, BuffersTypeOK, NoneKept, BackCovered, Known, Older
<1>2. CASE BuffersNext
  <2>1. CASE \E S \in SUBSET Area : Draw(S) \/ Expose(S)
    BY <2>1, DrawInv, ExposeInv
  <2>2. CASE Start \/ Paint \/ RedirectAgain \/ Unredirect \/ RootChange
    BY <2>2, StartInv, PaintInv, RedirectInv, UnredirectInv, RootChangeInv
  <2> QED
    BY <1>2, <2>1, <2>2 DEF BuffersNext
<1> QED
  BY <1>1, <1>2

LEMMA BuffersInductive == BuffersSpec => []BuffersInv
<1>1. BuffersInv /\ [BuffersNext]_buffersVars => BuffersInv'
  BY NextInv
<1> QED
  BY InitInv, <1>1, PTL DEF BuffersSpec

(* The variables keep their types, and no damage is added up while the      *)
(* screen is not redirected.                                                *)
THEOREM BuffersTypesKept == BuffersSpec => []BuffersTypeOK
<1>1. BuffersInv => BuffersTypeOK
  BY DEF BuffersInv
<1> QED
  BY BuffersInductive, <1>1, PTL

(* What is stale is damaged, or in the damage kept for the older buffers:   *)
(* glx_paint_pre() always knows enough.                                     *)
THEOREM AlwaysCovered == BuffersSpec => []BackCovered
<1>1. BuffersInv => BackCovered
  BY DEF BuffersInv
<1> QED
  BY BuffersInductive, <1>1, PTL

------------------------------------------------------------------------------
(* Each step maps to a step of Screen or changes nothing there.             *)
LEMMA StepMaps ==
  ASSUME BuffersInv, [BuffersNext]_buffersVars
  PROVE  [Abstract!Next]_(IF psRedirected THEN hist[1] ELSE {})
<1> DEFINE seen == IF psRedirected THEN hist[1] ELSE {}
<1>1. BuffersTypeOK /\ NoneKept /\ BackCovered
  BY DEF BuffersInv
<1>2. BuffersInv'
  BY NextInv
<1>3. seen \in SUBSET Area /\ seen' \in SUBSET Area
  BY <1>1, <1>2, OneIsAnAge DEF BuffersInv, BuffersTypeOK
<1>4. SUFFICES seen \subseteq seen' \/ seen' = {}
  <2>1. ASSUME seen \subseteq seen'  PROVE  Abstract!Change(seen')
    BY <2>1 DEF Abstract!Change
  <2>2. ASSUME seen' = {}, seen # {}  PROVE  Abstract!Show
    BY <2>2 DEF Abstract!Show
  <2> QED
    BY <1>3, <2>1, <2>2 DEF Abstract!Next
<1>5. CASE UNCHANGED buffersVars
  BY <1>5 DEF buffersVars
<1>6. CASE Start
  <2>1. CASE PaintWhole(hist)
    BY <1>1, <1>6, <2>1, PaintWholeWhole DEF Start, BuffersTypeOK
  <2> QED
    BY <1>6, <2>1 DEF Start
<1>7. CASE Paint
  <2>1. Covered(hist, damage)
    BY <1>1, <1>7 DEF Covered, BuffersTypeOK, BackCovered, Paint
  <2> QED
    BY <1>1, <1>7, <2>1, PaintAllWhole DEF Paint
<1>8. CASE RedirectAgain
  BY <1>8, RedirectInv
<1>9. CASE Unredirect
  BY <1>9 DEF Unredirect
<1>10. CASE RootChange
  BY <1>1, <1>10, OneIsAnAge DEF RootChange, Lost, BuffersTypeOK
<1>11. CASE \E S \in SUBSET Area : Draw(S) \/ Expose(S)
  BY <1>1, <1>11, OneIsAnAge DEF Draw, Expose, Stale, BuffersTypeOK
<1> QED
  BY <1>5, <1>6, <1>7, <1>8, <1>9, <1>10, <1>11 DEF BuffersNext

(* The safety part of Screen: the screen goes stale by changes only, and a  *)
(* frame leaves nothing stale on it, however little of it was painted.      *)
THEOREM ShownWhole == BuffersSpec => Abstract!Safety
<1>1. BuffersInit => Abstract!Init
  BY DEF BuffersInit, Abstract!Init
<1>2. BuffersInv /\ [BuffersNext]_buffersVars => [Abstract!Next]_(IF psRedirected THEN hist[1] ELSE {})
  BY StepMaps
<1> QED
  BY <1>1, <1>2, BuffersInductive, PTL DEF BuffersSpec, Abstract!Safety
==============================================================================
