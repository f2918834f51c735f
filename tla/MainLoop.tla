------------------------------- MODULE MainLoop -------------------------------
(****************************************************************************)
(* compton's main loop: the timeouts, the events, the D-Bus messages, the   *)
(* sleep in select(), and what a paint cycle decides from the clock, the    *)
(* fade steps to make and whether the screen stays redirected.              *)
(*                                                                          *)
(* Time is kept as distances from the present, in milliseconds: fadeLag is  *)
(* the clock minus ps->fade_time, timerAge the clock minus the firstrun of  *)
(* ps->tmout_unredir.  The clock goes only forward.  An X event is on the   *)
(* wire until Xlib reads it and in Xlib's own queue until mainloop handles  *)
(* it; select() sees only the wire.                                         *)
(****************************************************************************)
EXTENDS Integers

CONSTANTS
  FadeDelta,   \* ps->o.fade_delta
  Delay,       \* ps->o.unredir_if_possible_delay
  MaxFade,     \* bound: fade steps a window has to go
  MaxLag,      \* bound: milliseconds the thread falls behind the fade clock
  MaxEvents    \* bound: events and messages not handled

ASSUME MainLoopAssumption ==
  /\ FadeDelta \in Nat \ {0}
  /\ Delay \in Nat
  /\ MaxFade \in Nat \ {0}
  /\ MaxLag \in Nat /\ MaxLag > FadeDelta
  /\ MaxEvents \in Nat \ {0}

VARIABLES
  pc,          \* where the thread is
  evReceived,  \* ps->ev_received
  idling,      \* ps->idling
  reset,       \* ps->reset
  fadeSet,     \* ps->fade_time is not 0
  fadeLag,     \* the clock minus ps->fade_time
  timerOn,     \* ps->tmout_unredir->enabled
  timerAge,    \* the clock minus ps->tmout_unredir->firstrun
  hit,         \* ps->tmout_unredir_hit
  redirected,  \* ps->redirected
  wait,        \* select: milliseconds until it times out
  wire,        \* X events on the connection
  xq,          \* X events in Xlib's queue
  dbq,         \* D-Bus messages on the connection
  left,        \* fade steps the windows have to go
  top,         \* what paint_preprocess will find as the highest window
  owed,        \* history: time since the fade clock started no step has used
  possibleFor, \* history: time since the first of the latest cycles that all
               \* found it possible to unredirect, Never if the last did not
  late         \* history: what came after the thread last looked for it

clockVars == <<fadeSet, fadeLag, owed>>
timerVars == <<timerOn, timerAge, hit, possibleFor>>
queueVars == <<wire, xq, dbq>>
paintVars == <<left, top, redirected>>
loopVars == <<pc, wait, evReceived, idling, reset>>
vars == <<clockVars, timerVars, queueVars, paintVars, loopVars, late>>

Forever == -1   \* select() with no timeout
Never == -1

(* The highest painted window is solid and fills the screen, or it is not,  *)
(* or no window is painted.                                                 *)
Top == {"fullscreen", "other", "none"}

(* What can come too late: X events that the handling of a D-Bus request    *)
(* read, a fade that a request began, SIGUSR1.                              *)
Belated == {"events", "fade", "reset"}

Earlier(a, b) == IF a < b THEN a ELSE b
Later(a, b) == IF a > b THEN a ELSE b
Clamp(n, lo, hi) == Later(lo, Earlier(n, hi))

TypeOK ==
  /\ pc \in {"head", "run", "events", "dbus", "timeout", "select", "blocked", "paint"}
  /\ evReceived \in BOOLEAN /\ idling \in BOOLEAN /\ reset \in BOOLEAN
  /\ fadeSet \in BOOLEAN /\ fadeLag \in Int /\ fadeLag <= MaxLag + 2 * FadeDelta
  /\ timerOn \in BOOLEAN /\ timerAge \in 0 .. Delay + 1
  /\ hit \in BOOLEAN /\ redirected \in BOOLEAN
  /\ wait \in Nat \cup {Forever}
  /\ wire \in 0 .. MaxEvents /\ xq \in 0 .. MaxEvents /\ dbq \in 0 .. MaxEvents
  /\ left \in 0 .. MaxFade
  /\ top \in Top
  /\ owed \in Int /\ possibleFor \in Never .. Delay + 1
  /\ late \subseteq Belated

------------------------------------------------------------------------------
(* The clock and what the code computes from it.                            *)

(* Time passes whatever the thread does; select() counts its timeout.       *)
Tick ==
  /\ fadeSet => fadeLag < MaxLag \/ (pc = "blocked" /\ wait > 0)
  /\ IF fadeSet THEN fadeLag' = fadeLag + 1 /\ owed' = owed + 1
     ELSE UNCHANGED <<fadeLag, owed>>
  /\ timerAge' = IF timerOn THEN Earlier(timerAge + 1, Delay + 1) ELSE timerAge
  /\ possibleFor' = IF possibleFor = Never THEN Never ELSE Earlier(possibleFor + 1, Delay + 1)
  /\ wait' = IF pc = "blocked" /\ wait > 0 THEN wait - 1 ELSE wait
  /\ UNCHANGED <<pc, evReceived, idling, reset, fadeSet, timerOn, hit, queueVars, paintVars,
                 late>>

(* paint_preprocess: the fade steps of this cycle.  FADE_DELTA_TOLERANCE is *)
(* a fifth of fade_delta, so a step may come that much early.               *)
FadeSteps ==
  IF fadeSet THEN (5 * fadeLag + FadeDelta) \div (5 * FadeDelta) ELSE 0

(* Mutant of FadeTimeout: the time left is not clamped.                      *)
FadeTimeoutRaw == FadeDelta - fadeLag

(* fade_timeout.                                                            *)
FadeTimeout == Clamp(FadeDelta - fadeLag, 0, 2 * FadeDelta)

(* timeout_get_newrun, for a timeout whose lastrun is its firstrun: the     *)
(* distance from firstrun.                                                  *)
TimeoutNewrun ==
  (Later((Delay \div 20) \div Delay, ((19 * Delay) \div 20) \div Delay) + 1) * Delay
TimeoutTolerance == Delay \div 20

------------------------------------------------------------------------------
(* X events, D-Bus messages and SIGUSR1 arrive at any time.                 *)

XEvent ==
  /\ wire + xq < MaxEvents
  /\ wire' = wire + 1
  /\ UNCHANGED <<clockVars, timerVars, xq, dbq, paintVars, loopVars, late>>

DBusMessage ==
  /\ dbq < MaxEvents
  /\ dbq' = dbq + 1
  /\ UNCHANGED <<clockVars, timerVars, wire, xq, paintVars, loopVars, late>>

(* reset_enable; a select() in progress returns with EINTR, one that has    *)
(* not begun does not.                                                      *)
Sigusr1 ==
  /\ ~reset
  /\ reset' = TRUE
  /\ late' = IF pc = "select" THEN late \cup {"reset"} ELSE late
  /\ pc' = IF pc = "blocked" THEN "run" ELSE pc
  /\ wait' = IF pc = "blocked" THEN Forever ELSE wait
  /\ UNCHANGED <<clockVars, timerVars, queueVars, paintVars, evReceived, idling>>

------------------------------------------------------------------------------
(* mainloop.                                                                *)

(* timeout_run and tmout_unredir_callback.                                  *)
RunTimeouts ==
  /\ pc = "run"
  /\ pc' = "events"
  /\ IF timerOn /\ TimeoutNewrun <= timerAge + TimeoutTolerance
     THEN hit' = TRUE /\ timerOn' = FALSE /\ timerAge' = 0
     ELSE UNCHANGED <<hit, timerOn, timerAge>>
  /\ UNCHANGED <<clockVars, possibleFor, queueVars, paintVars, wait, evReceived, idling, reset,
                 late>>

(* What a handler may lead to: some window has to fade, the highest window  *)
(* is another one.                                                          *)
Changed ==
  /\ left' \in 0 .. MaxFade
  /\ top' \in Top
  /\ UNCHANGED redirected

(* XNextEvent reads the wire only if Xlib's queue is empty, but the handler *)
(* may wait for an answer of the server.  Running the old fade callback of  *)
(* a window clears idling.                                                  *)
HandleEvent ==
  /\ pc = "events"
  /\ wire + xq > 0
  /\ \E read \in IF xq = 0 THEN {wire} ELSE {0, wire} :
       xq' = xq + read - 1 /\ wire' = wire - read
  /\ evReceived' = TRUE
  /\ idling' \in {idling, FALSE}
  /\ Changed
  /\ pc' = "run"
  /\ UNCHANGED <<clockVars, timerVars, dbq, wait, reset, late>>

NoEvent ==
  /\ pc = "events"
  /\ wire + xq = 0
  /\ pc' = "dbus"
  /\ late' = late \ {"events"}
  /\ UNCHANGED <<clockVars, timerVars, queueVars, paintVars, wait, evReceived, idling, reset>>

(* A request that waits for an answer of the server reads the wire.         *)
RequestReads ==
  \E read \in {0, wire} :
    /\ xq' = xq + read /\ wire' = wire - read
    /\ late' = IF read > 0 THEN late \cup {"events"} ELSE late

(* cdbus_loop pops every message.  What they do: ask something; change      *)
(* something and set ev_received, which may match conditions on properties  *)
(* of windows; reset compton; set another vsync method, which may ask the   *)
(* server for a GLX context; or turn track_focus on: then recheck_focus     *)
(* asks for the focus and may give a window another opacity.  After the     *)
(* last two nobody sets ev_received.                                        *)
ProcessDBus ==
  /\ pc = "dbus"
  /\ dbq' = 0
  /\ pc' = "timeout"
  /\ \/ UNCHANGED <<wire, xq, paintVars, evReceived, reset, late>>
     \/ /\ dbq > 0
        /\ evReceived' = TRUE
        /\ RequestReads
        /\ Changed
        /\ UNCHANGED reset
     \/ /\ dbq > 0
        /\ reset' = TRUE
        /\ UNCHANGED <<wire, xq, paintVars, evReceived, late>>
     \/ /\ dbq > 0
        /\ RequestReads
        /\ UNCHANGED <<paintVars, evReceived, reset>>
     \/ /\ dbq > 0
        /\ xq' = wire + xq /\ wire' = 0
        /\ late' = late \cup {"fade"} \cup (IF wire > 0 THEN {"events"} ELSE {})
        /\ Changed
        /\ UNCHANGED <<evReceived, reset>>
  /\ UNCHANGED <<clockVars, timerVars, wait, idling>>

(* Mutant of PaintWait: the idle loop does not look at ev_received.          *)
PaintWaitIdle ==
  IF idling THEN Forever ELSE IF evReceived THEN 0 ELSE FadeTimeout

(* The milliseconds until the next paint cycle is due.                      *)
PaintWait ==
  IF evReceived THEN 0 ELSE IF idling THEN Forever ELSE FadeTimeout

(* timeout_get_poll_time.                                                   *)
PollTime == IF timerOn THEN Later(TimeoutNewrun - timerAge, 0) ELSE Forever

(* How long mainloop lets select() sleep; 0: paint at once.                 *)
SelectTimeout ==
  IF PaintWait = Forever THEN PollTime
  ELSE IF PollTime = Forever THEN PaintWait
  ELSE Earlier(PaintWait, PollTime)

ComputeTimeout ==
  /\ pc = "timeout"
  /\ pc' = IF reset \/ SelectTimeout = 0 THEN "paint" ELSE "select"
  /\ wait' = IF reset \/ SelectTimeout = 0 THEN Forever ELSE SelectTimeout
  /\ late' = late \ {"reset"}
  /\ UNCHANGED <<clockVars, timerVars, queueVars, paintVars, evReceived, idling, reset>>

(* fds_poll.  A signal before it does not wake it up.                       *)
Block ==
  /\ pc = "select"
  /\ pc' = "blocked"
  /\ UNCHANGED <<clockVars, timerVars, queueVars, paintVars, wait, evReceived, idling, reset,
                 late>>

Wake ==
  /\ pc = "blocked"
  /\ wire > 0 \/ dbq > 0 \/ wait = 0
  /\ pc' = "run"
  /\ wait' = Forever
  /\ UNCHANGED <<clockVars, timerVars, queueVars, paintVars, evReceived, idling, reset, late>>

------------------------------------------------------------------------------
(* session_run: paint_preprocess, the rest of the cycle, and the head of    *)
(* the loop over cycles.                                                    *)

(* Mutant of FadeClock: fade_time is set to the clock, so the part of a      *)
(* step that has passed already is forgotten.                               *)
FadeClockNow(n) == 0

(* fade_time moves by whole steps; unset, it is set to the clock.           *)
FadeClock(n) == IF fadeSet THEN fadeLag - n * FadeDelta ELSE 0

(* Is it possible to unredirect, if h is the highest window?                *)
UnredirPossible(h) == h = "fullscreen" \/ (h = "none" /\ ~redirected)

(* Mutant of HitAfter: the flag survives a cycle in which the screen has to  *)
(* stay redirected.                                                         *)
HitKept(h) == hit /\ ~UnredirPossible(h)

(* session_run clears tmout_unredir_hit after every paint_preprocess.       *)
HitAfter(h) == FALSE

(* The end of paint_preprocess; timeout_reset precedes every enabling.      *)
Redirect(h) ==
  \/ /\ UnredirPossible(h) /\ redirected
     /\ Delay = 0 \/ hit
     /\ redirected' = FALSE
     /\ UNCHANGED <<timerOn, timerAge>>
  \/ /\ UnredirPossible(h) /\ redirected
     /\ Delay > 0 /\ ~hit
     /\ timerOn' = TRUE
     /\ timerAge' = IF timerOn THEN timerAge ELSE 0
     /\ UNCHANGED redirected
  \/ /\ UnredirPossible(h) /\ ~redirected
     /\ UNCHANGED <<redirected, timerOn, timerAge>>
  \/ /\ ~UnredirPossible(h)
     /\ timerOn' = FALSE /\ timerAge' = 0
     /\ redirected' = TRUE

(* Mutant of IdleAfter: run_fade does not clear idling.                      *)
IdleWhileFading(n, called) == ~called

(* After n more fade steps: idling stays set unless a window is still       *)
(* fading or a fade callback was called.                                    *)
IdleAfter(n, called) == left <= n /\ ~called

(* A cycle.  The end of a fade may bring another window to the top.  It     *)
(* reads the wire whenever it waits for an answer of the server.            *)
PaintCycle ==
  /\ pc = "paint"
  /\ left' = Later(left - FadeSteps, 0)
  /\ \E called \in BOOLEAN : idling' = IdleAfter(FadeSteps, called)
  /\ fadeSet' = ~idling'
  /\ fadeLag' = IF idling' THEN 0 ELSE FadeClock(FadeSteps)
  /\ owed' = IF idling' \/ ~fadeSet THEN 0 ELSE owed - FadeSteps * FadeDelta
  /\ top' \in IF left = 0 THEN {top} ELSE Top
  /\ Redirect(top')
  /\ hit' = HitAfter(top')
  /\ possibleFor' = IF UnredirPossible(top') /\ redirected'
                    THEN Later(possibleFor, 0) ELSE Never
  /\ \E read \in {0, wire} : xq' = xq + read /\ wire' = wire - read
  /\ pc' = "head"
  /\ late' = late \ {"fade"}
  /\ UNCHANGED <<dbq, wait, evReceived, reset>>

NextCycle ==
  /\ pc = "head" /\ ~reset
  /\ pc' = "run"
  /\ evReceived' = FALSE
  /\ UNCHANGED <<clockVars, timerVars, queueVars, paintVars, wait, idling, reset, late>>

(* A session after its first paint_preprocess, which starts the fade clock. *)
FirstCycle ==
  /\ pc' = "head" /\ evReceived' = FALSE /\ idling' = FALSE /\ reset' = FALSE
  /\ fadeSet' = TRUE /\ fadeLag' = 0 /\ owed' = 0
  /\ timerOn' = FALSE /\ timerAge' = 0 /\ hit' = FALSE /\ possibleFor' = Never
  /\ left' \in 0 .. MaxFade
  /\ top' \in Top
  /\ redirected' = (top' = "other")
  /\ wait' = Forever /\ late' = {}

(* main: session_destroy, then session_init on the same connection.         *)
Restart ==
  /\ pc = "head" /\ reset
  /\ FirstCycle
  /\ xq' = xq + wire /\ wire' = 0
  /\ UNCHANGED dbq

Init ==
  /\ pc = "head" /\ evReceived = FALSE /\ idling = FALSE /\ reset = FALSE
  /\ fadeSet = TRUE /\ fadeLag = 0 /\ owed = 0
  /\ timerOn = FALSE /\ timerAge = 0 /\ hit = FALSE /\ possibleFor = Never
  /\ left \in 0 .. MaxFade
  /\ top \in Top
  /\ redirected = (top = "other")
  /\ wait = Forever /\ late = {}
  /\ wire = 0 /\ xq = 0 /\ dbq = 0

Thread ==
  \/ RunTimeouts \/ HandleEvent \/ NoEvent \/ ProcessDBus
  \/ ComputeTimeout \/ Block \/ Wake
  \/ PaintCycle \/ NextCycle \/ Restart

Next == Tick \/ XEvent \/ DBusMessage \/ Sigusr1 \/ Thread

Spec == Init /\ [][Next]_vars

(* The thread is scheduled and time goes on; nothing is assumed of events,  *)
(* messages and signals.                                                    *)
FairSpec == Spec /\ WF_vars(Thread) /\ WF_vars(Tick)

------------------------------------------------------------------------------
(* The fade clock does not drift: however late or early the cycles come,    *)
(* the steps made since it started are worth the time that has passed, less *)
(* than a step behind and at most the tolerance ahead.                      *)
FadePace ==
  [][PaintCycle /\ fadeSet' =>
       -FadeDelta <= 5 * owed' /\ 5 * owed' < 4 * FadeDelta]_vars

(* mainloop goes to sleep on work only if the work came after it had looked *)
(* for it in this very turn.  An event in Xlib's queue, where select() does *)
(* not see it, was read for a D-Bus request; the sleep ends at the next     *)
(* fade step if a window is fading, unless a request began the fade and no  *)
(* cycle followed; SIGUSR1 came between the check of ps->reset and          *)
(* select().  The unredirection timer is never slept through.               *)
NothingForgotten ==
  pc = "blocked" =>
    /\ xq > 0 => "events" \in late
    /\ left > 0 => "fade" \in late \/ (wait # Forever /\ 5 * wait <= 6 * FadeDelta)
    /\ reset => "reset" \in late
    /\ timerOn => wait # Forever /\ wait <= Delay

(* The screen is unredirected only after every cycle for                    *)
(* unredir_if_possible_delay, up to the tolerance of timeout_run, found     *)
(* that it could be.                                                        *)
UnredirDelayed ==
  [][PaintCycle /\ redirected /\ ~redirected' =>
       Delay = 0 \/ possibleFor >= Delay - TimeoutTolerance]_vars

(* No event or message comes any more.  As long as events come faster than *)
(* they are handled, mainloop handles them and paints nothing.              *)
Quiet == <>[](wire + xq + dbq = 0)

(* No change a late request made waits for a cycle for ever.                *)
Heeded == []<>("fade" \notin late)

(* When the events and messages cease, a fade comes to its end without one, *)
(* but for one that a request began too late.                               *)
FadesEnd == Quiet /\ Heeded /\ <>[]~reset => <>(left = 0)

(* "Delay before unredirecting the window": when a full-screen window stays *)
(* on top, the screen is unredirected in the end.                           *)
UnredirHappens == Quiet /\ Heeded /\ <>[](top = "fullscreen" /\ ~reset) => <>~redirected

(* "compton reinitializes itself upon receiving SIGUSR1".                   *)
ResetHappens == Quiet => (reset ~> ~reset)
==============================================================================
