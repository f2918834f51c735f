--------------------------------- MODULE DBus ---------------------------------
(****************************************************************************)
(* The D-Bus interface and what its requests do to the main loop.           *)
(*                                                                          *)
(* Messages wait on the socket, where select() sees them, or in the queue   *)
(* of libdbus, where it does not; sending anything flushes the connection,  *)
(* which may read.  What a message is shows when it is processed.  libdbus  *)
(* tells compton which descriptors to watch and which timeouts to run, also *)
(* while compton walks over its timeouts.                                   *)
(* Requests change options that the loop and the paint cycle depend on.     *)
(****************************************************************************)
EXTENDS Integers, SequencesExt

CONSTANTS
  Timeout,     \* timeouts libdbus may add
  Requests,    \* the requests that may be sent: a set of Request
  Delays,      \* values of unredir_if_possible_delay
  GLXBackend,  \* ps->o.backend is BKEND_GLX
  MaxWaiting   \* bound: messages on the socket and in the queue of libdbus

VARIABLES
  pc,          \* where the thread is
  wire, inq,   \* the numbers of messages on the socket and in libdbus's queue
  connected,   \* the bus has not closed the connection
  fds,         \* pfds_read and pfds_write: libdbus's enabled watches
  tmouts,      \* ps->tmout_lst
  enabled,     \* the timeouts that are enabled
  cur,         \* timeout_run: the timeout to look at next
  opts,        \* the options requests change
  vsync,       \* the GLX context and what the vsync methods have of it
  session,     \* ev_received, reset, all_damage, redirected, tmout_unredir_hit
  delay,       \* unredir_if_possible_delay
  answered,    \* history: the message just processed and the replies to it
  screen       \* history: "current", "stale" or, damage thrown away, "dropped"

loopVars == <<pc, session, screen>>
messageVars == <<wire, inq, connected, answered>>
watchVars == <<fds>>
timeoutVars == <<tmouts, enabled, cur>>
optionVars == <<opts, vsync, delay>>
vars == <<loopVars, messageVars, watchVars, timeoutVars, optionVars>>

Null == "null"
Unredir == "unredir"     \* ps->tmout_unredir

(* The numbers of the C types: a switch_t and an index in VSYNC_STRS.       *)
OFF == 0
ON == 1
UNSET == 2
VSYNC_NONE == 0
VSYNC_DRM == 1
VSYNC_OPENGL == 2
VSYNC_SWC == 4
BadVsync == 9     \* a string that is no method
VSync == {VSYNC_NONE, VSYNC_DRM, VSYNC_OPENGL, VSYNC_SWC}
GLXMethod == {VSYNC_OPENGL, VSYNC_SWC}     \* those of a GLX context

Target == {"fade_delta", "unredir_if_possible", "vsync", "redirected_force",
           "stoppaint_force"}

(* A message: a method call or a signal, what is wrong with it if anything, *)
(* and for opts_set the option and its new value.  GetMachineId fails as    *)
(* with bad arguments, and a Ping is a list_win; unredir_if_possible stands *)
(* for no_fading_openclose too, fade_delta for the steps of fades, a        *)
(* request to repaint for a change of clear_shadow, opengl for opengl-oml,  *)
(* and opengl-swc for opengl-mswc.                                          *)
Fault == {"none", "arguments", "window", "target", "value"}
Request ==
  [method : {"reset", "repaint", "list_win", "win_get", "win_set", "find_win",
             "opts_get", "opts_set", "introspect", "unknown", "signal"},
   fault : Fault, noreply : BOOLEAN, target : Target \cup {Null}, value : Int]

ASSUME DBusAssumption ==
  /\ Null \notin Timeout /\ Unredir \notin Timeout
  /\ Requests \subseteq Request
  /\ \A m \in Requests :
       m.target = "vsync" => m.value \in VSync \cup {BadVsync}
  /\ Delays \subseteq Nat /\ GLXBackend \in BOOLEAN
  /\ MaxWaiting \in Nat \ {0}

------------------------------------------------------------------------------
(* Replies.                                                                 *)

(* Mutant of Handled: an unknown target is answered and reported as failed.  *)
HandledNotTarget(m) == m.fault \notin {"arguments", "value", "target"}

(* What cdbus_process_* returns: whether the request could be processed.    *)
Handled(m) == m.fault \notin {"arguments", "value"}

(* A request to set something is answered only if a reply is wanted; one to *)
(* get something always is, and so is one for an unknown window or target,  *)
(* or a vsync method that does not work.                                    *)
OnRequest(m, works) ==
  \/ m.method \in {"reset", "repaint", "unknown"}
  \/ m.method \in {"win_set", "opts_set"} /\ m.fault = "none" /\ works
Replies(m, works) ==
  CASE m.method = "signal" -> 0
    [] OTHER -> LET own == IF m.fault \in {"arguments", "value"} \/ (OnRequest(m, works) /\ m.noreply)
                           THEN 0 ELSE 1
                    unknown == IF Handled(m) \/ m.noreply THEN 0 ELSE 1
                IN  own + unknown

------------------------------------------------------------------------------
(* Watches.                                                                 *)

FdsInsert(w) == fds \cup {w}
FdsDrop(w) == fds \ {w}

(* cdbus_callback_watch_toggled; it is add_watch or remove_watch.           *)
WatchToggled(w, on) == IF on THEN FdsInsert(w) ELSE FdsDrop(w)

(* While it reads and writes libdbus disables or enables the write watch;   *)
(* it removes both when the bus closes the connection.                      *)
ToggleWatch ==
  /\ pc = "dbus" /\ connected
  /\ \E on \in BOOLEAN : fds' = WatchToggled("write", on)
  /\ UNCHANGED <<loopVars, messageVars, timeoutVars, optionVars>>

Disconnect ==
  /\ pc = "dbus" /\ connected
  /\ connected' = FALSE /\ wire' = 0
  /\ fds' = FdsDrop("read") \ {"write"}
  /\ UNCHANGED <<loopVars, inq, answered, timeoutVars, optionVars>>

------------------------------------------------------------------------------
(* Timeouts.                                                                *)

(* timeout_insert and timeout_drop, which finds the timeout by walking the  *)
(* list.                                                                    *)
Position(l, x) == CHOOSE i \in DOMAIN l : l[i] = x
Inserted(l, x) == <<x>> \o l
Dropped(l, x) == RemoveAt(l, Position(l, x))
NextOf(l, x) == IF Position(l, x) = Len(l) THEN Null ELSE l[Position(l, x) + 1]
HeadOf(l) == IF l = <<>> THEN Null ELSE l[1]

(* Mutant of NextTimeout: the callback comes first.                          *)
NextTimeoutAfter(before, after, x) == IF x \in ToSet(after) THEN NextOf(after, x) ELSE x

(* timeout_run takes the next timeout before it runs the callback.          *)
NextTimeout(before, after, x) == NextOf(before, x)

(* One turn of timeout_run.  The timeout may be due: tmout_unredir_callback *)
(* disables its own, dbus_timeout_handle may make libdbus remove it, and    *)
(* add or toggle others.                                                    *)
Runs(x, after, on, hit) ==
  /\ tmouts' = after /\ enabled' = on
  /\ cur' = NextTimeout(tmouts, after, x)
  /\ session' = [session EXCEPT !.hit = hit]

RunTimeout ==
  /\ pc = "timeouts" /\ cur # Null
  /\ \/ Runs(cur, tmouts, enabled, session.hit)
     \/ cur = Unredir /\ Unredir \in enabled
        /\ Runs(cur, tmouts, enabled \ {Unredir}, TRUE)
     \/ /\ cur \in Timeout \cap enabled
        /\ \E removed \in BOOLEAN :
             LET kept == IF removed THEN Dropped(tmouts, cur) ELSE tmouts
                 on == IF removed THEN enabled \ {cur} ELSE enabled
             IN  \/ Runs(cur, kept, on, session.hit)
                 \/ \E new \in Timeout \ ToSet(tmouts) :
                      Runs(cur, Inserted(kept, new), on \cup {new}, session.hit)
  /\ UNCHANGED <<pc, screen, messageVars, watchVars, optionVars>>

TimeoutsRun ==
  /\ pc = "timeouts" /\ cur = Null /\ pc' = "events"
  /\ UNCHANGED <<session, screen, messageVars, watchVars, timeoutVars, optionVars>>

(* libdbus adds, removes and toggles timeouts as it handles messages.       *)
ChangeTimeout ==
  /\ pc = "dbus" /\ connected
  /\ \E x \in Timeout :
       \/ x \notin ToSet(tmouts) /\ tmouts' = Inserted(tmouts, x) /\ enabled' = enabled \cup {x}
       \/ x \in ToSet(tmouts) /\ tmouts' = Dropped(tmouts, x) /\ enabled' = enabled \ {x}
       \/ /\ x \in ToSet(tmouts) /\ UNCHANGED tmouts
          /\ enabled' = IF x \in enabled THEN enabled \ {x} ELSE enabled \cup {x}
  /\ UNCHANGED <<loopVars, messageVars, watchVars, cur, optionVars>>

------------------------------------------------------------------------------
(* Requests.                                                                *)

(* Mutant of ForceRepaint: no damage is added.                               *)
ForceRepaintNoDamage(s) == [s EXCEPT !.ev = TRUE]

ForceRepaint(s) == [s EXCEPT !.ev = TRUE, !.damage = TRUE]
EvReceived(s) == [s EXCEPT !.ev = TRUE]

(* What is on a redirected screen becomes out of date.                      *)
Outdated == IF session.redirected /\ screen = "current" THEN "stale" ELSE screen

(* Mutant of FadeDelta: any number is accepted.                              *)
FadeDeltaRaw(n) == n

FadeDelta(n) == IF n > 1 THEN n ELSE 1

(* Mutant of RedirectedForce: without force_repaint.                         *)
RedirectedForceQuietly(s) == s

RedirectedForce(s) == ForceRepaint(s)

(* The session after an option was set, and the options.                    *)
SessionSet(m, s) ==
  CASE m.target = "unredir_if_possible" /\ opts[m.target] # m.value -> EvReceived(s)
    [] m.target = "redirected_force" -> RedirectedForce(s)
    [] OTHER -> s
OptionSet(m) ==
  [opts EXCEPT ![m.target] = IF m.target = "fade_delta" THEN FadeDelta(m.value) ELSE m.value]

(* vsync_deinit: only the swap interval is undone.                          *)
VSyncOff == [vsync EXCEPT !.interval = @ /\ opts.vsync # VSYNC_SWC]

(* vsync_*_init.  The methods of GLX make a context if there is none and    *)
(* look for functions, once for a context; the other one tries its device.  *)
MayFail(v, method) == method # VSYNC_NONE /\ method \notin v.loaded \cap GLXMethod
Inited(v, method, works) ==
  LET made == [v EXCEPT !.context = IF method \in GLXMethod THEN "current" ELSE @]
  IN  IF works /\ method # VSYNC_NONE
      THEN [made EXCEPT !.loaded = @ \cup {method},
                        !.interval = @ \/ method = VSYNC_SWC]
      ELSE made

(* Mutant of VSyncInit: a method that does not work stays the option.        *)
VSyncInitKept(v, method, works) ==
  /\ vsync' = Inited(v, method, works)
  /\ opts' = [opts EXCEPT !.vsync = method]

(* vsync_init: a method that does not work resets the option.               *)
VSyncInit(v, method, works) ==
  /\ vsync' = Inited(v, method, works)
  /\ opts' = [opts EXCEPT !.vsync = IF works THEN method ELSE VSYNC_NONE]

(* vsync_deinit, parse_vsync, which leaves the option if it does not know   *)
(* the method, and vsync_init.                                              *)
VSyncSet(value, works) ==
  IF value = BadVsync THEN vsync' = VSyncOff /\ UNCHANGED opts
  ELSE VSyncInit(VSyncOff, value, works)
VSyncOutcome(value, works) ==
  IF value = BadVsync THEN ~works ELSE works \/ MayFail(VSyncOff, value)

(* glx_reinit, where there is a context.  If glx_init fails, which frees    *)
(* ps->psglx, vsync_init is not called and "troubles" are "ahead".          *)
GLXReinit ==
  LET gone == [VSyncOff EXCEPT !.context = "lost", !.loaded = @ \ GLXMethod]
      made == [gone EXCEPT !.context = "current"]
  IN  /\ vsync.context = "current"
      /\ \/ vsync' = gone /\ UNCHANGED opts
         \/ \E works \in BOOLEAN :
              /\ works \/ MayFail(made, opts.vsync)
              /\ VSyncInit(made, opts.vsync, works)

(* What a request does; works says whether a vsync method does.             *)
Effect(m, works) ==
  IF m.fault # "none"
  THEN UNCHANGED <<session, screen, opts, vsync>>
  ELSE CASE m.method = "reset" ->
              session' = [session EXCEPT !.reset = TRUE] /\ UNCHANGED <<screen, opts, vsync>>
         [] m.method = "repaint" ->
              session' = ForceRepaint(session) /\ screen' = Outdated /\ UNCHANGED <<opts, vsync>>
         [] m.method = "win_set" ->
              session' = EvReceived(session) /\ UNCHANGED <<screen, opts, vsync>>
         [] m.method = "opts_set" /\ m.target = "vsync" ->
              VSyncSet(m.value, works) /\ UNCHANGED <<session, screen>>
         [] m.method = "opts_set" /\ m.target # "vsync" ->
              /\ session' = SessionSet(m, session) /\ opts' = OptionSet(m)
              /\ UNCHANGED <<screen, vsync>>
         [] OTHER -> UNCHANGED <<session, screen, opts, vsync>>

(* Before any message of the turn, as after a signal.                       *)
Nothing == [call |-> FALSE, noreply |-> TRUE, replies |-> 0]

(* Reading n messages off the socket; a flush may do it.                    *)
Reads(n, queue) ==
  /\ wire' = wire - n
  /\ inq' = queue + n

(* A message comes.  The socket is only looked at where it does: at other    *)
(* places it might as well come later.                                      *)
Client ==
  /\ pc \in {"events", "dbus", "process", "asleep"} /\ connected
  /\ wire + inq < MaxWaiting
  /\ wire' = wire + 1
  /\ UNCHANGED <<inq, connected, answered, loopVars, watchVars, timeoutVars, optionVars>>

ReadWrite ==
  /\ pc = "dbus" /\ pc' = "process"
  /\ \E n \in 0 .. wire : Reads(n, inq)
  /\ UNCHANGED <<session, screen, connected, answered, watchVars, timeoutVars, optionVars>>

(* cdbus_process of the next message; without a connection nothing is sent. *)
Process ==
  /\ pc = "process" /\ inq > 0
  /\ \E m \in Requests, works \in BOOLEAN, n \in 0 .. wire :
       /\ IF m.target = "vsync" THEN VSyncOutcome(m.value, works) ELSE works
       /\ answered' = [call |-> m.method # "signal", noreply |-> m.noreply,
                       replies |-> Replies(m, works)]
       /\ n > 0 => Replies(m, works) > 0
       /\ Reads(n, inq - 1)
       /\ Effect(m, works)
  /\ UNCHANGED <<pc, delay, connected, watchVars, timeoutVars>>

(* ensure_glx_context looks into ps->psglx, which is NULL after a glx_init  *)
(* that failed: the request gets no answer.                                 *)
Crash ==
  /\ pc = "process" /\ inq > 0
  /\ vsync.context # "current"
  /\ \E m \in Requests :
       /\ m.method = "opts_set" /\ m.fault = "none" /\ m.target = "vsync"
       /\ m.value \in GLXMethod
       /\ answered' = [call |-> TRUE, noreply |-> m.noreply, replies |-> 0]
  /\ pc' = "crashed" /\ inq' = inq - 1
  /\ UNCHANGED <<session, screen, wire, connected, watchVars, timeoutVars, optionVars>>

(* Mutant of LoopDone: one message is popped in a turn.                      *)
LoopDoneEarly(queue) == TRUE

(* cdbus_loop goes on until the queue of libdbus is empty.                  *)
LoopDone(queue) == queue = 0

DBusDone ==
  /\ pc = "process" /\ LoopDone(inq)
  /\ pc' = IF session.reset THEN "paint" ELSE "select"
  /\ answered' = Nothing
  /\ UNCHANGED <<session, screen, wire, inq, connected, watchVars, timeoutVars, optionVars>>

------------------------------------------------------------------------------
(* The rest of the loop.                                                    *)

(* ev_handle of an X event: damage to a window, a new size of the root with *)
(* glx_reinit_on_root_change, or a change that is signalled over D-Bus,     *)
(* which flushes the connection.                                            *)
XEvent ==
  /\ pc = "events" /\ pc' = "timeouts" /\ cur' = HeadOf(tmouts)
  /\ \/ /\ session' = [session EXCEPT !.ev = TRUE, !.damage = TRUE]
        /\ screen' = Outdated /\ UNCHANGED <<wire, inq>>
        /\ GLXReinit \/ UNCHANGED <<opts, vsync>>
     \/ /\ session' = EvReceived(session) /\ UNCHANGED <<screen, opts, vsync>>
        /\ \E n \in 0 .. wire : Reads(n, inq)
  /\ UNCHANGED <<connected, answered, watchVars, tmouts, enabled, delay>>

NoXEvent ==
  /\ pc = "events" /\ pc' = "dbus"
  /\ UNCHANGED <<session, screen, messageVars, watchVars, timeoutVars, optionVars>>

(* The timeout of select() is 0 if something came, or if a fade is due;     *)
(* otherwise the thread sleeps.                                             *)
Select ==
  /\ pc = "select"
  /\ pc' \in IF session.ev THEN {"paint"} ELSE {"paint", "asleep"}
  /\ UNCHANGED <<session, screen, messageVars, watchVars, timeoutVars, optionVars>>

Wake ==
  /\ pc = "asleep" /\ pc' = "timeouts" /\ cur' = HeadOf(tmouts)
  /\ UNCHANGED <<session, screen, messageVars, watchVars, tmouts, enabled, optionVars>>

(* Whether the screen may be unredirected: no window is painted, the top    *)
(* one fills the screen, or neither.                                        *)
UnredirPossible(windows) ==
  \/ IF opts.redirected_force = UNSET
     THEN opts.unredir_if_possible = 1 /\ windows = "fullscreen"
     ELSE opts.redirected_force = OFF
  \/ opts.unredir_if_possible = 1 /\ windows = "none" /\ ~session.redirected

(* Mutant of AtOnce: a delay of 0 goes through the timer too.                *)
AtOnceByTimer(s) == s.hit

AtOnce(s) == delay = 0 \/ s.hit

Redirect(possible) ==
  CASE possible /\ session.redirected /\ AtOnce(session) ->
         [session EXCEPT !.redirected = FALSE]
    [] ~possible /\ ~session.redirected ->
         [ForceRepaint(session) EXCEPT !.redirected = TRUE]
    [] OTHER -> session
Timer(possible) ==
  CASE ~possible -> enabled \ {Unredir}
    [] possible /\ session.redirected /\ ~AtOnce(session) -> enabled \cup {Unredir}
    [] OTHER -> enabled

(* What the screen shows after the cycle.                                   *)
Paints(s) == s.redirected /\ s.damage /\ opts.stoppaint_force # ON
Shown(s) ==
  CASE ~s.redirected \/ (s.damage /\ opts.stoppaint_force # ON) -> "current"
    [] s.redirected /\ s.damage /\ opts.stoppaint_force = ON -> "dropped"
    [] OTHER -> IF session.redirected THEN screen ELSE "stale"

(* Painting needs the GLX context that is lost.                             *)
Troubles == vsync.context = "lost" /\ (GLXBackend \/ opts.vsync = VSYNC_OPENGL)

(* A cycle of session_run: paint_preprocess decides on the redirection,     *)
(* without redirection or with stoppaint_force the damage is thrown away,   *)
(* and otherwise it is painted.                                             *)
Cycle ==
  /\ pc = "paint" /\ ~session.reset
  /\ \E windows \in {"none", "fullscreen", "other"} :
       LET possible == UnredirPossible(windows)
           s == Redirect(possible)
       IN  /\ enabled' = Timer(possible)
           /\ session' = [s EXCEPT !.hit = FALSE, !.ev = FALSE, !.damage = FALSE,
                                   !.empty = windows = "none"]
           /\ screen' = Shown(s)
           /\ pc' = IF Paints(s) /\ Troubles THEN "crashed" ELSE "timeouts"
  /\ cur' = HeadOf(tmouts)
  /\ UNCHANGED <<messageVars, watchVars, tmouts, optionVars>>

(* A reset: session_destroy, and a new session with its own connection.  The *)
(* default of fade_delta, 10, is one of the numbers that 1 stands for.      *)
DefaultOpts ==
  [fade_delta |-> 1, unredir_if_possible |-> 0,
   vsync |-> VSYNC_NONE, redirected_force |-> UNSET, stoppaint_force |-> OFF]
NewSession ==
  [ev |-> FALSE, reset |-> FALSE, damage |-> FALSE, redirected |-> TRUE,
   hit |-> FALSE, empty |-> FALSE]

NewVSync ==
  [context |-> IF GLXBackend THEN "current" ELSE "none", loaded |-> {}, interval |-> FALSE]

Restart ==
  /\ pc = "paint" /\ session.reset
  /\ pc' = "timeouts" /\ session' = NewSession /\ screen' = "current"
  /\ wire' = 0 /\ inq' = 0 /\ connected' = TRUE
  /\ fds' = {"read"}
  /\ tmouts' = <<Unredir>> /\ enabled' = {} /\ cur' = Unredir
  /\ opts' = DefaultOpts /\ vsync' = NewVSync
  /\ UNCHANGED <<answered, delay>>

Init ==
  /\ pc = "timeouts" /\ session = NewSession /\ screen = "current"
  /\ wire = 0 /\ inq = 0 /\ connected = TRUE /\ answered = Nothing
  /\ fds = {"read"}
  /\ tmouts = <<Unredir>> /\ enabled = {} /\ cur = Unredir
  /\ opts = DefaultOpts /\ vsync = NewVSync
  /\ delay \in Delays

Thread ==
  \/ RunTimeout \/ TimeoutsRun \/ XEvent \/ NoXEvent
  \/ ToggleWatch \/ Disconnect \/ ChangeTimeout
  \/ ReadWrite \/ Process \/ Crash \/ DBusDone \/ Select \/ Wake \/ Cycle \/ Restart
Next == Client \/ Thread
Spec == Init /\ [][Next]_vars

------------------------------------------------------------------------------
(* Properties.                                                              *)

(* Type correctness.  The fade clock divides by fade_delta, which requests  *)
(* set: it stays positive (paint_preprocess, dbus.c opts_set).  The numbers *)
(* of switches are taken as they come.                                      *)
TypeOK ==
  /\ pc \in {"timeouts", "events", "dbus", "process", "select", "asleep", "paint",
            "crashed"}
  /\ wire \in Nat /\ inq \in Nat /\ wire + inq <= MaxWaiting /\ connected \in BOOLEAN
  /\ fds \subseteq {"read", "write"}
  /\ tmouts \in Seq(Timeout \cup {Unredir}) /\ IsInjective(tmouts)
  /\ enabled \subseteq ToSet(tmouts) /\ cur \in Timeout \cup {Unredir, Null}
  /\ session \in [ev : BOOLEAN, reset : BOOLEAN, damage : BOOLEAN,
                  redirected : BOOLEAN, hit : BOOLEAN, empty : BOOLEAN]
  /\ opts \in [fade_delta : Nat \ {0}, unredir_if_possible : Int,
               vsync : VSync,
               redirected_force : Int, stoppaint_force : Int]
  /\ delay \in Delays
  /\ answered \in [call : BOOLEAN, noreply : BOOLEAN, replies : Nat]
  /\ vsync \in [context : {"none", "current", "lost"}, loaded : SUBSET VSync,
                interval : BOOLEAN]
  /\ screen \in {"current", "stale", "dropped"}

(* A method call that wants a reply gets exactly one, whatever is wrong     *)
(* with it, unless compton crashes on it; a call that wants none gets one   *)
(* at most, no message is ever answered twice, and no signal is answered.   *)
(* Whether cdbus_process answers depends on what the handlers it calls      *)
(* return and have already sent.                                            *)
AnsweredOnce ==
  /\ answered.replies <= (IF answered.call THEN 1 ELSE 0)
  /\ (answered.call /\ ~answered.noreply /\ pc # "crashed") => answered.replies = 1

(* The thread sleeps in select() on no message that libdbus has already     *)
(* read, on the socket if something waits there, and with no event, reset   *)
(* or unhandled request left.                                               *)
NothingWaits ==
  pc = "asleep" =>
    /\ inq = 0 /\ ~session.ev /\ ~session.reset
    /\ wire > 0 => "read" \in fds

(* While timeout_run walks, the timeout it looks at next is still on the    *)
(* list: a callback may make libdbus free its own timeout.                  *)
NextTimeoutLive == cur # Null => cur \in ToSet(tmouts)

(* timeout_get_newrun divides by the interval of every enabled timeout: the *)
(* one of the unredirection is never enabled with a delay of 0, whatever    *)
(* requests do to redirected_force and unredir_if_possible.                 *)
IntervalPositive == Unredir \in enabled => delay > 0

(* When compton sleeps with the screen redirected, the screen shows the     *)
(* windows, unless stoppaint_force made it throw the damage away: what      *)
(* requests and events outdate is painted before select() blocks.           *)
ScreenCurrent == (pc = "asleep" /\ session.redirected) => screen # "stale"

(* When compton sleeps, redirected_force has taken effect: ON redirects the *)
(* screen unless there is nothing to paint, OFF unredirects it if there is  *)
(* no delay.                                                                *)
ForceHonoured ==
  pc = "asleep" =>
    /\ opts.redirected_force = ON => session.redirected \/ session.empty
    /\ (opts.redirected_force = OFF /\ delay = 0) => ~session.redirected

(* vsync_wait calls the functions of the method in use, in its context, and *)
(* checks neither: they are there whatever requests changed the method,     *)
(* whichever initialisation failed, and after a new context replaced the    *)
(* one they were looked up for, unless no new one could be made ("lost").   *)
(* The swap interval of opengl-swc does not outlive the method:             *)
(* vsync_deinit runs before the option changes.                             *)
VSyncReady ==
  /\ opts.vsync # VSYNC_NONE =>
       \/ opts.vsync \in vsync.loaded
       \/ opts.vsync \in GLXMethod /\ vsync.context = "lost"
  /\ opts.vsync \in GLXMethod => vsync.context # "none"
  /\ vsync.interval => opts.vsync = VSYNC_SWC
==============================================================================
