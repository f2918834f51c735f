# compton in TLA+

A model of compton, the X compositing manager of this repository, in TLA+:
modules that TLC checks on small instances and theorems that TLAPS proves for
every instance. Line numbers below are those of `src/src/compton.c` unless
another file is named.

compton is one thread. Its concurrency is with the X server, whose windows
change while the events that report it are on the way, with D-Bus clients, with
signals, and with itself: handlers and fade callbacks free the structs that a
paint cycle is walking over.

## The system

| Component | State | Operations | Interacts with |
|---|---|---|---|
| window list and lifecycle | `ps->list` of `struct _win` | `add_win`, `map_win`, `unmap_win`, `destroy_win`, `finish_*`, startup scan in `session_init` | events of the server, fade callbacks |
| fading | `opacity`, `opacity_tgt`, `fade`, `fade_callback`, `fade_time`, `idling` | `run_fade`, `set_fade_callback`, `check_fade_fin`, `win_determine_fade`, `fade_timeout` | paint cycle, main loop |
| paint cycle | `prev_trans` chain, `all_damage`, `to_paint`, pixmaps | `paint_preprocess`, `paint_all`, `session_run` | all windows, redirection |
| focus | `active_win`, `WFLAG_OPCT_CHANGE` | `win_set_focused`, `recheck_focus`, `ev_focus_*` | lifecycle, opacity |
| leader windows | `leader`, `cache_leader`, `active_leader` | `win_get_leader`, `win_set_leader`, group focus | focus, properties |
| stacking | order of `ps->list` | `restack_win`, `configure_win`, `circulate_win` | server's stacking order |
| redirection | `redirected`, `tmout_unredir`, `tmout_unredir_hit` | `redir_start`, `redir_stop`, `tmout_unredir_callback` | paint cycle, timeouts |
| main loop, timeouts | `ev_received`, `idling`, `reset`, `tmout_lst` | `mainloop`, `timeout_*`, `fds_poll`, `reset_enable` | Xlib's queue, D-Bus, signals |
| ignored errors | `ignore_head`, `ignore_tail` | `set_ignore`, `discard_ignore`, `xerror` | every request that may fail |
| expose and damage | `expose_rects`, `damaged`, regions | `ev_expose`, `repair_win` | paint cycle |
| window properties | types, opacity, frames, names | `ev_property_notify`, `win_update_*` | rules (c2), opacity |
| shadows, blur, Render | pictures, regions, kernels | `win_paint_win`, `win_paint_shadow`, `win_blur_background` | paint cycle |
| OpenGL (`opengl.c`) | contexts, textures, blur cache | `glx_*` | paint cycle |
| vsync, software optimisation | `paint_tm_offset`, `refresh_intv` | `swopti_handle_timeout`, `vsync_*` | main loop |
| D-Bus (`dbus.c`) | watches, timeouts, options | `cdbus_process_*`, `cdbus_ev_*` | main loop, windows |
| condition language (`c2.c`) | lists of condition trees | `c2_parse*`, `c2_match*` | properties |
| configuration | `options_t` | `get_cfg`, `parse_config` | everything |
| session | `session_t` | `session_init`, `session_destroy`, `main` | everything |
| resource checker (`xrescheck.c`) | counts | `xrc_*` | debugging only |

What is hard here, and what makes each part correct:

* *Structs outlive windows.* A window that is gone fades out first, so one id
  may have several structs. Each must be freed, once, when its own fade is over,
  and no pointer may survive it.
* *Callbacks inside walks.* `check_fade_fin` frees structs in the middle of two
  loops of a cycle, in one of them after the damage region was destroyed.
* *Answers overtake events.* `add_win` asks for the present attributes while
  older events are queued. Once the events are handled the list must agree with
  the server.
* *Sleeping.* `mainloop` decides from three flags whether to sleep and how long.
  It must not sleep on a fade, an event or a timer.
* *Time.* Fade steps come from the clock with a tolerance, the unredirection
  timer with another one, and cycles come at any time.
* *Order of the list* under restacks of windows that are destroyed, unknown or
  have the id of another struct.
* *Copies and decisions.* compton copies properties of windows and decides from
  them, once, whether to draw a shadow, dim, fade; a decision must be taken again
  whenever one of its causes changes, and a window is listened to only while mapped.
* *Resources outlive what they are of.* A window resized has another pixmap; what is
  made of the old one, in X Render or OpenGL, must go with it, in every backend.
* *Partial repaints.* A frame is painted over a buffer of unknown age; what is not
  painted must be right already.
* *Parsing with two elements*: precedence, groups and errors in `c2_parse_grp`.
* *Counters*: sequence numbers that wrap, carries of `timeval`, recursion limits.

Three small ones have neither model nor place in the list: the wrap of sequence numbers in the
list of ignored errors (564), the faint opacities for which a large alpha step leaves no
picture (`init_alpha_picts`, 6506), and a fade step of 0, which D-Bus accepts
(`dbus.c` 1021) and with which no fade ends.

`PROJECT.json` lists these hazards at their lines, with the properties that cover
them and, where none does yet, why.

## Modules

### XServer

The server as far as its events go (everything in it is external to the
repository and taken from how `compton.c` uses it): every window is gone, not a
child of the root, a hidden child or a viewable child, and each change appends to
the queue `evq` the events a client that selected `SubstructureNotify` on the root
gets. A ReparentNotify to the root is the event "enter", as CreateNotify is: both
call `add_win`. A ReparentNotify away from the root is "leave", as DestroyNotify
is: both call `destroy_win`. `Attributes` is what `XGetWindowAttributes` answers:
the state now, not the state at the event.

### Windows

`list`, `win`, `activeWin`, `allDamage`, `redirected`, `idling` and `evReceived` are
the fields of `session_t` and `struct _win`. Addresses are the set `Ptr`; `add_win`
takes any that is free, so an address may be used again at once. `pc` says whether
the thread is in `session_init` ("init"), `mainloop` ("loop"), `paint_preprocess`
("pre"), the painting loop of `paint_all` ("paint") or the last loop of `paint_all`
("post"). `cur` and `t` are the local variables of those loops; one action is one
turn, because a turn may free structs.

| Action | Code |
|---|---|
| `InitAdd`, `InitDone` | startup scan, first `recheck_focus` (7403-7464) |
| `Handle` with `AddWin`, `MapWin`, `UnmapWin`, `DestroyWin` | `mainloop`, `ev_handle` and the handlers |
| `DamageWin`, `FocusEvent`, `OpacityEvent`, `OtherEvent` | `repair_win`, `recheck_focus`, changes that set `WFLAG_OPCT_CHANGE`, `force_repaint` |
| `BeginPaint` | `session_run` after `mainloop` returned false |
| `PreprocessShown`, `PreprocessSkipped` | one turn of `paint_preprocess`: `calc_opacity`, `run_fade`, `to_paint`, `check_fade_fin` |
| `EndPreprocess` | the end of `paint_preprocess`: `redir_start`, `redir_stop` |
| `PaintWin`, `EndPaint`, `PostPaint`, `EndCycle` | `paint_all` and the rest of the cycle |
| `ServerStep` | a step of XServer |

Abstractions. Opacity is a level in `0 .. Opaque`, a fade step is one level, and
`want` is the level `calc_opacity` would give a viewable window; events that may
change it choose a new one from `ViewTargets`. Regions are only there or not
(`extents`, `allDamage`); where the code subtracts what is covered, both outcomes
are possible (`DamageWin`, `PaintWin`). Which windows fade, are ARGB or framed, or
are off the screen is constant per window. Server steps are taken between paint
cycles: a cycle neither reads nor writes what they change, so they commute with its
steps. Left out: InputOnly windows (they are not painted and have no damage),
geometry, client windows and leaders, stacking changes, shadows and blur, the
modes SOLID, TRANS and ARGB, `redirected_force`.

Bounds: `MaxQueue` events queued, `MaxSteps` fade steps per cycle, and `Room`: a
window enters only if the model has an address for its struct. Unless the constant
`Overlap` is set, a window leaves the root again only after the struct of its
earlier departure is freed; the run `windows_overlap` shows what happens otherwise.

### MainLoop

The thread as it goes round `session_run` and `mainloop`, at the granularity at
which events, D-Bus messages, signals and the clock can come in between. `pc`:
"head" (the test of `ps->reset` in `session_run`), "run" (`timeout_run`), "events"
(`XEventsQueued`, `ev_handle`), "dbus" (`cdbus_loop`), "timeout" (the computation of
the timeout), "select", "blocked" (`fds_poll`), "paint" (a cycle). Times are
distances from now: `fadeLag` from `ps->fade_time`, `timerAge` from
`tmout_unredir->firstrun`, `wait` the rest of the sleep. X events are on the `wire`,
where `select()` sees them, or in Xlib's queue `xq`, where it does not; whatever waits
for an answer of the server moves them.

Abstractions. All windows together are `left`, the fade steps the slowest has to go,
and `top`, what the topmost painted window is. An event or message may change both.
The clock goes only forward, although `get_time_ms` is not immune to changes of the
system time (the reset of `fade_time` after a disorder, 1091, is left out).
D-Bus requests are one step, after the last look at the X queue; those that ask the server
something (`RequestReads`: conditions matched again, a GLX context for a vsync method, the focus
for `track_focus`) may read the wire, and the last two set no `ev_received`. `owed`, `possibleFor`
and `late` are history variables; `late` has what came after the thread last looked for it in this
turn: "events" read by a request, a "fade" begun by one, a "reset" before `select()`. The timer's `firstrun` is kept only
while it is enabled, since `timeout_reset` precedes every enabling. Left out:
`--benchmark`, `--sw-opti`, the timeouts and watches of libdbus. Bounds: `MaxEvents`
events and messages waiting, `MaxLag` milliseconds by which the thread may fall
behind the fade clock, `MaxFade` steps.

MainLoop explains a guard of Windows: `BeginPaint` needs `evReceived`, or `~idling`,
or an unredirection timer that may be due. (A reset also ends with a cycle, after
which the session is over.)

### Stack

The order of `ps->list` against the server's stacking order `tree`. Every event moves the
server's order at once and the list when it is handled; `order` (history) is what `tree` was
when the last handled event was sent. Structs here have only an id, `destroyed`,
`map_state` (`viewable`) and `need_configure` (`need`). `RestackWin`, `ConfigureWin`,
`CirculateAbove`, `AddWin`, `DestroyWin` and `FinishDestroy` are the functions of
those names; `ScanNext` is one turn of the scan of `session_init`, during which the server is
grabbed and nothing else happens. Fades are left out: a destroyed struct goes at
any time (`FinishDestroy`). Mapping is left to any time too, since it does not restack.

The code leaves a restack out in three cases, and `refused` (history) records them:
"unknown", the event names a window that compton does not have, because `add_win` rejected
it (the overlay, or a window that was gone again by then); "twin", the struct below has the
right id but is destroyed, and the live struct of that id is elsewhere; "head",
`circulate_win` raises above the head of the list, which is destroyed. Startup has the first
case too: a window above the overlay is inserted at the bottom. All of them occur in the
run; without the condition on `refused`, TLC finds the order of the list wrong after each.
Not in it: events sent between the `XSelectInput` on the root (7177) and `XGrabServer` (7407),
which are handled after a scan that has seen their effects. Bounds: `MaxQueue` events, and
`MaxStructs` structs, beyond which no window enters.

### WinData

What compton keeps about a window besides its geometry: the client window in a frame, copied
properties, leader and group, and the decisions of the `win_determine_*` functions. `s` is the
session with its options (`o`) and the server's side (`srv` the properties, `mask` which windows compton listens to,
`mapped`, `focus`, `queue`). The operators that take and return it are named after the functions
of compton.c (`MarkClient`, `SetLeader`, `OnFactorChange`, `MapRead`, ...), and an action is one
handler. `map_win` is two actions, `MapSelect` and `MapRead` (events are selected, then the
properties are read), because a property that changes between the two is the case that is easy
to get wrong. `ClientsOf` and the like look at the server as the code does, now.

The leader of a window is its own, or else its client, and `win_get_leader_raw` asks the window
whose client that is, up to `MaxRecursion` (WIN_GET_LEADER_MAX_RECURSION, 20) calls deep. `Chain`
is the sequence of windows asked, `Ends` where it may stop, `Final` where it does, and `Cached`
what the calls leave in the caches of all of them, a cycle of leaders and a chain too long
included. What holds of leaders with some restriction names it: `EarlyClients` (clients have their
WM_STATE when their frames are added) and `Rooted` (no window is a waypoint, that is, a leader
with a leader of its own).

A list of conditions (`win_match`) is the set of facts one of which it wants: the name, whether
the type is dialog, whether it is shaped, whether it is the active window, and one more property.
"other" is read when matched, as `c2_match_once_leaf` does. Opacity has the levels 0 to 3.
`FadeDone` is `check_fade_fin` at any time; windows here are not destroyed, and which windows a
cycle paints is left to choice. Focus names toplevels. `MCWinData` has the configurations.

### Painting

What is kept between frames, with each backend: the pixmap of a window, its picture, texture
and fence, its shadow, the blur cache, the wallpaper and the buffer of `paint_all`. `held` is
what the structs have: a size for what is made to one, "current" or "old" for a pixmap that is
or was the window's, "junk" for the XID of a request that failed, "dead" for an OpenGL object
whose context is gone. `alive` counts what exists. One window suffices: windows share none of
this. `Handle` is a handler for an event of the window or the root, `Cycle` one of `session_run`,
`Quit` and `Restart` the end of a session and the next one.

### Screen, Buffers

`Screen` is what painting promises: parts of the screen go stale, and before long a frame shows
the screen as it is. `Buffers` is what compton does: `all_damage`, `all_damage_last`, and frames
painted in parts, over a buffer that has the frame of some swaps ago, if that (`glx_paint_pre`).
`hist[n]` is what is stale in the frame shown n-1 swaps ago. `Implements` maps `stale` to `hist[1]`
while the screen is redirected and to nothing while the windows show themselves. `cfg` is the swap
method, `glx_copy_from_front` and whether only the region is shown. Not in it: the hybrid
backend with `--resize-damage`, `stoppaint_force`, `--benchmark`, and what a wrong
`--glx-swap-method` does (the user's promise is taken as the age).

### C2

The parser of `c2.c` and `c2_match_once`. A pattern is a sequence of tokens, chosen one by one
while the parser runs; a tree is the set of truth assignments to its leaves that it matches, and
its number of nodes. `frames` are the recursive calls of `c2_parse_grp`, with its two elements,
two operators and the pointer `pele`. A leaf is read in the steps of the code: `ParseTarget`,
`ParseOp`, `ParsePattern`, `Postprocess`, `Store`; each may fail, in ways the alternatives of the
actions name, and then the calls return one after another and free what hangs on them (`FailGroup`, while
`pc` is "failing"). The man page's grammar is `Derived`, a recursive
function over the tokens. Characters of names, strings and escapes are left out.

### DBus

The main loop as D-Bus sees it: `wire` is how many messages wait on the socket, `inq` how many
libdbus has read and nobody has processed (what one says is chosen when it is processed), `fds` the descriptors of `select()`, `tmouts` the list `timeout_run`
walks with `cur` while callbacks add and remove timeouts. A request is a method, what is wrong
with it, and whether a reply is wanted; its effect is `Effect`, and that of an option `OptionSet`
and `SessionSet`, and for the vsync method `VSyncSet`. `Replies` counts the answers of `cdbus_process` and of the handler together. `vsync` has the GLX context, the
methods whose functions were found in it, and whether a swap interval is set; each
initialisation may fail. After a `glx_init` that failed, `psglx` is NULL (`opengl.c` 274, 336)
and `ensure_glx_context` looks into it (`compton.h` 1243): a request for a method of GLX then ends
the program (`Crash`), as does painting with the context that `glx_reinit` lost (`Troubles`).
Screen and redirection are cut down to what requests can disturb. `timeout_clear` does not clear
`tmout_lst`, which is of no consequence because the session is freed next; a callback of
libdbus that removes the *next* timeout, which no libdbus does, is outside the model.
Bounds: `MaxWaiting` messages waiting; 1 stands for any positive `fade_delta`.

### MC modules and proof modules

`MCWindows`, `MCStack` and `MCPainting` give the symmetry sets, `MCWinData`, `MCPainting` and
`MCDBus` the configurations and requests of the runs. The proofs of a module are in a module
that extends it: `WindowsProofs`, `StackProofs`, `C2Proofs`, `DBusProofs`,
`PaintingProofs`, `WinDataProofs`, `WinDecisionsProofs`, which extends the one before, and
`FrameProofs`, about the two modules that say when a frame is painted (`MainLoop`) and what it
paints (`Buffers`). It extends both, which is why the names of Buffers say that they are its own
(`BuffersSpec`, `psRedirected`).

## What the runs show

| Run | Shows | Instance |
|---|---|---|
| `windows_one` | `TypeOK`, `DestroyedIffCallback`, `NoDamageAfterPaint`, `NoLostFade`, `InSync`, `FreedWhenFaded` | one id, two addresses, four opacity levels of which one shows nothing, two steps a cycle, focus, unredirection |
| `windows_two` | `NoDangling`, `FocusIsViewable` | two ids, two addresses |
| `windows_live` | `DestroyedIsFreed` | one id, two addresses, fairness |
| `windows_overlap` | `DestroyedIffCallback` fails with overlapping departures | one id, two addresses |
| `mainloop` | `TypeOK`, `NothingForgotten`, `FadePace`, `UnredirDelayed`, `FadesEnd` | fade_delta 5, delay 20, two fade steps |
| `mainloop_unredir` | `UnredirHappens` fails | fade_delta 5, delay 5 |
| `stack` | `TypeOK`, `InOrder` | three windows and the overlay, three structs, two events queued |
| `windata` | `TypeOK`, `CopiesFresh`, `DecisionsFresh`, `ActiveLeads` | two windows, a client in a frame, an unmanaged leader, ten configurations, three changes, two events queued |
| `painting` | `TypeOK`, `Current`, `Accounted` | one window, two sizes of it and of the root, five configurations, two events |
| `buffers` | `BuffersTypeOK`, `BackCovered`, `Implements` | two parts of the screen, buffers up to CGLX_MAX_BUFFER_AGE (5) swaps old, all swap methods |
| `c2` | `TypeOK`, `ParsedRight`, `RefusedRight`, `NoLeak`, `MatchDefined` | all patterns of up to nine tokens, two levels of groups |
| `dbus` | `TypeOK`, `AnsweredOnce`, `NothingWaits`, `NextTimeoutLive`, `IntervalPositive`, `ScreenCurrent`, `ForceHonoured`, `VSyncReady` | two messages waiting, one timeout of libdbus, delays 0 and 5, twenty requests |

The bounds. One window suffices for what relates a window to its own structs: with
two addresses the old struct fades out while the new one is live, which is where the
two are confused. Two windows are needed for pointers from one struct to another and
for the focus going from one to the other. Four levels with a faint one tell apart
faded to nothing, invisible, partly and fully faded, and two steps a cycle can
overshoot. Three structs are what a restack needs: the window, the one it must
be above, and a destroyed one between or in front of them. A fade_delta of 5 is the least for which the tolerance of a fifth is a
millisecond, and a delay of 20 the least for which the tolerance of `timeout_run`
is; `MaxLag` 9 lets a cycle make two steps.

Three changes are what a decision needs to go stale: its cause before and after, and the focus
or a D-Bus call in between; mapping is free of charge. Two sizes tell the size of a thing from
that of its window. Two parts of the screen let one be damaged and another be stale. Nine
tokens are an expression with five leaves and four operators, or one with groups and
negations; `MaxLevels` is lowered from C2_MAX_LEVELS (10) so that the limit is met. Two waiting
messages are what the order of reading and processing needs: one is processed, and the flush of
its reply reads the other behind the last look at the socket.

What fails. `windows_overlap`: `finish_destroy_win` looks for *a* destroyed struct with
the id, so a second departure while the first fades out makes one callback free the
other's struct, and the assertion at 1261 fails. (With the same constants so does `NoDangling`:
the struct freed is one the paint cycle still has to visit.) `mainloop_unredir`: the callback
of the unredirection timer sets a flag and nothing makes a cycle follow.

Four more formulas of the modules fail and belong to no run. Each is reproduced by a
configuration that checks it alone:

* `Windows!NoFadeWhileOpening` with `NoFadingOpenclose = TRUE`: `map_win` sets
  `in_openclose` before the old unmap callback clears it (2222; man page, 119-120).
* `MainLoop!ResetHappens`, with `FairSpec`: SIGUSR1 between the test of `ps->reset` and
  `select()` (6856; man page, 393).
* `MainLoop!Heeded`, with `FairSpec`: turning `track_focus` on over D-Bus may give a window
  another opacity without setting `ev_received` (`dbus.c` 1075), and no cycle need follow. An X
  event read for it, or for a GLX context (`dbus.c` 1085), is slept on likewise (`late` says so).
* `C2!BranchesMean`: `c2h_comb_tree` takes a branch from `malloc` and does not assign `neg`
  (`c2.h` 263; `C2_B_INIT` exists and is not used there), so a condition with `&&` or `||` may be
  negated. `ParsedRight` is about the parses where the memory was zero (`garbage`).

## Differences between the code and its documents, or its comments

Met while modelling, with no run of their own: the man page has the operator `=>` (323),
`c2.c` accepts `>=` only; it puts the `?` of a format string before the match type in the
grammar and after it in the examples, and the code takes the latter (`*?=`). The
predefined target `leader` is read (`c2.c` 1064) and not tracked (a TODO, `c2.c` 763), so a
condition on it is decided with what the leader was; nothing is claimed of it. `stoppaint_force` OFF forces no repaint, the
damage meanwhile is gone (`dbus.c` 1109; "dropped" in DBus). A D-Bus request with a
bad vsync method runs `vsync_deinit` and keeps the option. `redirected_force` ON gives way
when nothing is painted and `unredir_if_possible` is set (1283). `win_set_leader` says that a window without
the focus affects at most itself (3591); its caches are not alone, though: when it is a waypoint in the
chain of the active window, `active_leader` is outdated too. `ActiveLeads` is about sessions without
waypoints (`Rooted`), for this reason.

In Painting: `glx_reinit_on_root_change` leaves the texture of the wallpaper, of a context
that is gone (`Accounted` names it); `glx_prog_win` is freed and not loaded again; a
texture the wallpaper failed to get is not tried again; `shadow_exclude_reg` is not freed by
`session_destroy`. Only the first is in the model. A reinitialisation that fails leaves `psglx`
NULL: that is in DBus.

In WinData some decisions are, by design or oversight, not taken again. `Blind` and
`Followed` name them, and `DecisionsFresh` is about the rest: `win_on_wtype_change` leaves out
blur, paint and unredirection exclusion; `map_win` reads the shape after it has matched the lists, so
that invert, paint, unredirection and the opacity rule are decided with the shape of the earlier
mapping; `shadow_ignore_shaped` follows the shape only with a shadow list; a forced
inversion of an unmapped window is undone by its next painting. `CopiesFresh` likewise: a
type guessed from WM_TRANSIENT_FOR is not guessed again when that changes, and type and leader of
a client in a frame are followed only if something else makes compton listen to the client. A
client that gets its WM_STATE when its frame is mapped already is not asked for its opacity, and
leaves its frame in the caches of leaders: both properties about these ask for `EarlyClients`.

## Fairness

`Windows!Fairness`: the thread is scheduled, `mainloop` handles queued events, and a
cycle follows an event or a fade timeout. The strong fairness of a cycle with a step
says that time goes on: of infinitely many cycles of a fade some find `fade_delta`
elapsed. It assumes that the handling of events leaves room for cycles, which a flow of events
faster than compton handles them does not: `mainloop` paints only when no event waits.
`MainLoop!FairSpec`: the thread is scheduled and the clock goes on; its liveness
properties assume that events cease (`Quiet`) and that a cycle follows what a D-Bus request
began too late (`Heeded`, which the code does not ensure). `BuffersSpec` (Buffers): a cycle with damage and a redirected
screen is not put off for ever, again because the events cease; it is what
`Screen` promises as weak fairness of `Show`. Nothing is assumed of the server, of
clients, of signals or of `tmout_unredir`. `c2`, `dbus`, `painting`, `windata` and `stack`
check safety only. `C2` stops when a pattern is parsed, and `DBus` and `WinData` when their bounds
are used up or the thread sleeps for good: those three runs do not look for deadlocks.

## What is proved

Every invariant and action property of the runs except those listed at the end of this section,
for every value of the constants: any number of windows, structs, events, timeouts, any fade
step and delay, any depth of patterns. The assumptions are those the modules state about
their constants (`StackAssumption` among them says that there are finitely many windows) and, in
the statements of four theorems, `~Overlap`.

Each proof module has an inductive invariant, one lemma per action that it is kept, and lemmas
about the operators the actions are made of. The properties are mostly not inductive; what has
to be added to them says why they hold.

* `WindowsProofs`: `TypeCorrect` (`TypeOK`) and `FocusSafe` (`FocusIsViewable`), with `Overlap`
  or without. `finish_destroy_win` must find a struct to free, or `RemoveAt` would be applied
  outside the list. `TypeInv` adds `CallbackOK` (a struct with `destroy_callback` is destroyed
  and on the list) and `CursorOK` (the cursor of `paint_preprocess` is on the list). The focus
  is safe because `win_set_focused` focuses only viewable windows, `unmap_win` takes it away
  first, and only destroyed structs, which have no focus, are freed.
  Then five invariants that build on each other.
  `ListOK`: no struct is on the list twice, and in each (`WinOK`) the callback, the target of the
  fade and the state of the window agree. `SettledInv`: while `idling` stands, every struct the
  cycle has passed is at rest; hence `NoFadeIsLost` (`NoLostFade`).
  `DepartInv`, only `~Overlap`: a window has one departure, either a "leave" that waits or one
  destroyed struct; hence the first match of `finish_destroy_win` is the struct whose fade has
  ended: `DestroyedHasCallback` (`DestroyedIffCallback`), `FreedAtItsEnd` (`FreedWhenFaded`).
  `ChainInv`: the structs `prev_trans` leads to are on the list, visible and already visited, and
  a struct that is freed is none of them, as it is invisible: `NothingDangles` (`NoDangling`) and
  `PostPaintSafe` (`NoDamageAfterPaint`). `SyncInv`: what the waiting events say of a window.
  They alternate, the last of each sort tells how the window is now, and an answer of
  `XGetWindowAttributes` that came before its events is undone or repeated by them:
  `ListInSync` (`InSync`, which is about the moment when no event waits).
* `FrameProofs`, of MainLoop: `TypesKept`, `NeverForgets` (`NothingForgotten`),
  `FadesKeepPace` (`FadePace`), `UnredirWaits` (`UnredirDelayed`). `ClockKept`: the fade clock is
  ahead by less than a fifth of a step, and a sleep ends before it is far behind. `FadeNoticed`:
  which of `idling`, `ev_received` and the clock says that a window has to fade. `TimerKept`: the
  timer is not older than the time for which unredirection was possible. `SleepBounded`: before
  `select()`, Xlib's queue is empty but for what is in `late`, and the timeout short enough.
* `StackProofs`: `TypesKept` (no window has two live structs) and `OrderKept` (`InOrder`).
  `Caught`: there is a history of the server's orders, from `order` to `tree`, of which each
  waiting event makes the next; so an event makes sense in the order in which it is handled,
  whatever has happened since. One lemma for each kind of event says which pairs of windows it
  moves, and `RestackEffect` that `restack_win` does the same to the list. `NeedHidden`
  (`need_configure` is never set while a window is viewable) is why `configure_win`
  restacks always; `ScanKept` is about the scan.
* `C2Proofs`: `TypesKept`, `NothingLeaks` (`NoLeak`), `MatchesDefined` (`MatchDefined`). `FramesShaped`: a call has room for the element it waits
  for, and only the innermost may be full. `HeapCounted`: the nodes allocated are those that
  hang on the calls and the leaf in hand. `LeafRead`: what is known of a leaf before each step
  of its parsing, which is what the `assert(0)`s of `c2_match_once_leaf` are about.
* `DBusProofs`: all eight invariants of the run. `LoopOrdered`, `SocketWatched`: where in the
  loop messages can be left unprocessed. `UnredirListed`: `timeout_run` can resume from the
  unredirection timeout, and libdbus does not remove it. `StaleNoticed`, `ForceNoticed`:
  `ev_received` stands for what a request has put out of date. `VSyncConsistent` (`VSyncReady`) goes
  through every way in which a method or a context is set up or fails.
* `PaintingProofs`: `TypesKept` and `NothingLeaks` (`Accounted`). `Sound`: every member accounts
  for what exists (`Balanced`), and pictures and textures are freed with the pixmap they are of
  (`Layered`). It is kept by each function on its own, so the proof follows the calls.
  `StaysCurrent` (`Current`) is about the moment when no event waits. `Follows`: there is a
  history of how the server stood when each waiting event was sent, which begins with what compton
  knows of the window (`Knows`) and ends with the window as it is; what is out of date is so by an
  event of that history (`Outdated`). So a pixmap named after the window was unmapped is
  freed by the "unmap" still to come (`UnmapComes`), and one that a resize outdated by its
  "configure". `Obeyed`: each handler does what its event tells; `Carries`: a frame or a fade puts
  nothing out of date.
* `FrameProofs`, of Buffers: `BuffersTypesKept`, `AlwaysCovered` (`BackCovered`) and `ShownWhole`, the safety part
  of the refinement `Implements`. A frame takes the damage `d` out of what is to be painted and
  puts it into `last`; then every buffer, one swap older, is covered by the damage kept of one
  frame more (`Older`), and what `glx_paint_pre` paints and copies leaves nothing of a buffer of
  known age stale. Each action is a `Change`, a `Show` or a stutter of Screen.
* `WinDataProofs`: `TypesHold` (`TypeOK`), `CopiesAreFresh` (`CopiesFresh`) and
  `GroupsFollowFocus` (`ActiveLeads`). `Fit`: the client of a window is in its frame, and every window but the one
  `map_win` has not read yet has the callback of its map state. `Settles`: a viewable window is
  listened to, its client too where `determine_evmask` says so, and each of its copies is right
  or an event that tells of the difference waits (`Right`). `Lead`, for sessions without waypoints: a
  window that is asked for a leader leads itself (`Grounded`), so that the chain ends after one
  call and what is cached stays right, and `active_leader` is the leader of the active
  window (`Heads`). `CachedGrounded` is the lemma about `win_get_leader_raw`. That all the
  decisions taken again on the way disturb none of this is `Changes` and `Still`, one lemma per
  function.
* `WinDecisionsProofs`: `DecisionsAreFresh` (`DecisionsFresh`). `Ready` adds to `Settles` and `Lead` that every decision
  about a viewable window is the one its function would take, or a property event that makes
  compton match the list again waits (`Proper`, `Later`), and that what no list is about keeps its
  first value (`Idle`), which the handlers that skip empty lists rely on. Each function has
  a lemma that goes from `Proper` but for a set of decisions to `Proper` but for a smaller one:
  a write of a field spoils the decisions that depend on it (`Minds`), and the functions called
  next make them right, for the window itself (`Leaves`) and for the others (`Unspoilt`). `map_win`
  starts with nearly all of them spoilt and ends with none.

Model-checked only: `ParsedRight` and `RefusedRight` of C2, which compare the parser with the
recursive function `Derived` and need induction over data. Liveness (`DestroyedIsFreed`,
`FadesEnd`, the fairness in `Implements`) is beyond the prover.

## Not modelled

* Ignored errors (`set_ignore` and its list of sequence numbers, 564): they decide what
  `xerror` prints and nothing else; the models choose the outcome of a request freely.
* Pixel data, regions with coordinates, convolution kernels, shaders, GL drawing, the choice of
  framebuffer configurations; geometry of windows, apart from their size.
* The drivers of vsync and `swopti_handle_timeout` (time of day). Its carry, `>` for `>=`, is
  listed among the hazards.
* The configuration file and the command line: the models take options as constants.
* Frame extents, class and role (treated as the name), rounded corners, InputOnly
  windows, the overlay window, and the text of D-Bus replies and introspection.
* Nothing is claimed of cycles of leaders, whose top depends on who asks first: `Cached` has
  them, the configurations and `ActiveLeads` do not.
* `xrescheck.c`, which only counts.

## Plan

1. Stack: an abstract specification whose only state is the order of the live windows, which
   Stack implements while nothing is refused.
2. A composition of Windows and MainLoop that replaces the guard of `BeginPaint` by the
   main loop's own decision.
