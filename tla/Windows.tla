------------------------------- MODULE Windows -------------------------------
(****************************************************************************)
(* compton's window list, its fades and its paint cycle.                    *)
(*                                                                          *)
(* A window of the server is represented by a `struct _win' on the list     *)
(* ps->list (top to bottom).  A window that leaves the root stays on the    *)
(* list, marked destroyed, until its fade-out is over; only then does the   *)
(* fade callback free its struct.  So one id may have several structs, and  *)
(* pointers to a struct (active_win, prev_trans, the cursors of the paint   *)
(* cycle) must never survive it.  The model is one thread: handlers run     *)
(* between two paint cycles, and a paint cycle walks the list one struct a  *)
(* step, because a callback it runs changes the list under it.              *)
(****************************************************************************)
EXTENDS XServer, SequencesExt

CONSTANTS
  Ptr,               \* addresses malloc may return for a struct
  Null,              \* NULL, and the id None
  Opaque,            \* the highest opacity level
  Faint,             \* get_alpha_pict_o(o) = alpha_picts[0] iff o <= Faint
  MaxSteps,          \* bound: fade steps in one paint cycle
  ViewTargets,       \* what calc_opacity may give a viewable window
  Fading,            \* windows whose type fades and that are not blacklisted
  ArgbFramed,        \* windows --no-fading-destroyed-argb applies to
  Hidden,            \* windows off the screen or excluded from painting
  TrackFocus,        \* ps->o.track_focus
  NoFadingOpenclose, \* ps->o.no_fading_openclose
  UnredirIfPossible, \* ps->o.unredir_if_possible
  LeaveTo,           \* where windows that leave the root go
  Overlap            \* may a window leave the root again while the fade-out
                     \* of an earlier departure is pending?

ASSUME WindowsAssumption ==
  /\ Null \notin Ptr \cup Id
  /\ Opaque \in Nat \ {0}
  /\ Faint \in 0 .. Opaque - 1
  /\ MaxSteps \in Nat \ {0}
  /\ ViewTargets \subseteq 0 .. Opaque /\ ViewTargets # {}
  /\ Fading \subseteq Id /\ ArgbFramed \subseteq Id /\ Hidden \subseteq Id
  /\ LeaveTo \subseteq {"gone", "elsewhere"}
  /\ TrackFocus \in BOOLEAN /\ NoFadingOpenclose \in BOOLEAN
  /\ UnredirIfPossible \in BOOLEAN /\ Overlap \in BOOLEAN

VARIABLES
  list,        \* ps->list, top to bottom, a sequence of addresses
  win,         \* win[p]: the struct at address p
  activeWin,   \* ps->active_win
  allDamage,   \* ps->all_damage is not None
  redirected,  \* ps->redirected
  idling,      \* ps->idling
  evReceived,  \* ps->ev_received
  pc,          \* where the thread is
  boot,        \* the first paint_preprocess of session_run is not over
  steps,       \* paint_preprocess: fade steps of this cycle
  cur,         \* the loop variable w of paint_preprocess and paint_all
  t            \* paint_preprocess: head of the chain of painted windows

cycleVars == <<pc, boot, steps, cur, t>>
listVars == <<list, win, activeWin>>
vars == <<serverVars, listVars, allDamage, redirected, idling, evReceived, cycleVars>>

Callback == {"none", "map", "unmap", "destroy"}
Level == 0 .. Opaque

(* The part of struct _win the model keeps.  want is the opacity            *)
(* calc_opacity would compute for the window if it is viewable; extents and *)
(* pixmap tell whether the region and the named pixmap are there.           *)
Win == [id : Id \cup {Null}, viewable : BOOLEAN, destroyed : BOOLEAN,
        opacity : Level, tgt : Level, want : Level, fade : BOOLEAN, fadeLast : BOOLEAN,
        cb : Callback, damaged : BOOLEAN, pixmap : BOOLEAN, extents : BOOLEAN,
        toPaint : BOOLEAN, prevTrans : Ptr \cup {Null},
        opctChange : BOOLEAN, inOpenclose : BOOLEAN]

(* win_def of add_win; also what stands in memory that is not allocated.    *)
WinDef ==
  [id |-> Null, viewable |-> FALSE, destroyed |-> FALSE,
   opacity |-> 0, tgt |-> 0, want |-> 0, fade |-> FALSE, fadeLast |-> FALSE,
   cb |-> "none", damaged |-> FALSE, pixmap |-> FALSE, extents |-> FALSE,
   toPaint |-> FALSE, prevTrans |-> Null,
   opctChange |-> FALSE, inOpenclose |-> FALSE]

Structs == ToSet(list)
Live(p) == p \in Structs /\ ~win[p].destroyed
IsLiveOf(p, id) == Live(p) /\ win[p].id = id
Found(id) == \E p \in Structs : IsLiveOf(p, id)
FindWin(id) == CHOOSE p \in Structs : IsLiveOf(p, id)

Init ==
  /\ ServerInit
  /\ list = <<>>
  /\ win = [p \in Ptr |-> WinDef]
  /\ activeWin = Null
  /\ allDamage = FALSE /\ redirected = FALSE
  /\ idling = FALSE /\ evReceived = FALSE
  /\ pc = "init" /\ boot = TRUE
  /\ steps = 0 /\ cur = Null /\ t = Null

------------------------------------------------------------------------------
(* Operations on one struct.                                                *)

DetermineFade(w) ==
  IF \/ NoFadingOpenclose /\ w.inOpenclose
     \/ w.id \in ArgbFramed /\ w.destroyed
  THEN [w EXCEPT !.fade = FALSE, !.fadeLast = FALSE]
  ELSE IF w.viewable THEN [w EXCEPT !.fade = w.id \in Fading] ELSE w

FinishMap(w) ==
  LET m == [w EXCEPT !.inOpenclose = FALSE]
  IN  IF NoFadingOpenclose THEN DetermineFade(m) ELSE m

FinishUnmap(w) ==
  [w EXCEPT !.damaged = FALSE, !.inOpenclose = FALSE,
            !.extents = FALSE, !.pixmap = FALSE]

(* A change that may give the window another opacity sets WFLAG_OPCT_CHANGE.*)
OpacityChanged(w, o) == [w EXCEPT !.opctChange = TRUE, !.want = o]

(* map_win's set_fade_callback(finish_map_win, true) runs the old callback  *)
(* after in_openclose was set.                                              *)
Mapped(w, o) ==
  LET open == [OpacityChanged(w, o) EXCEPT !.viewable = TRUE,
                        !.inOpenclose = TRUE, !.cb = "map"]
      ran == IF w.cb = "unmap" THEN FinishUnmap(open)
             ELSE IF w.cb = "map" THEN FinishMap(open) ELSE open
  IN  [DetermineFade(ran) EXCEPT !.damaged = FALSE]

(* Mutant of Unmapped: the flag that makes the fade-out begin is forgotten.  *)
UnmappedSilently(w, valid) ==
  IF ~w.viewable THEN w
  ELSE DetermineFade([w EXCEPT !.viewable = FALSE, !.cb = "unmap", !.inOpenclose = TRUE])

(* unmap_win; a fading window whose pixmap turns out invalid loses it.      *)
Unmapped(w, valid) ==
  IF ~w.viewable THEN w
  ELSE LET u == DetermineFade([w EXCEPT !.viewable = FALSE, !.opctChange = TRUE,
                                        !.cb = "unmap", !.inOpenclose = TRUE])
       IN  [u EXCEPT !.pixmap = @ /\ (u.fade => valid)]

(* Mutant of Destroyed: the callback is set before unmap_win sets its own.   *)
DestroyedThenUnmapped(w, valid) ==
  DetermineFade(Unmapped([w EXCEPT !.cb = "destroy", !.destroyed = TRUE], valid))

(* destroy_win.                                                             *)
Destroyed(w, valid) ==
  [DetermineFade([Unmapped(w, valid) EXCEPT !.destroyed = TRUE])
     EXCEPT !.cb = "destroy"]

------------------------------------------------------------------------------
(* add_win, map_win, unmap_win, destroy_win and the event handlers.         *)

(* win_set_focused(ps, f, TRUE) on the structs m: an unmapped window is     *)
(* left alone; the window that had the focus and the one that gets it have  *)
(* their opacity recalculated.                                              *)
SetFocused(m, f) ==
  IF m[f].viewable /\ activeWin # f
  THEN /\ activeWin' = f
       /\ \E o, o2 \in ViewTargets :
            win' = [p \in Ptr |-> CASE p = f -> OpacityChanged(m[p], o)
                                    [] p = activeWin -> OpacityChanged(m[p], o2)
                                    [] OTHER -> m[p]]
  ELSE activeWin' = activeWin /\ win' = m

(* recheck_focus on the structs m: the server's focus may be in any live    *)
(* window or in none compton knows.                                         *)
RecheckFocus(m) ==
  \/ activeWin' = activeWin /\ win' = m
  \/ \E f \in Structs : ~m[f].destroyed /\ SetFocused(m, f)

MapWin(id) ==
  IF Found(id) /\ ~win[FindWin(id)].viewable
  THEN \E o \in ViewTargets :
       LET p == FindWin(id)
           m == [win EXCEPT ![p] = Mapped(@, o)]
       IN  /\ IF TrackFocus THEN RecheckFocus(m)
              ELSE activeWin' = activeWin /\ win' = m
           /\ allDamage' = (allDamage \/ (/\ win[p].cb = "unmap"
                                          /\ win[p].extents /\ redirected))
           /\ idling' = (idling /\ win[p].cb = "none")
           /\ UNCHANGED list
  ELSE UNCHANGED <<listVars, allDamage, idling>>

(* Mutant of AddWin: a window that is viewable already is not mapped.        *)
AddWinUnmapped(id) ==
  \E attr \in Attributes(id) :
    IF Found(id) \/ attr = "fail"
    THEN UNCHANGED listVars
    ELSE \E p \in Ptr \ Structs :
           /\ list' = <<p>> \o list
           /\ win' = [win EXCEPT ![p] = [WinDef EXCEPT !.id = id]]
           /\ UNCHANGED activeWin

(* add_win(id, 0).  A window that is viewable already is mapped at once; it *)
(* has no callback yet, so nothing else happens on the way.                 *)
AddWin(id) ==
  \E attr \in Attributes(id) :
    IF Found(id) \/ attr = "fail"
    THEN UNCHANGED listVars
    ELSE \E p \in Ptr \ Structs, o \in ViewTargets :
           LET new == [WinDef EXCEPT !.id = id]
               m == [win EXCEPT ![p] = IF attr = "viewable" THEN Mapped(new, o) ELSE new]
           IN  /\ list' = <<p>> \o list
               /\ \/ activeWin' = activeWin /\ win' = m
                  \/ /\ attr = "viewable" /\ TrackFocus
                     /\ \E f \in Structs \cup {p} : ~m[f].destroyed /\ SetFocused(m, f)

(* Mutant of UnmapWin: the window is unmapped before it loses the focus.     *)
UnmapWinFirst(id) ==
  IF Found(id)
  THEN \E valid \in BOOLEAN :
         LET p == FindWin(id)
         IN  win' = [win EXCEPT ![p] = Unmapped(@, valid)] /\ UNCHANGED <<list, activeWin>>
  ELSE UNCHANGED listVars

UnmapWin(id) ==
  IF Found(id)
  THEN \E valid \in BOOLEAN :
         LET p == FindWin(id)
         IN  /\ win' = [win EXCEPT ![p] = Unmapped(@, valid)]
             /\ activeWin' = IF activeWin = p /\ win[p].viewable THEN Null ELSE activeWin
             /\ UNCHANGED list
  ELSE UNCHANGED listVars

DestroyWin(id) ==
  IF Found(id)
  THEN \E valid \in BOOLEAN :
         LET p == FindWin(id)
         IN  /\ win' = [win EXCEPT ![p] = Destroyed(@, valid)]
             /\ activeWin' = IF activeWin = p /\ win[p].viewable THEN Null ELSE activeWin
             /\ UNCHANGED list
  ELSE UNCHANGED listVars

(* ev_handle of the oldest event.                                           *)
Handle ==
  /\ pc = "loop"
  /\ evq # <<>>
  /\ evq' = Tail(evq)
  /\ evReceived' = TRUE
  /\ LET e == Head(evq) IN
       \/ e.type = "enter" /\ AddWin(e.id) /\ UNCHANGED <<allDamage, idling>>
       \/ e.type = "leave" /\ DestroyWin(e.id) /\ UNCHANGED <<allDamage, idling>>
       \/ e.type = "map" /\ MapWin(e.id)
       \/ e.type = "unmap" /\ UnmapWin(e.id) /\ UNCHANGED <<allDamage, idling>>
  /\ UNCHANGED <<sv, redirected, cycleVars>>

(* Events whose order with the others does not matter are not queued: they  *)
(* may arrive whenever the main loop looks for events.                      *)
Arrives ==
  /\ pc = "loop"
  /\ evReceived' = TRUE
  /\ UNCHANGED <<serverVars, list, redirected, idling, cycleVars>>

(* DamageNotify: repair_win.  The part of the damage under solid windows is *)
(* ignored, and that may be all of it.                                      *)
DamageWin ==
  /\ Arrives
  /\ \E p \in Structs, covered \in BOOLEAN :
       /\ Live(p) /\ win[p].viewable
       /\ win' = [win EXCEPT ![p].damaged = TRUE]
       /\ allDamage' = (allDamage \/ (redirected /\ ~covered))
  /\ UNCHANGED activeWin

(* FocusIn, FocusOut and _NET_ACTIVE_WINDOW: recheck_focus.                 *)
FocusEvent ==
  /\ TrackFocus
  /\ Arrives
  /\ RecheckFocus(win)
  /\ UNCHANGED allDamage

(* A property, D-Bus or group-focus change that sets WFLAG_OPCT_CHANGE.     *)
OpacityEvent ==
  /\ Arrives
  /\ \E p \in Structs, o \in ViewTargets :
       Live(p) /\ win' = [win EXCEPT ![p] = OpacityChanged(@, o)]
  /\ UNCHANGED <<activeWin, allDamage>>

(* Any other event: nothing in the model changes, or force_repaint.         *)
OtherEvent ==
  /\ Arrives
  /\ \/ UNCHANGED allDamage
     \/ allDamage' = (allDamage \/ redirected)
  /\ UNCHANGED <<win, activeWin>>

------------------------------------------------------------------------------
(* session_init adds the children of the root while the server is grabbed,  *)
(* bottom to top: each one is inserted above the one before it.             *)
InitAdd ==
  /\ pc = "init"
  /\ \E id \in Id : RootChild(id) /\ ~Found(id) /\ AddWin(id)
  /\ UNCHANGED <<serverVars, allDamage, redirected, idling, evReceived, cycleVars>>

InitDone ==
  /\ pc = "init"
  /\ \A id \in Id : RootChild(id) => Found(id)
  /\ IF TrackFocus THEN RecheckFocus(win) ELSE UNCHANGED <<win, activeWin>>
  /\ pc' = "pre"
  /\ cur' = IF list = <<>> THEN Null ELSE Head(list)
  /\ UNCHANGED <<serverVars, list, allDamage, redirected, idling, evReceived,
                 boot, steps, t>>

(* session_run after mainloop returned false: an event was handled, a fade  *)
(* timeout expired, or the time of tmout_unredir has come.  The first cycle *)
(* after an idle one finds fade_time 0 and makes no step.                   *)
BeginPaint(n) ==
  /\ pc = "loop"
  /\ evReceived \/ ~idling \/ UnredirIfPossible
  /\ n \in (IF idling THEN {0} ELSE 0 .. MaxSteps)
  /\ pc' = "pre"
  /\ idling' = TRUE
  /\ steps' = n
  /\ cur' = IF list = <<>> THEN Null ELSE Head(list)
  /\ t' = Null
  /\ UNCHANGED <<serverVars, listVars, allDamage, redirected, evReceived, boot>>

(* w->next, read before the callback of w may free it.                      *)
NextStruct(p) ==
  LET i == CHOOSE i \in DOMAIN list : list[i] = p
  IN  IF i = Len(list) THEN Null ELSE list[i + 1]

(* calc_opacity, if WFLAG_OPCT_CHANGE is set.                               *)
Target(w) ==
  IF ~w.opctChange THEN w.tgt
  ELSE IF w.destroyed \/ ~w.viewable THEN 0 ELSE w.want

(* Mutant of Faded: a step may go past the target.                           *)
FadedUnclamped(w) ==
  IF w.opacity = w.tgt \/ ~w.fade THEN w.tgt
  ELSE IF w.opacity < w.tgt THEN w.opacity + steps
       ELSE IF w.opacity < steps THEN 0 ELSE w.opacity - steps

(* run_fade.                                                                *)
Faded(w) ==
  IF w.opacity = w.tgt \/ ~w.fade THEN w.tgt
  ELSE IF w.opacity < w.tgt
       THEN IF w.opacity + steps > w.tgt THEN w.tgt ELSE w.opacity + steps
       ELSE IF w.opacity < w.tgt + steps THEN w.tgt ELSE w.opacity - steps

(* The struct after restoring the fade flag of an unmapped window,          *)
(* recalculating the target and fading.                                     *)
Restored(w) ==
  [w EXCEPT !.fade = IF w.viewable THEN @ ELSE w.fadeLast, !.tgt = Target(w)]
RunFade(w) == [Restored(w) EXCEPT !.opacity = Faded(Restored(w))]

(* Mutant of Shown: a window faded to nothing is painted.                    *)
ShownFaint(w) ==
  w.damaged /\ ((w.viewable /\ ~w.destroyed) \/ w.pixmap) /\ w.id \notin Hidden

(* to_paint.                                                                *)
Shown(w) ==
  /\ w.damaged
  /\ (w.viewable /\ ~w.destroyed) \/ w.pixmap
  /\ w.opacity > Faint
  /\ w.id \notin Hidden

(* The damage and the wakeup that follow from the step of window p from     *)
(* its old struct to w.                                                     *)
DamageOf(p, w, shown) ==
  allDamage \/ (/\ shown # win[p].toPaint \/ w.opacity # win[p].opacity
                /\ w.extents /\ redirected)

(* Mutant of IdleOf: a fade in progress does not keep the loop awake.        *)
IdleAnyway(w) == idling

IdleOf(w) == idling /\ w.opacity = w.tgt

(* Mutant of FinishDestroy: prev_trans is not cleared in the other structs.  *)
FinishDestroyOnly(id, m, damage) ==
  LET Match(i) == m[list[i]].id = id /\ m[list[i]].destroyed
      k == CHOOSE i \in DOMAIN list : Match(i) /\ \A j \in 1 .. i - 1 : ~Match(j)
      v == list[k]
  IN  /\ list' = RemoveAt(list, k)
      /\ activeWin' = IF activeWin = v THEN Null ELSE activeWin
      /\ win' = [m EXCEPT ![v] = WinDef]
      /\ allDamage' = (damage \/ (m[v].extents /\ redirected))

(* finish_destroy_win(id) on the structs m: the first struct on the list    *)
(* that is destroyed and has the id is unlinked and freed.                  *)
FinishDestroy(id, m, damage) ==
  LET Match(i) == m[list[i]].id = id /\ m[list[i]].destroyed
      k == CHOOSE i \in DOMAIN list : Match(i) /\ \A j \in 1 .. i - 1 : ~Match(j)
      v == list[k]
  IN  /\ list' = RemoveAt(list, k)
      /\ activeWin' = IF activeWin = v THEN Null ELSE activeWin
      /\ win' = [q \in Ptr |-> IF q = v THEN WinDef
                               ELSE IF m[q].prevTrans = v
                               THEN [m[q] EXCEPT !.prevTrans = Null]
                               ELSE m[q]]
      /\ allDamage' = (damage \/ (m[v].extents /\ redirected))

(* Mutant of FadeFinished: the callback does not wait for the fade.          *)
FadeFinishedAtOnce(w) == w.cb # "none"

FadeFinished(w) == w.cb # "none" /\ w.opacity = w.tgt

(* check_fade_fin(p), whose struct has become w, with the damage and the    *)
(* idle flag the step has led to.                                           *)
CheckFadeFin(p, w, damage, idle) ==
  \/ /\ ~FadeFinished(w)
     /\ win' = [win EXCEPT ![p] = w]
     /\ allDamage' = damage /\ idling' = idle
     /\ UNCHANGED <<list, activeWin>>
  \/ /\ FadeFinished(w) /\ w.cb = "map"
     /\ win' = [win EXCEPT ![p] = FinishMap([w EXCEPT !.cb = "none"])]
     /\ allDamage' = damage /\ idling' = FALSE
     /\ UNCHANGED <<list, activeWin>>
  \/ /\ FadeFinished(w) /\ w.cb = "unmap"
     /\ win' = [win EXCEPT ![p] = FinishUnmap([w EXCEPT !.cb = "none"])]
     /\ allDamage' = (damage \/ (w.extents /\ redirected)) /\ idling' = FALSE
     /\ UNCHANGED <<list, activeWin>>
  \/ /\ FadeFinished(w) /\ w.cb = "destroy"
     /\ FinishDestroy(w.id, [win EXCEPT ![p] = [w EXCEPT !.cb = "none"]], damage)
     /\ idling' = FALSE

(* One turn of the loop of paint_preprocess, for a window that is painted...*)
PreprocessShown ==
  /\ pc = "pre" /\ cur # Null
  /\ LET f == RunFade(win[cur])
         done == f.destroyed /\ f.opacity = f.tgt
         w == [f EXCEPT !.extents = TRUE, !.opctChange = FALSE, !.prevTrans = t,
                        !.toPaint = done => @,
                        !.fadeLast = IF done THEN @ ELSE f.fade]
     IN  /\ Shown(f)
         /\ win' = [win EXCEPT ![cur] = w]
         /\ allDamage' = DamageOf(cur, w, TRUE)
         /\ idling' = IdleOf(w)
  /\ t' = cur
  /\ cur' = NextStruct(cur)
  /\ UNCHANGED <<serverVars, list, activeWin, redirected, evReceived, pc, boot, steps>>

(* ... and for one that is not, whose callback runs if its fade is over.    *)
PreprocessSkipped ==
  /\ pc = "pre" /\ cur # Null
  /\ LET f == RunFade(win[cur])
         done == f.destroyed /\ f.opacity = f.tgt
         w == [f EXCEPT !.toPaint = done /\ @]
     IN  /\ ~Shown(f)
         /\ CheckFadeFin(cur, w, DamageOf(cur, w, FALSE), IdleOf(w))
  /\ cur' = NextStruct(cur)
  /\ UNCHANGED <<serverVars, redirected, evReceived, pc, boot, steps, t>>

(* The end of paint_preprocess decides whether the screen is redirected:    *)
(* with nothing painted it stays as it is, otherwise it depends on the      *)
(* topmost painted window and on the unredirection delay.  redir_stop frees *)
(* the pixmaps of all windows; redir_start repaints everything.             *)
Redirected ==
  IF ~UnredirIfPossible THEN {TRUE}
  ELSE IF t = Null THEN {redirected} ELSE BOOLEAN

EndPreprocess ==
  /\ pc = "pre" /\ cur = Null
  /\ redirected' \in Redirected
  /\ win' = IF redirected /\ ~redirected'
            THEN [p \in Ptr |-> [win[p] EXCEPT !.pixmap = FALSE]] ELSE win
  /\ allDamage' = (redirected' /\ (allDamage \/ ~redirected))
  /\ pc' = "paint"
  /\ cur' = IF allDamage' THEN t ELSE Null
  /\ UNCHANGED <<serverVars, list, activeWin, idling, evReceived, boot, steps, t>>

(* win_paint_win names the pixmap of a window of the chain, unless nothing  *)
(* of the damaged region is left for it under the windows above.            *)
PaintWin ==
  /\ pc = "paint" /\ cur # Null
  /\ \E seen \in BOOLEAN : win' = [win EXCEPT ![cur].pixmap = @ \/ seen]
  /\ cur' = win[cur].prevTrans
  /\ UNCHANGED <<serverVars, list, activeWin, allDamage, redirected, idling,
                 evReceived, pc, boot, steps, t>>

(* The last loop of paint_all is entered only if there was damage.          *)
EndPaint ==
  /\ pc = "paint" /\ cur = Null
  /\ pc' = "post"
  /\ cur' = IF allDamage THEN t ELSE Null
  /\ UNCHANGED <<serverVars, listVars, allDamage, redirected, idling, evReceived,
                 boot, steps, t>>

PostPaint ==
  /\ pc = "post" /\ cur # Null
  /\ CheckFadeFin(cur, win[cur], allDamage, idling)
  /\ cur' = win[cur].prevTrans
  /\ UNCHANGED <<serverVars, redirected, evReceived, pc, boot, steps, t>>

(* Back to the main loop.  The first cycle of session_run does not reset    *)
(* all_damage, and clears idling after it.                                  *)
EndCycle ==
  /\ pc = "post" /\ cur = Null
  /\ pc' = "loop"
  /\ allDamage' = (boot /\ allDamage)
  /\ idling' = (idling /\ ~boot)
  /\ evReceived' = FALSE
  /\ boot' = FALSE
  /\ steps' = 0 /\ t' = Null
  /\ UNCHANGED <<serverVars, listVars, redirected, cur>>

------------------------------------------------------------------------------
(* The server's steps.  They commute with those of a paint cycle, which     *)
(* neither reads nor writes the server's state, so they are taken between   *)
(* cycles.  Room: the model has an address for every struct.                *)
(* Unless Overlap, a window leaves the root only after the struct of its    *)
(* earlier departure is freed.                                              *)
Room ==
  Cardinality(Structs) + Cardinality({i \in DOMAIN evq : evq[i].type = "enter"})
    < Cardinality(Ptr)
Departing(id) ==
  \/ \E p \in Structs : win[p].id = id /\ win[p].destroyed
  \/ \E i \in DOMAIN evq : evq[i].type = "leave" /\ evq[i].id = id

ServerStep ==
  /\ pc = "loop"
  /\ \E id \in Id :
       \/ Room /\ Enter(id)
       \/ Map(id)
       \/ Unmap(id)
       \/ (Overlap \/ ~Departing(id)) /\ \E to \in LeaveTo : Leave(id, to)
       \/ DestroyElsewhere(id)
  /\ UNCHANGED <<listVars, allDamage, redirected, idling, evReceived, cycleVars>>

Preprocess == PreprocessShown \/ PreprocessSkipped \/ EndPreprocess
Paint == PaintWin \/ EndPaint \/ PostPaint \/ EndCycle

Next ==
  \/ InitAdd \/ InitDone
  \/ ServerStep
  \/ Handle \/ DamageWin \/ FocusEvent \/ OpacityEvent \/ OtherEvent
  \/ \E n \in 0 .. MaxSteps : BeginPaint(n)
  \/ Preprocess \/ Paint

Spec == Init /\ [][Next]_vars

------------------------------------------------------------------------------
TypeOK ==
  /\ ServerTypeOK
  /\ list \in Seq(Ptr)
  /\ win \in [Ptr -> Win]
  /\ activeWin \in Ptr \cup {Null}
  /\ allDamage \in BOOLEAN /\ redirected \in BOOLEAN
  /\ idling \in BOOLEAN /\ evReceived \in BOOLEAN
  /\ pc \in {"init", "loop", "pre", "paint", "post"} /\ boot \in BOOLEAN
  /\ steps \in 0 .. MaxSteps
  /\ cur \in Ptr \cup {Null} /\ t \in Ptr \cup {Null}

(* TypeOK is not inductive: it takes that a struct with destroy_callback is *)
(* on the list, marked destroyed, for finish_destroy_win to find one, and   *)
(* that the cursor of paint_preprocess is on the list.                      *)
CallbackOK ==
  \A p \in Ptr : /\ win[p].cb = "destroy" => win[p].destroyed
                 /\ p \notin Structs => win[p].cb = "none"
CursorOK == pc = "pre" => cur \in Structs \cup {Null}
TypeInv == TypeOK /\ CallbackOK /\ CursorOK

(* No pointer outlives the struct it points to: finish_destroy_win runs in  *)
(* the middle of the paint cycle and must leave prev_trans, active_win, the *)
(* loop variable and the chain of painted windows on structs of the list.   *)
NoDangling ==
  /\ \A p \in Structs : win[p].prevTrans \in Structs \cup {Null}
  /\ activeWin \in Structs \cup {Null}
  /\ cur \in Structs \cup {Null}
  /\ t \in Structs \cup {Null}

(* The assertion of paint_preprocess: a struct is marked destroyed exactly  *)
(* while its fade callback is destroy_callback, so it is freed in the end.  *)
DestroyedIffCallback ==
  \A p \in Structs : win[p].destroyed <=> win[p].cb = "destroy"

(* Only a live, viewable window has the focus: win_set_focused ignores an   *)
(* unmapped window, so unmap_win must take the focus away before, and       *)
(* map_win asserts that the window it maps does not have it.                *)
FocusIsViewable ==
  activeWin # Null => Live(activeWin) /\ win[activeWin].viewable

(* paint_all destroys the damage region before its last loop runs the       *)
(* callbacks, and ps->all_damage still names it there: none of them may be  *)
(* one that adds damage.                                                    *)
NoDamageAfterPaint ==
  pc = "post" /\ cur # Null /\ FadeFinished(win[cur]) => win[cur].cb = "map"

(* The main loop sleeps without a timeout only when nothing is left to do:  *)
(* no window is in the middle of a fade, has a target to recompute, or      *)
(* waits for the end of its fade-out to give back its pixmap or its struct. *)
Asleep == pc = "loop" /\ idling /\ ~evReceived
NoLostFade ==
  Asleep => \A p \in Structs :
              /\ win[p].opacity = win[p].tgt /\ win[p].tgt = Target(win[p])
              /\ win[p].cb \in {"none", "map"}

(* Once every event is handled the list agrees with the server: one live    *)
(* struct for every child of the root and none else, mapped as it is.       *)
InSync ==
  pc = "loop" /\ evq = <<>> =>
    /\ \A id \in Id : RootChild(id) <=> Found(id)
    /\ \A p \in Structs : Live(p) =>
         /\ \A q \in Structs : IsLiveOf(q, win[p].id) => q = p
         /\ win[p].viewable <=> sv[win[p].id] = "viewable"

(* A struct goes only when its own fade-out is over: a fading window has    *)
(* come within one cycle's steps of opacity 0.                              *)
FreedWhenFaded ==
  [][\A p \in Structs :
       p \notin ToSet(list') =>
         /\ win[p].destroyed
         /\ win[p].opacity <= (IF win[p].fadeLast THEN steps ELSE Opaque)]_vars

(* With --no-fading-openclose no window fades while it opens: until         *)
(* finish_map_win has run, a window that is not at its target opacity gets  *)
(* there in one step.                                                       *)
NoFadeWhileOpening ==
  NoFadingOpenclose =>
    \A p \in Structs :
      win[p].cb = "map" /\ win[p].opacity # Target(win[p]) => ~win[p].fade

------------------------------------------------------------------------------
(* Fairness: the thread is scheduled, a pause in the events lets the main   *)
(* loop paint, and select() returns when the fade timeout is over; nothing  *)
(* is assumed of tmout_unredir.  Time goes on, so while cycles go on some   *)
(* of them find a fade_delta elapsed.                                       *)
Fairness ==
  /\ WF_vars(InitAdd \/ InitDone \/ Preprocess \/ Paint)
  /\ WF_vars(Handle)
  /\ WF_vars((evReceived \/ ~idling) /\ \E n \in 0 .. MaxSteps : BeginPaint(n))
  /\ SF_vars(\E n \in 1 .. MaxSteps : BeginPaint(n))

FairSpec == Spec /\ Fairness

(* A window that left the root is freed in the end, however windows come    *)
(* and go meanwhile: nothing but the fade callback frees its struct.        *)
FadingOut(id) == \E p \in Structs : win[p].id = id /\ win[p].destroyed
DestroyedIsFreed == \A id \in Id : FadingOut(id) ~> ~FadingOut(id)

==============================================================================
