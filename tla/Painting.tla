------------------------------ MODULE Painting ------------------------------
(****************************************************************************)
(* What painting keeps between frames: the pixmap of a window and what is   *)
(* made of it, its shadow, the blur cache, the wallpaper and the buffer     *)
(* frames are painted to, with each backend.                                *)
(*                                                                          *)
(* The X server makes a new pixmap when a window is mapped or resized, and  *)
(* the events that say so come later.  A pixmap that compton named lives on *)
(* until compton frees it; OpenGL objects live as long as their context.    *)
(****************************************************************************)
EXTENDS Integers, Sequences

CONSTANTS
  Configs,     \* the configurations: a set of Config
  Sizes,       \* sizes of the window
  RootSizes,   \* sizes of the root
  MaxEvents    \* bound: events on the way

None == "none"

(* backend and dbe; reredir_on_root_change or glx_reinit_on_root_change     *)
Config ==
  [backend : {"xrender", "dbe", "glx", "hybrid"}, onroot : {None, "reredir", "reinit"}]

ASSUME PaintingAssumption ==
  Configs \subseteq Config /\ None \notin Sizes \cup RootSizes /\ MaxEvents \in Nat

VARIABLES
  cfg,      \* the backend, and what is done when the root changes
  x,        \* the X server: the window, the root and its wallpaper
  queue,    \* events on the way
  ps,       \* the session and its window
  running   \* session_init() is done, session_destroy() is not
vars == <<cfg, x, queue, ps, running>>

(* The members that hold resources: of a paint_t the pixmap, the X Render   *)
(* picture and the texture, and the fences and the blur cache.              *)
WPaint == {"pixmap", "pict", "tex"}
Shadow == {"shadow_pixmap", "shadow_pict", "shadow_tex"}
Blur == {"blur_textures", "blur_fbo"}
Tile == {"tile_pixmap", "tile_pict", "tile_tex"}
Buffer == {"buffer_pixmap", "buffer_pict", "buffer_tex"}
Member == WPaint \cup Shadow \cup Blur \cup Tile \cup Buffer \cup {"fence", "buffer_fence"}
GLObjects == {"tex", "shadow_tex", "tile_tex", "buffer_tex"} \cup Blur

(* A pixmap of the server is the current one, or an old one that compton    *)
(* still names; "junk" is an XID that names nothing; "own" was made by      *)
(* compton, as were sizes; "dead" an object of a context that is gone.      *)
Value == {None, "current", "old", "junk", "own", "dead"} \cup Sizes \cup RootSizes

Event == [type : {"map", "unmap", "configure", "damage", "destroy", "rootsize", "rootprop"},
          size : Sizes \cup RootSizes \cup {None}]
Ev(type) == [type |-> type, size |-> None]

glx == cfg.backend = "glx"
xrender == ~glx

------------------------------------------------------------------------------
(* Resources.  held: what the members say; alive: how many there are.       *)

Owned(k, v) ==
  /\ v \notin {None, "junk"}
  /\ k = "tile_pixmap" => v = "own"

Count(s, k) == IF Owned(k, s.held[k]) THEN 1 ELSE 0

Make(s, k, v) ==
  [s EXCEPT !.held[k] = v, !.alive[k] = IF Owned(k, v) THEN @ + 1 ELSE @]

MakeUnless(s, k, v) == IF s.held[k] = None THEN Make(s, k, v) ELSE s

(* free_paint(), free_texture(), free_fence() and their like.               *)
Free(s, K) ==
  [s EXCEPT !.held = [k \in Member |-> IF k \in K THEN None ELSE @[k]],
            !.alive = [k \in Member |-> IF k \in K THEN @[k] - Count(s, k) ELSE @[k]],
            !.fresh = @ /\ "tex" \notin K]

(* free_win_res()                                                           *)
FreeWinRes(s) == Free(s, WPaint \cup Shadow \cup Blur)

------------------------------------------------------------------------------
(* The session.                                                             *)

NoResources == [k \in Member |-> None]

(* session_init(): add_win() and map_win() of the window that is there.     *)
NewSession(s) ==
  [listed |-> s.exists, viewable |-> s.mapped, size |-> s.size, need |-> None,
   sizechange |-> s.exists, damaged |-> FALSE, pixmap_damaged |-> FALSE,
   fresh |-> FALSE, fade |-> IF s.mapped THEN "map" ELSE None,
   redirected |-> FALSE, root |-> s.root,
   held |-> NoResources, alive |-> [k \in Member |-> 0]]

(* XDamageCreate() reports the window that is there.                        *)
Reported(s) == IF s.mapped THEN <<Ev("damage")>> ELSE <<>>

Init ==
  /\ cfg \in Configs
  /\ \E size \in Sizes, root \in RootSizes, mapped \in BOOLEAN :
       x = [exists |-> TRUE, mapped |-> mapped, size |-> size, root |-> root,
            wall |-> TRUE, reported |-> mapped]
  /\ queue = Reported(x)
  /\ ps = NewSession(x)
  /\ running = TRUE

------------------------------------------------------------------------------
(* The server and its clients.                                              *)

Send(events) ==
  /\ Len(queue) + Len(events) <= MaxEvents
  /\ queue' = queue \o events

Outdate(k) == [ps EXCEPT !.held[k] = IF @ = "current" THEN "old" ELSE @]

XMap ==
  /\ x.exists /\ ~x.mapped
  /\ x' = [x EXCEPT !.mapped = TRUE]
  /\ Send(<<Ev("map")>>)
  /\ ps' = Outdate("pixmap")

XUnmap ==
  /\ x.mapped
  /\ x' = [x EXCEPT !.mapped = FALSE]
  /\ Send(<<Ev("unmap")>>)
  /\ ps' = Outdate("pixmap")

XResize(size) ==
  /\ x.exists /\ size # x.size
  /\ x' = [x EXCEPT !.size = size]
  /\ Send(<<[type |-> "configure", size |-> size]>>)
  /\ ps' = IF x.mapped THEN Outdate("pixmap") ELSE ps

(* Damage is reported when there was none.                                  *)
XDraw ==
  /\ x.mapped
  /\ x' = [x EXCEPT !.reported = TRUE]
  /\ Send(IF x.reported THEN <<>> ELSE <<Ev("damage")>>)
  /\ ps' = [ps EXCEPT !.fresh = @ /\ ps.held["pixmap"] # "current"]

XDestroy ==
  /\ x.exists
  /\ x' = [x EXCEPT !.exists = FALSE, !.mapped = FALSE]
  /\ Send(IF x.mapped THEN <<Ev("unmap"), Ev("destroy")>> ELSE <<Ev("destroy")>>)
  /\ ps' = Outdate("pixmap")

XRootSize(root) ==
  /\ root # x.root
  /\ x' = [x EXCEPT !.root = root]
  /\ Send(<<[type |-> "rootsize", size |-> root]>>)
  /\ UNCHANGED ps

(* A program sets another wallpaper, or none.                               *)
XWallpaper(wall) ==
  /\ wall \/ x.wall
  /\ x' = [x EXCEPT !.wall = wall]
  /\ Send(<<Ev("rootprop")>>)
  /\ ps' = Outdate("tile_pixmap")

Server ==
  \/ XMap \/ XUnmap \/ XDraw \/ XDestroy
  \/ \E size \in Sizes : XResize(size)
  \/ \E root \in RootSizes : XRootSize(root)
  \/ \E wall \in BOOLEAN : XWallpaper(wall)

------------------------------------------------------------------------------
(* The handlers.                                                            *)

FinishUnmapWin(s) ==
  Free([s EXCEPT !.damaged = FALSE], WPaint \cup {"fence"} \cup Shadow)

(* Mutant of FinishDestroyWin: free() without free_win_res().               *)
FinishDestroyWinOnly(s) ==
  [FinishUnmapWin(s) EXCEPT !.listed = FALSE,
                            !.held = [k \in Member |-> IF k \in Blur THEN None ELSE @[k]]]

FinishDestroyWin(s) == [FreeWinRes(FinishUnmapWin(s)) EXCEPT !.listed = FALSE]

(* What the fade callback does: set_fade_callback() and check_fade_fin().   *)
Callback(s) ==
  LET done == [s EXCEPT !.fade = None]
  IN  CASE s.fade = "unmap"   -> FinishUnmapWin(done)
        [] s.fade = "destroy" -> FinishDestroyWin(done)
        [] OTHER              -> done

(* Mutant of Resized: the pixmap goes, and not what was made of it.         *)
ResizedPixmap(s, size) ==
  IF size = s.size THEN s
  ELSE [Free(s, {"pixmap", "fence"}) EXCEPT !.size = size, !.sizechange = TRUE]

(* configure_win() of a window that is mapped: calc_win_size().             *)
Resized(s, size) ==
  IF size = s.size THEN s
  ELSE [Free(s, WPaint \cup {"fence"}) EXCEPT !.size = size, !.sizechange = TRUE]

ConfigureWin(s, size) ==
  IF ~s.listed \/ s.fade = "destroy" THEN s
  ELSE IF ~s.viewable THEN [s EXCEPT !.need = size]
  ELSE Resized([s EXCEPT !.need = None], size)

MapWin(s) ==
  IF ~s.listed \/ s.viewable \/ s.fade = "destroy" THEN s
  ELSE LET mapped == [Callback(s) EXCEPT !.viewable = TRUE, !.fade = "map",
                                         !.damaged = FALSE]
       IN  IF s.need = None THEN mapped ELSE ConfigureWin(mapped, s.need)

(* win_validate_pixmap(): while a window fades out, what it is painted with *)
(* must be valid.                                                           *)
Validated(s) == IF s.held["pixmap"] \in {None, "junk"} THEN Free(s, WPaint) ELSE s

UnmapWin(s, fades) ==
  IF ~s.listed \/ ~s.viewable THEN s
  ELSE LET unmapped == Free([s EXCEPT !.viewable = FALSE, !.fade = "unmap"], {"fence"})
       IN  IF fades THEN Validated(unmapped) ELSE unmapped

DestroyWin(s, fades) ==
  IF ~s.listed \/ s.fade = "destroy" THEN s
  ELSE [UnmapWin(s, fades) EXCEPT !.fade = "destroy"]

(* repair_win()                                                             *)
RepairWin(s) ==
  IF s.listed /\ s.viewable
  THEN [s EXCEPT !.damaged = TRUE, !.pixmap_damaged = TRUE]
  ELSE s

RedirStop(s) ==
  IF s.redirected THEN [Free(s, WPaint \cup {"fence"}) EXCEPT !.redirected = FALSE] ELSE s

(* glx_destroy(): what windows have is freed, and the context takes the     *)
(* rest with it.                                                            *)
GlxDestroy(s) ==
  LET freed == Free(s, {"tex", "shadow_tex"} \cup Blur)
  IN  [freed EXCEPT
         !.held = [k \in Member |-> IF k \in GLObjects /\ @[k] # None THEN "dead" ELSE @[k]],
         !.alive = [k \in Member |-> IF k \in GLObjects THEN 0 ELSE @[k]]]

(* configure_win() of the root.  Redirecting again makes new pixmaps.       *)
ConfigureRoot(s, root) ==
  LET resized == [Free(s, Buffer) EXCEPT !.root = root]
      again == IF cfg.onroot = "reredir" THEN [RedirStop(resized) EXCEPT !.redirected = s.redirected]
               ELSE resized
  IN  IF cfg.onroot = "reinit" THEN GlxDestroy(again) ELSE again

(* root_damaged(): free_root_tile()                                         *)
RootDamaged(s) == Free(s, Tile)

(* An event, when the window is one that fades, or not.                     *)
Handled(s, ev, fades) ==
  CASE ev.type = "map"       -> MapWin(s)
    [] ev.type = "unmap"     -> UnmapWin(s, fades)
    [] ev.type = "configure" -> ConfigureWin(s, ev.size)
    [] ev.type = "damage"    -> RepairWin(s)
    [] ev.type = "destroy"   -> DestroyWin(s, fades)
    [] ev.type = "rootsize"  -> ConfigureRoot(s, ev.size)
    [] ev.type = "rootprop"  -> RootDamaged(s)

(* repair_win() takes the damage from the server, unless the window is      *)
(* unmapped.                                                                *)
Handle ==
  /\ running /\ queue # <<>>
  /\ \E fades \in BOOLEAN : ps' = Handled(ps, Head(queue), fades)
  /\ queue' = Tail(queue)
  /\ x' = IF Head(queue).type = "damage" /\ ps.listed /\ ps.viewable
          THEN [x EXCEPT !.reported = FALSE] ELSE x
  /\ UNCHANGED <<cfg, running>>

------------------------------------------------------------------------------
(* A frame.                                                                 *)

(* The buffer of paint_all(): of the back buffer when there is one.         *)
TgtBuffer(s) ==
  IF xrender /\ s.held["buffer_pict"] # None THEN s
  ELSE IF cfg.backend = "dbe" THEN Make(s, "buffer_pict", "own")
  ELSE LET pixmap == IF s.held["buffer_pixmap"] = None
                     THEN Make(Free(s, Buffer), "buffer_pixmap", s.root) ELSE s
       IN  IF xrender THEN Make(pixmap, "buffer_pict", "own") ELSE pixmap

(* paint_root(): get_root_tile()                                            *)
PaintRoot(s) ==
  IF s.held["tile_pixmap"] # None THEN s
  ELSE LET tile == Make(Make(s, "tile_pixmap", IF x.wall THEN "current" ELSE "own"),
                        "tile_pict", "own")
       IN  IF glx THEN MakeUnless(tile, "tile_tex", "own") ELSE tile

(* win_build_shadow() and win_paint_shadow()                                *)
PaintShadow(s) ==
  LET built == IF s.held["shadow_pixmap"] # None THEN s
               ELSE Make(Make(s, "shadow_pixmap", s.size), "shadow_pict", "own")
  IN  IF glx THEN MakeUnless(built, "shadow_tex", "own") ELSE built

(* glx_blur_dst(): the textures have the size of the window.                *)
BlurBackground(s) ==
  IF ~glx THEN s
  ELSE LET sized == IF s.held["blur_textures"] = s.size THEN s ELSE Free(s, {"blur_textures"})
       IN  MakeUnless(MakeUnless(sized, "blur_textures", s.size), "blur_fbo", "own")

(* What XCompositeNameWindowPixmap() gives: an XID, if a bad one.           *)
Named == IF x.mapped /\ ps.listed THEN "current" ELSE "junk"

(* Mutant of BindTex: a texture that is there is good enough.               *)
BindTexOnce(s) ==
  IF ~glx \/ s.held["pixmap"] = "junk" THEN s
  ELSE [MakeUnless(s, "tex", "own") EXCEPT !.fresh = @ \/ s.held["tex"] = None]

(* glx_bind_pixmap(): binds again what was damaged, and fails for no pixmap. *)
BindTex(s) ==
  IF ~glx \/ s.held["pixmap"] = "junk" THEN s
  ELSE [MakeUnless(s, "tex", "own")
          EXCEPT !.fresh = @ \/ s.pixmap_damaged \/ s.held["tex"] = None]

(* win_paint_win()                                                          *)
PaintWin(s) ==
  LET named == IF s.held["pixmap"] # None THEN s
               ELSE Make(Free(s, {"fence"}), "pixmap", Named)
      pict == IF xrender
              THEN MakeUnless(named, "pict",
                              IF named.held["pixmap"] = "junk" THEN "junk" ELSE "own")
              ELSE named
      synced == IF s.viewable THEN MakeUnless(pict, "fence", "own") ELSE pict
  IN  [BindTex(synced) EXCEPT !.pixmap_damaged = FALSE]

(* With the hybrid backend, the buffer is bound to a texture in the end.    *)
BindBuffer(s) ==
  IF cfg.backend # "hybrid" THEN s
  ELSE MakeUnless(MakeUnless(s, "buffer_fence", "own"), "buffer_tex", "own")

PaintAll(s, window) ==
  LET background == PaintRoot(TgtBuffer(s))
  IN  BindBuffer(IF window THEN PaintWin(BlurBackground(PaintShadow(background)))
                 ELSE background)

(* paint_preprocess(): a shadow of another size is removed.                 *)
Expired(s) == IF s.listed /\ s.sizechange THEN Free(s, Shadow) ELSE s

(* Whether the window is painted, if it can be seen at all.                 *)
ToPaint(s) ==
  /\ s.listed /\ s.damaged
  /\ s.viewable \/ s.held["pixmap"] # None

(* A cycle of session_run().  painted: the window can be seen, and is to be *)
(* painted; over: its fade is; damage: there is some to paint, as there is  *)
(* when redir_start() redirects the screen.                                 *)
Cycle(painted, over, damage, redirect) ==
  LET expired == [Expired(ps) EXCEPT !.sizechange = @ /\ ~painted]
      kept == IF over /\ ~painted THEN Callback(expired) ELSE expired
      redirected == IF redirect THEN [kept EXCEPT !.redirected = TRUE] ELSE RedirStop(kept)
      frame == IF damage THEN PaintAll(redirected, painted) ELSE redirected
  IN  /\ running
      /\ painted => ToPaint(ps)
      /\ over => ps.fade # None
      /\ damage => redirect
      /\ redirect => damage \/ ps.redirected
      /\ ps' = IF over /\ painted /\ damage THEN Callback(frame) ELSE frame
      /\ UNCHANGED <<cfg, x, queue, running>>

(* session_destroy()                                                        *)
SessionDestroy(s) ==
  GlxDestroy(Free(FreeWinRes(RedirStop(s)), Buffer \cup {"buffer_fence"} \cup Tile))

Quit ==
  /\ running
  /\ running' = FALSE
  /\ ps' = [SessionDestroy(ps) EXCEPT !.listed = FALSE]
  /\ queue' = <<>>          \* XSync(ps->dpy, True)
  /\ UNCHANGED <<cfg, x>>

(* main() starts again after a reset.                                       *)
Restart ==
  /\ ~running
  /\ running' = TRUE
  /\ ps' = NewSession(x)
  /\ queue' = Reported(x)
  /\ x' = [x EXCEPT !.reported = x.mapped]
  /\ UNCHANGED cfg

Next ==
  \/ Server /\ running /\ UNCHANGED <<cfg, running>>
  \/ Handle
  \/ \E painted, over, damage, redirect \in BOOLEAN : Cycle(painted, over, damage, redirect)
  \/ Quit
  \/ Restart

Spec == Init /\ [][Next]_vars

------------------------------------------------------------------------------
TypeOK ==
  /\ cfg \in Config
  /\ x.size \in Sizes /\ x.root \in RootSizes
  /\ queue \in Seq(Event)
  /\ ps.size \in Sizes /\ ps.root \in RootSizes /\ ps.need \in Sizes \cup {None}
  /\ ps.held \in [Member -> Value]
  /\ ps.fade \in {None, "map", "unmap", "destroy"}
  /\ (ps.held["pixmap"] = None => ps.held["pict"] = None /\ ps.held["tex"] = None)

(* With every event handled, what is kept of a window that is mapped, of    *)
(* the wallpaper and of the screen is not out of date, unless a flag says   *)
(* so: the pixmap is the window's own, its texture shows what was drawn,    *)
(* shadow and buffer have the right size, and damage will be reported.      *)
Current ==
  running /\ queue = <<>> =>
    /\ (ps.listed /\ ps.viewable =>
          /\ x.mapped /\ ~x.reported
          /\ ps.held["pixmap"] \in {None, "current"}
          /\ (ps.held["tex"] # None /\ ~ps.pixmap_damaged => ps.fresh)
          /\ (ps.held["shadow_pixmap"] \in {None, x.size} \/ ps.sizechange))
    /\ ps.held["tile_pixmap"] \in {None, IF x.wall THEN "current" ELSE "own"}
    /\ ps.held["buffer_pixmap"] \in {None, x.root}

(* What exists is what the structs hold, no more, so that nothing leaks,    *)
(* and no less, so that nothing is used or freed that is gone; after        *)
(* session_destroy() nothing is left.  The texture of the wallpaper is left *)
(* out when OpenGL is reinitialized: glx_destroy() forgets it.              *)
Accounted ==
  \A k \in Member :
    \/ ps.alive[k] = Count(ps, k) /\ (~running => ps.alive[k] = 0)
    \/ k = "tile_tex" /\ cfg.onroot = "reinit"
==============================================================================
