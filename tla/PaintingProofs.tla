---------------------------- MODULE PaintingProofs ----------------------------
(****************************************************************************)
(* Theorems about Painting, for any backends, sizes and number of events on *)
(* the way.                                                                 *)
(****************************************************************************)
EXTENDS Painting, SequenceTheorems, WellFoundedInduction, TLAPS

Window ==
  [exists : BOOLEAN, mapped : BOOLEAN, size : Sizes, root : RootSizes,
   wall : BOOLEAN, reported : BOOLEAN]
Session ==
  [listed : BOOLEAN, viewable : BOOLEAN, size : Sizes, need : Sizes \cup {None},
   sizechange : BOOLEAN, damaged : BOOLEAN, pixmap_damaged : BOOLEAN,
   fresh : BOOLEAN, fade : {None, "map", "unmap", "destroy"},
   redirected : BOOLEAN, root : RootSizes,
   held : [Member -> Value], alive : [Member -> Int]]

(* The events carry the sizes their types call for.                         *)
SizedEvent ==
  {e \in Event : /\ e.type = "configure" => e.size \in Sizes
                 /\ e.type = "rootsize" => e.size \in RootSizes}

(* OpenGL is reinitialized without the texture of the wallpaper.            *)
Forgotten(k) == k = "tile_tex" /\ cfg.onroot = "reinit"

(* The members of a session account for what exists; a picture is made of a *)
(* pixmap that is there, and a window has a fence only while the screen is  *)
(* redirected.                                                              *)
Balanced(s) == \A k \in Member : Forgotten(k) \/ s.alive[k] = Count(s, k)
Layered(s) ==
  /\ s.held["pixmap"] = None => s.held["pict"] = None /\ s.held["tex"] = None
  /\ s.held["shadow_pixmap"] = None => s.held["shadow_pict"] = None
  /\ s.held["tile_pixmap"] = None => s.held["tile_pict"] = None
  /\ s.held["fence"] # None => s.redirected

Sound(s) == s \in Session /\ Balanced(s) /\ Layered(s)

IInv ==
  /\ cfg \in Config /\ running \in BOOLEAN
  /\ x \in Window
  /\ queue \in Seq(SizedEvent)
  /\ Sound(ps)
  /\ ~running => ps.held = NoResources

------------------------------------------------------------------------------
(* Resources.                                                               *)
LEMMA MembersAre ==
  /\ WPaint \subseteq Member /\ Shadow \subseteq Member /\ Blur \subseteq Member
  /\ Tile \subseteq Member /\ Buffer \subseteq Member
  /\ {"fence", "buffer_fence"} \subseteq Member /\ GLObjects \subseteq Member
BY DEF Member, GLObjects, WPaint, Shadow, Blur, Tile, Buffer

(* What is freed is gone from the struct and from the server, and nothing   *)
(* else is.                                                                 *)
LEMMA FreeFields ==
  ASSUME NEW s \in Session, NEW K \in SUBSET Member
  PROVE  /\ Free(s, K) \in Session
         /\ \A k \in K : Free(s, K).held[k] = None
         /\ \A k \in Member \ K : Free(s, K).held[k] = s.held[k]
         /\ \A k \in Member : Free(s, K).alive[k] =
              IF k \in K THEN s.alive[k] - Count(s, k) ELSE s.alive[k]
         /\ Free(s, K).redirected = s.redirected
<1> DEFINE h == [k \in Member |-> IF k \in K THEN None ELSE s.held[k]]
           a == [k \in Member |-> IF k \in K THEN s.alive[k] - Count(s, k) ELSE s.alive[k]]
<1>1. Free(s, K) = [s EXCEPT !.held = h, !.alive = a, !.fresh = @ /\ "tex" \notin K]
  BY DEF Free, Session
<1>2. h \in [Member -> Value] /\ a \in [Member -> Int]
  BY DEF Session, Value, Count
<1>3. \A k \in Member : /\ h[k] = IF k \in K THEN None ELSE s.held[k]
                        /\ a[k] = IF k \in K THEN s.alive[k] - Count(s, k) ELSE s.alive[k]
  OBVIOUS
<1> HIDE DEF h, a
<1>4. Free(s, K) \in Session /\ Free(s, K).held = h /\ Free(s, K).alive = a
      /\ Free(s, K).redirected = s.redirected
  BY <1>1, <1>2 DEF Session
<1> QED
  BY <1>3, <1>4

(* Sets of members that are freed together.                                 *)
Together(K) ==
  /\ K \subseteq Member
  /\ "pixmap" \in K => "pict" \in K /\ "tex" \in K
  /\ "shadow_pixmap" \in K => "shadow_pict" \in K
  /\ "tile_pixmap" \in K => "tile_pict" \in K

LEMMA FreeSound ==
  ASSUME NEW s, Sound(s), NEW K, Together(K)
  PROVE  Sound(Free(s, K))
<1>1. s \in Session /\ K \subseteq Member
  BY DEF Sound, Together
<1>2. Free(s, K) \in Session
  BY <1>1, FreeFields
<1>3. Balanced(Free(s, K))
  <2> SUFFICES ASSUME NEW k \in Member, ~Forgotten(k)
               PROVE  Free(s, K).alive[k] = Count(Free(s, K), k)
    BY DEF Balanced
  <2>1. s.alive[k] = Count(s, k) /\ Count(s, k) \in Int
    BY DEF Sound, Balanced, Count
  <2>2. CASE k \in K
    BY <1>1, <2>1, <2>2, FreeFields DEF Count, Owned
  <2>3. CASE k \notin K
    BY <1>1, <2>1, <2>3, FreeFields DEF Count
  <2> QED
    BY <2>2, <2>3
<1>4. Layered(Free(s, K))
  <2>1. {"pixmap", "pict", "tex", "shadow_pixmap", "shadow_pict", "tile_pixmap",
         "tile_pict", "fence"} \subseteq Member
    BY DEF Member, WPaint, Shadow, Tile
  <2> QED
    BY <1>1, <2>1, FreeFields DEF Layered, Sound, Together
<1> QED
  BY <1>2, <1>3, <1>4 DEF Sound

(* A member may be made that holds nothing, on a pixmap that is there.      *)
Makeable(s, k) ==
  /\ k \in Member /\ s.held[k] = None
  /\ k \in {"pict", "tex"} => s.held["pixmap"] # None
  /\ k = "shadow_pict" => s.held["shadow_pixmap"] # None
  /\ k = "tile_pict" => s.held["tile_pixmap"] # None
  /\ k = "fence" => s.redirected

LEMMA MakeFields ==
  ASSUME NEW s \in Session, NEW k \in Member, NEW v \in Value
  PROVE  /\ Make(s, k, v) \in Session
         /\ Make(s, k, v).held = [s.held EXCEPT ![k] = v]
         /\ Make(s, k, v).alive = [s.alive EXCEPT ![k] = IF Owned(k, v) THEN @ + 1 ELSE @]
         /\ Make(s, k, v).redirected = s.redirected /\ Make(s, k, v).size = s.size
         /\ Make(s, k, v).root = s.root /\ Make(s, k, v).viewable = s.viewable
<1> DEFINE h == [s.held EXCEPT ![k] = v]
           a == [s.alive EXCEPT ![k] = IF Owned(k, v) THEN @ + 1 ELSE @]
<1>1. Make(s, k, v) = [s EXCEPT !.held = h, !.alive = a]
  BY DEF Make, Session
<1>2. h \in [Member -> Value] /\ a \in [Member -> Int]
  BY DEF Session
<1> HIDE DEF h, a
<1>3. /\ Make(s, k, v) \in Session
      /\ Make(s, k, v).held = h /\ Make(s, k, v).alive = a
      /\ Make(s, k, v).redirected = s.redirected /\ Make(s, k, v).size = s.size
      /\ Make(s, k, v).root = s.root /\ Make(s, k, v).viewable = s.viewable
  BY <1>1, <1>2 DEF Session
<1> QED
  BY <1>3 DEF h, a

LEMMA MakeSound ==
  ASSUME NEW s, Sound(s), NEW k, Makeable(s, k), NEW v \in Value, v # None
  PROVE  Sound(Make(s, k, v))
<1>1. s \in Session /\ k \in Member /\ Make(s, k, v) \in Session
  BY MakeFields DEF Sound, Makeable
<1> DEFINE t == Make(s, k, v)
<1>2. /\ t.held = [s.held EXCEPT ![k] = v] /\ t.redirected = s.redirected
      /\ t.alive = [s.alive EXCEPT ![k] = IF Owned(k, v) THEN @ + 1 ELSE @]
      /\ s.held \in [Member -> Value] /\ s.alive \in [Member -> Int]
  <2>1. s.held \in [Member -> Value] /\ s.alive \in [Member -> Int]
    BY <1>1 DEF Session
  <2> QED
    BY <1>1, <2>1, MakeFields
<1> HIDE DEF t
<1>3. Balanced(t)
  <2> SUFFICES ASSUME NEW j \in Member, ~Forgotten(j)
               PROVE  t.alive[j] = Count(t, j)
    BY DEF Balanced
  <2>1. s.alive[j] = Count(s, j)
    BY DEF Sound, Balanced
  <2>2. CASE j = k
    BY <1>2, <2>1, <2>2 DEF Count, Owned, Makeable
  <2>3. CASE j # k
    BY <1>1, <1>2, <2>1, <2>3 DEF Count
  <2> QED
    BY <2>2, <2>3
<1>4. Layered(t)
  <2>1. {"pixmap", "pict", "tex", "shadow_pixmap", "shadow_pict", "tile_pixmap",
         "tile_pict", "fence"} \subseteq Member
    BY DEF Member, WPaint, Shadow, Tile
  <2> QED
    BY <1>1, <1>2, <2>1 DEF Layered, Sound, Makeable
<1> QED
  BY <1>1, <1>3, <1>4 DEF Sound, t

(* Changing what is not a resource.                                         *)
LEMMA SameSound ==
  ASSUME NEW s, Sound(s), NEW t \in Session,
         t.held = s.held, t.alive = s.alive, s.redirected => t.redirected
  PROVE  Sound(t)
BY DEF Sound, Balanced, Layered, Count

LEMMA TogetherSets ==
  /\ Together(WPaint) /\ Together(Shadow) /\ Together(Buffer) /\ Together(Tile)
  /\ Together({"fence"}) /\ Together({"blur_textures"})
  /\ Together(WPaint \cup {"fence"}) /\ Together(WPaint \cup {"fence"} \cup Shadow)
  /\ Together(WPaint \cup Shadow \cup Blur) /\ Together({"tex", "shadow_tex"} \cup Blur)
  /\ Together(Buffer \cup {"buffer_fence"} \cup Tile)
BY DEF Together, Member, WPaint, Shadow, Blur, Tile, Buffer

------------------------------------------------------------------------------
(* The handlers keep a session sound.                                       *)
LEMMA FinishUnmapSound ==
  ASSUME NEW s, Sound(s) PROVE Sound(FinishUnmapWin(s))
<1> DEFINE t == [s EXCEPT !.damaged = FALSE]
<1>1. t \in Session /\ t.held = s.held /\ t.alive = s.alive /\ t.redirected = s.redirected
  BY DEF Sound, Session
<1>2. Sound(t)
  BY <1>1, SameSound
<1> HIDE DEF t
<1>3. Sound(Free(t, WPaint \cup {"fence"} \cup Shadow))
  BY <1>2, FreeSound, TogetherSets
<1> QED
  BY <1>3 DEF FinishUnmapWin, t

LEMMA FinishDestroySound ==
  ASSUME NEW s, Sound(s) PROVE Sound(FinishDestroyWin(s))
<1> DEFINE t == FreeWinRes(FinishUnmapWin(s))
<1>1. Sound(t)
  BY FinishUnmapSound, FreeSound, TogetherSets DEF FreeWinRes
<1> HIDE DEF t
<1>2. Sound([t EXCEPT !.listed = FALSE])
  <2> DEFINE u == [t EXCEPT !.listed = FALSE]
  <2>1. u \in Session /\ u.held = t.held /\ u.alive = t.alive /\ u.redirected = t.redirected
    BY <1>1 DEF Sound, Session
  <2> HIDE DEF u
  <2>2. Sound(u)
    BY <1>1, <2>1, SameSound
  <2> QED
    BY <2>2 DEF u
<1> QED
  BY <1>2 DEF FinishDestroyWin, t

LEMMA CallbackSound ==
  ASSUME NEW s, Sound(s) PROVE Sound(Callback(s))
<1> DEFINE done == [s EXCEPT !.fade = None]
<1>1. /\ done \in Session /\ done.held = s.held /\ done.alive = s.alive
      /\ done.redirected = s.redirected
  BY DEF Sound, Session
<1>2. Sound(done)
  BY <1>1, SameSound
<1> HIDE DEF done
<1>3. Sound(FinishUnmapWin(done)) /\ Sound(FinishDestroyWin(done))
  BY <1>2, FinishUnmapSound, FinishDestroySound
<1>4. Callback(s) = CASE s.fade = "unmap"   -> FinishUnmapWin(done)
                      [] s.fade = "destroy" -> FinishDestroyWin(done)
                      [] OTHER              -> done
  BY DEF Callback, done
<1> QED
  BY <1>2, <1>3, <1>4

LEMMA ConfigureWinSound ==
  ASSUME NEW s, Sound(s), NEW size \in Sizes PROVE Sound(ConfigureWin(s, size))
<1>1. CASE ~s.listed \/ s.fade = "destroy"
  BY <1>1 DEF ConfigureWin
<1>2. CASE ~(~s.listed \/ s.fade = "destroy") /\ ~s.viewable
  <2> DEFINE u == [s EXCEPT !.need = size]
  <2>1. u \in Session /\ u.held = s.held /\ u.alive = s.alive /\ u.redirected = s.redirected
    BY DEF Sound, Session
  <2>2. ConfigureWin(s, size) = u
    BY <1>2 DEF ConfigureWin
  <2> HIDE DEF u
  <2> QED
    BY <2>1, <2>2, SameSound
<1>3. CASE ~(~s.listed \/ s.fade = "destroy") /\ s.viewable
  <2> DEFINE t == [s EXCEPT !.need = None]
             f == Free(t, WPaint \cup {"fence"})
             u == [f EXCEPT !.size = size, !.sizechange = TRUE]
  <2>1. t \in Session /\ t.held = s.held /\ t.alive = s.alive /\ t.redirected = s.redirected
    BY DEF Sound, Session
  <2>2. ConfigureWin(s, size) = IF size = t.size THEN t ELSE u
    BY <1>3 DEF ConfigureWin, Resized
  <2> HIDE DEF t
  <2>3. Sound(t) /\ Sound(f)
    BY <2>1, SameSound, FreeSound, TogetherSets
  <2> HIDE DEF f
  <2>4. u \in Session /\ u.held = f.held /\ u.alive = f.alive /\ u.redirected = f.redirected
    BY <2>3 DEF Sound, Session
  <2> HIDE DEF u
  <2>5. Sound(u)
    BY <2>3, <2>4, SameSound
  <2> QED
    BY <2>2, <2>3, <2>5
<1> QED
  BY <1>1, <1>2, <1>3

LEMMA MapWinSound ==
  ASSUME NEW s, Sound(s) PROVE Sound(MapWin(s))
<1>1. CASE ~s.listed \/ s.viewable \/ s.fade = "destroy"
  BY <1>1 DEF MapWin
<1>2. CASE ~(~s.listed \/ s.viewable \/ s.fade = "destroy")
  <2> DEFINE c == Callback(s)
             m == [c EXCEPT !.viewable = TRUE, !.fade = "map", !.damaged = FALSE]
  <2>1. MapWin(s) = IF s.need = None THEN m ELSE ConfigureWin(m, s.need)
    BY <1>2 DEF MapWin
  <2>2. Sound(c)
    BY CallbackSound
  <2> HIDE DEF c
  <2>3. m \in Session /\ m.held = c.held /\ m.alive = c.alive /\ m.redirected = c.redirected
    BY <2>2 DEF Sound, Session
  <2> HIDE DEF m
  <2>4. Sound(m)
    BY <2>2, <2>3, SameSound
  <2>5. s.need # None => s.need \in Sizes
    BY DEF Sound, Session
  <2> QED
    BY <2>1, <2>4, <2>5, ConfigureWinSound
<1> QED
  BY <1>1, <1>2

LEMMA UnmapWinSound ==
  ASSUME NEW s, Sound(s), NEW fades \in BOOLEAN PROVE Sound(UnmapWin(s, fades))
<1>1. CASE ~s.listed \/ ~s.viewable
  BY <1>1 DEF UnmapWin
<1>2. CASE ~(~s.listed \/ ~s.viewable)
  <2> DEFINE t == [s EXCEPT !.viewable = FALSE, !.fade = "unmap"]
             u == Free(t, {"fence"})
  <2>1. t \in Session /\ t.held = s.held /\ t.alive = s.alive /\ t.redirected = s.redirected
    BY DEF Sound, Session
  <2>2. UnmapWin(s, fades) = IF fades THEN Validated(u) ELSE u
    BY <1>2 DEF UnmapWin
  <2> HIDE DEF t
  <2>3. Sound(u)
    BY <2>1, SameSound, FreeSound, TogetherSets
  <2> HIDE DEF u
  <2>4. Sound(Validated(u))
    BY <2>3, FreeSound, TogetherSets DEF Validated
  <2> QED
    BY <2>2, <2>3, <2>4
<1> QED
  BY <1>1, <1>2

LEMMA DestroyWinSound ==
  ASSUME NEW s, Sound(s), NEW fades \in BOOLEAN PROVE Sound(DestroyWin(s, fades))
<1> DEFINE u == UnmapWin(s, fades)
           t == [u EXCEPT !.fade = "destroy"]
<1>1. Sound(u)
  BY UnmapWinSound
<1>2. DestroyWin(s, fades) = IF ~s.listed \/ s.fade = "destroy" THEN s ELSE t
  BY DEF DestroyWin
<1> HIDE DEF u
<1>3. t \in Session /\ t.held = u.held /\ t.alive = u.alive /\ t.redirected = u.redirected
  BY <1>1 DEF Sound, Session
<1> HIDE DEF t
<1> QED
  BY <1>1, <1>2, <1>3, SameSound

LEMMA RepairWinSound ==
  ASSUME NEW s, Sound(s) PROVE Sound(RepairWin(s))
<1> DEFINE t == [s EXCEPT !.damaged = TRUE, !.pixmap_damaged = TRUE]
<1>1. t \in Session /\ t.held = s.held /\ t.alive = s.alive /\ t.redirected = s.redirected
  BY DEF Sound, Session
<1>2. RepairWin(s) = IF s.listed /\ s.viewable THEN t ELSE s
  BY DEF RepairWin
<1> HIDE DEF t
<1> QED
  BY <1>1, <1>2, SameSound

LEMMA RedirStopSound ==
  ASSUME NEW s, Sound(s)
  PROVE  Sound(RedirStop(s)) /\ ~RedirStop(s).redirected /\ RedirStop(s).held["fence"] = None
         /\ \A k \in Member \ (WPaint \cup {"fence"}) : RedirStop(s).held[k] = s.held[k]
<1>1. CASE ~s.redirected
  BY <1>1 DEF RedirStop, Sound, Layered
<1>2. CASE s.redirected
  <2> DEFINE f == Free(s, WPaint \cup {"fence"})
             t == [f EXCEPT !.redirected = FALSE]
  <2>1. /\ Sound(f) /\ f.held["fence"] = None
        /\ \A k \in Member \ (WPaint \cup {"fence"}) : f.held[k] = s.held[k]
    <3>1. WPaint \cup {"fence"} \subseteq Member
      BY TogetherSets DEF Together
    <3>2. /\ f.held["fence"] = None
          /\ \A k \in Member \ (WPaint \cup {"fence"}) : f.held[k] = s.held[k]
      BY <3>1, FreeFields DEF Sound
    <3>3. Sound(f)
      BY FreeSound, TogetherSets
    <3> QED
      BY <3>2, <3>3
  <2> HIDE DEF f
  <2>2. t \in Session /\ t.held = f.held /\ t.alive = f.alive /\ t.redirected = FALSE
    BY <2>1 DEF Sound, Session
  <2>3. RedirStop(s) = t
    BY <1>2 DEF RedirStop, f
  <2> HIDE DEF t
  <2>4. Sound(t)
    BY <2>1, <2>2 DEF Sound, Balanced, Layered, Count
  <2> QED
    BY <2>1, <2>2, <2>3, <2>4
<1> QED
  BY <1>1, <1>2


(* glx_destroy() loses no texture but that of the wallpaper.                *)
LEMMA GlxDestroySound ==
  ASSUME NEW s, Sound(s), s.held["buffer_tex"] = None,
         s.held["tile_tex"] = None \/ Forgotten("tile_tex")
  PROVE  /\ Sound(GlxDestroy(s))
         /\ \A k \in Member : s.held[k] = None => GlxDestroy(s).held[k] = None
         /\ \A k \in {"tex", "shadow_tex"} \cup Blur : GlxDestroy(s).held[k] = None
<1> DEFINE K == {"tex", "shadow_tex"} \cup Blur
           f == Free(s, K)
           h == [k \in Member |-> IF k \in GLObjects /\ f.held[k] # None THEN "dead" ELSE f.held[k]]
           a == [k \in Member |-> IF k \in GLObjects THEN 0 ELSE f.alive[k]]
           t == [f EXCEPT !.held = h, !.alive = a]
<1>1. K \subseteq Member /\ GLObjects = K \cup {"tile_tex", "buffer_tex"} /\ GLObjects \subseteq Member
  BY MembersAre DEF GLObjects, Member, WPaint, Shadow, Blur
<1>2. GlxDestroy(s) = t
  <2>1. f \in Session
    BY <1>1, FreeFields DEF Sound
  <2> HIDE DEF f
  <2>2. t = [f EXCEPT
               !.held = [k \in Member |-> IF k \in GLObjects /\ @[k] # None THEN "dead" ELSE @[k]],
               !.alive = [k \in Member |-> IF k \in GLObjects THEN 0 ELSE @[k]]]
    BY <2>1 DEF Session
  <2> QED
    BY <2>2 DEF GlxDestroy, f
<1>3. /\ Sound(f)
      /\ \A k \in K : f.held[k] = None
      /\ \A k \in Member \ K : f.held[k] = s.held[k]
  <2>1. Sound(f)
    BY FreeSound, TogetherSets
  <2>2. /\ \A k \in K : f.held[k] = None
        /\ \A k \in Member \ K : f.held[k] = s.held[k]
    BY <1>1, FreeFields DEF Sound
  <2> QED
    BY <2>1, <2>2
<1> HIDE DEF f
<1>4. h \in [Member -> Value] /\ a \in [Member -> Int]
  BY <1>3 DEF Sound, Session, Value
<1>5. /\ \A k \in Member : h[k] = IF k \in GLObjects /\ f.held[k] # None THEN "dead" ELSE f.held[k]
      /\ \A k \in Member : a[k] = IF k \in GLObjects THEN 0 ELSE f.alive[k]
  OBVIOUS
<1> HIDE DEF h, a
<1>6. t \in Session /\ t.held = h /\ t.alive = a /\ t.redirected = f.redirected
  BY <1>3, <1>4 DEF Sound, Session
<1> HIDE DEF t
<1>7. Balanced(t)
  <2> SUFFICES ASSUME NEW k \in Member, ~Forgotten(k)
               PROVE  t.alive[k] = Count(t, k)
    BY DEF Balanced
  <2>1. CASE k \in GLObjects
    <3>1. h[k] = None /\ a[k] = 0
      <4>1. k \in K \/ k = "buffer_tex" \/ k = "tile_tex"
        BY <1>1, <2>1
      <4>2. f.held[k] = None
        BY <1>3, <4>1
      <4> QED
        BY <1>5, <2>1, <4>2
    <3> QED
      BY <1>6, <3>1 DEF Count, Owned
  <2>2. CASE k \notin GLObjects
    BY <1>3, <1>5, <1>6, <2>2 DEF Count, Sound, Balanced
  <2> QED
    BY <2>1, <2>2
<1>8. \A k \in Member : h[k] = None <=> f.held[k] = None
  BY <1>5 DEF None
<1>9. Layered(t)
  <2>1. {"pixmap", "pict", "tex", "shadow_pixmap", "shadow_pict", "tile_pixmap",
         "tile_pict", "fence"} \subseteq Member
    BY DEF Member, WPaint, Shadow, Tile
  <2> QED
    BY <1>3, <1>6, <1>8, <2>1 DEF Layered, Sound
<1> QED
  BY <1>1, <1>2, <1>3, <1>6, <1>7, <1>8, <1>9 DEF Sound

LEMMA ConfigureRootSound ==
  ASSUME NEW s, Sound(s), NEW root \in RootSizes PROVE Sound(ConfigureRoot(s, root))
<1> DEFINE f == Free(s, Buffer)
           r == [f EXCEPT !.root = root]
           again == IF cfg.onroot = "reredir"
                    THEN [RedirStop(r) EXCEPT !.redirected = s.redirected] ELSE r
<1>1. ConfigureRoot(s, root) = IF cfg.onroot = "reinit" THEN GlxDestroy(again) ELSE again
  BY DEF ConfigureRoot
<1>2. Sound(f) /\ f.held["buffer_tex"] = None
  <2>1. "buffer_tex" \in Buffer /\ Buffer \subseteq Member
    BY DEF Buffer, Member
  <2>2. Sound(f) /\ f.held["buffer_tex"] = None
    <3>1. Sound(f)
      BY FreeSound, TogetherSets
    <3>2. f.held["buffer_tex"] = None
      BY <2>1, FreeFields DEF Sound
    <3> QED
      BY <3>1, <3>2
  <2> QED
    BY <2>2
<1> HIDE DEF f
<1>3. r \in Session /\ r.held = f.held /\ r.alive = f.alive /\ r.redirected = f.redirected
  BY <1>2 DEF Sound, Session
<1> HIDE DEF r
<1>4. Sound(r) /\ r.held["buffer_tex"] = None
  BY <1>2, <1>3, SameSound
<1>5. Sound(again) /\ again.held["buffer_tex"] = None
  <2>1. CASE cfg.onroot # "reredir"
    BY <1>4, <2>1
  <2>2. CASE cfg.onroot = "reredir"
    <3> DEFINE q == RedirStop(r)
               t == [q EXCEPT !.redirected = s.redirected]
    <3>1. Sound(q) /\ ~q.redirected /\ q.held["buffer_tex"] = None
      <4>1. "buffer_tex" \in Member \ (WPaint \cup {"fence"})
        BY DEF Member, WPaint, Buffer
      <4> QED
        BY <1>4, <4>1, RedirStopSound
    <3>2. again = t
      BY <2>2
    <3> HIDE DEF q
    <3>3. t \in Session /\ t.held = q.held /\ t.alive = q.alive
      BY <3>1 DEF Sound, Session
    <3> HIDE DEF t
    <3>4. Sound(t)
      BY <3>1, <3>3, SameSound
    <3> QED
      BY <3>1, <3>2, <3>3, <3>4
  <2> QED
    BY <2>1, <2>2
<1> HIDE DEF again
<1>6. CASE cfg.onroot = "reinit"
  BY <1>1, <1>5, <1>6, GlxDestroySound DEF Forgotten
<1> QED
  BY <1>1, <1>5, <1>6

LEMMA HandledSound ==
  ASSUME NEW s, Sound(s), NEW ev \in SizedEvent, NEW fades \in BOOLEAN
  PROVE  Sound(Handled(s, ev, fades))
<1>1. ev.type \in {"map", "unmap", "configure", "damage", "destroy", "rootsize", "rootprop"}
  BY DEF SizedEvent, Event
<1>2. Sound(MapWin(s)) /\ Sound(UnmapWin(s, fades)) /\ Sound(RepairWin(s)) /\ Sound(DestroyWin(s, fades))
  BY MapWinSound, UnmapWinSound, RepairWinSound, DestroyWinSound
<1>3. Sound(RootDamaged(s))
  BY FreeSound, TogetherSets DEF RootDamaged
<1>4. ev.type = "configure" => Sound(ConfigureWin(s, ev.size))
  BY ConfigureWinSound DEF SizedEvent
<1>5. ev.type = "rootsize" => Sound(ConfigureRoot(s, ev.size))
  BY ConfigureRootSound DEF SizedEvent
<1> QED
  BY <1>1, <1>2, <1>3, <1>4, <1>5 DEF Handled


------------------------------------------------------------------------------
(* A frame keeps the session sound.                                         *)

(* What painting leaves alone.                                              *)
Painted(s, t) ==
  /\ Sound(t) /\ t.redirected = s.redirected /\ t.viewable = s.viewable
  /\ t.size = s.size /\ t.root = s.root

LEMMA SizesAreValues ==
  /\ Sizes \subseteq Value \ {None} /\ RootSizes \subseteq Value \ {None}
  /\ {"current", "junk", "own"} \subseteq Value \ {None}
BY PaintingAssumption DEF Value, None

LEMMA MakePainted ==
  ASSUME NEW s, Sound(s), NEW k, Makeable(s, k), NEW v \in Value, v # None
  PROVE  /\ Painted(s, Make(s, k, v)) /\ Make(s, k, v).held[k] = v
         /\ \A j \in Member : j # k => Make(s, k, v).held[j] = s.held[j]
<1>1. s \in Session /\ k \in Member /\ v \in Value /\ Sound(Make(s, k, v))
  BY MakeSound DEF Sound, Makeable
<1>2. s.held \in [Member -> Value]
  BY <1>1 DEF Session
<1> DEFINE t == Make(s, k, v)
<1>3. /\ t.held = [s.held EXCEPT ![k] = v]
      /\ t.redirected = s.redirected /\ t.size = s.size
      /\ t.root = s.root /\ t.viewable = s.viewable
  <2>1. t.held = [s.held EXCEPT ![k] = v]
    BY <1>1, MakeFields, ZenonT(40)
  <2>2. t.redirected = s.redirected /\ t.size = s.size
    BY <1>1, MakeFields
  <2>3. t.root = s.root /\ t.viewable = s.viewable
    BY <1>1, MakeFields
  <2> QED
    BY <2>1, <2>2, <2>3
<1> HIDE DEF t
<1>4. Sound(t)
  BY <1>1 DEF t
<1> QED
  BY <1>1, <1>2, <1>3, <1>4 DEF Painted, t

LEMMA MakeUnlessPainted ==
  ASSUME NEW s, Sound(s), NEW k \in Member, NEW v \in Value \ {None},
         s.held[k] = None => Makeable(s, k)
  PROVE  /\ Painted(s, MakeUnless(s, k, v))
         /\ \A j \in Member : s.held[j] # None => MakeUnless(s, k, v).held[j] # None
BY MakePainted DEF MakeUnless, Painted

LEMMA FreePainted ==
  ASSUME NEW s, Sound(s), NEW K, Together(K)
  PROVE  /\ Painted(s, Free(s, K))
         /\ \A k \in K : Free(s, K).held[k] = None
         /\ \A k \in Member : k \notin K => Free(s, K).held[k] = s.held[k]
<1>1. s \in Session /\ K \in SUBSET Member /\ Sound(Free(s, K))
  BY FreeSound DEF Sound, Together
<1>2. /\ Free(s, K).viewable = s.viewable /\ Free(s, K).size = s.size /\ Free(s, K).root = s.root
  BY <1>1 DEF Free, Session
<1> QED
  BY <1>1, <1>2, FreeFields DEF Painted

LEMMA TgtBufferPainted ==
  ASSUME NEW s, Sound(s) PROVE Painted(s, TgtBuffer(s))
<1> {"buffer_pict", "buffer_pixmap"} \subseteq Member /\ {"buffer_pict", "buffer_pixmap"} \subseteq Buffer
  BY DEF Member, Buffer
<1>1. CASE xrender /\ s.held["buffer_pict"] # None
  BY <1>1 DEF TgtBuffer, Painted
<1>2. CASE ~(xrender /\ s.held["buffer_pict"] # None) /\ cfg.backend = "dbe"
  <2>1. s.held["buffer_pict"] = None
    BY <1>2 DEF xrender, glx
  <2>2. Makeable(s, "buffer_pict")
    BY <2>1 DEF Makeable
  <2> QED
    BY <1>2, <2>2, MakePainted, SizesAreValues DEF TgtBuffer
<1>3. CASE ~(xrender /\ s.held["buffer_pict"] # None) /\ cfg.backend # "dbe"
  <2> DEFINE f == Free(s, Buffer)
             p == IF s.held["buffer_pixmap"] = None THEN Make(f, "buffer_pixmap", s.root) ELSE s
  <2>1. Painted(s, f) /\ f.held["buffer_pixmap"] = None /\ f.held["buffer_pict"] = None
    BY FreePainted, TogetherSets
  <2>2. s.root \in Value \ {None}
    BY SizesAreValues DEF Sound, Session
  <2>3. Makeable(f, "buffer_pixmap")
    BY <2>1 DEF Makeable
  <2>4. TgtBuffer(s) = IF xrender THEN Make(p, "buffer_pict", "own") ELSE p
    BY <1>3 DEF TgtBuffer
  <2> HIDE DEF f
  <2>5. Painted(s, p) /\ (xrender => p.held["buffer_pict"] = None)
    <3>1. CASE s.held["buffer_pixmap"] = None
      BY <2>1, <2>2, <2>3, <3>1, MakePainted DEF Painted
    <3>2. CASE s.held["buffer_pixmap"] # None
      BY <1>3, <3>2 DEF Painted
    <3> QED
      BY <3>1, <3>2
  <2> HIDE DEF p
  <2>6. xrender => Makeable(p, "buffer_pict")
    BY <2>5 DEF Makeable
  <2>7. xrender => Painted(p, Make(p, "buffer_pict", "own"))
    BY <2>5, <2>6, MakePainted, SizesAreValues DEF Painted
  <2> QED
    BY <2>4, <2>5, <2>7 DEF Painted
<1> QED
  BY <1>1, <1>2, <1>3

LEMMA PaintRootPainted ==
  ASSUME NEW s, Sound(s) PROVE Painted(s, PaintRoot(s))
<1> {"tile_pixmap", "tile_pict", "tile_tex"} \subseteq Member
  BY DEF Member, Tile
<1>1. CASE s.held["tile_pixmap"] # None
  BY <1>1 DEF PaintRoot, Painted
<1>2. CASE s.held["tile_pixmap"] = None
  <2> DEFINE v == IF x.wall THEN "current" ELSE "own"
             p == Make(s, "tile_pixmap", v)
             t == Make(p, "tile_pict", "own")
  <2>1. v \in Value \ {None}
    BY SizesAreValues
  <2>2. Makeable(s, "tile_pixmap")
    BY <1>2 DEF Makeable
  <2> HIDE DEF v
  <2>3. Painted(s, p) /\ p.held["tile_pixmap"] # None /\ p.held["tile_pict"] = None
    <3>1. s.held["tile_pict"] = None
      BY <1>2 DEF Sound, Layered
    <3> QED
      BY <2>1, <2>2, <3>1, MakePainted
  <2> HIDE DEF p
  <2>4. Makeable(p, "tile_pict")
    BY <2>3 DEF Makeable
  <2>5. Painted(p, t)
    BY <2>3, <2>4, MakePainted, SizesAreValues DEF Painted
  <2>6. PaintRoot(s) = IF glx THEN MakeUnless(t, "tile_tex", "own") ELSE t
    BY <1>2 DEF PaintRoot, p, v
  <2> HIDE DEF t
  <2>7. t.held["tile_tex"] = None => Makeable(t, "tile_tex")
    BY DEF Makeable
  <2>8. Painted(t, MakeUnless(t, "tile_tex", "own"))
    BY <2>5, <2>7, MakeUnlessPainted, SizesAreValues DEF Painted
  <2> QED
    BY <2>3, <2>5, <2>6, <2>8 DEF Painted
<1> QED
  BY <1>1, <1>2

LEMMA PaintShadowPainted ==
  ASSUME NEW s, Sound(s) PROVE Painted(s, PaintShadow(s))
<1> {"shadow_pixmap", "shadow_pict", "shadow_tex"} \subseteq Member
  BY DEF Member, Shadow
<1> DEFINE p == Make(s, "shadow_pixmap", s.size)
           t == Make(p, "shadow_pict", "own")
           built == IF s.held["shadow_pixmap"] # None THEN s ELSE t
<1>1. Painted(s, built)
  <2>1. CASE s.held["shadow_pixmap"] # None
    BY <2>1 DEF Painted
  <2>2. CASE s.held["shadow_pixmap"] = None
    <3>1. s.size \in Value \ {None}
      BY SizesAreValues DEF Sound, Session
    <3>2. Makeable(s, "shadow_pixmap") /\ s.held["shadow_pict"] = None
      BY <2>2 DEF Makeable, Sound, Layered
    <3>3. Painted(s, p) /\ p.held["shadow_pixmap"] # None /\ p.held["shadow_pict"] = None
      BY <3>1, <3>2, MakePainted
    <3> HIDE DEF p
    <3>4. Makeable(p, "shadow_pict")
      BY <3>3 DEF Makeable
    <3>5. Painted(p, t)
      BY <3>3, <3>4, MakePainted, SizesAreValues DEF Painted
    <3> QED
      BY <2>2, <3>3, <3>5 DEF Painted
  <2> QED
    BY <2>1, <2>2
<1>2. PaintShadow(s) = IF glx THEN MakeUnless(built, "shadow_tex", "own") ELSE built
  BY DEF PaintShadow
<1> HIDE DEF built
<1>3. built.held["shadow_tex"] = None => Makeable(built, "shadow_tex")
  BY DEF Makeable
<1>4. Painted(built, MakeUnless(built, "shadow_tex", "own"))
  BY <1>1, <1>3, MakeUnlessPainted, SizesAreValues DEF Painted
<1> QED
  BY <1>1, <1>2, <1>4 DEF Painted

LEMMA BlurPainted ==
  ASSUME NEW s, Sound(s) PROVE Painted(s, BlurBackground(s))
<1> {"blur_textures", "blur_fbo"} \subseteq Member
  BY DEF Member, Blur
<1> DEFINE sized == IF s.held["blur_textures"] = s.size THEN s ELSE Free(s, {"blur_textures"})
           t == MakeUnless(sized, "blur_textures", s.size)
           u == MakeUnless(t, "blur_fbo", "own")
<1>1. Painted(s, sized)
  BY FreePainted, TogetherSets DEF Painted
<1> HIDE DEF sized
<1>2. s.size \in Value \ {None}
  BY SizesAreValues DEF Sound, Session
<1>3. sized.held["blur_textures"] = None => Makeable(sized, "blur_textures")
  BY DEF Makeable
<1>4. Painted(sized, t)
  BY <1>1, <1>2, <1>3, MakeUnlessPainted DEF Painted
<1> HIDE DEF t
<1>5. t.held["blur_fbo"] = None => Makeable(t, "blur_fbo")
  BY DEF Makeable
<1>6. Painted(t, u)
  BY <1>4, <1>5, MakeUnlessPainted, SizesAreValues DEF Painted
<1>7. BlurBackground(s) = IF ~glx THEN s ELSE u
  BY DEF BlurBackground, sized, t
<1> HIDE DEF u
<1> QED
  BY <1>1, <1>4, <1>6, <1>7 DEF Painted


LEMMA PaintWinPainted ==
  ASSUME NEW s, Sound(s), s.redirected
  PROVE  Painted(s, PaintWin(s))
<1> {"pixmap", "pict", "tex", "fence"} \subseteq Member
  BY DEF Member, WPaint
<1> DEFINE f == Free(s, {"fence"})
           named == IF s.held["pixmap"] # None THEN s ELSE Make(f, "pixmap", Named)
           v == IF named.held["pixmap"] = "junk" THEN "junk" ELSE "own"
           pict == IF xrender THEN MakeUnless(named, "pict", v) ELSE named
           synced == IF s.viewable THEN MakeUnless(pict, "fence", "own") ELSE pict
           bound == BindTex(synced)
<1>1. Painted(s, named) /\ named.held["pixmap"] # None
  <2>1. CASE s.held["pixmap"] # None
    BY <2>1 DEF Painted
  <2>2. CASE s.held["pixmap"] = None
    <3>1. Painted(s, f) /\ f.held["pixmap"] = None
      <4>1. "pixmap" \in Member \ {"fence"}
        OBVIOUS
      <4> QED
        BY <2>2, <4>1, FreePainted, TogetherSets
    <3> HIDE DEF f
    <3>2. Makeable(f, "pixmap") /\ Named \in Value \ {None}
      BY <3>1, SizesAreValues DEF Makeable, Named
    <3>3. Painted(f, Make(f, "pixmap", Named)) /\ Make(f, "pixmap", Named).held["pixmap"] # None
      <4>1. Sound(f)
        BY <3>1 DEF Painted
      <4>2. /\ Painted(f, Make(f, "pixmap", Named))
            /\ Make(f, "pixmap", Named).held["pixmap"] = Named
        BY <3>2, <4>1, MakePainted
      <4> QED
        BY <3>2, <4>2
    <3> QED
      BY <2>2, <3>1, <3>3 DEF Painted
  <2> QED
    BY <2>1, <2>2
<1> HIDE DEF named
<1>2. v \in Value \ {None}
  BY SizesAreValues
<1> HIDE DEF v
<1>3. Painted(s, pict) /\ pict.held["pixmap"] # None
  <2>1. named.held["pict"] = None => Makeable(named, "pict")
    BY <1>1 DEF Makeable
  <2>2. Painted(named, MakeUnless(named, "pict", v))
        /\ MakeUnless(named, "pict", v).held["pixmap"] # None
    BY <1>1, <1>2, <2>1, MakeUnlessPainted DEF Painted
  <2> QED
    BY <1>1, <2>2 DEF Painted
<1> HIDE DEF pict
<1>4. Painted(s, synced) /\ synced.held["pixmap"] # None
  <2>1. pict.held["fence"] = None => Makeable(pict, "fence")
    BY <1>3 DEF Makeable, Painted
  <2>2. Painted(pict, MakeUnless(pict, "fence", "own"))
        /\ MakeUnless(pict, "fence", "own").held["pixmap"] # None
    <3>1. Sound(pict) /\ "own" \in Value \ {None}
      BY <1>3, SizesAreValues DEF Painted
    <3> QED
      BY <1>3, <2>1, <3>1, MakeUnlessPainted
  <2> QED
    BY <1>3, <2>2 DEF Painted
<1> HIDE DEF synced
<1>5. Painted(s, bound)
  <2>1. CASE ~glx \/ synced.held["pixmap"] = "junk"
    BY <1>4, <2>1 DEF BindTex
  <2>2. CASE ~(~glx \/ synced.held["pixmap"] = "junk")
    <3> DEFINE m == MakeUnless(synced, "tex", "own")
               t == [m EXCEPT !.fresh = @ \/ synced.pixmap_damaged \/ synced.held["tex"] = None]
    <3>1. synced.held["tex"] = None => Makeable(synced, "tex")
      BY <1>4 DEF Makeable
    <3>2. Painted(synced, m)
      BY <1>4, <3>1, MakeUnlessPainted, SizesAreValues DEF Painted
    <3>3. bound = t
      BY <2>2 DEF BindTex
    <3> HIDE DEF m
    <3>4. /\ t \in Session /\ t.held = m.held /\ t.alive = m.alive /\ t.redirected = m.redirected
          /\ t.viewable = m.viewable /\ t.size = m.size /\ t.root = m.root
      BY <1>4, <3>2 DEF Painted, Sound, Session
    <3> HIDE DEF t
    <3>5. Sound(t)
      BY <3>2, <3>4, SameSound DEF Painted
    <3> QED
      BY <1>4, <3>2, <3>3, <3>4, <3>5 DEF Painted
  <2> QED
    BY <2>1, <2>2
<1> HIDE DEF bound
<1> DEFINE u == [bound EXCEPT !.pixmap_damaged = FALSE]
<1>6. /\ u \in Session /\ u.held = bound.held /\ u.alive = bound.alive
      /\ u.redirected = bound.redirected /\ u.viewable = bound.viewable
      /\ u.size = bound.size /\ u.root = bound.root
  BY <1>5 DEF Painted, Sound, Session
<1>7. PaintWin(s) = u
  BY DEF PaintWin, bound, synced, pict, v, named
<1> HIDE DEF u
<1>8. Sound(u)
  BY <1>5, <1>6, SameSound DEF Painted
<1> QED
  BY <1>5, <1>6, <1>7, <1>8 DEF Painted

LEMMA PaintAllSound ==
  ASSUME NEW s, Sound(s), s.redirected, NEW window \in BOOLEAN
  PROVE  Sound(PaintAll(s, window))
<1> {"buffer_fence", "buffer_tex"} \subseteq Member
  BY DEF Member, Buffer
<1> DEFINE g == PaintRoot(TgtBuffer(s))
           w == PaintWin(BlurBackground(PaintShadow(g)))
           p == IF window THEN w ELSE g
<1>1. Painted(s, g)
  BY TgtBufferPainted, PaintRootPainted DEF Painted
<1> HIDE DEF g
<1>2. Painted(s, BlurBackground(PaintShadow(g)))
  <2>1. Painted(g, PaintShadow(g))
    BY <1>1, PaintShadowPainted DEF Painted
  <2>2. Painted(PaintShadow(g), BlurBackground(PaintShadow(g)))
    BY <2>1, BlurPainted DEF Painted
  <2> QED
    BY <1>1, <2>1, <2>2 DEF Painted
<1>3. Painted(s, w)
  BY <1>2, PaintWinPainted DEF Painted
<1> HIDE DEF w
<1>4. Sound(p)
  BY <1>1, <1>3 DEF Painted
<1>5. PaintAll(s, window) = BindBuffer(p)
  BY DEF PaintAll, g, w
<1> HIDE DEF p
<1> DEFINE b == MakeUnless(p, "buffer_fence", "own")
<1>6. Sound(b) /\ Sound(MakeUnless(b, "buffer_tex", "own"))
  <2>1. p.held["buffer_fence"] = None => Makeable(p, "buffer_fence")
    BY DEF Makeable
  <2>2. Sound(b)
    BY <1>4, <2>1, MakeUnlessPainted, SizesAreValues DEF Painted
  <2> HIDE DEF b
  <2>3. b.held["buffer_tex"] = None => Makeable(b, "buffer_tex")
    BY DEF Makeable
  <2>4. Sound(MakeUnless(b, "buffer_tex", "own"))
    BY <2>2, <2>3, MakeUnlessPainted, SizesAreValues DEF Painted
  <2> QED
    BY <2>2, <2>4
<1> QED
  BY <1>4, <1>5, <1>6 DEF BindBuffer

------------------------------------------------------------------------------
(* Each step keeps the invariant.                                           *)
LEMMA CycleKeeps ==
  ASSUME IInv, NEW painted \in BOOLEAN, NEW over \in BOOLEAN, NEW damage \in BOOLEAN,
         NEW redirect \in BOOLEAN, Cycle(painted, over, damage, redirect)
  PROVE  IInv'
<1> DEFINE e == Expired(ps)
           expired == [e EXCEPT !.sizechange = @ /\ ~painted]
           kept == IF over /\ ~painted THEN Callback(expired) ELSE expired
           on == [kept EXCEPT !.redirected = TRUE]
           redirected == IF redirect THEN on ELSE RedirStop(kept)
           frame == IF damage THEN PaintAll(redirected, painted) ELSE redirected
<1>1. Sound(e)
  BY FreeSound, TogetherSets DEF IInv, Expired
<1> HIDE DEF e
<1>2. /\ expired \in Session /\ expired.held = e.held /\ expired.alive = e.alive
      /\ expired.redirected = e.redirected
  BY <1>1 DEF Sound, Session
<1> HIDE DEF expired
<1>3. Sound(kept)
  BY <1>1, <1>2, SameSound, CallbackSound
<1> HIDE DEF kept
<1>4. on \in Session /\ on.held = kept.held /\ on.alive = kept.alive /\ on.redirected
  BY <1>3 DEF Sound, Session
<1> HIDE DEF on
<1>5. Sound(redirected) /\ (redirect => redirected.redirected)
  BY <1>3, <1>4, SameSound, RedirStopSound
<1> HIDE DEF redirected
<1>6. damage => redirect
  BY DEF Cycle
<1>7. Sound(frame)
  BY <1>5, <1>6, PaintAllSound
<1>8. ps' = IF over /\ painted /\ damage THEN Callback(frame) ELSE frame
  BY DEF Cycle, frame, redirected, on, kept, expired, e
<1> HIDE DEF frame
<1>9. Sound(ps')
  BY <1>7, <1>8, CallbackSound
<1> QED
  BY <1>9 DEF IInv, Cycle, Sound, Balanced, Layered, Count, Forgotten

(* session_destroy() frees every member.                                    *)
LEMMA DestroyedIsEmpty ==
  ASSUME NEW s, Sound(s)
  PROVE  Sound(SessionDestroy(s)) /\ SessionDestroy(s).held = NoResources
<1> DEFINE r == RedirStop(s)
           W == WPaint \cup Shadow \cup Blur
           w == Free(r, W)
           B == Buffer \cup {"buffer_fence"} \cup Tile
           b == Free(w, B)
           g == GlxDestroy(b)
<1>6. SessionDestroy(s) = g
  BY DEF SessionDestroy, FreeWinRes
<1>1. Sound(r) /\ r.held["fence"] = None
  BY RedirStopSound
<1> HIDE DEF r
<1>2. Together(W) /\ Together(B)
  BY TogetherSets
<1>3. W \cup B \cup {"fence"} = Member /\ "fence" \notin W \cup B
  BY DEF Member, WPaint, Shadow, Blur, Buffer, Tile
<1> HIDE DEF W, B
<1>4. \A k \in Member : b.held[k] = None
  <2>1. /\ Painted(r, w) /\ \A k \in W : w.held[k] = None
        /\ \A k \in Member : k \notin W => w.held[k] = r.held[k]
    <3> HIDE DEF r
    <3> SUFFICES ASSUME Sound(r), Together(W)
                 PROVE  /\ Painted(r, Free(r, W)) /\ \A k \in W : Free(r, W).held[k] = None
                        /\ \A k \in Member : k \notin W => Free(r, W).held[k] = r.held[k]
      BY <1>1, <1>2
    <3>1. Painted(r, Free(r, W))
      BY FreePainted
    <3>2. \A k \in W : Free(r, W).held[k] = None
      BY FreePainted
    <3>3. ASSUME NEW k \in Member, k \notin W PROVE Free(r, W).held[k] = r.held[k]
      <4>1. r \in Session /\ W \in SUBSET Member
        BY DEF Sound, Together
      <4> QED
        BY <3>3, <4>1, FreeFields
    <3> QED
      BY <3>1, <3>2, <3>3
  <2>2. Sound(w)
    BY <2>1 DEF Painted
  <2> HIDE DEF w
  <2>3. /\ \A k \in B : b.held[k] = None
        /\ \A k \in Member : k \notin B => b.held[k] = w.held[k]
    <3> SUFFICES ASSUME Sound(w), Together(B)
                 PROVE  /\ \A k \in B : Free(w, B).held[k] = None
                        /\ \A k \in Member : k \notin B => Free(w, B).held[k] = w.held[k]
      BY <1>2, <2>2
    <3>1. \A k \in B : Free(w, B).held[k] = None
      BY FreePainted
    <3>2. ASSUME NEW k \in Member, k \notin B PROVE Free(w, B).held[k] = w.held[k]
      <4>1. w \in Session /\ B \in SUBSET Member
        BY DEF Sound, Together
      <4> QED
        BY <3>2, <4>1, FreeFields
    <3> QED
      BY <3>1, <3>2
  <2> QED
    BY <1>1, <1>3, <2>1, <2>3
<1>7. Sound(b)
  BY <1>1, <1>2, FreeSound
<1> HIDE DEF b
<1>5. Sound(g) /\ \A k \in Member : g.held[k] = None
  <2>1. {"buffer_tex", "tile_tex"} \subseteq Member
    BY DEF Member, Buffer, Tile
  <2> QED
    BY <1>4, <1>7, <2>1, GlxDestroySound
<1> HIDE DEF g
<1>8. g.held \in [Member -> Value]
  BY <1>5 DEF Sound, Session
<1> QED
  BY <1>5, <1>6, <1>8 DEF NoResources

LEMMA NewSessionSound ==
  ASSUME NEW s \in Window
  PROVE  Sound(NewSession(s)) /\ NewSession(s).held = NoResources
<1> DEFINE t == NewSession(s)
           a == [k \in Member |-> 0]
<1>1. NoResources \in [Member -> Value] /\ a \in [Member -> Int]
  BY DEF NoResources, Value
<1>2. \A k \in Member : NoResources[k] = None /\ a[k] = 0
  BY DEF NoResources
<1>3. t \in Session /\ t.held = NoResources /\ t.alive = a /\ t.redirected = FALSE
  <2> HIDE DEF a
  <2>1. /\ s.exists \in BOOLEAN /\ s.mapped \in BOOLEAN /\ s.size \in Sizes
        /\ s.root \in RootSizes
        /\ (IF s.mapped THEN "map" ELSE None) \in {None, "map", "unmap", "destroy"}
    BY DEF Window
  <2> QED
    BY <1>1, <2>1 DEF NewSession, Session, a
<1> HIDE DEF t, a
<1>4. Balanced(t)
  BY <1>2, <1>3 DEF Balanced, Count, Owned
<1>5. Layered(t)
  <2>1. {"pixmap", "pict", "tex", "shadow_pixmap", "shadow_pict", "tile_pixmap",
         "tile_pict", "fence"} \subseteq Member
    BY DEF Member, WPaint, Shadow, Tile
  <2> QED
    BY <1>2, <1>3, <2>1 DEF Layered
<1> QED
  BY <1>3, <1>4, <1>5 DEF Sound, t

LEMMA EventsSized ==
  /\ \A type \in {"map", "unmap", "damage", "destroy", "rootprop"} : Ev(type) \in SizedEvent
  /\ \A size \in Sizes : [type |-> "configure", size |-> size] \in SizedEvent
  /\ \A root \in RootSizes : [type |-> "rootsize", size |-> root] \in SizedEvent
BY DEF SizedEvent, Event, Ev

LEMMA ReportedEvents ==
  ASSUME NEW s \in Window PROVE Reported(s) \in Seq(SizedEvent)
<1>1. Ev("damage") \in SizedEvent
  BY EventsSized
<1>2. <<Ev("damage")>> \in Seq(SizedEvent) /\ <<>> \in Seq(SizedEvent)
  BY <1>1
<1> QED
  BY <1>2 DEF Reported

(* Sound does not look at a primed variable but cfg, which stays.           *)
LEMMA SoundPrime ==
  ASSUME cfg' = cfg, Sound(ps') PROVE Sound(ps)'
BY DEF Sound, Balanced, Layered, Forgotten

LEMMA InitHolds ==
  ASSUME Init PROVE IInv
<1>1. cfg \in Config /\ running = TRUE
  BY PaintingAssumption DEF Init
<1>2. x \in Window
  <2>1. PICK size \in Sizes, root \in RootSizes, mapped \in BOOLEAN :
          x = [exists |-> TRUE, mapped |-> mapped, size |-> size, root |-> root,
               wall |-> TRUE, reported |-> mapped]
    BY DEF Init
  <2> QED
    BY <2>1 DEF Window
<1>3. Sound(ps)
  BY <1>2, NewSessionSound DEF Init
<1>4. queue \in Seq(SizedEvent)
  BY <1>2, ReportedEvents DEF Init
<1> QED
  BY <1>1, <1>2, <1>3, <1>4 DEF IInv

(* What the server outdates, compton has to free as before.                 *)
LEMMA OutdateSound ==
  ASSUME Sound(ps), NEW k \in {"pixmap", "tile_pixmap"}
  PROVE  Sound(Outdate(k))
<1> DEFINE h == [ps.held EXCEPT ![k] = IF @ = "current" THEN "old" ELSE @]
           t == [ps EXCEPT !.held = h]
<1>1. k \in Member /\ ps \in Session /\ ps.held \in [Member -> Value]
  BY DEF Member, WPaint, Tile, Sound, Session
<1>2. h \in [Member -> Value]
  BY <1>1 DEF Value
<1>3. \A j \in Member : h[j] = IF j = k /\ ps.held[j] = "current" THEN "old" ELSE ps.held[j]
  BY <1>1
<1>4. Outdate(k) = t
  BY <1>1 DEF Outdate, Session
<1> HIDE DEF h
<1>5. t \in Session /\ t.held = h /\ t.alive = ps.alive /\ t.redirected = ps.redirected
  BY <1>1, <1>2 DEF Session
<1> HIDE DEF t
<1>6. Balanced(t)
  <2> SUFFICES ASSUME NEW j \in Member, ~Forgotten(j) PROVE t.alive[j] = Count(t, j)
    BY DEF Balanced
  <2>1. ps.alive[j] = Count(ps, j)
    BY DEF Sound, Balanced
  <2>2. Owned(j, h[j]) <=> Owned(j, ps.held[j])
    BY <1>3 DEF Owned, None
  <2> QED
    BY <1>5, <2>1, <2>2 DEF Count
<1>7. \A j \in Member : h[j] = None <=> ps.held[j] = None
  BY <1>3 DEF None
<1>8. Layered(t)
  <2>1. {"pixmap", "pict", "tex", "shadow_pixmap", "shadow_pict", "tile_pixmap",
         "tile_pict", "fence"} \subseteq Member
    BY DEF Member, WPaint, Shadow, Tile
  <2> QED
    BY <1>5, <1>7, <2>1 DEF Layered, Sound
<1> QED
  BY <1>4, <1>5, <1>6, <1>8 DEF Sound

(* A step of the server adds events and outdates a pixmap.                  *)
LEMMA SentEvents ==
  ASSUME queue \in Seq(SizedEvent), NEW events \in Seq(SizedEvent), Send(events)
  PROVE  queue' \in Seq(SizedEvent)
BY ConcatProperties DEF Send

LEMMA SentEvent ==
  ASSUME queue \in Seq(SizedEvent), NEW e \in SizedEvent, Send(<<e>>)
  PROVE  queue' \in Seq(SizedEvent)
<1>1. <<e>> \in Seq(SizedEvent)
  OBVIOUS
<1> QED
  BY <1>1, SentEvents

LEMMA ServerKeeps ==
  ASSUME IInv, Server, running, UNCHANGED <<cfg, running>>
  PROVE  IInv'
<1>1. /\ cfg' \in Config /\ running' = TRUE /\ x \in Window
      /\ queue \in Seq(SizedEvent) /\ Sound(ps) /\ ps \in Session
  BY DEF IInv, Sound
<1>2. /\ \A k \in {"pixmap", "tile_pixmap"} : Sound(Outdate(k))
  BY <1>1, OutdateSound
<1>3. SUFFICES x' \in Window /\ queue' \in Seq(SizedEvent) /\ Sound(ps')
  BY <1>1, <1>3, SoundPrime DEF IInv
<1>4. CASE XMap
  <2>1. x' \in Window /\ Sound(ps')
    BY <1>1, <1>2, <1>4 DEF XMap, Window
  <2>2. queue' \in Seq(SizedEvent)
    <3>1. Ev("map") \in SizedEvent
      BY EventsSized
    <3>2. Send(<<Ev("map")>>)
      BY <1>4 DEF XMap
    <3> QED
      BY <1>1, <3>1, <3>2, SentEvent
  <2> QED
    BY <2>1, <2>2
<1>5. CASE XUnmap
  <2>1. x' \in Window /\ Sound(ps')
    BY <1>1, <1>2, <1>5 DEF XUnmap, Window
  <2>2. queue' \in Seq(SizedEvent)
    <3>1. Ev("unmap") \in SizedEvent
      BY EventsSized
    <3>2. Send(<<Ev("unmap")>>)
      BY <1>5 DEF XUnmap
    <3> QED
      BY <1>1, <3>1, <3>2, SentEvent
  <2> QED
    BY <2>1, <2>2
<1>6. CASE XDraw
  <2> DEFINE t == [ps EXCEPT !.fresh = @ /\ ps.held["pixmap"] # "current"]
  <2>1. x' \in Window /\ ps' = t
    BY <1>1, <1>6 DEF XDraw, Window
  <2>2. /\ t \in Session /\ t.held = ps.held /\ t.alive = ps.alive
        /\ t.redirected = ps.redirected
    BY <1>1 DEF Session
  <2> HIDE DEF t
  <2>3. Sound(t)
    BY <1>1, <2>2, SameSound
  <2>4. queue' \in Seq(SizedEvent)
    <3> DEFINE events == IF x.reported THEN <<>> ELSE <<Ev("damage")>>
    <3>1. events \in Seq(SizedEvent)
      BY EventsSized
    <3>2. Send(events)
      BY <1>6 DEF XDraw
    <3> QED
      BY <1>1, <3>1, <3>2, SentEvents
  <2> QED
    BY <2>1, <2>3, <2>4
<1>7. CASE XDestroy
  <2>1. x' \in Window /\ Sound(ps')
    BY <1>1, <1>2, <1>7 DEF XDestroy, Window
  <2>2. queue' \in Seq(SizedEvent)
    <3> DEFINE events == IF x.mapped THEN <<Ev("unmap"), Ev("destroy")>> ELSE <<Ev("destroy")>>
    <3>1. Ev("unmap") \in SizedEvent /\ Ev("destroy") \in SizedEvent
      BY EventsSized
    <3>2. events \in Seq(SizedEvent)
      BY <3>1
    <3>3. Send(events)
      BY <1>7 DEF XDestroy
    <3> QED
      BY <1>1, <3>2, <3>3, SentEvents
  <2> QED
    BY <2>1, <2>2
<1>8. ASSUME NEW size \in Sizes, XResize(size)
      PROVE  x' \in Window /\ queue' \in Seq(SizedEvent) /\ Sound(ps')
  <2>1. x' \in Window /\ Sound(ps')
    BY <1>1, <1>2, <1>8 DEF XResize, Window
  <2>2. queue' \in Seq(SizedEvent)
    <3>1. [type |-> "configure", size |-> size] \in SizedEvent
      BY EventsSized
    <3>2. Send(<<[type |-> "configure", size |-> size]>>)
      BY <1>8 DEF XResize
    <3> QED
      BY <1>1, <3>1, <3>2, SentEvent
  <2> QED
    BY <2>1, <2>2
<1>9. ASSUME NEW root \in RootSizes, XRootSize(root)
      PROVE  x' \in Window /\ queue' \in Seq(SizedEvent) /\ Sound(ps')
  <2>1. x' \in Window /\ Sound(ps')
    BY <1>1, <1>9 DEF XRootSize, Window
  <2>2. queue' \in Seq(SizedEvent)
    <3>1. [type |-> "rootsize", size |-> root] \in SizedEvent
      BY EventsSized
    <3>2. Send(<<[type |-> "rootsize", size |-> root]>>)
      BY <1>9 DEF XRootSize
    <3> QED
      BY <1>1, <3>1, <3>2, SentEvent
  <2> QED
    BY <2>1, <2>2
<1>10. ASSUME NEW wall \in BOOLEAN, XWallpaper(wall)
       PROVE  x' \in Window /\ queue' \in Seq(SizedEvent) /\ Sound(ps')
  <2>1. x' \in Window /\ Sound(ps')
    BY <1>1, <1>2, <1>10 DEF XWallpaper, Window
  <2>2. queue' \in Seq(SizedEvent)
    <3>1. Ev("rootprop") \in SizedEvent
      BY EventsSized
    <3>2. Send(<<Ev("rootprop")>>)
      BY <1>10 DEF XWallpaper
    <3> QED
      BY <1>1, <3>1, <3>2, SentEvent
  <2> QED
    BY <2>1, <2>2
<1> QED
  BY <1>4, <1>5, <1>6, <1>7, <1>8, <1>9, <1>10 DEF Server

LEMMA HandleKeeps ==
  ASSUME IInv, Handle PROVE IInv'
<1>1. /\ running /\ queue # <<>> /\ queue \in Seq(SizedEvent) /\ Sound(ps) /\ x \in Window
  BY DEF IInv, Handle
<1>2. Head(queue) \in SizedEvent /\ Tail(queue) \in Seq(SizedEvent)
  BY <1>1, HeadTailProperties
<1>3. PICK fades \in BOOLEAN : ps' = Handled(ps, Head(queue), fades)
  BY DEF Handle
<1>4. Sound(ps')
  BY <1>1, <1>2, <1>3, HandledSound
<1>5. x' \in Window
  BY <1>1 DEF Handle, Window
<1> QED
  BY <1>1, <1>2, <1>4, <1>5, SoundPrime DEF Handle, IInv

LEMMA QuitKeeps ==
  ASSUME IInv, Quit PROVE IInv'
<1> DEFINE d == SessionDestroy(ps)
           t == [d EXCEPT !.listed = FALSE]
<1>1. Sound(d) /\ d.held = NoResources
  BY DestroyedIsEmpty DEF IInv
<1>2. ps' = t
  BY DEF Quit
<1> HIDE DEF d
<1>3. t \in Session /\ t.held = d.held /\ t.alive = d.alive /\ t.redirected = d.redirected
  BY <1>1 DEF Sound, Session
<1> HIDE DEF t
<1>4. Sound(ps') /\ ps'.held = NoResources
  BY <1>1, <1>2, <1>3, SameSound
<1>5. queue' \in Seq(SizedEvent)
  BY DEF Quit
<1> QED
  BY <1>4, <1>5, SoundPrime DEF Quit, IInv

LEMMA RestartKeeps ==
  ASSUME IInv, Restart PROVE IInv'
<1>1. Sound(ps') /\ queue' \in Seq(SizedEvent)
  BY NewSessionSound, ReportedEvents DEF IInv, Restart
<1>2. x' \in Window
  BY DEF IInv, Restart, Window
<1> QED
  BY <1>1, <1>2, SoundPrime DEF Restart, IInv

LEMMA StepKeeps ==
  ASSUME IInv, [Next]_vars PROVE IInv'
<1>1. CASE UNCHANGED vars
  BY <1>1 DEF vars, IInv, Sound, Balanced, Layered, Forgotten, Count
<1>2. CASE Next
  BY <1>2, ServerKeeps, HandleKeeps, CycleKeeps, QuitKeeps, RestartKeeps DEF Next
<1> QED
  BY <1>1, <1>2

LEMMA Inductive == Spec => []IInv
BY InitHolds, StepKeeps, PTL DEF Spec

------------------------------------------------------------------------------
(* TypeOK, with every member of what is kept between frames: a picture and  *)
(* a texture are made only of a pixmap that is there, whatever the events   *)
(* and the frames.                                                          *)
THEOREM TypesKept == Spec => []TypeOK
<1>1. IInv => TypeOK
  <2> SUFFICES ASSUME IInv PROVE TypeOK
    OBVIOUS
  <2>1. queue \in Seq(Event)
    <3>1. SizedEvent \subseteq Event
      BY DEF SizedEvent
    <3> QED
      BY <3>1 DEF IInv
  <2>2. /\ cfg \in Config /\ x.size \in Sizes /\ x.root \in RootSizes
        /\ ps.size \in Sizes /\ ps.root \in RootSizes /\ ps.need \in Sizes \cup {None}
        /\ ps.held \in [Member -> Value]
        /\ ps.fade \in {None, "map", "unmap", "destroy"}
    BY DEF IInv, Window, Sound, Session
  <2>3. ps.held["pixmap"] = None => ps.held["pict"] = None /\ ps.held["tex"] = None
    BY DEF IInv, Sound, Layered
  <2> QED
    BY <2>1, <2>2, <2>3 DEF TypeOK
<1> QED
  BY <1>1, Inductive, PTL

(* Accounted: nothing leaks and nothing is used or freed twice, for every   *)
(* backend: each resource that exists is held by a struct, and none is left *)
(* after session_destroy().                                                 *)
THEOREM NothingLeaks == Spec => []Accounted
<1>1. IInv => Accounted
  <2> SUFFICES ASSUME IInv, NEW k \in Member, ~Forgotten(k)
               PROVE  ps.alive[k] = Count(ps, k) /\ (~running => ps.alive[k] = 0)
    BY DEF Accounted, Forgotten
  <2>1. ps.alive[k] = Count(ps, k)
    BY DEF IInv, Sound, Balanced
  <2>2. ~running => Count(ps, k) = 0
    BY DEF IInv, NoResources, Count, Owned
  <2> QED
    BY <2>1, <2>2
<1> QED
  BY <1>1, Inductive, PTL

------------------------------------------------------------------------------
(* What compton keeps follows the server: what it knows of the window and   *)
(* the root is what the server will have told it when the waiting events    *)
(* are handled.                                                             *)
View == [mapped : BOOLEAN, size : Sizes, root : RootSizes]
After(v, e) ==
  CASE e.type = "map"       -> [v EXCEPT !.mapped = TRUE]
    [] e.type = "unmap"     -> [v EXCEPT !.mapped = FALSE]
    [] e.type = "configure" -> [v EXCEPT !.size = e.size]
    [] e.type = "rootsize"  -> [v EXCEPT !.root = e.size]
    [] OTHER                -> v

(* A configure event changes the size; damage is of a mapped window.        *)
Possible(v, e) ==
  /\ e.type = "configure" => e.size # v.size
  /\ e.type = "damage" => v.mapped

(* h[k] is how things were when the k-th waiting event was sent.            *)
Told(h, q) ==
  /\ h \in [0 .. Len(q) -> View]
  /\ \A k \in 1 .. Len(q) : Possible(h[k - 1], q[k]) /\ h[k] = After(h[k - 1], q[k])

Seen(w) == [mapped |-> w.mapped, size |-> w.size, root |-> w.root]

(* The window's struct, unless it only fades out after the window is gone.  *)
Live(s) == s.listed /\ s.fade # "destroy"
Knows(s, v) ==
  /\ v.root = s.root
  /\ Live(s) => /\ v.mapped = s.viewable
                /\ v.size = IF s.need = None THEN s.size ELSE s.need

(* An event by which the pixmap of a mapped window is freed.                *)
Remakes(v, e) == v.mapped /\ e.type \in {"unmap", "configure"}
Waits(q, type) == \E k \in 1 .. Len(q) : q[k].type = type

PixmapGood(s) == s.held["pixmap"] \in {None, "current"}
TexGood(s) == s.held["tex"] # None /\ ~s.pixmap_damaged => s.fresh

(* What session s keeps of window w and is out of date is so by an event    *)
(* that waits.                                                              *)
Outdated(h, q, s, w) ==
  /\ Live(s) /\ s.viewable =>
       /\ PixmapGood(s) \/ \E k \in 1 .. Len(q) : Remakes(h[k - 1], q[k])
       /\ TexGood(s) \/ Waits(q, "damage")
  /\ Live(s) /\ w.reported => Waits(q, "damage")
  /\ \/ s.held["tile_pixmap"] \in {None, IF w.wall THEN "current" ELSE "own"}
     \/ Waits(q, "rootprop")

Ahead(h, q, s, w) ==
  Told(h, q) /\ Knows(s, h[0]) /\ h[Len(q)] = Seen(w) /\ Outdated(h, q, s, w)

(* A window that is mapped fades in at most and has no size in waiting; of  *)
(* one whose fade-out is over nothing is left; what there is of pixmaps has *)
(* the sizes compton knows.                                                 *)
Fits(s) ==
  /\ s.listed /\ s.viewable => s.fade \in {None, "map"} /\ s.need = None
  /\ Live(s) /\ ~s.viewable /\ s.fade # "unmap" => s.held["pixmap"] = None /\ ~s.damaged
  /\ s.held["pixmap"] = "junk" \/ xrender => s.held["tex"] = None
  /\ s.listed => s.held["shadow_pixmap"] \in {None, s.size} \/ s.sizechange
  /\ s.held["buffer_pixmap"] \in {None, s.root}

Follows == \E h : Ahead(h, queue, ps, x)
CInv == IInv /\ (running => Fits(ps) /\ Follows)

------------------------------------------------------------------------------
(* What freeing does to it.  Same: the fields of the struct that are no     *)
(* resources; Left: what is left of those.                                  *)
Same(s, t) ==
  /\ t \in Session
  /\ t.listed = s.listed /\ t.viewable = s.viewable /\ t.fade = s.fade
  /\ t.size = s.size /\ t.need = s.need /\ t.sizechange = s.sizechange
  /\ t.damaged = s.damaged /\ t.root = s.root

Pixmaps == {"pixmap", "shadow_pixmap", "buffer_pixmap", "tile_pixmap"}
Left(s, t) ==
  /\ t.pixmap_damaged = s.pixmap_damaged
  /\ \A k \in Pixmaps : t.held[k] \in {None, s.held[k]}
  /\ t.held["tex"] = None \/ (t.held["tex"] = s.held["tex"] /\ t.fresh = s.fresh)
Fewer(s, t) == Same(s, t) /\ Left(s, t)

LEMMA PixmapsAre ==
  Pixmaps \subseteq Member /\ "tex" \in Member
BY DEF Pixmaps, Member, WPaint, Shadow, Buffer, Tile

LEMMA FewerFits ==
  ASSUME NEW s, NEW t, Fewer(s, t), Fits(s)
  PROVE  /\ Fits(t)
         /\ PixmapGood(s) => PixmapGood(t)
         /\ TexGood(s) => TexGood(t)
<1>1. /\ t.listed = s.listed /\ t.viewable = s.viewable /\ t.fade = s.fade
      /\ t.size = s.size /\ t.need = s.need /\ t.sizechange = s.sizechange
      /\ t.damaged = s.damaged /\ t.root = s.root /\ t.pixmap_damaged = s.pixmap_damaged
  BY DEF Fewer, Left, Same
<1>2. /\ t.held["pixmap"] \in {None, s.held["pixmap"]}
      /\ t.held["shadow_pixmap"] \in {None, s.held["shadow_pixmap"]}
      /\ t.held["buffer_pixmap"] \in {None, s.held["buffer_pixmap"]}
      /\ t.held["tex"] = None \/ (t.held["tex"] = s.held["tex"] /\ t.fresh = s.fresh)
  BY DEF Fewer, Left, Pixmaps
<1>3. Fits(t)
  BY <1>1, <1>2 DEF Fits, Live, None
<1> QED
  BY <1>1, <1>2, <1>3 DEF PixmapGood, TexGood

LEMMA FewerTwice ==
  ASSUME NEW s, NEW t, NEW u, Fewer(s, t), Fewer(t, u) PROVE Fewer(s, u)
BY DEF Fewer, Left, Same

LEMMA LeftTwice ==
  ASSUME NEW s, NEW t, NEW u, Left(s, t), Left(t, u) PROVE Left(s, u)
BY DEF Left

LEMMA FreeFewer ==
  ASSUME NEW s \in Session, NEW K \in SUBSET Member
  PROVE  /\ Fewer(s, Free(s, K))
         /\ "tex" \notin K => Free(s, K).fresh = s.fresh
<1> DEFINE h == [k \in Member |-> IF k \in K THEN None ELSE s.held[k]]
           a == [k \in Member |-> IF k \in K THEN s.alive[k] - Count(s, k) ELSE s.alive[k]]
           fresh == s.fresh /\ "tex" \notin K
<1>1. Free(s, K) = [s EXCEPT !.held = h, !.alive = a, !.fresh = fresh]
  BY DEF Free, Session
<1>2. h \in [Member -> Value] /\ a \in [Member -> Int]
  BY DEF Session, Value, Count
<1>3. \A k \in Member : h[k] = IF k \in K THEN None ELSE s.held[k]
  OBVIOUS
<1>4. fresh \in BOOLEAN /\ ("tex" \notin K => fresh = s.fresh)
  BY DEF Session
<1> HIDE DEF h, a, fresh
<1>5. PICK t : t = Free(s, K)
  OBVIOUS
<1>6. /\ Same(s, t) /\ t.pixmap_damaged = s.pixmap_damaged
      /\ t.held = h /\ t.fresh = fresh
  BY <1>1, <1>2, <1>4, <1>5 DEF Session, Same
<1>7. \A k \in Member : t.held[k] \in {None, s.held[k]}
  BY <1>3, <1>6
<1>8. t.held["tex"] = None \/ (t.held["tex"] = s.held["tex"] /\ t.fresh = s.fresh)
  BY <1>3, <1>4, <1>6, PixmapsAre
<1>9. Fewer(s, t)
  BY <1>6, <1>7, <1>8, PixmapsAre DEF Fewer, Left
<1> QED
  BY <1>4, <1>5, <1>6, <1>9

LEMMA RedirStopFewer ==
  ASSUME NEW s \in Session PROVE Fewer(s, RedirStop(s))
<1>1. CASE ~s.redirected
  BY <1>1 DEF RedirStop, Fewer, Left, Same
<1>2. CASE s.redirected
  <2>1. PICK f : f = Free(s, WPaint \cup {"fence"})
    OBVIOUS
  <2>2. Fewer(s, f) /\ f \in Session
    BY <2>1, FreeFewer, MembersAre DEF Fewer, Left, Same
  <2>3. PICK t : t = [f EXCEPT !.redirected = FALSE]
    OBVIOUS
  <2>4. /\ t \in Session /\ t.held = f.held /\ t.fresh = f.fresh
        /\ t.pixmap_damaged = f.pixmap_damaged /\ Same(f, t)
    BY <2>2, <2>3 DEF Session, Same
  <2>5. Fewer(f, t)
    BY <2>4 DEF Fewer, Left
  <2> QED
    BY <1>2, <2>1, <2>2, <2>3, <2>5, FewerTwice DEF RedirStop
<1> QED
  BY <1>1, <1>2

LEMMA GlxDestroyFewer ==
  ASSUME NEW s \in Session PROVE Fewer(s, GlxDestroy(s))
<1>1. PICK f : f = Free(s, {"tex", "shadow_tex"} \cup Blur)
  OBVIOUS
<1>2. Fewer(s, f) /\ f \in Session /\ f.held["tex"] = None
  <2>1. {"tex", "shadow_tex"} \cup Blur \in SUBSET Member
    BY MembersAre DEF GLObjects, Member, WPaint, Shadow
  <2> QED
    BY <1>1, <2>1, FreeFewer, FreeFields
<1> DEFINE h == [k \in Member |-> IF k \in GLObjects /\ f.held[k] # None THEN "dead" ELSE f.held[k]]
           a == [k \in Member |-> IF k \in GLObjects THEN 0 ELSE f.alive[k]]
           t == [f EXCEPT !.held = h, !.alive = a]
<1>3. GlxDestroy(s) = t
  BY <1>1, <1>2 DEF GlxDestroy, Session
<1>4. h \in [Member -> Value] /\ a \in [Member -> Int]
  BY <1>2 DEF Session, Value
<1>5. \A k \in Member : h[k] = IF k \in GLObjects /\ f.held[k] # None THEN "dead" ELSE f.held[k]
  OBVIOUS
<1> HIDE DEF h, a
<1>6. Same(f, t) /\ t.pixmap_damaged = f.pixmap_damaged /\ t.held = h
  BY <1>2, <1>4 DEF Session, Same
<1> HIDE DEF t
<1>7. \A k \in Pixmaps : k \notin GLObjects
  BY DEF Pixmaps, GLObjects, Blur
<1>8. Fewer(f, t)
  BY <1>2, <1>5, <1>6, <1>7, PixmapsAre DEF Fewer, Left
<1> QED
  BY <1>2, <1>3, <1>8, FewerTwice

------------------------------------------------------------------------------
(* The callbacks and the handlers.                                          *)
LEMMA CallbackDone ==
  ASSUME NEW s \in Session, NEW c, c = Callback(s)
  PROVE  /\ c \in Session /\ c.fade = None /\ Left(s, c)
         /\ c.viewable = s.viewable /\ c.size = s.size /\ c.need = s.need
         /\ c.sizechange = s.sizechange /\ c.root = s.root
         /\ s.fade = "unmap" =>
              c.held["pixmap"] = None /\ c.held["tex"] = None /\ ~c.damaged
         /\ IF s.fade = "destroy" THEN ~c.listed ELSE c.listed = s.listed
         /\ s.fade \notin {"unmap", "destroy"} => c.damaged = s.damaged
<1>1. PICK n : n = [s EXCEPT !.fade = None]
  OBVIOUS
<1>2. /\ n \in Session /\ n.fade = None /\ n.held = s.held /\ n.fresh = s.fresh
      /\ n.pixmap_damaged = s.pixmap_damaged
      /\ n.viewable = s.viewable /\ n.size = s.size /\ n.need = s.need
      /\ n.sizechange = s.sizechange /\ n.root = s.root /\ n.listed = s.listed
      /\ n.damaged = s.damaged
  BY <1>1 DEF Session
<1>3. PICK d : d = [n EXCEPT !.damaged = FALSE]
  OBVIOUS
<1>4. /\ d \in Session /\ d.fade = None /\ d.held = s.held /\ d.fresh = s.fresh
      /\ d.pixmap_damaged = s.pixmap_damaged
      /\ d.viewable = s.viewable /\ d.size = s.size /\ d.need = s.need
      /\ d.sizechange = s.sizechange /\ d.root = s.root /\ d.listed = s.listed
      /\ d.damaged = FALSE
  BY <1>2, <1>3 DEF Session
<1>5. PICK K : K = WPaint \cup {"fence"} \cup Shadow
  OBVIOUS
<1>6. PICK M : M = WPaint \cup Shadow \cup Blur
  OBVIOUS
<1>7. K \in SUBSET Member /\ M \in SUBSET Member /\ {"pixmap", "tex"} \subseteq K
  BY <1>5, <1>6, MembersAre DEF WPaint
<1>8. PICK u : u = Free(d, K)
  OBVIOUS
<1>9. Fewer(d, u) /\ u \in Session /\ u.held["pixmap"] = None /\ u.held["tex"] = None
  BY <1>4, <1>7, <1>8, FreeFewer, FreeFields
<1>10. PICK w : w = Free(u, M)
  OBVIOUS
<1>11. Fewer(u, w) /\ w \in Session
  BY <1>7, <1>9, <1>10, FreeFewer, FreeFields
<1>12. PICK z : z = [w EXCEPT !.listed = FALSE]
  OBVIOUS
<1>13. /\ z \in Session /\ z.fade = w.fade /\ z.held = w.held /\ z.fresh = w.fresh
       /\ z.pixmap_damaged = w.pixmap_damaged
       /\ z.viewable = w.viewable /\ z.size = w.size /\ z.need = w.need
       /\ z.sizechange = w.sizechange /\ z.root = w.root /\ ~z.listed
  BY <1>11, <1>12 DEF Session
<1>14. FinishUnmapWin(n) = u /\ FinishDestroyWin(n) = z
  BY <1>3, <1>5, <1>6, <1>8, <1>10, <1>12
     DEF FinishUnmapWin, FinishDestroyWin, FreeWinRes
<1>15. c = CASE s.fade = "unmap"   -> u
             [] s.fade = "destroy" -> z
             [] OTHER              -> n
  BY <1>1, <1>14 DEF Callback
<1>16. Left(s, n) /\ Left(s, d) /\ Left(w, z)
  BY <1>2, <1>4, <1>13 DEF Left
<1>17. Left(s, u) /\ Left(s, w)
  BY <1>9, <1>11, <1>16, LeftTwice DEF Fewer
<1>18. Left(s, z)
  BY <1>16, <1>17, LeftTwice
<1>19. CASE s.fade = "unmap"
  BY <1>4, <1>9, <1>15, <1>17, <1>19 DEF Fewer, Same
<1>20. CASE s.fade = "destroy"
  BY <1>4, <1>9, <1>11, <1>13, <1>15, <1>18, <1>20 DEF Fewer, Same
<1>21. CASE s.fade \notin {"unmap", "destroy"}
  BY <1>2, <1>15, <1>16, <1>21
<1> QED
  BY <1>19, <1>20, <1>21

(* A mapped window gets its size, and loses what was made to another.       *)
LEMMA ConfigureDone ==
  ASSUME NEW s \in Session, Live(s), s.viewable, NEW size \in Sizes,
         NEW t, t = ConfigureWin(s, size)
  PROVE  /\ t \in Session /\ Left(s, t)
         /\ t.listed /\ t.viewable /\ t.fade = s.fade /\ t.root = s.root
         /\ t.size = size /\ t.need = None
         /\ IF size = s.size THEN t.sizechange = s.sizechange
            ELSE t.sizechange /\ t.held["pixmap"] = None /\ t.held["tex"] = None
<1>1. PICK n : n = [s EXCEPT !.need = None]
  OBVIOUS
<1>2. /\ n \in Session /\ n.fade = s.fade /\ n.held = s.held /\ n.fresh = s.fresh
      /\ n.pixmap_damaged = s.pixmap_damaged
      /\ n.viewable /\ n.size = s.size /\ n.need = None
      /\ n.sizechange = s.sizechange /\ n.root = s.root /\ n.listed
  BY <1>1 DEF Session, Live
<1>3. PICK f : f = Free(n, WPaint \cup {"fence"})
  OBVIOUS
<1>4. Fewer(n, f) /\ f \in Session /\ f.held["pixmap"] = None /\ f.held["tex"] = None
  <2>1. WPaint \cup {"fence"} \in SUBSET Member /\ {"pixmap", "tex"} \subseteq WPaint \cup {"fence"}
    BY MembersAre DEF WPaint
  <2> QED
    BY <1>2, <1>3, <2>1, FreeFewer, FreeFields
<1>5. PICK u : u = [f EXCEPT !.size = size, !.sizechange = TRUE]
  OBVIOUS
<1>6. /\ u \in Session /\ u.fade = f.fade /\ u.held = f.held /\ u.fresh = f.fresh
      /\ u.pixmap_damaged = f.pixmap_damaged
      /\ u.viewable = f.viewable /\ u.size = size /\ u.need = f.need
      /\ u.sizechange = TRUE /\ u.root = f.root /\ u.listed = f.listed
  BY <1>4, <1>5 DEF Session
<1>7. t = IF size = n.size THEN n ELSE u
  BY <1>1, <1>3, <1>5 DEF ConfigureWin, Resized, Live
<1>8. Left(s, n) /\ Left(f, u)
  BY <1>2, <1>6 DEF Left
<1>9. Left(s, u)
  <2>1. Left(s, f)
    BY <1>4, <1>8, LeftTwice DEF Fewer
  <2> QED
    BY <1>8, <2>1, LeftTwice
<1>10. CASE size = s.size
  BY <1>2, <1>7, <1>8, <1>10
<1>11. CASE size # s.size
  BY <1>2, <1>4, <1>6, <1>7, <1>9, <1>11 DEF Fewer, Same
<1> QED
  BY <1>10, <1>11

(* What a handler does is what its event tells, and it leaves nothing out   *)
(* of date that was not, or that this very event is about.                  *)
Obeyed(s, v, e, t) ==
  /\ t \in Session /\ Fits(t) /\ Knows(t, After(v, e))
  /\ Live(t) => Live(s)
  /\ Live(t) /\ t.viewable =>
       /\ PixmapGood(s) \/ ~s.viewable \/ Remakes(v, e) => PixmapGood(t)
       /\ TexGood(s) \/ ~s.viewable \/ e.type = "damage" => TexGood(t)
  /\ t.held["tile_pixmap"] \in {None, s.held["tile_pixmap"]}
  /\ e.type = "rootprop" => t.held["tile_pixmap"] = None

LEMMA LeftTile ==
  ASSUME NEW s, NEW t, Left(s, t) PROVE t.held["tile_pixmap"] \in {None, s.held["tile_pixmap"]}
BY DEF Left, Pixmaps

LEMMA AfterFields ==
  ASSUME NEW v \in View, NEW e \in SizedEvent
  PROVE  /\ After(v, e) \in View
         /\ After(v, e).mapped = (e.type = "map" \/ (e.type # "unmap" /\ v.mapped))
         /\ After(v, e).size = IF e.type = "configure" THEN e.size ELSE v.size
         /\ After(v, e).root = IF e.type = "rootsize" THEN e.size ELSE v.root
BY DEF View, After, SizedEvent

LEMMA MapObeyed ==
  ASSUME NEW s \in Session, Fits(s), Layered(s), NEW v \in View, Knows(s, v),
         NEW e \in SizedEvent, e.type = "map", NEW t, t = MapWin(s)
  PROVE  Obeyed(s, v, e, t)
<1>1. /\ After(v, e).mapped /\ After(v, e).size = v.size /\ After(v, e).root = v.root
      /\ ~Remakes(v, e) /\ e.type # "damage" /\ e.type # "rootprop"
  BY AfterFields DEF Remakes
<1>2. CASE ~s.listed \/ s.viewable \/ s.fade = "destroy"
  <2>1. t = s
    BY <1>2 DEF MapWin
  <2> QED
    BY <1>1, <1>2, <2>1 DEF Obeyed, Knows, Live
<1>3. CASE s.listed /\ ~s.viewable /\ s.fade # "destroy"
  <2>1. PICK c : c = Callback(s)
    OBVIOUS
  <2>2. /\ c \in Session /\ c.fade = None /\ Left(s, c) /\ c.listed
        /\ c.size = s.size /\ c.need = s.need
        /\ c.sizechange = s.sizechange /\ c.root = s.root
        /\ s.fade = "unmap" =>
             c.held["pixmap"] = None /\ c.held["tex"] = None
    BY <1>3, <2>1, CallbackDone
  <2>3. c.held["pixmap"] = None /\ c.held["tex"] = None
    <3>1. CASE s.fade = "unmap"
      BY <2>2, <3>1
    <3>2. CASE s.fade # "unmap"
      <4>1. s.held["pixmap"] = None /\ s.held["tex"] = None
        BY <1>3, <3>2 DEF Fits, Live, Layered
      <4> QED
        BY <2>2, <4>1 DEF Left, Pixmaps
    <3> QED
      BY <3>1, <3>2
  <2>4. PICK m : m = [c EXCEPT !.viewable = TRUE, !.fade = "map", !.damaged = FALSE]
    OBVIOUS
  <2>5. /\ m \in Session /\ m.fade = "map" /\ m.held = c.held /\ m.fresh = c.fresh
        /\ m.pixmap_damaged = c.pixmap_damaged
        /\ m.viewable /\ m.size = s.size /\ m.need = s.need
        /\ m.sizechange = s.sizechange /\ m.root = s.root /\ m.listed
    BY <2>2, <2>4 DEF Session
  <2>6. Left(s, m)
    <3>1. Left(c, m)
      BY <2>5 DEF Left
    <3> QED
      BY <2>2, <3>1, LeftTwice
  <2>7. t = IF s.need = None THEN m ELSE ConfigureWin(m, s.need)
    BY <1>3, <2>1, <2>4 DEF MapWin
  <2>8. /\ t \in Session /\ Left(m, t) /\ t.listed /\ t.viewable /\ t.fade = "map"
        /\ t.root = s.root /\ t.need = None
        /\ t.size = IF s.need = None THEN s.size ELSE s.need
        /\ t.size # s.size => t.sizechange
        /\ t.size = s.size => t.sizechange = s.sizechange
    <3>1. CASE s.need = None
      <4>1. Left(m, m)
        BY DEF Left
      <4> QED
        BY <2>5, <2>7, <3>1, <4>1
    <3>2. CASE s.need # None
      <4>1. s.need \in Sizes /\ Live(m)
        BY <2>5, <3>2 DEF Session, Live
      <4> QED
        BY <2>5, <2>7, <3>2, <4>1, ConfigureDone
    <3> QED
      BY <3>1, <3>2
  <2>9. Left(s, t)
    BY <2>6, <2>8, LeftTwice
  <2>10. t.held["pixmap"] = None /\ t.held["tex"] = None
    BY <2>3, <2>5, <2>8 DEF Left, Pixmaps
  <2>11. /\ t.held["shadow_pixmap"] \in {None, s.held["shadow_pixmap"]}
         /\ t.held["buffer_pixmap"] \in {None, s.held["buffer_pixmap"]}
    BY <2>9 DEF Left, Pixmaps
  <2>12. Fits(t)
    <3>1. s.held["shadow_pixmap"] \in {None, s.size} \/ s.sizechange
      BY <1>3 DEF Fits
    <3>2. s.held["buffer_pixmap"] \in {None, s.root}
      BY DEF Fits
    <3> QED
      BY <2>8, <2>10, <2>11, <3>1, <3>2 DEF Fits, Live
  <2>13. Knows(t, After(v, e))
    BY <1>1, <1>3, <2>8 DEF Knows, Live
  <2>14. PixmapGood(t) /\ TexGood(t) /\ Live(s)
    BY <1>3, <2>10 DEF PixmapGood, TexGood, Live
  <2> QED
    BY <1>1, <2>8, <2>9, <2>12, <2>13, <2>14, LeftTile DEF Obeyed
<1> QED
  BY <1>2, <1>3

LEMMA UnmapDone ==
  ASSUME NEW s \in Session, Fits(s), s.listed, s.viewable, NEW fades \in BOOLEAN,
         NEW t, t = UnmapWin(s, fades)
  PROVE  /\ t \in Session /\ Fits(t) /\ Left(s, t)
         /\ t.listed /\ ~t.viewable /\ t.fade = "unmap" /\ t.root = s.root
         /\ t.size = s.size /\ t.need = None
<1>1. PICK n : n = [s EXCEPT !.viewable = FALSE, !.fade = "unmap"]
  OBVIOUS
<1>2. /\ n \in Session /\ n.fade = "unmap" /\ n.held = s.held /\ n.fresh = s.fresh
      /\ n.pixmap_damaged = s.pixmap_damaged /\ n.damaged = s.damaged
      /\ ~n.viewable /\ n.size = s.size /\ n.need = s.need
      /\ n.sizechange = s.sizechange /\ n.root = s.root /\ n.listed
  BY <1>1 DEF Session
<1>3. s.need = None
  BY DEF Fits
<1>4. Fits(n) /\ Left(s, n)
  BY <1>2 DEF Fits, Live, Left
<1>5. PICK f : f = Free(n, {"fence"})
  OBVIOUS
<1>6. Fewer(n, f) /\ f \in Session
  <2>1. {"fence"} \in SUBSET Member
    BY MembersAre
  <2> QED
    BY <1>2, <1>5, <2>1, FreeFewer, FreeFields
<1>7. t = IF fades THEN Validated(f) ELSE f
  BY <1>1, <1>5 DEF UnmapWin
<1>8. Fewer(n, t)
  <2>1. PICK w : w = Free(f, WPaint)
    OBVIOUS
  <2>2. Fewer(f, w)
    BY <1>6, <2>1, MembersAre, FreeFewer
  <2>3. Fewer(n, w)
    BY <1>6, <2>2, FewerTwice
  <2> QED
    BY <1>6, <1>7, <2>1, <2>3 DEF Validated
<1>9. Fits(t) /\ Left(s, t)
  <2>1. Fits(t)
    BY <1>4, <1>8, FewerFits
  <2>2. Left(n, t)
    BY <1>8 DEF Fewer
  <2> QED
    BY <1>4, <2>1, <2>2, LeftTwice
<1> QED
  BY <1>2, <1>3, <1>8, <1>9 DEF Fewer, Same

LEMMA UnmapObeyed ==
  ASSUME NEW s \in Session, Fits(s), NEW v \in View, Knows(s, v),
         NEW e \in SizedEvent, e.type = "unmap", NEW fades \in BOOLEAN,
         NEW t, t = UnmapWin(s, fades)
  PROVE  Obeyed(s, v, e, t)
<1>1. /\ ~After(v, e).mapped /\ After(v, e).size = v.size /\ After(v, e).root = v.root
      /\ e.type # "damage" /\ e.type # "rootprop"
  BY AfterFields
<1>2. CASE ~s.listed \/ ~s.viewable
  <2>1. t = s /\ s.viewable \in BOOLEAN /\ After(v, e).mapped = FALSE
    BY <1>2, AfterFields DEF UnmapWin, Session
  <2>2. Knows(t, After(v, e))
    BY <1>1, <1>2, <2>1 DEF Knows, Live
  <2> QED
    BY <1>1, <1>2, <2>1, <2>2 DEF Obeyed, Live
<1>3. CASE s.listed /\ s.viewable
  <2>1. /\ t \in Session /\ Fits(t) /\ Left(s, t)
        /\ t.listed /\ ~t.viewable /\ t.fade = "unmap" /\ t.root = s.root
        /\ t.size = s.size /\ t.need = None
    BY <1>3, UnmapDone
  <2>2. Live(s) /\ s.need = None
    BY <1>3 DEF Fits, Live, None
  <2>3. Knows(t, After(v, e))
    <3>1. t.viewable = FALSE /\ After(v, e).mapped = FALSE
      BY <2>1, AfterFields DEF Session
    <3> QED
      BY <1>1, <2>1, <2>2, <3>1 DEF Knows
  <2> QED
    BY <1>1, <2>1, <2>2, <2>3, LeftTile DEF Obeyed
<1> QED
  BY <1>2, <1>3

LEMMA ConfigureObeyed ==
  ASSUME NEW s \in Session, Fits(s), NEW v \in View, Knows(s, v),
         NEW e \in SizedEvent, e.type = "configure", Possible(v, e),
         NEW t, t = ConfigureWin(s, e.size)
  PROVE  Obeyed(s, v, e, t)
<1>1. /\ After(v, e).mapped = v.mapped /\ After(v, e).size = e.size
      /\ After(v, e).root = v.root
      /\ e.type # "damage" /\ e.type # "rootprop" /\ e.size \in Sizes
      /\ e.size # v.size /\ e.size # None
  <2>1. /\ After(v, e).mapped = v.mapped /\ After(v, e).size = e.size
        /\ After(v, e).root = v.root
    BY AfterFields DEF View
  <2>2. e.size \in Sizes /\ e.size # v.size
    BY DEF SizedEvent, Possible
  <2> QED
    BY <2>1, <2>2, PaintingAssumption
<1>2. CASE ~Live(s)
  <2>1. t = s
    BY <1>2 DEF ConfigureWin, Live
  <2> QED
    BY <1>1, <1>2, <2>1 DEF Obeyed, Knows
<1>3. CASE Live(s) /\ ~s.viewable
  <2>1. t = [s EXCEPT !.need = e.size]
    BY <1>3 DEF ConfigureWin, Live
  <2>2. /\ t \in Session /\ t.fade = s.fade /\ t.held = s.held /\ t.fresh = s.fresh
        /\ t.pixmap_damaged = s.pixmap_damaged /\ t.damaged = s.damaged
        /\ t.viewable = s.viewable /\ t.size = s.size /\ t.need = e.size
        /\ t.sizechange = s.sizechange /\ t.root = s.root /\ t.listed = s.listed
    BY <1>1, <2>1 DEF Session
  <2>3. Fits(t)
    BY <1>3, <2>2 DEF Fits, Live
  <2>4. Knows(t, After(v, e))
    BY <1>1, <1>3, <2>2 DEF Knows, Live
  <2> QED
    BY <1>1, <1>3, <2>2, <2>3, <2>4 DEF Obeyed
<1>4. CASE Live(s) /\ s.viewable
  <2>1. s.need = None /\ v.size = s.size /\ v.mapped /\ v.root = s.root /\ s.listed
        /\ s.fade \in {None, "map"}
    BY <1>4 DEF Fits, Knows, Live
  <2>2. /\ t \in Session /\ Left(s, t)
        /\ t.listed /\ t.viewable /\ t.fade = s.fade /\ t.root = s.root
        /\ t.size = e.size /\ t.need = None
        /\ t.sizechange /\ t.held["pixmap"] = None /\ t.held["tex"] = None
    BY <1>1, <1>4, <2>1, ConfigureDone
  <2>3. Fits(t)
    <3>1. t.held["buffer_pixmap"] \in {None, s.root}
      BY <2>2 DEF Fits, Left, Pixmaps
    <3> QED
      BY <2>1, <2>2, <3>1 DEF Fits, Live
  <2>4. Knows(t, After(v, e))
    BY <1>1, <2>1, <2>2 DEF Knows
  <2>5. PixmapGood(t) /\ TexGood(t)
    BY <2>2 DEF PixmapGood, TexGood
  <2> QED
    BY <1>1, <1>4, <2>2, <2>3, <2>4, <2>5, LeftTile DEF Obeyed
<1> QED
  BY <1>2, <1>3, <1>4

LEMMA RepairObeyed ==
  ASSUME NEW s \in Session, Fits(s), NEW v \in View, Knows(s, v),
         NEW e \in SizedEvent, e.type = "damage", NEW t, t = RepairWin(s)
  PROVE  Obeyed(s, v, e, t)
<1>1. /\ After(v, e) = v /\ e.type # "rootprop" /\ ~Remakes(v, e)
  BY DEF After, Remakes
<1>2. CASE ~(s.listed /\ s.viewable)
  <2>1. t = s
    BY <1>2 DEF RepairWin
  <2> QED
    BY <1>1, <1>2, <2>1 DEF Obeyed, Live
<1>3. CASE s.listed /\ s.viewable
  <2>1. t = [s EXCEPT !.damaged = TRUE, !.pixmap_damaged = TRUE]
    BY <1>3 DEF RepairWin
  <2>2. /\ t \in Session /\ t.fade = s.fade /\ t.held = s.held
        /\ t.pixmap_damaged
        /\ t.viewable = s.viewable /\ t.size = s.size /\ t.need = s.need
        /\ t.sizechange = s.sizechange /\ t.root = s.root /\ t.listed = s.listed
    BY <2>1 DEF Session
  <2>3. Fits(t) /\ Knows(t, v) /\ TexGood(t)
    BY <1>3, <2>2 DEF Fits, Knows, Live, TexGood
  <2>4. PixmapGood(s) => PixmapGood(t)
    BY <2>2 DEF PixmapGood
  <2> QED
    BY <1>1, <1>3, <2>2, <2>3, <2>4 DEF Obeyed, Live
<1> QED
  BY <1>2, <1>3

LEMMA DestroyObeyed ==
  ASSUME NEW s \in Session, Fits(s), NEW v \in View, Knows(s, v),
         NEW e \in SizedEvent, e.type = "destroy", NEW fades \in BOOLEAN,
         NEW t, t = DestroyWin(s, fades)
  PROVE  Obeyed(s, v, e, t)
<1>1. /\ After(v, e) = v /\ e.type # "rootprop" /\ v.root = s.root
  BY DEF After, Knows
<1>2. CASE ~s.listed \/ s.fade = "destroy"
  <2>1. t = s
    BY <1>2 DEF DestroyWin
  <2> QED
    BY <1>1, <1>2, <2>1 DEF Obeyed, Live
<1>3. CASE s.listed /\ s.fade # "destroy"
  <2>1. PICK u : u = UnmapWin(s, fades)
    OBVIOUS
  <2>2. /\ u \in Session /\ Fits(u) /\ Left(s, u) /\ ~u.viewable /\ u.root = s.root
    <3>1. CASE s.viewable
      BY <1>3, <2>1, <3>1, UnmapDone
    <3>2. CASE ~s.viewable
      BY <2>1, <3>2 DEF UnmapWin, Left
    <3> QED
      BY <3>1, <3>2
  <2>3. t = [u EXCEPT !.fade = "destroy"]
    BY <1>3, <2>1 DEF DestroyWin
  <2>4. /\ t \in Session /\ t.fade = "destroy" /\ t.held = u.held
        /\ t.viewable = u.viewable /\ t.size = u.size
        /\ t.sizechange = u.sizechange /\ t.root = u.root /\ t.listed = u.listed
    BY <2>2, <2>3 DEF Session
  <2>5. ~Live(t)
    BY <2>4 DEF Live
  <2>6. Fits(t)
    BY <2>2, <2>4, <2>5 DEF Fits
  <2>7. t.held["tile_pixmap"] \in {None, s.held["tile_pixmap"]}
    BY <2>2, <2>4, LeftTile
  <2> QED
    BY <1>1, <2>2, <2>4, <2>5, <2>6, <2>7 DEF Obeyed, Knows
<1> QED
  BY <1>2, <1>3

LEMMA RootsizeObeyed ==
  ASSUME NEW s \in Session, Fits(s), NEW v \in View, Knows(s, v),
         NEW e \in SizedEvent, e.type = "rootsize", NEW t, t = ConfigureRoot(s, e.size)
  PROVE  Obeyed(s, v, e, t)
<1>1. /\ After(v, e).mapped = v.mapped /\ After(v, e).size = v.size
      /\ After(v, e).root = e.size /\ e.size \in RootSizes
      /\ e.type # "damage" /\ e.type # "rootprop" /\ ~Remakes(v, e)
  <2>1. /\ After(v, e).mapped = v.mapped /\ After(v, e).size = v.size
        /\ After(v, e).root = e.size
    BY AfterFields DEF View
  <2> QED
    BY <2>1 DEF SizedEvent, Remakes
<1>2. PICK f : f = Free(s, Buffer)
  OBVIOUS
<1>3. Fewer(s, f) /\ f \in Session /\ f.held["buffer_pixmap"] = None
  <2>1. Buffer \in SUBSET Member /\ "buffer_pixmap" \in Buffer
    BY MembersAre DEF Buffer
  <2> QED
    BY <1>2, <2>1, FreeFewer, FreeFields
<1>4. PICK r : r = [f EXCEPT !.root = e.size]
  OBVIOUS
<1>5. /\ r \in Session /\ r.fade = f.fade /\ r.held = f.held /\ r.fresh = f.fresh
      /\ r.pixmap_damaged = f.pixmap_damaged /\ r.damaged = f.damaged
      /\ r.viewable = f.viewable /\ r.size = f.size /\ r.need = f.need
      /\ r.sizechange = f.sizechange /\ r.root = e.size /\ r.listed = f.listed
  BY <1>1, <1>3, <1>4 DEF Session
<1>6. Fits(r) /\ Left(s, r)
  <2>1. Fits(f)
    BY <1>3, FewerFits
  <2>2. Fits(r) /\ Left(f, r)
    BY <1>3, <1>5, <2>1 DEF Fits, Live, Left
  <2> QED
    BY <1>3, <2>2, LeftTwice DEF Fewer
<1>7. PICK a : a = IF cfg.onroot = "reredir" THEN [RedirStop(r) EXCEPT !.redirected = s.redirected]
                   ELSE r
  OBVIOUS
<1>8. Fewer(r, a) /\ a \in Session
  <2>1. PICK d : d = RedirStop(r)
    OBVIOUS
  <2>2. Fewer(r, d) /\ d \in Session
    BY <1>5, <2>1, RedirStopFewer DEF Fewer, Same
  <2>3. PICK b : b = [d EXCEPT !.redirected = s.redirected]
    OBVIOUS
  <2>4. /\ b \in Session /\ b.held = d.held /\ b.fresh = d.fresh
        /\ b.pixmap_damaged = d.pixmap_damaged /\ Same(d, b)
    BY <2>2, <2>3 DEF Session, Same
  <2>5. Fewer(d, b)
    BY <2>4 DEF Fewer, Left
  <2>6. Fewer(r, b) /\ Fewer(r, r)
    <3>1. Fewer(r, r)
      BY <1>5 DEF Fewer, Same, Left
    <3> QED
      BY <2>2, <2>5, <3>1, FewerTwice
  <2>7. a = IF cfg.onroot = "reredir" THEN b ELSE r
    BY <1>7, <2>1, <2>3
  <2> QED
    BY <1>5, <2>4, <2>6, <2>7
<1>9. t = IF cfg.onroot = "reinit" THEN GlxDestroy(a) ELSE a
  BY <1>2, <1>4, <1>7 DEF ConfigureRoot
<1>10. Fewer(r, t)
  <2>1. Fewer(a, GlxDestroy(a))
    BY <1>8, GlxDestroyFewer
  <2> QED
    BY <1>8, <1>9, <2>1, FewerTwice
<1>11. Fits(t) /\ Left(s, t)
  <2>1. Fits(t)
    BY <1>6, <1>10, FewerFits
  <2>2. Left(r, t)
    BY <1>10 DEF Fewer
  <2> QED
    BY <1>6, <2>1, <2>2, LeftTwice
<1>12. /\ t \in Session /\ t.fade = s.fade /\ t.listed = s.listed
       /\ t.viewable = s.viewable /\ t.size = s.size /\ t.need = s.need /\ t.root = e.size
  BY <1>3, <1>5, <1>10 DEF Fewer, Same
<1>13. Knows(t, After(v, e))
  BY <1>1, <1>12 DEF Knows, Live
<1>14. (PixmapGood(s) => PixmapGood(t)) /\ (TexGood(s) => TexGood(t))
  <2>1. t.held["pixmap"] \in {None, s.held["pixmap"]}
    BY <1>11 DEF Left, Pixmaps
  <2>2. TexGood(s) => TexGood(t)
    BY <1>11 DEF Left, TexGood
  <2> QED
    BY <2>1, <2>2 DEF PixmapGood
<1> QED
  BY <1>1, <1>11, <1>12, <1>13, <1>14, LeftTile DEF Obeyed, Live

LEMMA RootpropObeyed ==
  ASSUME NEW s \in Session, Fits(s), NEW v \in View, Knows(s, v),
         NEW e \in SizedEvent, e.type = "rootprop", NEW t, t = RootDamaged(s)
  PROVE  Obeyed(s, v, e, t)
<1>1. After(v, e) = v /\ e.type # "damage" /\ ~Remakes(v, e)
  BY DEF After, Remakes
<1>2. Fewer(s, t) /\ t.held["tile_pixmap"] = None
  <2>1. Tile \in SUBSET Member /\ "tile_pixmap" \in Tile
    BY MembersAre DEF Tile
  <2> QED
    BY <2>1, FreeFewer, FreeFields DEF RootDamaged
<1>3. Fits(t) /\ (PixmapGood(s) => PixmapGood(t)) /\ (TexGood(s) => TexGood(t))
  BY <1>2, FewerFits
<1>4. Knows(t, After(v, e)) /\ Live(t) = Live(s) /\ t \in Session /\ t.viewable = s.viewable
  BY <1>1, <1>2 DEF Fewer, Same, Knows, Live
<1> QED
  BY <1>1, <1>2, <1>3, <1>4 DEF Obeyed

LEMMA HandledObeyed ==
  ASSUME NEW s \in Session, Fits(s), Layered(s), NEW v \in View, Knows(s, v),
         NEW e \in SizedEvent, Possible(v, e), NEW fades \in BOOLEAN,
         NEW t, t = Handled(s, e, fades)
  PROVE  Obeyed(s, v, e, t)
<1>1. e.type \in {"map", "unmap", "configure", "damage", "destroy", "rootsize", "rootprop"}
  BY DEF SizedEvent, Event
<1>2. CASE e.type = "map"
  BY <1>2, MapObeyed DEF Handled
<1>3. CASE e.type = "unmap"
  BY <1>3, UnmapObeyed DEF Handled
<1>4. CASE e.type = "configure"
  BY <1>4, ConfigureObeyed DEF Handled
<1>5. CASE e.type = "damage"
  BY <1>5, RepairObeyed DEF Handled
<1>6. CASE e.type = "destroy"
  BY <1>6, DestroyObeyed DEF Handled
<1>7. CASE e.type = "rootsize"
  BY <1>7, RootsizeObeyed DEF Handled
<1>8. CASE e.type = "rootprop"
  BY <1>8, RootpropObeyed DEF Handled
<1> QED
  BY <1>1, <1>2, <1>3, <1>4, <1>5, <1>6, <1>7, <1>8

------------------------------------------------------------------------------
(* A frame.                                                                 *)

(* Only members of K are made or freed.                                     *)
Touch(s, t, K) ==
  /\ Same(s, t)
  /\ t.pixmap_damaged = s.pixmap_damaged
  /\ "tex" \notin K => t.fresh = s.fresh
  /\ \A k \in Member : k \notin K => t.held[k] = s.held[k]

LEMMA TouchTwice ==
  ASSUME NEW s, NEW t, NEW u, NEW K, Touch(s, t, K), Touch(t, u, K) PROVE Touch(s, u, K)
BY DEF Touch, Same

LEMMA TouchNot ==
  ASSUME NEW s \in Session, NEW K PROVE Touch(s, s, K)
BY DEF Touch, Same

LEMMA MakeTouch ==
  ASSUME NEW s \in Session, NEW K \in SUBSET Member, NEW k \in K, NEW v \in Value,
         NEW t, t = Make(s, k, v)
  PROVE  Touch(s, t, K) /\ t \in Session /\ t.held[k] = v /\ t.fresh = s.fresh
<1>1. k \in Member
  OBVIOUS
<1> DEFINE h == [s.held EXCEPT ![k] = v]
           a == [s.alive EXCEPT ![k] = IF Owned(k, v) THEN @ + 1 ELSE @]
<1>2. t = [s EXCEPT !.held = h, !.alive = a]
  BY DEF Make, Session
<1>3. h \in [Member -> Value] /\ a \in [Member -> Int]
  BY <1>1 DEF Session
<1>4. h[k] = v /\ \A j \in Member : j # k => h[j] = s.held[j]
  BY <1>1 DEF Session
<1> HIDE DEF h, a
<1>5. /\ Same(s, t) /\ t.pixmap_damaged = s.pixmap_damaged /\ t.fresh = s.fresh
      /\ t.held = h /\ t \in Session
  BY <1>2, <1>3 DEF Session, Same
<1> QED
  BY <1>4, <1>5 DEF Touch

LEMMA MakeUnlessTouch ==
  ASSUME NEW s \in Session, NEW K \in SUBSET Member, NEW k \in K, NEW v \in Value,
         NEW t, t = MakeUnless(s, k, v)
  PROVE  /\ Touch(s, t, K) /\ t \in Session /\ t.fresh = s.fresh
         /\ t.held[k] = IF s.held[k] = None THEN v ELSE s.held[k]
<1>1. CASE s.held[k] = None
  BY <1>1, MakeTouch DEF MakeUnless
<1>2. CASE s.held[k] # None
  <2>1. t = s
    BY <1>2 DEF MakeUnless
  <2> QED
    BY <1>2, <2>1, TouchNot
<1> QED
  BY <1>1, <1>2

LEMMA FreeTouch ==
  ASSUME NEW s \in Session, NEW K \in SUBSET Member, NEW M \in SUBSET K,
         NEW t, t = Free(s, M)
  PROVE  Touch(s, t, K) /\ t \in Session /\ \A k \in M : t.held[k] = None
<1>1. M \in SUBSET Member
  OBVIOUS
<1>2. Fewer(s, t) /\ t \in Session /\ ("tex" \notin M => t.fresh = s.fresh)
  BY <1>1, FreeFewer DEF Fewer, Same
<1>3. /\ \A k \in M : t.held[k] = None
      /\ \A k \in Member : k \notin M => t.held[k] = s.held[k]
  BY <1>1, FreeFields
<1> QED
  BY <1>2, <1>3 DEF Touch, Fewer, Left

LEMMA TgtBufferTouch ==
  ASSUME NEW s \in Session, s.held["buffer_pixmap"] \in {None, s.root},
         NEW t, t = TgtBuffer(s)
  PROVE  Touch(s, t, Buffer) /\ t \in Session /\ t.held["buffer_pixmap"] \in {None, s.root}
<1>1. /\ Buffer \in SUBSET Member /\ "buffer_pict" \in Buffer /\ "buffer_pixmap" \in Buffer
      /\ "buffer_pixmap" \in Member /\ "own" \in Value /\ s.root \in Value
      /\ "buffer_pixmap" # "buffer_pict"
  BY MembersAre DEF Buffer, Value, Session
<1>2. PICK b : b = Make(s, "buffer_pict", "own")
  OBVIOUS
<1>3. /\ Touch(s, b, Buffer) /\ b \in Session
      /\ b.held["buffer_pixmap"] = s.held["buffer_pixmap"]
  <2>1. Touch(s, b, {"buffer_pict"}) /\ b \in Session
    <3>1. {"buffer_pict"} \in SUBSET Member /\ "buffer_pict" \in {"buffer_pict"}
      BY <1>1
    <3> QED
      BY <1>1, <1>2, <3>1, MakeTouch
  <2>2. Touch(s, b, Buffer)
    BY <1>1, <1>2, MakeTouch
  <2> QED
    BY <1>1, <2>1, <2>2 DEF Touch
<1>4. PICK f : f = Free(s, Buffer)
  OBVIOUS
<1>5. Touch(s, f, Buffer) /\ f \in Session
  BY <1>1, <1>4, FreeTouch
<1>6. PICK m : m = Make(f, "buffer_pixmap", s.root)
  OBVIOUS
<1>7. Touch(s, m, Buffer) /\ m \in Session /\ m.held["buffer_pixmap"] = s.root
  <2>1. Touch(f, m, Buffer) /\ m \in Session /\ m.held["buffer_pixmap"] = s.root
    BY <1>1, <1>5, <1>6, MakeTouch
  <2> QED
    BY <1>5, <2>1, TouchTwice
<1>8. PICK p : p = IF s.held["buffer_pixmap"] = None THEN m ELSE s
  OBVIOUS
<1>9. Touch(s, p, Buffer) /\ p \in Session /\ p.held["buffer_pixmap"] \in {None, s.root}
  BY <1>7, <1>8, TouchNot
<1>10. PICK q : q = Make(p, "buffer_pict", "own")
  OBVIOUS
<1>11. Touch(s, q, Buffer) /\ q \in Session /\ q.held["buffer_pixmap"] \in {None, s.root}
  <2>1. Touch(p, q, {"buffer_pict"}) /\ Touch(p, q, Buffer) /\ q \in Session
    <3>1. {"buffer_pict"} \in SUBSET Member /\ "buffer_pict" \in {"buffer_pict"}
      BY <1>1
    <3> QED
      BY <1>1, <1>9, <1>10, <3>1, MakeTouch
  <2>2. q.held["buffer_pixmap"] = p.held["buffer_pixmap"]
    BY <1>1, <2>1 DEF Touch
  <2> QED
    BY <1>9, <2>1, <2>2, TouchTwice
<1>12. t = IF xrender /\ s.held["buffer_pict"] # None THEN s
           ELSE IF cfg.backend = "dbe" THEN b
           ELSE IF xrender THEN q ELSE p
  BY <1>2, <1>4, <1>6, <1>8, <1>10 DEF TgtBuffer
<1> QED
  BY <1>3, <1>9, <1>11, <1>12, TouchNot

(* The value of the wallpaper that is set, or that compton makes.           *)
Wall == IF x.wall THEN "current" ELSE "own"

LEMMA PaintRootTouch ==
  ASSUME NEW s \in Session, NEW t, t = PaintRoot(s)
  PROVE  /\ Touch(s, t, Tile) /\ t \in Session
         /\ t.held["tile_pixmap"] =
              IF s.held["tile_pixmap"] # None THEN s.held["tile_pixmap"] ELSE Wall
<1>1. /\ Tile \in SUBSET Member /\ Tile = {"tile_pixmap", "tile_pict", "tile_tex"}
      /\ "own" \in Value /\ Wall \in Value /\ "tile_pixmap" \in Member
  BY MembersAre DEF Tile, Value, Wall
<1>2. CASE s.held["tile_pixmap"] # None
  <2>1. t = s
    BY <1>2 DEF PaintRoot
  <2> QED
    BY <1>2, <2>1, TouchNot
<1>3. CASE s.held["tile_pixmap"] = None
  <2> DEFINE O == {"tile_pict", "tile_tex"}
  <2>1. /\ O \in SUBSET Member /\ "tile_pict" \in O /\ "tile_tex" \in O
        /\ "tile_pixmap" \notin O /\ "tile_pixmap" \in Tile /\ O \subseteq Tile
        /\ "tex" \notin Tile
    BY <1>1
  <2> HIDE DEF O
  <2>2. PICK p : p = Make(s, "tile_pixmap", Wall)
    OBVIOUS
  <2>3. Touch(s, p, Tile) /\ p \in Session /\ p.held["tile_pixmap"] = Wall
    BY <1>1, <2>1, <2>2, MakeTouch
  <2>4. PICK q : q = Make(p, "tile_pict", "own")
    OBVIOUS
  <2>5. Touch(p, q, O) /\ q \in Session
    BY <1>1, <2>1, <2>3, <2>4, MakeTouch
  <2>6. PICK r : r = MakeUnless(q, "tile_tex", "own")
    OBVIOUS
  <2>7. Touch(q, r, O) /\ r \in Session
    BY <1>1, <2>1, <2>5, <2>6, MakeUnlessTouch
  <2>8. Touch(p, r, O)
    BY <2>5, <2>7, TouchTwice
  <2>9. t = IF glx THEN r ELSE q
    BY <1>3, <2>2, <2>4, <2>6 DEF PaintRoot, Wall
  <2>10. Touch(p, t, O) /\ t \in Session
    BY <2>5, <2>7, <2>8, <2>9
  <2>11. t.held["tile_pixmap"] = Wall
    BY <1>1, <2>1, <2>3, <2>10 DEF Touch
  <2>12. Touch(p, t, Tile)
    BY <2>1, <2>10 DEF Touch
  <2> QED
    BY <1>3, <2>3, <2>10, <2>11, <2>12, TouchTwice
<1> QED
  BY <1>2, <1>3

LEMMA PaintShadowTouch ==
  ASSUME NEW s \in Session, NEW t, t = PaintShadow(s)
  PROVE  /\ Touch(s, t, Shadow) /\ t \in Session
         /\ t.held["shadow_pixmap"] \in {s.held["shadow_pixmap"], s.size}
<1> DEFINE O == {"shadow_pict", "shadow_tex"}
<1>1. /\ Shadow \in SUBSET Member /\ "shadow_pixmap" \in Shadow /\ "tex" \notin Shadow
      /\ "own" \in Value /\ s.size \in Value /\ "shadow_pixmap" \in Member
      /\ O \in SUBSET Member /\ "shadow_pict" \in O /\ "shadow_tex" \in O
      /\ "shadow_pixmap" \notin O /\ O \subseteq Shadow
  BY MembersAre DEF Shadow, Value, Session
<1> HIDE DEF O
<1>2. PICK p : p = Make(s, "shadow_pixmap", s.size)
  OBVIOUS
<1>3. Touch(s, p, Shadow) /\ p \in Session /\ p.held["shadow_pixmap"] = s.size
  BY <1>1, <1>2, MakeTouch
<1>4. PICK q : q = Make(p, "shadow_pict", "own")
  OBVIOUS
<1>5. Touch(p, q, O) /\ q \in Session
  BY <1>1, <1>3, <1>4, MakeTouch
<1>6. PICK b : b = IF s.held["shadow_pixmap"] # None THEN s ELSE q
  OBVIOUS
<1>7. /\ Touch(s, b, Shadow) /\ b \in Session
      /\ b.held["shadow_pixmap"] \in {s.held["shadow_pixmap"], s.size}
  <2>1. q.held["shadow_pixmap"] = s.size
    BY <1>1, <1>3, <1>5 DEF Touch
  <2>2. Touch(p, q, Shadow)
    BY <1>1, <1>5 DEF Touch
  <2>3. Touch(s, q, Shadow)
    BY <1>3, <2>2, TouchTwice
  <2> QED
    BY <1>5, <1>6, <2>1, <2>3, TouchNot
<1>8. PICK r : r = MakeUnless(b, "shadow_tex", "own")
  OBVIOUS
<1>9. Touch(b, r, O) /\ r \in Session
  BY <1>1, <1>7, <1>8, MakeUnlessTouch
<1>10. t = IF glx THEN r ELSE b
  BY <1>2, <1>4, <1>6, <1>8 DEF PaintShadow
<1>11. Touch(b, t, O) /\ t \in Session
  BY <1>7, <1>9, <1>10, TouchNot
<1>12. t.held["shadow_pixmap"] = b.held["shadow_pixmap"] /\ Touch(b, t, Shadow)
  BY <1>1, <1>11 DEF Touch
<1> QED
  BY <1>7, <1>11, <1>12, TouchTwice

LEMMA BlurTouch ==
  ASSUME NEW s \in Session, NEW t, t = BlurBackground(s)
  PROVE  Touch(s, t, Blur) /\ t \in Session
<1>1. /\ Blur \in SUBSET Member /\ "blur_textures" \in Blur /\ "blur_fbo" \in Blur
      /\ {"blur_textures"} \in SUBSET Blur /\ "own" \in Value /\ s.size \in Value
  BY MembersAre DEF Blur, Value, Session
<1>2. PICK f : f = Free(s, {"blur_textures"})
  OBVIOUS
<1>3. PICK z : z = IF s.held["blur_textures"] = s.size THEN s ELSE f
  OBVIOUS
<1>4. Touch(s, z, Blur) /\ z \in Session
  <2>1. Touch(s, f, Blur) /\ f \in Session
    BY <1>1, <1>2, FreeTouch
  <2> QED
    BY <1>3, <2>1, TouchNot
<1>5. PICK p : p = MakeUnless(z, "blur_textures", s.size)
  OBVIOUS
<1>6. Touch(s, p, Blur) /\ p \in Session
  <2>1. Touch(z, p, Blur) /\ p \in Session
    BY <1>1, <1>4, <1>5, MakeUnlessTouch
  <2> QED
    BY <1>4, <2>1, TouchTwice
<1>7. PICK q : q = MakeUnless(p, "blur_fbo", "own")
  OBVIOUS
<1>8. Touch(s, q, Blur) /\ q \in Session
  <2>1. Touch(p, q, Blur) /\ q \in Session
    BY <1>1, <1>6, <1>7, MakeUnlessTouch
  <2> QED
    BY <1>6, <2>1, TouchTwice
<1>9. t = IF ~glx THEN s ELSE q
  BY <1>2, <1>3, <1>5, <1>7 DEF BlurBackground
<1> QED
  BY <1>8, <1>9, TouchNot

(* The pixmap is named when there was none, and its texture bound anew when *)
(* it was damaged.                                                          *)
LEMMA PaintWinDone ==
  ASSUME NEW s \in Session, ps.listed,
         s.held["pixmap"] = None => s.held["tex"] = None,
         s.held["pixmap"] = "junk" \/ xrender => s.held["tex"] = None,
         NEW t, t = PaintWin(s)
  PROVE  /\ Same(s, t) /\ (TexGood(s) => TexGood(t))
         /\ \A k \in Member : k \notin WPaint \cup {"fence"} => t.held[k] = s.held[k]
         /\ t.held["pixmap"] = IF s.held["pixmap"] # None THEN s.held["pixmap"]
                               ELSE IF x.mapped THEN "current" ELSE "junk"
         /\ t.held["pixmap"] = "junk" \/ xrender => t.held["tex"] = None
<1>1. PICK K : K = WPaint \cup {"fence"}
  OBVIOUS
<1>2. PICK O : O = {"pict", "fence"}
  OBVIOUS
<1>3. /\ K \in SUBSET Member /\ O \in SUBSET Member /\ O \subseteq K
      /\ {"pixmap", "fence"} \in SUBSET Member /\ {"tex"} \in SUBSET Member
      /\ "pict" \in O /\ "fence" \in O /\ "pixmap" \notin O /\ "tex" \notin O
      /\ "pixmap" \in K /\ "tex" \in K /\ "fence" \in K
      /\ {"pixmap", "tex"} \subseteq Member
      /\ {"own", "junk", "current"} \subseteq Value
  BY <1>1, <1>2, MembersAre DEF WPaint, Value
<1>4. PICK v : v = IF x.mapped THEN "current" ELSE "junk"
  OBVIOUS
<1>5. v = Named /\ v \in Value
  BY <1>3, <1>4 DEF Named
<1>6. PICK f : f = Free(s, {"fence"})
  OBVIOUS
<1>7. PICK m : m = Make(f, "pixmap", Named)
  OBVIOUS
<1>8. PICK n : n = IF s.held["pixmap"] # None THEN s ELSE m
  OBVIOUS
<1>9. /\ Touch(s, n, {"pixmap", "fence"}) /\ n \in Session
      /\ n.held["pixmap"] = IF s.held["pixmap"] # None THEN s.held["pixmap"] ELSE v
  <2>1. Touch(s, f, {"pixmap", "fence"}) /\ f \in Session
    <3>1. {"fence"} \in SUBSET {"pixmap", "fence"}
      OBVIOUS
    <3> QED
      BY <1>3, <1>6, <3>1, FreeTouch
  <2>2. Touch(f, m, {"pixmap", "fence"}) /\ m \in Session /\ m.held["pixmap"] = v
    BY <1>3, <1>5, <1>7, <2>1, MakeTouch
  <2> QED
    BY <1>8, <2>1, <2>2, TouchTwice, TouchNot
<1>10. PICK w : w = IF n.held["pixmap"] = "junk" THEN "junk" ELSE "own"
  OBVIOUS
<1>11. PICK a : a = MakeUnless(n, "pict", w)
  OBVIOUS
<1>12. PICK p : p = IF xrender THEN a ELSE n
  OBVIOUS
<1>13. Touch(n, p, O) /\ p \in Session
  <2>1. w \in Value
    BY <1>3, <1>10
  <2>2. Touch(n, a, O) /\ a \in Session
    BY <1>3, <1>9, <1>11, <2>1, MakeUnlessTouch
  <2> QED
    BY <1>9, <1>12, <2>2, TouchNot
<1>14. PICK b : b = MakeUnless(p, "fence", "own")
  OBVIOUS
<1>15. PICK z : z = IF s.viewable THEN b ELSE p
  OBVIOUS
<1>16. Touch(n, z, O) /\ z \in Session
  <2>1. Touch(p, b, O) /\ b \in Session
    BY <1>3, <1>13, <1>14, MakeUnlessTouch
  <2> QED
    BY <1>13, <1>15, <2>1, TouchTwice
<1>17. /\ z.held["pixmap"] = n.held["pixmap"] /\ z.held["tex"] = s.held["tex"]
       /\ z.fresh = s.fresh /\ z.pixmap_damaged = s.pixmap_damaged
       /\ Same(s, z)
       /\ \A k \in Member : k \notin K => z.held[k] = s.held[k]
  <2>1. n.held["tex"] = s.held["tex"] /\ n.fresh = s.fresh
    BY <1>3, <1>9 DEF Touch
  <2>2. \A k \in Member : k \notin K => n.held[k] = s.held[k]
    BY <1>3, <1>9 DEF Touch
  <2>3. \A k \in Member : k \notin K => z.held[k] = n.held[k]
    BY <1>3, <1>16 DEF Touch
  <2>4. Same(s, z) /\ z.pixmap_damaged = s.pixmap_damaged
    BY <1>9, <1>16 DEF Touch, Same
  <2> QED
    BY <1>3, <1>16, <2>1, <2>2, <2>3, <2>4 DEF Touch
<1>18. PICK c : c = MakeUnless(z, "tex", "own")
  OBVIOUS
<1>19. Touch(z, c, {"tex"}) /\ c \in Session /\ c.fresh = z.fresh
  BY <1>3, <1>16, <1>18, MakeUnlessTouch
<1>20. PICK fresh : fresh = (c.fresh \/ z.pixmap_damaged \/ z.held["tex"] = None)
  OBVIOUS
<1>21. PICK d : d = [c EXCEPT !.fresh = fresh]
  OBVIOUS
<1>22. BindTex(z) = IF ~glx \/ z.held["pixmap"] = "junk" THEN z ELSE d
  BY <1>18, <1>20, <1>21 DEF BindTex
<1>23. /\ d \in Session /\ Same(c, d) /\ d.held = c.held /\ d.fresh = fresh
  <2>1. fresh \in BOOLEAN
    BY <1>16, <1>19, <1>20 DEF Session
  <2> QED
    BY <1>19, <1>21, <2>1 DEF Session, Same
<1>24. PICK e : e = IF ~glx \/ z.held["pixmap"] = "junk" THEN z ELSE d
  OBVIOUS
<1>25. t = [e EXCEPT !.pixmap_damaged = FALSE]
  BY <1>5, <1>6, <1>7, <1>8, <1>10, <1>11, <1>12, <1>14, <1>15, <1>22, <1>24 DEF PaintWin
<1>26. e \in Session /\ Same(s, e)
  BY <1>16, <1>17, <1>19, <1>23, <1>24 DEF Touch, Same
<1>27. Same(s, t) /\ t.held = e.held /\ t.fresh = e.fresh /\ ~t.pixmap_damaged
  BY <1>25, <1>26 DEF Session, Same
<1>28. CASE ~glx \/ z.held["pixmap"] = "junk"
  <2>1. e.held = z.held
    BY <1>24, <1>28
  <2>2. z.held["tex"] = None
    <3>1. CASE ~glx
      BY <1>17, <3>1 DEF xrender
    <3>2. CASE z.held["pixmap"] = "junk"
      <4>1. s.held["pixmap"] \in {None, "junk"}
        BY <1>4, <1>9, <1>17, <3>2
      <4> QED
        BY <1>17, <4>1
    <3> QED
      BY <1>28, <3>1, <3>2
  <2>3. t.held = z.held
    BY <1>27, <2>1
  <2>4. TexGood(t)
    BY <2>2, <2>3 DEF TexGood
  <2> QED
    BY <1>1, <1>4, <1>9, <1>17, <1>27, <2>2, <2>3, <2>4
<1>29. CASE glx /\ z.held["pixmap"] # "junk"
  <2>1. e = d
    BY <1>24, <1>29
  <2>2. /\ t.held["pixmap"] = z.held["pixmap"]
        /\ \A k \in Member : k \notin K => t.held[k] = z.held[k]
    BY <1>3, <1>19, <1>23, <1>27, <2>1 DEF Touch
  <2>3. TexGood(s) => fresh
    BY <1>17, <1>19, <1>20 DEF TexGood
  <2>4. TexGood(s) => TexGood(t)
    BY <1>23, <1>27, <2>1, <2>3 DEF TexGood
  <2> QED
    BY <1>1, <1>4, <1>9, <1>17, <1>27, <1>29, <2>2, <2>4 DEF xrender
<1> QED
  BY <1>28, <1>29

(* What a step of compton's own carries over: what it knows, and what is    *)
(* not out of date.  A pixmap that is named then is bad if the window is    *)
(* not mapped any more.                                                     *)
Carries(s, t) ==
  /\ t \in Session /\ Fits(t) /\ t.root = s.root
  /\ Live(t) => Live(s) /\ t.viewable = s.viewable /\ t.size = s.size /\ t.need = s.need
  /\ Live(t) /\ t.viewable =>
       /\ PixmapGood(s) => PixmapGood(t) \/ ~x.mapped
       /\ TexGood(s) => TexGood(t)
  /\ s.held["tile_pixmap"] \in {None, Wall} => t.held["tile_pixmap"] \in {None, Wall}

LEMMA CarriesTwice ==
  ASSUME NEW s, NEW t, NEW u, Carries(s, t), Carries(t, u) PROVE Carries(s, u)
BY DEF Carries

LEMMA FewerCarries ==
  ASSUME NEW s, NEW t, Fewer(s, t), Fits(s) PROVE Carries(s, t)
<1>1. Fits(t) /\ (PixmapGood(s) => PixmapGood(t)) /\ (TexGood(s) => TexGood(t))
  BY FewerFits
<1>2. Same(s, t) /\ t.held["tile_pixmap"] \in {None, s.held["tile_pixmap"]}
  BY LeftTile DEF Fewer
<1> QED
  BY <1>1, <1>2 DEF Same, Carries, Live

LEMMA CallbackCarries ==
  ASSUME NEW s \in Session, Fits(s), NEW t, t = Callback(s) PROVE Carries(s, t)
<1>1. /\ t \in Session /\ t.fade = None /\ Left(s, t)
      /\ t.viewable = s.viewable /\ t.size = s.size /\ t.need = s.need
      /\ t.sizechange = s.sizechange /\ t.root = s.root
      /\ s.fade = "unmap" =>
           t.held["pixmap"] = None /\ t.held["tex"] = None /\ ~t.damaged
      /\ IF s.fade = "destroy" THEN ~t.listed ELSE t.listed = s.listed
      /\ s.fade \notin {"unmap", "destroy"} => t.damaged = s.damaged
  BY CallbackDone
<1>2. /\ t.held["pixmap"] \in {None, s.held["pixmap"]}
      /\ t.held["shadow_pixmap"] \in {None, s.held["shadow_pixmap"]}
      /\ t.held["buffer_pixmap"] \in {None, s.held["buffer_pixmap"]}
      /\ t.held["tile_pixmap"] \in {None, s.held["tile_pixmap"]}
      /\ t.held["tex"] = None \/ (t.held["tex"] = s.held["tex"] /\ t.fresh = s.fresh)
      /\ t.pixmap_damaged = s.pixmap_damaged
  BY <1>1 DEF Left, Pixmaps
<1>3. Live(t) => Live(s) /\ t.listed = s.listed
  BY <1>1 DEF Live
<1>4. t.listed => s.listed /\ s.fade # "destroy"
  BY <1>1
<1>5. t.listed /\ t.viewable => t.need = None
  BY <1>1, <1>4 DEF Fits
<1>6. Live(t) /\ ~t.viewable => t.held["pixmap"] = None /\ ~t.damaged
  <2>1. CASE s.fade = "unmap"
    BY <1>1, <2>1
  <2>2. CASE s.fade # "unmap"
    BY <1>1, <1>2, <1>3, <2>2 DEF Fits, Live
  <2> QED
    BY <2>1, <2>2
<1>7. /\ t.held["pixmap"] = "junk" \/ xrender => t.held["tex"] = None
      /\ t.listed => t.held["shadow_pixmap"] \in {None, t.size} \/ t.sizechange
      /\ t.held["buffer_pixmap"] \in {None, t.root}
  BY <1>1, <1>2, <1>4 DEF Fits, None
<1>8. Fits(t)
  BY <1>1, <1>5, <1>6, <1>7 DEF Fits
<1>9. (PixmapGood(s) => PixmapGood(t)) /\ (TexGood(s) => TexGood(t))
  BY <1>2 DEF PixmapGood, TexGood
<1> QED
  BY <1>1, <1>2, <1>3, <1>8, <1>9 DEF Carries

LEMMA PaintAllCarries ==
  ASSUME NEW s \in Session, Fits(s), Layered(s), NEW window \in BOOLEAN,
         window => ps.listed /\ s.damaged /\ (s.viewable \/ s.held["pixmap"] # None),
         NEW t, t = PaintAll(s, window)
  PROVE  Carries(s, t)
<1>1. /\ {"pixmap", "tex", "shadow_pixmap", "buffer_pixmap", "tile_pixmap"} \subseteq Member
      /\ {"pixmap", "tex", "shadow_pixmap", "tile_pixmap"} \cap Buffer = {}
      /\ {"pixmap", "tex", "shadow_pixmap", "buffer_pixmap"} \cap Tile = {}
      /\ {"pixmap", "tex", "buffer_pixmap", "tile_pixmap"} \cap Shadow = {}
      /\ {"pixmap", "tex", "shadow_pixmap", "buffer_pixmap", "tile_pixmap"} \cap Blur = {}
      /\ {"shadow_pixmap", "buffer_pixmap", "tile_pixmap"} \cap (WPaint \cup {"fence"}) = {}
  BY DEF Member, WPaint, Shadow, Blur, Tile, Buffer
<1>2. PICK b : b = TgtBuffer(s)
  OBVIOUS
<1>3. Touch(s, b, Buffer) /\ b \in Session /\ b.held["buffer_pixmap"] \in {None, s.root}
  BY <1>2, TgtBufferTouch DEF Fits
<1>4. PICK g : g = PaintRoot(b)
  OBVIOUS
<1>5. /\ Touch(b, g, Tile) /\ g \in Session
      /\ g.held["tile_pixmap"] =
           IF b.held["tile_pixmap"] # None THEN b.held["tile_pixmap"] ELSE Wall
  BY <1>3, <1>4, PaintRootTouch
<1>6. PICK h : h = PaintShadow(g)
  OBVIOUS
<1>7. /\ Touch(g, h, Shadow) /\ h \in Session
      /\ h.held["shadow_pixmap"] \in {g.held["shadow_pixmap"], g.size}
  BY <1>5, <1>6, PaintShadowTouch
<1>8. PICK l : l = BlurBackground(h)
  OBVIOUS
<1>9. Touch(h, l, Blur) /\ l \in Session
  BY <1>7, <1>8, BlurTouch
<1>10. PICK w : w = PaintWin(l)
  OBVIOUS
<1>11. PICK p : p = IF window THEN w ELSE g
  OBVIOUS
<1>12. t = BindBuffer(p)
  BY <1>2, <1>4, <1>6, <1>8, <1>10, <1>11 DEF PaintAll
<1>13. /\ Same(s, g) /\ g.pixmap_damaged = s.pixmap_damaged /\ g.fresh = s.fresh
       /\ g.held["pixmap"] = s.held["pixmap"] /\ g.held["tex"] = s.held["tex"]
       /\ g.held["shadow_pixmap"] = s.held["shadow_pixmap"]
       /\ g.held["buffer_pixmap"] \in {None, s.root}
       /\ s.held["tile_pixmap"] \in {None, Wall} => g.held["tile_pixmap"] \in {None, Wall}
  <2>1. /\ Same(s, b) /\ b.pixmap_damaged = s.pixmap_damaged /\ b.fresh = s.fresh
        /\ b.held["pixmap"] = s.held["pixmap"] /\ b.held["tex"] = s.held["tex"]
        /\ b.held["shadow_pixmap"] = s.held["shadow_pixmap"]
        /\ b.held["tile_pixmap"] = s.held["tile_pixmap"]
    BY <1>1, <1>3 DEF Touch
  <2>2. /\ Same(b, g) /\ g.pixmap_damaged = b.pixmap_damaged /\ g.fresh = b.fresh
        /\ g.held["pixmap"] = b.held["pixmap"] /\ g.held["tex"] = b.held["tex"]
        /\ g.held["shadow_pixmap"] = b.held["shadow_pixmap"]
        /\ g.held["buffer_pixmap"] = b.held["buffer_pixmap"]
    BY <1>1, <1>5 DEF Touch
  <2> QED
    BY <1>3, <1>5, <2>1, <2>2 DEF Same
<1>14. /\ Same(g, l) /\ l.pixmap_damaged = g.pixmap_damaged /\ l.fresh = g.fresh
       /\ l.held["pixmap"] = g.held["pixmap"] /\ l.held["tex"] = g.held["tex"]
       /\ l.held["shadow_pixmap"] \in {g.held["shadow_pixmap"], g.size}
       /\ l.held["buffer_pixmap"] = g.held["buffer_pixmap"]
       /\ l.held["tile_pixmap"] = g.held["tile_pixmap"]
  <2>1. /\ Same(g, h) /\ h.pixmap_damaged = g.pixmap_damaged /\ h.fresh = g.fresh
        /\ h.held["pixmap"] = g.held["pixmap"] /\ h.held["tex"] = g.held["tex"]
        /\ h.held["buffer_pixmap"] = g.held["buffer_pixmap"]
        /\ h.held["tile_pixmap"] = g.held["tile_pixmap"]
    BY <1>1, <1>7 DEF Touch
  <2>2. /\ Same(h, l) /\ l.pixmap_damaged = h.pixmap_damaged /\ l.fresh = h.fresh
        /\ l.held["pixmap"] = h.held["pixmap"] /\ l.held["tex"] = h.held["tex"]
        /\ l.held["shadow_pixmap"] = h.held["shadow_pixmap"]
        /\ l.held["buffer_pixmap"] = h.held["buffer_pixmap"]
        /\ l.held["tile_pixmap"] = h.held["tile_pixmap"]
    BY <1>1, <1>9 DEF Touch
  <2> QED
    BY <1>7, <2>1, <2>2 DEF Same
<1>15. Carries(s, g)
  <2>1. Fits(g)
    BY <1>13 DEF Fits, Same, Live
  <2> QED
    BY <1>13, <2>1 DEF Carries, Same, Live, PixmapGood, TexGood
<1>16. ASSUME window PROVE Carries(s, w) /\ w \in Session
  <2>1. Same(s, l)
    BY <1>13, <1>14 DEF Same
  <2>2. /\ l.held["pixmap"] = None => l.held["tex"] = None
        /\ l.held["pixmap"] = "junk" \/ xrender => l.held["tex"] = None
    BY <1>13, <1>14 DEF Layered, Fits
  <2>3. /\ Same(l, w) /\ (TexGood(l) => TexGood(w))
        /\ \A k \in Member : k \notin WPaint \cup {"fence"} => w.held[k] = l.held[k]
        /\ w.held["pixmap"] = IF l.held["pixmap"] # None THEN l.held["pixmap"]
                              ELSE IF x.mapped THEN "current" ELSE "junk"
        /\ w.held["pixmap"] = "junk" \/ xrender => w.held["tex"] = None
    BY <1>9, <1>10, <1>16, <2>2, PaintWinDone
  <2>4. /\ w.held["shadow_pixmap"] = l.held["shadow_pixmap"]
        /\ w.held["buffer_pixmap"] = l.held["buffer_pixmap"]
        /\ w.held["tile_pixmap"] = l.held["tile_pixmap"]
    BY <1>1, <2>3
  <2>5. Same(s, w)
    BY <2>1, <2>3 DEF Same
  <2>6. ~(Live(w) /\ ~w.viewable /\ w.fade # "unmap")
    BY <1>16, <2>5 DEF Same, Fits, Live
  <2>7. Fits(w)
    <3>1. w.listed => w.held["shadow_pixmap"] \in {None, w.size} \/ w.sizechange
      BY <1>13, <1>14, <2>4, <2>5 DEF Same, Fits
    <3>2. w.listed /\ w.viewable => w.fade \in {None, "map"} /\ w.need = None
      BY <2>5 DEF Same, Fits
    <3>3. w.held["buffer_pixmap"] \in {None, w.root}
      BY <1>13, <1>14, <2>4, <2>5 DEF Same
    <3> QED
      BY <2>3, <2>6, <3>1, <3>2, <3>3 DEF Fits
  <2>8. TexGood(s) => TexGood(w)
    <3>1. TexGood(s) => TexGood(l)
      BY <1>13, <1>14 DEF TexGood
    <3> QED
      BY <2>3, <3>1
  <2>9. PixmapGood(s) => PixmapGood(w) \/ ~x.mapped
    BY <1>13, <1>14, <2>3 DEF PixmapGood
  <2>10. s.held["tile_pixmap"] \in {None, Wall} => w.held["tile_pixmap"] \in {None, Wall}
    BY <1>13, <1>14, <2>4
  <2> QED
    BY <2>5, <2>7, <2>8, <2>9, <2>10 DEF Carries, Same, Live
<1>17. Carries(s, p) /\ p \in Session
  BY <1>5, <1>11, <1>15, <1>16
<1>18. Carries(p, t)
  <2> DEFINE O == {"buffer_fence", "buffer_tex"}
  <2>1. /\ O \in SUBSET Member /\ "buffer_fence" \in O /\ "buffer_tex" \in O /\ "own" \in Value
        /\ {"pixmap", "tex", "shadow_pixmap", "buffer_pixmap", "tile_pixmap"} \cap O = {}
    BY DEF Member, Buffer, Value
  <2> HIDE DEF O
  <2>2. PICK f : f = MakeUnless(p, "buffer_fence", "own")
    OBVIOUS
  <2>3. Touch(p, f, O) /\ f \in Session
    BY <1>17, <2>1, <2>2, MakeUnlessTouch
  <2>4. PICK q : q = MakeUnless(f, "buffer_tex", "own")
    OBVIOUS
  <2>5. Touch(f, q, O) /\ q \in Session
    BY <2>1, <2>3, <2>4, MakeUnlessTouch
  <2>6. Touch(p, t, O)
    <3>1. t = IF cfg.backend # "hybrid" THEN p ELSE q
      BY <1>12, <2>2, <2>4 DEF BindBuffer
    <3> QED
      BY <1>17, <2>3, <2>5, <3>1, TouchTwice, TouchNot
  <2>7. /\ t.fresh = p.fresh /\ t.pixmap_damaged = p.pixmap_damaged /\ Same(p, t)
        /\ t.held["pixmap"] = p.held["pixmap"] /\ t.held["tex"] = p.held["tex"]
        /\ t.held["shadow_pixmap"] = p.held["shadow_pixmap"]
        /\ t.held["buffer_pixmap"] = p.held["buffer_pixmap"]
        /\ t.held["tile_pixmap"] = p.held["tile_pixmap"]
    BY <1>1, <2>1, <2>6 DEF Touch
  <2>8. Fewer(p, t)
    BY <2>7 DEF Fewer, Left, Pixmaps
  <2> QED
    BY <1>17, <2>8, FewerCarries DEF Carries
<1> QED
  BY <1>17, <1>18, CarriesTwice

LEMMA CycleCarries ==
  ASSUME IInv, Fits(ps), NEW painted \in BOOLEAN, NEW over \in BOOLEAN,
         NEW damage \in BOOLEAN, NEW redirect \in BOOLEAN,
         Cycle(painted, over, damage, redirect)
  PROVE  Carries(ps, ps')
<1>1. ps \in Session /\ Sound(ps) /\ (damage => redirect) /\ (painted => ToPaint(ps))
  BY DEF IInv, Sound, Cycle
<1>2. PICK e : e = Expired(ps)
  OBVIOUS
<1>3. /\ Fewer(ps, e) /\ e \in Session /\ Sound(e)
      /\ e.held["pixmap"] = ps.held["pixmap"]
      /\ ps.listed /\ ps.sizechange => e.held["shadow_pixmap"] = None
  <2>1. Shadow \in SUBSET Member /\ "shadow_pixmap" \in Shadow /\ "pixmap" \in Member \ Shadow
    BY MembersAre DEF Shadow, Member, WPaint
  <2>2. Sound(e)
    BY <1>1, <1>2, FreeSound, TogetherSets DEF Expired
  <2>3. CASE ps.listed /\ ps.sizechange
    BY <1>1, <1>2, <2>1, <2>2, <2>3, FreeFewer, FreeFields DEF Expired
  <2>4. CASE ~(ps.listed /\ ps.sizechange)
    <3>1. e = ps
      BY <1>2, <2>4 DEF Expired
    <3> QED
      BY <1>1, <2>2, <2>4, <3>1 DEF Fewer, Same, Left
  <2> QED
    BY <2>3, <2>4
<1>4. PICK c : c = [e EXCEPT !.sizechange = @ /\ ~painted]
  OBVIOUS
<1>5. /\ c \in Session /\ c.fade = e.fade /\ c.held = e.held /\ c.fresh = e.fresh
      /\ c.pixmap_damaged = e.pixmap_damaged /\ c.damaged = e.damaged
      /\ c.viewable = e.viewable /\ c.size = e.size /\ c.need = e.need
      /\ c.sizechange = (e.sizechange /\ ~painted) /\ c.root = e.root /\ c.listed = e.listed
      /\ c.alive = e.alive /\ c.redirected = e.redirected
  BY <1>3, <1>4 DEF Session
<1>6. Carries(ps, e)
  BY <1>3, FewerCarries
<1>7. Carries(e, c) /\ Sound(c)
  <2>1. Fits(e)
    BY <1>6 DEF Carries
  <2>2. c.listed => c.held["shadow_pixmap"] \in {None, c.size} \/ c.sizechange
    BY <1>3, <1>5, <2>1 DEF Fits, Fewer, Same
  <2>3. Fits(c)
    BY <1>5, <2>1, <2>2 DEF Fits, Live
  <2>4. Carries(e, c)
    BY <1>5, <2>3 DEF Carries, Live, PixmapGood, TexGood
  <2> QED
    BY <1>3, <1>5, <2>4, SameSound
<1>8. Carries(ps, c)
  BY <1>6, <1>7, CarriesTwice
<1>9. painted => /\ ps.listed /\ c.damaged
                 /\ c.viewable \/ c.held["pixmap"] # None
  BY <1>1, <1>3, <1>5 DEF ToPaint, Fewer, Same
<1>10. PICK k : k = IF over /\ ~painted THEN Callback(c) ELSE c
  OBVIOUS
<1>11. Carries(ps, k) /\ Sound(k) /\ (painted => k = c)
  <2>1. Carries(c, Callback(c)) /\ Sound(Callback(c))
    BY <1>5, <1>7, CallbackCarries, CallbackSound DEF Carries
  <2>2. Carries(ps, Callback(c))
    BY <1>8, <2>1, CarriesTwice
  <2> QED
    BY <1>7, <1>8, <1>10, <2>1, <2>2
<1>12. PICK on : on = [k EXCEPT !.redirected = TRUE]
  OBVIOUS
<1>13. /\ on \in Session /\ on.held = k.held /\ on.alive = k.alive /\ on.redirected
       /\ on.fresh = k.fresh /\ on.pixmap_damaged = k.pixmap_damaged /\ Same(k, on)
  BY <1>11, <1>12 DEF Sound, Session, Same
<1>14. PICK d : d = IF redirect THEN on ELSE RedirStop(k)
  OBVIOUS
<1>15. Carries(ps, d) /\ Sound(d) /\ (redirect => d = on)
  <2>1. Fits(k) /\ k \in Session
    BY <1>11 DEF Carries
  <2>2. Carries(k, on) /\ Carries(k, RedirStop(k))
    <3>1. Fewer(k, on)
      BY <1>13 DEF Fewer, Left
    <3>2. Fewer(k, RedirStop(k))
      BY <2>1, RedirStopFewer
    <3> QED
      BY <2>1, <3>1, <3>2, FewerCarries
  <2>3. Carries(ps, on) /\ Carries(ps, RedirStop(k))
    BY <1>11, <2>2, CarriesTwice
  <2>4. Sound(on) /\ Sound(RedirStop(k))
    BY <1>11, <1>13, SameSound, RedirStopSound
  <2> QED
    BY <1>14, <2>3, <2>4
<1>16. PICK f : f = IF damage THEN PaintAll(d, painted) ELSE d
  OBVIOUS
<1>17. Carries(ps, f)
  <2>1. ASSUME damage PROVE Carries(d, PaintAll(d, painted))
    <3>1. d = on /\ d \in Session /\ Fits(d) /\ Layered(d)
      BY <1>1, <1>15, <2>1 DEF Carries, Sound
    <3>2. painted => ps.listed /\ d.damaged /\ (d.viewable \/ d.held["pixmap"] # None)
      BY <1>9, <1>11, <1>13, <3>1 DEF Same
    <3> QED
      BY <3>1, <3>2, PaintAllCarries
  <2> QED
    BY <1>15, <1>16, <2>1, CarriesTwice
<1>18. ps' = IF over /\ painted /\ damage THEN Callback(f) ELSE f
  BY <1>2, <1>4, <1>10, <1>12, <1>14, <1>16 DEF Cycle
<1>19. Carries(f, Callback(f))
  BY <1>17, CallbackCarries DEF Carries
<1> QED
  BY <1>17, <1>18, <1>19, CarriesTwice

------------------------------------------------------------------------------
(* The waiting events.                                                      *)
LEMMA FirstIs ==
  ASSUME NEW A, A \subseteq Nat, A # {}
  PROVE  \E i \in A : \A j \in A : i <= j
<1> DEFINE R == OpToRel(<, Nat)
<1>1. IsWellFoundedOn(R, Nat)
  BY NatLessThanWellFounded
<1>2. \A i, j \in Nat : j < i => <<j, i>> \in R
  BY DEF OpToRel
<1> HIDE DEF R
<1>3. PICK i \in A : \A j \in A : ~(<<j, i>> \in R)
  BY <1>1, WFMin
<1>4. ASSUME NEW j \in A PROVE i <= j
  <2>1. i \in Nat /\ j \in Nat
    OBVIOUS
  <2>2. ~(j < i)
    BY <1>2, <1>3, <2>1
  <2> QED
    BY <2>1, <2>2
<1> QED
  BY <1>4

(* A window compton takes to be mapped, and which is not, will be unmapped. *)
LEMMA UnmapComes ==
  ASSUME NEW q \in Seq(SizedEvent), NEW h, Told(h, q), h[0].mapped, ~h[Len(q)].mapped
  PROVE  \E k \in 1 .. Len(q) : Remakes(h[k - 1], q[k])
<1>1. PICK n \in Nat : n = Len(q)
  OBVIOUS
<1>2. PICK A : A = {k \in 0 .. n : ~h[k].mapped}
  OBVIOUS
<1>3. A \subseteq Nat /\ n \in A /\ 0 \notin A
  BY <1>1, <1>2
<1>4. PICK i \in A : \A j \in A : i <= j
  BY <1>3, FirstIs
<1>5. i \in 1 .. n /\ i - 1 \in 0 .. n /\ ~h[i].mapped
  BY <1>1, <1>2, <1>3, <1>4
<1>6. h[i - 1].mapped
  <2>1. i - 1 \notin A
    BY <1>4, <1>5
  <2> QED
    BY <1>2, <1>5, <2>1
<1>7. h[i] = After(h[i - 1], q[i]) /\ h[i - 1] \in View /\ q[i] \in SizedEvent
  BY <1>1, <1>5 DEF Told
<1>8. q[i].type = "unmap"
  <2>1. PICK v, e : v = h[i - 1] /\ e = q[i]
    OBVIOUS
  <2>2. v \in View /\ e \in SizedEvent /\ v.mapped /\ ~After(v, e).mapped
    BY <1>5, <1>6, <1>7, <2>1
  <2>3. After(v, e).mapped = (e.type = "map" \/ (e.type # "unmap" /\ v.mapped))
    BY <2>2, AfterFields
  <2>4. e.type = "unmap"
    BY <2>2, <2>3, Zenon
  <2> QED
    BY <2>1, <2>4
<1> QED
  BY <1>1, <1>5, <1>6, <1>8 DEF Remakes

(* r is q and one event more.                                               *)
Longer(q, r, e) ==
  /\ Len(r) = Len(q) + 1 /\ r[Len(q) + 1] = e
  /\ \A k \in 1 .. Len(q) : r[k] = q[k]

LEMMA AppendTold ==
  ASSUME NEW q \in Seq(SizedEvent), NEW r \in Seq(SizedEvent), NEW e \in SizedEvent,
         Longer(q, r, e), NEW h, Told(h, q), Possible(h[Len(q)], e)
  PROVE  \E g : /\ Told(g, r) /\ g[Len(r)] = After(h[Len(q)], e)
                /\ \A k \in 0 .. Len(q) : g[k] = h[k]
<1>1. PICK n \in Nat : n = Len(q)
  OBVIOUS
<1>2. PICK g : g = [k \in 0 .. n + 1 |-> IF k <= n THEN h[k] ELSE After(h[n], e)]
  OBVIOUS
<1>3. /\ Len(r) = n + 1 /\ r[n + 1] = e
      /\ \A k \in 1 .. n : r[k] = q[k]
  BY <1>1 DEF Longer
<1>4. h \in [0 .. n -> View] /\ n \in 0 .. n
  BY <1>1 DEF Told
<1>5. After(h[n], e) \in View
  BY <1>4, AfterFields
<1>6. /\ g \in [0 .. n + 1 -> View] /\ g[n + 1] = After(h[n], e)
      /\ \A k \in 0 .. n : g[k] = h[k]
  BY <1>2, <1>4, <1>5
<1>7. ASSUME NEW k \in 1 .. n + 1
      PROVE  Possible(g[k - 1], r[k]) /\ g[k] = After(g[k - 1], r[k])
  <2>1. CASE k = n + 1
    <3>1. k - 1 = n /\ g[k - 1] = h[n] /\ r[k] = e
      BY <1>3, <1>6, <2>1
    <3> QED
      BY <1>1, <1>6, <2>1, <3>1
  <2>2. CASE k # n + 1
    <3>1. k \in 1 .. n /\ k - 1 \in 0 .. n /\ k \in 0 .. n
      BY <2>2
    <3>2. Possible(h[k - 1], q[k]) /\ h[k] = After(h[k - 1], q[k])
      BY <1>1, <3>1 DEF Told
    <3> QED
      BY <1>3, <1>6, <3>1, <3>2
  <2> QED
    BY <2>1, <2>2
<1>8. Told(g, r)
  BY <1>3, <1>6, <1>7 DEF Told
<1> QED
  BY <1>1, <1>3, <1>6, <1>8

LEMMA TailTold ==
  ASSUME NEW q \in Seq(SizedEvent), q # <<>>, NEW h, Told(h, q)
  PROVE  \E g : /\ Told(g, Tail(q)) /\ g[0] = After(h[0], Head(q))
                /\ Possible(h[0], Head(q)) /\ h[0] \in View
                /\ g[Len(Tail(q))] = h[Len(q)]
                /\ \A k \in 1 .. Len(q) : g[k - 1] = h[k]
<1>1. PICK n \in Nat : n = Len(q)
  OBVIOUS
<1>2. PICK r : r = Tail(q)
  OBVIOUS
<1>3. n \in Nat \ {0} /\ Len(r) = n - 1 /\ Head(q) = q[1] /\ \A k \in 1 .. n - 1 : r[k] = q[k + 1]
  <2>1. n # 0
    BY <1>1, EmptySeq
  <2> QED
    BY <1>1, <1>2, <2>1, HeadTailProperties
<1>4. PICK g : g = [k \in 0 .. n - 1 |-> h[k + 1]]
  OBVIOUS
<1>5. h \in [0 .. n -> View] /\ 0 \in 0 .. n
  BY <1>1 DEF Told
<1>6. /\ g \in [0 .. n - 1 -> View]
      /\ \A k \in 1 .. n : g[k - 1] = h[k]
  BY <1>3, <1>4, <1>5
<1>7. \A k \in 1 .. n : Possible(h[k - 1], q[k]) /\ h[k] = After(h[k - 1], q[k])
  BY <1>1 DEF Told
<1>8. ASSUME NEW k \in 1 .. n - 1
      PROVE  Possible(g[k - 1], r[k]) /\ g[k] = After(g[k - 1], r[k])
  <2>1. k \in 1 .. n /\ k + 1 \in 1 .. n /\ (k + 1) - 1 = k
    BY <1>3
  <2>2. g[k - 1] = h[k] /\ g[k] = h[k + 1]
    BY <1>6, <2>1
  <2>3. r[k] = q[k + 1]
    BY <1>3
  <2>4. Possible(h[k], q[k + 1]) /\ h[k + 1] = After(h[k], q[k + 1])
    BY <1>7, <2>1
  <2> QED
    BY <2>2, <2>3, <2>4
<1>9. Told(g, r)
  BY <1>3, <1>6, <1>8 DEF Told
<1>10. 1 \in 1 .. n /\ 1 - 1 = 0 /\ n \in 1 .. n
  BY <1>3
<1>11. /\ g[0] = h[1] /\ Possible(h[0], q[1]) /\ h[1] = After(h[0], q[1])
       /\ g[n - 1] = h[n]
  BY <1>6, <1>7, <1>10
<1> QED
  BY <1>1, <1>2, <1>3, <1>5, <1>6, <1>9, <1>11

LEMMA ConcatLonger ==
  ASSUME NEW q \in Seq(SizedEvent), NEW e \in SizedEvent
  PROVE  q \o <<e>> \in Seq(SizedEvent) /\ Longer(q, q \o <<e>>, e)
<1>1. <<e>> \in Seq(SizedEvent) /\ Len(<<e>>) = 1 /\ <<e>>[1] = e
  OBVIOUS
<1> QED
  BY <1>1, ConcatProperties DEF Longer

(* A step of the server: it tells e, and what it outdates is what e is      *)
(* about, or what an event that waits is about.                             *)
LEMMA SendAhead ==
  ASSUME NEW q \in Seq(SizedEvent), NEW r \in Seq(SizedEvent), NEW e \in SizedEvent,
         Longer(q, r, e), NEW h, NEW s \in Session, NEW w \in Window, Ahead(h, q, s, w),
         NEW t, NEW u, Same(s, t), Possible(Seen(w), e), Seen(u) = After(Seen(w), e),
         PixmapGood(s) => \/ PixmapGood(t) \/ ~w.mapped
                          \/ e.type \in {"unmap", "configure"},
         TexGood(s) => TexGood(t) \/ w.reported \/ e.type = "damage",
         u.reported => w.reported \/ e.type = "damage",
         \/ t.held["tile_pixmap"] = s.held["tile_pixmap"] /\ u.wall = w.wall
         \/ e.type = "rootprop"
  PROVE  \E g : Ahead(g, r, t, u)
<1>1. PICK n \in Nat : n = Len(q)
  OBVIOUS
<1>2. Told(h, q) /\ Knows(s, h[0]) /\ h[n] = Seen(w) /\ Outdated(h, q, s, w)
  BY <1>1 DEF Ahead
<1>3. PICK g : /\ Told(g, r) /\ g[Len(r)] = After(h[n], e)
               /\ \A k \in 0 .. n : g[k] = h[k]
  BY <1>1, <1>2, AppendTold
<1>4. /\ Len(r) = n + 1 /\ r[n + 1] = e
      /\ \A k \in 1 .. n : r[k] = q[k]
  BY <1>1 DEF Longer
<1>5. Knows(t, g[0])
  <2>1. g[0] = h[0]
    BY <1>3
  <2> QED
    BY <1>2, <2>1 DEF Same, Knows, Live
<1>6. \A type : Waits(q, type) \/ e.type = type => Waits(r, type)
  BY <1>1, <1>4 DEF Waits
<1>7. ASSUME \E k \in 1 .. n : Remakes(h[k - 1], q[k])
      PROVE  \E k \in 1 .. Len(r) : Remakes(g[k - 1], r[k])
  <2>1. PICK k \in 1 .. n : Remakes(h[k - 1], q[k])
    BY <1>7
  <2>2. k - 1 \in 0 .. n /\ k \in 1 .. Len(r) /\ g[k - 1] = h[k - 1] /\ r[k] = q[k]
    BY <1>3, <1>4, <2>1
  <2> QED
    BY <2>1, <2>2
<1>8. ASSUME Live(t), t.viewable
      PROVE  PixmapGood(t) \/ \E k \in 1 .. Len(r) : Remakes(g[k - 1], r[k])
  <2>1. Live(s) /\ s.viewable
    BY <1>8 DEF Same, Live
  <2>2. CASE ~PixmapGood(s)
    BY <1>1, <1>2, <1>7, <2>1, <2>2 DEF Outdated
  <2>3. CASE ~w.mapped
    <3>1. h[0].mapped
      BY <1>2, <2>1, Zenon DEF Knows
    <3>2. ~h[n].mapped
      <4>1. Seen(w).mapped = w.mapped /\ w.mapped = FALSE
        BY <2>3 DEF Seen, Window
      <4>2. h[n].mapped = FALSE
        BY <1>2, <4>1
      <4> QED
        BY <4>2
    <3> QED
      BY <1>1, <1>2, <1>7, <3>1, <3>2, UnmapComes
  <2>4. CASE w.mapped /\ e.type \in {"unmap", "configure"}
    <3>1. n + 1 \in 1 .. Len(r) /\ (n + 1) - 1 \in 0 .. n
      BY <1>4
    <3>2. g[(n + 1) - 1] = Seen(w) /\ r[n + 1] = e
      BY <1>2, <1>3, <1>4, <3>1
    <3>3. Remakes(g[(n + 1) - 1], r[n + 1])
      BY <2>4, <3>2 DEF Remakes, Seen
    <3> QED
      BY <3>1, <3>3
  <2> QED
    BY <2>2, <2>3, <2>4
<1>9. Live(s) /\ w.reported => Waits(q, "damage")
  BY <1>2 DEF Outdated
<1>10. ASSUME Live(t), t.viewable PROVE TexGood(t) \/ Waits(r, "damage")
  <2>1. Live(s) /\ s.viewable
    BY <1>10 DEF Same, Live
  <2>2. TexGood(s) \/ Waits(q, "damage")
    BY <1>2, <2>1 DEF Outdated
  <2> QED
    BY <1>6, <1>9, <2>1, <2>2
<1>11. Live(t) /\ u.reported => Waits(r, "damage")
  <2>1. Live(t) => Live(s)
    BY DEF Same, Live
  <2> QED
    BY <1>6, <1>9, <2>1
<1>12. \/ t.held["tile_pixmap"] \in {None, IF u.wall THEN "current" ELSE "own"}
       \/ Waits(r, "rootprop")
  BY <1>2, <1>6 DEF Outdated
<1>13. Outdated(g, r, t, u)
  BY <1>8, <1>10, <1>11, <1>12 DEF Outdated
<1>14. g[Len(r)] = Seen(u)
  BY <1>2, <1>3
<1> QED
  BY <1>3, <1>5, <1>13, <1>14 DEF Ahead

LEMMA HandleAhead ==
  ASSUME NEW q \in Seq(SizedEvent), q # <<>>, NEW h, NEW s \in Session, NEW w \in Window,
         Ahead(h, q, s, w), Fits(s), Layered(s), NEW fades \in BOOLEAN,
         NEW t, t = Handled(s, Head(q), fades), NEW u, Seen(u) = Seen(w), u.wall = w.wall,
         u.reported => w.reported /\ ~(Head(q).type = "damage" /\ s.listed /\ s.viewable)
  PROVE  Fits(t) /\ \E g : Ahead(g, Tail(q), t, u)
<1>1. PICK e \in SizedEvent : e = Head(q)
  BY HeadTailProperties
<1>2. PICK n \in Nat \ {0} : n = Len(q)
  BY EmptySeq
<1>3. PICK r \in Seq(SizedEvent) : r = Tail(q)
  BY HeadTailProperties
<1>4. /\ Len(r) = n - 1 /\ e = q[1]
      /\ \A k \in 1 .. n - 1 : r[k] = q[k + 1]
  BY <1>1, <1>2, <1>3, HeadTailProperties
<1>5. Told(h, q) /\ Knows(s, h[0]) /\ h[n] = Seen(w) /\ Outdated(h, q, s, w)
  BY <1>2 DEF Ahead
<1>6. PICK g : /\ Told(g, r) /\ g[0] = After(h[0], e)
               /\ Possible(h[0], e) /\ h[0] \in View
               /\ g[Len(r)] = h[n]
               /\ \A k \in 1 .. n : g[k - 1] = h[k]
  BY <1>1, <1>2, <1>3, <1>5, TailTold
<1>7. PICK v \in View : v = h[0]
  BY <1>6
<1>8. Obeyed(s, v, e, t)
  BY <1>1, <1>5, <1>6, <1>7, HandledObeyed
<1>9. Fits(t) /\ Knows(t, g[0]) /\ (Live(t) => Live(s))
  BY <1>6, <1>7, <1>8 DEF Obeyed
<1>10. ASSUME NEW k \in 1 .. n, k # 1
       PROVE  k - 1 \in 1 .. Len(r) /\ g[(k - 1) - 1] = h[k - 1] /\ r[k - 1] = q[k]
  <2>1. k - 1 \in 1 .. n /\ k - 1 \in 1 .. n - 1 /\ (k - 1) + 1 = k
    BY <1>10
  <2>2. g[(k - 1) - 1] = h[k - 1]
    BY <1>6, <2>1
  <2>3. r[k - 1] = q[k]
    BY <1>4, <2>1
  <2> QED
    BY <1>4, <2>1, <2>2, <2>3
<1>11. ASSUME NEW type, Waits(q, type), e.type # type PROVE Waits(r, type)
  <2>1. PICK k \in 1 .. n : q[k].type = type
    BY <1>2, <1>11 DEF Waits
  <2>2. k # 1
    BY <1>4, <1>11, <2>1
  <2>3. k - 1 \in 1 .. Len(r) /\ r[k - 1] = q[k]
    BY <1>10, <2>2
  <2> QED
    BY <2>1, <2>3 DEF Waits
<1>12. ASSUME Live(t), t.viewable
       PROVE  PixmapGood(t) \/ \E k \in 1 .. Len(r) : Remakes(g[k - 1], r[k])
  <2>1. CASE PixmapGood(s) \/ ~s.viewable \/ Remakes(v, e)
    BY <1>8, <1>12, <2>1 DEF Obeyed
  <2>2. CASE ~PixmapGood(s) /\ s.viewable /\ ~Remakes(v, e)
    <3>1. PICK k \in 1 .. n : Remakes(h[k - 1], q[k])
      BY <1>2, <1>5, <1>9, <1>12, <2>2 DEF Outdated
    <3>2. k # 1
      <4>1. 1 - 1 = 0
        OBVIOUS
      <4> QED
        BY <1>4, <1>7, <2>2, <3>1, <4>1
    <3>3. k - 1 \in 1 .. Len(r) /\ g[(k - 1) - 1] = h[k - 1] /\ r[k - 1] = q[k]
      BY <1>10, <3>2
    <3> QED
      BY <3>1, <3>3
  <2> QED
    BY <2>1, <2>2
<1>13. ASSUME Live(t), t.viewable PROVE TexGood(t) \/ Waits(r, "damage")
  <2>1. CASE TexGood(s) \/ ~s.viewable \/ e.type = "damage"
    BY <1>8, <1>13, <2>1 DEF Obeyed
  <2>2. CASE ~TexGood(s) /\ s.viewable /\ e.type # "damage"
    <3>1. Waits(q, "damage")
      BY <1>5, <1>9, <1>13, <2>2 DEF Outdated
    <3> QED
      BY <1>11, <2>2, <3>1
  <2> QED
    BY <2>1, <2>2
<1>14. ASSUME Live(t), u.reported PROVE Waits(r, "damage")
  <2>1. Waits(q, "damage") /\ Live(s) /\ s.listed
    BY <1>5, <1>9, <1>14 DEF Outdated, Live
  <2>2. e.type # "damage"
    <3>1. SUFFICES ASSUME e.type = "damage" PROVE FALSE
      OBVIOUS
    <3>2. v.mapped
      BY <1>6, <1>7, <3>1 DEF Possible
    <3>3. s.viewable
      BY <1>5, <1>7, <2>1, <3>2, Zenon DEF Knows
    <3> QED
      BY <1>1, <1>14, <2>1, <3>1, <3>3
  <2> QED
    BY <1>11, <2>1, <2>2
<1>15. \/ t.held["tile_pixmap"] \in {None, IF u.wall THEN "current" ELSE "own"}
       \/ Waits(r, "rootprop")
  <2>1. /\ t.held["tile_pixmap"] \in {None, s.held["tile_pixmap"]}
        /\ e.type = "rootprop" => t.held["tile_pixmap"] = None
    BY <1>8 DEF Obeyed
  <2>2. \/ s.held["tile_pixmap"] \in {None, IF w.wall THEN "current" ELSE "own"}
        \/ Waits(q, "rootprop")
    BY <1>5 DEF Outdated
  <2>3. CASE e.type = "rootprop"
    BY <2>1, <2>3
  <2>4. CASE e.type # "rootprop"
    BY <1>11, <2>1, <2>2, <2>4
  <2> QED
    BY <2>3, <2>4
<1>16. Outdated(g, r, t, u)
  BY <1>12, <1>13, <1>14, <1>15 DEF Outdated
<1>17. Ahead(g, r, t, u)
  BY <1>5, <1>6, <1>9, <1>16 DEF Ahead
<1> QED
  BY <1>3, <1>9, <1>17

(* A frame and a fade leave the events waiting.                             *)
LEMMA CarriesAhead ==
  ASSUME NEW q \in Seq(SizedEvent), NEW h, NEW s, Ahead(h, q, s, x), x \in Window,
         NEW t, Carries(s, t)
  PROVE  Ahead(h, q, t, x)
<1>1. Told(h, q) /\ Knows(s, h[0]) /\ h[Len(q)] = Seen(x) /\ Outdated(h, q, s, x)
  BY DEF Ahead
<1>2. Knows(t, h[0])
  BY <1>1 DEF Carries, Knows
<1>3. ASSUME Live(t), t.viewable
      PROVE  /\ PixmapGood(t) \/ \E k \in 1 .. Len(q) : Remakes(h[k - 1], q[k])
             /\ TexGood(t) \/ Waits(q, "damage")
  <2>1. /\ Live(s) /\ s.viewable /\ (PixmapGood(s) => PixmapGood(t) \/ ~x.mapped)
        /\ (TexGood(s) => TexGood(t))
    BY <1>3 DEF Carries
  <2>2. /\ PixmapGood(s) \/ \E k \in 1 .. Len(q) : Remakes(h[k - 1], q[k])
        /\ TexGood(s) \/ Waits(q, "damage")
    BY <1>1, <2>1 DEF Outdated
  <2>3. ASSUME ~x.mapped PROVE \E k \in 1 .. Len(q) : Remakes(h[k - 1], q[k])
    <3>1. h[0].mapped
      BY <1>1, <2>1, Zenon DEF Knows
    <3>2. ~h[Len(q)].mapped
      <4>1. Seen(x).mapped = x.mapped /\ x.mapped = FALSE
        BY <2>3 DEF Seen, Window
      <4>2. h[Len(q)].mapped = FALSE
        BY <1>1, <4>1
      <4> QED
        BY <4>2
    <3> QED
      BY <1>1, <3>1, <3>2, UnmapComes
  <2> QED
    BY <2>1, <2>2, <2>3
<1>4. Live(t) /\ x.reported => Waits(q, "damage")
  BY <1>1 DEF Carries, Outdated
<1>5. \/ t.held["tile_pixmap"] \in {None, IF x.wall THEN "current" ELSE "own"}
      \/ Waits(q, "rootprop")
  BY <1>1 DEF Carries, Outdated, Wall
<1>6. Outdated(h, q, t, x)
  BY <1>3, <1>4, <1>5 DEF Outdated
<1> QED
  BY <1>1, <1>2, <1>6 DEF Ahead

(* A new session knows the window as it is.                                 *)
LEMMA FreshAhead ==
  ASSUME NEW w \in Window, w.reported = w.mapped
  PROVE  Fits(NewSession(w)) /\ \E h : Ahead(h, Reported(w), NewSession(w), w)
<1>1. PICK s : s = NewSession(w)
  OBVIOUS
<1>2. /\ s.listed = w.exists /\ s.viewable = w.mapped /\ s.size = w.size /\ s.need = None
      /\ ~s.damaged /\ s.fade = (IF w.mapped THEN "map" ELSE None)
      /\ s.root = w.root /\ s.held = NoResources
  BY <1>1 DEF NewSession
<1>3. /\ s.held["pixmap"] = None /\ s.held["tex"] = None /\ s.held["shadow_pixmap"] = None
      /\ s.held["buffer_pixmap"] = None /\ s.held["tile_pixmap"] = None
  BY <1>2, PixmapsAre DEF NoResources, Pixmaps
<1>4. Fits(s)
  BY <1>2, <1>3 DEF Fits
<1>5. PICK v \in View : v = Seen(w)
  BY DEF View, Seen, Window
<1>6. v.mapped = w.mapped /\ v.size = w.size /\ v.root = w.root
  BY <1>5 DEF Seen
<1>7. Knows(s, v)
  BY <1>2, <1>6 DEF Knows
<1>8. PICK q : q = Reported(w)
  OBVIOUS
<1>9. \/ q = <<>> /\ ~w.mapped
      \/ q = <<Ev("damage")>> /\ w.mapped
  BY <1>8 DEF Reported
<1>10. Len(q) \in Nat /\ (\A k \in 1 .. Len(q) : q[k].type = "damage" /\ w.mapped)
       /\ (w.mapped => Waits(q, "damage"))
  <2>1. CASE ~w.mapped
    BY <1>9, <2>1
  <2>2. CASE w.mapped
    <3>1. q = <<Ev("damage")>> /\ Ev("damage").type = "damage"
      BY <1>9, <2>2 DEF Ev
    <3>2. Len(q) = 1 /\ q[1].type = "damage"
      BY <3>1
    <3> QED
      BY <2>2, <3>2 DEF Waits
  <2> QED
    BY <2>1, <2>2
<1>11. PICK h : h = [k \in 0 .. Len(q) |-> v]
  OBVIOUS
<1>12. /\ h \in [0 .. Len(q) -> View] /\ h[0] = v /\ h[Len(q)] = v
       /\ \A k \in 1 .. Len(q) : h[k] = v /\ h[k - 1] = v
  BY <1>10, <1>11
<1>13. ASSUME NEW k \in 1 .. Len(q)
       PROVE  Possible(h[k - 1], q[k]) /\ h[k] = After(h[k - 1], q[k])
  <2>1. q[k].type = "damage" /\ w.mapped /\ h[k] = v /\ h[k - 1] = v
    BY <1>10, <1>12
  <2>2. Possible(v, q[k]) /\ After(v, q[k]) = v
    BY <1>6, <2>1 DEF Possible, After
  <2> QED
    BY <2>1, <2>2
<1>14. Told(h, q)
  BY <1>12, <1>13 DEF Told
<1>15. Outdated(h, q, s, w)
  BY <1>3, <1>10 DEF Outdated, PixmapGood, TexGood
<1> QED
  BY <1>1, <1>4, <1>5, <1>7, <1>8, <1>12, <1>14, <1>15 DEF Ahead

------------------------------------------------------------------------------
(* The steps.                                                               *)
LEMMA OutdateFields ==
  ASSUME ps \in Session, NEW k \in {"pixmap", "tile_pixmap"}, NEW t, t = Outdate(k)
  PROVE  /\ t \in Session /\ Same(ps, t) /\ t.pixmap_damaged = ps.pixmap_damaged
         /\ t.fresh = ps.fresh
         /\ \A j \in Member : t.held[j] = IF j = k /\ ps.held[j] = "current" THEN "old"
                                          ELSE ps.held[j]
<1> DEFINE h == [ps.held EXCEPT ![k] = IF @ = "current" THEN "old" ELSE @]
<1>1. k \in Member /\ ps.held \in [Member -> Value]
  BY DEF Member, WPaint, Tile, Session
<1>2. h \in [Member -> Value]
  BY <1>1 DEF Value
<1>3. \A j \in Member : h[j] = IF j = k /\ ps.held[j] = "current" THEN "old" ELSE ps.held[j]
  BY <1>1
<1>4. t = [ps EXCEPT !.held = h]
  BY <1>1 DEF Outdate, Session
<1> HIDE DEF h
<1>5. /\ t \in Session /\ t.held = h /\ Same(ps, t) /\ t.pixmap_damaged = ps.pixmap_damaged
      /\ t.fresh = ps.fresh
  BY <1>2, <1>4 DEF Session, Same
<1> QED
  BY <1>3, <1>5

LEMMA OutdateFits ==
  ASSUME ps \in Session, Fits(ps), NEW k \in {"pixmap", "tile_pixmap"}, NEW t, t = Outdate(k)
  PROVE  /\ t \in Session /\ Same(ps, t) /\ Fits(t) /\ (TexGood(ps) => TexGood(t))
         /\ k = "pixmap" => t.held["tile_pixmap"] = ps.held["tile_pixmap"]
         /\ k = "tile_pixmap" => (PixmapGood(ps) => PixmapGood(t))
<1>1. {"pixmap", "tex", "shadow_pixmap", "buffer_pixmap", "tile_pixmap"} \subseteq Member
  BY DEF Member, WPaint, Shadow, Tile, Buffer
<1>2. /\ Same(ps, t) /\ t \in Session
      /\ t.pixmap_damaged = ps.pixmap_damaged /\ t.fresh = ps.fresh
      /\ t.held["tex"] = ps.held["tex"]
      /\ t.held["shadow_pixmap"] = ps.held["shadow_pixmap"]
      /\ t.held["buffer_pixmap"] = ps.held["buffer_pixmap"]
      /\ t.held["pixmap"] = IF k = "pixmap" /\ ps.held["pixmap"] = "current" THEN "old"
                            ELSE ps.held["pixmap"]
      /\ k = "pixmap" => t.held["tile_pixmap"] = ps.held["tile_pixmap"]
  BY <1>1, OutdateFields
<1>3. Fits(t)
  BY <1>2 DEF Fits, Same, Live, None
<1> QED
  BY <1>2, <1>3 DEF PixmapGood, TexGood

(* One event is sent, and one pixmap outdated at most.                      *)
LEMMA SentFollows ==
  ASSUME IInv, Follows, NEW e \in SizedEvent, Send(<<e>>), Same(ps, ps'),
         x' \in Window, Possible(Seen(x), e), Seen(x') = After(Seen(x), e),
         PixmapGood(ps) => \/ PixmapGood(ps') \/ ~x.mapped
                           \/ e.type \in {"unmap", "configure"},
         TexGood(ps) => TexGood(ps') \/ x.reported \/ e.type = "damage",
         x'.reported => x.reported \/ e.type = "damage",
         \/ ps'.held["tile_pixmap"] = ps.held["tile_pixmap"] /\ x'.wall = x.wall
         \/ e.type = "rootprop"
  PROVE  \E g : Ahead(g, queue', ps', x')
<1>1. PICK h : Ahead(h, queue, ps, x)
  BY DEF Follows
<1>2. /\ queue \in Seq(SizedEvent) /\ ps \in Session /\ x \in Window
      /\ queue' \in Seq(SizedEvent) /\ Longer(queue, queue', e)
  BY ConcatLonger DEF IInv, Sound, Send
<1>3. PICK q : q = queue
  OBVIOUS
<1>4. PICK r : r = queue'
  OBVIOUS
<1>5. PICK s, t : s = ps /\ t = ps'
  OBVIOUS
<1>6. PICK w, u : w = x /\ u = x'
  OBVIOUS
<1>7. \E g : Ahead(g, r, t, u)
  <2>1. /\ q \in Seq(SizedEvent) /\ r \in Seq(SizedEvent) /\ Longer(q, r, e)
        /\ s \in Session /\ w \in Window /\ Ahead(h, q, s, w)
    BY <1>1, <1>2, <1>3, <1>4, <1>5, <1>6
  <2>2. /\ Same(s, t) /\ Possible(Seen(w), e) /\ Seen(u) = After(Seen(w), e)
        /\ PixmapGood(s) => \/ PixmapGood(t) \/ ~w.mapped
                            \/ e.type \in {"unmap", "configure"}
        /\ TexGood(s) => TexGood(t) \/ w.reported \/ e.type = "damage"
        /\ u.reported => w.reported \/ e.type = "damage"
        /\ \/ t.held["tile_pixmap"] = s.held["tile_pixmap"] /\ u.wall = w.wall
           \/ e.type = "rootprop"
    BY <1>5, <1>6
  <2> QED
    BY <2>1, <2>2, SendAhead
<1> QED
  BY <1>4, <1>5, <1>6, <1>7

LEMMA TwoLonger ==
  ASSUME NEW q \in Seq(SizedEvent), NEW d \in SizedEvent, NEW e \in SizedEvent
  PROVE  /\ q \o <<d, e>> \in Seq(SizedEvent) /\ q \o <<d>> \in Seq(SizedEvent)
         /\ Longer(q, q \o <<d>>, d) /\ Longer(q \o <<d>>, q \o <<d, e>>, e)
<1>1. q \o <<d>> \in Seq(SizedEvent) /\ Longer(q, q \o <<d>>, d)
  BY ConcatLonger
<1>2. PICK r : r = q \o <<d>>
  OBVIOUS
<1>3. PICK b : b = <<d, e>>
  OBVIOUS
<1>4. b \in Seq(SizedEvent) /\ Len(b) = 2 /\ b[1] = d /\ b[2] = e
  BY <1>3
<1>5. PICK z : z = q \o b
  OBVIOUS
<1>6. PICK n \in Nat : n = Len(q)
  OBVIOUS
<1>7. /\ z \in Seq(SizedEvent) /\ Len(z) = n + 2
      /\ \A i \in 1 .. n + 2 : z[i] = IF i <= n THEN q[i] ELSE b[i - n]
  <2>1. b \in Seq(SizedEvent) /\ Len(b) = 2
    BY <1>4
  <2>2. /\ q \o b \in Seq(SizedEvent) /\ Len(q \o b) = Len(q) + Len(b)
        /\ \A i \in 1 .. Len(q) + Len(b) :
             (q \o b)[i] = IF i <= Len(q) THEN q[i] ELSE b[i - Len(q)]
    BY <2>1, ConcatProperties
  <2> QED
    BY <1>5, <1>6, <2>1, <2>2
<1>8. Len(r) = n + 1 /\ r[n + 1] = d /\ \A i \in 1 .. n : r[i] = q[i]
  BY <1>1, <1>2, <1>6 DEF Longer
<1>9. z[n + 2] = e /\ z[n + 1] = d /\ \A i \in 1 .. n : z[i] = q[i]
  BY <1>4, <1>6, <1>7
<1>10. Len(z) = Len(r) + 1 /\ z[Len(r) + 1] = e
  BY <1>7, <1>8, <1>9
<1>11. ASSUME NEW k \in 1 .. Len(r) PROVE z[k] = r[k]
  BY <1>6, <1>8, <1>9
<1>12. Longer(r, z, e)
  BY <1>10, <1>11 DEF Longer
<1> QED
  BY <1>1, <1>2, <1>3, <1>5, <1>7, <1>12

LEMMA DestroyFollows ==
  ASSUME IInv, Fits(ps), Follows, XDestroy, x' \in Window
  PROVE  Fits(ps') /\ \E g : Ahead(g, queue', ps', x')
<1>1. /\ queue \in Seq(SizedEvent) /\ ps \in Session /\ x \in Window
      /\ ps' = Outdate("pixmap")
  BY DEF IInv, Sound, XDestroy
<1>2. PICK s, t : s = ps /\ t = ps'
  OBVIOUS
<1>3. /\ s \in Session /\ t \in Session /\ Same(s, t) /\ Fits(ps')
      /\ (TexGood(s) => TexGood(t)) /\ t.held["tile_pixmap"] = s.held["tile_pixmap"]
  BY <1>1, <1>2, OutdateFits
<1>4. PICK w \in Window, u \in Window : w = x /\ u = x'
  BY <1>1
<1>5. /\ ~u.mapped /\ u.mapped = FALSE /\ u.size = w.size /\ u.root = w.root
      /\ u.wall = w.wall /\ u.reported = w.reported
  BY <1>4 DEF XDestroy, Window
<1>6. PICK d \in SizedEvent : d = Ev("unmap")
  BY EventsSized
<1>7. PICK e \in SizedEvent : e = Ev("destroy")
  BY EventsSized
<1>8. d.type = "unmap" /\ e.type = "destroy"
  BY <1>6, <1>7 DEF Ev
<1>9. PICK h : Ahead(h, queue, s, w)
  BY <1>2, <1>4 DEF Follows
<1>10. /\ Possible(Seen(w), d) /\ Possible(Seen(w), e) /\ Possible(Seen(u), e)
       /\ After(Seen(w), d) = Seen(u) /\ After(Seen(u), e) = Seen(u)
  <2>1. After(Seen(w), d) = Seen(u)
    BY <1>5, <1>8 DEF Seen, After
  <2> QED
    BY <1>8, <2>1 DEF Possible, After
<1>11. PICK r : r = queue'
  OBVIOUS
<1>12. CASE w.mapped
  <2>1. r = queue \o <<d, e>>
    BY <1>4, <1>6, <1>7, <1>11, <1>12 DEF XDestroy, Send
  <2>2. PICK q : q = queue \o <<d>>
    OBVIOUS
  <2>3. /\ r \in Seq(SizedEvent) /\ q \in Seq(SizedEvent)
        /\ Longer(queue, q, d) /\ Longer(q, r, e)
    BY <1>1, <2>1, <2>2, TwoLonger
  <2>4. \E g : Ahead(g, q, t, u)
    <3>1. Seen(u) = After(Seen(w), d)
      BY <1>10
    <3> QED
      BY <1>1, <1>3, <1>5, <1>8, <1>9, <1>10, <2>3, <3>1, SendAhead
  <2>5. PICK g : Ahead(g, q, t, u)
    BY <2>4
  <2>6. \E f : Ahead(f, r, t, u)
    <3>1. Seen(u) = After(Seen(u), e) /\ Same(t, t)
      BY <1>3, <1>10 DEF Same
    <3> QED
      BY <1>3, <1>10, <2>3, <2>5, <3>1, SendAhead
  <2> QED
    BY <1>2, <1>3, <1>4, <1>11, <2>6
<1>13. CASE ~w.mapped
  <2>1. r = queue \o <<e>>
    BY <1>4, <1>7, <1>11, <1>13 DEF XDestroy, Send
  <2>2. r \in Seq(SizedEvent) /\ Longer(queue, r, e)
    BY <1>1, <2>1, ConcatLonger
  <2>3. Seen(u) = After(Seen(w), e)
    <3>1. w.mapped = u.mapped
      BY <1>5, <1>13 DEF Window
    <3> QED
      BY <1>5, <1>8, <3>1 DEF Seen, After
  <2>4. \E g : Ahead(g, r, t, u)
    BY <1>1, <1>3, <1>5, <1>9, <1>10, <1>13, <2>2, <2>3, SendAhead
  <2> QED
    BY <1>2, <1>3, <1>4, <1>11, <2>4
<1> QED
  BY <1>12, <1>13

LEMMA DrawFollows ==
  ASSUME IInv, Fits(ps), Follows, XDraw, x' \in Window
  PROVE  Fits(ps') /\ \E g : Ahead(g, queue', ps', x')
<1>1. /\ queue \in Seq(SizedEvent) /\ ps \in Session /\ x \in Window
  BY DEF IInv, Sound
<1>2. PICK t : t = ps'
  OBVIOUS
<1>3. t = [ps EXCEPT !.fresh = @ /\ ps.held["pixmap"] # "current"]
  BY <1>2 DEF XDraw
<1>4. t \in Session /\ Same(ps, t) /\ t.held = ps.held /\ t.pixmap_damaged = ps.pixmap_damaged
  BY <1>1, <1>3 DEF Session, Same
<1>5. Fits(ps')
  BY <1>2, <1>4 DEF Fits, Same, Live
<1>6. x.mapped /\ x' = [x EXCEPT !.reported = TRUE] /\ Seen(x') = Seen(x) /\ x'.wall = x.wall
  BY <1>1 DEF XDraw, Seen, Window
<1>7. CASE x.reported
  <2>1. queue' = queue
    BY <1>1, <1>7 DEF XDraw, Send
  <2>2. PICK h : Ahead(h, queue, ps, x)
    BY DEF Follows
  <2>3. /\ Told(h, queue) /\ Knows(ps, h[0]) /\ h[Len(queue)] = Seen(x)
        /\ Outdated(h, queue, ps, x)
    BY <2>2 DEF Ahead
  <2>4. Knows(t, h[0])
    BY <1>4, <2>3 DEF Same, Knows, Live
  <2>5. PICK u : u = x'
    OBVIOUS
  <2>6. Outdated(h, queue, t, u)
    <3>1. Live(t) => Live(ps) /\ t.viewable = ps.viewable
      BY <1>4 DEF Same, Live
    <3>2. Live(t) => Waits(queue, "damage")
      BY <1>7, <2>3, <3>1 DEF Outdated
    <3> QED
      BY <1>4, <1>6, <2>3, <2>5, <3>1, <3>2 DEF Outdated, PixmapGood
  <2>7. Ahead(h, queue, t, u)
    BY <1>6, <2>3, <2>4, <2>5, <2>6 DEF Ahead
  <2> QED
    BY <1>2, <1>5, <2>1, <2>5, <2>7
<1>8. CASE ~x.reported
  <2>1. PICK e \in SizedEvent : e = Ev("damage")
    BY EventsSized
  <2>2. e.type = "damage" /\ Send(<<e>>)
    BY <1>8, <2>1 DEF Ev, XDraw
  <2>3. Possible(Seen(x), e) /\ Seen(x') = After(Seen(x), e)
    BY <1>6, <2>2 DEF Possible, After, Seen
  <2>4. Same(ps, ps') /\ (PixmapGood(ps) => PixmapGood(ps'))
    BY <1>2, <1>4 DEF PixmapGood
  <2>5. ps'.held["tile_pixmap"] = ps.held["tile_pixmap"]
    BY <1>2, <1>4
  <2> QED
    BY <1>5, <1>6, <2>2, <2>3, <2>4, <2>5, SentFollows
<1> QED
  BY <1>7, <1>8

(* What a step of the server outdates at most, the wallpaper left alone.    *)
Outdates(t) ==
  /\ Same(ps, t) /\ Fits(t) /\ (TexGood(ps) => TexGood(t))
  /\ t.held["tile_pixmap"] = ps.held["tile_pixmap"]

LEMMA ServerFollows ==
  ASSUME IInv, Fits(ps), Follows, Server, x' \in Window
  PROVE  Fits(ps') /\ \E g : Ahead(g, queue', ps', x')
<1>1. /\ queue \in Seq(SizedEvent) /\ ps \in Session /\ x \in Window
  BY DEF IInv, Sound
<1>2. /\ ps' = Outdate("pixmap") => Outdates(ps')
      /\ ps' = ps => Outdates(ps')
  <2>1. ps' = Outdate("pixmap") => Outdates(ps')
    BY <1>1, OutdateFits DEF Outdates
  <2>2. ps' = ps => Outdates(ps')
    BY <1>1 DEF Outdates, Same
  <2> QED
    BY <2>1, <2>2
<1>3. ASSUME NEW e \in SizedEvent, Send(<<e>>), Outdates(ps'), Possible(Seen(x), e),
             Seen(x') = After(Seen(x), e), x'.wall = x.wall, x'.reported = x.reported,
             PixmapGood(ps) => \/ PixmapGood(ps') \/ ~x.mapped
                               \/ e.type \in {"unmap", "configure"}
      PROVE  Fits(ps') /\ \E g : Ahead(g, queue', ps', x')
  BY <1>3, SentFollows DEF Outdates
<1>4. CASE XMap
  <2>1. PICK e \in SizedEvent : e = Ev("map")
    BY EventsSized
  <2>2. e.type = "map" /\ Send(<<e>>)
    BY <1>4, <2>1 DEF Ev, XMap
  <2>3. x' = [x EXCEPT !.mapped = TRUE] /\ ~x.mapped /\ Outdates(ps')
    BY <1>2, <1>4 DEF XMap
  <2>4. Possible(Seen(x), e) /\ Seen(x') = After(Seen(x), e)
    BY <1>1, <2>2, <2>3 DEF Possible, After, Seen, Window
  <2>5. x'.wall = x.wall /\ x'.reported = x.reported
    BY <1>1, <2>3 DEF Window
  <2> QED
    BY <1>3, <2>2, <2>3, <2>4, <2>5
<1>5. CASE XUnmap
  <2>1. PICK e \in SizedEvent : e = Ev("unmap")
    BY EventsSized
  <2>2. e.type = "unmap" /\ Send(<<e>>)
    BY <1>5, <2>1 DEF Ev, XUnmap
  <2>3. x' = [x EXCEPT !.mapped = FALSE] /\ Outdates(ps')
    BY <1>2, <1>5 DEF XUnmap
  <2>4. Possible(Seen(x), e) /\ Seen(x') = After(Seen(x), e)
    BY <1>1, <2>2, <2>3 DEF Possible, After, Seen, Window
  <2>5. x'.wall = x.wall /\ x'.reported = x.reported
    BY <1>1, <2>3 DEF Window
  <2> QED
    BY <1>3, <2>2, <2>3, <2>4, <2>5
<1>6. ASSUME NEW size \in Sizes, XResize(size)
      PROVE  Fits(ps') /\ \E g : Ahead(g, queue', ps', x')
  <2>1. PICK e \in SizedEvent : e = [type |-> "configure", size |-> size]
    BY EventsSized
  <2>2. e.type = "configure" /\ e.size = size /\ Send(<<e>>)
    BY <1>6, <2>1 DEF XResize
  <2>3. x' = [x EXCEPT !.size = size] /\ size # x.size /\ Outdates(ps')
    BY <1>2, <1>6 DEF XResize
  <2>4. Possible(Seen(x), e) /\ Seen(x') = After(Seen(x), e)
    BY <1>1, <2>2, <2>3 DEF Possible, After, Seen, Window
  <2>5. x'.wall = x.wall /\ x'.reported = x.reported
    BY <1>1, <2>3 DEF Window
  <2> QED
    BY <1>3, <2>2, <2>3, <2>4, <2>5
<1>7. ASSUME NEW root \in RootSizes, XRootSize(root)
      PROVE  Fits(ps') /\ \E g : Ahead(g, queue', ps', x')
  <2>1. PICK e \in SizedEvent : e = [type |-> "rootsize", size |-> root]
    BY EventsSized
  <2>2. e.type = "rootsize" /\ e.size = root /\ Send(<<e>>)
    BY <1>7, <2>1 DEF XRootSize
  <2>3. x' = [x EXCEPT !.root = root] /\ Outdates(ps') /\ (PixmapGood(ps) => PixmapGood(ps'))
    BY <1>2, <1>7 DEF XRootSize
  <2>4. Possible(Seen(x), e) /\ Seen(x') = After(Seen(x), e)
    BY <1>1, <2>2, <2>3 DEF Possible, After, Seen, Window
  <2>5. x'.wall = x.wall /\ x'.reported = x.reported
    BY <1>1, <2>3 DEF Window
  <2> QED
    BY <1>3, <2>2, <2>3, <2>4, <2>5
<1>8. ASSUME NEW wall \in BOOLEAN, XWallpaper(wall)
      PROVE  Fits(ps') /\ \E g : Ahead(g, queue', ps', x')
  <2>1. PICK e \in SizedEvent : e = Ev("rootprop")
    BY EventsSized
  <2>2. e.type = "rootprop" /\ Send(<<e>>)
    BY <1>8, <2>1 DEF Ev, XWallpaper
  <2>3. x' = [x EXCEPT !.wall = wall] /\ ps' = Outdate("tile_pixmap")
    BY <1>8 DEF XWallpaper
  <2>4. Possible(Seen(x), e) /\ Seen(x') = After(Seen(x), e) /\ x'.reported = x.reported
    BY <1>1, <2>2, <2>3 DEF Possible, After, Seen, Window
  <2>5. /\ Same(ps, ps') /\ Fits(ps') /\ (TexGood(ps) => TexGood(ps'))
        /\ (PixmapGood(ps) => PixmapGood(ps'))
    BY <1>1, <2>3, OutdateFits
  <2> QED
    BY <2>2, <2>4, <2>5, SentFollows
<1> QED
  BY <1>4, <1>5, <1>6, <1>7, <1>8, DrawFollows, DestroyFollows DEF Server

LEMMA HandleFollows ==
  ASSUME IInv, Fits(ps), Follows, Handle
  PROVE  Fits(ps') /\ \E g : Ahead(g, queue', ps', x')
<1>1. /\ queue \in Seq(SizedEvent) /\ ps \in Session /\ x \in Window /\ Layered(ps)
      /\ queue # <<>> /\ queue' = Tail(queue)
  BY DEF IInv, Sound, Handle
<1>2. PICK fades \in BOOLEAN : ps' = Handled(ps, Head(queue), fades)
  BY DEF Handle
<1>3. PICK h : Ahead(h, queue, ps, x)
  BY DEF Follows
<1>4. PICK u : u = x'
  OBVIOUS
<1>5. PICK t : t = ps'
  OBVIOUS
<1>6. /\ Seen(u) = Seen(x) /\ u.wall = x.wall
      /\ u.reported => x.reported /\ ~(Head(queue).type = "damage" /\ ps.listed /\ ps.viewable)
  <2>1. u = IF Head(queue).type = "damage" /\ ps.listed /\ ps.viewable
            THEN [x EXCEPT !.reported = FALSE] ELSE x
    BY <1>4 DEF Handle
  <2>2. CASE Head(queue).type = "damage" /\ ps.listed /\ ps.viewable
    BY <1>1, <2>1, <2>2 DEF Seen, Window
  <2>3. CASE ~(Head(queue).type = "damage" /\ ps.listed /\ ps.viewable)
    BY <2>1, <2>3
  <2> QED
    BY <2>2, <2>3
<1>7. t = Handled(ps, Head(queue), fades)
  BY <1>2, <1>5
<1>8. Fits(t) /\ \E g : Ahead(g, Tail(queue), t, u)
  BY <1>1, <1>3, <1>6, <1>7, HandleAhead
<1> QED
  BY <1>1, <1>4, <1>5, <1>8

LEMMA CycleFollows ==
  ASSUME IInv, Fits(ps), Follows, NEW painted \in BOOLEAN, NEW over \in BOOLEAN,
         NEW damage \in BOOLEAN, NEW redirect \in BOOLEAN,
         Cycle(painted, over, damage, redirect)
  PROVE  Fits(ps') /\ \E g : Ahead(g, queue', ps', x')
<1>1. Carries(ps, ps') /\ Fits(ps')
  BY CycleCarries DEF Carries
<1>2. PICK h : Ahead(h, queue, ps, x)
  BY DEF Follows
<1>3. PICK t : t = ps'
  OBVIOUS
<1>4. Ahead(h, queue, t, x)
  <2>1. Carries(ps, t) /\ queue \in Seq(SizedEvent) /\ x \in Window
    BY <1>1, <1>3 DEF IInv
  <2> QED
    BY <1>2, <2>1, CarriesAhead
<1> QED
  BY <1>1, <1>3, <1>4 DEF Cycle

LEMMA FollowsPrime ==
  ASSUME cfg' = cfg, Fits(ps'), \E g : Ahead(g, queue', ps', x')
  PROVE  Fits(ps)' /\ Follows'
BY DEF Fits, Live, xrender, glx, Follows

LEMMA CurrentInit ==
  ASSUME Init PROVE CInv
<1>1. IInv
  BY InitHolds
<1>2. x \in Window /\ x.reported = x.mapped
  BY <1>1 DEF Init, IInv
<1>3. Fits(ps) /\ Follows
  BY <1>2, FreshAhead DEF Init, Follows
<1> QED
  BY <1>1, <1>3 DEF CInv

LEMMA RestartFollows ==
  ASSUME IInv, Restart
  PROVE  Fits(ps') /\ \E g : Ahead(g, queue', ps', x')
<1>1. PICK w : w = x'
  OBVIOUS
<1>2. /\ w \in Window /\ w.reported = w.mapped
      /\ NewSession(w) = NewSession(x) /\ Reported(w) = Reported(x)
  <2>1. x \in Window /\ w = [x EXCEPT !.reported = x.mapped]
    BY <1>1 DEF Restart, IInv
  <2>2. /\ w \in Window /\ w.reported = w.mapped /\ w.exists = x.exists
        /\ w.mapped = x.mapped /\ w.size = x.size /\ w.root = x.root
    BY <2>1 DEF Window
  <2> QED
    BY <2>2 DEF NewSession, Reported
<1>3. Fits(NewSession(w)) /\ \E h : Ahead(h, Reported(w), NewSession(w), w)
  BY <1>2, FreshAhead
<1>4. ps' = NewSession(w) /\ queue' = Reported(w)
  BY <1>2 DEF Restart
<1> QED
  BY <1>1, <1>3, <1>4

LEMMA CurrentStep ==
  ASSUME CInv, [Next]_vars PROVE CInv'
<1>1. IInv /\ IInv' /\ (running => Fits(ps) /\ Follows) /\ cfg' = cfg
  <2>1. cfg' = cfg
    <3>1. (Handle => cfg' = cfg) /\ (Quit => cfg' = cfg) /\ (Restart => cfg' = cfg)
      BY DEF Handle, Quit, Restart
    <3>2. \A painted, over, damage, redirect \in BOOLEAN :
            Cycle(painted, over, damage, redirect) => cfg' = cfg
      BY DEF Cycle
    <3> QED
      BY <3>1, <3>2 DEF Next, vars
  <2> QED
    BY <2>1, StepKeeps DEF CInv
<1>2. SUFFICES ASSUME running' PROVE Fits(ps') /\ \E g : Ahead(g, queue', ps', x')
  BY <1>1, <1>2, FollowsPrime DEF CInv
<1>3. CASE UNCHANGED vars
  BY <1>1, <1>2, <1>3 DEF vars, Follows
<1>4. CASE Server /\ running /\ UNCHANGED <<cfg, running>>
  BY <1>1, <1>4, ServerFollows DEF IInv
<1>5. CASE Handle
  BY <1>1, <1>5, HandleFollows DEF Handle
<1>6. ASSUME NEW painted \in BOOLEAN, NEW over \in BOOLEAN, NEW damage \in BOOLEAN,
             NEW redirect \in BOOLEAN, Cycle(painted, over, damage, redirect)
      PROVE  Fits(ps') /\ \E g : Ahead(g, queue', ps', x')
  BY <1>1, <1>6, CycleFollows DEF Cycle
<1>7. CASE Quit
  BY <1>2, <1>7 DEF Quit
<1>8. CASE Restart
  BY <1>1, <1>8, RestartFollows
<1> QED
  BY <1>3, <1>4, <1>5, <1>6, <1>7, <1>8 DEF Next

(* Current: with every event handled, nothing that is kept of a mapped      *)
(* window, of the wallpaper or of the screen is out of date, unless a flag  *)
(* says so, however the events and the frames come.                         *)
THEOREM StaysCurrent == Spec => []Current
<1>1. Init => CInv
  BY CurrentInit
<1>2. CInv /\ [Next]_vars => CInv'
  BY CurrentStep
<1>3. CInv => Current
  <2> SUFFICES ASSUME CInv, running, queue = <<>> PROVE Current
    BY DEF Current
  <2>1. /\ Fits(ps) /\ x \in Window /\ ps \in Session
    BY DEF CInv, IInv, Sound
  <2>2. PICK h : Ahead(h, <<>>, ps, x)
    BY DEF CInv, Follows
  <2>3. /\ Knows(ps, Seen(x)) /\ \A type : ~Waits(<<>>, type)
        /\ Outdated(h, <<>>, ps, x)
        /\ ~ \E k \in 1 .. Len(<<>>) : Remakes(h[k - 1], <<>>[k])
    BY <2>2 DEF Ahead, Waits
  <2>4. ps.held["tile_pixmap"] \in {None, IF x.wall THEN "current" ELSE "own"}
    BY <2>3 DEF Outdated
  <2>5. ps.held["buffer_pixmap"] \in {None, x.root}
    BY <2>1, <2>3 DEF Fits, Knows, Seen
  <2>6. ASSUME ps.listed, ps.viewable
        PROVE  /\ x.mapped /\ ~x.reported
               /\ ps.held["pixmap"] \in {None, "current"}
               /\ (ps.held["tex"] # None /\ ~ps.pixmap_damaged => ps.fresh)
               /\ (ps.held["shadow_pixmap"] \in {None, x.size} \/ ps.sizechange)
    <3>1. Live(ps) /\ ps.need = None
      BY <2>1, <2>6 DEF Fits, Live, None
    <3>2. PixmapGood(ps) /\ TexGood(ps) /\ ~x.reported
      BY <2>3, <2>6, <3>1 DEF Outdated
    <3>3. x.mapped /\ x.size = ps.size
      <4>1. Seen(x).mapped = ps.viewable /\ Seen(x).size = ps.size
        BY <2>3, <3>1 DEF Knows
      <4>2. ps.viewable = TRUE
        BY <2>1, <2>6 DEF Session
      <4> QED
        BY <4>1, <4>2 DEF Seen
    <3> QED
      BY <2>1, <2>6, <3>2, <3>3 DEF Fits, PixmapGood, TexGood
  <2> QED
    BY <2>4, <2>5, <2>6 DEF Current
<1> QED
  BY <1>1, <1>2, <1>3, PTL DEF Spec
==============================================================================
