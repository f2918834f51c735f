---------------------------- MODULE WindowsProofs ----------------------------
(****************************************************************************)
(* Theorems about Windows, for every value of its constants.                *)
(*                                                                          *)
(*   TypeInv     each step is defined, and with it FocusIsViewable.         *)
(* On it rest those about the structs, their pointers and their fades, one  *)
(* section each:                                                            *)
(*   ListOK      the list has no struct twice and every struct is well kept *)
(*               (WinOK): what its callback, its fade and its state have to *)
(*               do with each other;                                        *)
(*   SettledInv  what an idle session has left to do, which is nothing;     *)
(*   DepartInv   one departure at a time has one destroyed struct;          *)
(*   ChainInv    the chain of the paint cycle is made of structs;           *)
(*   SyncInv     what the waiting events still have to say about a window   *)
(*               is the difference between the list and the server.         *)
(****************************************************************************)
EXTENDS Windows, WellFoundedInduction, TLAPS

(* The struct add_win starts from is well typed.                            *)
LEMMA WinDefType == WinDef \in Win
  <1>1. 0 \in Level
    BY WindowsAssumption DEF Level
  <1> QED
    BY <1>1, Zenon DEF WinDef, Win, Callback

(* The operations on a struct keep it well typed: win_determine_fade, ...   *)
LEMMA DetermineFadeType ==
  ASSUME NEW w \in Win PROVE DetermineFade(w) \in Win
  <1>1. (w.id \in Fading) \in BOOLEAN
    OBVIOUS
  <1>2. [w EXCEPT !.fade = FALSE, !.fadeLast = FALSE] \in Win
    BY Zenon DEF Win
  <1>3. [w EXCEPT !.fade = w.id \in Fading] \in Win
    <2>1. \A e \in BOOLEAN : [w EXCEPT !.fade = e] \in Win
      BY Zenon DEF Win
    <2> QED
      BY <1>1, <2>1, Zenon
  <1> QED
    BY <1>2, <1>3, Zenon DEF DetermineFade

(* ... finish_map_win, ...                                                  *)
LEMMA FinishMapType ==
  ASSUME NEW w \in Win PROVE FinishMap(w) \in Win
  <1>1. [w EXCEPT !.inOpenclose = FALSE] \in Win
    BY Zenon DEF Win
  <1> QED
    BY <1>1, DetermineFadeType, Zenon DEF FinishMap

(* ... finish_unmap_win, ...                                                *)
LEMMA FinishUnmapType ==
  ASSUME NEW w \in Win PROVE FinishUnmap(w) \in Win
  BY Zenon DEF FinishUnmap, Win

(* ... a change of the opacity factors, ...                                 *)
LEMMA OpacityChangedType ==
  ASSUME NEW w \in Win, NEW o \in ViewTargets PROVE OpacityChanged(w, o) \in Win
  <1>1. o \in Level
    BY WindowsAssumption DEF Level
  <1> QED
    BY <1>1, Zenon DEF OpacityChanged, Win

(* ... map_win, ...                                                         *)
LEMMA MappedType ==
  ASSUME NEW w \in Win, NEW o \in ViewTargets PROVE Mapped(w, o) \in Win
  <1> DEFINE open == [OpacityChanged(w, o) EXCEPT !.viewable = TRUE, 
                        !.inOpenclose = TRUE, !.cb = "map"]
             ran == IF w.cb = "unmap" THEN FinishUnmap(open)
                    ELSE IF w.cb = "map" THEN FinishMap(open) ELSE open
  <1>1. open \in Win
    BY OpacityChangedType, Zenon DEF Win, Callback
  <1> HIDE DEF open
  <1>2. ran \in Win
    BY <1>1, FinishMapType, FinishUnmapType, Zenon
  <1> HIDE DEF ran
  <1>3. [DetermineFade(ran) EXCEPT !.damaged = FALSE] \in Win
    BY <1>2, DetermineFadeType, Zenon DEF Win
  <1> QED
    BY <1>3, Zenon DEF Mapped, open, ran

(* ... unmap_win, ...                                                       *)
LEMMA UnmappedType ==
  ASSUME NEW w \in Win, NEW valid \in BOOLEAN PROVE Unmapped(w, valid) \in Win
  <1> DEFINE u == DetermineFade([w EXCEPT !.viewable = FALSE, !.opctChange = TRUE,
                                        !.cb = "unmap", !.inOpenclose = TRUE])
  <1>1. u \in Win
    <2>1. [w EXCEPT !.viewable = FALSE, !.opctChange = TRUE,
                    !.cb = "unmap", !.inOpenclose = TRUE] \in Win
      BY Zenon DEF Win, Callback
    <2> QED
      BY <2>1, DetermineFadeType
  <1> HIDE DEF u
  <1>2. (u.pixmap /\ (u.fade => valid)) \in BOOLEAN
    OBVIOUS
  <1>3. \A e \in BOOLEAN : [u EXCEPT !.pixmap = e] \in Win
    BY <1>1, Zenon DEF Win
  <1>4. [u EXCEPT !.pixmap = @ /\ (u.fade => valid)] \in Win
    BY <1>2, <1>3, Zenon
  <1> QED
    BY <1>4, Zenon DEF Unmapped, u

(* ... destroy_win, ...                                                     *)
LEMMA DestroyedType ==
  ASSUME NEW w \in Win, NEW valid \in BOOLEAN PROVE Destroyed(w, valid) \in Win
  <1> DEFINE u == Unmapped(w, valid)
             d == DetermineFade([u EXCEPT !.destroyed = TRUE])
  <1>1. u \in Win
    BY UnmappedType
  <1> HIDE DEF u
  <1>2. [u EXCEPT !.destroyed = TRUE] \in Win
    BY <1>1, Zenon DEF Win
  <1>3. d \in Win
    BY <1>2, DetermineFadeType
  <1> HIDE DEF d
  <1>4. [d EXCEPT !.cb = "destroy"] \in Win
    BY <1>3, Zenon DEF Win, Callback
  <1> QED
    BY <1>4, Zenon DEF Destroyed, u, d

(* ... and run_fade.                                                        *)
LEMMA RunFadeType ==
  ASSUME NEW w \in Win, steps \in 0 .. MaxSteps PROVE RunFade(w) \in Win
  <1>1. w.tgt \in Level /\ w.want \in Level /\ w.opacity \in Level
    BY Zenon DEF Win
  <1>2. Target(w) \in Level
    BY <1>1, WindowsAssumption DEF Target, Level
  <1>3. Restored(w) \in Win
    <2>1. (IF w.viewable THEN w.fade ELSE w.fadeLast) \in BOOLEAN
      BY Zenon DEF Win
    <2> QED
      BY <1>2, <2>1, Zenon DEF Restored, Win
  <1>4. \A r \in Win : Faded(r) \in Level
    <2>1. SUFFICES ASSUME NEW r \in Win PROVE Faded(r) \in Level
      OBVIOUS
    <2>2. r.opacity \in Level /\ r.tgt \in Level
      BY Zenon DEF Win
    <2> QED
      BY <2>2, WindowsAssumption DEF Faded, Level
  <1>5. Faded(Restored(w)) \in Level
    BY <1>3, <1>4, Zenon
  <1> QED
    BY <1>3, <1>5, Zenon DEF RunFade, Win

------------------------------------------------------------------------------
(* Unlinking the k-th struct moves the later ones up by one.                *)
LEMMA RemoveAtElements ==
  ASSUME NEW S, NEW s \in Seq(S), NEW k \in DOMAIN s
  PROVE  /\ RemoveAt(s, k) \in Seq(S)
         /\ Len(RemoveAt(s, k)) = Len(s) - 1
         /\ \A i \in 1 .. Len(s) - 1 :
              RemoveAt(s, k)[i] = IF i < k THEN s[i] ELSE s[i + 1]
  <1>1. k \in 1 .. Len(s) /\ Len(s) \in Nat
    OBVIOUS
  <1> DEFINE l == SubSeq(s, 1, k - 1)
             r == SubSeq(s, k + 1, Len(s))
  <1>2. l \in Seq(S) /\ Len(l) = k - 1 /\ \A i \in 1 .. k - 1 : l[i] = s[i]
    BY <1>1
  <1>3. r \in Seq(S) /\ Len(r) = Len(s) - k /\ \A i \in 1 .. Len(s) - k : r[i] = s[i + k]
    BY <1>1
  <1> HIDE DEF l, r
  <1>4. /\ l \o r \in Seq(S)
        /\ Len(l \o r) = Len(s) - 1
        /\ \A i \in 1 .. Len(s) - 1 : (l \o r)[i] = IF i < k THEN s[i] ELSE s[i + 1]
    <2>1. l \o r \in Seq(S) /\ Len(l \o r) = Len(s) - 1
      BY <1>1, <1>2, <1>3
    <2>2. \A i \in 1 .. Len(s) - 1 :
            (l \o r)[i] = IF i <= Len(l) THEN l[i] ELSE r[i - Len(l)]
      BY <1>1, <1>2, <1>3
    <2>3. ASSUME NEW i \in 1 .. Len(s) - 1
          PROVE  (l \o r)[i] = IF i < k THEN s[i] ELSE s[i + 1]
      <3>1. CASE i < k
        <4>1. i \in 1 .. k - 1 /\ i <= Len(l)
          BY <1>1, <1>2, <2>3, <3>1
        <4> QED
          BY <1>2, <2>2, <2>3, <3>1, <4>1
      <3>2. CASE ~(i < k)
        <4> DEFINE j == i - (k - 1)
        <4>1. /\ j \in 1 .. Len(s) - k /\ ~(i <= Len(l))
              /\ j = i - Len(l) /\ j + k = i + 1
          BY <1>1, <1>2, <2>3, <3>2
        <4>2. r[j] = s[i + 1]
          BY <1>3, <4>1
        <4> QED
          BY <2>2, <3>2, <4>1, <4>2
      <3> QED
        BY <3>1, <3>2
    <2> QED
      BY <2>1, <2>3
  <1> QED
    BY <1>4 DEF RemoveAt, l, r

(* Unlinking the k-th struct keeps every other one on the list.             *)
LEMMA RemoveAtSet ==
  ASSUME NEW S, NEW s \in Seq(S), NEW k \in DOMAIN s
  PROVE  /\ ToSet(RemoveAt(s, k)) \subseteq ToSet(s)
         /\ \A i \in DOMAIN s : i # k => s[i] \in ToSet(RemoveAt(s, k))
  <1> DEFINE r == RemoveAt(s, k)
  <1>1. /\ r \in Seq(S)
        /\ Len(r) = Len(s) - 1
        /\ \A i \in 1 .. Len(s) - 1 : r[i] = IF i < k THEN s[i] ELSE s[i + 1]
    BY RemoveAtElements
  <1> HIDE DEF r
  <1>2. \A i \in DOMAIN r : \E j \in DOMAIN s : r[i] = s[j]
    BY <1>1
  <1>3. ASSUME NEW i \in DOMAIN s, i # k
        PROVE  \E j \in DOMAIN r : r[j] = s[i]
    <2>1. CASE i < k
      BY <1>1, <1>3, <2>1
    <2>2. CASE i > k
      <3>1. i - 1 \in DOMAIN r /\ r[i - 1] = s[i]
        BY <1>1, <1>3, <2>2
      <3> QED
        BY <3>1
    <2> QED
      BY <1>3, <2>1, <2>2
  <1> QED
    BY <1>2, <1>3 DEF ToSet, r

------------------------------------------------------------------------------
(* What the operations on a struct leave alone.                             *)
Same(v, w) ==
  /\ v.id = w.id /\ v.destroyed = w.destroyed /\ v.viewable = w.viewable
  /\ v.cb = w.cb /\ v.prevTrans = w.prevTrans

(* win_determine_fade changes none of the fields of Same.                   *)
LEMMA DetermineFadeFields ==
  ASSUME NEW w \in Win PROVE Same(DetermineFade(w), w)
  <1>1. Same([w EXCEPT !.fade = FALSE, !.fadeLast = FALSE], w)
    BY DEF Win, Same
  <1>2. Same([w EXCEPT !.fade = w.id \in Fading], w)
    BY DEF Win, Same
  <1>3. Same(w, w)
    BY DEF Same
  <1> QED
    BY <1>1, <1>2, <1>3, Zenon DEF DetermineFade

(* Neither does finish_map_win, ...                                         *)
LEMMA FinishMapFields ==
  ASSUME NEW w \in Win PROVE Same(FinishMap(w), w)
  <1> DEFINE m == [w EXCEPT !.inOpenclose = FALSE]
  <1>1. m \in Win /\ Same(m, w)
    BY Zenon DEF Win, Same
  <1> HIDE DEF m
  <1>2. Same(DetermineFade(m), m)
    BY <1>1, DetermineFadeFields
  <1>3. Same(DetermineFade(m), w)
    BY <1>1, <1>2 DEF Same
  <1> QED
    BY <1>1, <1>3, Zenon DEF FinishMap, m

(* ... nor finish_unmap_win, ...                                            *)
LEMMA FinishUnmapFields ==
  ASSUME NEW w \in Win PROVE Same(FinishUnmap(w), w)
  BY Zenon DEF FinishUnmap, Win, Same

(* ... nor a change of the opacity factors.                                 *)
LEMMA OpacityChangedFields ==
  ASSUME NEW w \in Win, NEW o PROVE Same(OpacityChanged(w, o), w)
  BY Zenon DEF OpacityChanged, Win, Same

(* map_win leaves the struct viewable with finish_map_win as callback.      *)
LEMMA MappedFields ==
  ASSUME NEW w \in Win, NEW o \in ViewTargets
  PROVE  /\ Mapped(w, o).cb = "map" /\ Mapped(w, o).viewable
         /\ Mapped(w, o).id = w.id /\ Mapped(w, o).destroyed = w.destroyed
         /\ Mapped(w, o).prevTrans = w.prevTrans
  <1> DEFINE open == [OpacityChanged(w, o) EXCEPT !.viewable = TRUE, 
                        !.inOpenclose = TRUE, !.cb = "map"]
             ran == IF w.cb = "unmap" THEN FinishUnmap(open)
                    ELSE IF w.cb = "map" THEN FinishMap(open) ELSE open
             d == DetermineFade(ran)
  <1>1. open \in Win
    BY OpacityChangedType, Zenon DEF Win, Callback
  <1>2. /\ open.cb = "map" /\ open.viewable /\ open.id = w.id
        /\ open.destroyed = w.destroyed /\ open.prevTrans = w.prevTrans
    BY Zenon DEF OpacityChanged, Win
  <1> HIDE DEF open
  <1>3. ran \in Win
    BY <1>1, FinishMapType, FinishUnmapType, Zenon
  <1>4. Same(ran, open)
    <2>1. Same(open, open)
      BY DEF Same
    <2> QED
      BY <1>1, <2>1, FinishMapFields, FinishUnmapFields, Zenon
  <1> HIDE DEF ran
  <1>5. d \in Win /\ Same(d, ran)
    BY <1>3, DetermineFadeType, DetermineFadeFields
  <1> HIDE DEF d
  <1>6. Same([d EXCEPT !.damaged = FALSE], d)
    BY <1>5, Zenon DEF Win, Same
  <1>7. Mapped(w, o) = [d EXCEPT !.damaged = FALSE]
    BY Zenon DEF Mapped, open, ran, d
  <1> QED
    BY <1>2, <1>4, <1>5, <1>6, <1>7 DEF Same

(* unmap_win leaves it unviewable, with its callback unless it was before.  *)
LEMMA UnmappedFields ==
  ASSUME NEW w \in Win, NEW valid \in BOOLEAN
  PROVE  /\ w.viewable => Unmapped(w, valid).cb = "unmap"
         /\ ~w.viewable => Unmapped(w, valid) = w
         /\ ~Unmapped(w, valid).viewable
         /\ Unmapped(w, valid).id = w.id /\ Unmapped(w, valid).destroyed = w.destroyed
         /\ Unmapped(w, valid).prevTrans = w.prevTrans
  <1> DEFINE x == [w EXCEPT !.viewable = FALSE, !.opctChange = TRUE,
                            !.cb = "unmap", !.inOpenclose = TRUE]
             u == DetermineFade(x)
  <1>1. x \in Win
    BY Zenon DEF Win, Callback
  <1>2. /\ x.cb = "unmap" /\ ~x.viewable /\ x.id = w.id
        /\ x.destroyed = w.destroyed /\ x.prevTrans = w.prevTrans
    BY Zenon DEF Win
  <1> HIDE DEF x
  <1>3. u \in Win /\ Same(u, x)
    BY <1>1, DetermineFadeType, DetermineFadeFields
  <1> HIDE DEF u
  <1>4. Same([u EXCEPT !.pixmap = @ /\ (u.fade => valid)], u)
    BY <1>3, Zenon DEF Win, Same
  <1>5. CASE w.viewable
    <2>1. Unmapped(w, valid) = [u EXCEPT !.pixmap = @ /\ (u.fade => valid)]
      BY <1>5, Zenon DEF Unmapped, u, x
    <2> QED
      BY <1>2, <1>3, <1>4, <1>5, <2>1 DEF Same
  <1>6. CASE ~w.viewable
    BY <1>6, Zenon DEF Unmapped
  <1> QED
    BY <1>5, <1>6

(* destroy_win leaves it destroyed with destroy_callback.                   *)
LEMMA DestroyedFields ==
  ASSUME NEW w \in Win, NEW valid \in BOOLEAN
  PROVE  /\ Destroyed(w, valid).cb = "destroy" /\ Destroyed(w, valid).destroyed
         /\ Destroyed(w, valid).id = w.id /\ ~Destroyed(w, valid).viewable
         /\ Destroyed(w, valid).prevTrans = w.prevTrans
  <1> DEFINE u == Unmapped(w, valid)
             x == [u EXCEPT !.destroyed = TRUE]
             d == DetermineFade(x)
  <1>1. u \in Win /\ u.id = w.id /\ ~u.viewable /\ u.prevTrans = w.prevTrans
    BY UnmappedType, UnmappedFields
  <1> HIDE DEF u
  <1>2. /\ x \in Win /\ x.destroyed /\ x.id = u.id /\ x.viewable = u.viewable
        /\ x.prevTrans = u.prevTrans
    BY <1>1, Zenon DEF Win
  <1> HIDE DEF x
  <1>3. d \in Win /\ Same(d, x)
    BY <1>2, DetermineFadeType, DetermineFadeFields
  <1> HIDE DEF d
  <1>4. LET r == [d EXCEPT !.cb = "destroy"] IN
          /\ r.cb = "destroy" /\ r.destroyed = d.destroyed /\ r.id = d.id
          /\ r.viewable = d.viewable /\ r.prevTrans = d.prevTrans
    BY <1>3, Zenon DEF Win
  <1>5. Destroyed(w, valid) = [d EXCEPT !.cb = "destroy"]
    BY Zenon DEF Destroyed, u, x, d
  <1> QED
    BY <1>1, <1>2, <1>3, <1>4, <1>5 DEF Same

(* run_fade changes none of the fields of Same.                             *)
LEMMA RunFadeFields ==
  ASSUME NEW w \in Win PROVE Same(RunFade(w), w)
  <1> DEFINE r == Restored(w)
  <1>1. Same(r, w) /\ DOMAIN r = DOMAIN w
    BY Zenon DEF Restored, Win, Same
  <1>2. Same([r EXCEPT !.opacity = Faded(r)], r)
    BY Zenon DEF Restored, Win, Same
  <1> QED
    BY <1>1, <1>2 DEF RunFade, Same

------------------------------------------------------------------------------
(* TypeInv holds at the start and every action preserves it.                *)

(* find_win returns a live struct of the list that has the id.              *)
LEMMA StructsType ==
  ASSUME TypeOK
  PROVE  /\ Structs \subseteq Ptr
         /\ \A p \in Ptr : win[p] \in Win
         /\ \A id \in Id : Found(id) => /\ FindWin(id) \in Structs
                                       /\ ~win[FindWin(id)].destroyed
                                       /\ win[FindWin(id)].id = id
  <1>1. Structs \subseteq Ptr
    BY DEF TypeOK, Structs, ToSet
  <1>2. ASSUME NEW id \in Id, Found(id)
        PROVE  FindWin(id) \in Structs /\ IsLiveOf(FindWin(id), id)
    BY <1>2, Zenon DEF Found, FindWin
  <1> QED
    BY <1>1, <1>2 DEF TypeOK, IsLiveOf, Live

(* TypeInv holds when session_init begins.                                  *)
LEMMA TypeInit ==
  ASSUME Init PROVE TypeInv
  <1>1. ServerTypeOK
    BY MaxQueueAssumption DEF Init, ServerInit, ServerTypeOK, Place
  <1>2. win \in [Ptr -> Win]
    BY WinDefType, Zenon DEF Init
  <1>3. TypeOK
    <2>1. list \in Seq(Ptr) /\ steps \in 0 .. MaxSteps
      BY WindowsAssumption DEF Init
    <2>2. /\ activeWin \in Ptr \cup {Null} /\ cur \in Ptr \cup {Null}
          /\ t \in Ptr \cup {Null} /\ allDamage \in BOOLEAN /\ redirected \in BOOLEAN
          /\ idling \in BOOLEAN /\ evReceived \in BOOLEAN /\ boot \in BOOLEAN
          /\ pc \in {"init", "loop", "pre", "paint", "post"}
      BY Zenon DEF Init
    <2> QED
      BY <1>1, <1>2, <2>1, <2>2, Zenon DEF TypeOK
  <1>4. CallbackOK
    BY DEF Init, CallbackOK, WinDef
  <1> QED
    BY <1>3, <1>4 DEF TypeInv, CursorOK, Init

(* What a step may do to the callbacks without breaking CallbackOK.         *)
LEMMA CallbackPreserved ==
  ASSUME CallbackOK, Structs' = Structs,
         \A p \in Ptr : /\ win'[p].cb = "destroy" => \/ win'[p].destroyed
                                                     \/ /\ win[p].cb = "destroy"
                                                        /\ win'[p].destroyed = win[p].destroyed
                        /\ win'[p].cb # win[p].cb => win'[p].cb = "none" \/ p \in Structs
  PROVE  CallbackOK'
  BY DEF CallbackOK

(* win_set_focused changes no field of Same and focuses a viewable struct.  *)
LEMMA SetFocusedType ==
  ASSUME NEW m \in [Ptr -> Win], NEW f \in Ptr, SetFocused(m, f)
  PROVE  /\ win' \in [Ptr -> Win]
         /\ activeWin' = activeWin \/ (activeWin' = f /\ m[f].viewable)
         /\ \A p \in Ptr : Same(win'[p], m[p])
  <1>1. \A p \in Ptr : Same(m[p], m[p])
    BY DEF Same
  <1>2. CASE m[f].viewable /\ activeWin # f
    <2>1. PICK o \in ViewTargets, o2 \in ViewTargets :
            win' = [p \in Ptr |-> CASE p = f -> OpacityChanged(m[p], o)
                                    [] p = activeWin -> OpacityChanged(m[p], o2)
                                    [] OTHER -> m[p]]
      BY <1>2, Zenon DEF SetFocused
    <2>2. \A p \in Ptr : /\ OpacityChanged(m[p], o) \in Win
                         /\ OpacityChanged(m[p], o2) \in Win
                         /\ Same(OpacityChanged(m[p], o), m[p])
                         /\ Same(OpacityChanged(m[p], o2), m[p])
      BY OpacityChangedType, OpacityChangedFields
    <2>3. \A p \in Ptr : win'[p] \in Win /\ Same(win'[p], m[p])
      BY <1>1, <2>1, <2>2
    <2>4. win' \in [Ptr -> Win]
      BY <2>1, <2>3
    <2>5. activeWin' = f
      BY <1>2 DEF SetFocused
    <2> QED
      BY <1>2, <2>3, <2>4, <2>5
  <1>3. CASE ~(m[f].viewable /\ activeWin # f)
    BY <1>1, <1>3 DEF SetFocused
  <1> QED
    BY <1>2, <1>3

(* recheck_focus focuses only live, viewable structs of the list.           *)
LEMMA RecheckFocusType ==
  ASSUME TypeOK, NEW m \in [Ptr -> Win], RecheckFocus(m)
  PROVE  /\ win' \in [Ptr -> Win]
         /\ \/ activeWin' = activeWin
            \/ /\ activeWin' \in Structs
               /\ m[activeWin'].viewable /\ ~m[activeWin'].destroyed
         /\ \A p \in Ptr : Same(win'[p], m[p])
  <1>1. CASE activeWin' = activeWin /\ win' = m
    BY <1>1 DEF Same
  <1>2. CASE \E f \in Structs : ~m[f].destroyed /\ SetFocused(m, f)
    <2>1. PICK f \in Structs : ~m[f].destroyed /\ SetFocused(m, f)
      BY <1>2
    <2>2. f \in Ptr
      BY StructsType
    <2> QED
      BY <2>1, <2>2, SetFocusedType
  <1> QED
    BY <1>1, <1>2 DEF RecheckFocus

(* The handlers: what they do to the structs.                               *)
LEMMA MapWinType ==
  ASSUME TypeInv, NEW id \in Id, MapWin(id)
  PROVE  /\ win' \in [Ptr -> Win] /\ list' = list
         /\ activeWin' \in Ptr \cup {Null}
         /\ allDamage' \in BOOLEAN /\ idling' \in BOOLEAN
         /\ \A p \in Ptr : /\ win'[p].destroyed = win[p].destroyed
                           /\ win'[p].cb = win[p].cb \/ (win'[p].cb = "map" /\ p \in Structs)
  <1> USE DEF TypeInv
  <1>1. CASE Found(id) /\ ~win[FindWin(id)].viewable
    <2> DEFINE p == FindWin(id)
    <2>1. PICK o \in ViewTargets :
            LET m == [win EXCEPT ![p] = Mapped(@, o)]
            IN  /\ IF TrackFocus THEN RecheckFocus(m)
                   ELSE activeWin' = activeWin /\ win' = m
                /\ allDamage' = (allDamage \/ (/\ win[p].cb = "unmap"
                                               /\ win[p].extents /\ redirected))
                /\ idling' = (idling /\ win[p].cb = "none")
                /\ UNCHANGED list
      BY <1>1, Zenon DEF MapWin
    <2> DEFINE m == [win EXCEPT ![p] = Mapped(@, o)]
    <2>2. p \in Structs /\ p \in Ptr /\ win[p] \in Win
      BY <1>1, StructsType
    <2>3. /\ Mapped(win[p], o) \in Win /\ Mapped(win[p], o).cb = "map"
          /\ Mapped(win[p], o).destroyed = win[p].destroyed
      BY <2>2, MappedType, MappedFields
    <2> HIDE DEF p
    <2>4. /\ m \in [Ptr -> Win]
          /\ \A q \in Ptr : /\ m[q].destroyed = win[q].destroyed
                            /\ m[q].cb = win[q].cb \/ (m[q].cb = "map" /\ q \in Structs)
      BY <2>2, <2>3 DEF TypeOK
    <2>5. CASE TrackFocus
      <3>1. RecheckFocus(m)
        BY <2>1, <2>5
      <3> HIDE DEF m
      <3>2. /\ win' \in [Ptr -> Win]
            /\ activeWin' = activeWin \/ activeWin' \in Structs
            /\ \A q \in Ptr : Same(win'[q], m[q])
        BY <2>4, <3>1, RecheckFocusType
      <3> QED
        BY <2>1, <2>4, <3>2, StructsType DEF Same, TypeOK
    <2>6. CASE ~TrackFocus
      <3>1. win' = m /\ activeWin' = activeWin
        BY <2>1, <2>6
      <3> HIDE DEF m
      <3> QED
        BY <2>1, <2>4, <3>1 DEF TypeOK
    <2> QED
      BY <2>5, <2>6
  <1>2. CASE ~(Found(id) /\ ~win[FindWin(id)].viewable)
    <2>1. UNCHANGED <<listVars, allDamage, idling>>
      BY <1>2 DEF MapWin
    <2> QED
      BY <2>1 DEF TypeOK, listVars
  <1> QED
    BY <1>1, <1>2

(* UnmapWin sets no destroy_callback and leaves the list alone.             *)
LEMMA UnmapWinType ==
  ASSUME TypeInv, NEW id \in Id, UnmapWin(id)
  PROVE  /\ win' \in [Ptr -> Win] /\ list' = list
         /\ activeWin' \in Ptr \cup {Null}
         /\ \A p \in Ptr : /\ win'[p].destroyed = win[p].destroyed
                           /\ win'[p].cb = win[p].cb \/ (win'[p].cb = "unmap" /\ p \in Structs)
  <1> USE DEF TypeInv
  <1>1. CASE Found(id)
    <2> DEFINE p == FindWin(id)
    <2>1. PICK valid \in BOOLEAN :
            /\ win' = [win EXCEPT ![p] = Unmapped(@, valid)]
            /\ activeWin' = IF activeWin = p /\ win[p].viewable THEN Null ELSE activeWin
            /\ UNCHANGED list
      BY <1>1, Zenon DEF UnmapWin
    <2>2. p \in Structs /\ p \in Ptr /\ win[p] \in Win
      BY <1>1, StructsType
    <2>3. /\ Unmapped(win[p], valid) \in Win
          /\ Unmapped(win[p], valid).cb = win[p].cb \/ Unmapped(win[p], valid).cb = "unmap"
          /\ Unmapped(win[p], valid).destroyed = win[p].destroyed
      BY <2>2, UnmappedType, UnmappedFields
    <2> HIDE DEF p
    <2> QED
      BY <2>1, <2>2, <2>3 DEF TypeOK
  <1>2. CASE ~Found(id)
    BY <1>2 DEF UnmapWin, TypeOK, listVars
  <1> QED
    BY <1>1, <1>2

(* DestroyWin sets destroy_callback only with destroyed.                    *)
LEMMA DestroyWinType ==
  ASSUME TypeInv, NEW id \in Id, DestroyWin(id)
  PROVE  /\ win' \in [Ptr -> Win] /\ list' = list
         /\ activeWin' \in Ptr \cup {Null}
         /\ \A p \in Ptr : \/ win'[p] = win[p]
                           \/ /\ p \in Structs
                              /\ win'[p].cb = "destroy" /\ win'[p].destroyed
  <1> USE DEF TypeInv
  <1>1. CASE Found(id)
    <2> DEFINE p == FindWin(id)
    <2>1. PICK valid \in BOOLEAN :
            /\ win' = [win EXCEPT ![p] = Destroyed(@, valid)]
            /\ activeWin' = IF activeWin = p /\ win[p].viewable THEN Null ELSE activeWin
            /\ UNCHANGED list
      BY <1>1, Zenon DEF DestroyWin
    <2>2. p \in Structs /\ p \in Ptr /\ win[p] \in Win
      BY <1>1, StructsType
    <2>3. /\ Destroyed(win[p], valid) \in Win
          /\ Destroyed(win[p], valid).cb = "destroy" /\ Destroyed(win[p], valid).destroyed
      BY <2>2, DestroyedType, DestroyedFields
    <2> HIDE DEF p
    <2> QED
      BY <2>1, <2>2, <2>3 DEF TypeOK
  <1>2. CASE ~Found(id)
    BY <1>2 DEF DestroyWin, TypeOK, listVars
  <1> QED
    BY <1>1, <1>2

(* AddWin puts at most one struct on the list, which is live.               *)
LEMMA AddWinType ==
  ASSUME TypeInv, NEW id \in Id, AddWin(id)
  PROVE  /\ win' \in [Ptr -> Win] /\ list' \in Seq(Ptr)
         /\ activeWin' \in Ptr \cup {Null}
         /\ Structs \subseteq ToSet(list')
         /\ \A p \in Ptr : \/ /\ win'[p].destroyed = win[p].destroyed
                              /\ win'[p].cb = win[p].cb
                           \/ /\ p \in ToSet(list')
                              /\ win'[p].cb # "destroy"
  <1> USE DEF TypeInv
  <1>1. PICK attr \in Attributes(id) :
          IF Found(id) \/ attr = "fail"
          THEN UNCHANGED listVars
          ELSE \E p \in Ptr \ Structs, o \in ViewTargets :
                 LET new == [WinDef EXCEPT !.id = id]
                     m == [win EXCEPT ![p] = IF attr = "viewable" THEN Mapped(new, o) ELSE new]
                 IN  /\ list' = <<p>> \o list
                     /\ \/ activeWin' = activeWin /\ win' = m
                        \/ /\ attr = "viewable" /\ TrackFocus
                           /\ \E f \in Structs \cup {p} : ~m[f].destroyed /\ SetFocused(m, f)
    BY Zenon DEF AddWin
  <1>2. CASE Found(id) \/ attr = "fail"
    BY <1>1, <1>2 DEF listVars, TypeOK, Structs
  <1>3. CASE ~(Found(id) \/ attr = "fail")
    <2> DEFINE new == [WinDef EXCEPT !.id = id]
    <2>1. PICK p \in Ptr \ Structs, o \in ViewTargets :
            LET m == [win EXCEPT ![p] = IF attr = "viewable" THEN Mapped(new, o) ELSE new]
            IN  /\ list' = <<p>> \o list
                /\ \/ activeWin' = activeWin /\ win' = m
                   \/ /\ attr = "viewable" /\ TrackFocus
                      /\ \E f \in Structs \cup {p} : ~m[f].destroyed /\ SetFocused(m, f)
      BY <1>1, <1>3, Zenon
    <2> DEFINE r == IF attr = "viewable" THEN Mapped(new, o) ELSE new
               m == [win EXCEPT ![p] = r]
    <2>2. new \in Win /\ new.cb = "none" /\ ~new.destroyed
      BY WinDefType, Zenon DEF Win, WinDef
    <2> HIDE DEF new
    <2>3. r \in Win /\ r.cb # "destroy"
      BY <2>2, MappedType, MappedFields
    <2>4. /\ list' = <<p>> \o list
          /\ \/ activeWin' = activeWin /\ win' = m
             \/ \E f \in Structs \cup {p} : SetFocused(m, f)
      BY <2>1
    <2> HIDE DEF r
    <2>5. /\ m \in [Ptr -> Win] /\ m[p].cb # "destroy"
          /\ \A q \in Ptr : q # p => m[q] = win[q]
      BY <2>3 DEF TypeOK
    <2> HIDE DEF m
    <2>6. /\ win' \in [Ptr -> Win] /\ activeWin' \in Ptr \cup {Null}
          /\ \A q \in Ptr : Same(win'[q], m[q])
      <3>1. CASE activeWin' = activeWin /\ win' = m
        BY <2>5, <3>1 DEF TypeOK, Same
      <3>2. CASE \E f \in Structs \cup {p} : SetFocused(m, f)
        BY <2>5, <3>2, SetFocusedType, StructsType DEF TypeOK
      <3> QED
        BY <2>4, <3>1, <3>2
    <2>7. /\ list' \in Seq(Ptr) /\ p \in ToSet(list') /\ Structs \subseteq ToSet(list')
      <3>1. list \in Seq(Ptr) /\ p \in Ptr
        BY <2>1 DEF TypeOK
      <3>2. /\ list' \in Seq(Ptr) /\ list'[1] = p /\ Len(list') = Len(list) + 1
            /\ \A i \in 1 .. Len(list) : list'[i + 1] = list[i]
        BY <2>4, <3>1
      <3>3. \A i \in DOMAIN list : i + 1 \in DOMAIN list' /\ list'[i + 1] = list[i]
        BY <3>1, <3>2
      <3>4. 1 \in DOMAIN list'
        BY <3>1, <3>2
      <3> QED
        BY <3>2, <3>3, <3>4 DEF ToSet, Structs
    <2> QED
      BY <2>5, <2>6, <2>7 DEF Same
  <1> QED
    BY <1>2, <1>3

------------------------------------------------------------------------------
(* The actions.                                                             *)

(* The server keeps the queue well typed and bounded.                       *)
LEMMA SendsType ==
  ASSUME ServerTypeOK, NEW es \in Seq(Event), Sends(es)
  PROVE  evq' \in Seq(Event) /\ Len(evq') <= MaxQueue
  BY MaxQueueAssumption DEF ServerTypeOK, Sends

(* The sequences of events the server sends are well typed.                 *)
LEMMA EventSeqType ==
  ASSUME NEW id \in Id, NEW a \in EventType, NEW b \in EventType
  PROVE  /\ <<[type |-> a, id |-> id]>> \in Seq(Event)
         /\ <<[type |-> a, id |-> id], [type |-> b, id |-> id]>> \in Seq(Event)
  <1>1. [type |-> a, id |-> id] \in Event /\ [type |-> b, id |-> id] \in Event
    BY DEF Event
  <1> QED
    BY <1>1

(* The server's steps keep TypeInv.                                         *)
LEMMA ServerStepType ==
  ASSUME TypeInv, ServerStep PROVE TypeInv'
  <1>1. ServerTypeOK
    BY DEF TypeInv, TypeOK
  <1>2. PICK id \in Id : \/ Enter(id) \/ Map(id) \/ Unmap(id)
                         \/ \E to \in LeaveTo : Leave(id, to)
                         \/ DestroyElsewhere(id)
    BY Zenon DEF ServerStep
  <1>3. ServerTypeOK'
    <2> USE <1>1
    <2>1. {"enter", "map", "unmap", "leave"} \subseteq EventType
      BY DEF EventType
    <2>2. CASE Enter(id)
      <3>1. sv' \in [Id -> Place]
        BY <2>2 DEF Enter, ServerTypeOK, Place
      <3> QED
        BY <2>1, <2>2, <3>1, SendsType, EventSeqType DEF Enter, ServerTypeOK
    <2>3. CASE Map(id)
      <3>1. sv' \in [Id -> Place]
        BY <2>3 DEF Map, ServerTypeOK, Place
      <3> QED
        BY <2>1, <2>3, <3>1, SendsType, EventSeqType DEF Map, ServerTypeOK
    <2>4. CASE Unmap(id)
      <3>1. sv' \in [Id -> Place]
        BY <2>4 DEF Unmap, ServerTypeOK, Place
      <3> QED
        BY <2>1, <2>4, <3>1, SendsType, EventSeqType DEF Unmap, ServerTypeOK
    <2>5. CASE \E to \in LeaveTo : Leave(id, to)
      <3>1. PICK to \in LeaveTo : Leave(id, to)
        BY <2>5
      <3>2. sv' \in [Id -> Place]
        BY <3>1 DEF Leave, ServerTypeOK, Place
      <3> QED
        BY <2>1, <3>1, <3>2, SendsType, EventSeqType DEF Leave, ServerTypeOK
    <2>6. CASE DestroyElsewhere(id)
      BY <2>6 DEF DestroyElsewhere, ServerTypeOK, Place
    <2> QED
      BY <1>2, <2>2, <2>3, <2>4, <2>5, <2>6
  <1>4. UNCHANGED <<list, win, activeWin, allDamage, redirected, idling, evReceived,
                    pc, boot, steps, cur, t>>
    BY DEF ServerStep, listVars, cycleVars
  <1> QED
    BY <1>3, <1>4 DEF TypeInv, TypeOK, CallbackOK, CursorOK, Structs

(* A handler runs in the main loop and leaves the cycle's variables alone.  *)
LEMMA HandlerType ==
  ASSUME TypeInv, pc = "loop", ServerTypeOK', UNCHANGED <<redirected, cycleVars>>,
         win' \in [Ptr -> Win], list' \in Seq(Ptr), activeWin' \in Ptr \cup {Null},
         allDamage' \in BOOLEAN, idling' \in BOOLEAN, evReceived' \in BOOLEAN,
         CallbackOK'
  PROVE  TypeInv'
  <1>1. TypeOK'
    <2>1. UNCHANGED <<redirected, pc, boot, steps, cur, t>>
      BY DEF cycleVars
    <2> QED
      BY <2>1 DEF TypeInv, TypeOK
  <1>2. CursorOK'
    BY DEF CursorOK, cycleVars
  <1> QED
    BY <1>1, <1>2 DEF TypeInv

(* Handling an event of the queue keeps TypeInv.                            *)
LEMMA HandleType ==
  ASSUME TypeInv, Handle PROVE TypeInv'
  <1> DEFINE e == Head(evq)
  <1>1. e \in Event /\ e.id \in Id /\ ServerTypeOK'
    <2>1. /\ evq \in Seq(Event) /\ evq # <<>> /\ Len(evq) <= MaxQueue
          /\ sv \in [Id -> Place] /\ evq' = Tail(evq) /\ sv' = sv
      BY DEF Handle, TypeInv, TypeOK, ServerTypeOK
    <2>2. e \in Event
      BY <2>1
    <2>3. evq' \in Seq(Event) /\ Len(evq') <= MaxQueue
      BY <2>1, MaxQueueAssumption
    <2> QED
      BY <2>1, <2>2, <2>3 DEF Event, ServerTypeOK
  <1>2. /\ pc = "loop" /\ UNCHANGED <<redirected, cycleVars>> /\ evReceived' \in BOOLEAN
        /\ allDamage \in BOOLEAN /\ idling \in BOOLEAN /\ list \in Seq(Ptr)
        /\ CallbackOK
    BY DEF Handle, TypeInv, TypeOK
  <1>3. \/ AddWin(e.id) /\ UNCHANGED <<allDamage, idling>>
        \/ DestroyWin(e.id) /\ UNCHANGED <<allDamage, idling>>
        \/ MapWin(e.id)
        \/ UnmapWin(e.id) /\ UNCHANGED <<allDamage, idling>>
    BY Zenon DEF Handle
  <1> HIDE DEF e
  <1>4. CASE AddWin(e.id) /\ UNCHANGED <<allDamage, idling>>
    <2>1. /\ win' \in [Ptr -> Win] /\ list' \in Seq(Ptr)
          /\ activeWin' \in Ptr \cup {Null}
          /\ Structs \subseteq Structs'
          /\ \A p \in Ptr : \/ /\ win'[p].destroyed = win[p].destroyed
                               /\ win'[p].cb = win[p].cb
                            \/ /\ p \in Structs'
                               /\ win'[p].cb # "destroy"
      BY <1>1, <1>4, AddWinType DEF Structs
    <2>2. CallbackOK'
      BY <1>2, <2>1 DEF CallbackOK
    <2> QED
      BY <1>1, <1>2, <1>4, <2>1, <2>2, HandlerType
  <1>5. CASE DestroyWin(e.id) /\ UNCHANGED <<allDamage, idling>>
    <2>1. /\ win' \in [Ptr -> Win] /\ list' = list
          /\ activeWin' \in Ptr \cup {Null}
          /\ \A p \in Ptr : \/ win'[p] = win[p]
                            \/ /\ p \in Structs
                               /\ win'[p].cb = "destroy" /\ win'[p].destroyed
      BY <1>1, <1>5, DestroyWinType
    <2>2. CallbackOK'
      BY <1>2, <2>1 DEF CallbackOK, Structs
    <2> QED
      BY <1>1, <1>2, <1>5, <2>1, <2>2, HandlerType
  <1>6. CASE MapWin(e.id)
    <2>1. /\ win' \in [Ptr -> Win] /\ list' = list
          /\ activeWin' \in Ptr \cup {Null}
          /\ allDamage' \in BOOLEAN /\ idling' \in BOOLEAN
          /\ \A p \in Ptr : /\ win'[p].destroyed = win[p].destroyed
                            /\ win'[p].cb = win[p].cb \/ (win'[p].cb = "map" /\ p \in Structs)
      BY <1>1, <1>6, MapWinType
    <2>2. CallbackOK'
      BY <1>2, <2>1 DEF CallbackOK, Structs
    <2> QED
      BY <1>1, <1>2, <2>1, <2>2, HandlerType
  <1>7. CASE UnmapWin(e.id) /\ UNCHANGED <<allDamage, idling>>
    <2>1. /\ win' \in [Ptr -> Win] /\ list' = list
          /\ activeWin' \in Ptr \cup {Null}
          /\ \A p \in Ptr : /\ win'[p].destroyed = win[p].destroyed
                            /\ win'[p].cb = win[p].cb \/ (win'[p].cb = "unmap" /\ p \in Structs)
      BY <1>1, <1>7, UnmapWinType
    <2>2. CallbackOK'
      BY <1>2, <2>1 DEF CallbackOK, Structs
    <2> QED
      BY <1>1, <1>2, <1>7, <2>1, <2>2, HandlerType
  <1> QED
    BY <1>3, <1>4, <1>5, <1>6, <1>7

(* An event that leaves the list and the callbacks alone keeps TypeInv.     *)
LEMMA QuietEvent ==
  ASSUME TypeInv, pc = "loop", UNCHANGED <<serverVars, list, redirected, idling, cycleVars>>,
         evReceived' \in BOOLEAN, allDamage' \in BOOLEAN, activeWin' \in Ptr \cup {Null},
         win' \in [Ptr -> Win], \A p \in Ptr : Same(win'[p], win[p])
  PROVE  TypeInv'
  <1>1. ServerTypeOK'
    BY DEF TypeInv, TypeOK, ServerTypeOK, serverVars
  <1>2. list' \in Seq(Ptr) /\ idling' \in BOOLEAN /\ Structs' = Structs
    BY DEF TypeInv, TypeOK, Structs
  <1>3. CallbackOK'
    BY <1>2 DEF TypeInv, CallbackOK, Same
  <1> QED
    BY <1>1, <1>2, <1>3, HandlerType

(* So does DamageNotify, ...                                                *)
LEMMA DamageWinType ==
  ASSUME TypeInv, DamageWin PROVE TypeInv'
  <1>1. PICK p \in Structs, covered \in BOOLEAN :
          /\ win' = [win EXCEPT ![p].damaged = TRUE]
          /\ allDamage' = (allDamage \/ (redirected /\ ~covered))
    BY Zenon DEF DamageWin
  <1>2. TypeOK /\ p \in Ptr /\ win[p] \in Win
    BY StructsType DEF TypeInv
  <1> DEFINE w == [win[p] EXCEPT !.damaged = TRUE]
  <1>3. w \in Win /\ Same(w, win[p])
    BY <1>2, Zenon DEF Win, Same
  <1>4. win' = [win EXCEPT ![p] = w]
    BY <1>1
  <1> HIDE DEF w
  <1>5. win' \in [Ptr -> Win] /\ \A q \in Ptr : Same(win'[q], win[q])
    BY <1>2, <1>3, <1>4 DEF TypeOK, Same
  <1>6. allDamage' \in BOOLEAN
    BY <1>1, <1>2 DEF TypeOK
  <1> QED
    BY <1>2, <1>5, <1>6, QuietEvent DEF DamageWin, Arrives, TypeOK

(* ... a focus event, ...                                                   *)
LEMMA FocusEventType ==
  ASSUME TypeInv, FocusEvent PROVE TypeInv'
  <1>1. TypeOK /\ win \in [Ptr -> Win] /\ Structs \subseteq Ptr
    BY StructsType DEF TypeInv, TypeOK
  <1>2. /\ win' \in [Ptr -> Win] /\ activeWin' \in Ptr \cup {Null}
        /\ \A p \in Ptr : Same(win'[p], win[p])
    BY <1>1, RecheckFocusType DEF FocusEvent, TypeOK
  <1> QED
    BY <1>1, <1>2, QuietEvent DEF FocusEvent, Arrives, TypeOK

(* ... a change of opacity, ...                                             *)
LEMMA OpacityEventType ==
  ASSUME TypeInv, OpacityEvent PROVE TypeInv'
  <1>1. PICK p \in Structs, o \in ViewTargets : win' = [win EXCEPT ![p] = OpacityChanged(@, o)]
    BY Zenon DEF OpacityEvent
  <1>2. TypeOK /\ p \in Ptr /\ win[p] \in Win
    BY StructsType DEF TypeInv
  <1>3. OpacityChanged(win[p], o) \in Win /\ Same(OpacityChanged(win[p], o), win[p])
    BY <1>2, OpacityChangedType, OpacityChangedFields
  <1>4. win' \in [Ptr -> Win] /\ \A q \in Ptr : Same(win'[q], win[q])
    BY <1>1, <1>2, <1>3 DEF TypeOK, Same
  <1> QED
    BY <1>2, <1>4, QuietEvent DEF OpacityEvent, Arrives, TypeOK

(* ... and any other event.                                                 *)
LEMMA OtherEventType ==
  ASSUME TypeInv, OtherEvent PROVE TypeInv'
  <1>1. win' \in [Ptr -> Win] /\ \A q \in Ptr : Same(win'[q], win[q])
    BY DEF OtherEvent, Same, TypeInv, TypeOK
  <1>2. allDamage' \in BOOLEAN /\ activeWin' \in Ptr \cup {Null}
    BY DEF OtherEvent, TypeInv, TypeOK
  <1> QED
    BY <1>1, <1>2, QuietEvent DEF OtherEvent, Arrives

(* A step that leaves the server alone.                                     *)
LEMMA CycleType ==
  ASSUME TypeInv, UNCHANGED serverVars, list' \in Seq(Ptr), win' \in [Ptr -> Win],
         activeWin' \in Ptr \cup {Null}, allDamage' \in BOOLEAN, redirected' \in BOOLEAN,
         idling' \in BOOLEAN, evReceived' \in BOOLEAN,
         pc' \in {"init", "loop", "pre", "paint", "post"}, boot' \in BOOLEAN,
         steps' \in 0 .. MaxSteps, cur' \in Ptr \cup {Null}, t' \in Ptr \cup {Null},
         CallbackOK', CursorOK'
  PROVE  TypeInv'
  <1>1. ServerTypeOK'
    BY DEF TypeInv, TypeOK, ServerTypeOK, serverVars
  <1> QED
    BY <1>1, Zenon DEF TypeInv, TypeOK

(* Adding the windows found at startup keeps TypeInv.                       *)
LEMMA InitAddType ==
  ASSUME TypeInv, InitAdd PROVE TypeInv'
  <1>1. PICK id \in Id : AddWin(id)
    BY DEF InitAdd
  <1>2. /\ win' \in [Ptr -> Win] /\ list' \in Seq(Ptr)
        /\ activeWin' \in Ptr \cup {Null}
        /\ Structs \subseteq Structs'
        /\ \A p \in Ptr : \/ /\ win'[p].destroyed = win[p].destroyed
                             /\ win'[p].cb = win[p].cb
                          \/ /\ p \in Structs'
                             /\ win'[p].cb # "destroy"
    BY <1>1, AddWinType DEF Structs
  <1>3. CallbackOK'
    BY <1>2 DEF CallbackOK, TypeInv
  <1>4. /\ UNCHANGED <<serverVars, allDamage, redirected, idling, evReceived>>
        /\ UNCHANGED <<pc, boot, steps, cur, t>> /\ pc = "init"
    BY DEF InitAdd, cycleVars
  <1>5. CursorOK'
    BY <1>4 DEF CursorOK
  <1> QED
    BY <1>2, <1>3, <1>4, <1>5, CycleType DEF TypeInv, TypeOK

(* A walk over the list starts on the list.                                 *)
LEMMA HeadType ==
  ASSUME TypeOK
  PROVE  (IF list = <<>> THEN Null ELSE Head(list)) \in Structs \cup {Null}
  <1>1. list \in Seq(Ptr)
    BY DEF TypeOK
  <1>2. CASE list # <<>>
    <2>1. 1 \in DOMAIN list /\ Head(list) = list[1]
      BY <1>1, <1>2
    <2> QED
      BY <1>2, <2>1 DEF Structs, ToSet
  <1> QED
    BY <1>2

(* The end of session_init keeps TypeInv.                                   *)
LEMMA InitDoneType ==
  ASSUME TypeInv, InitDone PROVE TypeInv'
  <1>1. TypeOK /\ win \in [Ptr -> Win] /\ Structs \subseteq Ptr /\ CallbackOK
    BY StructsType DEF TypeInv, TypeOK
  <1>2. /\ win' \in [Ptr -> Win] /\ activeWin' \in Ptr \cup {Null}
        /\ \A p \in Ptr : Same(win'[p], win[p])
    <2>1. CASE TrackFocus
      <3>1. RecheckFocus(win)
        BY <2>1 DEF InitDone
      <3> QED
        BY <1>1, <3>1, RecheckFocusType DEF TypeOK
    <2>2. CASE ~TrackFocus
      BY <1>1, <2>2 DEF InitDone, TypeOK, Same
    <2> QED
      BY <2>1, <2>2
  <1>3. /\ UNCHANGED <<serverVars, list, allDamage, redirected, idling, evReceived, boot, steps, t>>
        /\ pc' = "pre" /\ cur' = IF list = <<>> THEN Null ELSE Head(list)
    BY DEF InitDone
  <1>4. CallbackOK'
    BY <1>1, <1>2, <1>3 DEF CallbackOK, Same, Structs
  <1>5. cur' \in Structs \cup {Null} /\ CursorOK'
    BY <1>1, <1>3, HeadType DEF CursorOK, Structs
  <1> QED
    BY <1>1, <1>2, <1>3, <1>4, <1>5, CycleType DEF TypeOK

(* The start of a paint cycle keeps TypeInv.                                *)
LEMMA BeginPaintType ==
  ASSUME TypeInv, NEW n \in 0 .. MaxSteps, BeginPaint(n) PROVE TypeInv'
  <1>1. TypeOK /\ Structs \subseteq Ptr /\ CallbackOK
    BY StructsType DEF TypeInv
  <1>2. /\ UNCHANGED <<serverVars, list, win, activeWin, allDamage, redirected, evReceived, boot>>
        /\ pc' = "pre" /\ cur' = IF list = <<>> THEN Null ELSE Head(list)
        /\ steps' = n /\ t' = Null /\ idling' = TRUE
    BY DEF BeginPaint, listVars
  <1>3. CallbackOK'
    BY <1>1, <1>2 DEF CallbackOK, Structs
  <1>4. cur' \in Structs \cup {Null} /\ CursorOK'
    BY <1>1, <1>2, HeadType DEF CursorOK, Structs
  <1> QED
    BY <1>1, <1>2, <1>3, <1>4, CycleType DEF TypeOK

------------------------------------------------------------------------------
(* The callbacks.                                                           *)

(* A nonempty set of naturals has a smallest element.                       *)
LEMMA LeastNatural ==
  ASSUME NEW T, T \subseteq Nat, T # {}
  PROVE  \E k \in T : \A j \in T : ~(j < k)
  <1> DEFINE R == OpToRel(<, Nat)
  <1>1. IsWellFoundedOn(R, Nat)
    BY NatLessThanWellFounded
  <1>2. \A x, y \in Nat : y < x => <<y, x>> \in R
    BY DEF OpToRel
  <1> HIDE DEF R
  <1>3. PICK k \in T : \A j \in T : ~(<<j, k>> \in R)
    BY <1>1, WFMin
  <1> QED
    BY <1>2, <1>3

(* The structs m after the one at v is freed.                               *)
Without(m, v) ==
  [q \in Ptr |-> IF q = v THEN WinDef
                 ELSE IF m[q].prevTrans = v THEN [m[q] EXCEPT !.prevTrans = Null]
                 ELSE m[q]]

(* finish_destroy_win finds a struct to free, the first one that matches.   *)
LEMMA FinishDestroyFirst ==
  ASSUME list \in Seq(Ptr), NEW m, NEW damage \in BOOLEAN, NEW id,
         NEW i \in DOMAIN list, m[list[i]].id = id /\ m[list[i]].destroyed,
         FinishDestroy(id, m, damage)
  PROVE  \E k \in DOMAIN list :
           /\ k <= i /\ m[list[k]].id = id /\ m[list[k]].destroyed
           /\ list' = RemoveAt(list, k)
           /\ activeWin' = IF activeWin = list[k] THEN Null ELSE activeWin
           /\ win' = Without(m, list[k])
           /\ allDamage' = (damage \/ (m[list[k]].extents /\ redirected))
  <1> DEFINE Match(j) == m[list[j]].id = id /\ m[list[j]].destroyed
             K(j) == Match(j) /\ \A l \in 1 .. j - 1 : ~Match(l)
             k == CHOOSE j \in DOMAIN list : K(j)
  <1>1. \E j \in DOMAIN list : j <= i /\ K(j)
    <2> DEFINE T == {j \in DOMAIN list : Match(j)}
    <2>1. DOMAIN list \subseteq Nat /\ i \in T
      OBVIOUS
    <2>2. T \subseteq Nat /\ T # {}
      BY <2>1
    <2>3. PICK j \in T : \A l \in T : ~(l < j)
      BY <2>2, LeastNatural
    <2>4. j <= i
      BY <2>1, <2>2, <2>3
    <2>5. \A l \in 1 .. j - 1 : l \in DOMAIN list /\ l < j
      BY <2>3
    <2>6. \A l \in 1 .. j - 1 : ~Match(l)
      BY <2>3, <2>5
    <2> QED
      BY <2>3, <2>4, <2>6
  <1>2. k \in DOMAIN list /\ K(k)
    BY <1>1, Zenon
  <1>3. k <= i
    <2>1. \A l \in 1 .. k - 1 : ~Match(l)
      BY <1>2
    <2>2. ~(i \in 1 .. k - 1)
      BY <2>1
    <2>3. DOMAIN list = 1 .. Len(list) /\ Len(list) \in Nat
      OBVIOUS
    <2> HIDE DEF k
    <2> QED
      BY <1>2, <2>2, <2>3
  <1>4. /\ list' = RemoveAt(list, k)
        /\ activeWin' = IF activeWin = list[k] THEN Null ELSE activeWin
        /\ win' = Without(m, list[k])
        /\ allDamage' = (damage \/ (m[list[k]].extents /\ redirected))
    BY Zenon DEF FinishDestroy, Without
  <1>5. Match(k)
    BY <1>2
  <1> HIDE DEF k
  <1> QED
    BY <1>2, <1>3, <1>4, <1>5

(* ... and takes no other off the list.                                     *)
LEMMA FinishDestroyType ==
  ASSUME list \in Seq(Ptr), NEW m \in [Ptr -> Win], NEW damage \in BOOLEAN, NEW id,
         redirected \in BOOLEAN, activeWin \in Ptr \cup {Null},
         NEW i \in DOMAIN list, m[list[i]].id = id /\ m[list[i]].destroyed,
         FinishDestroy(id, m, damage)
  PROVE  \E k \in DOMAIN list :
           /\ k <= i /\ m[list[k]].id = id /\ m[list[k]].destroyed
           /\ list' = RemoveAt(list, k)
           /\ activeWin' = IF activeWin = list[k] THEN Null ELSE activeWin
           /\ win' \in [Ptr -> Win]
           /\ win'[list[k]] = WinDef
           /\ \A q \in Ptr : q # list[k] => /\ win'[q].id = m[q].id
                                            /\ win'[q].viewable = m[q].viewable
                                            /\ win'[q].destroyed = m[q].destroyed
                                            /\ win'[q].cb = m[q].cb
           /\ allDamage' \in BOOLEAN
  <1>4. PICK k \in DOMAIN list :
           /\ k <= i /\ m[list[k]].id = id /\ m[list[k]].destroyed
           /\ list' = RemoveAt(list, k)
           /\ activeWin' = IF activeWin = list[k] THEN Null ELSE activeWin
           /\ win' = Without(m, list[k])
           /\ allDamage' = (damage \/ (m[list[k]].extents /\ redirected))
    BY FinishDestroyFirst
  <1>6. list[k] \in Ptr
    OBVIOUS
  <1>7. \A q \in Ptr : LET n == [m[q] EXCEPT !.prevTrans = Null] IN
          n \in Win /\ n.id = m[q].id /\ n.viewable = m[q].viewable
          /\ n.destroyed = m[q].destroyed /\ n.cb = m[q].cb
    <2>1. SUFFICES ASSUME NEW w \in Win
                   PROVE  LET n == [w EXCEPT !.prevTrans = Null] IN
                            n \in Win /\ n.id = w.id /\ n.viewable = w.viewable
                            /\ n.destroyed = w.destroyed /\ n.cb = w.cb
      OBVIOUS
    <2> QED
      BY Zenon DEF Win
  <1>8. /\ win' \in [Ptr -> Win] /\ win'[list[k]] = WinDef
        /\ \A q \in Ptr : q # list[k] => /\ win'[q].id = m[q].id
                                         /\ win'[q].viewable = m[q].viewable
                                         /\ win'[q].destroyed = m[q].destroyed
                                         /\ win'[q].cb = m[q].cb
    BY <1>4, <1>6, <1>7, WinDefType DEF Without
  <1>9. allDamage' \in BOOLEAN
    BY <1>4, Zenon
  <1> QED
    BY <1>4, <1>8, <1>9

(* check_fade_fin of a struct p that has become w.  A struct that goes is   *)
(* marked destroyed; the others keep what they are; w->next is not freed.   *)
LEMMA CheckFadeFinType ==
  ASSUME TypeInv, NEW p \in Ptr, NEW w \in Win, Same(w, win[p]),
         NEW damage \in BOOLEAN, NEW idle \in BOOLEAN, CheckFadeFin(p, w, damage, idle)
  PROVE  /\ win' \in [Ptr -> Win] /\ list' \in Seq(Ptr) /\ Structs' \subseteq Structs
         /\ activeWin' \in Ptr \cup {Null} /\ activeWin' \in {activeWin, Null}
         /\ allDamage' \in BOOLEAN /\ idling' \in BOOLEAN
         /\ \A q \in Structs : /\ q \notin Structs' => win[q].destroyed /\ activeWin' # q
                               /\ q \in Structs' /\ activeWin' = q =>
                                     /\ win'[q].viewable = win[q].viewable
                                     /\ win'[q].destroyed = win[q].destroyed
         /\ CallbackOK'
         /\ p \in Structs => NextStruct(p) \in Structs' \cup {Null}
  <1>1. /\ win \in [Ptr -> Win] /\ list \in Seq(Ptr) /\ activeWin \in Ptr \cup {Null}
        /\ redirected \in BOOLEAN /\ Structs \subseteq Ptr /\ CallbackOK
    BY StructsType DEF TypeInv, TypeOK
  <1>2. ASSUME p \in Structs
        PROVE  \E i \in DOMAIN list :
                 /\ list[i] = p
                 /\ NextStruct(p) = IF i = Len(list) THEN Null ELSE list[i + 1]
    <2>1. \E i \in DOMAIN list : list[i] = p
      BY <1>2 DEF Structs, ToSet
    <2> QED
      BY <2>1, Zenon DEF NextStruct
  <1>3. p \in Structs => NextStruct(p) \in Structs \cup {Null}
    <2>1. \A i \in DOMAIN list : i # Len(list) => i + 1 \in DOMAIN list
      BY <1>1
    <2> QED
      BY <1>2, <2>1 DEF Structs, ToSet
  <1>4. ASSUME NEW n \in Win, Same(n, w) \/ (n.cb = "none" /\ n.viewable = w.viewable
                                               /\ n.destroyed = w.destroyed),
               win' = [win EXCEPT ![p] = n],
               allDamage' \in BOOLEAN, idling' \in BOOLEAN, UNCHANGED <<list, activeWin>>
        PROVE  /\ win' \in [Ptr -> Win] /\ list' \in Seq(Ptr) /\ Structs' = Structs
               /\ \A q \in Ptr : /\ win'[q].viewable = win[q].viewable
                                 /\ win'[q].destroyed = win[q].destroyed
               /\ CallbackOK'
    <2>1. Structs' = Structs
      BY <1>4 DEF Structs
    <2> QED
      BY <1>1, <1>4, <2>1 DEF CallbackOK, Same
  <1> DEFINE none == [w EXCEPT !.cb = "none"]
  <1>5. /\ none \in Win /\ none.cb = "none" /\ none.viewable = w.viewable
        /\ none.destroyed = w.destroyed /\ none.id = w.id
    BY Zenon DEF Win, Callback
  <1> HIDE DEF none
  <1>6. CASE win' = [win EXCEPT ![p] = w] /\ allDamage' = damage /\ idling' = idle
             /\ UNCHANGED <<list, activeWin>>
    <2>1. Same(w, w)
      BY DEF Same
    <2> QED
      BY <1>1, <1>3, <1>4, <1>6, <2>1
  <1>7. CASE win' = [win EXCEPT ![p] = FinishMap(none)] /\ allDamage' = damage
             /\ idling' = FALSE /\ UNCHANGED <<list, activeWin>>
    <2>1. FinishMap(none) \in Win /\ Same(FinishMap(none), none)
      BY <1>5, FinishMapType, FinishMapFields
    <2> QED
      BY <1>1, <1>3, <1>4, <1>5, <1>7, <2>1 DEF Same
  <1>8. CASE /\ win' = [win EXCEPT ![p] = FinishUnmap(none)]
             /\ allDamage' = (damage \/ (w.extents /\ redirected)) /\ idling' = FALSE
             /\ UNCHANGED <<list, activeWin>>
    <2>1. FinishUnmap(none) \in Win /\ Same(FinishUnmap(none), none)
      BY <1>5, FinishUnmapType, FinishUnmapFields
    <2>2. allDamage' \in BOOLEAN
      BY <1>8
    <2> QED
      BY <1>1, <1>3, <1>4, <1>5, <1>8, <2>1, <2>2 DEF Same
  <1>9. CASE /\ w.cb = "destroy"
             /\ FinishDestroy(w.id, [win EXCEPT ![p] = none], damage)
             /\ idling' = FALSE
    <2> DEFINE m == [win EXCEPT ![p] = none]
    <2>1. /\ m \in [Ptr -> Win] /\ m[p] = none
          /\ \A q \in Ptr : /\ m[q].viewable = win[q].viewable
                            /\ m[q].destroyed = win[q].destroyed
                            /\ m[q].cb = win[q].cb \/ m[q].cb = "none"
      BY <1>1, <1>5 DEF Same
    <2>2. p \in Structs /\ w.destroyed
      BY <1>1, <1>9 DEF CallbackOK, Same
    <2>3. PICK i \in DOMAIN list :
            /\ list[i] = p
            /\ NextStruct(p) = IF i = Len(list) THEN Null ELSE list[i + 1]
      BY <1>2, <2>2
    <2>4. m[list[i]].id = w.id /\ m[list[i]].destroyed
      BY <1>5, <2>1, <2>2, <2>3
    <2> HIDE DEF m
    <2>5. FinishDestroy(w.id, m, damage)
      BY <1>9 DEF m
    <2>6. PICK k \in DOMAIN list :
           /\ k <= i /\ m[list[k]].id = w.id /\ m[list[k]].destroyed
           /\ list' = RemoveAt(list, k)
           /\ activeWin' = IF activeWin = list[k] THEN Null ELSE activeWin
           /\ win' \in [Ptr -> Win]
           /\ win'[list[k]] = WinDef
           /\ \A q \in Ptr : q # list[k] => /\ win'[q].id = m[q].id
                                            /\ win'[q].viewable = m[q].viewable
                                            /\ win'[q].destroyed = m[q].destroyed
                                            /\ win'[q].cb = m[q].cb
           /\ allDamage' \in BOOLEAN
      BY <1>1, <2>1, <2>4, <2>5, FinishDestroyType
    <2>7. /\ Structs' \subseteq Structs /\ list' \in Seq(Ptr)
          /\ \A j \in DOMAIN list : j # k => list[j] \in Structs'
      BY <1>1, <2>6, RemoveAtSet, RemoveAtElements DEF Structs
    <2>8. list[k] \in Ptr
      BY <1>1
    <2>9. \A q \in Structs : q \notin Structs' => q = list[k]
      BY <2>7 DEF Structs, ToSet
    <2>10. CallbackOK'
      <3>1. WinDef.cb = "none"
        BY DEF WinDef
      <3>2. SUFFICES ASSUME NEW q \in Ptr
                     PROVE  /\ win'[q].cb = "destroy" => win'[q].destroyed
                            /\ q \notin Structs' => win'[q].cb = "none"
        BY DEF CallbackOK
      <3>3. CASE q = list[k]
        BY <2>6, <3>1, <3>3
      <3>4. CASE q # list[k]
        <4>1. win'[q].cb = m[q].cb /\ win'[q].destroyed = win[q].destroyed
          BY <2>1, <2>6, <3>4
        <4>2. q \notin Structs' => q \notin Structs
          BY <2>9, <3>4
        <4> QED
          BY <1>1, <2>1, <4>1, <4>2 DEF CallbackOK
      <3> QED
        BY <3>3, <3>4
    <2>11. NextStruct(p) \in Structs' \cup {Null}
      <3>1. i # Len(list) => i + 1 \in DOMAIN list /\ i + 1 # k
        BY <1>1, <2>6
      <3> QED
        BY <2>3, <2>7, <3>1
    <2>12. \A q \in Structs : q \in Structs' /\ activeWin' = q =>
                                     /\ win'[q].viewable = win[q].viewable
                                     /\ win'[q].destroyed = win[q].destroyed
      <3>1. SUFFICES ASSUME NEW q \in Structs, activeWin' = q
                     PROVE  /\ win'[q].viewable = win[q].viewable
                            /\ win'[q].destroyed = win[q].destroyed
        OBVIOUS
      <3>2. q \in Ptr /\ q # list[k]
        BY <1>1, <2>6, <3>1, WindowsAssumption
      <3> QED
        BY <2>1, <2>6, <3>2
    <2>13. \A q \in Structs : q \notin Structs' => win[q].destroyed /\ activeWin' # q
      BY <1>1, <2>1, <2>6, <2>8, <2>9, WindowsAssumption
    <2> QED
      BY <1>1, <1>9, <2>2, <2>6, <2>7, <2>10, <2>11, <2>12, <2>13
  <1> QED
    BY <1>6, <1>7, <1>8, <1>9, Zenon DEF CheckFadeFin, none

------------------------------------------------------------------------------
(* The paint cycle.                                                         *)

(* The struct of a window that is not painted stays well typed and keeps    *)
(* the fields of Same.                                                      *)
LEMMA SkippedStruct ==
  ASSUME TypeInv, cur \in Ptr
  PROVE  LET f == RunFade(win[cur])
             w == [f EXCEPT !.toPaint = (f.destroyed /\ f.opacity = f.tgt) /\ @]
         IN  w \in Win /\ Same(w, win[cur])
  <1> DEFINE f == RunFade(win[cur])
             b == (f.destroyed /\ f.opacity = f.tgt) /\ f.toPaint
  <1>1. win[cur] \in Win /\ steps \in 0 .. MaxSteps
    BY DEF TypeInv, TypeOK
  <1>2. f \in Win /\ Same(f, win[cur])
    BY <1>1, RunFadeType, RunFadeFields
  <1>3. b \in BOOLEAN
    OBVIOUS
  <1> HIDE DEF f
  <1>4. [f EXCEPT !.toPaint = b] \in Win /\ Same([f EXCEPT !.toPaint = b], f)
    <2> HIDE DEF b
    <2> QED
      BY <1>2, <1>3, Zenon DEF Win, Same
  <1> QED
    BY <1>2, <1>4, Zenon DEF f, Same

(* The struct of a window that is painted stays well typed and keeps all    *)
(* fields of Same but prev_trans.                                           *)
LEMMA ShownStruct ==
  ASSUME TypeInv, cur \in Ptr
  PROVE  LET f == RunFade(win[cur])
             done == f.destroyed /\ f.opacity = f.tgt
             w == [f EXCEPT !.extents = TRUE, !.opctChange = FALSE, !.prevTrans = t,
                            !.toPaint = done => @,
                            !.fadeLast = IF done THEN @ ELSE f.fade]
         IN  /\ w \in Win /\ w.id = win[cur].id /\ w.destroyed = win[cur].destroyed
             /\ w.viewable = win[cur].viewable /\ w.cb = win[cur].cb
  <1> DEFINE f == RunFade(win[cur])
             b == (f.destroyed /\ f.opacity = f.tgt) => f.toPaint
             l == IF f.destroyed /\ f.opacity = f.tgt THEN f.fadeLast ELSE f.fade
             w == [f EXCEPT !.extents = TRUE, !.opctChange = FALSE, !.prevTrans = t,
                            !.toPaint = b, !.fadeLast = l]
  <1>1. win[cur] \in Win /\ steps \in 0 .. MaxSteps /\ t \in Ptr \cup {Null}
    BY DEF TypeInv, TypeOK
  <1>2. f \in Win /\ Same(f, win[cur])
    BY <1>1, RunFadeType, RunFadeFields
  <1> HIDE DEF f
  <1>3. b \in BOOLEAN /\ l \in BOOLEAN
    <2>1. f.fade \in BOOLEAN /\ f.fadeLast \in BOOLEAN
      BY <1>2, Zenon DEF Win
    <2> QED
      BY <2>1
  <1>4. /\ w \in Win /\ w.id = f.id /\ w.destroyed = f.destroyed
        /\ w.viewable = f.viewable /\ w.cb = f.cb
    <2> HIDE DEF b, l
    <2>1. LET x == [f EXCEPT !.extents = TRUE, !.opctChange = FALSE, !.prevTrans = t]
          IN  x \in Win /\ Same([x EXCEPT !.prevTrans = f.prevTrans], f)
              /\ x.id = f.id /\ x.destroyed = f.destroyed
              /\ x.viewable = f.viewable /\ x.cb = f.cb
      BY <1>1, <1>2, Zenon DEF Win, Same
    <2>2. \A x \in Win : LET y == [x EXCEPT !.toPaint = b, !.fadeLast = l]
                         IN  y \in Win /\ Same(y, x)
      BY <1>3, Zenon DEF Win, Same
    <2> QED
      BY <2>1, <2>2, Zenon DEF Same
  <1> QED
    BY <1>2, <1>4, Zenon DEF f, Same

(* w->next of a struct of the list is on the list.                          *)
LEMMA NextStructType ==
  ASSUME TypeOK, cur \in Structs PROVE NextStruct(cur) \in Structs \cup {Null}
  <1>1. list \in Seq(Ptr)
    BY DEF TypeOK
  <1>2. \E i \in DOMAIN list : list[i] = cur
    BY DEF Structs, ToSet
  <1>3. PICK i \in DOMAIN list :
          NextStruct(cur) = IF i = Len(list) THEN Null ELSE list[i + 1]
    BY <1>2, Zenon DEF NextStruct
  <1>4. i # Len(list) => i + 1 \in DOMAIN list
    BY <1>1
  <1> QED
    BY <1>3, <1>4 DEF Structs, ToSet

(* The actions of the paint cycle keep TypeInv: a window that is painted,   *)
(* ...                                                                      *)
LEMMA PreprocessShownType ==
  ASSUME TypeInv, PreprocessShown PROVE TypeInv'
  <1> DEFINE f == RunFade(win[cur])
             done == f.destroyed /\ f.opacity = f.tgt
             w == [f EXCEPT !.extents = TRUE, !.opctChange = FALSE, !.prevTrans = t,
                            !.toPaint = done => @,
                            !.fadeLast = IF done THEN @ ELSE f.fade]
  <1>1. /\ TypeOK /\ Structs \subseteq Ptr /\ CallbackOK /\ win \in [Ptr -> Win]
        /\ cur \in Structs /\ cur \in Ptr
    BY StructsType DEF TypeInv, TypeOK, CursorOK, PreprocessShown
  <1>2. /\ w \in Win /\ w.id = win[cur].id /\ w.destroyed = win[cur].destroyed
        /\ w.viewable = win[cur].viewable /\ w.cb = win[cur].cb
    BY <1>1, ShownStruct, Zenon
  <1>3. /\ UNCHANGED <<serverVars, list, activeWin, redirected, evReceived, pc, boot, steps>>
        /\ cur' = NextStruct(cur) /\ t' = cur
        /\ win' = [win EXCEPT ![cur] = w]
        /\ allDamage' = DamageOf(cur, w, TRUE)
        /\ idling' = IdleOf(w)
    BY Zenon DEF PreprocessShown
  <1> HIDE DEF w
  <1>4. allDamage' \in BOOLEAN /\ idling' \in BOOLEAN
    BY <1>3, Zenon DEF DamageOf, IdleOf
  <1>5. win' \in [Ptr -> Win] /\ Structs' = Structs /\ CallbackOK'
    <2>1. Structs' = Structs
      BY <1>3 DEF Structs
    <2> QED
      BY <1>1, <1>2, <1>3, <2>1 DEF CallbackOK
  <1>6. cur' \in Structs \cup {Null} /\ CursorOK'
    BY <1>1, <1>3, <1>5, NextStructType DEF CursorOK
  <1> QED
    BY <1>1, <1>3, <1>4, <1>5, <1>6, CycleType DEF TypeOK

(* The step of a skipped window is that of its callback.                    *)
LEMMA SkippedStep ==
  ASSUME TypeInv, PreprocessSkipped
  PROVE  /\ cur \in Structs /\ cur \in Ptr
         /\ \E w \in Win, damage, idle \in BOOLEAN :
              Same(w, win[cur]) /\ CheckFadeFin(cur, w, damage, idle)
  <1> DEFINE f == RunFade(win[cur])
             w == [f EXCEPT !.toPaint = (f.destroyed /\ f.opacity = f.tgt) /\ @]
  <1>1. cur \in Structs /\ cur \in Ptr
    BY StructsType DEF TypeInv, TypeOK, CursorOK, PreprocessSkipped
  <1>2. w \in Win /\ Same(w, win[cur])
    BY <1>1, SkippedStruct, Zenon
  <1>3. CheckFadeFin(cur, w, DamageOf(cur, w, FALSE), IdleOf(w))
    BY Zenon DEF PreprocessSkipped
  <1> HIDE DEF w
  <1>4. DamageOf(cur, w, FALSE) \in BOOLEAN /\ IdleOf(w) \in BOOLEAN
    BY Zenon DEF DamageOf, IdleOf
  <1> QED
    BY <1>1, <1>2, <1>3, <1>4

(* ... one that is not, and may be freed, ...                               *)
LEMMA PreprocessSkippedType ==
  ASSUME TypeInv, PreprocessSkipped PROVE TypeInv'
  <1>1. PICK w \in Win, damage \in BOOLEAN, idle \in BOOLEAN :
          /\ cur \in Structs /\ cur \in Ptr
          /\ Same(w, win[cur]) /\ CheckFadeFin(cur, w, damage, idle)
    BY SkippedStep
  <1>2. /\ win' \in [Ptr -> Win] /\ list' \in Seq(Ptr) /\ Structs' \subseteq Structs
        /\ activeWin' \in Ptr \cup {Null}
        /\ allDamage' \in BOOLEAN /\ idling' \in BOOLEAN
        /\ CallbackOK' /\ NextStruct(cur) \in Structs' \cup {Null}
    BY <1>1, CheckFadeFinType
  <1>3. /\ UNCHANGED <<serverVars, redirected, evReceived, pc, boot, steps, t>>
        /\ cur' = NextStruct(cur)
    BY DEF PreprocessSkipped
  <1>4. Structs \subseteq Ptr
    BY StructsType DEF TypeInv
  <1> QED
    BY <1>2, <1>3, <1>4, CycleType DEF TypeInv, TypeOK, CursorOK

(* ... the decision to redirect, ...                                        *)
LEMMA EndPreprocessType ==
  ASSUME TypeInv, EndPreprocess PROVE TypeInv'
  <1>1. /\ TypeOK /\ CallbackOK /\ win \in [Ptr -> Win]
        /\ redirected \in BOOLEAN /\ allDamage \in BOOLEAN /\ t \in Ptr \cup {Null}
    BY DEF TypeInv, TypeOK
  <1>2. /\ UNCHANGED <<serverVars, list, activeWin, idling, evReceived, boot, steps, t>>
        /\ redirected' \in Redirected
        /\ win' = IF redirected /\ ~redirected'
                  THEN [p \in Ptr |-> [win[p] EXCEPT !.pixmap = FALSE]] ELSE win
        /\ allDamage' = (redirected' /\ (allDamage \/ ~redirected))
        /\ pc' = "paint" /\ cur' = IF allDamage' THEN t ELSE Null
    BY DEF EndPreprocess
  <1>3. redirected' \in BOOLEAN /\ allDamage' \in BOOLEAN
    BY <1>1, <1>2 DEF Redirected
  <1>4. \A w \in Win : [w EXCEPT !.pixmap = FALSE] \in Win
                       /\ Same([w EXCEPT !.pixmap = FALSE], w)
    BY Zenon DEF Win, Same
  <1>5. win' \in [Ptr -> Win] /\ \A p \in Ptr : Same(win'[p], win[p])
    <2>1. \A p \in Ptr : Same(win[p], win[p])
      BY DEF Same
    <2> QED
      BY <1>1, <1>2, <1>4, <2>1
  <1>6. CallbackOK' /\ CursorOK'
    <2>1. Structs' = Structs
      BY <1>2 DEF Structs
    <2> QED
      BY <1>1, <1>2, <1>5, <2>1 DEF CallbackOK, CursorOK, Same
  <1>7. cur' \in Ptr \cup {Null} /\ pc' \in {"init", "loop", "pre", "paint", "post"}
    BY <1>1, <1>2
  <1>8. UNCHANGED <<list, activeWin, idling, evReceived, boot, steps, t>>
    BY <1>2
  <1> QED
    BY <1>1, <1>2, <1>3, <1>5, <1>6, <1>7, <1>8, CycleType DEF TypeOK

(* ... the painting of a window, ...                                        *)
LEMMA PaintWinType ==
  ASSUME TypeInv, PaintWin PROVE TypeInv'
  <1>1. /\ TypeOK /\ CallbackOK /\ win \in [Ptr -> Win] /\ cur \in Ptr /\ win[cur] \in Win
    BY DEF TypeInv, TypeOK, PaintWin
  <1>2. PICK seen \in BOOLEAN : win' = [win EXCEPT ![cur].pixmap = @ \/ seen]
    BY Zenon DEF PaintWin
  <1>3. /\ UNCHANGED <<serverVars, list, activeWin, allDamage, redirected, idling,
                       evReceived, pc, boot, steps, t>>
        /\ pc = "paint" /\ cur' = win[cur].prevTrans
    BY DEF PaintWin
  <1> DEFINE b == win[cur].pixmap \/ seen
             w == [win[cur] EXCEPT !.pixmap = b]
  <1>4. b \in BOOLEAN
    OBVIOUS
  <1>5. win' = [win EXCEPT ![cur] = w]
    BY <1>2
  <1> HIDE DEF b
  <1>6. w \in Win /\ Same(w, win[cur]) /\ win[cur].prevTrans \in Ptr \cup {Null}
    BY <1>1, <1>4, Zenon DEF Win, Same
  <1> HIDE DEF w
  <1>7. win' \in [Ptr -> Win] /\ CallbackOK' /\ CursorOK'
    <2>1. Structs' = Structs
      BY <1>3 DEF Structs
    <2> QED
      BY <1>1, <1>3, <1>5, <1>6, <2>1 DEF CallbackOK, CursorOK, Same
  <1> QED
    BY <1>1, <1>3, <1>6, <1>7, CycleType DEF TypeOK

(* ... the end of the painting, ...                                         *)
LEMMA EndPaintType ==
  ASSUME TypeInv, EndPaint PROVE TypeInv'
  <1>1. /\ UNCHANGED <<serverVars, list, win, activeWin, allDamage, redirected, idling,
                       evReceived, boot, steps, t>>
        /\ pc' = "post" /\ cur' = IF allDamage THEN t ELSE Null
    BY DEF EndPaint, listVars
  <1>2. CallbackOK' /\ CursorOK'
    BY <1>1 DEF TypeInv, CallbackOK, CursorOK, Structs
  <1> QED
    BY <1>1, <1>2, CycleType DEF TypeInv, TypeOK

(* ... the callbacks after it, ...                                          *)
LEMMA PostPaintType ==
  ASSUME TypeInv, PostPaint PROVE TypeInv'
  <1>1. /\ TypeOK /\ cur \in Ptr /\ win[cur] \in Win /\ allDamage \in BOOLEAN
        /\ idling \in BOOLEAN
    BY DEF TypeInv, TypeOK, PostPaint
  <1>2. /\ UNCHANGED <<serverVars, redirected, evReceived, pc, boot, steps, t>>
        /\ CheckFadeFin(cur, win[cur], allDamage, idling)
        /\ pc = "post" /\ cur' = win[cur].prevTrans
    BY DEF PostPaint
  <1>3. Same(win[cur], win[cur]) /\ win[cur].prevTrans \in Ptr \cup {Null}
    BY <1>1, Zenon DEF Same, Win
  <1>4. /\ win' \in [Ptr -> Win] /\ list' \in Seq(Ptr)
        /\ activeWin' \in Ptr \cup {Null}
        /\ allDamage' \in BOOLEAN /\ idling' \in BOOLEAN /\ CallbackOK'
    BY <1>1, <1>2, <1>3, CheckFadeFinType
  <1>5. CursorOK'
    BY <1>2 DEF CursorOK
  <1> QED
    BY <1>1, <1>2, <1>3, <1>4, <1>5, CycleType DEF TypeOK

(* ... and the return to the main loop.                                     *)
LEMMA EndCycleType ==
  ASSUME TypeInv, EndCycle PROVE TypeInv'
  <1>1. /\ UNCHANGED <<serverVars, list, win, activeWin, redirected, cur>>
        /\ pc' = "loop" /\ evReceived' = FALSE /\ boot' = FALSE
        /\ steps' = 0 /\ t' = Null
    BY DEF EndCycle, listVars
  <1>2. allDamage' \in BOOLEAN /\ idling' \in BOOLEAN
    BY DEF EndCycle
  <1>3. CallbackOK' /\ CursorOK'
    BY <1>1 DEF TypeInv, CallbackOK, CursorOK, Structs
  <1>4. steps' \in 0 .. MaxSteps
    BY <1>1, WindowsAssumption
  <1> QED
    BY <1>1, <1>2, <1>3, <1>4, CycleType DEF TypeInv, TypeOK

(* Every step keeps TypeInv.                                                *)
LEMMA TypeStep ==
  ASSUME TypeInv, [Next]_vars PROVE TypeInv'
  <1>1. CASE UNCHANGED vars
    <2>1. UNCHANGED <<serverVars, list, win, activeWin, allDamage, redirected, idling,
                      evReceived, pc, boot, steps, cur, t>>
      BY <1>1 DEF vars, listVars, cycleVars
    <2>2. CallbackOK' /\ CursorOK'
      BY <2>1 DEF TypeInv, CallbackOK, CursorOK, Structs
    <2> QED
      BY <2>1, <2>2, CycleType DEF TypeInv, TypeOK
  <1>2. CASE Next
    BY <1>2, InitAddType, InitDoneType, ServerStepType, HandleType, DamageWinType,
       FocusEventType, OpacityEventType, OtherEventType, BeginPaintType,
       PreprocessShownType, PreprocessSkippedType, EndPreprocessType,
       PaintWinType, EndPaintType, PostPaintType, EndCycleType
       DEF Next, Preprocess, Paint
  <1> QED
    BY <1>1, <1>2

(* Every reachable state has its type, whatever the windows, the addresses, *)
(* the opacity levels and the order of the events are.                      *)
THEOREM TypeCorrect == Spec => []TypeOK
  <1>1. Init => TypeInv
    BY TypeInit
  <1>2. TypeInv /\ [Next]_vars => TypeInv'
    BY TypeStep
  <1>3. TypeInv => TypeOK
    BY DEF TypeInv
  <1> QED
    BY <1>1, <1>2, <1>3, PTL DEF Spec

------------------------------------------------------------------------------
(* The focus.  FocusIsViewable is inductive together with TypeInv: every    *)
(* action that takes a window's viewability or its struct away takes the    *)
(* focus from it in the same step.                                          *)

(* After recheck_focus the focus is on a viewable window if it was before.  *)
LEMMA FocusRecheck ==
  ASSUME TypeOK, NEW m \in [Ptr -> Win], RecheckFocus(m), Structs' = Structs,
         activeWin # Null => /\ activeWin \in Structs
                             /\ m[activeWin].viewable /\ ~m[activeWin].destroyed
  PROVE  FocusIsViewable'
  <1>1. Structs \subseteq Ptr
    BY StructsType
  <1>2. /\ \/ activeWin' = activeWin
           \/ /\ activeWin' \in Structs
              /\ m[activeWin'].viewable /\ ~m[activeWin'].destroyed
        /\ \A p \in Ptr : Same(win'[p], m[p])
    BY RecheckFocusType
  <1> QED
    BY <1>1, <1>2 DEF FocusIsViewable, Live, Same

(* map_win keeps FocusIsViewable, ...                                       *)
LEMMA MapWinFocus ==
  ASSUME TypeInv, FocusIsViewable, NEW id \in Id, MapWin(id) PROVE FocusIsViewable'
  <1> USE DEF TypeInv
  <1>1. CASE Found(id) /\ ~win[FindWin(id)].viewable
    <2> DEFINE p == FindWin(id)
    <2>1. PICK o \in ViewTargets :
            LET m == [win EXCEPT ![p] = Mapped(@, o)]
            IN  /\ IF TrackFocus THEN RecheckFocus(m)
                   ELSE activeWin' = activeWin /\ win' = m
                /\ allDamage' = (allDamage \/ (/\ win[p].cb = "unmap"
                                               /\ win[p].extents /\ redirected))
                /\ idling' = (idling /\ win[p].cb = "none")
                /\ UNCHANGED list
      BY <1>1, Zenon DEF MapWin
    <2> DEFINE m == [win EXCEPT ![p] = Mapped(@, o)]
    <2>2. p \in Structs /\ p \in Ptr /\ win[p] \in Win
      BY <1>1, StructsType
    <2>3. /\ Mapped(win[p], o) \in Win /\ Mapped(win[p], o).viewable
          /\ Mapped(win[p], o).destroyed = win[p].destroyed
      BY <2>2, MappedType, MappedFields
    <2> HIDE DEF p
    <2>4. /\ m \in [Ptr -> Win]
          /\ \A q \in Ptr : /\ m[q].destroyed = win[q].destroyed
                            /\ win[q].viewable => m[q].viewable
      BY <2>2, <2>3 DEF TypeOK
    <2>5. Structs' = Structs /\ Structs \subseteq Ptr
      BY <2>1, StructsType DEF Structs
    <2>6. activeWin # Null => /\ activeWin \in Structs
                              /\ m[activeWin].viewable /\ ~m[activeWin].destroyed
      BY <2>4, <2>5 DEF FocusIsViewable, Live
    <2>7. CASE TrackFocus
      <3>1. RecheckFocus(m)
        BY <2>1, <2>7
      <3> HIDE DEF m
      <3> QED
        BY <2>4, <2>5, <2>6, <3>1, FocusRecheck
    <2>8. CASE ~TrackFocus
      <3>1. win' = m /\ activeWin' = activeWin
        BY <2>1, <2>8
      <3> HIDE DEF m
      <3> QED
        BY <2>5, <2>6, <3>1 DEF FocusIsViewable, Live
    <2> QED
      BY <2>7, <2>8
  <1>2. CASE ~(Found(id) /\ ~win[FindWin(id)].viewable)
    BY <1>2 DEF MapWin, listVars, FocusIsViewable, Live, Structs
  <1> QED
    BY <1>1, <1>2

(* unmap_win and destroy_win: the window loses the focus if it is viewable; *)
(* if it is not it cannot have it.                                          *)
LEMMA LoseFocus ==
  ASSUME TypeOK, FocusIsViewable, NEW p \in Ptr, NEW w,
         win' = [win EXCEPT ![p] = w], UNCHANGED list,
         activeWin' = IF activeWin = p /\ win[p].viewable THEN Null ELSE activeWin
  PROVE  FocusIsViewable'
  BY DEF TypeOK, FocusIsViewable, Live, Structs

(* ... unmap_win, which takes the focus away first, ...                     *)
LEMMA UnmapWinFocus ==
  ASSUME TypeInv, FocusIsViewable, NEW id \in Id, UnmapWin(id) PROVE FocusIsViewable'
  <1>1. CASE Found(id)
    <2>1. PICK valid \in BOOLEAN :
            /\ win' = [win EXCEPT ![FindWin(id)] = Unmapped(@, valid)]
            /\ activeWin' = IF activeWin = FindWin(id) /\ win[FindWin(id)].viewable
                            THEN Null ELSE activeWin
            /\ UNCHANGED list
      BY <1>1, Zenon DEF UnmapWin
    <2>2. FindWin(id) \in Ptr /\ TypeOK
      BY <1>1, StructsType DEF TypeInv
    <2> QED
      BY <2>1, <2>2, LoseFocus
  <1>2. CASE ~Found(id)
    BY <1>2 DEF UnmapWin, listVars, FocusIsViewable, Live, Structs
  <1> QED
    BY <1>1, <1>2

(* ... destroy_win, which calls it, ...                                     *)
LEMMA DestroyWinFocus ==
  ASSUME TypeInv, FocusIsViewable, NEW id \in Id, DestroyWin(id) PROVE FocusIsViewable'
  <1>1. CASE Found(id)
    <2>1. PICK valid \in BOOLEAN :
            /\ win' = [win EXCEPT ![FindWin(id)] = Destroyed(@, valid)]
            /\ activeWin' = IF activeWin = FindWin(id) /\ win[FindWin(id)].viewable
                            THEN Null ELSE activeWin
            /\ UNCHANGED list
      BY <1>1, Zenon DEF DestroyWin
    <2>2. FindWin(id) \in Ptr /\ TypeOK
      BY <1>1, StructsType DEF TypeInv
    <2> QED
      BY <2>1, <2>2, LoseFocus
  <1>2. CASE ~Found(id)
    BY <1>2 DEF DestroyWin, listVars, FocusIsViewable, Live, Structs
  <1> QED
    BY <1>1, <1>2

(* ... and add_win.                                                         *)
LEMMA AddWinFocus ==
  ASSUME TypeInv, FocusIsViewable, NEW id \in Id, AddWin(id) PROVE FocusIsViewable'
  <1> USE DEF TypeInv
  <1>1. PICK attr \in Attributes(id) :
          IF Found(id) \/ attr = "fail"
          THEN UNCHANGED listVars
          ELSE \E p \in Ptr \ Structs, o \in ViewTargets :
                 LET new == [WinDef EXCEPT !.id = id]
                     m == [win EXCEPT ![p] = IF attr = "viewable" THEN Mapped(new, o) ELSE new]
                 IN  /\ list' = <<p>> \o list
                     /\ \/ activeWin' = activeWin /\ win' = m
                        \/ /\ attr = "viewable" /\ TrackFocus
                           /\ \E f \in Structs \cup {p} : ~m[f].destroyed /\ SetFocused(m, f)
    BY Zenon DEF AddWin
  <1>2. CASE Found(id) \/ attr = "fail"
    BY <1>1, <1>2 DEF listVars, FocusIsViewable, Live, Structs
  <1>3. CASE ~(Found(id) \/ attr = "fail")
    <2> DEFINE new == [WinDef EXCEPT !.id = id]
    <2>1. PICK p \in Ptr \ Structs, o \in ViewTargets :
            LET m == [win EXCEPT ![p] = IF attr = "viewable" THEN Mapped(new, o) ELSE new]
            IN  /\ list' = <<p>> \o list
                /\ \/ activeWin' = activeWin /\ win' = m
                   \/ /\ attr = "viewable" /\ TrackFocus
                      /\ \E f \in Structs \cup {p} : ~m[f].destroyed /\ SetFocused(m, f)
      BY <1>1, <1>3, Zenon
    <2> DEFINE r == IF attr = "viewable" THEN Mapped(new, o) ELSE new
               m == [win EXCEPT ![p] = r]
    <2>2. new \in Win
      BY WinDefType, Zenon DEF Win, WinDef
    <2> HIDE DEF new
    <2>3. r \in Win
      BY <2>2, MappedType
    <2>4. /\ list' = <<p>> \o list
          /\ \/ activeWin' = activeWin /\ win' = m
             \/ \E f \in Structs \cup {p} : ~m[f].destroyed /\ SetFocused(m, f)
      BY <2>1
    <2> HIDE DEF r
    <2>5. m \in [Ptr -> Win] /\ \A q \in Ptr : q # p => m[q] = win[q]
      BY <2>3 DEF TypeOK
    <2> HIDE DEF m
    <2>6. Structs \subseteq Structs' /\ p \in Structs'
      <3>1. list \in Seq(Ptr) /\ p \in Ptr
        BY <2>1 DEF TypeOK
      <3>2. /\ list' \in Seq(Ptr) /\ list'[1] = p /\ Len(list') = Len(list) + 1
            /\ \A i \in 1 .. Len(list) : list'[i + 1] = list[i]
        BY <2>4, <3>1
      <3>3. \A i \in DOMAIN list : i + 1 \in DOMAIN list' /\ list'[i + 1] = list[i]
        BY <3>1, <3>2
      <3>4. 1 \in DOMAIN list'
        BY <3>1, <3>2
      <3> QED
        BY <3>2, <3>3, <3>4 DEF ToSet, Structs
    <2>7. Structs \subseteq Ptr /\ p \notin Structs /\ p \in Ptr
      BY <2>1, StructsType
    <2>8. CASE activeWin' = activeWin /\ win' = m
      BY <2>5, <2>6, <2>7, <2>8 DEF FocusIsViewable, Live
    <2>9. CASE \E f \in Structs \cup {p} : ~m[f].destroyed /\ SetFocused(m, f)
      <3>1. PICK f \in Structs \cup {p} : ~m[f].destroyed /\ SetFocused(m, f)
        BY <2>9
      <3>2. /\ activeWin' = activeWin \/ (activeWin' = f /\ m[f].viewable)
            /\ \A q \in Ptr : Same(win'[q], m[q])
        BY <2>5, <2>7, <3>1, SetFocusedType
      <3> QED
        BY <2>5, <2>6, <2>7, <3>1, <3>2 DEF FocusIsViewable, Live, Same
    <2> QED
      BY <2>4, <2>8, <2>9
  <1> QED
    BY <1>2, <1>3

(* Any step that changes neither the focus nor viewable and destroyed keeps *)
(* it.                                                                      *)
LEMMA FocusKept ==
  ASSUME TypeOK, FocusIsViewable, UNCHANGED <<list, activeWin>>,
         \A p \in Ptr : win'[p].viewable = win[p].viewable
                        /\ win'[p].destroyed = win[p].destroyed
  PROVE  FocusIsViewable'
  <1>1. Structs' = Structs /\ Structs \subseteq Ptr
    BY StructsType DEF Structs
  <1> QED
    BY <1>1 DEF FocusIsViewable, Live

(* check_fade_fin frees only a destroyed struct, which has no focus.        *)
LEMMA CheckFadeFinFocus ==
  ASSUME TypeInv, FocusIsViewable, NEW p \in Ptr, NEW w \in Win, Same(w, win[p]),
         NEW damage \in BOOLEAN, NEW idle \in BOOLEAN, CheckFadeFin(p, w, damage, idle)
  PROVE  FocusIsViewable'
  <1>1. /\ activeWin' \in {activeWin, Null}
        /\ \A q \in Structs : /\ q \notin Structs' => win[q].destroyed /\ activeWin' # q
                              /\ q \in Structs' /\ activeWin' = q =>
                                     /\ win'[q].viewable = win[q].viewable
                                     /\ win'[q].destroyed = win[q].destroyed
    BY CheckFadeFinType
  <1> QED
    BY <1>1 DEF FocusIsViewable, Live

(* Every step keeps FocusIsViewable.                                        *)
LEMMA FocusStep ==
  ASSUME TypeInv, FocusIsViewable, [Next]_vars PROVE FocusIsViewable'
  <1>1. /\ TypeOK /\ win \in [Ptr -> Win] /\ Structs \subseteq Ptr
        /\ activeWin \in Ptr \cup {Null}
    BY StructsType DEF TypeInv, TypeOK
  <1>2. CASE UNCHANGED vars
    BY <1>1, <1>2, FocusKept DEF vars, listVars
  <1>3. CASE InitAdd
    BY <1>3, AddWinFocus DEF InitAdd
  <1>4. CASE InitDone
    <2>1. Structs' = Structs
      BY <1>4 DEF InitDone, Structs
    <2>2. CASE TrackFocus
      BY <1>1, <1>4, <2>1, <2>2, FocusRecheck DEF InitDone, FocusIsViewable, Live
    <2>3. CASE ~TrackFocus
      BY <1>1, <1>4, <2>3, FocusKept DEF InitDone
    <2> QED
      BY <2>2, <2>3
  <1>5. CASE ServerStep
    BY <1>1, <1>5, FocusKept DEF ServerStep, listVars
  <1>6. CASE Handle
    <2>1. Head(evq).id \in Id
      <3>1. evq \in Seq(Event) /\ evq # <<>>
        BY <1>1, <1>6 DEF Handle, TypeOK, ServerTypeOK
      <3>2. Head(evq) \in Event
        BY <3>1
      <3> QED
        BY <3>2 DEF Event
    <2>2. \/ AddWin(Head(evq).id) \/ DestroyWin(Head(evq).id)
          \/ MapWin(Head(evq).id) \/ UnmapWin(Head(evq).id)
      BY <1>6, Zenon DEF Handle
    <2> QED
      BY <2>1, <2>2, AddWinFocus, DestroyWinFocus, MapWinFocus, UnmapWinFocus
  <1>7. CASE DamageWin
    <2>1. PICK p \in Structs : win' = [win EXCEPT ![p].damaged = TRUE]
      BY <1>7, Zenon DEF DamageWin
    <2>2. \A w \in Win : Same([w EXCEPT !.damaged = TRUE], w)
      BY Zenon DEF Win, Same
    <2>3. \A q \in Ptr : win'[q].viewable = win[q].viewable
                         /\ win'[q].destroyed = win[q].destroyed
      BY <1>1, <2>1, <2>2 DEF Same
    <2> QED
      BY <1>1, <1>7, <2>3, FocusKept DEF DamageWin, Arrives
  <1>8. CASE FocusEvent
    <2>1. Structs' = Structs
      BY <1>8 DEF FocusEvent, Arrives, Structs
    <2> QED
      BY <1>1, <1>8, <2>1, FocusRecheck DEF FocusEvent, FocusIsViewable, Live
  <1>9. CASE OpacityEvent
    <2>1. PICK p \in Structs, o \in ViewTargets : win' = [win EXCEPT ![p] = OpacityChanged(@, o)]
      BY <1>9, Zenon DEF OpacityEvent
    <2>2. Same(OpacityChanged(win[p], o), win[p])
      BY <1>1, <2>1, OpacityChangedFields
    <2>3. \A q \in Ptr : win'[q].viewable = win[q].viewable
                         /\ win'[q].destroyed = win[q].destroyed
      BY <1>1, <2>1, <2>2 DEF Same
    <2> QED
      BY <1>1, <1>9, <2>3, FocusKept DEF OpacityEvent, Arrives
  <1>10. CASE OtherEvent
    BY <1>1, <1>10, FocusKept DEF OtherEvent, Arrives
  <1>11. CASE \E n \in 0 .. MaxSteps : BeginPaint(n)
    BY <1>1, <1>11, FocusKept DEF BeginPaint, listVars
  <1>12. CASE PreprocessShown
    <2> DEFINE f == RunFade(win[cur])
               done == f.destroyed /\ f.opacity = f.tgt
               w == [f EXCEPT !.extents = TRUE, !.opctChange = FALSE, !.prevTrans = t,
                              !.toPaint = done => @,
                              !.fadeLast = IF done THEN @ ELSE f.fade]
    <2>1. cur \in Ptr
      BY <1>1, <1>12 DEF PreprocessShown, TypeOK
    <2>2. win' = [win EXCEPT ![cur] = w] /\ UNCHANGED <<list, activeWin>>
      BY <1>12, Zenon DEF PreprocessShown
    <2>3. w.destroyed = win[cur].destroyed /\ w.viewable = win[cur].viewable
      BY <2>1, ShownStruct, Zenon
    <2> HIDE DEF w
    <2>4. \A q \in Ptr : win'[q].viewable = win[q].viewable
                         /\ win'[q].destroyed = win[q].destroyed
      BY <1>1, <2>1, <2>2, <2>3
    <2> QED
      BY <1>1, <2>2, <2>4, FocusKept
  <1>13. CASE PreprocessSkipped
    <2>1. PICK w \in Win, damage \in BOOLEAN, idle \in BOOLEAN :
            /\ cur \in Structs /\ cur \in Ptr
            /\ Same(w, win[cur]) /\ CheckFadeFin(cur, w, damage, idle)
      BY <1>13, SkippedStep
    <2> QED
      BY <2>1, CheckFadeFinFocus
  <1>14. CASE EndPreprocess
    <2>1. \A w \in Win : Same([w EXCEPT !.pixmap = FALSE], w)
      BY Zenon DEF Win, Same
    <2>2. \A p \in Ptr : win'[p].viewable = win[p].viewable
                         /\ win'[p].destroyed = win[p].destroyed
      BY <1>1, <1>14, <2>1 DEF EndPreprocess, Same
    <2> QED
      BY <1>1, <1>14, <2>2, FocusKept DEF EndPreprocess
  <1>15. CASE PaintWin
    <2>1. \A w \in Win : \A b \in BOOLEAN : Same([w EXCEPT !.pixmap = b], w)
      BY Zenon DEF Win, Same
    <2>2. PICK seen \in BOOLEAN : win' = [win EXCEPT ![cur].pixmap = @ \/ seen]
      BY <1>15, Zenon DEF PaintWin
    <2>3. \A p \in Ptr : win'[p].viewable = win[p].viewable
                         /\ win'[p].destroyed = win[p].destroyed
      BY <1>1, <2>1, <2>2 DEF Same
    <2> QED
      BY <1>1, <1>15, <2>3, FocusKept DEF PaintWin
  <1>16. CASE EndPaint
    BY <1>1, <1>16, FocusKept DEF EndPaint, listVars
  <1>17. CASE PostPaint
    <2>1. cur \in Ptr /\ allDamage \in BOOLEAN /\ idling \in BOOLEAN
      BY <1>1, <1>17 DEF PostPaint, TypeOK
    <2>2. Same(win[cur], win[cur])
      BY DEF Same
    <2> QED
      BY <1>1, <1>17, <2>1, <2>2, CheckFadeFinFocus DEF PostPaint
  <1>18. CASE EndCycle
    BY <1>1, <1>18, FocusKept DEF EndCycle, listVars
  <1> QED
    BY <1>2, <1>3, <1>4, <1>5, <1>6, <1>7, <1>8, <1>9, <1>10, <1>11, <1>12, <1>13,
       <1>14, <1>15, <1>16, <1>17, <1>18 DEF Next, Preprocess, Paint

(* ps->active_win is a live, viewable window in every reachable state: no   *)
(* order of map, unmap, reparent and focus events and no fade callback      *)
(* leaves the focus on a window that is not shown or on a freed struct.     *)
THEOREM FocusSafe == Spec => []FocusIsViewable
  <1>1. Init => TypeInv /\ FocusIsViewable
    <2>1. Init => activeWin = Null
      BY DEF Init
    <2> QED
      BY <2>1, TypeInit DEF FocusIsViewable
  <1>2. TypeInv /\ FocusIsViewable /\ [Next]_vars => (TypeInv /\ FocusIsViewable)'
    BY TypeStep, FocusStep
  <1> QED
    BY <1>1, <1>2, PTL DEF Spec

------------------------------------------------------------------------------
(* What the steps do to the structs, in the terms of the invariants below.  *)

(* All the fields but those that only a paint cycle changes, and those of   *)
(* the pixmap and of the fade flags: all of them kept, or the opacity to be *)
(* recalculated.                                                            *)
Still(v, w) ==
  /\ Same(v, w) /\ v.opacity = w.opacity /\ v.tgt = w.tgt
  /\ v.opctChange = w.opctChange /\ v.want = w.want
Quiet(v, w) ==
  /\ Same(v, w) /\ v.opacity = w.opacity /\ v.tgt = w.tgt
  /\ w.opctChange => v.opctChange

(* A window that is not viewable is on its way to opacity 0, or will be.    *)
WinOK(w) ==
  /\ w.destroyed => ~w.viewable
  /\ w.cb = "unmap" => ~w.viewable
  /\ ~w.viewable => w.opctChange \/ w.tgt = 0

LEMMA StillQuiet ==
  /\ \A w : Still(w, w) /\ Quiet(w, w)
  /\ \A v, w : Still(v, w) => Quiet(v, w)
  /\ \A u, v, w : Still(u, v) /\ Still(v, w) => Still(u, w)
  /\ \A u, v, w : Quiet(u, v) /\ Quiet(v, w) => Quiet(u, w)
  /\ \A v, w : Quiet(v, w) /\ WinOK(w) => WinOK(v)
  BY DEF Still, Quiet, Same, WinOK

LEMMA DetermineFadeStill ==
  ASSUME NEW w \in Win PROVE Still(DetermineFade(w), w)
  <1>1. Still([w EXCEPT !.fade = FALSE, !.fadeLast = FALSE], w)
    BY DEF Win, Still, Same
  <1>2. Still([w EXCEPT !.fade = w.id \in Fading], w)
    BY DEF Win, Still, Same
  <1>3. Still(w, w)
    BY DEF Still, Same
  <1> QED
    BY <1>1, <1>2, <1>3, Zenon DEF DetermineFade

LEMMA FinishMapStill ==
  ASSUME NEW w \in Win PROVE Still(FinishMap(w), w)
  <1> DEFINE m == [w EXCEPT !.inOpenclose = FALSE]
  <1>1. m \in Win /\ Still(m, w)
    BY Zenon DEF Win, Still, Same
  <1> HIDE DEF m
  <1>2. Still(DetermineFade(m), m)
    BY <1>1, DetermineFadeStill
  <1>3. Still(DetermineFade(m), w)
    BY <1>1, <1>2 DEF Still, Same
  <1> QED
    BY <1>1, <1>3, Zenon DEF FinishMap, m

LEMMA FinishUnmapStill ==
  ASSUME NEW w \in Win PROVE Still(FinishUnmap(w), w)
  BY Zenon DEF FinishUnmap, Win, Still, Same

LEMMA OpacityChangedQuiet ==
  ASSUME NEW w \in Win, NEW o PROVE Quiet(OpacityChanged(w, o), w)
  BY Zenon DEF OpacityChanged, Win, Quiet, Same

LEMMA PixmapStill ==
  ASSUME NEW w \in Win, NEW b
  PROVE  Still([w EXCEPT !.pixmap = b], w) /\ Still([w EXCEPT !.damaged = b], w)
  BY Zenon DEF Win, Still, Same

(* map_win keeps a window on its way, unmap_win and destroy_win send it.    *)
LEMMA MappedOK ==
  ASSUME NEW w \in Win, NEW o \in ViewTargets, ~w.destroyed
  PROVE  WinOK(Mapped(w, o))
  BY MappedFields DEF WinOK

LEMMA UnmappedOK ==
  ASSUME NEW w \in Win, NEW valid \in BOOLEAN, WinOK(w)
  PROVE  WinOK(Unmapped(w, valid))
  <1> DEFINE x == [w EXCEPT !.viewable = FALSE, !.opctChange = TRUE,
                            !.cb = "unmap", !.inOpenclose = TRUE]
             u == DetermineFade(x)
  <1>1. x \in Win /\ x.opctChange
    BY Zenon DEF Win, Callback
  <1> HIDE DEF x
  <1>2. u \in Win /\ u.opctChange
    BY <1>1, DetermineFadeType, DetermineFadeStill DEF Still
  <1> HIDE DEF u
  <1>3. [u EXCEPT !.pixmap = @ /\ (u.fade => valid)].opctChange
    BY <1>2, Zenon DEF Win
  <1>4. ~Unmapped(w, valid).viewable
    BY UnmappedFields
  <1>5. CASE w.viewable
    <2>1. Unmapped(w, valid) = [u EXCEPT !.pixmap = @ /\ (u.fade => valid)]
      BY <1>5, Zenon DEF Unmapped, u, x
    <2> QED
      BY <1>3, <1>4, <2>1 DEF WinOK
  <1>6. CASE ~w.viewable
    BY <1>6, UnmappedFields
  <1> QED
    BY <1>5, <1>6

LEMMA DestroyedOK ==
  ASSUME NEW w \in Win, NEW valid \in BOOLEAN, WinOK(w)
  PROVE  WinOK(Destroyed(w, valid))
  <1> DEFINE u == Unmapped(w, valid)
             x == [u EXCEPT !.destroyed = TRUE]
             d == DetermineFade(x)
             r == [d EXCEPT !.cb = "destroy"]
  <1>1. u \in Win /\ WinOK(u) /\ ~u.viewable
    BY UnmappedType, UnmappedOK, UnmappedFields
  <1> HIDE DEF u
  <1>2. x \in Win /\ (x.opctChange \/ x.tgt = 0)
    <2>1. x \in Win /\ x.opctChange = u.opctChange /\ x.tgt = u.tgt
      BY <1>1, Zenon DEF Win
    <2> QED
      BY <1>1, <2>1 DEF WinOK
  <1> HIDE DEF x
  <1>3. d \in Win /\ Still(d, x)
    BY <1>2, DetermineFadeType, DetermineFadeStill
  <1> HIDE DEF d
  <1>4. r.opctChange = d.opctChange /\ r.tgt = d.tgt
    BY <1>3, Zenon DEF Win
  <1>5. Destroyed(w, valid) = r
    BY Zenon DEF Destroyed, u, x, d
  <1> HIDE DEF r
  <1> QED
    BY <1>2, <1>3, <1>4, <1>5, DestroyedFields DEF WinOK, Still

(* The handlers.                                                            *)
LEMMA SetFocusedQuiet ==
  ASSUME NEW m \in [Ptr -> Win], NEW f \in Ptr, SetFocused(m, f)
  PROVE  \A p \in Ptr : Quiet(win'[p], m[p])
  <1>1. CASE m[f].viewable /\ activeWin # f
    <2>1. PICK o \in ViewTargets, o2 \in ViewTargets :
            win' = [p \in Ptr |-> CASE p = f -> OpacityChanged(m[p], o)
                                    [] p = activeWin -> OpacityChanged(m[p], o2)
                                    [] OTHER -> m[p]]
      BY <1>1, Zenon DEF SetFocused
    <2>2. \A p \in Ptr : /\ Quiet(OpacityChanged(m[p], o), m[p])
                         /\ Quiet(OpacityChanged(m[p], o2), m[p])
                         /\ Quiet(m[p], m[p])
      BY OpacityChangedQuiet, StillQuiet
    <2> QED
      BY <2>1, <2>2
  <1>2. CASE ~(m[f].viewable /\ activeWin # f)
    BY <1>2, StillQuiet DEF SetFocused
  <1> QED
    BY <1>1, <1>2

LEMMA RecheckFocusQuiet ==
  ASSUME TypeOK, NEW m \in [Ptr -> Win], RecheckFocus(m)
  PROVE  \A p \in Ptr : Quiet(win'[p], m[p])
  <1>1. CASE activeWin' = activeWin /\ win' = m
    BY <1>1, StillQuiet
  <1>2. CASE \E f \in Structs : ~m[f].destroyed /\ SetFocused(m, f)
    BY <1>2, StructsType, SetFocusedQuiet
  <1> QED
    BY <1>1, <1>2 DEF RecheckFocus

LEMMA MapWinEffect ==
  ASSUME TypeInv, NEW id \in Id, MapWin(id)
  PROVE  /\ list' = list
         /\ \A q \in Ptr :
              \/ Quiet(win'[q], win[q])
              \/ /\ Found(id) /\ q = FindWin(id) /\ WinOK(win'[q])
                 /\ win'[q].viewable /\ win'[q].cb = "map" /\ ~win'[q].destroyed
                 /\ win'[q].id = win[q].id /\ win'[q].prevTrans = win[q].prevTrans
         /\ Found(id) => win'[FindWin(id)].viewable
  <1> USE DEF TypeInv
  <1>1. CASE Found(id) /\ ~win[FindWin(id)].viewable
    <2> DEFINE p == FindWin(id)
    <2>1. PICK o \in ViewTargets :
            LET m == [win EXCEPT ![p] = Mapped(@, o)]
            IN  /\ IF TrackFocus THEN RecheckFocus(m)
                   ELSE activeWin' = activeWin /\ win' = m
                /\ allDamage' = (allDamage \/ (/\ win[p].cb = "unmap"
                                               /\ win[p].extents /\ redirected))
                /\ idling' = (idling /\ win[p].cb = "none")
                /\ UNCHANGED list
      BY <1>1, Zenon DEF MapWin
    <2> DEFINE m == [win EXCEPT ![p] = Mapped(@, o)]
    <2>2. p \in Structs /\ p \in Ptr /\ win[p] \in Win /\ ~win[p].destroyed
      BY <1>1, StructsType
    <2>3. /\ Mapped(win[p], o) \in Win /\ WinOK(Mapped(win[p], o))
          /\ Mapped(win[p], o).cb = "map" /\ Mapped(win[p], o).viewable
          /\ ~Mapped(win[p], o).destroyed /\ Mapped(win[p], o).id = win[p].id
          /\ Mapped(win[p], o).prevTrans = win[p].prevTrans
      BY <2>2, MappedType, MappedOK, MappedFields
    <2> HIDE DEF p
    <2>4. /\ m \in [Ptr -> Win] /\ m[p] = Mapped(win[p], o)
          /\ \A q \in Ptr : q # p => m[q] = win[q]
      BY <2>2, <2>3 DEF TypeOK
    <2>5. \A q \in Ptr : Quiet(win'[q], m[q])
      <3>1. CASE TrackFocus
        <4>1. RecheckFocus(m)
          BY <2>1, <3>1
        <4> HIDE DEF m
        <4> QED
          BY <2>4, <4>1, RecheckFocusQuiet
      <3>2. CASE ~TrackFocus
        BY <2>1, <3>2, StillQuiet
      <3> QED
        BY <3>1, <3>2
    <2> HIDE DEF m
    <2>6. WinOK(win'[p])
      BY <2>2, <2>3, <2>4, <2>5, StillQuiet
    <2>7. \A q \in Ptr : q # p => Quiet(win'[q], win[q])
      BY <2>4, <2>5
    <2>8. /\ win'[p].viewable /\ win'[p].cb = "map" /\ ~win'[p].destroyed
          /\ win'[p].id = win[p].id /\ win'[p].prevTrans = win[p].prevTrans
      BY <2>2, <2>3, <2>4, <2>5 DEF Quiet, Same
    <2> QED
      BY <1>1, <2>1, <2>6, <2>7, <2>8 DEF p
  <1>2. CASE ~(Found(id) /\ ~win[FindWin(id)].viewable)
    <2>1. UNCHANGED <<list, win>>
      BY <1>2 DEF MapWin, listVars
    <2> QED
      BY <1>2, <2>1, StillQuiet
  <1> QED
    BY <1>1, <1>2

LEMMA UnmapWinEffect ==
  ASSUME TypeInv, \A p \in Ptr : WinOK(win[p]), NEW id \in Id, UnmapWin(id)
  PROVE  /\ list' = list
         /\ \A q \in Ptr :
              \/ win'[q] = win[q]
              \/ /\ Found(id) /\ q = FindWin(id) /\ WinOK(win'[q])
                 /\ ~win'[q].viewable /\ win'[q].cb = "unmap" /\ ~win'[q].destroyed
                 /\ win'[q].id = win[q].id /\ win'[q].prevTrans = win[q].prevTrans
         /\ Found(id) => ~win'[FindWin(id)].viewable
  <1> USE DEF TypeInv
  <1>1. CASE Found(id)
    <2> DEFINE p == FindWin(id)
    <2>1. PICK valid \in BOOLEAN : /\ win' = [win EXCEPT ![p] = Unmapped(@, valid)]
                                   /\ UNCHANGED list
      BY <1>1, Zenon DEF UnmapWin
    <2>2. p \in Ptr /\ win[p] \in Win /\ ~win[p].destroyed
      BY <1>1, StructsType
    <2> DEFINE u == Unmapped(win[p], valid)
    <2>3. /\ WinOK(u) /\ ~u.viewable /\ ~u.destroyed /\ u.id = win[p].id
          /\ u.prevTrans = win[p].prevTrans /\ (u = win[p] \/ u.cb = "unmap")
      BY <2>2, UnmappedFields, UnmappedOK
    <2>4. win' = [win EXCEPT ![p] = u]
      BY <2>1
    <2> HIDE DEF p, u
    <2>5. win'[p] = u /\ \A q \in Ptr : q # p => win'[q] = win[q]
      BY <2>2, <2>4 DEF TypeOK
    <2> QED
      BY <1>1, <2>1, <2>3, <2>5 DEF p
  <1>2. CASE ~Found(id)
    BY <1>2 DEF UnmapWin, listVars
  <1> QED
    BY <1>1, <1>2

LEMMA DestroyWinEffect ==
  ASSUME TypeInv, \A p \in Ptr : WinOK(win[p]), NEW id \in Id, DestroyWin(id)
  PROVE  /\ list' = list
         /\ \A q \in Ptr :
              \/ win'[q] = win[q] /\ ~(Found(id) /\ q = FindWin(id))
              \/ /\ Found(id) /\ q = FindWin(id) /\ WinOK(win'[q])
                 /\ win'[q].cb = "destroy" /\ win'[q].destroyed
                 /\ win'[q].id = win[q].id /\ win'[q].prevTrans = win[q].prevTrans
  <1> USE DEF TypeInv
  <1>1. CASE Found(id)
    <2> DEFINE p == FindWin(id)
    <2>1. PICK valid \in BOOLEAN : /\ win' = [win EXCEPT ![p] = Destroyed(@, valid)]
                                   /\ UNCHANGED list
      BY <1>1, Zenon DEF DestroyWin
    <2>2. p \in Ptr /\ win[p] \in Win
      BY <1>1, StructsType
    <2> DEFINE u == Destroyed(win[p], valid)
    <2>3. /\ WinOK(u) /\ u.destroyed /\ u.cb = "destroy" /\ u.id = win[p].id
          /\ u.prevTrans = win[p].prevTrans
      BY <2>2, DestroyedFields, DestroyedOK
    <2>4. win' = [win EXCEPT ![p] = u]
      BY <2>1
    <2> HIDE DEF p, u
    <2>5. win'[p] = u /\ \A q \in Ptr : q # p => win'[q] = win[q]
      BY <2>2, <2>4 DEF TypeOK
    <2> QED
      BY <1>1, <2>1, <2>3, <2>5 DEF p
  <1>2. CASE ~Found(id)
    BY <1>2 DEF DestroyWin, listVars
  <1> QED
    BY <1>1, <1>2

LEMMA AddWinEffect ==
  ASSUME TypeInv, NEW id \in Id, AddWin(id)
  PROVE  \/ /\ UNCHANGED <<list, win>>
            /\ Found(id) \/ "fail" \in Attributes(id)
         \/ /\ ~Found(id)
            /\ \E p \in Ptr \ Structs, attr \in Attributes(id) :
                 /\ list' = <<p>> \o list
                 /\ win'[p].id = id /\ ~win'[p].destroyed /\ WinOK(win'[p])
                 /\ win'[p].cb \in {"none", "map"} /\ win'[p].prevTrans = Null
                 /\ win'[p].viewable <=> attr = "viewable"
                 /\ \A q \in Ptr : q # p => Quiet(win'[q], win[q])
  <1> USE DEF TypeInv
  <1>1. PICK attr \in Attributes(id) :
          IF Found(id) \/ attr = "fail"
          THEN UNCHANGED listVars
          ELSE \E p \in Ptr \ Structs, o \in ViewTargets :
                 LET new == [WinDef EXCEPT !.id = id]
                     m == [win EXCEPT ![p] = IF attr = "viewable" THEN Mapped(new, o) ELSE new]
                 IN  /\ list' = <<p>> \o list
                     /\ \/ activeWin' = activeWin /\ win' = m
                        \/ /\ attr = "viewable" /\ TrackFocus
                           /\ \E f \in Structs \cup {p} : ~m[f].destroyed /\ SetFocused(m, f)
    BY Zenon DEF AddWin
  <1>2. CASE Found(id) \/ attr = "fail"
    BY <1>1, <1>2 DEF listVars
  <1>3. CASE ~(Found(id) \/ attr = "fail")
    <2> DEFINE new == [WinDef EXCEPT !.id = id]
    <2>1. PICK p \in Ptr \ Structs, o \in ViewTargets :
            LET m == [win EXCEPT ![p] = IF attr = "viewable" THEN Mapped(new, o) ELSE new]
            IN  /\ list' = <<p>> \o list
                /\ \/ activeWin' = activeWin /\ win' = m
                   \/ /\ attr = "viewable" /\ TrackFocus
                      /\ \E f \in Structs \cup {p} : ~m[f].destroyed /\ SetFocused(m, f)
      BY <1>1, <1>3, Zenon
    <2> DEFINE r == IF attr = "viewable" THEN Mapped(new, o) ELSE new
               m == [win EXCEPT ![p] = r]
    <2>2. /\ new \in Win /\ new.cb = "none" /\ ~new.destroyed /\ new.id = id
          /\ new.prevTrans = Null /\ ~new.viewable /\ new.tgt = 0
      BY WinDefType, Zenon DEF Win, WinDef
    <2> HIDE DEF new
    <2>3. /\ r \in Win /\ r.cb \in {"none", "map"} /\ ~r.destroyed /\ r.id = id
          /\ r.prevTrans = Null /\ (r.viewable <=> attr = "viewable") /\ WinOK(r)
      BY <2>2, MappedType, MappedFields, MappedOK DEF WinOK
    <2>4. /\ list' = <<p>> \o list
          /\ \/ activeWin' = activeWin /\ win' = m
             \/ \E f \in Structs \cup {p} : SetFocused(m, f)
      BY <2>1
    <2> HIDE DEF r
    <2>5. /\ m \in [Ptr -> Win] /\ m[p] = r
          /\ \A q \in Ptr : q # p => m[q] = win[q]
      BY <2>3 DEF TypeOK
    <2> HIDE DEF m
    <2>6. \A q \in Ptr : Quiet(win'[q], m[q])
      <3>1. CASE activeWin' = activeWin /\ win' = m
        BY <3>1, StillQuiet
      <3>2. CASE \E f \in Structs \cup {p} : SetFocused(m, f)
        BY <2>5, <3>2, SetFocusedQuiet, StructsType DEF TypeOK
      <3> QED
        BY <2>4, <3>1, <3>2
    <2>7. WinOK(win'[p])
      BY <2>3, <2>5, <2>6, StillQuiet
    <2>8. /\ win'[p].id = id /\ ~win'[p].destroyed
          /\ win'[p].cb \in {"none", "map"} /\ win'[p].prevTrans = Null
          /\ win'[p].viewable <=> attr = "viewable"
      BY <2>3, <2>5, <2>6 DEF Quiet, Same
    <2>9. \A q \in Ptr : q # p => Quiet(win'[q], win[q])
      BY <2>5, <2>6
    <2> QED
      BY <1>3, <2>4, <2>7, <2>8, <2>9
  <1> QED
    BY <1>2, <1>3

(* The events that map, unmap or destroy nothing.                           *)
LEMMA QuietSteps ==
  ASSUME TypeInv, InitDone \/ DamageWin \/ FocusEvent \/ OpacityEvent \/ OtherEvent
  PROVE  /\ UNCHANGED <<serverVars, list, idling, t>>
         /\ \A p \in Ptr : Quiet(win'[p], win[p])
  <1>1. TypeOK /\ win \in [Ptr -> Win] /\ Structs \subseteq Ptr /\ \A p \in Ptr : win[p] \in Win
    BY StructsType DEF TypeInv, TypeOK
  <1>2. CASE InitDone
    <2>1. CASE TrackFocus
      BY <1>1, <1>2, <2>1, RecheckFocusQuiet DEF InitDone
    <2>2. CASE ~TrackFocus
      BY <1>2, <2>2, StillQuiet DEF InitDone
    <2> QED
      BY <1>2, <2>1, <2>2 DEF InitDone
  <1>3. CASE DamageWin
    <2>1. PICK p \in Structs : win' = [win EXCEPT ![p].damaged = TRUE]
      BY <1>3, Zenon DEF DamageWin
    <2> DEFINE w == [win[p] EXCEPT !.damaged = TRUE]
    <2>2. Quiet(w, win[p]) /\ win' = [win EXCEPT ![p] = w] /\ p \in Ptr
      <3>1. p \in Ptr /\ win[p] \in Win
        BY <1>1, <2>1
      <3>2. Still(w, win[p])
        BY <3>1, PixmapStill
      <3> QED
        BY <2>1, <3>1, <3>2, StillQuiet
    <2> HIDE DEF w
    <2>3. \A q \in Ptr : Quiet(win'[q], win[q])
      BY <1>1, <2>2, StillQuiet
    <2> QED
      BY <1>3, <2>3 DEF DamageWin, Arrives, cycleVars
  <1>4. CASE FocusEvent
    BY <1>1, <1>4, RecheckFocusQuiet DEF FocusEvent, Arrives, cycleVars
  <1>5. CASE OpacityEvent
    <2>1. PICK p \in Structs, o \in ViewTargets : win' = [win EXCEPT ![p] = OpacityChanged(@, o)]
      BY <1>5, Zenon DEF OpacityEvent
    <2> DEFINE w == OpacityChanged(win[p], o)
    <2>2. Quiet(w, win[p]) /\ win' = [win EXCEPT ![p] = w] /\ p \in Ptr
      BY <1>1, <2>1, OpacityChangedQuiet
    <2> HIDE DEF w
    <2>3. \A q \in Ptr : Quiet(win'[q], win[q])
      BY <1>1, <2>2, StillQuiet
    <2> QED
      BY <1>5, <2>3 DEF OpacityEvent, Arrives, cycleVars
  <1>6. CASE OtherEvent
    BY <1>6, StillQuiet DEF OtherEvent, Arrives, cycleVars
  <1> QED
    BY <1>2, <1>3, <1>4, <1>5, <1>6

(* The steps of a cycle that run no callback.                               *)
LEMMA StillSteps ==
  ASSUME TypeInv, EndPreprocess \/ PaintWin \/ EndPaint \/ EndCycle
  PROVE  /\ UNCHANGED <<serverVars, list>>
         /\ \A p \in Ptr : Still(win'[p], win[p])
  <1>1. win \in [Ptr -> Win] /\ \A p \in Ptr : win[p] \in Win
    BY DEF TypeInv, TypeOK
  <1>2. CASE EndPreprocess
    <2>1. win' = IF redirected /\ ~redirected'
                 THEN [p \in Ptr |-> [win[p] EXCEPT !.pixmap = FALSE]] ELSE win
      BY <1>2 DEF EndPreprocess
    <2>2. \A p \in Ptr : Still([win[p] EXCEPT !.pixmap = FALSE], win[p]) /\ Still(win[p], win[p])
      BY <1>1, PixmapStill, StillQuiet
    <2>3. \A p \in Ptr : Still(win'[p], win[p])
      BY <2>1, <2>2
    <2> QED
      BY <1>2, <2>3 DEF EndPreprocess
  <1>3. CASE PaintWin
    <2>1. PICK seen \in BOOLEAN : win' = [win EXCEPT ![cur].pixmap = @ \/ seen]
      BY <1>3, Zenon DEF PaintWin
    <2>2. cur \in Ptr
      BY <1>3 DEF PaintWin, TypeInv, TypeOK
    <2> DEFINE b == win[cur].pixmap \/ seen
               w == [win[cur] EXCEPT !.pixmap = b]
    <2>5. win' = [win EXCEPT ![cur] = w]
      BY <2>1
    <2> HIDE DEF b
    <2>3. Still(w, win[cur]) /\ win' = [win EXCEPT ![cur] = w]
      BY <1>1, <2>2, <2>5, PixmapStill
    <2> HIDE DEF w
    <2>4. \A p \in Ptr : Still(win'[p], win[p])
      BY <1>1, <2>2, <2>3, StillQuiet
    <2> QED
      BY <1>3, <2>4 DEF PaintWin
  <1>4. CASE EndPaint \/ EndCycle
    BY <1>4, StillQuiet DEF EndPaint, EndCycle, listVars
  <1> QED
    BY <1>2, <1>3, <1>4

(* check_fade_fin runs no callback, one that changes the struct, or frees.  *)
Unfinished(p, w, idle) ==
  /\ ~FadeFinished(w) /\ UNCHANGED <<list, activeWin>> /\ idling' = idle
  /\ win'[p] = w /\ \A q \in Ptr \ {p} : win'[q] = win[q]
Finished(p, w) ==
  /\ FadeFinished(w) /\ w.cb \in {"map", "unmap"}
  /\ UNCHANGED <<list, activeWin>> /\ ~idling'
  /\ LET n == win'[p] IN
       /\ n.id = w.id /\ n.destroyed = w.destroyed /\ n.viewable = w.viewable
       /\ n.cb = "none" /\ n.prevTrans = w.prevTrans /\ n.opacity = w.opacity
       /\ n.tgt = w.tgt /\ n.opctChange = w.opctChange /\ n.want = w.want
  /\ \A q \in Ptr \ {p} : win'[q] = win[q]
Freed(p, w) ==
  /\ FadeFinished(w) /\ w.cb = "destroy" /\ ~idling'
  /\ \E i, k \in DOMAIN list :
       /\ list[i] = p /\ k <= i /\ list' = RemoveAt(list, k)
       /\ win[list[k]].id = w.id /\ win[list[k]].destroyed
       /\ win'[list[k]] = WinDef
       /\ activeWin' = IF activeWin = list[k] THEN Null ELSE activeWin
       /\ \A q \in Ptr \ {list[k]} :
            LET v == IF q = p THEN w ELSE win[q]
            IN  /\ win'[q].id = v.id /\ win'[q].destroyed = v.destroyed
                /\ win'[q].viewable = v.viewable
                /\ win'[q].cb = (IF q = p THEN "none" ELSE v.cb)
                /\ win'[q].opacity = v.opacity /\ win'[q].tgt = v.tgt
                /\ win'[q].opctChange = v.opctChange
                /\ win'[q].prevTrans \in {v.prevTrans, Null} \ {list[k]}

LEMMA CheckFadeFinEffect ==
  ASSUME TypeInv, NEW p \in Ptr, NEW w \in Win, w.id = win[p].id,
         w.destroyed = win[p].destroyed, w.cb = win[p].cb,
         NEW damage \in BOOLEAN, NEW idle \in BOOLEAN, CheckFadeFin(p, w, damage, idle)
  PROVE  Unfinished(p, w, idle) \/ Finished(p, w) \/ Freed(p, w)
  <1>1. /\ win \in [Ptr -> Win] /\ list \in Seq(Ptr) /\ CallbackOK
        /\ \A q \in Ptr : win[q] \in Win
    BY DEF TypeInv, TypeOK
  <1> DEFINE none == [w EXCEPT !.cb = "none"]
  <1>5. none \in Win /\ none.cb = "none"
    BY Zenon DEF Win, Callback
  <1>10. /\ none.destroyed = w.destroyed /\ none.id = w.id /\ none.viewable = w.viewable
         /\ none.opacity = w.opacity /\ none.tgt = w.tgt /\ none.prevTrans = w.prevTrans
         /\ none.opctChange = w.opctChange /\ none.want = w.want
    BY Zenon DEF Win
  <1> HIDE DEF none
  <1>2. ASSUME NEW n \in Win, Still(n, none), FadeFinished(w), w.cb \in {"map", "unmap"},
               win' = [win EXCEPT ![p] = n], ~idling', UNCHANGED <<list, activeWin>>
        PROVE  Finished(p, w)
    <2>1. win'[p] = n /\ \A q \in Ptr \ {p} : win'[q] = win[q]
      BY <1>1, <1>2
    <2> QED
      BY <1>2, <1>5, <1>10, <2>1 DEF Finished, Still, Same
  <1>6. CASE ~FadeFinished(w) /\ win' = [win EXCEPT ![p] = w] /\ idling' = idle
             /\ UNCHANGED <<list, activeWin>>
    BY <1>1, <1>6 DEF Unfinished
  <1>7. CASE FadeFinished(w) /\ w.cb = "map" /\ win' = [win EXCEPT ![p] = FinishMap(none)]
             /\ idling' = FALSE /\ UNCHANGED <<list, activeWin>>
    <2>1. FinishMap(none) \in Win /\ Still(FinishMap(none), none)
      BY <1>5, FinishMapType, FinishMapStill
    <2> QED
      BY <1>2, <1>7, <2>1
  <1>8. CASE FadeFinished(w) /\ w.cb = "unmap" /\ win' = [win EXCEPT ![p] = FinishUnmap(none)]
             /\ idling' = FALSE /\ UNCHANGED <<list, activeWin>>
    <2>1. FinishUnmap(none) \in Win /\ Still(FinishUnmap(none), none)
      BY <1>5, FinishUnmapType, FinishUnmapStill
    <2> QED
      BY <1>2, <1>8, <2>1
  <1>9. CASE /\ FadeFinished(w) /\ w.cb = "destroy"
             /\ FinishDestroy(w.id, [win EXCEPT ![p] = none], damage)
             /\ idling' = FALSE
    <2> DEFINE m == [win EXCEPT ![p] = none]
    <2>1. m[p] = none /\ m \in [Ptr -> Win] /\ \A q \in Ptr \ {p} : m[q] = win[q]
      BY <1>1, <1>5
    <2>2. p \in Structs /\ w.destroyed
      BY <1>1, <1>9 DEF CallbackOK
    <2>3. PICK i \in DOMAIN list : list[i] = p
      BY <2>2 DEF Structs, ToSet
    <2>4. m[list[i]].id = w.id /\ m[list[i]].destroyed
      BY <1>10, <2>1, <2>2, <2>3
    <2>5. FinishDestroy(w.id, m, damage)
      BY <1>9
    <2> HIDE DEF m
    <2>6. PICK k \in DOMAIN list :
           /\ k <= i /\ m[list[k]].id = w.id /\ m[list[k]].destroyed
           /\ list' = RemoveAt(list, k)
           /\ activeWin' = IF activeWin = list[k] THEN Null ELSE activeWin
           /\ win' = Without(m, list[k])
      <3>1. list \in Seq(Ptr)
        BY <1>1
      <3> QED
        BY <2>3, <2>4, <2>5, <3>1, FinishDestroyFirst
    <2>7. list[k] \in Ptr /\ list[k] # Null
      BY <1>1, WindowsAssumption
    <2>8. win'[list[k]] = WinDef
      BY <2>6, <2>7 DEF Without
    <2>9. win[list[k]].id = w.id /\ win[list[k]].destroyed
      BY <1>10, <2>1, <2>2, <2>6, <2>7
    <2>10. ASSUME NEW q \in Ptr \ {list[k]}
           PROVE  /\ win'[q].id = m[q].id /\ win'[q].destroyed = m[q].destroyed
                  /\ win'[q].viewable = m[q].viewable /\ win'[q].cb = m[q].cb
                  /\ win'[q].opacity = m[q].opacity /\ win'[q].tgt = m[q].tgt
                  /\ win'[q].opctChange = m[q].opctChange
                  /\ win'[q].prevTrans \in {m[q].prevTrans, Null} \ {list[k]}
      <3>1. m[q] \in Win
        BY <2>1
      <3> DEFINE x == m[q]
                 n == [x EXCEPT !.prevTrans = Null]
      <3>2. win'[q] = IF x.prevTrans = list[k] THEN n ELSE x
        BY <2>6 DEF Without
      <3> HIDE DEF x
      <3>3. /\ n.id = x.id /\ n.destroyed = x.destroyed /\ n.viewable = x.viewable
            /\ n.cb = x.cb /\ n.opacity = x.opacity /\ n.tgt = x.tgt
            /\ n.opctChange = x.opctChange /\ n.prevTrans = Null
        <4>1. x \in Win
          BY <3>1 DEF x
        <4> QED
          BY <4>1, Zenon DEF Win
      <3> HIDE DEF n
      <3> QED
        BY <2>7, <3>2, <3>3 DEF x
    <2>11. \A q \in Ptr \ {list[k]} :
            LET v == IF q = p THEN w ELSE win[q]
            IN  /\ win'[q].id = v.id /\ win'[q].destroyed = v.destroyed
                /\ win'[q].viewable = v.viewable
                /\ win'[q].cb = (IF q = p THEN "none" ELSE v.cb)
                /\ win'[q].opacity = v.opacity /\ win'[q].tgt = v.tgt
                /\ win'[q].opctChange = v.opctChange
                /\ win'[q].prevTrans \in {v.prevTrans, Null} \ {list[k]}
      BY <1>5, <1>10, <2>1, <2>10
    <2> QED
      BY <1>9, <2>3, <2>6, <2>8, <2>9, <2>11 DEF Freed
  <1> QED
    BY <1>6, <1>7, <1>8, <1>9, Zenon DEF CheckFadeFin, none

------------------------------------------------------------------------------
(* The order of the list.                                                   *)
Distinct(s) == \A i, j \in DOMAIN s : s[i] = s[j] => i = j
Precedes(s, p, q) == \E i, j \in DOMAIN s : i < j /\ s[i] = p /\ s[j] = q

LEMMA ConsDistinct ==
  ASSUME NEW S, NEW s \in Seq(S), Distinct(s), NEW p \in S, p \notin ToSet(s)
  PROVE  /\ Distinct(<<p>> \o s) /\ ToSet(<<p>> \o s) = ToSet(s) \cup {p}
  <1> DEFINE r == <<p>> \o s
  <1>1. /\ r \in Seq(S) /\ r[1] = p /\ Len(r) = Len(s) + 1 /\ Len(s) \in Nat
        /\ \A i \in 1 .. Len(s) : r[i + 1] = s[i]
    OBVIOUS
  <1> HIDE DEF r
  <1>2. /\ DOMAIN r = 1 .. Len(s) + 1 /\ DOMAIN s = 1 .. Len(s)
        /\ \A i \in DOMAIN r : i = 1 \/ (i - 1 \in DOMAIN s /\ r[i] = s[i - 1])
    <2>1. DOMAIN r = 1 .. Len(s) + 1 /\ DOMAIN s = 1 .. Len(s)
      BY <1>1
    <2>2. ASSUME NEW i \in DOMAIN r, i # 1 PROVE i - 1 \in DOMAIN s /\ r[i] = s[i - 1]
      <3>1. i - 1 \in 1 .. Len(s) /\ (i - 1) + 1 = i
        BY <1>1, <2>1, <2>2
      <3> QED
        BY <1>1, <2>1, <3>1
    <2> QED
      BY <2>1, <2>2
  <1>3. \A i \in DOMAIN s : s[i] # p
    BY DEF ToSet
  <1>4. Distinct(r)
    <2> SUFFICES ASSUME NEW i \in DOMAIN r, NEW j \in DOMAIN r, r[i] = r[j] PROVE i = j
      BY DEF Distinct
    <2>1. i = 1 <=> j = 1
      BY <1>1, <1>2, <1>3
    <2>2. CASE i # 1
      <3>1. i - 1 = j - 1
        BY <1>2, <2>1, <2>2 DEF Distinct
      <3> QED
        BY <1>1, <1>2, <3>1
    <2> QED
      BY <2>1, <2>2
  <1>5. ToSet(r) = ToSet(s) \cup {p}
    <2>1. 1 \in DOMAIN r /\ \A i \in DOMAIN s : i + 1 \in DOMAIN r /\ r[i + 1] = s[i]
      BY <1>1, <1>2
    <2>2. \A x \in ToSet(s) \cup {p} : x \in ToSet(r)
      BY <1>1, <2>1 DEF ToSet
    <2>3. \A x \in ToSet(r) : x \in ToSet(s) \cup {p}
      BY <1>1, <1>2 DEF ToSet
    <2> QED
      BY <2>2, <2>3
  <1> QED
    BY <1>4, <1>5 DEF r

LEMMA RemoveDistinct ==
  ASSUME NEW S, NEW s \in Seq(S), Distinct(s), NEW k \in DOMAIN s
  PROVE  /\ Distinct(RemoveAt(s, k)) /\ ToSet(RemoveAt(s, k)) = ToSet(s) \ {s[k]}
         /\ \A p, q : Precedes(s, p, q) /\ p # s[k] /\ q # s[k] => Precedes(RemoveAt(s, k), p, q)
  <1> DEFINE r == RemoveAt(s, k)
  <1>1. /\ r \in Seq(S) /\ Len(r) = Len(s) - 1 /\ Len(s) \in Nat
        /\ \A i \in 1 .. Len(s) - 1 : r[i] = IF i < k THEN s[i] ELSE s[i + 1]
    BY RemoveAtElements
  <1>2. /\ ToSet(r) \subseteq ToSet(s)
        /\ \A i \in DOMAIN s : i # k => s[i] \in ToSet(r)
    BY RemoveAtSet
  <1> HIDE DEF r
  <1>3. DOMAIN r = 1 .. Len(s) - 1 /\ DOMAIN s = 1 .. Len(s) /\ k \in 1 .. Len(s)
    BY <1>1
  <1> DEFINE at(i) == IF i < k THEN i ELSE i + 1
  <1>4. \A i \in DOMAIN r : at(i) \in DOMAIN s /\ at(i) # k /\ r[i] = s[at(i)]
    BY <1>1, <1>3
  <1>5. Distinct(r)
    <2> SUFFICES ASSUME NEW i \in DOMAIN r, NEW j \in DOMAIN r, r[i] = r[j] PROVE i = j
      BY DEF Distinct
    <2>1. at(i) = at(j)
      <3> HIDE DEF at
      <3> QED
        BY <1>4 DEF Distinct
    <2> QED
      BY <1>1, <1>3, <2>1
  <1>6. s[k] \notin ToSet(r)
    <2> SUFFICES ASSUME NEW i \in DOMAIN r, r[i] = s[k] PROVE FALSE
      BY DEF ToSet
    <2> HIDE DEF at
    <2> QED
      BY <1>4 DEF Distinct
  <1>7. ToSet(r) = ToSet(s) \ {s[k]}
    BY <1>2, <1>6 DEF ToSet
  <1>8. ASSUME NEW p, NEW q, Precedes(s, p, q), p # s[k], q # s[k]
        PROVE  Precedes(r, p, q)
    <2>1. PICK i \in DOMAIN s, j \in DOMAIN s : i < j /\ s[i] = p /\ s[j] = q
      BY <1>8 DEF Precedes
    <2>2. i # k /\ j # k
      BY <1>8, <2>1
    <2> DEFINE back(m) == IF m < k THEN m ELSE m - 1
    <2>3. \A m \in DOMAIN s : m # k => back(m) \in DOMAIN r /\ at(back(m)) = m
      BY <1>1, <1>3
    <2>4. back(i) < back(j)
      BY <1>1, <1>3, <2>1, <2>2
    <2>5. r[back(i)] = p /\ r[back(j)] = q
      <3> HIDE DEF at, back
      <3> QED
        BY <1>4, <2>1, <2>2, <2>3
    <2> HIDE DEF at, back
    <2> QED
      BY <2>2, <2>3, <2>4, <2>5 DEF Precedes
  <1> QED
    BY <1>5, <1>7, <1>8 DEF r

(* w->next is the first struct behind w.                                    *)
LEMMA NextPrecedes ==
  ASSUME list \in Seq(Ptr), Distinct(list), NEW p \in Structs
  PROVE  /\ ~Precedes(list, p, p)
         /\ NextStruct(p) \in Structs \cup {Null}
         /\ \A q \in Structs : NextStruct(p) = Null \/ Precedes(list, q, NextStruct(p))
                                 <=> q = p \/ Precedes(list, q, p)
  <1>1. DOMAIN list = 1 .. Len(list) /\ Len(list) \in Nat /\ \A i \in DOMAIN list : list[i] # Null
    BY WindowsAssumption
  <1>2. PICK i \in DOMAIN list :
          list[i] = p /\ NextStruct(p) = IF i = Len(list) THEN Null ELSE list[i + 1]
    <2>1. \E i \in DOMAIN list : list[i] = p
      BY DEF Structs, ToSet
    <2> QED
      BY <2>1, Zenon DEF NextStruct
  <1>3. \A j \in DOMAIN list : list[j] = p => j = i
    BY <1>2 DEF Distinct
  <1>4. ~Precedes(list, p, p)
    <2> SUFFICES ASSUME NEW j \in DOMAIN list, NEW k \in DOMAIN list, j < k,
                        list[j] = p, list[k] = p
                 PROVE  FALSE
      BY DEF Precedes
    <2> QED
      BY <1>1, <1>3
  <1>5. ASSUME NEW j \in DOMAIN list
        PROVE  list[j] = p \/ Precedes(list, list[j], p) <=> j <= i
    <2>1. list[j] = p => j <= i
      BY <1>1, <1>3
    <2>2. Precedes(list, list[j], p) => j <= i
      <3> SUFFICES ASSUME NEW m \in DOMAIN list, NEW k \in DOMAIN list, m < k,
                          list[m] = list[j], list[k] = p
                   PROVE  j <= i
        BY DEF Precedes
      <3>1. m = j /\ k = i
        BY <1>3 DEF Distinct
      <3> QED
        BY <1>1, <3>1
    <2>3. j <= i => list[j] = p \/ Precedes(list, list[j], p)
      BY <1>1, <1>2 DEF Precedes
    <2> QED
      BY <2>1, <2>2, <2>3
  <1>6. CASE i = Len(list)
    <2>1. \A j \in DOMAIN list : j <= i
      BY <1>1, <1>6
    <2> QED
      BY <1>2, <1>4, <1>5, <1>6, <2>1 DEF Structs, ToSet
  <1>7. CASE i # Len(list)
    <2>1. i + 1 \in DOMAIN list /\ NextStruct(p) = list[i + 1]
      BY <1>1, <1>2, <1>7
    <2>2. ASSUME NEW j \in DOMAIN list
          PROVE  Precedes(list, list[j], list[i + 1]) <=> j <= i
      <3>1. j <= i => Precedes(list, list[j], list[i + 1])
        BY <1>1, <2>1 DEF Precedes
      <3>2. Precedes(list, list[j], list[i + 1]) => j <= i
        <4> SUFFICES ASSUME NEW m \in DOMAIN list, NEW k \in DOMAIN list, m < k,
                            list[m] = list[j], list[k] = list[i + 1]
                     PROVE  j <= i
          BY DEF Precedes
        <4>1. m = j /\ k = i + 1
          BY <2>1 DEF Distinct
        <4> QED
          BY <1>1, <4>1
      <3> QED
        BY <3>1, <3>2
    <2>3. NextStruct(p) \in Structs /\ NextStruct(p) # Null
      BY <1>1, <2>1 DEF Structs, ToSet
    <2> QED
      BY <1>4, <1>5, <2>1, <2>2, <2>3 DEF Structs, ToSet
  <1> QED
    BY <1>6, <1>7

(* No struct stands before the head.                                        *)
LEMMA HeadFirst ==
  ASSUME NEW S, NEW s \in Seq(S), Distinct(s), s # <<>>, NEW p
  PROVE  ~Precedes(s, p, Head(s))
  <1>1. DOMAIN s = 1 .. Len(s) /\ Len(s) \in Nat /\ 1 \in DOMAIN s /\ Head(s) = s[1]
    OBVIOUS
  <1> SUFFICES ASSUME NEW i \in DOMAIN s, NEW j \in DOMAIN s, i < j, s[j] = s[1] PROVE FALSE
    BY <1>1 DEF Precedes
  <1>2. j = 1
    BY <1>1 DEF Distinct
  <1> QED
    BY <1>1, <1>2

------------------------------------------------------------------------------
(* The loop of paint_preprocess and the last loop of paint_all.             *)

(* What run_fade makes of a struct.  A fade that gets to opacity 0 in this  *)
(* step was within the steps of this cycle.                                 *)
LEMMA RunFadeEffect ==
  ASSUME NEW w \in Win, steps \in 0 .. MaxSteps
  PROVE  /\ RunFade(w).tgt = Target(w) /\ RunFade(w).opctChange = w.opctChange
         /\ RunFade(w).want = w.want
         /\ RunFade(w).opacity = 0 /\ ~w.viewable =>
              w.opacity <= (IF w.fadeLast THEN steps ELSE Opaque)
  <1> DEFINE r == Restored(w)
             fade == IF w.viewable THEN w.fade ELSE w.fadeLast
  <1>1. /\ w.tgt \in Level /\ w.want \in Level /\ w.opacity \in Level
        /\ w.fade \in BOOLEAN /\ w.fadeLast \in BOOLEAN
    BY Zenon DEF Win
  <1>2. Target(w) \in Level
    BY <1>1, WindowsAssumption DEF Target, Level
  <1>3. /\ r \in Win /\ r.tgt = Target(w) /\ r.fade = fade /\ r.opacity = w.opacity
        /\ r.opctChange = w.opctChange /\ r.want = w.want
    <2>1. fade \in BOOLEAN
      BY <1>1
    <2> DEFINE target == Target(w)
    <2>2. r = [w EXCEPT !.fade = fade, !.tgt = target]
      BY Zenon DEF Restored
    <2>3. target \in Level
      BY <1>2
    <2> HIDE DEF fade, target, r
    <2>4. /\ r \in Win /\ r.tgt = target /\ r.fade = fade /\ r.opacity = w.opacity
          /\ r.opctChange = w.opctChange /\ r.want = w.want
      BY <2>1, <2>2, <2>3, Zenon DEF Win
    <2> QED
      BY <2>4 DEF target
  <1> DEFINE o == Faded(r)
             f == [r EXCEPT !.opacity = o]
  <1>4. RunFade(w) = f
    BY Zenon DEF RunFade
  <1>5. o = 0 /\ ~w.viewable => w.opacity <= (IF w.fadeLast THEN steps ELSE Opaque)
    <2> SUFFICES ASSUME o = 0, ~w.viewable
                 PROVE  w.opacity <= (IF w.fadeLast THEN steps ELSE Opaque)
      OBVIOUS
    <2>1. CASE ~w.fadeLast
      BY <1>1, <2>1, WindowsAssumption DEF Level
    <2>2. CASE w.fadeLast
      <3> HIDE DEF r
      <3>1. r.fade /\ r.tgt \in Nat /\ r.opacity \in Nat /\ steps \in Nat
        BY <1>1, <1>2, <1>3, <2>2, WindowsAssumption DEF Level
      <3>2. r.opacity <= steps
        BY <3>1 DEF Faded
      <3> QED
        BY <1>3, <2>2, <3>2
    <2> QED
      BY <2>1, <2>2
  <1> HIDE DEF r, o
  <1>6. f.tgt = r.tgt /\ f.opctChange = r.opctChange /\ f.want = r.want /\ f.opacity = o
    BY <1>3, Zenon DEF Win
  <1> QED
    BY <1>3, <1>4, <1>5, <1>6

(* A window that is painted joins the chain.                                *)
LEMMA ShownEffect ==
  ASSUME TypeInv, WinOK(win[cur]), PreprocessShown
  PROVE  /\ pc = "pre" /\ cur \in Structs /\ cur \in Ptr
         /\ UNCHANGED <<serverVars, list, pc, evReceived>>
         /\ t' = cur /\ cur' = NextStruct(cur)
         /\ LET w == win'[cur] IN
              /\ w.id = win[cur].id /\ w.destroyed = win[cur].destroyed
              /\ w.viewable = win[cur].viewable /\ w.cb = win[cur].cb
              /\ ~w.opctChange /\ w.opacity # 0 /\ w.prevTrans = t /\ WinOK(w)
              /\ idling' = (idling /\ w.opacity = w.tgt)
         /\ \A q \in Ptr \ {cur} : win'[q] = win[q]
  <1> DEFINE f == RunFade(win[cur])
             done == f.destroyed /\ f.opacity = f.tgt
             w == [f EXCEPT !.extents = TRUE, !.opctChange = FALSE, !.prevTrans = t,
                            !.toPaint = done => @,
                            !.fadeLast = IF done THEN @ ELSE f.fade]
  <1>1. /\ Structs \subseteq Ptr /\ win \in [Ptr -> Win] /\ steps \in 0 .. MaxSteps
        /\ cur \in Structs /\ cur \in Ptr /\ win[cur] \in Win /\ t \in Ptr \cup {Null}
    BY StructsType DEF TypeInv, TypeOK, CursorOK, PreprocessShown
  <1>2. /\ w \in Win /\ w.id = win[cur].id /\ w.destroyed = win[cur].destroyed
        /\ w.viewable = win[cur].viewable /\ w.cb = win[cur].cb
    BY <1>1, ShownStruct, Zenon
  <1>3. /\ f \in Win /\ f.tgt = Target(win[cur])
    BY <1>1, RunFadeType, RunFadeEffect
  <1>4. /\ UNCHANGED <<serverVars, list, pc, evReceived>> /\ pc = "pre"
        /\ cur' = NextStruct(cur) /\ t' = cur
        /\ win' = [win EXCEPT ![cur] = w]
        /\ idling' = IdleOf(w)
        /\ Shown(f)
    BY Zenon DEF PreprocessShown
  <1>5. ~w.opctChange /\ w.prevTrans = t /\ w.opacity = f.opacity /\ w.tgt = f.tgt
    <2> DEFINE b == done => f.toPaint
               l == IF done THEN f.fadeLast ELSE f.fade
    <2>1. w = [f EXCEPT !.extents = TRUE, !.opctChange = FALSE, !.prevTrans = t,
                        !.toPaint = b, !.fadeLast = l]
      BY Zenon
    <2> HIDE DEF f, b, l, w
    <2> QED
      BY <1>1, <1>3, <2>1, Zenon DEF Win
  <1>6. w.opacity # 0
    <2>1. f.opacity \in Level /\ f.opacity > Faint
      <3> HIDE DEF f
      <3> QED
        BY <1>3, <1>4, Zenon DEF Win, Shown
    <2> HIDE DEF w, f
    <2> QED
      BY <1>5, <2>1, WindowsAssumption DEF Level
  <1>7. WinOK(w)
    <2>1. ~win[cur].viewable => f.tgt = 0
      <3> HIDE DEF f
      <3> QED
        BY <1>3 DEF Target, WinOK
    <2> HIDE DEF w, f
    <2> QED
      BY <1>2, <1>5, <2>1 DEF WinOK
  <1> HIDE DEF w
  <1>8. win'[cur] = w /\ \A q \in Ptr \ {cur} : win'[q] = win[q]
    BY <1>1, <1>2, <1>4
  <1> QED
    BY <1>1, <1>2, <1>4, <1>5, <1>6, <1>7, <1>8 DEF IdleOf

(* A window that is not painted has its callback run if its fade is over.   *)
LEMMA SkippedEffect ==
  ASSUME TypeInv, WinOK(win[cur]), PreprocessSkipped
  PROVE  /\ pc = "pre" /\ cur \in Structs /\ cur \in Ptr
         /\ UNCHANGED <<serverVars, pc, evReceived, t>>
         /\ cur' = NextStruct(cur)
         /\ \E w \in Win :
              /\ Same(w, win[cur]) /\ w.tgt = Target(win[cur])
              /\ w.opctChange = win[cur].opctChange /\ w.want = win[cur].want
              /\ WinOK(w)
              /\ w.opacity = 0 /\ ~w.viewable =>
                   win[cur].opacity <= (IF win[cur].fadeLast THEN steps ELSE Opaque)
              /\ \/ Unfinished(cur, w, idling /\ w.opacity = w.tgt)
                 \/ Finished(cur, w)
                 \/ Freed(cur, w)
  <1> DEFINE f == RunFade(win[cur])
             b == (f.destroyed /\ f.opacity = f.tgt) /\ f.toPaint
             w == [f EXCEPT !.toPaint = (f.destroyed /\ f.opacity = f.tgt) /\ @]
             idle == idling /\ w.opacity = w.tgt
  <1>1. /\ Structs \subseteq Ptr /\ win \in [Ptr -> Win] /\ steps \in 0 .. MaxSteps
        /\ cur \in Structs /\ cur \in Ptr /\ win[cur] \in Win
    BY StructsType DEF TypeInv, TypeOK, CursorOK, PreprocessSkipped
  <1>2. w \in Win /\ Same(w, win[cur])
    BY <1>1, SkippedStruct, Zenon
  <1>3. /\ f \in Win /\ f.tgt = Target(win[cur]) /\ f.opctChange = win[cur].opctChange
        /\ f.want = win[cur].want
        /\ f.opacity = 0 /\ ~win[cur].viewable =>
             win[cur].opacity <= (IF win[cur].fadeLast THEN steps ELSE Opaque)
    BY <1>1, RunFadeType, RunFadeEffect
  <1>4. /\ UNCHANGED <<serverVars, pc, evReceived, t>> /\ pc = "pre"
        /\ cur' = NextStruct(cur)
        /\ CheckFadeFin(cur, w, DamageOf(cur, w, FALSE), idle)
    BY Zenon DEF PreprocessSkipped, IdleOf
  <1>5. /\ w.tgt = f.tgt /\ w.opctChange = f.opctChange /\ w.want = f.want
        /\ w.opacity = f.opacity
    <2>1. w = [f EXCEPT !.toPaint = b]
      BY Zenon
    <2> HIDE DEF f, b, w
    <2> QED
      BY <1>3, <2>1, Zenon DEF Win
  <1> HIDE DEF w, f
  <1>6. DamageOf(cur, w, FALSE) \in BOOLEAN /\ idle \in BOOLEAN
    BY Zenon DEF DamageOf
  <1>7. WinOK(w)
    BY <1>2, <1>3, <1>5 DEF WinOK, Same, Target
  <1>8. Unfinished(cur, w, idle) \/ Finished(cur, w) \/ Freed(cur, w)
    <2> HIDE DEF idle
    <2> QED
      BY <1>1, <1>2, <1>4, <1>6, CheckFadeFinEffect DEF Same
  <1> QED
    BY <1>1, <1>2, <1>3, <1>4, <1>5, <1>7, <1>8 DEF Same

LEMMA PostPaintEffect ==
  ASSUME TypeInv, PostPaint
  PROVE  /\ pc = "post" /\ cur \in Ptr /\ win[cur] \in Win
         /\ UNCHANGED <<serverVars, pc, evReceived, t>>
         /\ cur' = win[cur].prevTrans
         /\ \/ Unfinished(cur, win[cur], idling)
            \/ Finished(cur, win[cur])
            \/ Freed(cur, win[cur])
  <1>1. /\ cur \in Ptr /\ win[cur] \in Win /\ allDamage \in BOOLEAN /\ idling \in BOOLEAN
    BY DEF TypeInv, TypeOK, PostPaint
  <1>2. /\ UNCHANGED <<serverVars, pc, evReceived, t>> /\ pc = "post"
        /\ cur' = win[cur].prevTrans /\ CheckFadeFin(cur, win[cur], allDamage, idling)
    BY DEF PostPaint
  <1> QED
    BY <1>1, <1>2, CheckFadeFinEffect

------------------------------------------------------------------------------
(* The list holds no struct twice, every struct on it is of a window, and a *)
(* struct that is not viewable is on its way to opacity 0.                  *)
ListOK ==
  /\ Distinct(list)
  /\ \A p \in Ptr : WinOK(win[p])
  /\ \A p \in Structs : win[p].id \in Id

LEMMA ListOKKept ==
  ASSUME TypeOK, ListOK, list' = list,
         \A p \in Ptr : WinOK(win'[p]) /\ win'[p].id = win[p].id
  PROVE  ListOK'
  <1>1. Structs' = Structs /\ Structs \subseteq Ptr
    BY StructsType DEF Structs
  <1> QED
    BY <1>1 DEF ListOK

LEMMA AddWinList ==
  ASSUME TypeInv, ListOK, NEW id \in Id, AddWin(id) PROVE ListOK'
  <1>1. /\ list \in Seq(Ptr) /\ Structs \subseteq Ptr /\ TypeOK
    BY StructsType DEF TypeInv, TypeOK
  <1>2. CASE UNCHANGED <<list, win>>
    BY <1>1, <1>2, ListOKKept DEF ListOK
  <1>3. CASE \E p \in Ptr \ Structs, attr \in Attributes(id) :
               /\ list' = <<p>> \o list
               /\ win'[p].id = id /\ ~win'[p].destroyed /\ WinOK(win'[p])
               /\ win'[p].cb \in {"none", "map"} /\ win'[p].prevTrans = Null
               /\ win'[p].viewable <=> attr = "viewable"
               /\ \A q \in Ptr : q # p => Quiet(win'[q], win[q])
    <2>1. PICK p \in Ptr \ Structs :
            /\ list' = <<p>> \o list /\ win'[p].id = id /\ WinOK(win'[p])
            /\ \A q \in Ptr : q # p => Quiet(win'[q], win[q])
      BY <1>3
    <2>2. Distinct(list') /\ Structs' = Structs \cup {p}
      BY <1>1, <2>1, ConsDistinct DEF ListOK, Structs
    <2>3. \A q \in Ptr : q # p => WinOK(win'[q]) /\ win'[q].id = win[q].id
      BY <2>1, StillQuiet DEF ListOK, Quiet, Same
    <2> QED
      BY <1>1, <2>1, <2>2, <2>3 DEF ListOK
  <1> QED
    BY <1>2, <1>3, AddWinEffect

LEMMA HandleList ==
  ASSUME TypeInv, ListOK, Handle PROVE ListOK'
  <1>1. /\ TypeOK /\ Structs \subseteq Ptr /\ \A p \in Ptr : WinOK(win[p])
        /\ Head(evq) \in Event /\ Head(evq).id \in Id
    <2>1. evq \in Seq(Event) /\ evq # <<>>
      BY DEF Handle, TypeInv, TypeOK, ServerTypeOK
    <2>2. Head(evq) \in Event
      BY <2>1
    <2> QED
      BY <2>2, StructsType DEF TypeInv, ListOK, Event
  <1> DEFINE id == Head(evq).id
  <1>2. CASE AddWin(id)
    BY <1>1, <1>2, AddWinList
  <1>3. CASE DestroyWin(id)
    <2>1. list' = list /\ \A q \in Ptr : WinOK(win'[q]) /\ win'[q].id = win[q].id
      BY <1>1, <1>3, DestroyWinEffect
    <2> QED
      BY <1>1, <2>1, ListOKKept
  <1>4. CASE MapWin(id)
    <2>1. list' = list /\ \A q \in Ptr : WinOK(win'[q]) /\ win'[q].id = win[q].id
      BY <1>1, <1>4, MapWinEffect, StillQuiet DEF Quiet, Same
    <2> QED
      BY <1>1, <2>1, ListOKKept
  <1>5. CASE UnmapWin(id)
    <2>1. list' = list /\ \A q \in Ptr : WinOK(win'[q]) /\ win'[q].id = win[q].id
      BY <1>1, <1>5, UnmapWinEffect
    <2> QED
      BY <1>1, <2>1, ListOKKept
  <1> QED
    BY <1>2, <1>3, <1>4, <1>5 DEF Handle

(* A step of check_fade_fin on a struct that is on its way.                 *)
LEMMA CheckFadeFinList ==
  ASSUME TypeInv, ListOK, NEW p \in Ptr, NEW w, w.id = win[p].id, WinOK(w),
         NEW idle, Unfinished(p, w, idle) \/ Finished(p, w) \/ Freed(p, w)
  PROVE  ListOK'
  <1>1. TypeOK /\ list \in Seq(Ptr) /\ Structs \subseteq Ptr
    BY StructsType DEF TypeInv, TypeOK
  <1>2. CASE Unfinished(p, w, idle)
    <2>1. \A q \in Ptr : WinOK(win'[q]) /\ win'[q].id = win[q].id
      BY <1>2 DEF Unfinished, ListOK
    <2> QED
      BY <1>1, <1>2, <2>1, ListOKKept DEF Unfinished
  <1>3. CASE Finished(p, w)
    <2>1. \A q \in Ptr : WinOK(win'[q]) /\ win'[q].id = win[q].id
      BY <1>3 DEF Finished, ListOK, WinOK
    <2> QED
      BY <1>1, <1>3, <2>1, ListOKKept DEF Finished
  <1>4. CASE Freed(p, w)
    <2>1. PICK k \in DOMAIN list :
            /\ list' = RemoveAt(list, k) /\ win'[list[k]] = WinDef
            /\ \A q \in Ptr \ {list[k]} :
                 LET v == IF q = p THEN w ELSE win[q]
                 IN  /\ win'[q].id = v.id /\ win'[q].destroyed = v.destroyed
                     /\ win'[q].viewable = v.viewable
                     /\ win'[q].cb = (IF q = p THEN "none" ELSE v.cb)
                     /\ win'[q].tgt = v.tgt /\ win'[q].opctChange = v.opctChange
      BY <1>4 DEF Freed
    <2>2. Distinct(list') /\ Structs' = Structs \ {list[k]}
      BY <1>1, <2>1, RemoveDistinct DEF ListOK, Structs
    <2>3. \A q \in Ptr \ {list[k]} : WinOK(win'[q]) /\ win'[q].id = win[q].id
      BY <2>1 DEF ListOK, WinOK
    <2>4. WinOK(WinDef)
      BY DEF WinOK, WinDef
    <2> QED
      BY <1>1, <2>1, <2>2, <2>3, <2>4 DEF ListOK
  <1> QED
    BY <1>2, <1>3, <1>4

(* Every step keeps the list in order.                                      *)
LEMMA ListStep ==
  ASSUME TypeInv, ListOK, [Next]_vars PROVE ListOK'
  <1>1. /\ TypeOK /\ Structs \subseteq Ptr /\ \A p \in Ptr : WinOK(win[p])
        /\ \A p \in Ptr : win[p] \in Win
    BY StructsType DEF TypeInv, ListOK
  <1>2. ASSUME UNCHANGED <<list, win>> PROVE ListOK'
    BY <1>1, <1>2, ListOKKept
  <1>3. CASE UNCHANGED vars \/ ServerStep \/ \E n \in 0 .. MaxSteps : BeginPaint(n)
    BY <1>2, <1>3 DEF vars, listVars, ServerStep, BeginPaint
  <1>4. CASE InitAdd
    BY <1>4, AddWinList DEF InitAdd
  <1>5. CASE Handle
    BY <1>5, HandleList
  <1>6. CASE InitDone \/ DamageWin \/ FocusEvent \/ OpacityEvent \/ OtherEvent
    <2>1. list' = list /\ \A p \in Ptr : WinOK(win'[p]) /\ win'[p].id = win[p].id
      BY <1>1, <1>6, QuietSteps, StillQuiet DEF Quiet, Same
    <2> QED
      BY <1>1, <2>1, ListOKKept
  <1>7. CASE EndPreprocess \/ PaintWin \/ EndPaint \/ EndCycle
    <2>1. list' = list /\ \A p \in Ptr : WinOK(win'[p]) /\ win'[p].id = win[p].id
      BY <1>1, <1>7, StillSteps, StillQuiet DEF Still, Same
    <2> QED
      BY <1>1, <2>1, ListOKKept
  <1>8. CASE PreprocessShown
    <2>1. cur \in Ptr
      BY <1>1, <1>8 DEF PreprocessShown, TypeOK
    <2>2. list' = list /\ \A p \in Ptr : WinOK(win'[p]) /\ win'[p].id = win[p].id
      BY <1>1, <1>8, <2>1, ShownEffect
    <2> QED
      BY <1>1, <2>2, ListOKKept
  <1>9. CASE PreprocessSkipped
    <2>1. cur \in Ptr
      BY <1>1, <1>9 DEF PreprocessSkipped, TypeOK
    <2>2. PICK w \in Win :
            /\ w.id = win[cur].id /\ WinOK(w)
            /\ \/ Unfinished(cur, w, idling /\ w.opacity = w.tgt)
               \/ Finished(cur, w)
               \/ Freed(cur, w)
      BY <1>1, <1>9, <2>1, SkippedEffect DEF Same
    <2> QED
      BY <2>1, <2>2, CheckFadeFinList
  <1>10. CASE PostPaint
    BY <1>1, <1>10, PostPaintEffect, CheckFadeFinList
  <1> QED
    BY <1>3, <1>4, <1>5, <1>6, <1>7, <1>8, <1>9, <1>10 DEF Next, Preprocess, Paint

LEMMA ListInit ==
  ASSUME Init PROVE ListOK
  BY DEF Init, ListOK, Distinct, Structs, ToSet, WinOK, WinDef

------------------------------------------------------------------------------
(* No fade is lost: while the paint cycle lets the main loop sleep, every   *)
(* struct it has walked over is at rest.                                    *)
Walked(p) == pc = "pre" => cur = Null \/ Precedes(list, p, cur)
Settled(w) == w.opacity = w.tgt /\ w.tgt = Target(w) /\ w.cb \in {"none", "map"}
SettledInv ==
  /\ pc = "init" => ~idling
  /\ idling /\ (pc = "loop" => ~evReceived) =>
       \A p \in Structs : Walked(p) => Settled(win[p])

LEMMA StillSettled ==
  ASSUME NEW v, NEW w, Still(v, w), Settled(w) PROVE Settled(v)
  BY DEF Still, Same, Settled, Target

(* What the loop of paint_preprocess has behind it after a step.            *)
LEMMA WalkedNext ==
  ASSUME TypeInv, ListOK, pc = "pre", cur \in Structs, pc' = "pre",
         cur' = NextStruct(cur)
  PROVE  /\ list' = list => \A q \in Structs : Walked(q)' => q = cur \/ Walked(q)
         /\ list' = list => \A q \in Structs : q = cur \/ Walked(q) => Walked(q)'
         /\ ~Walked(cur)
  <1>1. list \in Seq(Ptr) /\ Distinct(list) /\ cur # Null
    BY StructsType, WindowsAssumption DEF TypeInv, TypeOK, ListOK
  <1>2. /\ ~Precedes(list, cur, cur)
        /\ \A q \in Structs : NextStruct(cur) = Null \/ Precedes(list, q, NextStruct(cur))
                                <=> q = cur \/ Precedes(list, q, cur)
    BY <1>1, NextPrecedes
  <1> QED
    BY <1>1, <1>2 DEF Walked

LEMMA ShownSettled ==
  ASSUME TypeInv, ListOK, SettledInv, PreprocessShown PROVE SettledInv'
  <1>1. /\ CallbackOK /\ \A p \in Ptr : WinOK(win[p])
        /\ cur \in Ptr /\ Structs \subseteq Ptr
    BY StructsType DEF TypeInv, TypeOK, ListOK, PreprocessShown
  <1>2. /\ pc = "pre" /\ pc' = "pre" /\ cur \in Structs /\ list' = list
        /\ cur' = NextStruct(cur)
        /\ LET w == win'[cur] IN
             /\ w.viewable = win[cur].viewable /\ w.cb = win[cur].cb
             /\ w.destroyed = win[cur].destroyed
             /\ ~w.opctChange /\ w.opacity # 0 /\ WinOK(w)
             /\ idling' = (idling /\ w.opacity = w.tgt)
        /\ \A q \in Ptr \ {cur} : win'[q] = win[q]
    BY <1>1, ShownEffect DEF serverVars
  <1>3. Structs' = Structs
    BY <1>2 DEF Structs
  <1>4. ASSUME idling', NEW p \in Structs, Walked(p)' PROVE Settled(win'[p])
    <2>1. p = cur \/ (p # cur /\ Walked(p))
      BY <1>2, <1>4, WalkedNext
    <2>2. CASE p = cur
      <3>1. win[cur].cb \in Callback
        <4>1. win[cur] \in Win
          BY <1>1 DEF TypeInv, TypeOK
        <4> QED
          BY <4>1, Zenon DEF Win
      <3>2. win[cur].viewable
        BY <1>2, <1>4 DEF WinOK
      <3> QED
        BY <1>1, <1>2, <1>4, <2>2, <3>1, <3>2 DEF Settled, Target, WinOK, CallbackOK, Callback
    <2>3. CASE p # cur /\ Walked(p)
      <3>1. idling /\ win'[p] = win[p]
        BY <1>1, <1>2, <1>4, <2>3
      <3> QED
        BY <1>2, <2>3, <3>1 DEF SettledInv, Settled, Target
    <2> QED
      BY <2>1, <2>2, <2>3
  <1> QED
    BY <1>2, <1>3, <1>4 DEF SettledInv

LEMMA SkippedSettled ==
  ASSUME TypeInv, ListOK, SettledInv, PreprocessSkipped PROVE SettledInv'
  <1>1. /\ \A p \in Ptr : WinOK(win[p])
        /\ cur \in Ptr /\ Structs \subseteq Ptr
    BY StructsType DEF TypeInv, TypeOK, ListOK, PreprocessSkipped
  <1>2. PICK w \in Win :
          /\ Same(w, win[cur]) /\ w.tgt = Target(win[cur])
          /\ w.opctChange = win[cur].opctChange /\ w.want = win[cur].want
          /\ \/ Unfinished(cur, w, idling /\ w.opacity = w.tgt)
             \/ Finished(cur, w)
             \/ Freed(cur, w)
    BY <1>1, SkippedEffect
  <1>3. /\ pc = "pre" /\ pc' = "pre" /\ cur \in Structs /\ cur' = NextStruct(cur)
    BY <1>1, SkippedEffect
  <1>4. CASE ~idling'
    BY <1>3, <1>4 DEF SettledInv
  <1>5. CASE idling'
    <2>1. Unfinished(cur, w, idling /\ w.opacity = w.tgt)
      BY <1>2, <1>5 DEF Finished, Freed
    <2>2. /\ list' = list /\ Structs' = Structs /\ win'[cur] = w /\ w.cb = "none"
          /\ idling /\ w.opacity = w.tgt /\ \A q \in Ptr \ {cur} : win'[q] = win[q]
      BY <1>5, <2>1 DEF Unfinished, FadeFinished, Structs
    <2>3. ASSUME NEW p \in Structs, Walked(p)' PROVE Settled(win'[p])
      <3>1. p = cur \/ (p # cur /\ Walked(p))
        BY <1>3, <2>2, <2>3, WalkedNext
      <3>2. CASE p = cur
        BY <1>2, <2>2, <3>2 DEF Settled, Target, Same
      <3>3. CASE p # cur /\ Walked(p)
        <4>1. win'[p] = win[p]
          BY <1>1, <2>2, <3>3
        <4> QED
          BY <1>3, <2>2, <3>3, <4>1 DEF SettledInv, Settled, Target
      <3> QED
        BY <3>1, <3>2, <3>3
    <2> QED
      BY <1>3, <2>2, <2>3 DEF SettledInv
  <1> QED
    BY <1>4, <1>5

LEMMA SettledStep ==
  ASSUME TypeInv, ListOK, SettledInv, [Next]_vars PROVE SettledInv'
  <1>1. Structs \subseteq Ptr /\ list \in Seq(Ptr) /\ Distinct(list)
        /\ \A p \in Ptr : WinOK(win[p])
    BY StructsType DEF TypeInv, TypeOK, ListOK
  <1>2. CASE UNCHANGED vars
    BY <1>2 DEF vars, listVars, cycleVars, SettledInv, Structs, Walked, Settled, Target
  <1>3. CASE ServerStep
    BY <1>3 DEF ServerStep, listVars, cycleVars, SettledInv, Structs, Walked, Settled, Target
  <1>4. CASE InitAdd
    BY <1>4 DEF InitAdd, cycleVars, SettledInv
  <1>5. CASE InitDone
    BY <1>5 DEF InitDone, SettledInv
  <1>6. CASE Handle
    BY <1>6 DEF Handle, cycleVars, SettledInv
  <1>7. CASE DamageWin \/ FocusEvent \/ OpacityEvent \/ OtherEvent
    BY <1>7 DEF DamageWin, FocusEvent, OpacityEvent, OtherEvent, Arrives, cycleVars, SettledInv
  <1>8. CASE \E n \in 0 .. MaxSteps : BeginPaint(n)
    <2>1. /\ pc' = "pre" /\ cur' = IF list = <<>> THEN Null ELSE Head(list)
          /\ list' = list
      BY <1>8 DEF BeginPaint, listVars
    <2>2. ASSUME NEW p \in Structs PROVE ~Walked(p)'
      <3>1. list # <<>> /\ Head(list) # Null
        <4>1. list # <<>>
          BY DEF Structs, ToSet
        <4>2. Head(list) \in Ptr
          BY <1>1, <4>1
        <4> QED
          BY <4>1, <4>2, WindowsAssumption
      <3> QED
        BY <1>1, <2>1, <3>1, HeadFirst DEF Walked
    <2> QED
      BY <2>1, <2>2 DEF SettledInv, Structs
  <1>9. CASE EndPreprocess \/ PaintWin \/ EndPaint \/ EndCycle
    <2>1. list' = list /\ Structs' = Structs /\ \A p \in Ptr : Still(win'[p], win[p])
      BY <1>9, StillSteps DEF Structs
    <2>2. /\ pc \in {"pre", "paint", "post"} /\ (pc = "pre" => cur = Null)
          /\ pc' \in {"paint", "post", "loop"} /\ (idling' => idling)
      <3>1. CASE EndPreprocess
        BY <3>1 DEF EndPreprocess
      <3>2. CASE PaintWin
        BY <3>2, Zenon DEF PaintWin
      <3>3. CASE EndPaint
        BY <3>3 DEF EndPaint
      <3>4. CASE EndCycle
        BY <3>4 DEF EndCycle
      <3> QED
        BY <1>9, <3>1, <3>2, <3>3, <3>4
    <2>3. ASSUME idling', NEW p \in Structs PROVE Settled(win'[p])
      <3>1. Settled(win[p])
        BY <2>2, <2>3 DEF SettledInv, Walked
      <3> QED
        BY <1>1, <2>1, <3>1, StillSettled
    <2> QED
      BY <2>1, <2>2, <2>3 DEF SettledInv, Settled, Target
  <1>10. CASE PreprocessShown
    BY <1>10, ShownSettled
  <1>11. CASE PreprocessSkipped
    BY <1>11, SkippedSettled
  <1>12. CASE PostPaint
    <2>1. CASE ~idling'
      BY <1>12, <2>1, PostPaintEffect DEF SettledInv
    <2>2. CASE idling'
      <3>1. /\ idling /\ list' = list /\ Structs' = Structs /\ pc = "post" /\ pc' = "post"
            /\ \A q \in Ptr : win'[q] = win[q]
        BY <1>12, <2>2, PostPaintEffect DEF Unfinished, Finished, Freed, Structs
      <3> QED
        BY <1>1, <3>1 DEF SettledInv, Settled, Target, Walked
    <2> QED
      BY <2>1, <2>2
  <1> QED
    BY <1>2, <1>3, <1>4, <1>5, <1>6, <1>7, <1>8, <1>9, <1>10, <1>11, <1>12
       DEF Next, Preprocess, Paint

(* The main loop never goes to sleep on a fade: when it waits without a     *)
(* timeout, every window is at its opacity and no fade-out holds back a     *)
(* pixmap or a struct, whatever changed the list in the last cycle.         *)
THEOREM NoFadeIsLost == Spec => []NoLostFade
  <1>1. Init => TypeInv /\ ListOK /\ SettledInv
    BY TypeInit, ListInit DEF Init, SettledInv
  <1>2. TypeInv /\ ListOK /\ SettledInv /\ [Next]_vars => (TypeInv /\ ListOK /\ SettledInv)'
    BY TypeStep, ListStep, SettledStep
  <1>3. SettledInv => NoLostFade
    BY DEF SettledInv, NoLostFade, Asleep, Walked, Settled
  <1> QED
    BY <1>1, <1>2, <1>3, PTL DEF Spec

------------------------------------------------------------------------------
(* One departure at a time: unless Overlap, an id has at most one struct    *)
(* that is fading out or one "leave" to come, and then the fade callback    *)
(* frees the struct it belongs to.                                          *)
LeaveOf(i, id) == evq[i].type = "leave" /\ evq[i].id = id
OneDeparture ==
  /\ \A p, q \in Structs :
       win[p].destroyed /\ win[q].destroyed /\ win[p].id = win[q].id => p = q
  /\ \A p \in Structs, i \in DOMAIN evq : win[p].destroyed => ~LeaveOf(i, win[p].id)
  /\ \A i, j \in DOMAIN evq :
       evq[i].type = "leave" /\ evq[j].type = "leave" /\ evq[i].id = evq[j].id => i = j
DepartInv == OneDeparture /\ DestroyedIffCallback

(* No struct begins its departure, and no event is sent.                    *)
LEMMA DepartKept ==
  ASSUME DepartInv, CallbackOK', NEW off \in {0, 1},
         \A i \in DOMAIN evq' : /\ i \in Nat /\ i + off \in DOMAIN evq
                                /\ evq'[i] = evq[i + off],
         \A p \in Structs' : win'[p].destroyed =>
            /\ p \in Structs /\ win[p].destroyed /\ win'[p].id = win[p].id
            /\ win'[p].cb = "destroy",
         Structs' \subseteq Ptr
  PROVE  DepartInv'
  <1>1. DestroyedIffCallback'
    BY DEF CallbackOK, DestroyedIffCallback
  <1>2. \A p, q \in Structs' :
          win'[p].destroyed /\ win'[q].destroyed /\ win'[p].id = win'[q].id => p = q
    BY DEF DepartInv, OneDeparture
  <1>3. \A p \in Structs', i \in DOMAIN evq' : win'[p].destroyed => ~LeaveOf(i, win[p].id)'
    BY DEF DepartInv, OneDeparture, LeaveOf
  <1>4. ASSUME NEW i \in DOMAIN evq', NEW j \in DOMAIN evq', evq'[i].type = "leave",
               evq'[j].type = "leave", evq'[i].id = evq'[j].id
        PROVE  i = j
    <2>1. i + off = j + off
      BY <1>4 DEF DepartInv, OneDeparture
    <2> QED
      BY <2>1
  <1> QED
    BY <1>1, <1>2, <1>3, <1>4 DEF DepartInv, OneDeparture

LEMMA DepartSame ==
  ASSUME TypeInv, TypeInv', DepartInv, UNCHANGED <<evq, list>>,
         \A p \in Ptr : Same(win'[p], win[p])
  PROVE  DepartInv'
  <1>1. Structs' = Structs /\ Structs \subseteq Ptr /\ CallbackOK'
    BY StructsType DEF TypeInv, Structs
  <1>2. \A i \in DOMAIN evq' : /\ i \in Nat /\ i + 0 \in DOMAIN evq
                               /\ evq'[i] = evq[i + 0]
    <2>1. evq \in Seq(Event)
      BY DEF TypeInv, TypeOK, ServerTypeOK
    <2> QED
      BY <2>1
  <1>3. \A p \in Structs' : win'[p].destroyed =>
          /\ p \in Structs /\ win[p].destroyed /\ win'[p].id = win[p].id
          /\ win'[p].cb = "destroy"
    BY <1>1 DEF Same, DepartInv, DestroyedIffCallback
  <1> QED
    BY <1>1, <1>2, <1>3, DepartKept

(* What the server appends to the queue.                                    *)
LEMMA SendsEffect ==
  ASSUME evq \in Seq(Event), NEW es \in Seq(Event), Sends(es)
  PROVE  /\ evq' \in Seq(Event) /\ Len(evq') = Len(evq) + Len(es)
         /\ \A i \in DOMAIN evq : i \in DOMAIN evq' /\ evq'[i] = evq[i]
         /\ \A i \in DOMAIN evq' : i \notin DOMAIN evq =>
              i - Len(evq) \in DOMAIN es /\ evq'[i] = es[i - Len(evq)]
         /\ \A j \in DOMAIN es : /\ j + Len(evq) \in DOMAIN evq'
                                 /\ evq'[j + Len(evq)] = es[j]
  BY DEF Sends

LEMMA LeaveDepart ==
  ASSUME TypeInv, TypeInv', DepartInv, NEW id \in Id, ~Departing(id),
         NEW to, Leave(id, to), UNCHANGED <<list, win>>
  PROVE  DepartInv'
  <1>1. evq \in Seq(Event) /\ Structs' = Structs
    BY DEF TypeInv, TypeOK, ServerTypeOK, Structs
  <1> DEFINE es == IF sv[id] = "viewable"
                   THEN <<[type |-> "unmap", id |-> id], [type |-> "leave", id |-> id]>>
                   ELSE <<[type |-> "leave", id |-> id]>>
  <1>2. /\ es \in Seq(Event) /\ Sends(es)
        /\ \A i \in DOMAIN es : es[i].id = id /\ (es[i].type = "leave" => i = Len(es))
    <2>1. "unmap" \in EventType /\ "leave" \in EventType
      BY DEF EventType
    <2>2. es \in Seq(Event) /\ Sends(es)
      BY <2>1, EventSeqType DEF Leave
    <2> QED
      BY <2>2
  <1> HIDE DEF es
  <1>3. /\ \A i \in DOMAIN evq : i \in DOMAIN evq' /\ evq'[i] = evq[i]
        /\ \A i \in DOMAIN evq' : i \notin DOMAIN evq =>
             evq'[i].id = id /\ (evq'[i].type = "leave" => i - Len(evq) = Len(es))
    BY <1>1, <1>2, SendsEffect
  <1>4. DestroyedIffCallback' /\ \A p, q \in Structs' :
          win'[p].destroyed /\ win'[q].destroyed /\ win'[p].id = win'[q].id => p = q
    BY <1>1 DEF DepartInv, DestroyedIffCallback, OneDeparture
  <1>5. ASSUME NEW p \in Structs', NEW i \in DOMAIN evq', win'[p].destroyed
        PROVE  ~LeaveOf(i, win[p].id)'
    BY <1>1, <1>3, <1>5 DEF DepartInv, OneDeparture, LeaveOf, Departing
  <1>6. ASSUME NEW i \in DOMAIN evq', NEW j \in DOMAIN evq', evq'[i].type = "leave",
               evq'[j].type = "leave", evq'[i].id = evq'[j].id
        PROVE  i = j
    <2>1. i \in DOMAIN evq <=> j \in DOMAIN evq
      BY <1>3, <1>6 DEF Departing
    <2>2. CASE i \in DOMAIN evq
      BY <1>3, <1>6, <2>1, <2>2 DEF DepartInv, OneDeparture
    <2>3. CASE i \notin DOMAIN evq
      <3>1. i - Len(evq) = j - Len(evq) /\ i \in Nat /\ j \in Nat /\ Len(evq) \in Nat
        <4>1. evq' \in Seq(Event)
          BY <1>1, <1>2, SendsEffect
        <4> QED
          BY <1>1, <1>3, <1>6, <2>1, <2>3, <4>1
      <3> QED
        BY <3>1
    <2> QED
      BY <2>2, <2>3
  <1> QED
    BY <1>4, <1>5, <1>6 DEF DepartInv, OneDeparture

LEMMA SendsDepart ==
  ASSUME TypeInv, TypeInv', DepartInv, NEW id \in Id, Enter(id) \/ Map(id) \/ Unmap(id),
         UNCHANGED <<list, win>>
  PROVE  DepartInv'
  <1>1. evq \in Seq(Event) /\ Structs' = Structs
    BY DEF TypeInv, TypeOK, ServerTypeOK, Structs
  <1>2. PICK type \in {"enter", "map", "unmap"} : Sends(<<[type |-> type, id |-> id]>>)
    BY DEF Enter, Map, Unmap
  <1> DEFINE es == <<[type |-> type, id |-> id]>>
  <1>3. es \in Seq(Event) /\ DOMAIN es = {1} /\ es[1].type # "leave"
    <2>1. type \in EventType
      BY DEF EventType
    <2>2. es \in Seq(Event)
      BY <2>1, EventSeqType
    <2> QED
      BY <2>2
  <1> HIDE DEF es
  <1>4. /\ \A i \in DOMAIN evq : i \in DOMAIN evq' /\ evq'[i] = evq[i]
        /\ \A i \in DOMAIN evq' : i \notin DOMAIN evq => evq'[i].type # "leave"
    <2>1. Sends(es)
      BY <1>2 DEF es
    <2>2. /\ \A i \in DOMAIN evq : i \in DOMAIN evq' /\ evq'[i] = evq[i]
          /\ \A i \in DOMAIN evq' : i \notin DOMAIN evq =>
               i - Len(evq) \in DOMAIN es /\ evq'[i] = es[i - Len(evq)]
      BY <1>1, <1>3, <2>1, SendsEffect
    <2>3. \A i \in DOMAIN es : i = 1
      BY <1>3
    <2> HIDE DEF es
    <2> QED
      BY <1>3, <2>2, <2>3
  <1> QED
    BY <1>1, <1>4 DEF DepartInv, DestroyedIffCallback, OneDeparture, LeaveOf

(* ev_handle takes the oldest event off the queue.                          *)
LEMMA HandleQueue ==
  ASSUME TypeInv, Handle
  PROVE  /\ evq \in Seq(Event) /\ evq # <<>> /\ 1 \in DOMAIN evq /\ Head(evq) = evq[1]
         /\ evq[1] \in Event /\ evq[1].id \in Id /\ evq[1].type \in EventType
         /\ evq' \in Seq(Event) /\ sv' = sv
         /\ \A i \in DOMAIN evq' : i \in Nat /\ i + 1 \in DOMAIN evq /\ evq'[i] = evq[i + 1]
         /\ \A i \in DOMAIN evq : i # 1 => i - 1 \in DOMAIN evq' /\ evq'[i - 1] = evq[i]
  <1>1. evq \in Seq(Event) /\ evq # <<>> /\ evq' = Tail(evq) /\ sv' = sv
    BY DEF Handle, TypeInv, TypeOK, ServerTypeOK
  <1>2. 1 \in DOMAIN evq /\ Head(evq) = evq[1] /\ evq[1] \in Event
    BY <1>1
  <1>3. evq[1].id \in Id /\ evq[1].type \in EventType
    BY <1>2 DEF Event
  <1>4. /\ evq' \in Seq(Event)
        /\ \A i \in DOMAIN evq' : i \in Nat /\ i + 1 \in DOMAIN evq /\ evq'[i] = evq[i + 1]
    BY <1>1
  <1>5. \A i \in DOMAIN evq : i # 1 => i - 1 \in DOMAIN evq' /\ evq'[i - 1] = evq[i]
    BY <1>1
  <1> QED
    BY <1>1, <1>2, <1>3, <1>4, <1>5

LEMMA AddWinDepart ==
  ASSUME TypeInv, TypeInv', DepartInv, NEW id \in Id, AddWin(id), NEW off \in {0, 1},
         \A i \in DOMAIN evq' : /\ i \in Nat /\ i + off \in DOMAIN evq
                                /\ evq'[i] = evq[i + off]
  PROVE  DepartInv'
  <1>1. /\ Structs \subseteq Ptr /\ CallbackOK' /\ list \in Seq(Ptr) /\ Structs' \subseteq Ptr
    BY StructsType DEF TypeInv, TypeOK, Structs, ToSet
  <1>2. \A p \in Structs' : win'[p].destroyed =>
          /\ p \in Structs /\ win[p].destroyed /\ win'[p].id = win[p].id
          /\ win'[p].cb = "destroy"
    <2>1. CASE UNCHANGED <<list, win>>
      BY <2>1 DEF Structs, DepartInv, DestroyedIffCallback
    <2>2. CASE ~UNCHANGED <<list, win>>
      <3>1. PICK p \in Ptr \ Structs :
              /\ list' = <<p>> \o list /\ ~win'[p].destroyed
              /\ \A q \in Ptr : q # p => Quiet(win'[q], win[q])
        BY <2>2, AddWinEffect
      <3>2. \A q \in Structs' : q = p \/ q \in Structs
        <4> SUFFICES ASSUME NEW i \in DOMAIN list' PROVE list'[i] = p \/ list'[i] \in Structs
          BY DEF Structs, ToSet
        <4>1. i = 1 \/ (i - 1 \in DOMAIN list /\ list'[i] = list[i - 1])
          BY <1>1, <3>1
        <4>2. list'[1] = p
          BY <1>1, <3>1
        <4> QED
          BY <4>1, <4>2 DEF Structs, ToSet
      <3> QED
        BY <1>1, <3>1, <3>2 DEF Quiet, Same, DepartInv, DestroyedIffCallback
    <2> QED
      BY <2>1, <2>2
  <1> QED
    BY <1>1, <1>2, DepartKept

LEMMA HandleDepart ==
  ASSUME TypeInv, TypeInv', ListOK, DepartInv, Handle PROVE DepartInv'
  <1>1. /\ evq \in Seq(Event) /\ 1 \in DOMAIN evq /\ Head(evq) = evq[1] /\ evq[1].id \in Id
        /\ \A i \in DOMAIN evq' : /\ i \in Nat /\ i + 1 \in DOMAIN evq
                                  /\ evq'[i] = evq[i + 1]
    BY HandleQueue
  <1>2. /\ Structs \subseteq Ptr /\ CallbackOK' /\ \A p \in Ptr : WinOK(win[p])
    BY StructsType DEF TypeInv, ListOK
  <1> DEFINE id == evq[1].id
  <1>3. CASE AddWin(id)
    BY <1>1, <1>3, AddWinDepart
  <1>4. CASE MapWin(id)
    <2>1. /\ list' = list
          /\ \A q \in Ptr : \/ Quiet(win'[q], win[q])
                            \/ ~win'[q].destroyed
      BY <1>1, <1>4, MapWinEffect
    <2>2. \A p \in Structs : win'[p].destroyed =>
            win[p].destroyed /\ win'[p].id = win[p].id /\ win'[p].cb = "destroy"
      BY <1>2, <2>1 DEF Quiet, Same, DepartInv, DestroyedIffCallback
    <2>3. Structs' = Structs
      BY <2>1 DEF Structs
    <2> QED
      BY <1>1, <1>2, <2>2, <2>3, DepartKept
  <1>5. CASE UnmapWin(id)
    <2>1. /\ list' = list
          /\ \A q \in Ptr : win'[q] = win[q] \/ ~win'[q].destroyed
      BY <1>1, <1>2, <1>5, UnmapWinEffect
    <2>2. \A p \in Structs : win'[p].destroyed =>
            win[p].destroyed /\ win'[p].id = win[p].id /\ win'[p].cb = "destroy"
      BY <1>2, <2>1 DEF DepartInv, DestroyedIffCallback
    <2>3. Structs' = Structs
      BY <2>1 DEF Structs
    <2> QED
      BY <1>1, <1>2, <2>2, <2>3, DepartKept
  <1>6. CASE evq[1].type = "leave" /\ DestroyWin(id)
    <2>1. /\ list' = list
          /\ \A q \in Ptr :
              \/ win'[q] = win[q]
              \/ /\ q = FindWin(id) /\ win'[q].cb = "destroy" /\ win'[q].destroyed
                 /\ win'[q].id = id
      <3>1. \A q : Found(id) /\ q = FindWin(id) => win[q].id = id
        BY <1>1, StructsType DEF TypeInv
      <3> QED
        BY <1>1, <1>2, <1>6, <3>1, DestroyWinEffect
    <2>2. Structs' = Structs
      BY <2>1 DEF Structs
    <2>3. DestroyedIffCallback'
      BY <1>2, <2>1, <2>2 DEF DestroyedIffCallback, DepartInv
    <2>4. \A p \in Structs : win[p].destroyed => win[p].id # id
      BY <1>1, <1>6 DEF DepartInv, OneDeparture, LeaveOf
    <2>5. \A p \in Structs' : win'[p].destroyed =>
            \/ p = FindWin(id) /\ win'[p].id = id
            \/ win[p].destroyed /\ win'[p].id = win[p].id /\ win[p].id # id
      BY <1>2, <2>1, <2>2, <2>4
    <2>6. \A i \in DOMAIN evq' : evq'[i].type = "leave" => evq'[i].id # id
      <3> SUFFICES ASSUME NEW i \in DOMAIN evq', evq'[i].type = "leave", evq'[i].id = id
                   PROVE  FALSE
        OBVIOUS
      <3>1. i + 1 = 1
        BY <1>1, <1>6 DEF DepartInv, OneDeparture
      <3>2. i \in 1 .. Len(evq')
        <4>1. evq' \in Seq(Event)
          BY HandleQueue
        <4> QED
          BY <4>1
      <3> QED
        BY <3>1, <3>2
    <2>7. \A p, q \in Structs' :
            win'[p].destroyed /\ win'[q].destroyed /\ win'[p].id = win'[q].id => p = q
      <3> HIDE DEF id
      <3> QED
        BY <2>2, <2>5 DEF DepartInv, OneDeparture
    <2>8. \A p \in Structs', i \in DOMAIN evq' : win'[p].destroyed => ~LeaveOf(i, win[p].id)'
      <3> HIDE DEF id
      <3> QED
        BY <1>1, <2>2, <2>5, <2>6 DEF DepartInv, OneDeparture, LeaveOf
    <2>9. ASSUME NEW i \in DOMAIN evq', NEW j \in DOMAIN evq', evq'[i].type = "leave",
                 evq'[j].type = "leave", evq'[i].id = evq'[j].id
          PROVE  i = j
      <3>1. i + 1 = j + 1
        BY <1>1, <2>9 DEF DepartInv, OneDeparture
      <3> QED
        BY <1>1, <3>1
    <2> QED
      BY <2>3, <2>7, <2>8, <2>9 DEF DepartInv, OneDeparture
  <1> QED
    BY <1>1, <1>3, <1>4, <1>5, <1>6 DEF Handle

(* check_fade_fin frees the struct itself or none.                          *)
Released(p, w) ==
  /\ Structs' = Structs \ {p} /\ p \in Structs
  /\ FadeFinished(w) /\ w.cb = "destroy" /\ w.destroyed
  /\ \A q, r : Precedes(list, q, r) /\ q # p /\ r # p => Precedes(list', q, r)

LEMMA CheckFadeFinLife ==
  ASSUME TypeInv, TypeInv', ListOK, DepartInv, NEW p \in Ptr, NEW w, Same(w, win[p]), NEW idle,
         Unfinished(p, w, idle) \/ Finished(p, w) \/ Freed(p, w)
  PROVE  /\ list' = list \/ Released(p, w)
         /\ \A q \in Structs' :
              /\ q \in Structs /\ win'[q].id = win[q].id
              /\ win'[q].destroyed = win[q].destroyed
              /\ win'[q].destroyed => win'[q].cb = "destroy"
              /\ win'[q].prevTrans \in {win[q].prevTrans, Null} \ (Structs \ Structs')
         /\ \A q \in Structs' \ {p} : /\ win'[q].opacity = win[q].opacity
                                      /\ win'[q].opctChange = win[q].opctChange
  <1>1. /\ list \in Seq(Ptr) /\ Structs \subseteq Ptr /\ CallbackOK' /\ Distinct(list)
        /\ win[p] \in Win /\ CallbackOK
    BY StructsType DEF TypeInv, TypeOK, ListOK
  <1>2. CASE Unfinished(p, w, idle)
    <2>1. Structs' = Structs /\ list' = list
      BY <1>2 DEF Unfinished, Structs
    <2> QED
      BY <1>1, <1>2, <2>1 DEF Unfinished, Same, DepartInv, DestroyedIffCallback
  <1>3. CASE Finished(p, w)
    <2>1. Structs' = Structs /\ list' = list
      BY <1>3 DEF Finished, Structs
    <2> QED
      BY <1>1, <1>3, <2>1 DEF Finished, Same, DepartInv, DestroyedIffCallback
  <1>4. CASE Freed(p, w)
    <2>1. PICK i \in DOMAIN list, k \in DOMAIN list :
            /\ list[i] = p /\ list' = RemoveAt(list, k)
            /\ win[list[k]].id = w.id /\ win[list[k]].destroyed
            /\ \A q \in Ptr \ {list[k]} :
                 LET v == IF q = p THEN w ELSE win[q]
                 IN  /\ win'[q].id = v.id /\ win'[q].destroyed = v.destroyed
                     /\ win'[q].cb = (IF q = p THEN "none" ELSE v.cb)
                     /\ win'[q].opacity = v.opacity
                     /\ win'[q].opctChange = v.opctChange
                     /\ win'[q].prevTrans \in {v.prevTrans, Null} \ {list[k]}
      BY <1>4 DEF Freed
    <2>2. w.destroyed /\ w.cb = "destroy" /\ FadeFinished(w)
      <3>1. w.cb = "destroy" /\ FadeFinished(w)
        BY <1>4 DEF Freed
      <3> QED
        BY <1>1, <3>1 DEF Same, CallbackOK
    <2>3. list[k] = p
      <3>1. list[k] \in Structs /\ p \in Structs
        BY <2>1 DEF Structs, ToSet
      <3> QED
        <4>1. win[list[k]].id = win[p].id /\ win[list[k]].destroyed /\ win[p].destroyed
          BY <2>1, <2>2 DEF Same
        <4> DEFINE v == list[k]
        <4>2. v \in Structs /\ win[v].id = win[p].id /\ win[v].destroyed
          BY <3>1, <4>1
        <4> HIDE DEF v
        <4>3. v = p
          BY <3>1, <4>1, <4>2 DEF DepartInv, OneDeparture
        <4> QED
          BY <4>3 DEF v
    <2>4. /\ Structs' = Structs \ {p} /\ p \in Structs
          /\ \A q, r : Precedes(list, q, r) /\ q # p /\ r # p => Precedes(list', q, r)
      <3>1. /\ ToSet(RemoveAt(list, k)) = ToSet(list) \ {list[k]}
            /\ \A q, r : Precedes(list, q, r) /\ q # list[k] /\ r # list[k] =>
                         Precedes(RemoveAt(list, k), q, r)
        BY <1>1, RemoveDistinct
      <3>2. p \in Structs
        BY <2>1 DEF Structs, ToSet
      <3> QED
        BY <2>1, <2>3, <3>1, <3>2 DEF Structs
    <2>5. Released(p, w)
      BY <2>2, <2>4 DEF Released
    <2>6. ASSUME NEW q \in Structs'
          PROVE  /\ q \in Structs /\ q \in Ptr \ {list[k]} /\ q # p
                 /\ win'[q].id = win[q].id /\ win'[q].destroyed = win[q].destroyed
                 /\ win'[q].cb = win[q].cb /\ win'[q].opacity = win[q].opacity
                 /\ win'[q].opctChange = win[q].opctChange
                 /\ win'[q].prevTrans \in {win[q].prevTrans, Null} \ {p}
      BY <1>1, <2>1, <2>3, <2>4
    <2> QED
      BY <2>4, <2>5, <2>6 DEF DepartInv, DestroyedIffCallback
  <1> QED
    BY <1>2, <1>3, <1>4

LEMMA DepartStep ==
  ASSUME ~Overlap, TypeInv, ListOK, DepartInv, [Next]_vars PROVE DepartInv'
  <1>1. /\ TypeInv' /\ Structs \subseteq Ptr /\ Structs' \subseteq Ptr /\ CallbackOK'
        /\ evq \in Seq(Event) /\ list \in Seq(Ptr)
    <2>1. TypeInv'
      BY TypeStep
    <2>2. list' \in Seq(Ptr)
      BY <2>1 DEF TypeInv, TypeOK
    <2> QED
      BY <2>1, <2>2, StructsType DEF TypeInv, TypeOK, ServerTypeOK, Structs, ToSet
  <1>2. /\ \A i \in DOMAIN evq : i \in Nat /\ i + 0 = i
        /\ \A p \in Ptr : WinOK(win[p])
        /\ \A p \in Ptr : Same(win[p], win[p])
    BY <1>1 DEF ListOK, Same
  <1>3. CASE UNCHANGED vars \/ \E n \in 0 .. MaxSteps : BeginPaint(n)
    <2>1. UNCHANGED <<evq, list, win>>
      BY <1>3 DEF vars, serverVars, listVars, BeginPaint
    <2> QED
      BY <1>1, <1>2, <2>1, DepartSame
  <1>4. CASE ServerStep
    <2>1. UNCHANGED <<list, win>>
      BY <1>4 DEF ServerStep, listVars
    <2>2. PICK id \in Id : \/ Enter(id) \/ Map(id) \/ Unmap(id)
                           \/ ~Departing(id) /\ \E to \in LeaveTo : Leave(id, to)
                           \/ DestroyElsewhere(id)
      BY <1>4, Zenon DEF ServerStep
    <2>3. CASE Enter(id) \/ Map(id) \/ Unmap(id)
      BY <1>1, <2>1, <2>3, SendsDepart
    <2>4. CASE ~Departing(id) /\ \E to \in LeaveTo : Leave(id, to)
      BY <1>1, <2>1, <2>4, LeaveDepart
    <2>5. CASE DestroyElsewhere(id)
      BY <1>1, <1>2, <2>1, <2>5, DepartSame DEF DestroyElsewhere
    <2> QED
      BY <2>2, <2>3, <2>4, <2>5
  <1>5. CASE InitAdd
    <2>1. evq' = evq /\ \E id \in Id : AddWin(id)
      BY <1>5 DEF InitAdd, serverVars
    <2> QED
      BY <1>1, <1>2, <2>1, AddWinDepart
  <1>6. CASE Handle
    BY <1>1, <1>6, HandleDepart
  <1>7. CASE InitDone \/ DamageWin \/ FocusEvent \/ OpacityEvent \/ OtherEvent
    <2>1. UNCHANGED <<evq, list>> /\ \A p \in Ptr : Same(win'[p], win[p])
      BY <1>7, QuietSteps DEF serverVars, Quiet
    <2> QED
      BY <1>1, <2>1, DepartSame
  <1>8. CASE EndPreprocess \/ PaintWin \/ EndPaint \/ EndCycle
    <2>1. UNCHANGED <<evq, list>> /\ \A p \in Ptr : Same(win'[p], win[p])
      BY <1>8, StillSteps DEF serverVars, Still
    <2> QED
      BY <1>1, <2>1, DepartSame
  <1>9. CASE PreprocessShown
    <2>1. cur \in Ptr
      BY <1>9 DEF PreprocessShown, TypeInv, TypeOK
    <2>2. /\ UNCHANGED <<evq, list>>
          /\ LET w == win'[cur] IN
               w.id = win[cur].id /\ w.destroyed = win[cur].destroyed /\ w.cb = win[cur].cb
          /\ \A q \in Ptr \ {cur} : win'[q] = win[q]
      BY <1>2, <1>9, <2>1, ShownEffect DEF serverVars
    <2>3. /\ Structs' = Structs
          /\ \A p \in Structs : win'[p].destroyed = win[p].destroyed /\ win'[p].id = win[p].id
                                /\ win'[p].cb = win[p].cb
      BY <1>1, <2>2 DEF Structs
    <2>4. 0 \in {0, 1} /\ \A i \in DOMAIN evq' : /\ i \in Nat /\ i + 0 \in DOMAIN evq
                                                 /\ evq'[i] = evq[i + 0]
      BY <1>2, <2>2
    <2>5. \A p \in Structs' : win'[p].destroyed =>
            /\ p \in Structs /\ win[p].destroyed /\ win'[p].id = win[p].id
            /\ win'[p].cb = "destroy"
      BY <2>3 DEF DepartInv, DestroyedIffCallback
    <2> QED
      BY <1>1, <2>4, <2>5, DepartKept
  <1>10. CASE PreprocessSkipped \/ PostPaint
    <2>1. cur \in Ptr
      BY <1>10 DEF PreprocessSkipped, PostPaint, TypeInv, TypeOK
    <2>2. /\ evq' = evq
          /\ \E w, idle : /\ Same(w, win[cur])
                          /\ Unfinished(cur, w, idle) \/ Finished(cur, w) \/ Freed(cur, w)
      <3>1. CASE PreprocessSkipped
        BY <1>2, <2>1, <3>1, SkippedEffect DEF serverVars
      <3>2. CASE PostPaint
        BY <1>2, <2>1, <3>2, PostPaintEffect DEF serverVars
      <3> QED
        BY <1>10, <3>1, <3>2
    <2>3. \A q \in Structs' : /\ q \in Structs /\ win'[q].id = win[q].id
                              /\ win'[q].destroyed = win[q].destroyed
                              /\ win'[q].destroyed => win'[q].cb = "destroy"
      BY <1>1, <2>1, <2>2, CheckFadeFinLife
    <2>4. 0 \in {0, 1} /\ \A i \in DOMAIN evq' : /\ i \in Nat /\ i + 0 \in DOMAIN evq
                                                 /\ evq'[i] = evq[i + 0]
      BY <1>2, <2>2
    <2> QED
      BY <1>1, <2>3, <2>4, DepartKept
  <1> QED
    BY <1>3, <1>4, <1>5, <1>6, <1>7, <1>8, <1>9, <1>10 DEF Next, Preprocess, Paint

LEMMA DepartInit ==
  ASSUME Init PROVE DepartInv
  <1>1. Structs = {} /\ DOMAIN evq = {}
    BY DEF Init, ServerInit, Structs, ToSet
  <1> QED
    BY <1>1 DEF DepartInv, OneDeparture, DestroyedIffCallback

(* A struct is marked destroyed exactly while destroy_callback is its fade  *)
(* callback, whatever the fades and the events: nothing replaces that       *)
(* callback but the free itself.                                            *)
THEOREM DestroyedHasCallback == ASSUME ~Overlap PROVE Spec => []DestroyedIffCallback
  <1>1. Init => TypeInv /\ ListOK /\ DepartInv
    BY TypeInit, ListInit, DepartInit
  <1>2. TypeInv /\ ListOK /\ DepartInv /\ [Next]_vars => (TypeInv /\ ListOK /\ DepartInv)'
    BY TypeStep, ListStep, DepartStep
  <1>3. DepartInv => DestroyedIffCallback
    BY DEF DepartInv
  <1> QED
    BY <1>1, <1>2, <1>3, PTL DEF Spec

------------------------------------------------------------------------------
(* The chain of painted windows.  Its structs are on the list, behind the   *)
(* cursor of paint_preprocess, none of them at opacity 0 nor about to have  *)
(* its target recomputed: so none of them is freed, neither by the rest of  *)
(* paint_preprocess nor by the last loop of paint_all.                      *)
Chain(C) ==
  /\ C \subseteq Structs /\ t \in C \cup {Null}
  /\ pc \in {"paint", "post"} => cur \in C \cup {Null}
  /\ \A p \in C : /\ win[p].prevTrans \in C \cup {Null}
                  /\ win[p].opacity # 0 /\ ~win[p].opctChange
                  /\ Walked(p)
Linked == \A p \in Structs : win[p].prevTrans \in Structs \cup {Null}
ChainInv ==
  /\ pc \in {"init", "loop"} => cur = Null /\ t = Null
  /\ \E C : Chain(C)
  /\ Linked

(* Between two paint cycles, and when one begins, the chain is empty.       *)
LEMMA EmptyChain ==
  ASSUME Linked', t' = Null, pc' \in {"init", "loop", "pre"},
         pc' \in {"init", "loop"} => cur' = Null
  PROVE  ChainInv'
  <1>1. Chain({})'
    BY DEF Chain
  <1> QED
    BY <1>1 DEF ChainInv

LEMMA AddWinLinked ==
  ASSUME TypeInv, Linked, NEW id \in Id, AddWin(id) PROVE Linked'
  <1>1. list \in Seq(Ptr) /\ Structs \subseteq Ptr
    BY StructsType DEF TypeInv, TypeOK
  <1>2. CASE UNCHANGED <<list, win>>
    BY <1>2 DEF Linked, Structs
  <1>3. CASE ~UNCHANGED <<list, win>>
    <2>1. PICK p \in Ptr \ Structs :
            /\ list' = <<p>> \o list /\ win'[p].prevTrans = Null
            /\ \A q \in Ptr : q # p => Quiet(win'[q], win[q])
      BY <1>3, AddWinEffect
    <2>2. /\ \A i \in DOMAIN list : i + 1 \in DOMAIN list' /\ list'[i + 1] = list[i]
          /\ \A i \in DOMAIN list' : list'[i] = p \/ (i - 1 \in DOMAIN list /\ list'[i] = list[i - 1])
      BY <1>1, <2>1
    <2>3. Structs \subseteq Structs' /\ \A q \in Structs' : q = p \/ q \in Structs
      <3>1. \A i \in DOMAIN list : list[i] \in Structs'
        BY <2>2 DEF Structs, ToSet
      <3>2. \A i \in DOMAIN list' : list'[i] = p \/ list'[i] \in Structs
        BY <2>2 DEF Structs, ToSet
      <3> QED
        BY <3>1, <3>2 DEF Structs, ToSet
    <2> QED
      BY <1>1, <2>1, <2>3 DEF Linked, Quiet, Same
  <1> QED
    BY <1>2, <1>3

LEMMA SameLinked ==
  ASSUME TypeInv, Linked, list' = list, \A p \in Ptr : win'[p].prevTrans = win[p].prevTrans
  PROVE  Linked'
  <1>1. Structs' = Structs /\ Structs \subseteq Ptr
    BY StructsType DEF TypeInv, Structs
  <1> QED
    BY <1>1 DEF Linked

LEMMA HandleLinked ==
  ASSUME TypeInv, ListOK, Linked, Handle PROVE Linked'
  <1>1. evq[1].id \in Id /\ Head(evq) = evq[1] /\ \A p \in Ptr : WinOK(win[p])
    BY HandleQueue DEF ListOK
  <1> DEFINE id == evq[1].id
  <1>2. CASE AddWin(id)
    BY <1>1, <1>2, AddWinLinked
  <1>3. CASE MapWin(id)
    <2>1. list' = list /\ \A q \in Ptr : win'[q].prevTrans = win[q].prevTrans
      BY <1>1, <1>3, MapWinEffect DEF Quiet, Same
    <2> QED
      BY <2>1, SameLinked
  <1>4. CASE UnmapWin(id)
    <2>1. list' = list /\ \A q \in Ptr : win'[q].prevTrans = win[q].prevTrans
      BY <1>1, <1>4, UnmapWinEffect
    <2> QED
      BY <2>1, SameLinked
  <1>5. CASE DestroyWin(id)
    <2>1. list' = list /\ \A q \in Ptr : win'[q].prevTrans = win[q].prevTrans
      BY <1>1, <1>5, DestroyWinEffect
    <2> QED
      BY <2>1, SameLinked
  <1> QED
    BY <1>1, <1>2, <1>3, <1>4, <1>5 DEF Handle

LEMMA ShownChain ==
  ASSUME TypeInv, ListOK, ChainInv, PreprocessShown PROVE ChainInv'
  <1>1. PICK C : Chain(C)
    BY DEF ChainInv
  <1>2. cur \in Ptr /\ Structs \subseteq Ptr /\ \A p \in Ptr : WinOK(win[p])
    BY StructsType DEF TypeInv, TypeOK, ListOK, PreprocessShown
  <1>3. /\ pc = "pre" /\ pc' = "pre" /\ cur \in Structs /\ list' = list
        /\ t' = cur /\ cur' = NextStruct(cur)
        /\ ~win'[cur].opctChange /\ win'[cur].opacity # 0 /\ win'[cur].prevTrans = t
        /\ \A q \in Ptr \ {cur} : win'[q] = win[q]
    BY <1>2, ShownEffect
  <1>4. Structs' = Structs
    BY <1>3 DEF Structs
  <1>5. \A q \in C \cup {cur} : Walked(q)' /\ (q \in C => q # cur)
    BY <1>1, <1>3, WalkedNext DEF Chain
  <1>8. PICK D : D = C \cup {cur}
    OBVIOUS
  <1>6. Chain(D)'
    <2>1. \A q \in C : q \in Ptr /\ win'[q] = win[q]
      BY <1>1, <1>2, <1>3, <1>5 DEF Chain
    <2> QED
      BY <1>1, <1>3, <1>4, <1>5, <1>8, <2>1 DEF Chain
  <1>7. Linked'
    BY <1>1, <1>2, <1>3, <1>4 DEF ChainInv, Linked, Chain
  <1> QED
    BY <1>3, <1>6, <1>7 DEF ChainInv

LEMMA SkippedChain ==
  ASSUME TypeInv, TypeInv', ListOK, DepartInv, ChainInv, PreprocessSkipped PROVE ChainInv'
  <1>1. PICK C : Chain(C)
    BY DEF ChainInv
  <1>2. /\ cur \in Ptr /\ Structs \subseteq Ptr /\ \A p \in Ptr : WinOK(win[p])
        /\ list \in Seq(Ptr) /\ Distinct(list)
    BY StructsType DEF TypeInv, TypeOK, ListOK, PreprocessSkipped
  <1>3. /\ pc = "pre" /\ pc' = "pre" /\ cur \in Structs /\ t' = t /\ cur' = NextStruct(cur)
        /\ \E w, idle : /\ Same(w, win[cur])
                        /\ Unfinished(cur, w, idle) \/ Finished(cur, w) \/ Freed(cur, w)
    BY <1>2, SkippedEffect
  <1>4. /\ list' = list \/ \E w : Released(cur, w)
        /\ \A q \in Structs' :
             /\ q \in Structs
             /\ win'[q].prevTrans \in {win[q].prevTrans, Null} \ (Structs \ Structs')
        /\ \A q \in Structs' \ {cur} : /\ win'[q].opacity = win[q].opacity
                                       /\ win'[q].opctChange = win[q].opctChange
    BY <1>2, <1>3, CheckFadeFinLife
  <1>5. Linked'
    BY <1>4 DEF ChainInv, Linked
  <1>6. C \subseteq Structs /\ cur \notin C
    BY <1>1, <1>3, WalkedNext DEF Chain
  <1>7. C \subseteq Structs' /\ \A q \in C : Walked(q)'
    <2>1. CASE list' = list
      BY <1>1, <1>3, <1>6, <2>1, WalkedNext DEF Chain, Structs
    <2>2. CASE \E w : Released(cur, w)
      <3>1. /\ Structs' = Structs \ {cur}
            /\ \A q, r : Precedes(list, q, r) /\ q # cur /\ r # cur => Precedes(list', q, r)
        BY <2>2 DEF Released
      <3>2. /\ ~Precedes(list, cur, cur) /\ cur # Null
            /\ \A q \in Structs : NextStruct(cur) = Null \/ Precedes(list, q, NextStruct(cur))
                                    <=> q = cur \/ Precedes(list, q, cur)
        BY <1>2, <1>3, NextPrecedes, WindowsAssumption
      <3>3. NextStruct(cur) # cur
        BY <1>3, <3>2
      <3>4. \A q \in C : Precedes(list, q, cur)
        BY <1>1, <1>3, <3>2 DEF Chain, Walked
      <3> QED
        BY <1>3, <1>6, <3>1, <3>2, <3>3, <3>4 DEF Walked
    <2> QED
      BY <1>4, <2>1, <2>2
  <1>8. Chain(C)'
    BY <1>1, <1>3, <1>4, <1>6, <1>7 DEF Chain
  <1> QED
    BY <1>3, <1>5, <1>8 DEF ChainInv

(* A struct of the chain whose fade is over has finish_map_win as callback. *)
LEMMA ChainFinished ==
  ASSUME TypeInv, ListOK, NEW C, Chain(C), NEW p \in C, FadeFinished(win[p])
  PROVE  win[p].cb = "map"
  <1>1. p \in Ptr /\ win[p] \in Win /\ WinOK(win[p]) /\ CallbackOK
    BY StructsType DEF TypeInv, ListOK, Chain
  <1>2. win[p].cb \in Callback
    BY <1>1, Zenon DEF Win
  <1>3. win[p].viewable
    BY <1>1 DEF Chain, WinOK, FadeFinished
  <1> QED
    BY <1>1, <1>2, <1>3 DEF WinOK, CallbackOK, FadeFinished, Callback

LEMMA PostPaintChain ==
  ASSUME TypeInv, ListOK, ChainInv, PostPaint PROVE ChainInv'
  <1>1. PICK C : Chain(C)
    BY DEF ChainInv
  <1>2. /\ pc = "post" /\ pc' = "post" /\ cur \in Ptr /\ Structs \subseteq Ptr
        /\ t' = t /\ cur' = win[cur].prevTrans /\ cur # Null
        /\ \/ Unfinished(cur, win[cur], idling)
           \/ Finished(cur, win[cur])
           \/ Freed(cur, win[cur])
    BY PostPaintEffect, StructsType DEF TypeInv, PostPaint
  <1>3. cur \in C
    BY <1>1, <1>2 DEF Chain
  <1>4. ~Freed(cur, win[cur])
    BY <1>1, <1>3, ChainFinished DEF Freed
  <1>5. /\ list' = list
        /\ \A q \in Ptr : /\ win'[q].prevTrans = win[q].prevTrans
                          /\ win'[q].opacity = win[q].opacity
                          /\ win'[q].opctChange = win[q].opctChange
    BY <1>2, <1>4 DEF Unfinished, Finished
  <1>6. Structs' = Structs
    BY <1>5 DEF Structs
  <1>7. Chain(C)'
    BY <1>1, <1>2, <1>3, <1>5, <1>6 DEF Chain, Walked
  <1>8. Linked'
    BY <1>2, <1>5, <1>6 DEF ChainInv, Linked
  <1> QED
    BY <1>2, <1>7, <1>8 DEF ChainInv

LEMMA ChainStep ==
  ASSUME TypeInv, TypeInv', ListOK, DepartInv, ChainInv, [Next]_vars PROVE ChainInv'
  <1>1. Structs \subseteq Ptr
    BY StructsType DEF TypeInv
  <1>2. CASE UNCHANGED vars
    BY <1>2 DEF vars, listVars, cycleVars, ChainInv, Chain, Linked, Structs, Walked
  <1>3. CASE ServerStep
    <2>1. Linked' /\ t' = Null /\ cur' = Null /\ pc' = "loop"
      BY <1>3 DEF ServerStep, listVars, cycleVars, ChainInv, Linked, Structs
    <2> QED
      BY <2>1, EmptyChain
  <1>4. CASE InitAdd
    <2>1. Linked' /\ t' = Null /\ cur' = Null /\ pc' = "init"
      BY <1>4, AddWinLinked DEF InitAdd, cycleVars, ChainInv
    <2> QED
      BY <2>1, EmptyChain
  <1>5. CASE Handle
    <2>1. Linked' /\ t' = Null /\ cur' = Null /\ pc' = "loop"
      BY <1>5, HandleLinked DEF Handle, cycleVars, ChainInv
    <2> QED
      BY <2>1, EmptyChain
  <1>6. CASE InitDone
    <2>1. Linked'
      BY <1>6, QuietSteps, SameLinked DEF ChainInv, Quiet, Same
    <2>2. t' = Null /\ pc' = "pre"
      BY <1>6 DEF InitDone, ChainInv
    <2> QED
      BY <2>1, <2>2, EmptyChain
  <1>7. CASE DamageWin \/ FocusEvent \/ OpacityEvent \/ OtherEvent
    <2>1. Linked'
      BY <1>7, QuietSteps, SameLinked DEF ChainInv, Quiet, Same
    <2>2. t' = Null /\ cur' = Null /\ pc' = "loop"
      BY <1>7 DEF DamageWin, FocusEvent, OpacityEvent, OtherEvent, Arrives, cycleVars, ChainInv
    <2> QED
      BY <2>1, <2>2, EmptyChain
  <1>8. CASE \E n \in 0 .. MaxSteps : BeginPaint(n)
    <2>1. Linked' /\ t' = Null /\ pc' = "pre"
      BY <1>8 DEF BeginPaint, listVars, ChainInv, Linked, Structs
    <2> QED
      BY <2>1, EmptyChain
  <1>9. CASE EndPreprocess \/ PaintWin \/ EndPaint \/ EndCycle
    <2>1. PICK C : Chain(C)
      BY DEF ChainInv
    <2>2. list' = list /\ Structs' = Structs /\ \A p \in Ptr : Still(win'[p], win[p])
      BY <1>9, StillSteps DEF Structs
    <2>3. Linked'
      BY <2>2, SameLinked DEF ChainInv, Still, Same
    <2>4. CASE EndPreprocess \/ PaintWin \/ EndPaint
      <3>1. pc' \in {"paint", "post"} /\ t' = t /\ cur' \in C \cup {Null}
        <4>1. CASE EndPreprocess
          BY <2>1, <4>1 DEF EndPreprocess, Chain
        <4>2. CASE PaintWin
          BY <2>1, <4>2, Zenon DEF PaintWin, Chain
        <4>3. CASE EndPaint
          BY <2>1, <4>3 DEF EndPaint, Chain
        <4> QED
          BY <2>4, <4>1, <4>2, <4>3
      <3>2. Chain(C)'
        BY <1>1, <2>1, <2>2, <3>1 DEF Chain, Still, Same, Walked
      <3> QED
        BY <2>3, <3>1, <3>2 DEF ChainInv
    <2>5. CASE EndCycle
      <3>1. t' = Null /\ cur' = Null /\ pc' = "loop"
        BY <2>5 DEF EndCycle
      <3> QED
        BY <2>3, <3>1, EmptyChain
    <2> QED
      BY <1>9, <2>4, <2>5
  <1>10. CASE PreprocessShown
    BY <1>10, ShownChain
  <1>11. CASE PreprocessSkipped
    BY <1>11, SkippedChain
  <1>12. CASE PostPaint
    BY <1>12, PostPaintChain
  <1> QED
    BY <1>2, <1>3, <1>4, <1>5, <1>6, <1>7, <1>8, <1>9, <1>10, <1>11, <1>12
       DEF Next, Preprocess, Paint

(* The invariant of the life of a struct, and the step that keeps it.       *)
LifeInv == TypeInv /\ ListOK /\ FocusIsViewable /\ DepartInv /\ ChainInv

LEMMA LifeInit ==
  ASSUME Init PROVE LifeInv
  <1>1. FocusIsViewable /\ Structs = {} /\ cur = Null /\ t = Null /\ pc = "init"
    BY DEF Init, FocusIsViewable, Structs, ToSet
  <1>2. ChainInv
    BY <1>1 DEF ChainInv, Chain, Linked
  <1> QED
    BY <1>1, <1>2, TypeInit, ListInit, DepartInit DEF LifeInv

LEMMA LifeStep ==
  ASSUME ~Overlap, LifeInv, [Next]_vars PROVE LifeInv'
  BY TypeStep, ListStep, FocusStep, DepartStep, ChainStep DEF LifeInv

(* No pointer outlives the struct it points to: neither the focus, nor      *)
(* prev_trans, nor a cursor of the paint cycle, nor the head of its chain,  *)
(* wherever on the list finish_destroy_win frees a struct in the cycle.     *)
THEOREM NothingDangles == ASSUME ~Overlap PROVE Spec => []NoDangling
  <1>1. ASSUME LifeInv PROVE NoDangling
    <2>1. activeWin \in Structs \cup {Null}
      BY <1>1 DEF LifeInv, FocusIsViewable, Live
    <2>2. PICK C : Chain(C)
      BY <1>1 DEF LifeInv, ChainInv
    <2>3. cur \in Structs \cup {Null}
      BY <1>1, <2>2 DEF LifeInv, ChainInv, Chain, TypeInv, TypeOK, CursorOK
    <2> QED
      BY <1>1, <2>1, <2>2, <2>3 DEF LifeInv, ChainInv, Chain, Linked, NoDangling
  <1>2. Init => LifeInv
    BY LifeInit
  <1>3. LifeInv /\ [Next]_vars => LifeInv'
    BY LifeStep
  <1> QED
    BY <1>1, <1>2, <1>3, PTL DEF Spec

(* The last loop of paint_all runs no callback that adds damage: a window   *)
(* of the chain whose fade is over is viewable, so it was being mapped.     *)
THEOREM PostPaintSafe == ASSUME ~Overlap PROVE Spec => []NoDamageAfterPaint
  <1>1. ASSUME LifeInv PROVE NoDamageAfterPaint
    <2>1. PICK C : Chain(C)
      BY <1>1 DEF LifeInv, ChainInv
    <2> QED
      BY <1>1, <2>1, ChainFinished DEF LifeInv, Chain, NoDamageAfterPaint
  <1>2. Init => LifeInv
    BY LifeInit
  <1>3. LifeInv /\ [Next]_vars => LifeInv'
    BY LifeStep
  <1> QED
    BY <1>1, <1>2, <1>3, PTL DEF Spec

(* Only paint_preprocess frees a struct, and only that of its own cursor.   *)
LEMMA FreedByOwnCallback ==
  ASSUME ~Overlap, LifeInv, [Next]_vars, NEW p \in Structs, p \notin ToSet(list')
  PROVE  /\ PreprocessSkipped /\ p = cur /\ win[p].destroyed
         /\ win[p].opacity <= (IF win[p].fadeLast THEN steps ELSE Opaque)
  <1>1. /\ Structs \subseteq Ptr /\ list \in Seq(Ptr) /\ \A q \in Ptr : WinOK(win[q])
        /\ TypeInv'
    BY StructsType, TypeStep DEF LifeInv, TypeInv, TypeOK, ListOK
  <1> USE DEF Structs
  <1>2. list' # list
    OBVIOUS
  <1>3. ~ \E id \in Id : AddWin(id)
    <2> SUFFICES ASSUME NEW id \in Id, AddWin(id) PROVE FALSE
      OBVIOUS
    <2>1. Structs \subseteq ToSet(list')
      BY AddWinType DEF LifeInv
    <2> QED
      BY <2>1
  <1>4. ~Handle
    <2> SUFFICES ASSUME Handle PROVE FALSE
      OBVIOUS
    <2>1. evq[1].id \in Id /\ Head(evq) = evq[1]
      BY HandleQueue DEF LifeInv
    <2> QED
      BY <1>1, <1>2, <1>3, <2>1, DestroyWinEffect, MapWinEffect, UnmapWinEffect
         DEF Handle, LifeInv
  <1>5. PreprocessSkipped \/ PostPaint
    BY <1>1, <1>2, <1>3, <1>4, QuietSteps, StillSteps
       DEF Next, Preprocess, Paint, InitAdd, ServerStep, BeginPaint, PreprocessShown,
           vars, listVars, LifeInv
  <1>6. ~PostPaint
    <2> SUFFICES ASSUME PostPaint PROVE FALSE
      OBVIOUS
    <2>1. Freed(cur, win[cur])
      BY <1>2, PostPaintEffect DEF LifeInv, Unfinished, Finished
    <2>2. PICK C : Chain(C)
      BY DEF LifeInv, ChainInv
    <2>3. pc = "post" /\ cur # Null
      BY DEF PostPaint
    <2>4. cur \in C
      BY <2>2, <2>3 DEF Chain
    <2> QED
      BY <2>1, <2>2, <2>4, ChainFinished DEF Freed, LifeInv
  <1>7. cur \in Ptr
    BY <1>5, <1>6 DEF PreprocessSkipped, LifeInv, TypeInv, TypeOK
  <1>8. PICK w \in Win :
          /\ Same(w, win[cur]) /\ w.tgt = Target(win[cur]) /\ WinOK(w)
          /\ w.opctChange = win[cur].opctChange
          /\ w.opacity = 0 /\ ~w.viewable =>
               win[cur].opacity <= (IF win[cur].fadeLast THEN steps ELSE Opaque)
          /\ \/ Unfinished(cur, w, idling /\ w.opacity = w.tgt)
             \/ Finished(cur, w)
             \/ Freed(cur, w)
    BY <1>1, <1>5, <1>6, <1>7, SkippedEffect DEF LifeInv
  <1>9. Released(cur, w)
    <2>1. list' = list \/ Released(cur, w)
      <3> DEFINE idle == idling /\ w.opacity = w.tgt
      <3>1. Unfinished(cur, w, idle) \/ Finished(cur, w) \/ Freed(cur, w)
        BY <1>8
      <3> HIDE DEF idle
      <3> QED
        BY <1>1, <1>7, <1>8, <3>1, CheckFadeFinLife DEF LifeInv
    <2> QED
      BY <1>2, <2>1
  <1>10. p = cur /\ w.destroyed /\ w.opacity = w.tgt
    BY <1>9 DEF Released, FadeFinished
  <1>11. ~w.viewable /\ w.tgt = 0 /\ win[cur].destroyed
    BY <1>8, <1>10 DEF WinOK, Same, Target
  <1> QED
    BY <1>5, <1>6, <1>8, <1>10, <1>11

(* A struct is freed only at the end of its own fade-out, never by the      *)
(* callback of another window nor while it is still to be seen.             *)
THEOREM FreedAtItsEnd == ASSUME ~Overlap PROVE Spec => FreedWhenFaded
  <1>1. Init => LifeInv
    BY LifeInit
  <1>2. LifeInv /\ [Next]_vars => LifeInv'
    BY LifeStep
  <1>3. LifeInv /\ [Next]_vars =>
          [\A p \in Structs :
             p \notin ToSet(list') =>
               /\ win[p].destroyed
               /\ win[p].opacity <= (IF win[p].fadeLast THEN steps ELSE Opaque)]_vars
    BY FreedByOwnCallback
  <1> QED
    BY <1>1, <1>2, <1>3, PTL DEF Spec, FreedWhenFaded

------------------------------------------------------------------------------
(* The list and the server.  For a window, what compton knows of it is      *)
(* whether there is a live struct, and whether that is viewable.            *)
Showing(id) == \E p \in Structs : IsLiveOf(p, id) /\ win[p].viewable
LiveOnce == \A p, q \in Structs : Live(p) /\ Live(q) /\ win[p].id = win[q].id => p = q

(* A step that leaves the live structs as they are.                         *)
LEMMA LookKept ==
  ASSUME LiveOnce, Structs' \subseteq Structs,
         \A p \in Structs \ Structs' : win[p].destroyed,
         \A p \in Structs' : /\ win'[p].id = win[p].id
                             /\ win'[p].destroyed = win[p].destroyed
                             /\ win'[p].viewable = win[p].viewable
  PROVE  LiveOnce' /\ \A id : (Found(id)' <=> Found(id)) /\ (Showing(id)' <=> Showing(id))
  <1>1. \A p : Live(p)' <=> Live(p)
    BY DEF Live
  <1>2. \A p, id : /\ IsLiveOf(p, id)' <=> IsLiveOf(p, id)
                   /\ IsLiveOf(p, id) => p \in Structs /\ p \in Structs'
                                         /\ win'[p].viewable = win[p].viewable
    BY <1>1 DEF IsLiveOf, Live
  <1>3. LiveOnce'
    BY <1>1 DEF LiveOnce
  <1>4. \A id : Found(id)' <=> Found(id)
    BY <1>2 DEF Found
  <1>5. \A id : Showing(id)' <=> Showing(id)
    BY <1>2 DEF Showing
  <1> QED
    BY <1>3, <1>4, <1>5

(* add_win finds nothing to add, or adds the struct of the window.          *)
LEMMA AddWinLook ==
  ASSUME TypeInv, ListOK, LiveOnce, NEW id \in Id, AddWin(id)
  PROVE  /\ LiveOnce'
         /\ \A i \in Id : i # id => (Found(i)' <=> Found(i)) /\ (Showing(i)' <=> Showing(i))
         /\ \/ /\ (Found(id)' <=> Found(id)) /\ (Showing(id)' <=> Showing(id))
               /\ Found(id) \/ "fail" \in Attributes(id)
            \/ /\ ~Found(id) /\ Found(id)'
               /\ \E attr \in Attributes(id) : Showing(id)' <=> attr = "viewable"
  <1>1. CASE UNCHANGED <<list, win>> /\ (Found(id) \/ "fail" \in Attributes(id))
    <2>1. Structs' = Structs
      BY <1>1 DEF Structs
    <2> QED
      BY <1>1, <2>1 DEF LiveOnce, Found, Showing, IsLiveOf, Live
  <1>2. CASE ~(UNCHANGED <<list, win>> /\ (Found(id) \/ "fail" \in Attributes(id)))
    <2>1. PICK p \in Ptr \ Structs, attr \in Attributes(id) :
            /\ list' = <<p>> \o list
            /\ win'[p].id = id /\ ~win'[p].destroyed
            /\ win'[p].viewable <=> attr = "viewable"
            /\ \A q \in Ptr : q # p => Quiet(win'[q], win[q])
      BY <1>2, AddWinEffect
    <2>2. ~Found(id) /\ list \in Seq(Ptr) /\ Structs \subseteq Ptr /\ Distinct(list)
      BY <1>2, AddWinEffect, StructsType DEF TypeInv, TypeOK, ListOK
    <2>3. Structs' = Structs \cup {p}
      BY <2>1, <2>2, ConsDistinct DEF Structs
    <2>4. \A q \in Structs : /\ q \in Structs' /\ q # p /\ win'[q].id = win[q].id
                             /\ win'[q].destroyed = win[q].destroyed
                             /\ win'[q].viewable = win[q].viewable
      BY <2>1, <2>2, <2>3 DEF Quiet, Same
    <2>5. \A q : /\ q \in Structs => (Live(q)' <=> Live(q))
                 /\ q \in Structs' <=> q \in Structs \/ q = p
      BY <2>3, <2>4 DEF Live
    <2>6. \A q \in Structs : Live(q) => win[q].id # id
      BY <2>2 DEF Found, IsLiveOf
    <2>7. LiveOnce'
      BY <2>1, <2>4, <2>5, <2>6 DEF LiveOnce
    <2>8. /\ \A i \in Id, q \in Structs : IsLiveOf(q, i)' <=> IsLiveOf(q, i)
          /\ \A i \in Id : IsLiveOf(p, i)' <=> i = id
      BY <2>1, <2>3, <2>4, <2>5 DEF IsLiveOf, Live
    <2>9. \A i \in Id : i # id => (Found(i)' <=> Found(i))
      BY <2>5, <2>8 DEF Found
    <2>10. \A i \in Id : i # id => (Showing(i)' <=> Showing(i))
      BY <2>4, <2>5, <2>8 DEF Showing
    <2>11. Found(id)'
      BY <2>5, <2>8 DEF Found
    <2>12. Showing(id)' <=> attr = "viewable"
      BY <2>1, <2>2, <2>5, <2>8 DEF Showing, Found
    <2> QED
      BY <2>2, <2>7, <2>9, <2>10, <2>11, <2>12
  <1> QED
    BY <1>1, <1>2

(* map_win, unmap_win and destroy_win change the one struct find_win finds. *)
LEMMA OneChanged ==
  ASSUME TypeInv, ListOK, LiveOnce, NEW id \in Id, list' = list,
         \A q \in Ptr : \/ ~(Found(id) /\ q = FindWin(id)) /\ win'[q].id = win[q].id
                           /\ win'[q].destroyed = win[q].destroyed
                           /\ win'[q].viewable = win[q].viewable
                        \/ Found(id) /\ q = FindWin(id) /\ win'[q].id = win[q].id
                           /\ (win[q].destroyed => win'[q].destroyed)
  PROVE  /\ LiveOnce'
         /\ \A i \in Id : i # id => (Found(i)' <=> Found(i)) /\ (Showing(i)' <=> Showing(i))
         /\ ~Found(id) => ~Found(id)' /\ ~Showing(id)'
         /\ Found(id) => /\ Found(id)' <=> ~win'[FindWin(id)].destroyed
                         /\ Showing(id)' <=> /\ ~win'[FindWin(id)].destroyed
                                             /\ win'[FindWin(id)].viewable
  <1>1. /\ Structs' = Structs /\ Structs \subseteq Ptr
        /\ \A i \in Id : Found(i) => /\ FindWin(i) \in Structs
                                      /\ ~win[FindWin(i)].destroyed
                                      /\ win[FindWin(i)].id = i
    BY StructsType DEF TypeInv, Structs
  <1>2. \A q \in Structs : IsLiveOf(q, id) => Found(id) /\ q = FindWin(id)
    <2> SUFFICES ASSUME NEW q \in Structs, IsLiveOf(q, id) PROVE Found(id) /\ q = FindWin(id)
      OBVIOUS
    <2>1. Found(id)
      BY DEF Found
    <2> QED
      BY <1>1, <2>1 DEF LiveOnce, IsLiveOf, Live
  <1>3. \A q \in Structs : win'[q].id = win[q].id /\ (win[q].destroyed => win'[q].destroyed)
    BY <1>1
  <1>4. LiveOnce'
    BY <1>1, <1>3 DEF LiveOnce, Live
  <1>5. \A i \in Id, q \in Structs : i # id =>
          /\ IsLiveOf(q, i)' <=> IsLiveOf(q, i)
          /\ IsLiveOf(q, i) => win'[q].viewable = win[q].viewable
    <2> SUFFICES ASSUME NEW i \in Id, NEW q \in Structs, i # id
                 PROVE  /\ IsLiveOf(q, i)' <=> IsLiveOf(q, i)
                        /\ IsLiveOf(q, i) => win'[q].viewable = win[q].viewable
      OBVIOUS
    <2>1. CASE Found(id) /\ q = FindWin(id)
      BY <1>1, <1>3, <2>1 DEF IsLiveOf
    <2>2. CASE ~(Found(id) /\ q = FindWin(id))
      BY <1>1, <1>3, <2>2 DEF IsLiveOf, Live
    <2> QED
      BY <2>1, <2>2
  <1>6. \A i \in Id : i # id => (Found(i)' <=> Found(i)) /\ (Showing(i)' <=> Showing(i))
    BY <1>1, <1>5 DEF Found, Showing
  <1>7. \A q \in Structs : IsLiveOf(q, id)' => IsLiveOf(q, id)
    BY <1>1, <1>3 DEF IsLiveOf, Live
  <1>8. ~Found(id) => ~Found(id)' /\ ~Showing(id)'
    BY <1>1, <1>7 DEF Found, Showing
  <1>9. ASSUME Found(id)
        PROVE  /\ Found(id)' <=> ~win'[FindWin(id)].destroyed
               /\ Showing(id)' <=> /\ ~win'[FindWin(id)].destroyed
                                   /\ win'[FindWin(id)].viewable
    <2> DEFINE f == FindWin(id)
    <2>1. f \in Structs /\ win[f].id = id /\ win'[f].id = id
      BY <1>1, <1>3, <1>9
    <2>2. \A q \in Structs : IsLiveOf(q, id)' <=> q = f /\ ~win'[f].destroyed
      <3> SUFFICES ASSUME NEW q \in Structs
                   PROVE  IsLiveOf(q, id)' <=> q = f /\ ~win'[f].destroyed
        OBVIOUS
      <3>1. IsLiveOf(q, id)' => q = f
        BY <1>2, <1>7
      <3> HIDE DEF f
      <3>2. q = f => (IsLiveOf(q, id)' <=> ~win'[f].destroyed)
        BY <1>1, <2>1 DEF IsLiveOf, Live
      <3> QED
        BY <3>1, <3>2
    <2> HIDE DEF f
    <2>3. Found(id)' <=> ~win'[f].destroyed
      BY <1>1, <2>1, <2>2 DEF Found
    <2>4. Showing(id)' <=> ~win'[f].destroyed /\ win'[f].viewable
      BY <1>1, <2>1, <2>2 DEF Showing
    <2> QED
      BY <2>3, <2>4 DEF f
  <1> QED
    BY <1>4, <1>6, <1>8, <1>9

LEMMA HandlerLook ==
  ASSUME TypeInv, ListOK, LiveOnce, NEW id \in Id,
         MapWin(id) \/ UnmapWin(id) \/ DestroyWin(id)
  PROVE  /\ LiveOnce'
         /\ \A i \in Id : i # id => (Found(i)' <=> Found(i)) /\ (Showing(i)' <=> Showing(i))
         /\ MapWin(id) => (Found(id)' <=> Found(id)) /\ (Showing(id)' <=> Found(id))
         /\ UnmapWin(id) => (Found(id)' <=> Found(id)) /\ ~Showing(id)'
         /\ DestroyWin(id) => ~Found(id)' /\ ~Showing(id)'
  <1>1. \A p \in Ptr : WinOK(win[p])
    BY DEF ListOK
  <1>2. Found(id) => FindWin(id) \in Ptr /\ ~win[FindWin(id)].destroyed
                     /\ win[FindWin(id)].id = id
    BY StructsType DEF TypeInv
  <1> DEFINE f == FindWin(id)
  <1>3. ASSUME MapWin(id)
        PROVE  /\ list' = list
               /\ \A q \in Ptr : \/ ~(Found(id) /\ q = f) /\ win'[q].id = win[q].id
                                    /\ win'[q].destroyed = win[q].destroyed
                                    /\ win'[q].viewable = win[q].viewable
                                 \/ Found(id) /\ q = f /\ win'[q].id = win[q].id
                                    /\ (win[q].destroyed => win'[q].destroyed)
               /\ Found(id) => ~win'[f].destroyed /\ win'[f].viewable
    <2> HIDE DEF f
    <2>1. /\ list' = list
          /\ \A q \in Ptr :
               \/ Quiet(win'[q], win[q])
               \/ /\ Found(id) /\ q = f /\ ~win'[q].destroyed
                  /\ win'[q].id = win[q].id
          /\ Found(id) => win'[f].viewable
      BY <1>3, MapWinEffect DEF f
    <2>2. Found(id) => f \in Ptr /\ ~win[f].destroyed
      BY <1>2 DEF f
    <2> QED
      BY <2>1, <2>2 DEF Quiet, Same
  <1>4. ASSUME UnmapWin(id)
        PROVE  /\ list' = list
               /\ \A q \in Ptr : \/ ~(Found(id) /\ q = f) /\ win'[q].id = win[q].id
                                    /\ win'[q].destroyed = win[q].destroyed
                                    /\ win'[q].viewable = win[q].viewable
                                 \/ Found(id) /\ q = f /\ win'[q].id = win[q].id
                                    /\ (win[q].destroyed => win'[q].destroyed)
               /\ Found(id) => ~win'[f].destroyed /\ ~win'[f].viewable
    <2> HIDE DEF f
    <2>1. /\ list' = list
          /\ \A q \in Ptr :
               \/ win'[q] = win[q]
               \/ /\ Found(id) /\ q = f /\ ~win'[q].destroyed
                  /\ win'[q].id = win[q].id
          /\ Found(id) => ~win'[f].viewable
      BY <1>1, <1>4, UnmapWinEffect DEF f
    <2>2. Found(id) => f \in Ptr /\ ~win[f].destroyed
      BY <1>2 DEF f
    <2> QED
      BY <2>1, <2>2
  <1>5. ASSUME DestroyWin(id)
        PROVE  /\ list' = list
               /\ \A q \in Ptr : \/ ~(Found(id) /\ q = f) /\ win'[q].id = win[q].id
                                    /\ win'[q].destroyed = win[q].destroyed
                                    /\ win'[q].viewable = win[q].viewable
                                 \/ Found(id) /\ q = f /\ win'[q].id = win[q].id
                                    /\ (win[q].destroyed => win'[q].destroyed)
               /\ Found(id) => win'[f].destroyed
    <2> HIDE DEF f
    <2>1. /\ list' = list
          /\ \A q \in Ptr :
               \/ win'[q] = win[q] /\ ~(Found(id) /\ q = f)
               \/ /\ Found(id) /\ q = f /\ win'[q].destroyed
                  /\ win'[q].id = win[q].id
      BY <1>1, <1>5, DestroyWinEffect DEF f
    <2>2. Found(id) => f \in Ptr /\ ~win[f].destroyed
      BY <1>2 DEF f
    <2> QED
      BY <2>1, <2>2
  <1>6. list' = list /\ \A q \in Ptr :
          \/ ~(Found(id) /\ q = f) /\ win'[q].id = win[q].id
             /\ win'[q].destroyed = win[q].destroyed
             /\ win'[q].viewable = win[q].viewable
          \/ Found(id) /\ q = f /\ win'[q].id = win[q].id
             /\ (win[q].destroyed => win'[q].destroyed)
    BY <1>3, <1>4, <1>5
  <1>7. /\ LiveOnce'
        /\ \A i \in Id : i # id => (Found(i)' <=> Found(i)) /\ (Showing(i)' <=> Showing(i))
        /\ ~Found(id) => ~Found(id)' /\ ~Showing(id)'
        /\ Found(id) => /\ Found(id)' <=> ~win'[f].destroyed
                        /\ Showing(id)' <=> ~win'[f].destroyed /\ win'[f].viewable
    BY <1>6, OneChanged
  <1> HIDE DEF f
  <1>8. MapWin(id) => (Found(id)' <=> Found(id)) /\ (Showing(id)' <=> Found(id))
    BY <1>3, <1>7
  <1>9. UnmapWin(id) => (Found(id)' <=> Found(id)) /\ ~Showing(id)'
    BY <1>4, <1>7
  <1>10. DestroyWin(id) => ~Found(id)' /\ ~Showing(id)'
    BY <1>5, <1>7
  <1> QED
    BY <1>7, <1>8, <1>9, <1>10

(* No other step adds or removes a live struct, or maps or unmaps one.      *)
LEMMA CheckFadeFinLook ==
  ASSUME TypeInv, ListOK, LiveOnce, NEW p \in Ptr, NEW w, Same(w, win[p]), NEW idle,
         Unfinished(p, w, idle) \/ Finished(p, w) \/ Freed(p, w)
  PROVE  LiveOnce' /\ \A id : (Found(id)' <=> Found(id)) /\ (Showing(id)' <=> Showing(id))
  <1>1. list \in Seq(Ptr) /\ Structs \subseteq Ptr /\ Distinct(list)
    BY StructsType DEF TypeInv, TypeOK, ListOK
  <1>2. CASE Unfinished(p, w, idle) \/ Finished(p, w)
    <2>1. /\ Structs' = Structs
          /\ \A q \in Structs : /\ win'[q].id = win[q].id
                                /\ win'[q].destroyed = win[q].destroyed
                                /\ win'[q].viewable = win[q].viewable
      BY <1>1, <1>2 DEF Unfinished, Finished, Same, Structs
    <2> QED
      BY <2>1, LookKept
  <1>3. CASE Freed(p, w)
    <2>1. PICK k \in DOMAIN list :
            /\ list' = RemoveAt(list, k) /\ win[list[k]].destroyed
            /\ \A q \in Ptr \ {list[k]} :
                 LET v == IF q = p THEN w ELSE win[q]
                 IN  /\ win'[q].id = v.id /\ win'[q].destroyed = v.destroyed
                     /\ win'[q].viewable = v.viewable
      BY <1>3 DEF Freed
    <2>2. Structs' = Structs \ {list[k]}
      BY <1>1, <2>1, RemoveDistinct DEF Structs
    <2>3. \A q \in Structs' : /\ win'[q].id = win[q].id
                              /\ win'[q].destroyed = win[q].destroyed
                              /\ win'[q].viewable = win[q].viewable
      BY <1>1, <2>1, <2>2 DEF Same
    <2> QED
      BY <2>1, <2>2, <2>3, LookKept
  <1> QED
    BY <1>2, <1>3

LEMMA OtherLook ==
  ASSUME TypeInv, ListOK, LiveOnce, [Next]_vars, ~InitAdd, ~Handle
  PROVE  LiveOnce' /\ \A id : (Found(id)' <=> Found(id)) /\ (Showing(id)' <=> Showing(id))
  <1>1. Structs \subseteq Ptr /\ \A p \in Ptr : WinOK(win[p])
    BY StructsType DEF TypeInv, ListOK
  <1>2. ASSUME list' = list,
               \A p \in Ptr : /\ win'[p].id = win[p].id
                              /\ win'[p].destroyed = win[p].destroyed
                              /\ win'[p].viewable = win[p].viewable
        PROVE  LiveOnce' /\ \A id : (Found(id)' <=> Found(id)) /\ (Showing(id)' <=> Showing(id))
    <2>1. Structs' = Structs
      BY <1>2 DEF Structs
    <2> QED
      BY <1>1, <1>2, <2>1, LookKept
  <1>3. CASE UNCHANGED vars \/ ServerStep \/ \E n \in 0 .. MaxSteps : BeginPaint(n)
    <2>1. UNCHANGED <<list, win>>
      BY <1>3 DEF vars, listVars, ServerStep, BeginPaint
    <2> QED
      BY <1>2, <2>1
  <1>4. CASE InitDone \/ DamageWin \/ FocusEvent \/ OpacityEvent \/ OtherEvent
    BY <1>2, <1>4, QuietSteps DEF Quiet, Same
  <1>5. CASE EndPreprocess \/ PaintWin \/ EndPaint \/ EndCycle
    BY <1>2, <1>5, StillSteps DEF Still, Same
  <1>6. CASE PreprocessShown
    <2>1. cur \in Ptr
      BY <1>6 DEF PreprocessShown, TypeInv, TypeOK
    <2> QED
      BY <1>1, <1>2, <1>6, <2>1, ShownEffect
  <1>7. CASE PreprocessSkipped
    <2>1. cur \in Ptr
      BY <1>7 DEF PreprocessSkipped, TypeInv, TypeOK
    <2>2. \E w, idle : /\ Same(w, win[cur])
                       /\ Unfinished(cur, w, idle) \/ Finished(cur, w) \/ Freed(cur, w)
      BY <1>1, <1>7, <2>1, SkippedEffect
    <2> QED
      BY <2>1, <2>2, CheckFadeFinLook
  <1>8. CASE PostPaint
    <2>1. /\ cur \in Ptr /\ Same(win[cur], win[cur])
          /\ Unfinished(cur, win[cur], idling) \/ Finished(cur, win[cur])
               \/ Freed(cur, win[cur])
      BY <1>8, PostPaintEffect DEF Same
    <2> QED
      BY <2>1, CheckFadeFinLook
  <1> QED
    BY <1>3, <1>4, <1>5, <1>6, <1>7, <1>8 DEF Next, Preprocess, Paint

------------------------------------------------------------------------------
(* The events on their way explain every difference between the list and    *)
(* the server.  By windows: with no event queued, or none that brings or    *)
(* takes the window, compton knows all or whether it is there; the last     *)
(* event tells where the server has the window; an "enter" and a "leave"    *)
(* are taken back by a later event unless the server still agrees; and they *)
(* alternate, the first "enter" finding no live struct.                     *)
Of(i, id) == evq[i].id = id
Brings(i, id) == evq[i].id = id /\ evq[i].type = "enter"
Takes(i, id) == evq[i].id = id /\ evq[i].type = "leave"
Tells(type) ==
  CASE type = "enter" -> {"unmapped"}
    [] type = "map"   -> {"viewable"}
    [] type = "unmap" -> {"unmapped"}
    [] type = "leave" -> {"gone", "elsewhere"}

AllKnown(id) ==
  (\A i \in DOMAIN evq : ~Of(i, id)) =>
    (Found(id) <=> RootChild(id)) /\ (Showing(id) <=> sv[id] = "viewable")
PresenceKnown(id) ==
  (\A i \in DOMAIN evq : ~Brings(i, id) /\ ~Takes(i, id)) => (Found(id) <=> RootChild(id))
LastTells(id) ==
  \A i \in DOMAIN evq :
    Of(i, id) /\ (\A k \in DOMAIN evq : k > i => ~Of(k, id)) => sv[id] \in Tells(evq[i].type)
EnterUndone(id) ==
  ~RootChild(id) =>
    \A i \in DOMAIN evq : Brings(i, id) => \E k \in DOMAIN evq : k > i /\ Takes(k, id)
LeaveUndone(id) ==
  RootChild(id) =>
    \A i \in DOMAIN evq : Takes(i, id) => \E k \in DOMAIN evq : k > i /\ Brings(k, id)
FirstEnter(id) ==
  \A i \in DOMAIN evq :
    Brings(i, id) /\ (\A k \in DOMAIN evq : k < i => ~Brings(k, id) /\ ~Takes(k, id)) =>
      ~Found(id)
Alternate(id) ==
  \A i, j \in DOMAIN evq :
    i < j /\ Brings(i, id) /\ Brings(j, id) =>
      \E k \in DOMAIN evq : i < k /\ k < j /\ Takes(k, id)

Explained(id) ==
  /\ AllKnown(id) /\ PresenceKnown(id) /\ LastTells(id)
  /\ EnterUndone(id) /\ LeaveUndone(id) /\ FirstEnter(id) /\ Alternate(id)

SyncInv ==
  /\ LiveOnce
  /\ pc = "init" =>
       /\ evq = <<>>
       /\ \A id \in Id : /\ Found(id) => RootChild(id)
                         /\ Found(id) => (Showing(id) <=> sv[id] = "viewable")
  /\ pc # "init" => \A id \in Id : Explained(id)

(* The queue of another window.  off is 1 if an event of yet another window *)
(* was taken off the queue.                                                 *)
LEMMA ExplainedOther ==
  ASSUME NEW id, Explained(id), sv'[id] = sv[id],
         Found(id)' <=> Found(id), Showing(id)' <=> Showing(id), NEW off \in {0, 1},
         \A i \in DOMAIN evq : i \in Nat, \A i \in DOMAIN evq' : i \in Nat,
         \A i \in DOMAIN evq' : evq'[i].id = id =>
            i + off \in DOMAIN evq /\ evq'[i] = evq[i + off],
         \A i \in DOMAIN evq : evq[i].id = id =>
            i - off \in DOMAIN evq' /\ evq'[i - off] = evq[i]
  PROVE  Explained(id)'
  <1>1. RootChild(id)' <=> RootChild(id)
    BY DEF RootChild
  <1>2. \A i \in DOMAIN evq' :
          /\ Of(i, id)' => i + off \in DOMAIN evq /\ Of(i + off, id) /\ evq'[i] = evq[i + off]
          /\ Brings(i, id)' => i + off \in DOMAIN evq /\ Brings(i + off, id)
          /\ Takes(i, id)' => i + off \in DOMAIN evq /\ Takes(i + off, id)
    BY DEF Of, Brings, Takes
  <1>3. \A i \in DOMAIN evq :
          /\ Of(i, id) => i - off \in DOMAIN evq' /\ Of(i - off, id)'
          /\ Brings(i, id) => i - off \in DOMAIN evq' /\ Brings(i - off, id)'
          /\ Takes(i, id) => i - off \in DOMAIN evq' /\ Takes(i - off, id)'
    BY DEF Of, Brings, Takes
  <1>4. \A i, k \in Nat : /\ i + off < k <=> i < k - off
                          /\ i < k <=> i + off < k + off
                          /\ i < k + off <=> i - off < k
    OBVIOUS
  <1>5. AllKnown(id)' /\ PresenceKnown(id)'
    BY <1>1, <1>3 DEF Explained, AllKnown, PresenceKnown
  <1>6. LastTells(id)'
    <2> SUFFICES ASSUME NEW i \in DOMAIN evq', Of(i, id)',
                        \A k \in DOMAIN evq' : k > i => ~Of(k, id)'
                 PROVE  sv[id] \in Tells(evq[i + off].type)
      BY <1>2 DEF LastTells, Tells
    <2>1. \A k \in DOMAIN evq : k > i + off => ~Of(k, id)
      BY <1>3
    <2> QED
      BY <1>2, <2>1 DEF Explained, LastTells
  <1>7. EnterUndone(id)'
    <2> SUFFICES ASSUME ~RootChild(id), NEW i \in DOMAIN evq', Brings(i, id)'
                 PROVE  \E k \in DOMAIN evq' : k > i /\ Takes(k, id)'
      BY <1>1 DEF EnterUndone
    <2>1. PICK k \in DOMAIN evq : k > i + off /\ Takes(k, id)
      BY <1>2 DEF Explained, EnterUndone
    <2> QED
      BY <1>3, <2>1
  <1>8. LeaveUndone(id)'
    <2> SUFFICES ASSUME RootChild(id), NEW i \in DOMAIN evq', Takes(i, id)'
                 PROVE  \E k \in DOMAIN evq' : k > i /\ Brings(k, id)'
      BY <1>1 DEF LeaveUndone
    <2>1. PICK k \in DOMAIN evq : k > i + off /\ Brings(k, id)
      BY <1>2 DEF Explained, LeaveUndone
    <2> QED
      BY <1>3, <2>1
  <1>9. FirstEnter(id)'
    <2> SUFFICES ASSUME NEW i \in DOMAIN evq', Brings(i, id)',
                        \A k \in DOMAIN evq' : k < i => ~Brings(k, id)' /\ ~Takes(k, id)'
                 PROVE  ~Found(id)
      BY DEF FirstEnter
    <2>1. \A k \in DOMAIN evq : k < i + off => ~Brings(k, id) /\ ~Takes(k, id)
      BY <1>3
    <2> QED
      BY <1>2, <2>1 DEF Explained, FirstEnter
  <1>10. Alternate(id)'
    <2> SUFFICES ASSUME NEW i \in DOMAIN evq', NEW j \in DOMAIN evq',
                        i < j, Brings(i, id)', Brings(j, id)'
                 PROVE  \E k \in DOMAIN evq' : i < k /\ k < j /\ Takes(k, id)'
      BY DEF Alternate
    <2>1. PICK k \in DOMAIN evq : i + off < k /\ k < j + off /\ Takes(k, id)
      BY <1>2 DEF Explained, Alternate
    <2> QED
      BY <1>3, <2>1
  <1> QED
    BY <1>5, <1>6, <1>7, <1>8, <1>9, <1>10 DEF Explained

(* What XGetWindowAttributes says about a child of the root.                *)
LEMMA AttributesOfChild ==
  ASSUME NEW id, RootChild(id) PROVE Attributes(id) = {sv[id]} /\ sv[id] # "fail"
  BY DEF RootChild, Attributes

(* The window of the event compton handles.                                 *)
LEMMA ExplainedHandled ==
  ASSUME NEW id, Explained(id), Showing(id) => Found(id), sv'[id] = sv[id],
         1 \in DOMAIN evq, evq[1].id = id, evq[1].type \in EventType,
         \A i \in DOMAIN evq : i \in Nat /\ i >= 1, \A i \in DOMAIN evq' : i \in Nat /\ i >= 1,
         \A i \in DOMAIN evq' : i + 1 \in DOMAIN evq /\ evq'[i] = evq[i + 1],
         \A i \in DOMAIN evq : i # 1 => i - 1 \in DOMAIN evq' /\ evq'[i - 1] = evq[i],
         evq[1].type = "enter" =>
           \/ /\ (Found(id)' <=> Found(id)) /\ (Showing(id)' <=> Showing(id))
              /\ Found(id) \/ "fail" \in Attributes(id)
           \/ /\ ~Found(id) /\ Found(id)'
              /\ \E attr \in Attributes(id) : Showing(id)' <=> attr = "viewable",
         evq[1].type = "leave" => ~Found(id)' /\ ~Showing(id)',
         evq[1].type = "map" => (Found(id)' <=> Found(id)) /\ (Showing(id)' <=> Found(id)),
         evq[1].type = "unmap" => (Found(id)' <=> Found(id)) /\ ~Showing(id)'
  PROVE  Explained(id)'
  <1>1. (RootChild(id)' <=> RootChild(id)) /\ Of(1, id)
    BY DEF RootChild, Of
  <1>2. \A i \in DOMAIN evq' : /\ i + 1 \in DOMAIN evq /\ evq'[i] = evq[i + 1] /\ i + 1 > 1
                               /\ Of(i, id)' <=> Of(i + 1, id)
                               /\ Brings(i, id)' <=> Brings(i + 1, id)
                               /\ Takes(i, id)' <=> Takes(i + 1, id)
    BY DEF Of, Brings, Takes
  <1>3. \A i \in DOMAIN evq : i # 1 => /\ i - 1 \in DOMAIN evq' /\ i > 1
                                       /\ Of(i - 1, id)' <=> Of(i, id)
                                       /\ Brings(i - 1, id)' <=> Brings(i, id)
                                       /\ Takes(i - 1, id)' <=> Takes(i, id)
    BY DEF Of, Brings, Takes
  <1>4. \A i, k \in Nat : /\ i + 1 < k <=> i < k - 1
                          /\ i < k + 1 <=> i - 1 < k
    OBVIOUS
  <1>5. /\ Brings(1, id) <=> evq[1].type = "enter"
        /\ Takes(1, id) <=> evq[1].type = "leave"
    BY DEF Brings, Takes
  <1>6. /\ evq[1].type \in {"enter", "leave", "map", "unmap"}
        /\ "fail" \notin {"unmapped", "viewable"}
    BY DEF EventType
  (* No event brings or takes the window but perhaps this one.              *)
  <1>7. ASSUME \A i \in DOMAIN evq' : ~Brings(i, id)' /\ ~Takes(i, id)'
        PROVE  Found(id)' <=> RootChild(id)
    <2>1. \A i \in DOMAIN evq : i # 1 => ~Brings(i, id) /\ ~Takes(i, id)
      BY <1>3, <1>7
    <2>2. CASE evq[1].type = "enter"
      <3>1. RootChild(id)
        BY <1>5, <2>1, <2>2 DEF Explained, EnterUndone
      <3>2. ~Found(id)
        BY <1>5, <2>2 DEF Explained, FirstEnter
      <3>3. Found(id)'
        BY <2>2, <3>1, <3>2, AttributesOfChild
      <3> QED
        BY <3>1, <3>3
    <2>3. CASE evq[1].type = "leave"
      <3>1. ~RootChild(id)
        BY <1>5, <2>1, <2>3 DEF Explained, LeaveUndone
      <3> QED
        BY <2>3, <3>1
    <2>4. CASE evq[1].type \in {"map", "unmap"}
      <3>1. \A i \in DOMAIN evq : ~Brings(i, id) /\ ~Takes(i, id)
        BY <1>5, <2>1, <2>4
      <3> QED
        BY <2>4, <3>1 DEF Explained, PresenceKnown
    <2> QED
      BY <1>6, <2>2, <2>3, <2>4
  <1>8. PresenceKnown(id)'
    BY <1>1, <1>7 DEF PresenceKnown
  <1>9. AllKnown(id)'
    <2> SUFFICES ASSUME \A i \in DOMAIN evq' : ~Of(i, id)'
                 PROVE  (Found(id)' <=> RootChild(id)) /\ (Showing(id)' <=> sv[id] = "viewable")
      BY <1>1 DEF AllKnown
    <2>1. Found(id)' <=> RootChild(id)
      BY <1>7 DEF Of, Brings, Takes
    <2>2. sv[id] \in Tells(evq[1].type)
      BY <1>1, <1>3 DEF Explained, LastTells
    <2>3. CASE evq[1].type = "enter"
      <3>1. RootChild(id) /\ sv[id] = "unmapped"
        BY <2>2, <2>3 DEF Tells, RootChild
      <3>2. ~Found(id)
        BY <1>5, <2>3 DEF Explained, FirstEnter
      <3> QED
        BY <2>1, <2>3, <3>1, <3>2, AttributesOfChild
    <2>4. CASE evq[1].type = "leave"
      BY <2>1, <2>2, <2>4 DEF Tells
    <2>5. CASE evq[1].type = "map"
      BY <2>1, <2>2, <2>5 DEF Tells, RootChild
    <2>6. CASE evq[1].type = "unmap"
      BY <2>1, <2>2, <2>6 DEF Tells
    <2> QED
      BY <1>6, <2>3, <2>4, <2>5, <2>6
  <1>10. LastTells(id)'
    <2> SUFFICES ASSUME NEW i \in DOMAIN evq', Of(i, id)',
                        \A k \in DOMAIN evq' : k > i => ~Of(k, id)'
                 PROVE  sv[id] \in Tells(evq[i + 1].type)
      BY <1>2 DEF LastTells, Tells
    <2>1. \A k \in DOMAIN evq : k > i + 1 => ~Of(k, id)
      BY <1>2, <1>3
    <2> QED
      BY <1>2, <2>1 DEF Explained, LastTells
  <1>11. EnterUndone(id)'
    <2> SUFFICES ASSUME ~RootChild(id), NEW i \in DOMAIN evq', Brings(i, id)'
                 PROVE  \E k \in DOMAIN evq' : k > i /\ Takes(k, id)'
      BY <1>1 DEF EnterUndone
    <2>1. PICK k \in DOMAIN evq : k > i + 1 /\ Takes(k, id)
      BY <1>2 DEF Explained, EnterUndone
    <2> QED
      BY <1>3, <2>1
  <1>12. LeaveUndone(id)'
    <2> SUFFICES ASSUME RootChild(id), NEW i \in DOMAIN evq', Takes(i, id)'
                 PROVE  \E k \in DOMAIN evq' : k > i /\ Brings(k, id)'
      BY <1>1 DEF LeaveUndone
    <2>1. PICK k \in DOMAIN evq : k > i + 1 /\ Brings(k, id)
      BY <1>2 DEF Explained, LeaveUndone
    <2> QED
      BY <1>3, <2>1
  <1>13. FirstEnter(id)'
    <2> SUFFICES ASSUME NEW i \in DOMAIN evq', Brings(i, id)',
                        \A k \in DOMAIN evq' : k < i => ~Brings(k, id)' /\ ~Takes(k, id)'
                 PROVE  ~Found(id)'
      BY DEF FirstEnter
    <2>1. \A k \in DOMAIN evq : k # 1 /\ k < i + 1 => ~Brings(k, id) /\ ~Takes(k, id)
      BY <1>3
    <2>2. evq[1].type # "enter"
      <3> SUFFICES ASSUME evq[1].type = "enter" PROVE FALSE
        OBVIOUS
      <3>1. PICK k \in DOMAIN evq : 1 < k /\ k < i + 1 /\ Takes(k, id)
        BY <1>2, <1>5 DEF Explained, Alternate
      <3> QED
        BY <2>1, <3>1
    <2>3. CASE evq[1].type = "leave"
      BY <2>3
    <2>4. CASE evq[1].type \in {"map", "unmap"}
      <3>1. \A k \in DOMAIN evq : k < i + 1 => ~Brings(k, id) /\ ~Takes(k, id)
        BY <1>5, <2>1, <2>4
      <3>2. ~Found(id)
        BY <1>2, <3>1 DEF Explained, FirstEnter
      <3> QED
        BY <2>4, <3>2
    <2> QED
      BY <1>6, <2>2, <2>3, <2>4
  <1>14. Alternate(id)'
    <2> SUFFICES ASSUME NEW i \in DOMAIN evq', NEW j \in DOMAIN evq',
                        i < j, Brings(i, id)', Brings(j, id)'
                 PROVE  \E k \in DOMAIN evq' : i < k /\ k < j /\ Takes(k, id)'
      BY DEF Alternate
    <2>1. PICK k \in DOMAIN evq : i + 1 < k /\ k < j + 1 /\ Takes(k, id)
      BY <1>2 DEF Explained, Alternate
    <2> QED
      BY <1>3, <2>1
  <1> QED
    BY <1>8, <1>9, <1>10, <1>11, <1>12, <1>13, <1>14 DEF Explained

(* The window the server has sent events about, the last one at n.          *)
LEMMA ExplainedSent ==
  ASSUME NEW id, Explained(id), Found(id)' <=> Found(id), Showing(id)' <=> Showing(id),
         \A i \in DOMAIN evq : i \in Nat, \A i \in DOMAIN evq' : i \in Nat,
         \A i \in DOMAIN evq : i \in DOMAIN evq' /\ evq'[i] = evq[i],
         NEW n \in DOMAIN evq', n \notin DOMAIN evq, evq'[n].id = id,
         \A i \in DOMAIN evq' : i # n => i < n,
         \A i \in DOMAIN evq' : i \in DOMAIN evq \/ i = n \/ evq'[i].type = "unmap",
         sv'[id] \in Tells(evq'[n].type),
         \/ evq'[n].type = "enter" /\ ~RootChild(id) /\ RootChild(id)'
         \/ evq'[n].type = "leave" /\ RootChild(id) /\ ~RootChild(id)'
         \/ evq'[n].type \in {"map", "unmap"} /\ RootChild(id) /\ RootChild(id)'
  PROVE  Explained(id)'
  <1>1. \A i \in DOMAIN evq : /\ i \in DOMAIN evq' /\ i # n /\ i < n
                              /\ Of(i, id)' <=> Of(i, id)
                              /\ Brings(i, id)' <=> Brings(i, id)
                              /\ Takes(i, id)' <=> Takes(i, id)
    BY DEF Of, Brings, Takes
  <1>2. \A i \in DOMAIN evq' : Brings(i, id)' \/ Takes(i, id)' => i \in DOMAIN evq \/ i = n
    BY DEF Brings, Takes
  <1>3. /\ Of(n, id)' /\ (Brings(n, id)' <=> evq'[n].type = "enter")
        /\ Takes(n, id)' <=> evq'[n].type = "leave"
    BY DEF Of, Brings, Takes
  <1>4. AllKnown(id)'
    BY <1>3 DEF AllKnown
  <1>5. PresenceKnown(id)'
    <2> SUFFICES ASSUME \A i \in DOMAIN evq' : ~Brings(i, id)' /\ ~Takes(i, id)'
                 PROVE  Found(id) <=> RootChild(id)'
      BY DEF PresenceKnown
    <2>1. \A i \in DOMAIN evq : ~Brings(i, id) /\ ~Takes(i, id)
      BY <1>1
    <2>2. RootChild(id) /\ RootChild(id)'
      BY <1>3
    <2> QED
      BY <2>1, <2>2 DEF Explained, PresenceKnown
  <1>6. LastTells(id)'
    <2> SUFFICES ASSUME NEW i \in DOMAIN evq', \A k \in DOMAIN evq' : k > i => ~Of(k, id)'
                 PROVE  sv'[id] \in Tells(evq'[i].type)
      BY DEF LastTells, Tells
    <2>1. i = n
      BY <1>3
    <2> QED
      BY <2>1
  <1>7. EnterUndone(id)'
    <2> SUFFICES ASSUME ~RootChild(id)', NEW i \in DOMAIN evq', Brings(i, id)'
                 PROVE  \E k \in DOMAIN evq' : k > i /\ Takes(k, id)'
      BY DEF EnterUndone
    <2>1. Takes(n, id)' /\ i # n
      BY <1>3
    <2> QED
      BY <2>1
  <1>8. LeaveUndone(id)'
    <2> SUFFICES ASSUME RootChild(id)', NEW i \in DOMAIN evq', Takes(i, id)'
                 PROVE  \E k \in DOMAIN evq' : k > i /\ Brings(k, id)'
      BY DEF LeaveUndone
    <2>1. evq'[n].type # "leave" /\ i # n /\ i \in DOMAIN evq /\ Takes(i, id)
      BY <1>1, <1>2, <1>3
    <2>2. CASE evq'[n].type = "enter"
      BY <1>3, <2>1, <2>2
    <2>3. CASE evq'[n].type \in {"map", "unmap"}
      <3>1. PICK k \in DOMAIN evq : k > i /\ Brings(k, id)
        BY <2>1, <2>3 DEF Explained, LeaveUndone
      <3> QED
        BY <1>1, <3>1
    <2> QED
      BY <2>2, <2>3
  <1>9. FirstEnter(id)'
    <2> SUFFICES ASSUME NEW i \in DOMAIN evq', Brings(i, id)',
                        \A k \in DOMAIN evq' : k < i => ~Brings(k, id)' /\ ~Takes(k, id)'
                 PROVE  ~Found(id)
      BY DEF FirstEnter
    <2>1. CASE i = n
      <3>1. \A k \in DOMAIN evq : ~Brings(k, id) /\ ~Takes(k, id)
        BY <1>1, <2>1
      <3>2. ~RootChild(id)
        BY <1>3, <2>1
      <3> QED
        BY <3>1, <3>2 DEF Explained, PresenceKnown
    <2>2. CASE i # n
      <3>1. i \in DOMAIN evq /\ Brings(i, id)
        BY <1>1, <1>2, <2>2
      <3>2. \A k \in DOMAIN evq : k < i => ~Brings(k, id) /\ ~Takes(k, id)
        BY <1>1
      <3> QED
        BY <3>1, <3>2 DEF Explained, FirstEnter
    <2> QED
      BY <2>1, <2>2
  <1>10. Alternate(id)'
    <2> SUFFICES ASSUME NEW i \in DOMAIN evq', NEW j \in DOMAIN evq',
                        i < j, Brings(i, id)', Brings(j, id)'
                 PROVE  \E k \in DOMAIN evq' : i < k /\ k < j /\ Takes(k, id)'
      BY DEF Alternate
    <2>1. i # n
      <3>1. j = n \/ j < n
        OBVIOUS
      <3> QED
        BY <3>1
    <2>2. i \in DOMAIN evq /\ Brings(i, id)
      BY <1>1, <1>2, <2>1
    <2>3. CASE j = n
      <3>1. ~RootChild(id)
        BY <1>3, <2>3
      <3>2. PICK k \in DOMAIN evq : k > i /\ Takes(k, id)
        BY <2>2, <3>1 DEF Explained, EnterUndone
      <3> QED
        BY <1>1, <2>3, <3>2
    <2>4. CASE j # n
      <3>1. j \in DOMAIN evq /\ Brings(j, id)
        BY <1>1, <1>2, <2>4
      <3>2. PICK k \in DOMAIN evq : i < k /\ k < j /\ Takes(k, id)
        BY <2>2, <3>1 DEF Explained, Alternate
      <3> QED
        BY <1>1, <3>2
    <2> QED
      BY <2>3, <2>4
  <1> QED
    BY <1>4, <1>5, <1>6, <1>7, <1>8, <1>9, <1>10 DEF Explained

(* The server's steps.                                                      *)
LEMMA SentExplained ==
  ASSUME TypeInv, \A i \in Id : Explained(i), NEW id \in Id, NEW es \in Seq(Event), Sends(es),
         \A i \in Id : (Found(i)' <=> Found(i)) /\ (Showing(i)' <=> Showing(i)),
         \A i \in Id : i # id => sv'[i] = sv[i],
         Len(es) >= 1, \A j \in DOMAIN es : es[j].id = id /\ (j = Len(es) \/ es[j].type = "unmap"),
         sv'[id] \in Tells(es[Len(es)].type),
         \/ es[Len(es)].type = "enter" /\ ~RootChild(id) /\ RootChild(id)'
         \/ es[Len(es)].type = "leave" /\ RootChild(id) /\ ~RootChild(id)'
         \/ es[Len(es)].type \in {"map", "unmap"} /\ RootChild(id) /\ RootChild(id)'
  PROVE  \A i \in Id : Explained(i)'
  <1>1. evq \in Seq(Event)
    BY DEF TypeInv, TypeOK, ServerTypeOK
  <1>2. /\ evq' \in Seq(Event) /\ Len(evq') = Len(evq) + Len(es)
        /\ \A i \in DOMAIN evq : i \in DOMAIN evq' /\ evq'[i] = evq[i]
        /\ \A i \in DOMAIN evq' : i \notin DOMAIN evq =>
             i - Len(evq) \in DOMAIN es /\ evq'[i] = es[i - Len(evq)]
    BY <1>1, SendsEffect
  <1>3. /\ \A i \in DOMAIN evq : i \in Nat /\ i <= Len(evq)
        /\ \A i \in DOMAIN evq' : i \in Nat /\ i <= Len(evq')
        /\ DOMAIN evq' = 1 .. Len(evq') /\ Len(evq) \in Nat /\ Len(es) \in Nat
        /\ DOMAIN evq = 1 .. Len(evq)
    BY <1>1, <1>2
  <1> DEFINE n == Len(evq')
  <1>4. n \in DOMAIN evq' /\ n \notin DOMAIN evq /\ n - Len(evq) = Len(es) /\ n \in Nat
    BY <1>2, <1>3
  <1>5. /\ \A i \in DOMAIN evq' : i # n => i < n
        /\ \A i \in DOMAIN evq' : i \notin DOMAIN evq => evq'[i].id = id
        /\ \A i \in DOMAIN evq' : i \in DOMAIN evq \/ i = n \/ evq'[i].type = "unmap"
    <2>1. \A i \in DOMAIN evq' : i - Len(evq) = Len(es) => i = n
      BY <1>2, <1>3, <1>4
    <2> QED
      BY <1>2, <1>3, <1>4, <2>1
  <1>6. evq'[n].id = id /\ evq'[n] = es[Len(es)]
    BY <1>2, <1>4, <1>5
  <1> HIDE DEF n
  <1>7. Explained(id)'
    <2>1. /\ sv'[id] \in Tells(evq'[n].type)
          /\ \/ evq'[n].type = "enter" /\ ~RootChild(id) /\ RootChild(id)'
             \/ evq'[n].type = "leave" /\ RootChild(id) /\ ~RootChild(id)'
             \/ evq'[n].type \in {"map", "unmap"} /\ RootChild(id) /\ RootChild(id)'
      BY <1>6
    <2> QED
      BY <1>2, <1>3, <1>4, <1>5, <1>6, <2>1, ExplainedSent
  <1>8. ASSUME NEW i \in Id, i # id PROVE Explained(i)'
    <2>1. \A k \in DOMAIN evq' : evq'[k].id = i => k + 0 \in DOMAIN evq /\ evq'[k] = evq[k + 0]
      BY <1>2, <1>3, <1>5, <1>8
    <2>2. \A k \in DOMAIN evq : k - 0 \in DOMAIN evq' /\ evq'[k - 0] = evq[k]
      BY <1>2, <1>3
    <2>3. 0 \in {0, 1} /\ sv'[i] = sv[i]
      BY <1>8
    <2> QED
      BY <1>3, <2>1, <2>2, <2>3, ExplainedOther
  <1> QED
    BY <1>7, <1>8

LEMMA OneSent ==
  ASSUME NEW id \in Id, NEW type \in EventType
  PROVE  LET es == <<[type |-> type, id |-> id]>>
         IN  /\ es \in Seq(Event) /\ Len(es) >= 1 /\ es[Len(es)].type = type
             /\ \A j \in DOMAIN es : es[j].id = id /\ (j = Len(es) \/ es[j].type = "unmap")
  <1>1. <<[type |-> type, id |-> id]>> \in Seq(Event)
    BY EventSeqType
  <1> QED
    BY <1>1

LEMMA TwoSent ==
  ASSUME NEW id \in Id
  PROVE  LET es == <<[type |-> "unmap", id |-> id], [type |-> "leave", id |-> id]>>
         IN  /\ es \in Seq(Event) /\ Len(es) >= 1 /\ es[Len(es)].type = "leave"
             /\ \A j \in DOMAIN es : es[j].id = id /\ (j = Len(es) \/ es[j].type = "unmap")
  <1>1. <<[type |-> "unmap", id |-> id], [type |-> "leave", id |-> id]>> \in Seq(Event)
    BY EventSeqType DEF EventType
  <1> QED
    BY <1>1

LEMMA ServerExplained ==
  ASSUME TypeInv, \A i \in Id : Explained(i), ServerStep,
         \A i \in Id : (Found(i)' <=> Found(i)) /\ (Showing(i)' <=> Showing(i))
  PROVE  \A i \in Id : Explained(i)'
  <1>1. PICK id \in Id : \/ Enter(id) \/ Map(id) \/ Unmap(id)
                         \/ \E to \in LeaveTo : Leave(id, to)
                         \/ DestroyElsewhere(id)
    BY Zenon DEF ServerStep
  <1>2. sv \in [Id -> Place] /\ EventType = {"enter", "leave", "map", "unmap"}
    BY DEF TypeInv, TypeOK, ServerTypeOK, EventType
  <1>3. CASE Enter(id)
    <2> DEFINE es == <<[type |-> "enter", id |-> id]>>
    <2>1. /\ es \in Seq(Event) /\ Len(es) >= 1 /\ es[Len(es)].type = "enter"
          /\ \A j \in DOMAIN es : es[j].id = id /\ (j = Len(es) \/ es[j].type = "unmap")
      <3>1. "enter" \in EventType
        BY <1>2
      <3> QED
        BY <3>1, OneSent
    <2>2. /\ Sends(es) /\ ~RootChild(id) /\ sv'[id] = "unmapped" /\ RootChild(id)'
          /\ \A i \in Id : i # id => sv'[i] = sv[i]
      BY <1>2, <1>3 DEF Enter, RootChild
    <2> HIDE DEF es
    <2>3. sv'[id] \in Tells(es[Len(es)].type)
      BY <2>1, <2>2 DEF Tells
    <2> QED
      BY <2>1, <2>2, <2>3, SentExplained
  <1>4. CASE Map(id)
    <2> DEFINE es == <<[type |-> "map", id |-> id]>>
    <2>1. /\ es \in Seq(Event) /\ Len(es) >= 1 /\ es[Len(es)].type = "map"
          /\ \A j \in DOMAIN es : es[j].id = id /\ (j = Len(es) \/ es[j].type = "unmap")
      <3>1. "map" \in EventType
        BY <1>2
      <3> QED
        BY <3>1, OneSent
    <2>2. /\ Sends(es) /\ RootChild(id) /\ sv'[id] = "viewable" /\ RootChild(id)'
          /\ \A i \in Id : i # id => sv'[i] = sv[i]
      BY <1>2, <1>4 DEF Map, RootChild
    <2> HIDE DEF es
    <2>3. sv'[id] \in Tells(es[Len(es)].type)
      BY <2>1, <2>2 DEF Tells
    <2> QED
      BY <2>1, <2>2, <2>3, SentExplained
  <1>5. CASE Unmap(id)
    <2> DEFINE es == <<[type |-> "unmap", id |-> id]>>
    <2>1. /\ es \in Seq(Event) /\ Len(es) >= 1 /\ es[Len(es)].type = "unmap"
          /\ \A j \in DOMAIN es : es[j].id = id /\ (j = Len(es) \/ es[j].type = "unmap")
      <3>1. "unmap" \in EventType
        BY <1>2
      <3> QED
        BY <3>1, OneSent
    <2>2. /\ Sends(es) /\ RootChild(id) /\ sv'[id] = "unmapped" /\ RootChild(id)'
          /\ \A i \in Id : i # id => sv'[i] = sv[i]
      BY <1>2, <1>5 DEF Unmap, RootChild
    <2> HIDE DEF es
    <2>3. sv'[id] \in Tells(es[Len(es)].type)
      BY <2>1, <2>2 DEF Tells
    <2> QED
      BY <2>1, <2>2, <2>3, SentExplained
  <1>6. CASE \E to \in LeaveTo : Leave(id, to)
    <2>1. PICK to \in LeaveTo : Leave(id, to)
      BY <1>6
    <2> DEFINE es == IF sv[id] = "viewable"
                     THEN <<[type |-> "unmap", id |-> id], [type |-> "leave", id |-> id]>>
                     ELSE <<[type |-> "leave", id |-> id]>>
    <2>2. /\ es \in Seq(Event) /\ Len(es) >= 1 /\ es[Len(es)].type = "leave"
          /\ \A j \in DOMAIN es : es[j].id = id /\ (j = Len(es) \/ es[j].type = "unmap")
      <3>1. "leave" \in EventType
        BY <1>2
      <3>2. CASE sv[id] = "viewable"
        BY <3>2, TwoSent
      <3>3. CASE sv[id] # "viewable"
        BY <3>1, <3>3, OneSent
      <3> QED
        BY <3>2, <3>3
    <2>3. /\ Sends(es) /\ RootChild(id) /\ sv'[id] \in {"gone", "elsewhere"} /\ ~RootChild(id)'
          /\ \A i \in Id : i # id => sv'[i] = sv[i]
      BY <1>2, <2>1 DEF Leave, RootChild
    <2> HIDE DEF es
    <2>4. sv'[id] \in Tells(es[Len(es)].type)
      BY <2>2, <2>3 DEF Tells
    <2> QED
      BY <2>2, <2>3, <2>4, SentExplained
  <1>7. CASE DestroyElsewhere(id)
    <2>1. /\ evq' = evq /\ sv[id] = "elsewhere" /\ sv'[id] = "gone"
          /\ \A i \in Id : i # id => sv'[i] = sv[i]
      BY <1>2, <1>7 DEF DestroyElsewhere
    <2>2. \A i \in Id : /\ RootChild(i)' <=> RootChild(i)
                        /\ sv'[i] = "viewable" <=> sv[i] = "viewable"
      BY <2>1 DEF RootChild
    <2>3. \A i \in Id, type \in EventType : sv[i] \in Tells(type) => sv'[i] \in Tells(type)
      BY <1>2, <2>1 DEF Tells
    <2>4. \A i \in DOMAIN evq : evq[i].type \in EventType
      <3>1. evq \in Seq(Event)
        BY DEF TypeInv, TypeOK, ServerTypeOK
      <3>2. \A i \in DOMAIN evq : evq[i] \in Event
        BY <3>1
      <3> QED
        BY <3>2 DEF Event
    <2>5. ASSUME NEW i \in Id PROVE Explained(i)'
      <3>1. Explained(i)
        OBVIOUS
      <3>2. AllKnown(i)' /\ PresenceKnown(i)' /\ FirstEnter(i)'
        BY <2>1, <2>2, <3>1
           DEF Explained, AllKnown, PresenceKnown, FirstEnter, Of, Brings, Takes
      <3>3. LastTells(i)'
        <4> HIDE DEF Tells
        <4> SUFFICES ASSUME NEW k \in DOMAIN evq, Of(k, i),
                            \A j \in DOMAIN evq : j > k => ~Of(j, i)
                     PROVE  sv'[i] \in Tells(evq[k].type)
          BY <2>1 DEF LastTells, Of, Tells
        <4> QED
          BY <2>3, <2>4, <3>1 DEF Explained, LastTells
      <3>4. EnterUndone(i)' /\ LeaveUndone(i)' /\ Alternate(i)'
        BY <2>1, <2>2, <3>1
           DEF Explained, EnterUndone, LeaveUndone, Alternate, Brings, Takes
      <3> QED
        BY <3>2, <3>3, <3>4 DEF Explained
    <2> QED
      BY <2>5
  <1> QED
    BY <1>1, <1>3, <1>4, <1>5, <1>6, <1>7

LEMMA HandleExplained ==
  ASSUME TypeInv, ListOK, LiveOnce, \A i \in Id : Explained(i), Handle
  PROVE  LiveOnce' /\ \A i \in Id : Explained(i)'
  <1>1. /\ 1 \in DOMAIN evq /\ Head(evq) = evq[1] /\ evq[1].id \in Id /\ evq[1].type \in EventType
        /\ sv' = sv /\ evq \in Seq(Event) /\ evq' \in Seq(Event)
        /\ \A i \in DOMAIN evq' : i + 1 \in DOMAIN evq /\ evq'[i] = evq[i + 1]
        /\ \A i \in DOMAIN evq : i # 1 => i - 1 \in DOMAIN evq' /\ evq'[i - 1] = evq[i]
    BY HandleQueue
  <1>2. /\ \A i \in DOMAIN evq : i \in Nat /\ i >= 1
        /\ \A i \in DOMAIN evq' : i \in Nat /\ i >= 1
    BY <1>1
  <1>6. PICK id \in Id : id = evq[1].id
    BY <1>1
  <1> DEFINE added == \/ /\ (Found(id)' <=> Found(id)) /\ (Showing(id)' <=> Showing(id))
                         /\ Found(id) \/ "fail" \in Attributes(id)
                      \/ /\ ~Found(id) /\ Found(id)'
                         /\ \E attr \in Attributes(id) : Showing(id)' <=> attr = "viewable"
             others == \A i \in Id : i # id =>
                         (Found(i)' <=> Found(i)) /\ (Showing(i)' <=> Showing(i))
  <1>3. /\ LiveOnce' /\ others
        /\ evq[1].type = "enter" => added
        /\ evq[1].type = "leave" => ~Found(id)' /\ ~Showing(id)'
        /\ evq[1].type = "map" => (Found(id)' <=> Found(id)) /\ (Showing(id)' <=> Found(id))
        /\ evq[1].type = "unmap" => (Found(id)' <=> Found(id)) /\ ~Showing(id)'
    <2>1. CASE evq[1].type = "enter" /\ AddWin(id)
      <3>1. LiveOnce' /\ others /\ added
        BY <1>1, <1>6, <2>1, AddWinLook
      <3> QED
        BY <2>1, <3>1
    <2>2. CASE evq[1].type = "leave" /\ DestroyWin(id)
      BY <1>1, <1>6, <2>2, HandlerLook
    <2>3. CASE evq[1].type = "map" /\ MapWin(id)
      BY <1>1, <1>6, <2>3, HandlerLook
    <2>4. CASE evq[1].type = "unmap" /\ UnmapWin(id)
      BY <1>1, <1>6, <2>4, HandlerLook
    <2> QED
      BY <1>1, <1>6, <2>1, <2>2, <2>3, <2>4 DEF Handle
  <1>4. Explained(id)'
    <2>1. Showing(id) => Found(id)
      BY DEF Showing, Found
    <2> HIDE DEF others
    <2>2. Explained(id) /\ sv'[id] = sv[id]
      BY <1>1
    <2> QED
      BY <1>1, <1>2, <1>3, <1>6, <2>1, <2>2, ExplainedHandled
  <1>5. ASSUME NEW i \in Id, i # id PROVE Explained(i)'
    <2>1. /\ \A k \in DOMAIN evq' : evq'[k].id = i => k + 1 \in DOMAIN evq /\ evq'[k] = evq[k + 1]
          /\ \A k \in DOMAIN evq : evq[k].id = i => k - 1 \in DOMAIN evq' /\ evq'[k - 1] = evq[k]
      BY <1>1, <1>5, <1>6
    <2>2. 1 \in {0, 1} /\ sv'[i] = sv[i] /\ (Found(i)' <=> Found(i)) /\ (Showing(i)' <=> Showing(i))
      BY <1>1, <1>3, <1>5
    <2> QED
      BY <1>2, <2>1, <2>2, ExplainedOther
  <1> QED
    BY <1>3, <1>4, <1>5

LEMMA SyncStep ==
  ASSUME TypeInv, ListOK, SyncInv, [Next]_vars PROVE SyncInv'
  <1>1. sv \in [Id -> Place]
    BY DEF TypeInv, TypeOK, ServerTypeOK
  <1>2. CASE InitAdd
    <2>1. PICK id \in Id : RootChild(id) /\ ~Found(id) /\ AddWin(id)
      BY <1>2 DEF InitAdd
    <2>2. /\ pc = "init" /\ pc' = "init" /\ sv' = sv /\ evq' = evq
          /\ \A i \in Id : RootChild(i)' <=> RootChild(i)
      BY <1>2 DEF InitAdd, serverVars, cycleVars, RootChild
    <2>3. /\ LiveOnce'
          /\ \A i \in Id : i # id => (Found(i)' <=> Found(i)) /\ (Showing(i)' <=> Showing(i))
          /\ Showing(id)' <=> sv[id] = "viewable"
      BY <2>1, AddWinLook, AttributesOfChild DEF SyncInv
    <2> QED
      BY <2>1, <2>2, <2>3 DEF SyncInv
  <1>3. CASE Handle
    <2>1. pc = "loop" /\ pc' = "loop"
      BY <1>3 DEF Handle, cycleVars
    <2> QED
      BY <1>3, <2>1, HandleExplained DEF SyncInv
  <1>4. CASE ~InitAdd /\ ~Handle
    <2>1. LiveOnce' /\ \A id : (Found(id)' <=> Found(id)) /\ (Showing(id)' <=> Showing(id))
      BY <1>4, OtherLook DEF SyncInv
    <2>2. ASSUME UNCHANGED serverVars
          PROVE  \A id \in Id : Explained(id) => Explained(id)'
      BY <2>1, <2>2
         DEF serverVars, Explained, AllKnown, PresenceKnown, LastTells, EnterUndone, LeaveUndone,
             FirstEnter, Alternate, Of, Brings, Takes, RootChild
    <2>3. CASE ServerStep
      <3>1. pc = "loop" /\ pc' = "loop"
        BY <2>3 DEF ServerStep, cycleVars
      <3> QED
        BY <2>1, <2>3, <3>1, ServerExplained DEF SyncInv
    <2>4. CASE InitDone
      <3>1. /\ pc = "init" /\ pc' # "init" /\ UNCHANGED serverVars
            /\ \A id \in Id : RootChild(id) => Found(id)
        BY <2>4 DEF InitDone
      <3>2. evq = <<>> /\ DOMAIN evq = {}
        BY <3>1 DEF SyncInv
      <3>3. ASSUME NEW id \in Id PROVE Explained(id)
        <4>1. Showing(id) => Found(id)
          BY DEF Showing, Found
        <4>2. AllKnown(id) /\ PresenceKnown(id)
          BY <1>1, <3>1, <4>1 DEF SyncInv, AllKnown, PresenceKnown, RootChild
        <4> QED
          BY <3>2, <4>2
             DEF Explained, LastTells, EnterUndone, LeaveUndone, FirstEnter, Alternate
      <3> QED
        BY <2>1, <2>2, <3>1, <3>3 DEF SyncInv
    <2>5. CASE UNCHANGED vars
      <3>1. UNCHANGED serverVars /\ pc' = pc
        BY <2>5 DEF vars, cycleVars
      <3>2. pc = "init" => SyncInv'
        BY <2>1, <3>1 DEF SyncInv, serverVars, RootChild
      <3> QED
        BY <2>1, <2>2, <3>1, <3>2 DEF SyncInv
    <2>6. CASE ~ServerStep /\ ~InitDone /\ ~UNCHANGED vars
      <3>1. UNCHANGED serverVars
        BY <1>4, <2>6, QuietSteps, StillSteps
           DEF Next, Preprocess, Paint, DamageWin, FocusEvent, OpacityEvent, OtherEvent, Arrives,
               BeginPaint, PreprocessShown, PreprocessSkipped, PostPaint
      <3>2. pc # "init" /\ pc' # "init"
        BY <1>4, <2>6
           DEF Next, Preprocess, Paint, DamageWin, FocusEvent, OpacityEvent, OtherEvent, Arrives,
               BeginPaint, PreprocessShown, PreprocessSkipped, PostPaint, EndPreprocess,
               PaintWin, EndPaint, EndCycle, cycleVars
      <3> QED
        BY <2>1, <2>2, <3>1, <3>2 DEF SyncInv
    <2> QED
      BY <2>3, <2>4, <2>5, <2>6
  <1> QED
    BY <1>2, <1>3, <1>4

LEMMA SyncInit ==
  ASSUME Init PROVE SyncInv
  <1>1. Structs = {} /\ evq = <<>> /\ pc = "init"
    BY DEF Init, ServerInit, Structs, ToSet
  <1> QED
    BY <1>1 DEF SyncInv, LiveOnce, Live, Found

(* Whatever windows do while compton is behind with their events, once it   *)
(* has handled them all its list is the server's: one live struct for every *)
(* child of the root, viewable if it is, and none for any other window,     *)
(* although add_win asks for the attributes of the present and not of the   *)
(* time of the event.                                                       *)
THEOREM ListInSync == Spec => []InSync
  <1>1. ASSUME TypeInv, ListOK, SyncInv PROVE InSync
    <2>1. ASSUME pc = "loop", evq = <<>>, NEW id \in Id
          PROVE  (RootChild(id) <=> Found(id)) /\ (Showing(id) <=> sv[id] = "viewable")
      <3>1. DOMAIN evq = {} /\ Explained(id)
        BY <1>1, <2>1 DEF SyncInv
      <3> QED
        BY <3>1 DEF Explained, AllKnown
    <2>2. ASSUME NEW p \in Structs, Live(p)
          PROVE  /\ \A q \in Structs : IsLiveOf(q, win[p].id) => q = p
                 /\ Showing(win[p].id) <=> win[p].viewable
      BY <1>1, <2>2 DEF SyncInv, LiveOnce, Live, IsLiveOf, Showing
    <2> QED
      BY <1>1, <2>1, <2>2 DEF InSync, ListOK
  <1>2. Init => TypeInv /\ ListOK /\ SyncInv
    BY TypeInit, ListInit, SyncInit
  <1>3. TypeInv /\ ListOK /\ SyncInv /\ [Next]_vars => (TypeInv /\ ListOK /\ SyncInv)'
    BY TypeStep, ListStep, SyncStep
  <1> QED
    BY <1>1, <1>2, <1>3, PTL DEF Spec
==============================================================================
