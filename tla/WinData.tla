------------------------------- MODULE WinData -------------------------------
(****************************************************************************)
(* What compton keeps about a window besides its geometry: the client       *)
(* window, the properties it copies, the leader of its group, and the       *)
(* decisions taken from them (shadow, fade, invert, focus, blur, opacity    *)
(* rule, paint and unredirect exclusion).  A decision is a cache: it is     *)
(* taken again when a handler thinks one of its causes changed.             *)
(*                                                                          *)
(* The clients and the server act between two handlers, and also in the     *)
(* middle of map_win, which selects events before it reads properties.      *)
(* A handler works on the session s, a record, and is a composition of      *)
(* operators named after the functions it calls.                            *)
(****************************************************************************)
EXTENDS Sequences, Naturals

CONSTANTS
  None,
  Win,        \* toplevel windows, all on ps->list
  Kid,        \* windows in a frame: the clients of reparented windows
  Parent,     \* the frame of each
  Group,      \* windows named as leaders that compton does not manage
  MaxRecursion, \* WIN_GET_LEADER_MAX_RECURSION
  Configs,    \* the configurations and clients to consider, see MCWinData
  MaxChanges, \* bound: requests of the clients, the user and D-Bus
  MaxQueue    \* bound: events not yet handled

ASSUME WinDataAssumption ==
  /\ Parent \in [Kid -> Win]
  /\ MaxRecursion \in Nat /\ MaxChanges \in Nat /\ MaxQueue \in Nat \ {0}

Xid == Win \cup Kid
Leaders == Xid \cup Group \cup {None}
Opaque == 3
Level == 0 .. Opaque
Decision == {"shadow", "fade", "invert", "focus", "blur", "paint", "unredir"}
Forced == {"shadow", "fade", "invert", "focus"}
Looks == {"shadow", "fade", "invert", "blur"}
Switch == {"unset", "on", "off"}
Fact == {"name", "dialog", "shaped", "active", "other"}
Property == {"name", "type", "transient", "leader", "opacity", "state",
             "other", "noShadow", "shaped"}

(* A configuration: the facts each list of conditions looks at, the options,*)
(* the windows a property of x may name as its leader (groups), and what    *)
(* the clients, the user and D-Bus change (offered) of which toplevels      *)
(* (shown).                                                                 *)
Config ==
  [lists : [Decision \cup {"opacity"} -> SUBSET Fact],
   detect : SUBSET {"transient", "leader"}, groups : [Xid -> SUBSET Leaders],
   specialDialogs : BOOLEAN, ignoreShaped : BOOLEAN, respectShadow : BOOLEAN,
   markWmwin : BOOLEAN, clientOpacity : BOOLEAN, openclose : BOOLEAN,
   inactive : Level, active : Level, override : BOOLEAN, dim : BOOLEAN,
   shown : SUBSET Win, offered : SUBSET (Property \cup Forced \cup {"focus", "openclose"})]

ASSUME ConfigAssumption ==
  /\ Configs \subseteq Config
  /\ Win \cap Kid = {} /\ Xid \cap Group = {} /\ None \notin Xid \cup Group

VARIABLES
  s,         \* the session with its options o, and the server's side of its windows
  mapping,   \* the window map_win has selected events of but not yet read
  changes    \* requests made so far

vars == <<s, mapping, changes>>

------------------------------------------------------------------------------
(* The X server: properties of a window, events for who asked for them.     *)

Notified(st, x, atom) ==
  IF st.mask[x] THEN [st EXCEPT !.queue = Append(@, [atom |-> atom, x |-> x])] ELSE st

XSet(st, x, atom, value) == Notified([st EXCEPT !.srv[x][atom] = value], x, atom)

FindWin(x) == x \in Win
Toplevels(st, x) == {w \in Win : st.win[w].client = x}

(* determine_evmask: the client is listened to only for what its frame has  *)
(* not; its type and its leader are not among the reasons.                  *)
Looked(st) == UNION {st.o.lists[d] : d \in DOMAIN st.o.lists}
TrackWdata(st) == "name" \in Looked(st)
TrackAtoms(st) == "other" \in Looked(st)
TrackLeader(st) == st.o.detect # {}

Evmask(st, x, mode) ==
  \/ mode = "frame"
  \/ FindWin(x) /\ st.win[x].viewable
  \/ /\ mode = "client" \/ \E w \in Toplevels(st, x) : st.win[w].viewable
     /\ TrackWdata(st) \/ TrackAtoms(st) \/ st.o.clientOpacity

Select(st, x, mode) == [st EXCEPT !.mask[x] = Evmask(st, x, mode)]

------------------------------------------------------------------------------
(* Leaders.                                                                 *)

(* The leader defaults to the client window; a window that does not lead    *)
(* itself asks the window whose client its leader is.                       *)
Up(v) == IF v.leader # None THEN v.leader ELSE v.client
Above(win, w) == {v \in Win : win[v].client = Up(win[w])}
Asks(win, w) ==
  win[w].cache = None /\ Up(win[w]) \notin {None, win[w].client} /\ Above(win, w) # {}

Chain(win, w) ==
  LET asked == [v \in Win |-> CHOOSE u \in Above(win, v) : TRUE]
      chain[n \in Nat] == IF n = 0 THEN w ELSE asked[chain[n - 1]]
  IN  chain

(* The calls of win_get_leader_raw at which the chain may end: one that     *)
(* asks no further, or that finds what a call before it has cached, in a    *)
(* cycle.                                                                   *)
Ends(win, chain, n) == ~Asks(win, chain[n]) \/ \E i \in 0 .. n - 1 : chain[i] = chain[n]
Calls == 0 .. MaxRecursion + 1

(* The call at which it ends, and what the calls up to it cache.            *)
Final(win, chain) ==
  CHOOSE n \in Calls : Ends(win, chain, n) /\ \A m \in 0 .. n - 1 : ~Ends(win, chain, m)

Filled(win, chain, end) ==
  LET last == win[chain[end]]
      top == IF last.cache # None THEN last.cache ELSE Up(last)
      members == {chain[i] : i \in 0 .. end}
  IN  [v \in Win |-> IF v \in members THEN [win[v] EXCEPT !.cache = top] ELSE win[v]]

(* win_get_leader_raw: caches the top of the chain of leaders in every      *)
(* window of the chain; a chain too long gives none of them a leader but    *)
(* its last one.                                                            *)
CachedAlong(win, w, chain) ==
  LET deepest == chain[MaxRecursion + 1]
  IN  IF win[w].cache # None \/ Up(win[w]) = None THEN win
      ELSE IF \E n \in Calls : Ends(win, chain, n) THEN Filled(win, chain, Final(win, chain))
      ELSE [win EXCEPT ![deepest].cache = Up(win[deepest])]

Cached(win, w) == CachedAlong(win, w, Chain(win, w))

GotLeader(st, w) == [st EXCEPT !.win = Cached(@, w)]
Leader(st, w) == Cached(st.win, w)[w].cache
GotLeaders(st) == [st EXCEPT !.win = [w \in Win |-> Cached(st.win, w)[w]]]

GroupIsFocused(st, leader) ==
  \E w \in Win : Leader(st, w) = leader /\ st.activeWin = w

------------------------------------------------------------------------------
(* The decisions, as each determine function takes them now.                *)

Has(st, w, fact) ==
  LET v == st.win[w]
  IN  CASE fact = "name"   -> v.name = "n1"
        [] fact = "dialog" -> v.type = "dialog"
        [] fact = "shaped" -> v.shaped
        [] fact = "active" -> st.activeWin = w
        [] fact = "other"  -> st.srv[w].other   \* read when matched

(* win_match of a list of conditions, here the facts that one of them wants.*)
Matches(st, w, list) == \E fact \in st.o.lists[list] : Has(st, w, fact)

(* wintype_shadow, wintype_fade and wintype_focus of the types.             *)
Plain(st, type) == ~(st.o.specialDialogs /\ type = "dialog")

WantedOf(st, w, d, v, listed) ==
  CASE d = "shadow" -> /\ Plain(st, v.type) /\ ~listed
                       /\ ~(st.o.ignoreShaped /\ v.shaped)
                       /\ ~(st.o.respectShadow /\ v.noShadow)
    [] d = "fade"   -> ~listed /\ Plain(st, v.type)
    [] d = "focus"  -> \/ st.activeWin = w
                       \/ ~Plain(st, v.type)
                       \/ st.o.markWmwin /\ v.wmwin
                       \/ v.viewable /\ listed
                       \/ /\ TrackLeader(st) /\ st.activeLeader # None
                          /\ Leader(st, w) = st.activeLeader
    [] d = "blur"   -> ~listed
    [] OTHER        -> listed

Wanted(st, w, d) == WantedOf(st, w, d, st.win[w], Matches(st, w, d))

(* What the determine function of d decides; for a window that is not       *)
(* viewable most decisions stay as they are.                                *)
Decided(st, w, d) ==
  LET v == st.win[w]
  IN  IF d \in Forced /\ v.force[d] # "unset" THEN v.force[d] = "on"
      ELSE IF d = "fade" /\ st.openclose /\ v.inOpenclose THEN FALSE
      ELSE IF v.viewable \/ d = "focus" THEN Wanted(st, w, d)
      ELSE v.dec[d]

Taken(st, w, ds) ==
  [st EXCEPT !.win[w].dec = [d \in Decision |-> IF d \in ds THEN Decided(st, w, d) ELSE @[d]]]

(* A fade that is forced, or left out at opening and closing, counts as the *)
(* one last painted.                                                        *)
Recorded(st, w, ds) ==
  LET v == st.win[w]
      kept == v.force["fade"] # "unset" \/ (st.openclose /\ v.inOpenclose)
  IN  [st EXCEPT !.win[w].last["fade"] = IF "fade" \in ds /\ kept THEN v.dec["fade"] ELSE @]

Determine(st, w, ds) == Recorded(Taken(st, w, ds), w, ds)

UpdateFocused(st, w) ==
  LET looks == st.win[w].force["focus"] = "unset" /\ TrackLeader(st) /\ st.activeLeader # None
  IN  [Determine(IF looks THEN GotLeader(st, w) ELSE st, w, {"focus"})
         EXCEPT !.win[w].opctChange = TRUE]

(* win_update_opacity_rule: writes the property of the frame, and so        *)
(* notifies itself.                                                         *)
UpdateOpacityRule(st, w) ==
  LET rule == IF Matches(st, w, "opacity") THEN 2 ELSE Opaque
  IN  IF ~st.win[w].viewable \/ rule = st.win[w].opacitySet THEN st
      ELSE [XSet(st, w, "opacity", rule) EXCEPT !.win[w].opacitySet = rule]

(* What is only done with the list of conditions it depends on.             *)
Listed(st) == {l \in DOMAIN st.o.lists : st.o.lists[l] # {}}
ListedFocus(st, w) == IF "focus" \in Listed(st) THEN UpdateFocused(st, w) ELSE st
ListedOpacity(st, w) == IF "opacity" \in Listed(st) THEN UpdateOpacityRule(st, w) ELSE st

OnWtypeChange(st, w) ==
  LET st1 == UpdateFocused(Determine(st, w, {"shadow", "fade"}), w)
  IN  ListedOpacity(Determine(st1, w, {"invert"} \cap Listed(st)), w)

OnFactorChange(st, w) ==
  LET st1 == Determine(st, w, (Decision \cap Listed(st)) \ {"focus"})
  IN  ListedOpacity(ListedFocus(st1, w), w)

------------------------------------------------------------------------------
(* Focus and groups.                                                        *)

MembersFocused(st, leader) ==
  [st EXCEPT !.win = [w \in Win |-> IF st.win[w].cache = leader
                                    THEN UpdateFocused(st, w).win[w] ELSE st.win[w]]]
GroupUpdateFocused(st, leader) ==
  IF leader = None THEN st ELSE MembersFocused(GotLeaders(st), leader)

(* The group of leader is the active one instead of the group of old.       *)
GroupMoved(st, old, leader) ==
  GroupUpdateFocused(GroupUpdateFocused([st EXCEPT !.activeLeader = leader], old), leader)

OnGroupFocus(st, w, leader) ==
  CASE st.activeWin = w /\ leader # st.activeLeader ->
         GroupMoved(st, st.activeLeader, leader)
    [] /\ st.activeWin # w /\ leader # None
       /\ leader = st.activeLeader /\ ~GroupIsFocused(st, leader) ->
         GroupUpdateFocused([st EXCEPT !.activeLeader = None], leader)
    [] OTHER -> st

OnFocusChange(st, w) ==
  LET group == IF TrackLeader(st) THEN OnGroupFocus(GotLeader(st, w), w, Leader(st, w)) ELSE st
  IN  OnFactorChange(UpdateFocused(group, w), w)

LoseFocus(st, w) ==
  IF st.activeWin # w \/ ~st.win[w].viewable THEN st
  ELSE OnFocusChange([st EXCEPT !.activeWin = None], w)

GainFocus(st, w) ==
  LET st1 == IF st.activeWin = None THEN st ELSE LoseFocus(st, st.activeWin)
  IN  IF st.activeWin = w \/ ~st.win[w].viewable THEN st
      ELSE OnFocusChange([st1 EXCEPT !.activeWin = w], w)

RecheckFocus(st) == IF st.focus = None THEN st ELSE GainFocus(st, st.focus)

(* Mutant: the active window changes its group and active_leader stays.     *)
SetLeaderQuietly(st, w, leader) ==
  IF leader = st.win[w].leader THEN st
  ELSE OnFactorChange(UpdateFocused(
         [st EXCEPT !.win = [v \in Win |-> [@[v] EXCEPT !.cache = None]],
                    !.win[w].leader = leader], w), w)

(* The leaders of w, as cached before the change and found after it.        *)
LeaderMoved(st, w, old, new) ==
  IF st.activeWin = w /\ old # new THEN GroupMoved(st, old, new) ELSE UpdateFocused(st, w)

SetLeader(st, w, leader) ==
  LET cleared == [st EXCEPT !.win = [v \in Win |-> [@[v] EXCEPT !.cache = None]],
                            !.win[w].leader = leader]
      moved == LeaderMoved(GotLeader(cleared, w), w, Leader(st, w), Leader(cleared, w))
  IN  IF leader = st.win[w].leader THEN st ELSE OnFactorChange(moved, w)

UpdateLeader(st, w) ==
  LET props == st.srv[st.win[w].client]
      transient == IF "transient" \in st.o.detect THEN props.transient ELSE None
  IN  SetLeader(st, w, IF transient = None /\ "leader" \in st.o.detect
                       THEN props.leader ELSE transient)

------------------------------------------------------------------------------
(* The client window and its properties.                                    *)

UpdWintype(st, w) ==
  LET props == st.srv[st.win[w].client]
      type == IF props.type # "none" THEN props.type
              ELSE IF props.transient = None THEN "normal" ELSE "dialog"
  IN  IF type = st.win[w].type THEN st
      ELSE OnWtypeChange([st EXCEPT !.win[w].type = type], w)

GetName(st, w) == [st EXCEPT !.win[w].name = st.srv[st.win[w].client].name]

TrackedLeader(st, w) == IF TrackLeader(st) THEN UpdateLeader(st, w) ELSE st
TrackedName(st, w) == IF TrackWdata(st) THEN GetName(st, w) ELSE st

MarkClient(st, w, client) ==
  LET marked == [st EXCEPT !.win[w].client = client]
      known == TrackedLeader(UpdWintype(Select(marked, client, "client"), w), w)
  IN  IF st.win[w].viewable
      THEN UpdateFocused(OnFactorChange(TrackedName(known, w), w), w) ELSE marked

(* find_client_win: the first window under the frame with WM_STATE.         *)
ClientsOf(st, w) == {k \in Kid : Parent[k] = w /\ st.srv[k].state}

RecheckClient(st, w) ==
  LET found == ClientsOf(st, w)
      client == IF found = {} THEN w ELSE CHOOSE k \in found : TRUE
  IN  MarkClient([st EXCEPT !.win[w].wmwin = (found = {})], w, client)

(* win_unmark_client, and the window that has got WM_STATE takes its place. *)
Adopt(st, w, client) ==
  LET old == st.win[w].client
      st1 == [st EXCEPT !.win[w].wmwin = FALSE, !.win[w].client = None]
  IN  MarkClient(IF old = None THEN st1 ELSE Select(st1, old, "unknown"), w, client)

UpdateShape(st, w) == [st EXCEPT !.win[w].shaped = st.srv[w].shaped]
UpdateNoShadow(st, w) == [st EXCEPT !.win[w].noShadow = st.srv[w].noShadow]

ClientOpacity(st, w) ==
  IF st.o.clientOpacity /\ st.win[w].client \notin {None, w}
  THEN st.srv[st.win[w].client].opacity ELSE Opaque

UpdateOpacityProp(st, w) ==
  [st EXCEPT !.win[w].opacityProp = st.srv[w].opacity,
             !.win[w].opacityClient = ClientOpacity(st, w)]

------------------------------------------------------------------------------
(* Opacity.                                                                 *)

CalcOpacity(st, w) ==
  LET v == st.win[w]
      asked == IF v.opacityProp # Opaque THEN v.opacityProp
               ELSE IF v.opacityClient # Opaque THEN v.opacityClient
               ELSE IF Plain(st, v.type) THEN Opaque ELSE 2
      inactive == IF /\ st.o.inactive # 0 /\ ~v.dec["focus"]
                     /\ asked = Opaque \/ st.o.override
                  THEN st.o.inactive ELSE asked
  IN  IF ~v.viewable THEN 0
      ELSE IF inactive = Opaque /\ st.o.active # 0 /\ st.activeWin = w
      THEN st.o.active ELSE inactive

CalcDim(st, w) ==
  LET v == st.win[w] IN IF v.viewable THEN st.o.dim /\ ~v.dec["focus"] ELSE v.dimmed

------------------------------------------------------------------------------
(* The handlers.  map_win comes in two steps: MapSelect, and MapRead with   *)
(* all that follows the selection of events.                                *)

(* Mutant: the fade is not determined again when the opening is over.       *)
FinishMapStill(st, w) ==
  [st EXCEPT !.win[w].inOpenclose = FALSE, !.win[w].callback = "none"]

FinishMap(st, w) ==
  LET st1 == [st EXCEPT !.win[w].inOpenclose = FALSE, !.win[w].callback = "none"]
  IN  IF st.openclose THEN Determine(st1, w, {"fade"}) ELSE st1

FinishUnmap(st, w) ==
  [st EXCEPT !.win[w].inOpenclose = FALSE, !.win[w].callback = "none"]

RunCallback(st, w) ==
  CASE st.win[w].callback = "map"   -> FinishMap(st, w)
    [] st.win[w].callback = "unmap" -> FinishUnmap(st, w)
    [] OTHER -> st

MapSelect(st, w) ==
  Select([st EXCEPT !.win[w].viewable = TRUE], w, "frame")

(* Mutant: a client known from an earlier mapping is not marked again.      *)
MapClientOnce(st, w) == IF st.win[w].client = None THEN RecheckClient(st, w) ELSE st

MapClient(st, w) ==
  IF st.win[w].client = None THEN RecheckClient(st, w)
  ELSE MarkClient(st, w, st.win[w].client)

RespectShadow(st, w) == IF st.o.respectShadow THEN UpdateNoShadow(st, w) ELSE st

MapRead(st, w) ==
  LET st1 == MapClient(st, w)
      st2 == UpdateFocused(RecheckFocus(UpdateShape(st1, w)), w)
      st3 == UpdateOpacityProp([st2 EXCEPT !.win[w].opctChange = TRUE], w)
      st4 == Determine(RespectShadow(st3, w), w, {"shadow"})
      st5 == RunCallback([st4 EXCEPT !.win[w].inOpenclose = TRUE], w)
  IN  Determine([st5 EXCEPT !.win[w].callback = "map"], w, {"fade", "blur"})

EvStop(st, w) ==
  [st EXCEPT !.mask = [x \in Xid |-> @[x] /\ x \notin {w, st.win[w].client}]]

(* Mutant: the window is unmapped before it loses the focus.                *)
UnmapWinFirst(st, w) ==
  LET st1 == LoseFocus([st EXCEPT !.win[w].viewable = FALSE], w)
      st2 == [st1 EXCEPT !.win[w].opctChange = TRUE,
                         !.win[w].callback = "unmap", !.win[w].inOpenclose = TRUE]
  IN  IF st.win[w].viewable THEN EvStop(Determine(st2, w, {"fade"}), w) ELSE st

UnmapWin(st, w) ==
  LET st1 == LoseFocus(st, w)
      st2 == [st1 EXCEPT !.win[w].viewable = FALSE, !.win[w].opctChange = TRUE,
                         !.win[w].callback = "unmap", !.win[w].inOpenclose = TRUE]
  IN  IF st.win[w].viewable THEN EvStop(Determine(st2, w, {"fade"}), w) ELSE st

(* ev_property_notify, by the atom that changed; top is the window whose    *)
(* client has the property.                                                 *)
OnState(st, x) ==
  LET st1 == Select(st, x, "unknown")
      w == Parent[x]
  IN  IF Toplevels(st, x) # {} THEN st
      ELSE IF st.win[w].client \in {None, w} /\ st.srv[x].state
      THEN Adopt(st1, w, x) ELSE st1

OnOpacity(st, x) ==
  IF FindWin(x) THEN [st EXCEPT !.win[x].opacityProp = st.srv[x].opacity,
                                !.win[x].opctChange = TRUE]
  ELSE IF ~st.o.clientOpacity THEN st
  ELSE [st EXCEPT !.win = [w \in Win |->
          IF w \in Toplevels(st, x)
          THEN [@[w] EXCEPT !.opacityClient = st.srv[x].opacity, !.opctChange = TRUE]
          ELSE @[w]]]

OnNoShadow(st, x) ==
  LET st1 == UpdateNoShadow(st, x)
  IN  IF ~st.o.respectShadow \/ ~FindWin(x) \/ st1 = st THEN st
      ELSE Determine(st1, x, {"shadow"})

OnClientProperty(st, w, atom) ==
  CASE atom = "type" -> UpdWintype(st, w)
    [] atom = "name" -> IF TrackWdata(st) /\ GetName(st, w) # st
                        THEN OnFactorChange(GetName(st, w), w) ELSE st
    [] OTHER         -> IF atom \in st.o.detect THEN UpdateLeader(st, w) ELSE st

OnTracked(st, x) ==
  LET found == IF FindWin(x) THEN {x} ELSE Toplevels(st, x)
  IN  IF TrackAtoms(st) /\ found # {} THEN OnFactorChange(st, CHOOSE w \in found : TRUE) ELSE st

EvPropertyNotify(st, x, atom) ==
  LET top == Toplevels(st, x)
  IN  CASE atom = "state"    -> OnState(st, x)
        [] atom = "opacity"  -> OnOpacity(st, x)
        [] atom = "noShadow" -> OnNoShadow(st, x)
        [] atom = "other"    -> OnTracked(st, x)
        [] OTHER -> IF top = {} THEN st
                    ELSE OnClientProperty(st, CHOOSE w \in top : TRUE, atom)

EvShapeNotify(st, w) ==
  IF st.win[w].viewable THEN OnFactorChange(UpdateShape(st, w), w) ELSE st

Handle(st, ev) ==
  CASE ev.atom = "map"    -> st
    [] ev.atom = "unmap"  -> UnmapWin(st, ev.x)
    [] ev.atom = "focus"  -> RecheckFocus(st)
    [] ev.atom = "shaped" -> EvShapeNotify(st, ev.x)
    [] OTHER              -> EvPropertyNotify(st, ev.x, ev.atom)

------------------------------------------------------------------------------
(* The actions of compton.                                                  *)

Received == [s EXCEPT !.queue = Tail(@)]

HandleEvent ==
  /\ mapping = None /\ s.queue # <<>>
  /\ LET ev == Head(s.queue)
         maps == ev.atom = "map" /\ ~s.win[ev.x].viewable
     IN  IF maps THEN s' = MapSelect(Received, ev.x) /\ mapping' = ev.x
         ELSE s' = Handle(Received, ev) /\ mapping' = None
  /\ UNCHANGED changes

FinishMapWin ==
  /\ mapping # None
  /\ s' = MapRead(s, mapping) /\ mapping' = None
  /\ UNCHANGED changes

(* paint_preprocess, which paints the windows of shown: a window that is    *)
(* not viewable keeps the looks it was last painted with; opacity and dim   *)
(* of a window flagged are calculated, and the flag goes once it is painted.*)
Painted(st, shown) ==
  LET Restored(v) == [v EXCEPT !.dec = [d \in Decision |-> IF ~v.viewable /\ d \in Looks
                                                           THEN v.last[d] ELSE @[d]]]
      Updated(w, v) == IF ~v.opctChange THEN v
                       ELSE [v EXCEPT !.opacityTgt = CalcOpacity(st, w),
                                      !.dimmed = CalcDim(st, w)]
      Saved(v) == [v EXCEPT !.opctChange = FALSE, !.last = [d \in Looks |-> v.dec[d]]]
      After(w) == Updated(w, Restored(st.win[w]))
  IN  [st EXCEPT !.win = [w \in Win |-> IF w \in shown THEN Saved(After(w)) ELSE After(w)]]

Paint ==
  /\ mapping = None
  /\ LET visible == {w \in Win : /\ s.win[w].viewable \/ s.win[w].callback = "unmap"
                                 /\ ~s.win[w].dec["paint"]}
     IN  \E shown \in SUBSET visible : s' = Painted(s, shown)
  /\ s' # s
  /\ UNCHANGED <<mapping, changes>>

(* check_fade_fin: a fade is over and its callback runs.                    *)
FadeDone(w) ==
  /\ mapping = None /\ s.win[w].callback # "none"
  /\ s' = RunCallback(s, w)
  /\ UNCHANGED <<mapping, changes>>

(* win_set_*_force and opts_set_no_fading_openclose, called over D-Bus.     *)
SetForce(st, w, d, value) ==
  LET st1 == [st EXCEPT !.win[w].force[d] = value]
  IN  IF d = "focus" THEN UpdateFocused(st1, w) ELSE Determine(st1, w, {d})

SetOpenclose(st) ==
  LET st1 == [st EXCEPT !.openclose = ~@]
  IN  [st1 EXCEPT !.win = [w \in Win |-> Determine(st1, w, {"fade"}).win[w]]]

DBus ==
  /\ mapping = None /\ changes < MaxChanges
  /\ \/ \E w \in s.o.shown, d \in Forced \cap s.o.offered, value \in Switch :
          /\ value # s.win[w].force[d]
          /\ s' = SetForce(s, w, d, value)
     \/ "openclose" \in s.o.offered /\ s' = SetOpenclose(s)
  /\ changes' = changes + 1
  /\ UNCHANGED mapping

------------------------------------------------------------------------------
(* The clients, the window manager and the user.                            *)

Values(x, atom) ==
  CASE atom = "name"    -> {"n0", "n1"}
    [] atom = "type"    -> {"none", "normal", "dialog"}
    [] atom \in {"transient", "leader"} -> s.o.groups[x]
    [] atom = "opacity" -> {1, Opaque}
    [] atom = "state"   -> IF x \in Kid THEN {TRUE} ELSE {}
    [] atom = "other"   -> BOOLEAN
    [] OTHER            -> IF x \in Win THEN BOOLEAN ELSE {}

Room == changes < MaxChanges /\ Len(s.queue) < MaxQueue

SetProperty(x, atom) ==
  /\ Room /\ atom \in s.o.offered /\ (x \in Win => x \in s.o.shown)
  /\ \E v \in Values(x, atom) : v # s.srv[x][atom] /\ s' = XSet(s, x, atom, v)
  /\ changes' = changes + 1
  /\ UNCHANGED mapping

(* Map and unmap requests are heard of through the root; to map is free.    *)
SetMapped(w) ==
  /\ w \in s.o.shown /\ Len(s.queue) < MaxQueue
  /\ s.mapped[w] => changes < MaxChanges
  /\ s' = [s EXCEPT !.mapped[w] = ~@,
                    !.focus = IF @ = w THEN None ELSE @,
                    !.queue = Append(@, [atom |-> IF s.mapped[w] THEN "unmap" ELSE "map",
                                         x |-> w])]
  /\ changes' = IF s.mapped[w] THEN changes + 1 ELSE changes
  /\ UNCHANGED mapping

(* The focus moves; the window that gets it or loses it tells.              *)
SetFocus(w) ==
  /\ Room /\ "focus" \in s.o.offered /\ s.mapped[w] /\ s.focus # w
  /\ LET moved == [s EXCEPT !.focus = w]
         told == {x \in {w, s.focus} \ {None} : s.mask[x]}
     IN  s' = IF told = {} THEN moved
              ELSE Notified(moved, CHOOSE x \in told : TRUE, "focus")
  /\ changes' = changes + 1
  /\ UNCHANGED mapping

------------------------------------------------------------------------------
NewWin ==
  [viewable |-> FALSE, client |-> None, wmwin |-> FALSE, type |-> "unknown",
   name |-> "n0", leader |-> None, cache |-> None, opacityProp |-> Opaque,
   opacityClient |-> Opaque, opacitySet |-> Opaque, noShadow |-> FALSE,
   shaped |-> FALSE, inOpenclose |-> FALSE, callback |-> "none",
   force |-> [d \in Forced |-> "unset"], dec |-> [d \in Decision |-> FALSE],
   last |-> [d \in Looks |-> FALSE], opctChange |-> FALSE, opacityTgt |-> 0,
   dimmed |-> FALSE]

NewProps(x, state) ==
  [name |-> "n0", type |-> "none", transient |-> None, leader |-> None,
   opacity |-> Opaque, state |-> state, other |-> FALSE, noShadow |-> FALSE,
   shaped |-> FALSE]

(* The windows were added when unmapped; a client in a frame may get its    *)
(* WM_STATE only later, and is watched for it (ev_reparent_notify).         *)
Init ==
  /\ \E o \in Configs, late \in SUBSET Kid :
       /\ late = {} \/ "state" \in o.offered
       /\ s = [o |-> o, win |-> [w \in Win |-> NewWin], activeWin |-> None, activeLeader |-> None,
               srv |-> [x \in Xid |-> NewProps(x, x \in Kid \ late)],
               mask |-> [x \in Xid |-> x \in late], mapped |-> [w \in Win |-> FALSE],
               focus |-> None, queue |-> <<>>, openclose |-> o.openclose]
  /\ mapping = None /\ changes = 0

Next ==
  \/ HandleEvent \/ FinishMapWin \/ Paint \/ DBus
  \/ \E w \in Win : FadeDone(w) \/ SetMapped(w) \/ SetFocus(w)
  \/ \E x \in Xid, atom \in Property : SetProperty(x, atom)

Spec == Init /\ [][Next]_vars

------------------------------------------------------------------------------
(* Properties.                                                              *)

(* The session keeps to its types; a callback is pending only for a window  *)
(* in the matching map state.                                               *)
WinType ==
  [viewable : BOOLEAN, client : Xid \cup {None}, wmwin : BOOLEAN,
   type : {"unknown", "normal", "dialog"}, name : {"n0", "n1"},
   leader : Leaders, cache : Leaders,
   opacityProp : Level, opacityClient : Level, opacitySet : Level,
   noShadow : BOOLEAN, shaped : BOOLEAN, inOpenclose : BOOLEAN,
   callback : {"none", "map", "unmap"}, force : [Forced -> Switch],
   dec : [Decision -> BOOLEAN], last : [Looks -> BOOLEAN], opctChange : BOOLEAN,
   opacityTgt : Level, dimmed : BOOLEAN]

TypeOK ==
  /\ s.win \in [Win -> WinType]
  /\ s.activeWin \in Win \cup {None}
  /\ s.activeLeader \in Leaders
  /\ mapping \in Win \cup {None}
  /\ s.activeWin # None => s.win[s.activeWin].viewable
  /\ \A w \in Win \ {mapping} :
       /\ s.win[w].callback = "map" => s.win[w].viewable
       /\ s.win[w].callback = "unmap" => ~s.win[w].viewable
       /\ s.win[w].viewable => s.win[w].client # None

Settled(w) ==
  /\ s.win[w].viewable /\ mapping # w
  /\ \A i \in DOMAIN s.queue : s.queue[i].x \notin {w, s.win[w].client}

(* The clients that have their WM_STATE when their frames are added: a      *)
(* client found later is not asked for its opacity, and its frame stays in  *)
(* the caches of leaders.                                                   *)
EarlyClients(st) == "state" \notin st.o.offered

(* No window is a waypoint: the toplevel of a window named as a leader has  *)
(* none itself.  win_set_leader updates active_leader only for the window   *)
(* whose leader changes.                                                    *)
Frame(x) == IF x \in Kid THEN Parent[x] ELSE x
Rooted(st) ==
  /\ EarlyClients(st)
  /\ \A x, z \in Xid : \A y \in st.o.groups[x] \cap Xid :
       Frame(z) = Frame(y) => st.o.groups[z] \subseteq {None}

(* map_win selects events before it reads, and unmap_win ends it: once no   *)
(* event of a viewable window waits, what compton has copied of it is what  *)
(* the server has, as far as the window it is on is listened to.            *)
CopiesFresh ==
  \A w \in Win : Settled(w) =>
    LET v == s.win[w]
        frame == s.srv[w]
        client == s.srv[v.client]
        guessed == client.type = "none" /\ "transient" \in s.o.offered
    IN  /\ v.opacityProp = frame.opacity
        /\ v.shaped = frame.shaped
        /\ s.o.respectShadow => v.noShadow = frame.noShadow
        /\ TrackWdata(s) => v.name = client.name
        /\ EarlyClients(s) => v.opacityClient = ClientOpacity(s, w)
        /\ s.mask[v.client] /\ ~guessed => UpdWintype(s, w) = s
        /\ s.mask[v.client] /\ TrackLeader(s) => UpdateLeader(s, w) = s

(* What decision d is not taken again for: the type of a window for what    *)
(* win_on_wtype_change leaves out, its shape for what map_win leaves out    *)
(* after it has read it, both for the old rule of shaped windows.           *)
Blind(d) ==
  (IF d \in {"blur", "paint", "unredir"} THEN {"dialog"} ELSE {}) \cup
  (IF d \in {"invert", "paint", "unredir", "opacity"} THEN {"shaped"} ELSE {})

Followed(st, d) ==
  /\ st.o.lists[d] \cap Blind(d) = {}
  /\ d = "shadow" /\ st.o.ignoreShaped => st.o.lists["shadow"] # {}
  /\ d = "invert" /\ "invert" \in st.o.offered => st.o.lists["invert"] # {}
  /\ d = "focus" /\ TrackLeader(st) => Rooted(st)

(* Whatever the order of events, of D-Bus calls and of paint cycles, each   *)
(* decision about a viewable window is the one its determine function would *)
(* take now, and the target opacity is the one calc_opacity would give or   *)
(* is flagged to be calculated.                                             *)
DecisionsFresh ==
  \A w \in Win : Settled(w) =>
    LET v == s.win[w] IN
    /\ \A d \in Decision : Followed(s, d) => v.dec[d] = Decided(s, w, d)
    /\ Followed(s, "opacity") => UpdateOpacityRule(s, w) = s
    /\ v.opctChange \/ (v.opacityTgt = CalcOpacity(s, w) /\ v.dimmed = CalcDim(s, w))

(* The active group is the group of the active window, and no group is      *)
(* active without one: groups neither outlive a focus nor miss it.          *)
ActiveLeads ==
  (TrackLeader(s) /\ Rooted(s)) =>
    s.activeLeader = IF s.activeWin = None THEN None ELSE Leader(s, s.activeWin)
==============================================================================
