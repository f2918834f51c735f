-------------------------------- MODULE Stack --------------------------------
(****************************************************************************)
(* The order of compton's window list.                                      *)
(*                                                                          *)
(* ps->list is kept in the stacking order of the server, top to bottom, by  *)
(* applying every event to it.  Structs of windows that are gone stay in    *)
(* between until they have faded out, a window compton could not ask the    *)
(* attributes of is missing, and the server's windows have moved on when    *)
(* their events are handled.                                                *)
(****************************************************************************)
EXTENDS Naturals, SequencesExt, FiniteSetsExt

CONSTANTS
  Id,          \* windows
  Overlay,     \* ps->overlay, a window of Id or None
  None,        \* the window None
  MaxQueue,    \* bound: unhandled events
  MaxStructs   \* bound: structs on the list

ASSUME StackAssumption ==
  /\ IsFiniteSet(Id) /\ None \notin Id
  /\ Overlay \in Id \cup {None}
  /\ MaxQueue \in Nat \ {0} /\ MaxStructs \in Nat \ {0}

VARIABLES
  tree,      \* the children of the root in the server, top to bottom
  scan,      \* how many of them session_init has still to add
  evq,       \* the events not handled, oldest first
  list,      \* ps->list, top to bottom
  order,     \* history: tree as it was when the last handled event was sent
  refused    \* history: the cause, if a restack was not carried out

vars == <<tree, scan, evq, list, order, refused>>

(* The part of struct _win that matters here; need is need_configure.       *)
Struct == [id : Id, destroyed : BOOLEAN, viewable : BOOLEAN, need : BOOLEAN]

Event ==
  [type : {"enter", "leave", "top", "bottom"}, id : Id]
    \cup [type : {"configure"}, id : Id, above : Id \cup {None}]

Cause == {"none", "unknown", "twin", "head"}

------------------------------------------------------------------------------
(* The server.                                                              *)

Position(s, id) == CHOOSE i \in DOMAIN s : s[i] = id
Without(s, id) == IF id \in ToSet(s) THEN RemoveAt(s, Position(s, id)) ELSE s
OnTop(s, id) == <<id>> \o Without(s, id)
AtBottom(s, id) == Append(Without(s, id), id)
(* Directly above `sibling', or at the bottom if it is None.                *)
PutAbove(s, id, sibling) ==
  LET r == Without(s, id)
  IN  IF sibling = None THEN Append(r, id)
      ELSE InsertAt(r, Position(r, sibling), id)

(* What the stacking order becomes by an event.                             *)
Applied(s, e) ==
  CASE e.type \in {"enter", "top"} -> OnTop(s, e.id)
    [] e.type = "leave"            -> Without(s, e.id)
    [] e.type = "bottom"           -> AtBottom(s, e.id)
    [] e.type = "configure"        -> PutAbove(s, e.id, e.above)

Sent(e) ==
  /\ scan = 0 /\ Len(evq) < MaxQueue
  /\ evq' = Append(evq, e)
  /\ tree' = Applied(tree, e)
  /\ UNCHANGED <<scan, list, order, refused>>

(* A window appears on top; it disappears; a client or the window manager   *)
(* restacks it (ConfigureNotify names the window directly below) or         *)
(* circulates it.                                                           *)
InTree(id) == id \in ToSet(tree)
Room ==
  Len(list) + Cardinality({i \in DOMAIN evq : evq[i].type = "enter"}) < MaxStructs
Enter(id) == ~InTree(id) /\ Room /\ Sent([type |-> "enter", id |-> id])
Leave(id) == InTree(id) /\ id # Overlay /\ Sent([type |-> "leave", id |-> id])
Restack(id, above) ==
  /\ InTree(id) /\ (above = None \/ InTree(above)) /\ above # id
  /\ Sent([type |-> "configure", id |-> id, above |-> above])
Circulate(id, place) == InTree(id) /\ Sent([type |-> place, id |-> id])

------------------------------------------------------------------------------
(* The list.                                                                *)

IsLive(l, i, id) == l[i].id = id /\ ~l[i].destroyed
Known(l, id) == \E i \in DOMAIN l : IsLive(l, i, id)
(* find_win.                                                                *)
Find(l, id) == CHOOSE i \in DOMAIN l : IsLive(l, i, id)
LiveOnce(l) ==
  \A i, j \in DOMAIN l : ~l[i].destroyed /\ IsLive(l, j, l[i].id) => i = j

(* The id of the next struct on the list, live or not; whether the next     *)
(* live one is that of a window.                                            *)
NextId(l, i) == IF i < Len(l) THEN l[i + 1].id ELSE None
NextIsLive(l, i, id) ==
  \E j \in i + 1 .. Len(l) :
    IsLive(l, j, id) /\ \A k \in i + 1 .. j - 1 : l[k].destroyed

(* Mutant of Moved: the struct is not unhooked.                              *)
MovedTwice(l, i, above) ==
  IF above = l[i].id THEN l
  ELSE LET at == IF above = None THEN Len(l) + 1 ELSE Find(l, above)
       IN  InsertAt(l, at, l[i])

(* restack_win's unhook and rehook; rehooked above itself nothing changes.  *)
Moved(l, i, above) ==
  IF above = l[i].id THEN l
  ELSE LET r == RemoveAt(l, i)
           at == IF above = None THEN Len(r) + 1 ELSE Find(r, above)
       IN  InsertAt(r, at, l[i])

(* restack_win of the i-th struct does not reach the rehook: the struct     *)
(* after it seems to be the right one already, or the window to be above    *)
(* is not known.                                                            *)
Settled(l, i, above) == NextId(l, i) = above
Lost(l, i, above) == above # None /\ ~Known(l, above)

RestackWin(l, i, above) ==
  IF Settled(l, i, above) \/ Lost(l, i, above) THEN l ELSE Moved(l, i, above)

(* Why the restack of the i-th struct leaves it elsewhere than directly     *)
(* above the live window the event names.                                   *)
CauseOf(l, i, above) ==
  IF Settled(l, i, above)
  THEN IF above # None /\ ~NextIsLive(l, i, above) THEN "twin" ELSE "none"
  ELSE IF Lost(l, i, above) THEN "unknown" ELSE "none"

(* add_win(id, 0): rejected if known, the overlay, or the server does not   *)
(* know the window any more; a window that is elsewhere in the server's     *)
(* tree may be accepted.                                                    *)
AddWin(id) ==
  \/ /\ ~Known(list, id) /\ id # Overlay
     /\ \E viewable \in BOOLEAN :
          list' = <<[id |-> id, destroyed |-> FALSE,
                     viewable |-> viewable, need |-> FALSE]>> \o list
  \/ /\ Known(list, id) \/ id = Overlay \/ ~InTree(id)
     /\ UNCHANGED list

(* destroy_win; need is not read any more.                                  *)
DestroyWin(id) ==
  list' = IF Known(list, id)
          THEN [list EXCEPT ![Find(list, id)].destroyed = TRUE,
                            ![Find(list, id)].viewable = FALSE,
                            ![Find(list, id)].need = FALSE]
          ELSE list

(* Mutant of ConfigureWin: an unmapped window only saves the event, to be    *)
(* restacked when it is mapped.                                             *)
ConfigureWinMapped(l, i, above) ==
  IF l[i].viewable
  THEN LET m == IF l[i].need THEN l ELSE RestackWin(l, i, above)
       IN  [m EXCEPT ![Find(m, l[i].id)].need = FALSE]
  ELSE [l EXCEPT ![i].need = TRUE]

(* configure_win of the i-th struct: an unmapped window is restacked at     *)
(* once and saves the event for its geometry.                               *)
ConfigureWin(l, i, above) ==
  IF l[i].viewable
  THEN LET m == IF l[i].need THEN l ELSE RestackWin(l, i, above)
       IN  [m EXCEPT ![Find(m, l[i].id)].need = FALSE]
  ELSE RestackWin([l EXCEPT ![i].need = TRUE], i, above)

(* circulate_win: to the top is above the head of the list.                 *)
CirculateAbove(l, place) == IF place = "top" THEN l[1].id ELSE None

TypeOK ==
  /\ tree \in Seq(Id) /\ order \in Seq(Id) /\ scan \in 0 .. Len(tree)
  /\ evq \in Seq(Event) /\ Len(evq) <= MaxQueue
  /\ list \in Seq(Struct) /\ LiveOnce(list)
  /\ refused \in Cause

Blame(cause) == refused' = IF refused = "none" THEN cause ELSE refused

------------------------------------------------------------------------------
(* ev_handle of the oldest event.                                           *)
Took(type) ==
  /\ evq # <<>> /\ Head(evq).type \in type
  /\ evq' = Tail(evq)
  /\ order' = Applied(order, Head(evq))
  /\ UNCHANGED <<tree, scan>>

HandleEnter == Took({"enter"}) /\ AddWin(Head(evq).id) /\ UNCHANGED refused
HandleLeave == Took({"leave"}) /\ DestroyWin(Head(evq).id) /\ UNCHANGED refused

HandleConfigure ==
  /\ Took({"configure"})
  /\ LET e == Head(evq) IN
       IF Known(list, e.id)
       THEN /\ list' = ConfigureWin(list, Find(list, e.id), e.above)
            /\ Blame(CauseOf(list, Find(list, e.id), e.above))
       ELSE UNCHANGED <<list, refused>>

HandleCirculate ==
  /\ Took({"top", "bottom"})
  /\ LET e == Head(evq)
         i == Find(list, e.id)
         above == CirculateAbove(list, e.type)
     IN  IF Known(list, e.id)
         THEN /\ list' = RestackWin(list, i, above)
              /\ Blame(IF above # None /\ list[1].destroyed THEN "head"
                       ELSE IF above = e.id THEN "none"
                       ELSE CauseOf(list, i, above))
         ELSE UNCHANGED <<list, refused>>

(* map_win and unmap_win, whose order with the restacks does not matter:    *)
(* map_win applies the saved event, which does not restack.                 *)
MapUnmap ==
  /\ scan = 0
  /\ \E i \in DOMAIN list :
       /\ ~list[i].destroyed
       /\ list' = IF list[i].viewable THEN [list EXCEPT ![i].viewable = FALSE]
                  ELSE [list EXCEPT ![i].viewable = TRUE, ![i].need = FALSE]
  /\ UNCHANGED <<tree, scan, evq, order, refused>>

(* finish_destroy_win, between two events.                                  *)
FinishDestroy ==
  /\ scan = 0
  /\ \E id \in Id :
       LET gone == {i \in DOMAIN list : list[i].id = id /\ list[i].destroyed}
       IN  /\ gone # {}
           /\ list' = RemoveAt(list, CHOOSE i \in gone : \A j \in gone : i <= j)
  /\ UNCHANGED <<tree, scan, evq, order, refused>>

------------------------------------------------------------------------------
(* session_init: while the server is grabbed, the children of the root are  *)
(* added bottom to top, each above the one before it; above the overlay,    *)
(* which is rejected, is at the bottom.                                     *)
Inserted(l, id, prev) ==
  LET new == [id |-> id, destroyed |-> FALSE, viewable |-> TRUE, need |-> FALSE]
  IN  InsertAt(l, IF prev = None THEN 1
                  ELSE IF Known(l, prev) THEN Find(l, prev) ELSE Len(l) + 1, new)

ScanNext ==
  /\ scan > 0
  /\ scan' = scan - 1
  /\ LET id == tree[scan]
         prev == IF scan = Len(tree) THEN None ELSE tree[scan + 1]
     IN  IF id = Overlay THEN UNCHANGED <<list, refused>>
         ELSE /\ list' = Inserted(list, id, prev)
              /\ Blame(IF prev = None \/ Known(list, prev) \/ list = <<>>
                       THEN "none" ELSE "unknown")
  /\ UNCHANGED <<tree, evq, order>>

Init ==
  /\ tree \in SetToAllKPermutations(Id)
  /\ Overlay # None => Overlay \in ToSet(tree)
  /\ scan = Len(tree)
  /\ evq = <<>>
  /\ order = tree
  /\ list = <<>>
  /\ refused = "none"

Next ==
  \/ \E id \in Id :
       \/ Enter(id) \/ Leave(id)
       \/ \E above \in Id \cup {None} : Restack(id, above)
       \/ \E place \in {"top", "bottom"} : Circulate(id, place)
  \/ HandleEnter \/ HandleLeave \/ HandleConfigure \/ HandleCirculate
  \/ ScanNext \/ MapUnmap \/ FinishDestroy

Spec == Init /\ [][Next]_vars

------------------------------------------------------------------------------
Above(s, x, y) == \E i, j \in DOMAIN s : i < j /\ s[i] = x /\ s[j] = y
Ordered(l, s) ==
  \A j \in DOMAIN l :
    ~l[j].destroyed =>
      /\ l[j].id \in ToSet(s)
      /\ \A i \in 1 .. j - 1 : ~l[i].destroyed => Above(s, l[i].id, l[j].id)

(* Unless the code has left out a restack, its live windows are in the      *)
(* order the server had them in when the last handled event was sent,       *)
(* whatever structs of dead windows stand in between.                       *)
InOrder == refused = "none" => Ordered(list, order)
==============================================================================
