------------------------------- MODULE XServer -------------------------------
(****************************************************************************)
(* The X server as compton sees it: for every window id, whether it is a    *)
(* child of the root window, and the queue of the SubstructureNotify events *)
(* compton has not handled yet.  The server runs ahead of its client: a     *)
(* request compton sends while it handles an old event                      *)
(* (XGetWindowAttributes in add_win) is answered from the present state.    *)
(*                                                                          *)
(* CreateNotify and ReparentNotify to the root both make compton call       *)
(* add_win(id, 0), and DestroyNotify and ReparentNotify away from the root  *)
(* both make it call destroy_win(id): the queue tells them apart only as    *)
(* "enter" and "leave".                                                     *)
(****************************************************************************)
EXTENDS Naturals, Sequences

CONSTANTS
  Id,        \* window ids
  MaxQueue   \* bound: unhandled events

ASSUME MaxQueueAssumption == MaxQueue \in Nat \ {0}

VARIABLES
  sv,        \* sv[id]: where the server has the window
  evq        \* the events compton has not handled, oldest first

serverVars == <<sv, evq>>

Place == {"gone", "elsewhere", "unmapped", "viewable"}
EventType == {"enter", "leave", "map", "unmap"}
Event == [type : EventType, id : Id]

RootChild(id) == sv[id] \in {"unmapped", "viewable"}

ServerTypeOK ==
  /\ sv \in [Id -> Place]
  /\ evq \in Seq(Event)
  /\ Len(evq) <= MaxQueue

(* When compton starts the windows are where they are, and the grab of the  *)
(* server in session_init leaves no event behind.                           *)
ServerInit ==
  /\ sv \in [Id -> {"gone", "unmapped", "viewable"}]
  /\ evq = <<>>

Sends(es) ==
  /\ Len(evq) + Len(es) <= MaxQueue
  /\ evq' = evq \o es

(* A client creates the window, or its window manager reparents it back to  *)
(* the root.                                                                *)
Enter(id) ==
  /\ ~RootChild(id)
  /\ sv' = [sv EXCEPT ![id] = "unmapped"]
  /\ Sends(<<[type |-> "enter", id |-> id]>>)

Map(id) ==
  /\ sv[id] = "unmapped"
  /\ sv' = [sv EXCEPT ![id] = "viewable"]
  /\ Sends(<<[type |-> "map", id |-> id]>>)

Unmap(id) ==
  /\ sv[id] = "viewable"
  /\ sv' = [sv EXCEPT ![id] = "unmapped"]
  /\ Sends(<<[type |-> "unmap", id |-> id]>>)

(* The window is destroyed or reparented into another one; the server       *)
(* unmaps a mapped window first.                                            *)
Leave(id, to) ==
  /\ RootChild(id)
  /\ to \in {"gone", "elsewhere"}
  /\ sv' = [sv EXCEPT ![id] = to]
  /\ Sends(IF sv[id] = "viewable"
           THEN <<[type |-> "unmap", id |-> id], [type |-> "leave", id |-> id]>>
           ELSE <<[type |-> "leave", id |-> id]>>)

(* A window that is not a child of the root is destroyed: the root's        *)
(* SubstructureNotify mask reports nothing.                                 *)
DestroyElsewhere(id) ==
  /\ sv[id] = "elsewhere"
  /\ sv' = [sv EXCEPT ![id] = "gone"]
  /\ UNCHANGED evq

(* What XGetWindowAttributes may answer about id.  "fail" stands for an     *)
(* error (no such window) and for IsUnviewable; a window inside another one *)
(* is viewable, unviewable or unmapped.                                     *)
Attributes(id) ==
  CASE sv[id] = "gone"      -> {"fail"}
    [] sv[id] = "elsewhere" -> {"fail", "unmapped", "viewable"}
    [] OTHER                -> {sv[id]}

==============================================================================
