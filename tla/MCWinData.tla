------------------------------ MODULE MCWinData ------------------------------
(* The configurations: what the lists of conditions look at, which options  *)
(* are set, and which properties the clients change under it.               *)
EXTENDS WinData

CONSTANTS w1, w2, c1, g

MCParent == [k \in Kid |-> w1]

Lists == Decision \cup {"opacity"}
None_ == [l \in Lists |-> {}]
Default ==
  [lists |-> None_, detect |-> {}, groups |-> [x \in Xid |-> {None}],
   specialDialogs |-> FALSE, ignoreShaped |-> FALSE, respectShadow |-> FALSE,
   markWmwin |-> FALSE, clientOpacity |-> FALSE, openclose |-> FALSE,
   inactive |-> 0, active |-> 0, override |-> FALSE, dim |-> FALSE, shown |-> {w1}, offered |-> {}]

All(facts) == [l \in Lists |-> facts]

(* Two windows, where one disturbs the other.                               *)
Focusing ==
  {[Default EXCEPT !.lists = All({"active"}), !.inactive = 1, !.active = 2,
                   !.shown = Win, !.offered = {"focus"}],
   [Default EXCEPT !.detect = {"leader"}, !.inactive = 1, !.dim = TRUE, !.shown = Win,
                   !.groups = [x \in Xid |-> IF x = w2 THEN {None, g, c1} ELSE {None}],
                   !.offered = {"leader", "focus"}]}

(* One window in a frame, and what a decision about it may look at.         *)
Deciding ==
  {[Default EXCEPT !.ignoreShaped = TRUE, !.respectShadow = TRUE,
                   !.offered = {"shaped", "noShadow"}],
   [Default EXCEPT !.lists = All({"shaped"}), !.ignoreShaped = TRUE,
                   !.offered = {"shaped", "opacity"}],
   [Default EXCEPT !.lists = All({"other"}), !.clientOpacity = TRUE,
                   !.offered = {"other", "opacity"}],
   [Default EXCEPT !.lists = All({"name", "dialog"}), !.specialDialogs = TRUE,
                   !.offered = {"type", "name", "state"}],
   [Default EXCEPT !.lists = [None_ EXCEPT !["invert"] = {"dialog"}, !["opacity"] = {"dialog"}],
                   !.specialDialogs = TRUE, !.markWmwin = TRUE, !.inactive = 1,
                   !.override = TRUE, !.groups = [x \in Xid |-> {None, g}],
                   !.offered = {"type", "transient", "state", "focus"}],
   [Default EXCEPT !.detect = {"transient", "leader"}, !.clientOpacity = TRUE,
                   !.groups = [x \in Xid |-> {None, g}], !.dim = TRUE,
                   !.offered = {"transient", "leader", "focus"}],
   [Default EXCEPT !.openclose = TRUE, !.inactive = 1, !.offered = Forced \cup {"openclose"}],
   [Default EXCEPT !.lists = All({"name"}), !.offered = {"invert", "fade", "openclose", "name"}]}

MCConfigs == Focusing \cup Deciding
==============================================================================
