-------------------------------- MODULE Screen --------------------------------
(****************************************************************************)
(* What painting promises: parts of the screen go stale, when windows draw  *)
(* or the server loses pixels, and before long a frame shows the screen as  *)
(* it is, with nothing stale left on it.                                    *)
(****************************************************************************)
CONSTANT Area        \* the parts of the screen
VARIABLE stale       \* those that do not show what they should

Init == stale = {}

Change(S) == stale' = stale \cup S
Show == stale # {} /\ stale' = {}

Next == Show \/ \E S \in SUBSET Area : Change(S)

Safety == Init /\ [][Next]_stale
Spec == Safety /\ WF_stale(Show)
==============================================================================
