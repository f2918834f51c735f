----------------------------- MODULE MCPainting -----------------------------
(* Sizes are told apart, no more.                                           *)
EXTENDS Painting, TLC

MCConfigs ==
  {[backend |-> "xrender", onroot |-> "reredir"], [backend |-> "dbe", onroot |-> None],
   [backend |-> "glx", onroot |-> None], [backend |-> "glx", onroot |-> "reinit"],
   [backend |-> "hybrid", onroot |-> "reinit"]}

AnySize == Permutations(Sizes) \cup Permutations(RootSizes)
==============================================================================
