------------------------------- MODULE MCDBus -------------------------------
(* The requests the run of DBus sends.                                      *)
EXTENDS DBus

Call(method, fault, noreply) ==
  [method |-> method, fault |-> fault, noreply |-> noreply, target |-> Null, value |-> 0]
Set(target, value) ==
  [method |-> "opts_set", fault |-> "none", noreply |-> FALSE, target |-> target, value |-> value]

MCRequests ==
  {Call("reset", "none", FALSE), Call("list_win", "none", TRUE),
   Call("win_get", "window", FALSE), Call("win_set", "none", TRUE),
   Call("opts_get", "arguments", FALSE), Call("opts_set", "target", FALSE),
   Call("opts_set", "value", TRUE), Call("unknown", "none", FALSE),
   Call("signal", "none", FALSE), Call("repaint", "none", FALSE),
   Set("fade_delta", 0), Set("unredir_if_possible", 1),
   Set("vsync", VSYNC_OPENGL), Set("vsync", VSYNC_SWC),
   Set("vsync", BadVsync), Set("vsync", VSYNC_NONE),
   Set("redirected_force", ON), Set("redirected_force", OFF),
   Set("stoppaint_force", ON), Set("stoppaint_force", OFF)}
==============================================================================
