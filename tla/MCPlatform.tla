---------------------------- MODULE MCPlatform ------------------------------
(* A small instance of Platform for TLC: the cfg file gives the model values. *)
EXTENDS Platform, TLC

MCSymmetry == Permutations(Device) \cup Permutations(Req) \cup Permutations(User)
=============================================================================
