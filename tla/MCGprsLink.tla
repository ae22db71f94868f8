---------------------------- MODULE MCGprsLink ----------------------------
(***************************************************************************)
(* Two login attempts, a check asked for in every cycle the flag allows,     *)
(* dogs that bite after one cycle (heartbeat) and two (restart), one file,   *)
(* one answer in the module and one fault of the network.                   *)
(***************************************************************************)
EXTENDS GprsLink
=============================================================================
