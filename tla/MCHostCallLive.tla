--------------------------- MODULE MCHostCallLive ---------------------------
(* Liveness instances of HostCall with the host functions of HostCallCode. *)
EXTENDS HostCallLive, HostCallCode

CONSTANTS s1, p1, p2
=============================================================================
