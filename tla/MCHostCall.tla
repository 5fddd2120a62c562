----------------------------- MODULE MCHostCall -----------------------------
(* Model-checking instances of HostCall with the host functions of         *)
(* HostCallCode.                                                           *)
EXTENDS HostCall, HostCallCode, TLC

CONSTANTS s1, s2, p1, p2, p3

MCPtr == {p1, p2, p3}
MCSymmetry == Permutations(MCPtr) \cup Permutations(Signals)
=============================================================================
