------------------------------ MODULE MCCycle -------------------------------
(* Instances of CheckCycle for TLC. *)
EXTENDS CheckCycle

CONSTANTS a, b, bad

\* One proxy is replaced by another; a refused outbound comes and goes.
MCSets == {{a}, {b}, {a, bad}}

=============================================================================
