----------------------------- MODULE MCRegistry -----------------------------
(* Instances of NodeRegistry for TLC. *)
EXTENDS NodeRegistry

CONSTANTS a, s, t1, t2

\* One node from the NODES list, one registered from the bot.
MCStatic == [n \in {s} |-> t1]

=============================================================================
