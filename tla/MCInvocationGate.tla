-------------------------- MODULE MCInvocationGate --------------------------
(* Instance of InvocationGate for TLC. *)
EXTENDS InvocationGate

CONSTANTS a, b, c, d
=============================================================================
