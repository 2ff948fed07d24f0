----------------------------- MODULE MCOutbound -----------------------------
(* Small instances of OutboundCalls for TLC. *)
EXTENDS OutboundCalls, TLC

Symmetry == Permutations(Requests) \cup Permutations(Keys) \cup Permutations(Sessions)
=============================================================================
