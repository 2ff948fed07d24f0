----------------------------- MODULE MCInbound -----------------------------
(* Small instances of InboundCalls: calls and operations differ in nothing  *)
(* but their names.                                                        *)
EXTENDS InboundCalls, TLC

CONSTANTS c1, c2, o1, o2, n1, n2

Interchangeable ==
  Permutations(Calls) \cup Permutations(Operations)
=============================================================================
