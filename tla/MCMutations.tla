---------------------------- MODULE MCMutations ----------------------------
(* Small instances of MutationTransactions for TLC. *)
EXTENDS MutationTransactions, TLC

Symmetry == Permutations(Deliveries) \cup Permutations(Operations)

\* The row after the approval, after the start, with a quote, with its evidence.
AtApproval == {NewOperation}
AtStart == {[NewOperation EXCEPT !.version = 2, !.started = TRUE]}
AtQuote == {[s EXCEPT !.version = 3, !.quoted = TRUE] : s \in AtStart}
AtEvidence == {[s EXCEPT !.reservation = "open"] : s \in AtQuote}
AtQuoteOrEvidence == AtQuote \cup AtEvidence
=============================================================================
