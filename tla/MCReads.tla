------------------------------ MODULE MCReads ------------------------------
(* A small instance of OperationReads for TLC: one carrier, long histories. *)
EXTENDS OperationReads, TLC

CONSTANTS c1

OneCall == {c1}
PriorityOfOne == c1 :> 1

Plain == [amount |-> 1, start |-> 1, end |-> 1, conditions |-> {}]
Escorted == [amount |-> 1, start |-> 1, end |-> 1, conditions |-> {"escort"}]
TwoTerms == {Plain, Escorted}

Strict == [limit |-> 1, start |-> 1, end |-> 1, conditions |-> {}]
Open == [limit |-> 1, start |-> 0, end |-> 2, conditions |-> {"escort"}]
\* A mandate whose window misses the pickup date.
Missed == [limit |-> 2, start |-> 2, end |-> 3, conditions |-> {}]
ThreeMandates == {Strict, Open, Missed}
=============================================================================
