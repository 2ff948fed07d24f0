---------------------------- MODULE MCOperation ----------------------------
(* A small instance of OperationRecords for TLC: two carriers. *)
EXTENDS OperationRecords, TLC

CONSTANTS c1, c2

TwoCalls == {c1, c2}
PriorityOfTwo == c1 :> 1 @@ c2 :> 2

Cheap == [amount |-> 1, start |-> 1, end |-> 1, conditions |-> {}]
Dear == [amount |-> 2, start |-> 1, end |-> 1, conditions |-> {}]
\* The window starts inside every mandate below and ends outside of it.
Late == [amount |-> 1, start |-> 1, end |-> 3, conditions |-> {}]
ThreeTerms == {Cheap, Dear, Late}

Narrow == [limit |-> 1, start |-> 1, end |-> 1, conditions |-> {}]
Wide == [limit |-> 2, start |-> 0, end |-> 2, conditions |-> {}]
TwoMandates == {Narrow, Wide}
=============================================================================
