------------------------------ MODULE MCIntake ------------------------------
(* Small instances of Intake for TLC. *)
EXTENDS Intake, TLC

CONSTANTS p1, p2, good, bad

Interchangeable == Permutations(Prompts)
=============================================================================
