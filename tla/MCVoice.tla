------------------------------ MODULE MCVoice ------------------------------
(* Small instances of BrowserVoice for TLC. *)
EXTENDS BrowserVoice, TLC

Interchangeable == Permutations(Calls)
=============================================================================
