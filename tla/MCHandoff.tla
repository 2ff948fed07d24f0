----------------------------- MODULE MCHandoff -----------------------------
(* Small instances of HumanHandoff: the requests differ in nothing but their *)
(* names, one key belongs to the control of the page, one to another client.*)
EXTENDS HumanHandoff, TLC

CONSTANTS r1, r2, kPage, kOther

Interchangeable == Permutations(Requests)
=============================================================================
