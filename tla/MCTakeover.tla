----------------------------- MODULE MCTakeover -----------------------------
(* Small instances of LiveTakeover.                                        *)
EXTENDS LiveTakeover

CONSTANTS r1, r2, kPage, kOther
=============================================================================
