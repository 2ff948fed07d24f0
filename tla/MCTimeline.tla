----------------------------- MODULE MCTimeline -----------------------------
(* Small instances of AuditTimeline.                                       *)
EXTENDS AuditTimeline
=============================================================================
