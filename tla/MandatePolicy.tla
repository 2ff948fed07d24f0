--------------------------- MODULE MandatePolicy ---------------------------
(***************************************************************************)
(* MandatePolicy of volta/mandates/services.py: when terms a carrier asks  *)
(* for are inside a mandate a coordinator approved.                        *)
(*                                                                         *)
(* A mandate and terms carry what the policy compares: an amount, a pickup *)
(* window in days and a set of conditions.  A foreign currency is refused  *)
(* exactly as a condition that is not allowed, so it is one of those.      *)
(***************************************************************************)
EXTENDS Naturals

TermsType == [amount : Nat, start : Nat, end : Nat, conditions : SUBSET STRING]

MandateType == [limit : Nat, start : Nat, end : Nat, conditions : SUBSET STRING]

\* The data reasons of MandatePolicy.evaluate, for both ends of the pickup
\* window as RecordQuoteService._quote_reasons and _mandate_reasons ask.
Within(m, t) ==
  /\ t.amount <= m.limit
  /\ {t.start, t.end} \subseteq m.start .. m.end
  /\ t.conditions \subseteq m.conditions

\* MandatePolicy.require_valid_mandate for a mandate of MandateType.
ValidMandate(m, pickupDate) == pickupDate \in m.start .. m.end
=============================================================================
