\* Requests of one key to two operations, and retries that overlap or come after
\* the mandate was replaced: four are a start, an escalation, a new mandate and
\* the start again.
SPECIFICATION Spec
CONSTANTS
  Operations = {o1, o2}
  Deliveries = {d1, d2, d3, d4}
  Keys = {k1}
  Kinds = {"start_negotiation", "record_quote", "attach_commitment_evidence", "create_commitment", "create_escalation", "replace_mandate", "start_inbound_simulation"}
  First <- AtApproval
  Nobody = Nobody
SYMMETRY Symmetry
INVARIANTS
  OneMutationPerKey
PROPERTIES
  MutationsAreAtomic
  RetriesAreReplayed
\* Once every request is answered nothing is left to do.
CHECK_DEADLOCK FALSE
