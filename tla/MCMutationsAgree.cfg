\* From a quote to its recovered commitment, and an escalation on the way: does
\* every request end, with requests that take locks of keys and of rows, and
\* what becomes of the retry of a commitment that used up its reservation?
SPECIFICATION FairSpec
CONSTANTS
  Operations = {o1}
  Deliveries = {d1, d2, d3}
  Keys = {k1}
  Kinds = {"attach_commitment_evidence", "create_commitment", "start_inbound_simulation", "create_escalation"}
  First <- AtQuoteOrEvidence
  Nobody = Nobody
PROPERTIES
  EveryRequestIsAnswered
  RetriesAreReplayed
\* Once every request is answered nothing is left to do.
CHECK_DEADLOCK FALSE
