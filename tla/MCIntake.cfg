\* Four requests of one tab, drafts and approvals, and three visits of its pages.
SPECIFICATION Spec
CONSTANTS
  p1 = p1
  p2 = p2
  NoPrompt = NoPrompt
  good = good
  bad = bad
  NoProposal = NoProposal
  Prompts = {p1, p2}
  Proposals = {good, bad}
  Eligible = {good}
  MaxRequests = 4
  MaxVisits = 3
SYMMETRY Interchangeable
INVARIANTS OneOperationPerDraft OneDraftPerKey
PROPERTIES ClearedDraftsAreApproved
CHECK_DEADLOCK FALSE
