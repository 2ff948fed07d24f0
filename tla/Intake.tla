------------------------------- MODULE Intake -------------------------------
(* From a prompt to an approved operation: the intake and the mandate page of one
   tab, the requests they send, and the two transactions that answer them. A
   request goes on in the server when its client gave up or left the page. The
   extraction comes before the transaction that looks the key up, and what it
   found is part of the fingerprint. *)
EXTENDS Naturals, FiniteSets, Sequences

CONSTANTS Prompts,      \* what a coordinator may ask for, with its language
          NoPrompt,
          Proposals,    \* what an extraction may find in a prompt
          NoProposal,
          Eligible,     \* the proposals without a validation issue
          MaxRequests,  \* requests of the tab
          MaxVisits     \* times a page is opened or loaded again

ASSUME IntakeAssumption ==
    /\ NoPrompt \notin Prompts
    /\ NoProposal \notin Proposals
    /\ Eligible \subseteq Proposals
    /\ {MaxRequests, MaxVisits} \subseteq Nat \ {0}

VARIABLES requests,    \* what the tab has sent, in order
          drafts,      \* the rows of the drafts, in the order of their ids
          operations,  \* the rows of the operations
          records,     \* the idempotency records of both transactions
          page,        \* the page the tab shows
          stored,      \* the draft in the storage of the session, 0 for none
          visits

vars == <<requests, drafts, operations, records, page, stored, visits>>
serverVars == <<drafts, operations, records>>

Keys == 1..MaxRequests   \* a request makes at most one key
Ids == 1..MaxRequests    \* and at most one draft
Kinds == {"draft", "approval"}
Requests == 1..Len(requests)

RequestType ==
    [kind : Kinds, key : Keys, prompt : Prompts \cup {NoPrompt}, draft : 0..MaxRequests,
     step : {"sent", "extracted", "looked", "answered"}, found : Proposals \cup {NoProposal},
     answer : {"none", "ok", "failed", "conflict", "refused"}]
DraftType == [key : Keys, prompt : Prompts, proposal : Proposals]
OperationType == [draft : Ids, key : Keys]
RecordType ==
    [kind : Kinds, key : Keys, prompt : Prompts \cup {NoPrompt},
     found : Proposals \cup {NoProposal}, result : Ids]
PageType ==
    [on : {"intake", "mandate"}, last : Prompts \cup {NoPrompt}, draft : 0..MaxRequests,
     key : 0..MaxRequests, at : {"idle", "pending", "error", "done"}, request : 0..MaxRequests]

NewPage(on) ==
    [on |-> on, last |-> NoPrompt, draft |-> 0, key |-> 0, at |-> "idle", request |-> 0]

Init ==
    /\ requests = <<>>
    /\ drafts = <<>>
    /\ operations = {}
    /\ records = {}
    /\ page = NewPage("intake")
    /\ stored = 0
    /\ visits = 0

FreshKey == Len(requests) + 1

Sent(kind, key, prompt, draft) ==
    /\ Len(requests) < MaxRequests
    /\ requests' = Append(requests, [kind |-> kind, key |-> key, prompt |-> prompt, draft |-> draft,
                                     step |-> "sent", found |-> NoProposal, answer |-> "none"])
    /\ page' = [page EXCEPT !.last = prompt, !.draft = draft, !.key = key,
                            !.at = "pending", !.request = Len(requests) + 1]

-----------------------------------------------------------------------------
(* The tab. *)

\* onSubmit: a retry of an attempt that has not succeeded repeats its key.
Submit(p) ==
    LET retry == page.at # "done" /\ page.last = p IN
    /\ page.on = "intake"
    /\ page.at # "pending"
    /\ Sent("draft", IF retry THEN page.key ELSE FreshKey, p, 0)
    /\ UNCHANGED <<serverVars, stored, visits>>

\* approve: one key for each draft, as long as the page is mounted.
Approve ==
    /\ page.on = "mandate"
    /\ stored # 0
    /\ page.at \notin {"pending", "done"}
    /\ Sent("approval", IF page.draft = stored THEN page.key ELSE FreshKey, NoPrompt, stored)
    /\ UNCHANGED <<serverVars, stored, visits>>

\* A mutant of the next definition: an answer is heard whoever asked for it.
ListeningToAll(r) == TRUE

\* The callback of a request runs while the page that sent it is mounted.
Listening(r) == page.at = "pending" /\ page.request = r

DraftOf(r) ==
    CHOOSE d \in DOMAIN drafts :
        \E rec \in records : rec.kind = "draft" /\ rec.key = requests[r].key /\ rec.result = d

\* validate_draft finds no issue: the draft may be approved.
Reviewable(d) == drafts[d].proposal \in Eligible

\* An eligible draft is stored for the mandate page; an approved one is used up.
Hear(r) ==
    LET ok == requests[r].answer = "ok" IN
    /\ requests[r].step = "answered"
    /\ Listening(r)
    /\ page' = [page EXCEPT !.at = IF ok THEN "done" ELSE "error"]
    /\ stored' = IF ~ok THEN stored
                 ELSE IF requests[r].kind = "approval" THEN 0
                 ELSE IF Reviewable(DraftOf(r)) THEN DraftOf(r) ELSE stored
    /\ UNCHANGED <<requests, serverVars, visits>>

\* The client is told of a failure of the network, at any time.
Lose ==
    /\ page.at = "pending"
    /\ page' = [page EXCEPT !.at = "error"]
    /\ UNCHANGED <<requests, serverVars, stored, visits>>

\* The tab opens a page or loads one again. A page that is left forgets its keys
\* and hears no answer; the storage stays.
Visit(on) ==
    /\ visits < MaxVisits
    /\ visits' = visits + 1
    /\ page' = NewPage(on)
    /\ UNCHANGED <<requests, serverVars, stored>>

-----------------------------------------------------------------------------
(* The API. *)

\* A mutant of the next definition: the fingerprint is part of the lookup.
FoundExactly(q) ==
    {rec \in records : rec.kind = q.kind /\ rec.key = q.key /\ rec.found = q.found}

Found(q) == {rec \in records : rec.kind = q.kind /\ rec.key = q.key}

Answered(r, answer) == requests' = [requests EXCEPT ![r].step = "answered", ![r].answer = answer]

Recorded(q, result) ==
    records' = records \cup {[kind |-> q.kind, key |-> q.key, prompt |-> q.prompt,
                              found |-> q.found, result |-> result]}

\* The transaction, or the extractor after its attempts, or the process fails.
Fails(r) ==
    /\ requests[r].step # "answered"
    /\ Answered(r, "failed")
    /\ UNCHANGED <<serverVars, page, stored, visits>>

\* create_operation_draft: the model reads the prompt, before any lookup.
Extract(r, p) ==
    /\ requests[r].kind = "draft"
    /\ requests[r].step = "sent"
    /\ requests' = [requests EXCEPT ![r].step = "extracted", ![r].found = p]
    /\ UNCHANGED <<serverVars, page, stored, visits>>

\* create_with_replay: one transaction under the lock of the key.
CreateDraft(r) ==
    LET q == requests[r] IN
    /\ q.kind = "draft"
    /\ q.step = "extracted"
    /\ IF Found(q) = {}
         THEN /\ drafts' = Append(drafts, [key |-> q.key, prompt |-> q.prompt, proposal |-> q.found])
              /\ Recorded(q, Len(drafts) + 1)
              /\ Answered(r, "ok")
         ELSE /\ Answered(r, IF \E rec \in Found(q) : rec.prompt = q.prompt /\ rec.found = q.found
                               THEN "ok" ELSE "conflict")
              /\ UNCHANGED <<drafts, records>>
    /\ UNCHANGED <<operations, page, stored, visits>>

\* approve_with_replay, up to its insert: the lock of the key, its record, the
\* draft and the operation the draft already has.
LookApproval(r) ==
    LET q == requests[r] IN
    /\ q.kind = "approval"
    /\ q.step = "sent"
    /\ \A s \in Requests : requests[s].step = "looked" => requests[s].key # q.key
    /\ IF Found(q) # {} THEN Answered(r, "ok")
       ELSE IF \E o \in operations : o.draft = q.draft THEN Answered(r, "refused")
       ELSE requests' = [requests EXCEPT ![r].step = "looked"]
    /\ UNCHANGED <<serverVars, page, stored, visits>>

\* A mutant of the next definition: no constraint on the draft of an operation.
Unconstrained(q) == FALSE

\* uq_volta_operations_source_draft_id: the insert waits for another of its draft.
Conflicting(q) == \E o \in operations : o.draft = q.draft

\* The insert and the commit. The operation is then read in another transaction,
\* which may fail.
InsertOperation(r) ==
    LET q == requests[r] IN
    /\ q.kind = "approval"
    /\ q.step = "looked"
    /\ IF Conflicting(q)
         THEN Answered(r, "refused") /\ UNCHANGED <<operations, records>>
         ELSE /\ operations' = operations \cup {[draft |-> q.draft, key |-> q.key]}
              /\ Recorded(q, q.draft)
              /\ Answered(r, "ok") \/ Answered(r, "failed")
    /\ UNCHANGED <<drafts, page, stored, visits>>

-----------------------------------------------------------------------------
Next ==
    \/ \E p \in Prompts : Submit(p)
    \/ Approve
    \/ Lose
    \/ \E on \in {"intake", "mandate"} : Visit(on)
    \/ \E r \in Requests :
         \/ Hear(r)
         \/ \E p \in Proposals : Extract(r, p)
         \/ Fails(r) \/ CreateDraft(r) \/ LookApproval(r) \/ InsertOperation(r)

Spec == Init /\ [][Next]_vars

-----------------------------------------------------------------------------
TypeOK ==
    /\ requests \in Seq(RequestType) /\ Len(requests) <= MaxRequests
    /\ drafts \in Seq(DraftType)
    /\ operations \subseteq OperationType
    /\ records \subseteq RecordType
    /\ page \in PageType
    /\ stored \in 0..Len(drafts)
    /\ visits \in 0..MaxVisits

\* A draft becomes one operation at most, though approvals of it with different
\* keys overlap: both may have found no operation before either inserts.
OneOperationPerDraft ==
    \A o1, o2 \in operations : o1.draft = o2.draft => o1 = o2

\* A submission and its retries make one draft at most, though a request whose
\* client gave up is still being extracted when its retry arrives.
OneDraftPerKey ==
    \A i, j \in DOMAIN drafts : drafts[i].key = drafts[j].key => i = j

\* A reviewed draft leaves the storage only when it is approved, or for a newer
\* one: no late answer takes away a draft that waits for its approval.
ClearedDraftsAreApproved ==
    [][stored # 0 /\ stored' # stored =>
          \/ stored' > stored
          \/ stored' = 0 /\ \E o \in operations : o.draft = stored]_vars

\* "Same-key/same-request retries return the original status/body": the form
\* repeats a key for the same prompt only, and is told that it belongs to another.
RetriedDraftIsReplayed ==
    \A r \in Requests : requests[r].kind = "draft" => requests[r].answer # "conflict"

\* "generates a new key only for a new logical action": an approval without an
\* answer is repeated with the key it had.
UncertainApprovalKeepsKey ==
    \A r, s \in Requests :
        /\ r < s
        /\ requests[r].kind = "approval" /\ requests[s].kind = "approval"
        /\ requests[r].draft = requests[s].draft
        => requests[r].key = requests[s].key
=============================================================================
