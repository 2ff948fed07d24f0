---------------------------- MODULE IntakeProofs ----------------------------
(* What holds of drafts and approvals for every number of requests and visits and
   for every set of prompts and proposals. *)
EXTENDS Intake, FiniteSetTheorems, SequenceTheorems, TLAPS

\* Drafts and their records name each other by key and by number.
Linked ==
    /\ \A i \in DOMAIN drafts :
         \E rec \in records : rec.kind = "draft" /\ rec.key = drafts[i].key
    /\ \A rec \in records : rec.kind = "draft" => rec.result \in DOMAIN drafts

\* A request carries what its step needs, and a submission that was answered with
\* a draft has the record of its key.
Carried ==
    \A r \in Requests :
        /\ requests[r].kind = "draft" => requests[r].prompt \in Prompts
        /\ requests[r].kind = "draft" /\ requests[r].step = "extracted"
             => requests[r].found \in Proposals
        /\ requests[r].kind = "approval" => requests[r].draft \in DOMAIN drafts
        /\ requests[r].kind = "draft" /\ requests[r].answer = "ok"
             => \E rec \in records : rec.kind = "draft" /\ rec.key = requests[r].key

\* A page that has sent something has the key it used.
Keyed ==
    /\ page.draft <= Len(drafts)
    /\ page.last # NoPrompt \/ page.draft # 0 => page.key # 0

\* An operation has the record of its approval, and an approval that holds the lock
\* of its key is alone with it and before any operation of that key.
Locked ==
    /\ \A o \in operations :
         \E rec \in records : rec.kind = "approval" /\ rec.key = o.key
    /\ \A r \in Requests :
         requests[r].step = "looked" =>
             /\ requests[r].kind = "approval"
             /\ \A o \in operations : o.key # requests[r].key
             /\ \A s \in Requests \ {r} :
                  requests[s].step = "looked" => requests[s].key # requests[r].key

\* An approval and its retries make one operation at most.
OneOperationPerKey ==
    \A o1, o2 \in operations : o1.key = o2.key => o1 = o2

\* The inductive invariant.
Inv ==
    /\ TypeOK /\ Linked /\ Carried /\ Keyed /\ OneDraftPerKey
    /\ Locked /\ OneOperationPerKey /\ OneOperationPerDraft

-----------------------------------------------------------------------------
\* Constants are numbers, and no prompt is none.
LEMMA Constants ==
    /\ MaxRequests \in Nat \ {0} /\ MaxVisits \in Nat
    /\ NoPrompt \notin Prompts /\ NoProposal \notin Proposals
    BY IntakeAssumption

\* A request that is appended leaves the others as they are.
LEMMA AppendTyped ==
    ASSUME NEW T, NEW s \in Seq(T), NEW e \in T
    PROVE  /\ Append(s, e) \in Seq(T)
           /\ Len(Append(s, e)) = Len(s) + 1
           /\ DOMAIN Append(s, e) = 1..Len(s) + 1
           /\ \A i \in 1..Len(s) : Append(s, e)[i] = s[i]
           /\ Append(s, e)[Len(s) + 1] = e
    OBVIOUS

\* A request that goes on leaves the others as they are.
LEMMA GoOnTyped ==
    ASSUME TypeOK, NEW r \in Requests, NEW q \in RequestType,
           requests' = [requests EXCEPT ![r] = q]
    PROVE  /\ requests' \in Seq(RequestType)
           /\ Len(requests') = Len(requests)
           /\ Requests' = Requests
           /\ \A s \in Requests : requests'[s] = IF s = r THEN q ELSE requests[s]
    BY ExceptSeq DEF TypeOK, Requests

\* An answer changes nothing else of its request.
LEMMA AnsweredTyped ==
    ASSUME TypeOK, NEW r \in Requests,
           NEW answer \in {"none", "ok", "failed", "conflict", "refused"},
           Answered(r, answer)
    PROVE  LET q == [requests[r] EXCEPT !.step = "answered", !.answer = answer]
           IN q \in RequestType /\ requests' = [requests EXCEPT ![r] = q]
<1>1. requests[r] \in RequestType /\ requests \in Seq(RequestType)
    BY ElementOfSeq DEF TypeOK, Requests
<1>2. [requests[r] EXCEPT !.step = "answered", !.answer = answer] \in RequestType
    BY <1>1 DEF RequestType
<1>3. QED
    BY <1>1, <1>2 DEF Answered

\* Drafts with different keys are no more than the keys.
LEMMA DraftsBounded ==
    ASSUME NEW made \in Seq(DraftType),
           \A i, j \in DOMAIN made : made[i].key = made[j].key => i = j
    PROVE  Len(made) <= MaxRequests
<1> DEFINE f == [i \in 1..Len(made) |-> made[i].key]
<1>1. Len(made) \in Nat /\ DOMAIN made = 1..Len(made)
    BY LenProperties
<1>2. \A i \in 1..Len(made) : made[i] \in DraftType
    BY ElementOfSeq
<1>3. f \in [1..Len(made) -> 1..MaxRequests]
    BY <1>2 DEF DraftType, Keys
<1>4. \A i, j \in 1..Len(made) : f[i] = f[j] => i = j
    BY <1>1
<1>5. /\ IsFiniteSet(1..Len(made)) /\ Cardinality(1..Len(made)) = Len(made)
      /\ IsFiniteSet(1..MaxRequests) /\ Cardinality(1..MaxRequests) = MaxRequests
    <2>1. /\ 1 \in Int /\ Len(made) \in Int /\ MaxRequests \in Int
          /\ ~(1 > MaxRequests) /\ MaxRequests - 1 + 1 = MaxRequests
          /\ Len(made) - 1 + 1 = Len(made) /\ (1 > Len(made) => Len(made) = 0)
        BY <1>1, Constants
    <2>2. /\ IsFiniteSet(1..Len(made))
          /\ Cardinality(1..Len(made)) = IF 1 > Len(made) THEN 0 ELSE Len(made) - 1 + 1
        BY <2>1, FS_Interval
    <2>3. /\ IsFiniteSet(1..MaxRequests)
          /\ Cardinality(1..MaxRequests) = IF 1 > MaxRequests THEN 0 ELSE MaxRequests - 1 + 1
        BY <2>1, FS_Interval
    <2>4. QED
        BY <2>1, <2>2, <2>3
<1>6. CASE MaxRequests < Len(made)
    <2>1. \E i, j \in 1..Len(made) : i # j /\ f[i] = f[j]
        <3> DEFINE S == 1..Len(made)
                   T == 1..MaxRequests
        <3>1. /\ IsFiniteSet(S) /\ IsFiniteSet(T) /\ f \in [S -> T]
              /\ Cardinality(T) < Cardinality(S)
            BY <1>3, <1>5, <1>6
        <3>. HIDE DEF f, S, T
        <3>2. \E i, j \in S : i # j /\ f[i] = f[j]
            BY <3>1, FS_PigeonHole
        <3>3. QED
            BY <3>2 DEF S
    <2>2. QED
        BY <1>4, <2>1
<1>7. QED
    BY <1>1, <1>6, Constants

-----------------------------------------------------------------------------
\* The initial state satisfies the invariant.
LEMMA InitInv == ASSUME Init PROVE Inv
<1>1. /\ requests \in Seq(RequestType) /\ drafts \in Seq(DraftType)
      /\ Len(requests) = 0 /\ Len(drafts) = 0
    BY DEF Init
<1>2. TypeOK
    BY <1>1, Constants DEF Init, TypeOK, NewPage, PageType
<1>3. QED
    BY <1>1, <1>2, Constants
    DEF Init, Inv, Linked, Carried, Keyed, OneDraftPerKey, Locked, Requests,
        OneOperationPerKey, OneOperationPerDraft, NewPage

\* A request of the tab.
LEMMA SentInv ==
    ASSUME Inv, UNCHANGED <<serverVars, stored, visits>>,
           NEW kind \in Kinds, NEW key \in Keys,
           NEW prompt \in Prompts \cup {NoPrompt}, NEW draft \in 0..Len(drafts),
           Sent(kind, key, prompt, draft),
           kind = "draft" => prompt \in Prompts,
           kind = "approval" => draft # 0
    PROVE  Inv'
<1> DEFINE q == [kind |-> kind, key |-> key, prompt |-> prompt, draft |-> draft,
                 step |-> "sent", found |-> NoProposal, answer |-> "none"]
           n == Len(requests)
<1>0. Len(drafts) \in Nat /\ Len(drafts) <= MaxRequests /\ MaxRequests \in Nat
      /\ DOMAIN drafts = 1..Len(drafts)
    BY DraftsBounded, Constants, LenProperties DEF Inv, TypeOK, OneDraftPerKey
<1>1. q \in RequestType
    BY <1>0 DEF RequestType
<1>2. /\ requests' \in Seq(RequestType) /\ Len(requests') = n + 1
      /\ Requests' = Requests \cup {n + 1} /\ n + 1 \notin Requests
      /\ requests'[n + 1] = q
      /\ \A i \in Requests : requests'[i] = requests[i]
      /\ n + 1 <= MaxRequests /\ n \in Nat
    <2>1. requests \in Seq(RequestType) /\ n \in Nat
        BY LenProperties DEF Inv, TypeOK
    <2>2. requests' = Append(requests, q) /\ n < MaxRequests
        BY DEF Sent
    <2>. HIDE DEF q
    <2>3. QED
        BY <1>0, <1>1, <2>1, <2>2, AppendTyped DEF Requests
<1>3. /\ page' \in PageType /\ page'.key = key /\ page'.draft = draft
    <2>1. page' = [page EXCEPT !.last = prompt, !.draft = draft, !.key = key,
                               !.at = "pending", !.request = n + 1]
        BY DEF Sent
    <2>2. page \in PageType /\ draft \in 0..MaxRequests /\ key \in 0..MaxRequests
          /\ n + 1 \in 0..MaxRequests
        BY <1>0, <1>2 DEF Inv, TypeOK, Keys
    <2>. HIDE DEF n
    <2>3. QED
        BY <2>1, <2>2 DEF PageType
<1>4. TypeOK'
    BY <1>2, <1>3 DEF Inv, TypeOK, serverVars
<1>5. Carried'
    BY <1>0, <1>2 DEF Inv, Carried, serverVars
<1>6. Keyed'
    BY <1>3, <1>0 DEF Keyed, serverVars, Keys
<1>7. Locked'
    BY <1>2 DEF Inv, Locked, serverVars
<1>8. QED
    BY <1>4, <1>5, <1>6, <1>7
    DEF Inv, Linked, OneDraftPerKey, OneOperationPerKey, OneOperationPerDraft, serverVars

\* Every step of the tab.
LEMMA TabInv ==
    ASSUME Inv,
           \/ \E p \in Prompts : Submit(p)
           \/ Approve
           \/ Lose
           \/ \E on \in {"intake", "mandate"} : Visit(on)
           \/ \E r \in Requests : Hear(r)
    PROVE  Inv'
<1>0. /\ Len(drafts) \in Nat /\ DOMAIN drafts = 1..Len(drafts)
      /\ Len(requests) \in Nat /\ MaxRequests \in Nat
      /\ page \in PageType /\ stored \in 0..Len(drafts)
    BY Constants, LenProperties DEF Inv, TypeOK
<1>1. ASSUME NEW p \in Prompts, Submit(p) PROVE Inv'
    <2> DEFINE retry == page.at # "done" /\ page.last = p
               key == IF retry THEN page.key ELSE FreshKey
    <2>1. Sent("draft", key, p, 0) /\ UNCHANGED <<serverVars, stored, visits>>
        BY <1>1 DEF Submit
    <2>2. key \in Keys
        BY <1>0, <2>1, Constants DEF Sent, FreshKey, Keys, Inv, Keyed, PageType
    <2>. HIDE DEF key
    <2>3. QED
        BY <1>0, <2>1, <2>2, SentInv DEF Kinds
<1>2. CASE Approve
    <2> DEFINE key == IF page.draft = stored THEN page.key ELSE FreshKey
    <2>1. Sent("approval", key, NoPrompt, stored)
          /\ UNCHANGED <<serverVars, stored, visits>> /\ stored # 0
        BY <1>2 DEF Approve
    <2>2. key \in Keys
        BY <1>0, <2>1, Constants DEF Sent, FreshKey, Keys, Inv, Keyed, PageType
    <2>. HIDE DEF key
    <2>3. QED
        BY <1>0, <2>1, <2>2, SentInv DEF Kinds
<1>3. ASSUME UNCHANGED <<requests, serverVars>>,
             page' \in PageType, Keyed', stored' \in 0..Len(drafts),
             visits' \in 0..MaxVisits
      PROVE  Inv'
    <2>1. TypeOK'
        BY <1>3 DEF Inv, TypeOK, serverVars
    <2>2. QED
        BY <1>3, <2>1
        DEF Inv, Linked, Carried, OneDraftPerKey, Locked, OneOperationPerKey,
            OneOperationPerDraft, Requests, serverVars
<1>4. CASE Lose
    BY <1>0, <1>3, <1>4 DEF Lose, PageType, Keyed, Inv, TypeOK, serverVars
<1>5. ASSUME NEW on \in {"intake", "mandate"}, Visit(on) PROVE Inv'
    <2>1. page' \in PageType /\ page'.last = NoPrompt /\ page'.draft = 0
        BY <1>0, <1>5 DEF Visit, NewPage, PageType
    <2>2. visits' \in 0..MaxVisits
        BY <1>5, Constants DEF Visit, Inv, TypeOK
    <2>3. QED
        BY <1>0, <1>3, <1>5, <2>1, <2>2 DEF Visit, Keyed, serverVars
<1>6. ASSUME NEW r \in Requests, Hear(r) PROVE Inv'
    <2>1. /\ page' \in PageType /\ page'.last = page.last
          /\ page'.draft = page.draft /\ page'.key = page.key
        <3>1. PICK at \in {"done", "error"} : page' = [page EXCEPT !.at = at]
            BY <1>6 DEF Hear
        <3>2. at \in {"idle", "pending", "error", "done"}
            BY <3>1
        <3>3. QED
            BY <1>0, <3>1, <3>2 DEF PageType
    <2>2. stored' \in 0..Len(drafts)
        <3>1. requests[r].kind \in Kinds
            <4>1. requests[r] \in RequestType
                BY ElementOfSeq DEF Inv, TypeOK, Requests
            <4>2. QED
                BY <4>1 DEF RequestType
        <3>2. ASSUME requests[r].answer = "ok", requests[r].kind = "draft"
              PROVE  DraftOf(r) \in DOMAIN drafts
            <4>1. PICK rec \in records : rec.kind = "draft" /\ rec.key = requests[r].key
                BY <3>2 DEF Inv, Carried
            <4>2. rec.result \in DOMAIN drafts
                BY <4>1 DEF Inv, Linked
            <4>3. \E d \in DOMAIN drafts : \E x \in records :
                     x.kind = "draft" /\ x.key = requests[r].key /\ x.result = d
                BY <4>1, <4>2
            <4>4. QED
                BY <4>3 DEF DraftOf
        <3>3. stored' \in {0, stored, DraftOf(r)}
              /\ (requests[r].answer # "ok" \/ requests[r].kind = "approval"
                    => stored' \in {0, stored})
            BY <1>6 DEF Hear
        <3>4. QED
            BY <1>0, <3>1, <3>2, <3>3 DEF Kinds
    <2>3. QED
        BY <1>0, <1>3, <1>6, <2>1, <2>2 DEF Hear, Keyed, Inv, TypeOK, serverVars
<1>7. QED
    BY <1>1, <1>2, <1>4, <1>5, <1>6

-----------------------------------------------------------------------------
\* A step of the server that changes one request and no table.
LEMMA OneRequestInv ==
    ASSUME Inv, UNCHANGED <<serverVars, page, stored, visits>>,
           NEW r \in Requests, NEW q \in RequestType,
           requests' = [requests EXCEPT ![r] = q],
           q.kind = requests[r].kind, q.key = requests[r].key,
           q.prompt = requests[r].prompt, q.draft = requests[r].draft,
           q.kind = "draft" /\ q.step = "extracted" => q.found \in Proposals,
           q.kind = "draft" /\ q.answer = "ok"
             => \E rec \in records : rec.kind = "draft" /\ rec.key = q.key,
           q.step = "looked" =>
             /\ q.kind = "approval"
             /\ \A o \in operations : o.key # q.key
             /\ \A s \in Requests \ {r} :
                  requests[s].step = "looked" => requests[s].key # q.key
    PROVE  Inv'
<1>1. /\ requests' \in Seq(RequestType) /\ Len(requests') = Len(requests)
      /\ Requests' = Requests
      /\ \A s \in Requests : requests'[s] = IF s = r THEN q ELSE requests[s]
    BY GoOnTyped DEF Inv
<1>2. TypeOK'
    BY <1>1 DEF Inv, TypeOK, serverVars
<1>3. Carried'
    BY <1>1 DEF Inv, Carried, serverVars
<1>4. Locked'
    BY <1>1 DEF Inv, Locked, serverVars
<1>5. QED
    BY <1>2, <1>3, <1>4
    DEF Inv, Linked, Keyed, OneDraftPerKey, OneOperationPerKey,
        OneOperationPerDraft, serverVars

\* Every step of the server that writes no row.
LEMMA ServerInv ==
    ASSUME Inv, NEW r \in Requests,
           \/ Fails(r)
           \/ \E p \in Proposals : Extract(r, p)
           \/ LookApproval(r)
    PROVE  Inv'
<1>0. requests[r] \in RequestType /\ requests \in Seq(RequestType)
    BY ElementOfSeq DEF Inv, TypeOK, Requests
<1>1. ASSUME NEW answer \in {"failed", "conflict", "refused"},
             Answered(r, answer), UNCHANGED <<serverVars, page, stored, visits>>
      PROVE  Inv'
    <2> DEFINE q == [requests[r] EXCEPT !.step = "answered", !.answer = answer]
    <2>1. q \in RequestType /\ requests' = [requests EXCEPT ![r] = q]
        BY <1>1, AnsweredTyped DEF Inv
    <2>2. /\ q.kind = requests[r].kind /\ q.key = requests[r].key
          /\ q.prompt = requests[r].prompt /\ q.draft = requests[r].draft
          /\ q.step = "answered" /\ q.answer = answer
        BY <1>0 DEF RequestType
    <2>. HIDE DEF q
    <2>3. QED
        BY <1>1, <2>1, <2>2, OneRequestInv
<1>2. CASE Fails(r)
    BY <1>1, <1>2 DEF Fails
<1>3. ASSUME NEW p \in Proposals, Extract(r, p) PROVE Inv'
    <2> DEFINE q == [requests[r] EXCEPT !.step = "extracted", !.found = p]
    <2>1. q \in RequestType
        BY <1>0 DEF RequestType
    <2>2. requests' = [requests EXCEPT ![r] = q]
        BY <1>0, <1>3 DEF Extract
    <2>3. /\ q.kind = requests[r].kind /\ q.key = requests[r].key
          /\ q.prompt = requests[r].prompt /\ q.draft = requests[r].draft
          /\ q.step = "extracted" /\ q.found = p /\ q.answer = requests[r].answer
        BY <1>0 DEF RequestType
    <2>4. q.kind = "draft" /\ q.answer = "ok"
            => \E rec \in records : rec.kind = "draft" /\ rec.key = q.key
        BY <2>3 DEF Inv, Carried
    <2>. HIDE DEF q
    <2>5. QED
        BY <1>3, <2>1, <2>2, <2>3, <2>4, OneRequestInv DEF Extract
<1>4. CASE LookApproval(r)
    <2>1. CASE Answered(r, "refused")
        BY <1>1, <1>4, <2>1 DEF LookApproval
    <2>2. CASE Answered(r, "ok") /\ requests[r].kind = "approval"
        <3> DEFINE q == [requests[r] EXCEPT !.step = "answered", !.answer = "ok"]
        <3>1. q \in RequestType /\ requests' = [requests EXCEPT ![r] = q]
            BY <2>2, AnsweredTyped DEF Inv
        <3>2. /\ q.kind = requests[r].kind /\ q.key = requests[r].key
              /\ q.prompt = requests[r].prompt /\ q.draft = requests[r].draft
              /\ q.step = "answered"
            BY <1>0 DEF RequestType
        <3>. HIDE DEF q
        <3>3. QED
            BY <1>4, <2>2, <3>1, <3>2, OneRequestInv DEF LookApproval
    <2>3. CASE /\ Found(requests[r]) = {}
               /\ requests' = [requests EXCEPT ![r].step = "looked"]
        <3> DEFINE q == [requests[r] EXCEPT !.step = "looked"]
        <3>1. q \in RequestType /\ requests' = [requests EXCEPT ![r] = q]
            BY <1>0, <2>3 DEF RequestType
        <3>2. /\ q.kind = requests[r].kind /\ q.key = requests[r].key
              /\ q.prompt = requests[r].prompt /\ q.draft = requests[r].draft
              /\ q.step = "looked" /\ q.kind = "approval"
            BY <1>0, <1>4 DEF RequestType, LookApproval
        <3>3. \A o \in operations : o.key # q.key
            BY <2>3, <3>2 DEF Found, Inv, Locked
        <3>4. \A s \in Requests \ {r} :
                requests[s].step = "looked" => requests[s].key # q.key
            BY <1>4, <3>2 DEF LookApproval
        <3>. HIDE DEF q
        <3>5. QED
            BY <1>4, <3>1, <3>2, <3>3, <3>4, OneRequestInv DEF LookApproval
    <2>4. QED
        BY <1>4, <2>1, <2>2, <2>3 DEF LookApproval
<1>5. QED
    BY <1>2, <1>3, <1>4

\* The transaction that makes a draft, or finds it.
LEMMA CreateDraftInv ==
    ASSUME Inv, NEW r \in Requests, CreateDraft(r)
    PROVE  Inv'
<1> DEFINE q == requests[r]
           a == [requests[r] EXCEPT !.step = "answered", !.answer = "ok"]
           n == Len(drafts)
<1>0. /\ q \in RequestType /\ requests \in Seq(RequestType)
      /\ drafts \in Seq(DraftType) /\ n \in Nat /\ DOMAIN drafts = 1..n
      /\ q.kind = "draft" /\ q.step = "extracted"
      /\ q.prompt \in Prompts /\ q.found \in Proposals /\ q.key \in Keys
    <2>1. q \in RequestType /\ requests \in Seq(RequestType)
        BY ElementOfSeq DEF Inv, TypeOK, Requests
    <2>2. drafts \in Seq(DraftType) /\ n \in Nat /\ DOMAIN drafts = 1..n
        BY LenProperties DEF Inv, TypeOK
    <2>3. q.kind = "draft" /\ q.step = "extracted"
        BY DEF CreateDraft
    <2>4. q.prompt \in Prompts /\ q.found \in Proposals
        BY <2>3 DEF Inv, Carried
    <2>5. q.key \in Keys
        BY <2>1 DEF RequestType
    <2>6. QED
        BY <2>1, <2>2, <2>3, <2>4, <2>5
<1>1. /\ a \in RequestType
      /\ a.kind = q.kind /\ a.key = q.key /\ a.prompt = q.prompt
      /\ a.draft = q.draft /\ a.step = "answered" /\ a.answer = "ok"
    BY <1>0 DEF RequestType
<1>2. CASE Found(q) # {}
    <2>1. PICK answer \in {"ok", "conflict"} : Answered(r, answer)
        BY <1>2 DEF CreateDraft
    <2>2. UNCHANGED <<serverVars, page, stored, visits>>
        BY <1>2 DEF CreateDraft, serverVars
    <2> DEFINE b == [requests[r] EXCEPT !.step = "answered", !.answer = answer]
    <2>3. b \in RequestType /\ requests' = [requests EXCEPT ![r] = b]
        BY <2>1, AnsweredTyped DEF Inv
    <2>4. /\ b.kind = q.kind /\ b.key = q.key /\ b.prompt = q.prompt
          /\ b.draft = q.draft /\ b.step = "answered"
        BY <1>0 DEF RequestType
    <2>5. \E rec \in records : rec.kind = "draft" /\ rec.key = q.key
        BY <1>0, <1>2 DEF Found
    <2>. HIDE DEF b
    <2>6. QED
        BY <2>2, <2>3, <2>4, <2>5, OneRequestInv
<1>3. CASE Found(q) = {}
    <2> DEFINE d == [key |-> q.key, prompt |-> q.prompt, proposal |-> q.found]
               rec == [kind |-> q.kind, key |-> q.key, prompt |-> q.prompt,
                       found |-> q.found, result |-> n + 1]
    <2>1. /\ drafts' = Append(drafts, d) /\ records' = records \cup {rec}
          /\ Answered(r, "ok") /\ UNCHANGED <<operations, page, stored, visits>>
        BY <1>3 DEF CreateDraft, Recorded
    <2>2. d \in DraftType
        BY <1>0 DEF DraftType
    <2>3. /\ drafts' \in Seq(DraftType) /\ Len(drafts') = n + 1
          /\ DOMAIN drafts' = 1..n + 1 /\ drafts'[n + 1] = d
          /\ \A i \in 1..n : drafts'[i] = drafts[i]
        <3>. HIDE DEF d
        <3>1. QED
            BY <1>0, <2>1, <2>2, AppendTyped
    <2>4. /\ requests' \in Seq(RequestType) /\ Len(requests') = Len(requests)
          /\ Requests' = Requests
          /\ \A s \in Requests : requests'[s] = IF s = r THEN a ELSE requests[s]
        <3>1. requests' = [requests EXCEPT ![r] = a]
            BY <2>1, AnsweredTyped DEF Inv
        <3>. HIDE DEF a
        <3>2. QED
            BY <1>1, <3>1, GoOnTyped DEF Inv
    <2>5. \A x \in records : x.kind = "draft" => x.key # q.key
        BY <1>0, <1>3 DEF Found
    <2>6. OneDraftPerKey'
        <3>1. \A i \in 1..n : drafts[i].key # q.key
            BY <1>0, <2>5 DEF Inv, Linked
        <3>2. \A i, j \in 1..n : drafts[i].key = drafts[j].key => i = j
            BY <1>0 DEF Inv, OneDraftPerKey
        <3>3. d.key = q.key
            OBVIOUS
        <3>. HIDE DEF d
        <3>4. QED
            BY <1>0, <2>3, <3>1, <3>2, <3>3 DEF OneDraftPerKey
    <2>7. n + 1 <= MaxRequests
        BY <2>3, <2>6, DraftsBounded DEF OneDraftPerKey
    <2>8. rec \in RecordType
        BY <1>0, <2>7, Constants DEF RecordType, Ids, Kinds
    <2>9. TypeOK'
        BY <1>0, <2>1, <2>3, <2>4, <2>8 DEF Inv, TypeOK
    <2>15. /\ d.key = q.key /\ rec.kind = "draft" /\ rec.key = q.key
           /\ rec.result = n + 1
        BY <1>0
    <2>. HIDE DEF a, d, rec
    <2>10. Linked'
        BY <1>0, <2>1, <2>3, <2>15 DEF Inv, Linked
    <2>11. Carried'
        BY <1>0, <1>1, <2>1, <2>3, <2>4, <2>15 DEF Inv, Carried
    <2>12. Keyed'
        BY <1>0, <2>1, <2>3 DEF Inv, Keyed, TypeOK, PageType
    <2>13. Locked'
        BY <1>1, <2>1, <2>4, <2>15 DEF Inv, Locked
    <2>14. QED
        BY <2>1, <2>6, <2>9, <2>10, <2>11, <2>12, <2>13
        DEF Inv, OneOperationPerKey, OneOperationPerDraft
<1>4. QED
    BY <1>2, <1>3

\* The transaction that makes an operation.
LEMMA InsertInv ==
    ASSUME Inv, NEW r \in Requests, InsertOperation(r)
    PROVE  Inv'
<1> DEFINE q == requests[r]
<1>0. /\ q \in RequestType /\ requests \in Seq(RequestType)
      /\ q.kind = "approval" /\ q.step = "looked"
      /\ q.draft \in DOMAIN drafts /\ DOMAIN drafts = 1..Len(drafts)
      /\ Len(drafts) \in Nat /\ Len(drafts) <= MaxRequests /\ MaxRequests \in Nat
    <2>1. q \in RequestType /\ requests \in Seq(RequestType)
        BY ElementOfSeq DEF Inv, TypeOK, Requests
    <2>2. q.kind = "approval" /\ q.step = "looked"
        BY DEF InsertOperation
    <2>3. q.draft \in DOMAIN drafts
        BY <2>2 DEF Inv, Carried
    <2>4. QED
        BY <2>1, <2>2, <2>3, LenProperties, DraftsBounded, Constants
        DEF Inv, TypeOK, OneDraftPerKey
<1>1. PICK answer \in {"ok", "failed", "refused"} : Answered(r, answer)
    BY DEF InsertOperation
<1> DEFINE a == [requests[r] EXCEPT !.step = "answered", !.answer = answer]
<1>2. /\ a \in RequestType /\ requests' = [requests EXCEPT ![r] = a]
      /\ a.kind = q.kind /\ a.key = q.key /\ a.prompt = q.prompt
      /\ a.draft = q.draft /\ a.step = "answered"
    <2>1. a \in RequestType /\ requests' = [requests EXCEPT ![r] = a]
        BY <1>1, AnsweredTyped DEF Inv
    <2>2. /\ a.kind = q.kind /\ a.key = q.key /\ a.prompt = q.prompt
          /\ a.draft = q.draft /\ a.step = "answered"
        BY <1>0 DEF RequestType
    <2>3. QED
        BY <2>1, <2>2
<1>. HIDE DEF a
<1>3. CASE Conflicting(q)
    <2>1. UNCHANGED <<serverVars, page, stored, visits>>
        BY <1>3 DEF InsertOperation, serverVars
    <2>2. QED
        BY <1>0, <1>2, <2>1, OneRequestInv
<1>4. CASE ~Conflicting(q)
    <2> DEFINE o == [draft |-> q.draft, key |-> q.key]
               rec == [kind |-> q.kind, key |-> q.key, prompt |-> q.prompt,
                       found |-> q.found, result |-> q.draft]
    <2>1. /\ operations' = operations \cup {o} /\ records' = records \cup {rec}
          /\ UNCHANGED <<drafts, page, stored, visits>>
        BY <1>4 DEF InsertOperation, Recorded
    <2>2. o \in OperationType /\ rec \in RecordType
        BY <1>0 DEF OperationType, RecordType, RequestType, Ids
    <2>3. /\ requests' \in Seq(RequestType) /\ Len(requests') = Len(requests)
          /\ Requests' = Requests
          /\ \A s \in Requests : requests'[s] = IF s = r THEN a ELSE requests[s]
        BY <1>2, GoOnTyped DEF Inv
    <2>4. TypeOK'
        BY <2>1, <2>2, <2>3 DEF Inv, TypeOK
    <2>11. /\ o.key = q.key /\ o.draft = q.draft
           /\ rec.kind = "approval" /\ rec.key = q.key
        BY <1>0
    <2>. HIDE DEF o, rec
    <2>5. Linked'
        BY <1>0, <2>1, <2>11 DEF Inv, Linked
    <2>6. Carried'
        BY <1>0, <1>2, <2>1, <2>3, <2>11 DEF Inv, Carried
    <2>7. Locked'
        BY <1>0, <1>2, <2>1, <2>3, <2>11 DEF Inv, Locked
    <2>8. OneOperationPerKey'
        BY <1>0, <2>1, <2>11 DEF Inv, Locked, OneOperationPerKey
    <2>9. OneOperationPerDraft'
        BY <1>4, <2>1, <2>11 DEF Inv, OneOperationPerDraft, Conflicting
    <2>10. QED
        BY <2>1, <2>4, <2>5, <2>6, <2>7, <2>8, <2>9 DEF Inv, Keyed, OneDraftPerKey
<1>5. QED
    BY <1>3, <1>4

-----------------------------------------------------------------------------
\* The invariant is inductive.
THEOREM Invariant == Spec => []Inv
<1>1. Init => Inv
    BY InitInv
<1>2. Inv /\ [Next]_vars => Inv'
    <2>1. ASSUME Inv, UNCHANGED vars PROVE Inv'
        <3>1. UNCHANGED <<drafts, operations, records, requests, page>>
            BY <2>1 DEF vars
        <3>2. Requests' = Requests
            BY <3>1 DEF Requests
        <3>3. TypeOK'
            BY <2>1, <3>2 DEF vars, Inv, TypeOK
        <3>4. Linked' /\ Keyed' /\ OneDraftPerKey'
            BY <2>1, <3>1 DEF Inv, Linked, Keyed, OneDraftPerKey
        <3>5. Carried'
            BY <2>1, <3>1, <3>2 DEF Inv, Carried
        <3>6. Locked'
            BY <2>1, <3>1, <3>2 DEF Inv, Locked
        <3>7. OneOperationPerKey' /\ OneOperationPerDraft'
            BY <2>1, <3>1 DEF Inv, OneOperationPerKey, OneOperationPerDraft
        <3>8. QED
            BY <3>3, <3>4, <3>5, <3>6, <3>7 DEF Inv
    <2>2. ASSUME Inv, Next PROVE Inv'
        BY <2>2, TabInv, ServerInv, CreateDraftInv, InsertInv DEF Next
    <2>3. QED
        BY <2>1, <2>2
<1>3. QED
    BY <1>1, <1>2, PTL DEF Spec

\* Types: the tables, the requests and the tab have their types; no key or id runs
\* out of its bound.
THEOREM TypeInvariant == Spec => []TypeOK
    BY Invariant, PTL DEF Inv

\* application.py create_operation_draft: a submission and its retries make one draft.
THEOREM DraftInvariant == Spec => []OneDraftPerKey
    BY Invariant, PTL DEF Inv

\* repositories.py add: a draft becomes one operation.
THEOREM OperationInvariant == Spec => []OneOperationPerDraft
    BY Invariant, PTL DEF Inv

\* services.py approve_with_replay: an approval and its retries make one operation.
THEOREM ApprovalInvariant == Spec => []OneOperationPerKey
    BY Invariant, PTL DEF Inv
-----------------------------------------------------------------------------
(* The draft in the storage of the tab.                                    *)

\* A key is drawn by the request that uses it first, and the record of a submission
\* names the draft of its key.
Drawn ==
    /\ \A r \in Requests : requests[r].key <= Len(requests)
    /\ \A i \in DOMAIN drafts : drafts[i].key <= Len(requests)
    /\ page.key <= Len(requests)
    /\ \A rec \in records : rec.kind = "draft" => drafts[rec.result].key = rec.key

\* A page that is pending waits for the request it has sent.
Awaited ==
    page.at = "pending" =>
        /\ page.request \in Requests
        /\ requests[page.request].key = page.key
        /\ requests[page.request].draft = page.draft
        /\ requests[page.request].kind = IF page.on = "intake" THEN "draft" ELSE "approval"
        /\ page.on = "intake" => page.last # NoPrompt

\* What the intake page still waits for is newer than what is stored: its key was
\* drawn when the stored draft was there already.
Newer ==
    page.on = "intake" /\ page.last # NoPrompt /\ page.at # "done" =>
        \A i \in DOMAIN drafts : drafts[i].key = page.key => stored < i

\* The mandate page asks to approve what is stored, with a key of that draft.
Approving ==
    page.on = "mandate" /\ page.draft # 0 =>
        /\ page.at # "done" => page.draft = stored
        /\ \A r \in Requests :
             requests[r].kind = "approval" /\ requests[r].key = page.key
                => requests[r].draft = page.draft

\* The key of an approval is used for one draft, and who is told that the approval
\* succeeded finds the operation of the draft.
Agreed ==
    /\ \A r, s \in Requests :
         requests[r].kind = "approval" /\ requests[s].kind = "approval"
         /\ requests[r].key = requests[s].key
           => requests[r].draft = requests[s].draft
    /\ \A rec \in records : rec.kind = "approval" =>
         /\ \E o \in operations : o.draft = rec.result
         /\ \E r \in Requests : /\ requests[r].kind = "approval"
                                /\ requests[r].key = rec.key
                                /\ requests[r].draft = rec.result
    /\ \A r \in Requests : requests[r].kind = "approval" /\ requests[r].answer = "ok" =>
         \E o \in operations : o.draft = requests[r].draft

\* The inductive invariant of the storage, beside Inv.
Stored == Drawn /\ Awaited /\ Newer /\ Approving /\ Agreed

\* At first nothing is sent and nothing is stored.
LEMMA InitStored == ASSUME Init PROVE Stored
<1>1. Len(requests) = 0 /\ DOMAIN drafts = {} /\ Requests = {}
    BY DEF Init, Requests
<1>2. QED
    BY <1>1 DEF Init, Stored, Drawn, Awaited, Newer, Approving, Agreed, NewPage

\* The keys of what was sent and of what was made.
LEMMA KeysTyped ==
    ASSUME Inv
    PROVE  /\ \A r \in Requests : requests[r].key \in Keys
           /\ \A i \in DOMAIN drafts : drafts[i].key \in Keys
<1>1. /\ requests \in Seq(RequestType) /\ drafts \in Seq(DraftType)
      /\ DOMAIN drafts = 1..Len(drafts)
    BY LenProperties DEF Inv, TypeOK
<1>2. \A r \in 1..Len(requests) : requests[r] \in RequestType
    BY <1>1, ElementOfSeq
<1>3. \A i \in 1..Len(drafts) : drafts[i] \in DraftType
    BY <1>1, ElementOfSeq
<1>4. QED
    BY <1>1, <1>2, <1>3 DEF Requests, RequestType, DraftType

\* A request of the tab: its key is new, or the one of a retry.
LEMMA SentStored ==
    ASSUME Inv, Stored, UNCHANGED <<serverVars, stored, visits>>,
           NEW kind \in Kinds, NEW key \in Keys,
           NEW prompt \in Prompts \cup {NoPrompt}, NEW draft \in 0..Len(drafts),
           Sent(kind, key, prompt, draft),
           key <= Len(requests) + 1,
           kind = "draft" =>
             /\ page.on = "intake" /\ prompt # NoPrompt
             /\ \A i \in DOMAIN drafts : drafts[i].key = key => stored < i,
           kind = "approval" =>
             /\ page.on = "mandate" /\ draft = stored
             /\ \A r \in Requests :
                  requests[r].kind = "approval" /\ requests[r].key = key
                    => requests[r].draft = draft
    PROVE  Stored'
<1> DEFINE q == [kind |-> kind, key |-> key, prompt |-> prompt, draft |-> draft,
                 step |-> "sent", found |-> NoProposal, answer |-> "none"]
           n == Len(requests)
<1>0. Len(drafts) \in Nat /\ Len(drafts) <= MaxRequests /\ MaxRequests \in Nat
      /\ DOMAIN drafts = 1..Len(drafts)
    BY DraftsBounded, Constants, LenProperties DEF Inv, TypeOK, OneDraftPerKey
<1>1. q \in RequestType
    BY <1>0 DEF RequestType
<1>2. /\ Len(requests') = n + 1 /\ n \in Nat
      /\ Requests' = Requests \cup {n + 1}
      /\ requests'[n + 1] = q
      /\ \A i \in Requests : requests'[i] = requests[i]
    <2>1. requests \in Seq(RequestType) /\ n \in Nat
        BY LenProperties DEF Inv, TypeOK
    <2>2. requests' = Append(requests, q) /\ n < MaxRequests
        BY DEF Sent
    <2>. HIDE DEF q
    <2>3. QED
        BY <1>0, <1>1, <2>1, <2>2, AppendTyped DEF Requests
<1>3. /\ page'.key = key /\ page'.draft = draft /\ page'.last = prompt
      /\ page'.at = "pending" /\ page'.request = n + 1 /\ page'.on = page.on
    <2>1. page' = [page EXCEPT !.last = prompt, !.draft = draft, !.key = key,
                               !.at = "pending", !.request = n + 1]
        BY DEF Sent
    <2>2. page \in PageType
        BY DEF Inv, TypeOK
    <2>. HIDE DEF n
    <2>3. QED
        BY <2>1, <2>2 DEF PageType
<1>4. /\ q.kind = kind /\ q.key = key /\ q.draft = draft /\ q.answer = "none"
    OBVIOUS
<1>5. UNCHANGED <<drafts, operations, records, stored>>
    BY DEF serverVars
<1>. HIDE DEF q
<1>6. Drawn'
    <2>1. /\ \A r \in Requests : requests[r].key \in Keys
          /\ \A i \in DOMAIN drafts : drafts[i].key \in Keys
        BY KeysTyped
    <2>2. key \in Nat /\ n \in Nat /\ n = Len(requests)
        BY <1>2 DEF Keys
    <2>. HIDE DEF n
    <2>3. \A i \in Keys : i <= n => i <= n + 1
        BY <2>2 DEF Keys
    <2>4. QED
        BY <1>2, <1>3, <1>4, <1>5, <2>1, <2>2, <2>3 DEF Stored, Drawn
<1>7. Awaited'
    BY <1>2, <1>3, <1>4 DEF Awaited, Kinds
<1>8. Newer'
    BY <1>3, <1>5 DEF Newer, Kinds
<1>9. Approving'
    BY <1>2, <1>3, <1>4, <1>5 DEF Approving, Kinds
<1>10. Agreed'
    <2>1. /\ \A r \in Requests : requests'[r] = requests[r]
          /\ requests'[n + 1] = q /\ Requests' = Requests \cup {n + 1}
        BY <1>2
    <2>2. kind = "approval" => \A r \in Requests :
             requests[r].kind = "approval" /\ requests[r].key = key
                    => requests[r].draft = draft
        OBVIOUS
    <2>. HIDE DEF n
    <2>3. QED
        BY <1>4, <1>5, <2>1, <2>2 DEF Stored, Agreed
<1>11. QED
    BY <1>6, <1>7, <1>8, <1>9, <1>10 DEF Stored

\* The draft that an answer of a submission names has its key.
LEMMA NamedDraft ==
    ASSUME Inv, Stored, NEW r \in Requests,
           requests[r].kind = "draft", requests[r].answer = "ok"
    PROVE  DraftOf(r) \in DOMAIN drafts /\ drafts[DraftOf(r)].key = requests[r].key
<1> DEFINE P(d) == \E rec \in records :
                     rec.kind = "draft" /\ rec.key = requests[r].key /\ rec.result = d
<1>1. PICK rec \in records : rec.kind = "draft" /\ rec.key = requests[r].key
    BY DEF Inv, Carried
<1>2. rec.result \in DOMAIN drafts /\ P(rec.result)
    BY <1>1 DEF Inv, Linked
<1>3. DraftOf(r) \in DOMAIN drafts /\ P(DraftOf(r))
    BY <1>2 DEF DraftOf
<1>4. QED
    BY <1>3 DEF Stored, Drawn

\* Which change of the storage a step may make.
LEMMA HearChanges ==
    ASSUME Inv, Stored, NEW r \in Requests, Hear(r)
    PROVE  /\ stored' # stored =>
                \/ stored' \in DOMAIN drafts /\ stored' > stored
                \/ stored' = 0 /\ \E o \in operations : o.draft = stored
           /\ page.on = "intake" \/ page.draft # 0
<1>1. /\ page.at = "pending" /\ page.request = r /\ page \in PageType
      /\ r = page.request /\ requests[r].key = page.key
      /\ requests[r].draft = page.draft
      /\ requests[r].kind = IF page.on = "intake" THEN "draft" ELSE "approval"
      /\ page.on = "intake" => page.last # NoPrompt
    BY DEF Hear, Listening, Stored, Awaited, Inv, TypeOK
<1>2. CASE page.on = "intake"
    <2>1. requests[r].kind = "draft"
        BY <1>1, <1>2
    <2>2. CASE stored' # stored
        <3>1. requests[r].answer = "ok" /\ stored' = DraftOf(r)
            BY <2>1, <2>2 DEF Hear
        <3>2. DraftOf(r) \in DOMAIN drafts /\ drafts[DraftOf(r)].key = page.key
            BY <1>1, <2>1, <3>1, NamedDraft
        <3>3. stored < DraftOf(r)
            BY <1>1, <1>2, <3>2 DEF Stored, Newer
        <3>4. stored \in Nat /\ DraftOf(r) \in Nat
            <4>1. DOMAIN drafts = 1..Len(drafts) /\ Len(drafts) \in Nat /\ stored \in 0..Len(drafts)
                BY LenProperties DEF Inv, TypeOK
            <4>2. QED
                BY <3>2, <4>1
        <3>5. QED
            BY <1>2, <3>1, <3>2, <3>3, <3>4
    <2>3. QED
        BY <1>2, <2>2
<1>3. CASE page.on = "mandate"
    <2>1. requests[r].kind = "approval"
        BY <1>1, <1>3
    <2>2. page.draft # 0
        <3>1. requests[r].draft \in DOMAIN drafts
            BY <2>1 DEF Inv, Carried
        <3>2. DOMAIN drafts = 1..Len(drafts) /\ Len(drafts) \in Nat
            BY LenProperties DEF Inv, TypeOK
        <3>3. QED
            BY <1>1, <3>1, <3>2
    <2>3. page.draft = stored
        BY <1>1, <1>3, <2>2 DEF Stored, Approving
    <2>4. CASE stored' # stored
        <3>1. requests[r].answer = "ok" /\ stored' = 0
            BY <2>1, <2>4 DEF Hear
        <3>2. \E o \in operations : o.draft = requests[r].draft
            BY <2>1, <3>1 DEF Stored, Agreed
        <3>3. QED
            BY <1>1, <2>2, <2>3, <3>1, <3>2
    <2>5. QED
        BY <2>2, <2>4
<1>4. QED
    BY <1>1, <1>2, <1>3 DEF PageType

\* Every step of the tab.
LEMMA TabStored ==
    ASSUME Inv, Stored,
           \/ \E p \in Prompts : Submit(p)
           \/ Approve
           \/ Lose
           \/ \E on \in {"intake", "mandate"} : Visit(on)
           \/ \E r \in Requests : Hear(r)
    PROVE  Stored'
<1>0. /\ Len(drafts) \in Nat /\ DOMAIN drafts = 1..Len(drafts)
      /\ requests \in Seq(RequestType)
      /\ Len(requests) \in Nat /\ MaxRequests \in Nat
      /\ page \in PageType /\ stored \in 0..Len(drafts)
    BY Constants, LenProperties DEF Inv, TypeOK
<1>k. /\ page.key \in Nat /\ page.key <= Len(requests)
      /\ \A i \in DOMAIN drafts : drafts[i].key \in Nat /\ drafts[i].key <= Len(requests)
      /\ \A r \in Requests : requests[r].key \in Nat /\ requests[r].key <= Len(requests)
    <2>1. page.key \in Nat
        BY <1>0 DEF PageType
    <2>2. \A i \in DOMAIN drafts : drafts[i].key \in Nat
        BY KeysTyped DEF Keys
    <2>3. \A r \in Requests : requests[r].key \in Nat
        BY KeysTyped DEF Keys
    <2>4. QED
        BY <2>1, <2>2, <2>3 DEF Stored, Drawn
<1>1. ASSUME NEW p \in Prompts, Submit(p) PROVE Stored'
    <2> DEFINE retry == page.at # "done" /\ page.last = p
               key == IF retry THEN page.key ELSE FreshKey
    <2>1. /\ Sent("draft", key, p, 0) /\ UNCHANGED <<serverVars, stored, visits>>
          /\ page.on = "intake"
        BY <1>1 DEF Submit
    <2>2. key \in Keys /\ key <= Len(requests) + 1
        BY <1>0, <1>k, <2>1, Constants DEF Sent, FreshKey, Keys, Inv, Keyed, PageType
    <2>3. p # NoPrompt
        BY Constants
    <2>4. \A i \in DOMAIN drafts : drafts[i].key = key => stored < i
        <3>1. CASE retry
            BY <2>1, <2>3, <3>1 DEF Stored, Newer
        <3>2. CASE ~retry
            <4>1. key = Len(requests) + 1
                BY <3>2 DEF FreshKey
            <4>2. \A i \in DOMAIN drafts : drafts[i].key # key
                BY <1>0, <1>k, <4>1
            <4>3. QED
                BY <4>2
        <3>3. QED
            BY <3>1, <3>2
    <2>. HIDE DEF key, retry
    <2>5. QED
        BY <1>0, <2>1, <2>2, <2>3, <2>4, SentStored DEF Kinds
<1>2. CASE Approve
    <2> DEFINE key == IF page.draft = stored THEN page.key ELSE FreshKey
    <2>1. /\ Sent("approval", key, NoPrompt, stored)
          /\ UNCHANGED <<serverVars, stored, visits>> /\ stored # 0
          /\ page.on = "mandate" /\ page.at # "done"
        BY <1>2 DEF Approve
    <2>2. key \in Keys /\ key <= Len(requests) + 1
        BY <1>0, <1>k, <2>1, Constants DEF Sent, FreshKey, Keys, Inv, Keyed, PageType
    <2>3. \A r \in Requests : requests[r].kind = "approval" /\ requests[r].key = key
                                => requests[r].draft = stored
        <3>1. CASE page.draft = stored
            BY <2>1, <3>1 DEF Stored, Approving
        <3>2. CASE page.draft # stored
            <4>1. key = Len(requests) + 1
                BY <3>2 DEF FreshKey
            <4>2. \A r \in Requests : requests[r].key # key
                BY <1>0, <1>k, <4>1
            <4>3. QED
                BY <4>2
        <3>3. QED
            BY <3>1, <3>2
    <2>. HIDE DEF key
    <2>4. QED
        BY <1>0, <2>1, <2>2, <2>3, SentStored DEF Kinds
<1>3. ASSUME UNCHANGED <<requests, serverVars>>, page'.key <= Len(requests),
             Awaited', Newer', Approving'
      PROVE  Stored'
    <2>1. UNCHANGED <<requests, drafts, operations, records>> /\ Requests' = Requests
        BY <1>3 DEF serverVars, Requests
    <2>2. Drawn'
        BY <1>3, <2>1 DEF Stored, Drawn
    <2>3. Agreed'
        BY <2>1 DEF Stored, Agreed
    <2>4. QED
        BY <1>3, <2>2, <2>3 DEF Stored
<1>4. CASE Lose
    <2>1. /\ page'.key = page.key /\ page'.on = page.on /\ page'.draft = page.draft
          /\ page'.last = page.last /\ page'.at = "error" /\ page.at = "pending"
          /\ UNCHANGED <<requests, serverVars, stored>>
        BY <1>0, <1>4 DEF Lose, PageType
    <2>2. Awaited'
        BY <2>1 DEF Awaited
    <2>3. Newer'
        BY <2>1 DEF Stored, Newer, serverVars
    <2>4. Approving'
        BY <2>1 DEF Stored, Approving, Requests
    <2>5. QED
        BY <1>3, <1>k, <2>1, <2>2, <2>3, <2>4
<1>5. ASSUME NEW on \in {"intake", "mandate"}, Visit(on) PROVE Stored'
    <2>1. /\ page'.key = 0 /\ page'.last = NoPrompt /\ page'.draft = 0
          /\ page'.at = "idle" /\ UNCHANGED <<requests, serverVars>>
        BY <1>5 DEF Visit, NewPage
    <2>2. Awaited' /\ Newer' /\ Approving'
        BY <2>1 DEF Awaited, Newer, Approving
    <2>3. QED
        BY <1>0, <1>3, <2>1, <2>2
<1>6. ASSUME NEW r \in Requests, Hear(r) PROVE Stored'
    <2>1. PICK at \in {"done", "error"} :
             /\ page' = [page EXCEPT !.at = at]
             /\ at = "error" => requests[r].answer # "ok"
        BY <1>6 DEF Hear
    <2>2. /\ page'.key = page.key /\ page'.on = page.on /\ page'.draft = page.draft
          /\ page'.last = page.last /\ page'.at = at
        <3>1. at \in {"idle", "pending", "error", "done"}
            BY <2>1
        <3>2. QED
            BY <1>0, <2>1, <3>1 DEF PageType
    <2>3. /\ UNCHANGED <<requests, serverVars>> /\ page.at = "pending"
          /\ at = "error" => stored' = stored
        BY <1>6, <2>1 DEF Hear, Listening
    <2>4. Awaited'
        BY <2>1, <2>2 DEF Awaited
    <2>5. Newer'
        BY <2>1, <2>2, <2>3 DEF Stored, Newer, serverVars
    <2>6. Approving'
        BY <2>1, <2>2, <2>3 DEF Stored, Approving, Requests
    <2>7. QED
        BY <1>3, <1>k, <2>2, <2>3, <2>4, <2>5, <2>6
<1>7. QED
    BY <1>1, <1>2, <1>4, <1>5, <1>6

\* A request that goes on in the server keeps what the tab sent.
LEMMA GoOnStored ==
    ASSUME Inv, Stored, UNCHANGED <<page, stored>>,
           NEW r \in Requests, NEW q \in RequestType,
           requests' = [requests EXCEPT ![r] = q],
           q.kind = requests[r].kind, q.key = requests[r].key, q.draft = requests[r].draft
    PROVE  /\ Len(requests') = Len(requests) /\ Requests' = Requests
           /\ \A s \in Requests : requests'[s] = IF s = r THEN q ELSE requests[s]
           /\ \A s \in Requests : /\ requests'[s].kind = requests[s].kind
                                  /\ requests'[s].key = requests[s].key
                                  /\ requests'[s].draft = requests[s].draft
           /\ Awaited' /\ Approving'
<1>1. /\ Len(requests') = Len(requests) /\ Requests' = Requests
      /\ \A s \in Requests : requests'[s] = IF s = r THEN q ELSE requests[s]
    BY GoOnTyped DEF Inv
<1>2. \A s \in Requests : /\ requests'[s].kind = requests[s].kind
                          /\ requests'[s].key = requests[s].key
                          /\ requests'[s].draft = requests[s].draft
    BY <1>1
<1>3. Awaited' /\ Approving'
    BY <1>1, <1>2 DEF Stored, Awaited, Approving
<1>4. QED
    BY <1>1, <1>2, <1>3

\* A step of the server that writes no row.
LEMMA QuietStored ==
    ASSUME Inv, Stored, UNCHANGED <<serverVars, page, stored>>,
           NEW r \in Requests, NEW q \in RequestType,
           requests' = [requests EXCEPT ![r] = q],
           q.kind = requests[r].kind, q.key = requests[r].key, q.draft = requests[r].draft,
           q.kind = "approval" /\ q.answer = "ok" /\ requests[r].answer # "ok"
             => \E o \in operations : o.draft = q.draft
    PROVE  Stored'
<1>1. /\ Len(requests') = Len(requests) /\ Requests' = Requests
      /\ \A s \in Requests : requests'[s] = IF s = r THEN q ELSE requests[s]
      /\ \A s \in Requests : /\ requests'[s].kind = requests[s].kind
                             /\ requests'[s].key = requests[s].key
                             /\ requests'[s].draft = requests[s].draft
      /\ Awaited' /\ Approving'
    BY GoOnStored
<1>2. UNCHANGED <<drafts, operations, records, page, stored>>
    BY DEF serverVars
<1>3. Drawn' /\ Newer'
    BY <1>1, <1>2 DEF Stored, Drawn, Newer
<1>4. Agreed'
    BY <1>1, <1>2 DEF Stored, Agreed
<1>5. QED
    BY <1>1, <1>3, <1>4 DEF Stored

\* Every step of the server.
LEMMA ServerStored ==
    ASSUME Inv, Stored, NEW r \in Requests,
           \/ Fails(r)
           \/ \E p \in Proposals : Extract(r, p)
           \/ LookApproval(r)
           \/ CreateDraft(r)
           \/ InsertOperation(r)
    PROVE  Stored'
<1>0. requests[r] \in RequestType /\ requests \in Seq(RequestType)
    BY ElementOfSeq DEF Inv, TypeOK, Requests
<1>a. ASSUME NEW answer \in {"none", "ok", "failed", "conflict", "refused"},
             Answered(r, answer)
      PROVE  \E q \in RequestType :
               /\ requests' = [requests EXCEPT ![r] = q] /\ q.kind = requests[r].kind
               /\ q.key = requests[r].key /\ q.draft = requests[r].draft
               /\ q.answer = answer
    <2> DEFINE q == [requests[r] EXCEPT !.step = "answered", !.answer = answer]
    <2>1. q \in RequestType /\ requests' = [requests EXCEPT ![r] = q]
        BY <1>a, AnsweredTyped DEF Inv
    <2>2. /\ q.kind = requests[r].kind /\ q.key = requests[r].key
          /\ q.draft = requests[r].draft /\ q.answer = answer
        BY <1>0 DEF RequestType
    <2>. HIDE DEF q
    <2>3. QED
        BY <2>1, <2>2
<1>1. ASSUME NEW answer \in {"ok", "failed", "conflict", "refused"},
             Answered(r, answer), UNCHANGED <<serverVars, page, stored>>,
             answer = "ok" /\ requests[r].kind = "approval"
               => \E o \in operations : o.draft = requests[r].draft
      PROVE  Stored'
    BY <1>1, <1>a, QuietStored
<1>2. CASE Fails(r)
    BY <1>1, <1>2 DEF Fails
<1>3. ASSUME NEW p \in Proposals, Extract(r, p) PROVE Stored'
    <2> DEFINE q == [requests[r] EXCEPT !.step = "extracted", !.found = p]
    <2>1. q \in RequestType /\ requests' = [requests EXCEPT ![r] = q]
        BY <1>0, <1>3 DEF RequestType, Extract
    <2>2. /\ q.kind = requests[r].kind /\ q.key = requests[r].key
          /\ q.draft = requests[r].draft /\ q.answer = requests[r].answer
        BY <1>0 DEF RequestType
    <2>3. UNCHANGED <<serverVars, page, stored>>
        BY <1>3 DEF Extract
    <2>. HIDE DEF q
    <2>4. QED
        BY <2>1, <2>2, <2>3, QuietStored
<1>4. CASE LookApproval(r)
    <2>1. UNCHANGED <<serverVars, page, stored>> /\ requests[r].kind = "approval"
        BY <1>4 DEF LookApproval
    <2>2. CASE Found(requests[r]) # {} /\ Answered(r, "ok")
        <3>1. PICK rec \in records : rec.kind = "approval" /\ rec.key = requests[r].key
            BY <2>1, <2>2 DEF Found
        <3>2. PICK s \in Requests : /\ requests[s].kind = "approval"
                                    /\ requests[s].key = rec.key
                                    /\ requests[s].draft = rec.result
            BY <3>1 DEF Stored, Agreed
        <3>3. requests[r].draft = rec.result
            BY <2>1, <3>1, <3>2 DEF Stored, Agreed
        <3>4. \E o \in operations : o.draft = requests[r].draft
            BY <3>1, <3>3 DEF Stored, Agreed
        <3>5. QED
            BY <1>1, <2>1, <2>2, <3>4
    <2>3. CASE Answered(r, "refused")
        BY <1>1, <2>1, <2>3
    <2>4. CASE requests' = [requests EXCEPT ![r].step = "looked"]
        <3> DEFINE q == [requests[r] EXCEPT !.step = "looked"]
        <3>1. q \in RequestType /\ requests' = [requests EXCEPT ![r] = q]
            BY <1>0, <2>4 DEF RequestType
        <3>2. /\ q.kind = requests[r].kind /\ q.key = requests[r].key
              /\ q.draft = requests[r].draft /\ q.answer = requests[r].answer
            BY <1>0 DEF RequestType
        <3>. HIDE DEF q
        <3>3. QED
            BY <2>1, <3>1, <3>2, QuietStored
    <2>5. QED
        BY <1>4, <2>2, <2>3, <2>4 DEF LookApproval
<1>5. CASE CreateDraft(r)
    <2>0. requests[r].kind = "draft" /\ UNCHANGED <<operations, page, stored>>
        BY <1>5 DEF CreateDraft
    <2>1. CASE Found(requests[r]) # {}
        <3>1. PICK answer \in {"ok", "conflict"} : Answered(r, answer)
            BY <1>5, <2>1 DEF CreateDraft
        <3>2. UNCHANGED <<serverVars, page, stored>>
            BY <1>5, <2>1 DEF CreateDraft, serverVars
        <3>3. QED
            BY <1>1, <2>0, <3>1, <3>2
    <2>2. CASE Found(requests[r]) = {}
        <3> DEFINE d == [key |-> requests[r].key, prompt |-> requests[r].prompt,
                         proposal |-> requests[r].found]
                   n == Len(drafts)
                   x == [kind |-> requests[r].kind, key |-> requests[r].key,
                         prompt |-> requests[r].prompt, found |-> requests[r].found,
                         result |-> n + 1]
        <3>1. /\ drafts' = Append(drafts, d) /\ records' = records \cup {x}
              /\ Answered(r, "ok")
            BY <1>5, <2>2 DEF CreateDraft, Recorded
        <3>2. d \in DraftType
            <4>1. requests[r].prompt \in Prompts /\ requests[r].found \in Proposals
                BY <1>5, <2>0 DEF CreateDraft, Inv, Carried
            <4>2. requests[r].key \in Keys
                BY <1>0 DEF RequestType
            <4>3. QED
                BY <4>1, <4>2 DEF DraftType
        <3>3. /\ n \in Nat /\ DOMAIN drafts = 1..n /\ DOMAIN drafts' = 1..n + 1
              /\ drafts'[n + 1] = d /\ \A i \in 1..n : drafts'[i] = drafts[i]
            <4>1. drafts \in Seq(DraftType) /\ n \in Nat /\ DOMAIN drafts = 1..n
                BY LenProperties DEF Inv, TypeOK
            <4>. HIDE DEF d
            <4>2. QED
                BY <3>1, <3>2, <4>1, AppendTyped
        <3>4. /\ d.key = requests[r].key /\ x.kind = "draft" /\ x.key = requests[r].key
              /\ x.result = n + 1
            BY <2>0
        <3>5. PICK q \in RequestType :
                 /\ requests' = [requests EXCEPT ![r] = q] /\ q.kind = requests[r].kind
                 /\ q.key = requests[r].key /\ q.draft = requests[r].draft
            BY <1>a, <3>1
        <3>6. /\ Len(requests') = Len(requests) /\ Requests' = Requests
              /\ \A s \in Requests : requests'[s] = IF s = r THEN q ELSE requests[s]
              /\ \A s \in Requests : /\ requests'[s].kind = requests[s].kind
                                     /\ requests'[s].key = requests[s].key
                                     /\ requests'[s].draft = requests[s].draft
              /\ Awaited' /\ Approving'
            BY <2>0, <3>5, GoOnStored
        <3>7. \A rec \in records : rec.kind = "draft" => rec.result \in 1..n
            BY <3>3 DEF Inv, Linked
        <3>. HIDE DEF d, x
        <3>8. Drawn'
            BY <2>0, <3>1, <3>3, <3>4, <3>6, <3>7 DEF Stored, Drawn
        <3>9. Newer'
            <4>1. stored \in 0..n
                BY <3>3 DEF Inv, TypeOK
            <4>2. stored < n + 1
                BY <3>3, <4>1
            <4>3. QED
                BY <2>0, <3>3, <4>2 DEF Stored, Newer
        <3>10. Agreed'
            <4>1. \A s \in Requests : requests'[s].kind = "approval"
                                        => requests'[s] = requests[s]
                BY <2>0, <3>5, <3>6
            <4>2. QED
                BY <2>0, <3>1, <3>4, <3>6, <4>1 DEF Stored, Agreed
        <3>11. QED
            BY <3>6, <3>8, <3>9, <3>10 DEF Stored
    <2>3. QED
        BY <2>1, <2>2
<1>6. CASE InsertOperation(r)
    <2>0. requests[r].kind = "approval" /\ UNCHANGED <<drafts, page, stored>>
        BY <1>6 DEF InsertOperation
    <2>1. CASE Conflicting(requests[r])
        <3>1. Answered(r, "refused") /\ UNCHANGED <<serverVars, page, stored>>
            BY <1>6, <2>1 DEF InsertOperation, serverVars
        <3>2. QED
            BY <1>1, <3>1
    <2>2. CASE ~Conflicting(requests[r])
        <3> DEFINE o == [draft |-> requests[r].draft, key |-> requests[r].key]
                   x == [kind |-> requests[r].kind, key |-> requests[r].key,
                         prompt |-> requests[r].prompt, found |-> requests[r].found,
                         result |-> requests[r].draft]
        <3>1. operations' = operations \cup {o} /\ records' = records \cup {x}
            BY <1>6, <2>2 DEF InsertOperation, Recorded
        <3>2. PICK answer \in {"ok", "failed"} : Answered(r, answer)
            BY <1>6, <2>2 DEF InsertOperation
        <3>3. /\ o.draft = requests[r].draft /\ x.kind = "approval"
              /\ x.key = requests[r].key /\ x.result = requests[r].draft
            BY <2>0
        <3>4. PICK q \in RequestType :
                 /\ requests' = [requests EXCEPT ![r] = q] /\ q.kind = requests[r].kind
                 /\ q.key = requests[r].key /\ q.draft = requests[r].draft
            BY <1>a, <3>2
        <3>5. /\ Len(requests') = Len(requests) /\ Requests' = Requests
              /\ \A s \in Requests : requests'[s] = IF s = r THEN q ELSE requests[s]
              /\ \A s \in Requests : /\ requests'[s].kind = requests[s].kind
                                     /\ requests'[s].key = requests[s].key
                                     /\ requests'[s].draft = requests[s].draft
              /\ Awaited' /\ Approving'
            BY <2>0, <3>4, GoOnStored
        <3>. HIDE DEF o, x
        <3>6. Drawn' /\ Newer'
            BY <2>0, <3>1, <3>3, <3>5 DEF Stored, Drawn, Newer
        <3>7. Agreed'
            BY <2>0, <3>1, <3>3, <3>4, <3>5 DEF Stored, Agreed
        <3>8. QED
            BY <3>5, <3>6, <3>7 DEF Stored
    <2>3. QED
        BY <2>1, <2>2
<1>7. QED
    BY <1>2, <1>3, <1>4, <1>5, <1>6

\* No step but Hear touches the storage.
LEMMA StorageSteps ==
    ASSUME Inv, Stored, [Next]_vars
    PROVE  stored # 0 /\ stored' # stored =>
             \/ stored' > stored
             \/ stored' = 0 /\ \E o \in operations : o.draft = stored
<1>1. CASE UNCHANGED stored
    BY <1>1
<1>2. ASSUME NEW r \in Requests, Hear(r)
      PROVE  stored # 0 /\ stored' # stored =>
               \/ stored' > stored
               \/ stored' = 0 /\ \E o \in operations : o.draft = stored
    BY <1>2, HearChanges
<1>3. ASSUME NEW r \in Requests,
             \/ \E p \in Proposals : Extract(r, p)
             \/ Fails(r) \/ CreateDraft(r) \/ LookApproval(r) \/ InsertOperation(r)
      PROVE  UNCHANGED stored
    BY <1>3 DEF Extract, Fails, CreateDraft, LookApproval, InsertOperation
<1>4. ASSUME \/ \E p \in Prompts : Submit(p)
             \/ Approve
             \/ Lose
             \/ \E on \in {"intake", "mandate"} : Visit(on)
      PROVE  UNCHANGED stored
    BY <1>4 DEF Submit, Approve, Lose, Visit
<1>5. QED
    BY <1>1, <1>2, <1>3, <1>4 DEF Next, vars

\* The storage of the tab agrees with its requests and the rows of the server.
THEOREM StoredInvariant == Spec => []Stored
<1>1. Init => Stored
    BY InitStored
<1>2. Inv /\ Stored /\ [Next]_vars => Stored'
    <2>1. ASSUME Inv, Stored, UNCHANGED vars PROVE Stored'
        <3>1. UNCHANGED <<drafts, operations, records, requests, page, stored>>
              /\ Requests' = Requests
            BY <2>1 DEF vars, Requests
        <3>2. Drawn' /\ Awaited' /\ Newer'
            BY <2>1, <3>1 DEF Stored, Drawn, Awaited, Newer
        <3>3. Approving' /\ Agreed'
            BY <2>1, <3>1 DEF Stored, Approving, Agreed
        <3>4. QED
            BY <3>2, <3>3 DEF Stored
    <2>2. ASSUME Inv, Stored, Next PROVE Stored'
        BY <2>2, TabStored, ServerStored DEF Next
    <2>3. QED
        BY <2>1, <2>2
<1>3. QED
    BY <1>1, <1>2, Invariant, PTL DEF Spec

\* mandate-approval.tsx, intake-form.tsx onSuccess: a reviewed draft leaves the
\* storage only when it is approved, or for a newer one.
THEOREM DraftsAreKept == Spec => ClearedDraftsAreApproved
<1>1. Inv /\ Stored /\ [Next]_vars =>
        [stored # 0 /\ stored' # stored =>
           \/ stored' > stored
           \/ stored' = 0 /\ \E o \in operations : o.draft = stored]_vars
    BY StorageSteps
<1>2. QED
    BY <1>1, Invariant, StoredInvariant, PTL DEF Spec, ClearedDraftsAreApproved
=============================================================================
