------------------------- MODULE OperationLifecycle -------------------------
(***************************************************************************)
(* One drayage operation from its approval to its agreements, as the       *)
(* services of volta/negotiations and volta/recovery change it.            *)
(*                                                                         *)
(* Every mutation of those services runs in one database transaction that  *)
(* holds the row lock of the operation from before its checks to its       *)
(* commit, and that writes nothing when a check fails.  A mutation is      *)
(* therefore one step here; MutationTransactions models the steps inside   *)
(* it, the stale versions and the replays.                                 *)
(*                                                                         *)
(* Rows are numbered in the order of their creation, so a quote, a         *)
(* commitment, an escalation and a notification are indexes of sequences,  *)
(* and 0 stands for a missing reference.                                   *)
(***************************************************************************)
EXTENDS MandatePolicy, Sequences, FiniteSets

CONSTANTS
  Calls,          \* one call per carrier of the catalog that may be selected
  Priority,       \* the fixed priority of the carrier behind each call
  Terms,          \* the terms a carrier may quote or propose
  MandateTerms,   \* the mandates a coordinator may approve
  PickupDate,     \* the pickup date of the operation
  Coordinators,   \* who may acknowledge a notification
  NoOne,          \* acknowledged_by of a notification nobody acknowledged
  DocumentKinds,  \* of {"brief", "recap"}: the documents that are generated
  RowLimit,       \* _MAX_PROJECTION_ROWS and the two other limits of 100 rows
  RecoveryValidity, \* _QUOTE_VALIDITY
  MaxVersion,     \* bound of the model on the version of the operation
  MaxNow          \* bound of the model on the clock

ASSUME ConstantsAssumption ==
  /\ Priority \in [Calls -> Nat \ {0}]
  /\ Terms \subseteq TermsType
  /\ MandateTerms \subseteq MandateType
  /\ PickupDate \in Nat
  /\ NoOne \notin Coordinators
  /\ DocumentKinds \subseteq {"brief", "recap"}
  /\ RowLimit \in Nat
  /\ RecoveryValidity \in Nat \ {0}
  /\ MaxVersion \in Nat
  /\ MaxNow \in Nat

VARIABLES
  version,        \* operations.version, the number of status_history entries
  status,         \* the status of the latest entry
  mandates,       \* the mandates by version; the last one is the active one
  sessions,       \* the calls of the carriers the negotiation selected
  preContact,     \* the negotiation holds a pre-contact escalation
  quotes,
  reservations,   \* evidence reservations; consumedBy = 0 while open
  commitments,
  escalations,    \* post-contact escalations
  notifications,
  documents,      \* <<kind, commitment>> of the generated briefs and recaps
  audits,         \* the number of audit events of the operation
  now

vars == <<version, status, mandates, sessions, preContact, quotes,
          reservations, commitments, escalations, notifications, documents,
          audits, now>>

Statuses == {"READY", "NEGOTIATING", "COMMITTED", "ESCALATED"}

QuoteType == [call : Calls, terms : Terms, mandate : Nat \ {0},
              eligible : BOOLEAN, until : Nat]
ReservationType == [quote : Nat \ {0}, consumedBy : Nat]
CommitmentType == [call : Calls, quote : Nat \ {0}, terms : Terms,
                   mandate : Nat \ {0}, active : BOOLEAN,
                   replaces : Nat, replacedBy : Nat]
EscalationType == [commitment : Nat, mandate : Nat \ {0}, resolved : BOOLEAN]
NotificationType == [commitment : Nat \ {0}, by : Coordinators \cup {NoOne}]

-----------------------------------------------------------------------------
(* What the services compute.                                              *)

ActiveMandate == mandates[Len(mandates)]

\* A mutant of the next definition: the end of the pickup window goes unchecked.
InsideMandateAtStart(t) == Within(ActiveMandate, [t EXCEPT !.end = t.start])

\* The reasons a quote is rejected or a recovery escalates for are none.
InsideMandate(t) == Within(ActiveMandate, t)

\* Repository.get refuses an aggregate of more than RowLimit history entries.
Readable == version <= RowLimit

\* commitments.get_active, 0 for None.
Winner ==
  IF \E i \in DOMAIN commitments : commitments[i].active
  THEN CHOOSE i \in DOMAIN commitments : commitments[i].active
  ELSE 0

\* post_contact_escalations.get_unresolved_by_operation.
Unresolved == {e \in DOMAIN escalations : ~escalations[e].resolved}

\* The quotes QuoteComparisonService.compare ranks.
Candidates ==
  {q \in DOMAIN quotes : /\ quotes[q].mandate = Len(mandates)
                         /\ quotes[q].eligible
                         /\ quotes[q].until > now}

\* A mutant of the next definition: the newest quote comes first.
NewestPrecedes(p, q) == p > q

\* The order of the ranking: amount, pickup start, carrier priority, creation.
Precedes(p, q) ==
  LET P == quotes[p]
      Q == quotes[q]
  IN \/ P.terms.amount < Q.terms.amount
     \/ /\ P.terms.amount = Q.terms.amount
        /\ \/ P.terms.start < Q.terms.start
           \/ /\ P.terms.start = Q.terms.start
              /\ \/ Priority[P.call] < Priority[Q.call]
                 \/ /\ Priority[P.call] = Priority[Q.call]
                    /\ p < q

\* QuoteComparison.selected_quote_id.
Selected(q) ==
  /\ q \in Candidates
  /\ \A p \in Candidates \ {q} : Precedes(q, p)

\* The rows get_operation projects inside a transaction that adds n audits.
Projectable(n) ==
  /\ version + 1 <= RowLimit
  /\ Len(quotes) <= RowLimit
  /\ Len(commitments) <= RowLimit
  /\ Len(notifications) <= RowLimit
  /\ audits + n <= RowLimit

-----------------------------------------------------------------------------
(* The state an approval leaves, and the writes the services share.        *)

Init ==
  /\ version = 1
  /\ status = "READY"
  /\ mandates \in {<<m>> : m \in {x \in MandateTerms : ValidMandate(x, PickupDate)}}
  /\ sessions = {}
  /\ preContact = FALSE
  /\ quotes = <<>>
  /\ reservations = {}
  /\ commitments = <<>>
  /\ escalations = <<>>
  /\ notifications = <<>>
  /\ documents = {}
  /\ audits = 1
  /\ now = 0

\* _transition and operations.update: the next version with its status entry.
Transition(s) ==
  /\ Readable
  /\ version < MaxVersion
  /\ version' = version + 1
  /\ status' = s

\* The statuses in which quotes and commitments are accepted, and a mutant that
\* only refuses them before negotiation starts.
NegotiableUnlessReady == status # "READY"

Negotiable == status \in {"NEGOTIATING", "COMMITTED"}

\* A mutant of the next definition: the old winner keeps its disposition.
ActivateBeside(call, quote, terms) ==
  commitments' =
    Append(commitments,
           [call |-> call, quote |-> quote, terms |-> terms,
            mandate |-> Len(mandates), active |-> TRUE,
            replaces |-> Winner, replacedBy |-> 0])

\* A new commitment takes over from the active one in the same transaction.
Activate(call, quote, terms) ==
  LET new == Len(commitments) + 1
      old == Winner
  IN commitments' =
       [i \in 1 .. new |->
          IF i = new
          THEN [call |-> call, quote |-> quote, terms |-> terms,
                mandate |-> Len(mandates), active |-> TRUE,
                replaces |-> old, replacedBy |-> 0]
          ELSE IF i = old
          THEN [commitments[i] EXCEPT !.active = FALSE, !.replacedBy = new]
          ELSE commitments[i]]

\* A mutant of the next definition: the winner is forgotten.
ResumedStatusForgetful == "NEGOTIATING"

\* The status an operation resumes with when its escalation is resolved.
ResumedStatus == IF Winner # 0 THEN "COMMITTED" ELSE "NEGOTIATING"

-----------------------------------------------------------------------------
(* The mutations.                                                          *)

\* StartNegotiationService: the catalog selects at most three carriers.
StartNegotiation(selected) ==
  /\ sessions = {} /\ ~preContact
  /\ status = "READY"
  /\ Cardinality(selected) <= 3
  /\ Transition(IF selected = {} THEN "ESCALATED" ELSE "NEGOTIATING")
  /\ sessions' = selected
  /\ preContact' = (selected = {})
  /\ audits' = audits + 1
  /\ UNCHANGED <<mandates, quotes, reservations, commitments, escalations,
                 notifications, documents, now>>

\* RecordQuoteService: a quote outside the mandate is kept, as REJECTED.
RecordQuote(call, terms, until) ==
  /\ call \in sessions
  /\ Negotiable
  /\ Transition(status)
  /\ quotes' = Append(quotes, [call |-> call, terms |-> terms,
                               mandate |-> Len(mandates),
                               eligible |-> InsideMandate(terms),
                               until |-> until])
  /\ audits' = audits + 1
  /\ UNCHANGED <<mandates, sessions, preContact, reservations, commitments,
                 escalations, notifications, documents, now>>

\* attach_commitment_evidence: one reservation per quote, for the selected one.
\* It locks the operation and leaves its version alone.
AttachEvidence(call) ==
  /\ call \in sessions
  /\ Readable
  /\ Len(quotes) <= RowLimit
  /\ \E q \in DOMAIN quotes :
       /\ Selected(q)
       /\ quotes[q].call = call
       /\ \A r \in reservations : r.quote # q
       /\ reservations' = reservations \cup {[quote |-> q, consumedBy |-> 0]}
  /\ UNCHANGED <<version, status, mandates, sessions, preContact, quotes,
                 commitments, escalations, notifications, documents, audits,
                 now>>

\* A mutant of the next definition: evidence is matched by its call alone.
OpenReservationsOfCall(q) ==
  {r \in reservations : /\ r.consumedBy = 0
                        /\ quotes[r.quote].call = quotes[q].call}

\* The reservation whose evidence may be consumed for a quote.
OpenReservations(q) ==
  {r \in reservations : r.quote = q /\ r.consumedBy = 0}

\* The checks of CreateCommitmentService and create_candidate_commitment.
Committable(q) ==
  /\ Negotiable
  /\ quotes[q].mandate = Len(mandates)
  /\ quotes[q].eligible
  /\ quotes[q].until > now
  /\ Len(quotes) <= RowLimit
  /\ Selected(q)
  /\ OpenReservations(q) # {}

\* The unique index on the quote_id of commitments refuses a second one.  The
\* checks alone do not: the quote of a recovery can be selected again.
QuoteUncommitted(q) == \A i \in DOMAIN commitments : commitments[i].quote # q

\* A mutant of the next definition: the reservation stays open.
ConsumeNothing(q) == UNCHANGED reservations

\* evidence_reservations.consume, by the commitment under way.
Consume(q) ==
  \E r \in OpenReservations(q) :
    reservations' = (reservations \ {r}) \cup
      {[r EXCEPT !.consumedBy = Len(commitments) + 1]}

\* CreateCommitmentService with the evidence create_candidate_commitment
\* takes from the open reservation of the quote.
CreateCommitment(q) ==
  /\ Committable(q)
  /\ QuoteUncommitted(q)
  /\ Transition("COMMITTED")
  /\ Consume(q)
  /\ Activate(quotes[q].call, q, quotes[q].terms)
  /\ audits' = audits + IF Winner = 0 THEN 1 ELSE 2
  /\ UNCHANGED <<mandates, sessions, preContact, quotes, escalations,
                 notifications, documents, now>>

\* A mutant of the next definition: the notification names the old winner.
NotifyOfOld(new) ==
  notifications' = Append(notifications, [commitment |-> Winner, by |-> NoOne])

\* The coordinator's notification of a replacement.
Notify(new) ==
  notifications' = Append(notifications, [commitment |-> new, by |-> NoOne])

\* SimulateInboundRecoveryService._replace: the carrier of the active
\* commitment proposes terms inside the mandate.
RecoverInsideMandate(i, terms) ==
  /\ Unresolved = {}
  /\ commitments[i].active
  /\ InsideMandate(terms)
  /\ Winner = i
  /\ Transition("COMMITTED")
  /\ quotes' = Append(quotes, [call |-> commitments[i].call, terms |-> terms,
                               mandate |-> Len(mandates), eligible |-> TRUE,
                               until |-> now + RecoveryValidity])
  /\ Activate(commitments[i].call, Len(quotes) + 1, terms)
  /\ Notify(Len(commitments) + 1)
  /\ audits' = audits + 3
  /\ UNCHANGED <<mandates, sessions, preContact, reservations, escalations,
                 documents, now>>

\* SimulateInboundRecoveryService._escalate: the terms break the mandate.
RecoverOutsideMandate(i, terms) ==
  /\ Unresolved = {}
  /\ commitments[i].active
  /\ ~InsideMandate(terms)
  /\ Transition("ESCALATED")
  /\ escalations' = Append(escalations, [commitment |-> i,
                                         mandate |-> Len(mandates),
                                         resolved |-> FALSE])
  /\ audits' = audits + 1
  /\ UNCHANGED <<mandates, sessions, preContact, quotes, reservations,
                 commitments, notifications, documents, now>>

\* CreateEscalationService: the coordinator escalates one of the calls.
CreateEscalation(call) ==
  /\ call \in sessions
  /\ Unresolved = {}
  /\ Transition("ESCALATED")
  /\ escalations' =
       Append(escalations,
              [commitment |-> IF /\ Winner # 0
                                 /\ commitments[Winner].call = call
                              THEN Winner ELSE 0,
               mandate |-> Len(mandates),
               resolved |-> FALSE])
  /\ audits' = audits + 1
  /\ UNCHANGED <<mandates, sessions, preContact, quotes, reservations,
                 commitments, notifications, documents, now>>

\* The mandates after a coordinator approved one more version.
Approved(m) == Append(mandates, m)

\* replace_mandate: ReplaceMandateService and the projection of the operation
\* that the same transaction stores as the result of the request.
ReplaceMandate(e, m) ==
  /\ ~escalations[e].resolved
  /\ ValidMandate(m, PickupDate)
  /\ Projectable(2)
  /\ Transition(ResumedStatus)
  /\ mandates' = Approved(m)
  /\ escalations' = [escalations EXCEPT ![e].resolved = TRUE]
  /\ audits' = audits + 2
  /\ UNCHANGED <<sessions, preContact, quotes, reservations, commitments,
                 notifications, documents, now>>

\* AcknowledgeNotificationService; a second acknowledgement changes nothing.
AcknowledgeNotification(n, k) ==
  /\ notifications[n].by = NoOne
  /\ Transition(status)
  /\ notifications' = [notifications EXCEPT ![n].by = k]
  /\ audits' = audits + 1
  /\ UNCHANGED <<mandates, sessions, preContact, quotes, reservations,
                 commitments, escalations, documents, now>>

\* create_call_brief takes the active commitment, create_simulated_recap any.
GenerateDocument(kind, i) ==
  /\ Readable
  /\ kind = "brief" => i = Winner
  /\ <<kind, i>> \notin documents
  /\ documents' = documents \cup {<<kind, i>>}
  /\ audits' = audits + 1
  /\ UNCHANGED <<version, status, mandates, sessions, preContact, quotes,
                 reservations, commitments, escalations, notifications, now>>

\* The clock passes, and with it the validity of quotes.
Tick ==
  /\ now < MaxNow
  /\ now' = now + 1
  /\ UNCHANGED <<version, status, mandates, sessions, preContact, quotes,
                 reservations, commitments, escalations, notifications,
                 documents, audits>>

Next ==
  \/ \E selected \in SUBSET Calls : StartNegotiation(selected)
  \/ \E call \in Calls, terms \in Terms, until \in 0 .. MaxNow + 1 :
       RecordQuote(call, terms, until)
  \/ \E call \in Calls : AttachEvidence(call)
  \/ \E q \in DOMAIN quotes : CreateCommitment(q)
  \/ \E i \in DOMAIN commitments, terms \in Terms :
       RecoverInsideMandate(i, terms)
  \/ \E i \in DOMAIN commitments, terms \in Terms :
       RecoverOutsideMandate(i, terms)
  \/ \E call \in Calls : CreateEscalation(call)
  \/ \E e \in DOMAIN escalations, m \in MandateTerms : ReplaceMandate(e, m)
  \/ \E n \in DOMAIN notifications, k \in Coordinators :
       AcknowledgeNotification(n, k)
  \/ \E kind \in DocumentKinds, i \in DOMAIN commitments :
       GenerateDocument(kind, i)
  \/ Tick

Spec == Init /\ [][Next]_vars

-----------------------------------------------------------------------------
(* Properties.                                                             *)

\* Type invariant of the rows of one operation.
TypeOK ==
  /\ version \in Nat \ {0}
  /\ status \in Statuses
  /\ mandates \in Seq(MandateType) /\ mandates # <<>>
  /\ sessions \subseteq Calls
  /\ preContact \in BOOLEAN
  /\ quotes \in Seq(QuoteType)
  /\ reservations \subseteq ReservationType
  /\ commitments \in Seq(CommitmentType)
  /\ escalations \in Seq(EscalationType)
  /\ notifications \in Seq(NotificationType)
  /\ documents \subseteq DocumentKinds \X (Nat \ {0})
  /\ audits \in Nat
  /\ now \in Nat

\* The commitments of an operation form one chain: whichever services made
\* them, exactly the newest is ACTIVE, each one replaces the one before it and
\* names the one that replaced it.  The partial unique index on ACTIVE rows
\* never has to refuse a write.
OneWinnerChain ==
  \A i \in DOMAIN commitments :
    /\ commitments[i].active <=> i = Len(commitments)
    /\ commitments[i].replaces = i - 1
    /\ commitments[i].replacedBy = IF i = Len(commitments) THEN 0 ELSE i + 1

\* Whatever was renegotiated, escalated or replaced since, every quote that was
\* judged eligible and every commitment ever made has terms inside the mandate
\* whose version it records.
TermsInsideMandate ==
  /\ \A q \in DOMAIN quotes :
       quotes[q].eligible =>
         /\ quotes[q].mandate \in DOMAIN mandates
         /\ Within(mandates[quotes[q].mandate], quotes[q].terms)
  /\ \A i \in DOMAIN commitments :
       /\ commitments[i].mandate \in DOMAIN mandates
       /\ Within(mandates[commitments[i].mandate], commitments[i].terms)

\* A commitment is the agreement of one quote of its own call, and no quote is
\* agreed twice: not by a comparison and a recovery, which make their own, nor,
\* by the unique index, by a comparison that selects the quote of a recovery.
CommitmentsKeepTheirQuote ==
  /\ \A i \in DOMAIN commitments :
       LET q == commitments[i].quote
       IN /\ q \in DOMAIN quotes
          /\ quotes[q].eligible
          /\ quotes[q].call = commitments[i].call
          /\ quotes[q].terms = commitments[i].terms
          /\ quotes[q].mandate = commitments[i].mandate
  /\ \A i, j \in DOMAIN commitments :
       commitments[i].quote = commitments[j].quote => i = j

\* An evidence reservation is consumed by the commitment of its own quote, and
\* a quote has one reservation: recorded agreement audio is never attached to
\* a commitment other than the one it was recorded for.
EvidenceFollowsQuote ==
  /\ \A r \in reservations :
       r.consumedBy # 0 =>
         /\ r.consumedBy \in DOMAIN commitments
         /\ commitments[r.consumedBy].quote = r.quote
  /\ \A r, s \in reservations : r.quote = s.quote => r = s

\* The status a coordinator sees agrees with the rows it summarises: ESCALATED
\* exactly while an escalation is open, COMMITTED exactly while a winner stands
\* and none is open, with one open escalation at most; and without a carrier to
\* call there is nothing agreed and nothing escalated.
StatusReflectsRows ==
  /\ status = "READY" <=> sessions = {} /\ ~preContact
  /\ status = "ESCALATED" <=> preContact \/ Unresolved # {}
  /\ status = "COMMITTED" <=> status # "ESCALATED" /\ Winner # 0
  /\ \A d, e \in Unresolved : d = e
  /\ preContact => sessions = {}
  /\ sessions = {} => commitments = <<>> /\ escalations = <<>>

\* The coordinator is notified once of each replacement a recovery made, and of
\* no commitment that was made from reserved evidence.
RecoveriesAreNotified ==
  \A i \in DOMAIN commitments :
    Cardinality({n \in DOMAIN notifications : notifications[n].commitment = i})
      = IF \E r \in reservations : r.consumedBy = i THEN 0 ELSE 1

\* While the operation is escalated no step of any service adds a quote or
\* touches a commitment, whatever requests are still on their way.
EscalationFreezesAgreement ==
  [][status = "ESCALATED" => UNCHANGED <<quotes, commitments>>]_vars

\* A comparison never replaces a winner whose quote is still live under the
\* mandate in force by dearer terms; only a recovery may raise the price.
LiveWinnerOnlyImproves ==
  [][\A q \in DOMAIN quotes :
       /\ Winner # 0
       /\ Len(commitments') > Len(commitments)
       /\ commitments'[Len(commitments')].quote = q
       /\ commitments[Winner].quote \in Candidates
       => quotes[q].terms.amount <= commitments[Winner].terms.amount]_vars

\* The escalation a coordinator sees open can be ended by a new mandate.
EscalationCanEnd ==
  Unresolved # {} /\ version < MaxVersion =>
    ENABLED \E e \in DOMAIN escalations, m \in MandateTerms : ReplaceMandate(e, m)

-----------------------------------------------------------------------------
(* The operation implements the promise to the coordinator.                *)

agreementOf ==
  IF Winner = 0 THEN NoOne
  ELSE [terms |-> commitments[Winner].terms,
        mandate |-> commitments[Winner].mandate]

phaseOf ==
  CASE preContact -> "stopped"
    [] ~preContact /\ status = "READY" -> "ready"
    [] ~preContact /\ status = "ESCALATED" -> "escalated"
    [] OTHER -> "open"

Promise == INSTANCE MandateSafeAgreement WITH
  Mandates <- {m \in MandateTerms : ValidMandate(m, PickupDate)},
  Offers <- Terms,
  None <- NoOne,
  phase <- phaseOf,
  agreement <- agreementOf,
  approved <- mandates

\* Every behaviour of the services is one the coordinator was promised.
KeepsPromise == Promise!Spec
=============================================================================
