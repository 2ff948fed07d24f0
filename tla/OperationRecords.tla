-------------------------- MODULE OperationRecords --------------------------
(***************************************************************************)
(* The rows the services write beside the rows of OperationLifecycle, in   *)
(* the same transaction: the history of the status, the audit events, the  *)
(* agreement evidence of a commitment, the attempts to recover one, the    *)
(* context of an escalation, the decision a notification explains and the  *)
(* references of a brief or a recap.                                       *)
(*                                                                         *)
(* An escalation and its context are one row of the database, and so are a *)
(* notification and its decision: the sequences are parallel.              *)
(***************************************************************************)
EXTENDS OperationLifecycle

VARIABLES
  history,      \* operation_status_history: one status per version
  trail,        \* audit_events of the operation, by version and type
  evidence,     \* agreement_evidence
  recoveries,   \* recovery_attempts
  contexts,     \* the call, reason and version of each escalation
  decisions,    \* the recovery decision of each notification
  papers        \* call_briefs and recaps

rows == <<evidence, recoveries, contexts, decisions, papers>>

recordVars == <<vars, history, trail, rows>>

\* The event types the mutations of an operation write.
EventTypes ==
  {"OPERATION_APPROVED", "NEGOTIATION_STARTED", "PRE_CONTACT_ESCALATED",
   "QUOTE_RECORDED", "QUOTE_REJECTED", "COMMITMENT_ACTIVATED",
   "COMMITMENT_SUPERSEDED", "BRIEF_GENERATED", "RECAP_GENERATED",
   "RECOVERY_REPLACEMENT_APPLIED", "POST_CONTACT_ESCALATED",
   "EXPLICIT_ESCALATION_CREATED", "MANDATE_REPLACED", "ESCALATION_RESOLVED",
   "NOTIFICATION_ACKNOWLEDGED"}

AuditEventType == [version : Nat \ {0}, type : EventTypes]

\* What was recorded: the call of a quote, or 0 for the call of a recovery.
RecoveryRecording == 0
EvidenceType == [commitment : Nat \ {0}, recording : Nat]

\* An attempt that replaced names a commitment, one that escalated an
\* escalation; either way the version advanced once.
RecoveryType ==
  {a \in [commitment : Nat \ {0}, scenario : {"MANDATE_SAFE", "OUT_OF_MANDATE"},
          before : Nat \ {0}, after : Nat \ {0},
          outcome : {"REPLACED", "ESCALATED"},
          resulting : Nat, escalation : Nat] :
     /\ a.after = a.before + 1
     /\ a.outcome = "REPLACED" => a.resulting # 0 /\ a.escalation = 0
     /\ a.outcome = "ESCALATED" => a.resulting = 0 /\ a.escalation # 0
     /\ a.scenario = "MANDATE_SAFE" <=> a.outcome = "REPLACED"}

ContextType == [call : Calls,
                reason : {"OUT_OF_MANDATE", "EXPLICIT_COORDINATOR_ESCALATION"},
                version : Nat \ {0}]

DecisionStateType == [version : Nat \ {0}, status : Statuses,
                      commitment : Nat \ {0}, call : Calls, terms : Terms]

DecisionType == [version : Nat \ {0}, before : DecisionStateType,
                 after : DecisionStateType]

PaperType == [kind : DocumentKinds, commitment : Nat \ {0}, call : Calls,
              quote : Nat, mandate : Nat]

-----------------------------------------------------------------------------
(* The rows of one transaction.                                            *)

\* _transition appends the status the new version enters with.
Entered == history' = Append(history, status')

\* The events of a transaction carry the version it leaves.
Audited(types) ==
  trail' = trail \cup {[version |-> version', type |-> t] : t \in types}

\* A mutant of the next definition: the resolution goes unrecorded.
ReplacementEvents == {"MANDATE_REPLACED"}

\* What the audit trail says of a new mandate.
ResolutionEvents == {"MANDATE_REPLACED", "ESCALATION_RESOLVED"}

\* What it says of a commitment that is made while the rows are as given.
ActivationEvents ==
  {"COMMITMENT_ACTIVATED"} \cup
    (IF Winner = 0 THEN {} ELSE {"COMMITMENT_SUPERSEDED"})

\* The evidence of a new commitment: what was reserved for the quote it
\* consumes the reservation of.
ReservedEvidence ==
  {[commitment |-> r.consumedBy, recording |-> r.quote] :
     r \in reservations' \ reservations}

\* A state a recovery decision explains, when commitment i of cs is active.
DecisionState(v, s, i, cs) ==
  [version |-> v, status |-> s, commitment |-> i, call |-> cs[i].call,
   terms |-> cs[i].terms]

\* A mutant of the next definition: the attempt names what it resulted in.
ReplacedItself(i) ==
  [commitment |-> Len(commitments'), scenario |-> "MANDATE_SAFE",
   before |-> version, after |-> version + 1, outcome |-> "REPLACED",
   resulting |-> Len(commitments'), escalation |-> 0]

\* The attempt that replaced commitment i.
ReplacedAttempt(i) ==
  [commitment |-> i, scenario |-> "MANDATE_SAFE",
   before |-> version, after |-> version + 1, outcome |-> "REPLACED",
   resulting |-> Len(commitments'), escalation |-> 0]

\* The attempt that escalated over commitment i.
EscalatedAttempt(i) ==
  [commitment |-> i, scenario |-> "OUT_OF_MANDATE",
   before |-> version, after |-> version + 1, outcome |-> "ESCALATED",
   resulting |-> 0, escalation |-> Len(escalations')]

\* The context of an escalation, at the version it was raised for.
Context(call, reason) == [call |-> call, reason |-> reason, version |-> version]

\* A brief refers to the quote and the mandate of its commitment, a recap does
\* not; both name its call.
Paper(kind, i) ==
  [kind |-> kind, commitment |-> i, call |-> commitments[i].call,
   quote |-> IF kind = "brief" THEN commitments[i].quote ELSE 0,
   mandate |-> IF kind = "brief" THEN commitments[i].mandate ELSE 0]

-----------------------------------------------------------------------------
(* The mutations with all of their rows.                                   *)

RecordsInit ==
  /\ Init
  /\ history = <<status>>
  /\ trail = {[version |-> 1, type |-> "OPERATION_APPROVED"]}
  /\ evidence = {}
  /\ recoveries = <<>>
  /\ contexts = <<>>
  /\ decisions = <<>>
  /\ papers = {}

StartRecorded(selected) ==
  /\ StartNegotiation(selected)
  /\ Entered
  /\ Audited({IF selected = {} THEN "PRE_CONTACT_ESCALATED"
              ELSE "NEGOTIATION_STARTED"})
  /\ UNCHANGED rows

QuoteRecorded(call, terms, until) ==
  /\ RecordQuote(call, terms, until)
  /\ Entered
  /\ Audited({IF InsideMandate(terms) THEN "QUOTE_RECORDED"
              ELSE "QUOTE_REJECTED"})
  /\ UNCHANGED rows

\* The reservation is no part of the history of the operation.
EvidenceAttached(call) ==
  /\ AttachEvidence(call)
  /\ UNCHANGED <<history, trail, rows>>

CommitmentRecorded(q) ==
  /\ CreateCommitment(q)
  /\ Entered
  /\ Audited(ActivationEvents)
  /\ evidence' = evidence \cup ReservedEvidence
  /\ UNCHANGED <<recoveries, contexts, decisions, papers>>

ReplacementRecorded(i, terms) ==
  LET new == Len(commitments')
  IN /\ RecoverInsideMandate(i, terms)
     /\ Entered
     /\ Audited(ActivationEvents \cup {"RECOVERY_REPLACEMENT_APPLIED"})
     /\ evidence' = evidence \cup
          {[commitment |-> new, recording |-> RecoveryRecording]}
     /\ recoveries' = Append(recoveries, ReplacedAttempt(i))
     /\ decisions' = Append(decisions,
          [version |-> version',
           before |-> DecisionState(version, status, i, commitments),
           after |-> DecisionState(version', status', new, commitments')])
     /\ UNCHANGED <<contexts, papers>>

EscalationRecorded(i, terms) ==
  /\ RecoverOutsideMandate(i, terms)
  /\ Entered
  /\ Audited({"POST_CONTACT_ESCALATED"})
  /\ recoveries' = Append(recoveries, EscalatedAttempt(i))
  /\ contexts' = Append(contexts, Context(commitments[i].call, "OUT_OF_MANDATE"))
  /\ UNCHANGED <<evidence, decisions, papers>>

ExplicitEscalationRecorded(call) ==
  /\ CreateEscalation(call)
  /\ Entered
  /\ Audited({"EXPLICIT_ESCALATION_CREATED"})
  /\ contexts' = Append(contexts, Context(call, "EXPLICIT_COORDINATOR_ESCALATION"))
  /\ UNCHANGED <<evidence, recoveries, decisions, papers>>

MandateRecorded(e, m) ==
  /\ ReplaceMandate(e, m)
  /\ Entered
  /\ Audited(ResolutionEvents)
  /\ UNCHANGED rows

AcknowledgementRecorded(n, k) ==
  /\ AcknowledgeNotification(n, k)
  /\ Entered
  /\ Audited({"NOTIFICATION_ACKNOWLEDGED"})
  /\ UNCHANGED rows

\* A brief or a recap leaves the version, and with it the history, alone.
PaperRecorded(kind, i) ==
  /\ GenerateDocument(kind, i)
  /\ Audited({IF kind = "brief" THEN "BRIEF_GENERATED" ELSE "RECAP_GENERATED"})
  /\ papers' = papers \cup {Paper(kind, i)}
  /\ UNCHANGED <<history, evidence, recoveries, contexts, decisions>>

RecordsTick ==
  /\ Tick
  /\ UNCHANGED <<history, trail, rows>>

RecordsNext ==
  \/ \E selected \in SUBSET Calls : StartRecorded(selected)
  \/ \E call \in Calls, terms \in Terms, until \in 0 .. MaxNow + 1 :
       QuoteRecorded(call, terms, until)
  \/ \E call \in Calls : EvidenceAttached(call)
  \/ \E q \in DOMAIN quotes : CommitmentRecorded(q)
  \/ \E i \in DOMAIN commitments, terms \in Terms : ReplacementRecorded(i, terms)
  \/ \E i \in DOMAIN commitments, terms \in Terms : EscalationRecorded(i, terms)
  \/ \E call \in Calls : ExplicitEscalationRecorded(call)
  \/ \E e \in DOMAIN escalations, m \in MandateTerms : MandateRecorded(e, m)
  \/ \E n \in DOMAIN notifications, k \in Coordinators :
       AcknowledgementRecorded(n, k)
  \/ \E kind \in DocumentKinds, i \in DOMAIN commitments :
       PaperRecorded(kind, i)
  \/ RecordsTick

RecordsSpec == RecordsInit /\ [][RecordsNext]_recordVars

-----------------------------------------------------------------------------
(* The foreign keys and the unique constraints of the tables.              *)

\* A quote is of a carrier that was selected.
QuoteKeys == \A q \in DOMAIN quotes : quotes[q].call \in sessions

\* A reservation is of a quote, once, and is consumed by a commitment, once.
ReservationKeys ==
  /\ \A r \in reservations : r.quote \in DOMAIN quotes
  /\ \A r \in reservations :
       r.consumedBy # 0 => r.consumedBy \in DOMAIN commitments
  /\ \A r, s \in reservations : r.quote = s.quote => r = s
  /\ \A r, s \in reservations :
       r.consumedBy # 0 /\ r.consumedBy = s.consumedBy => r = s

\* A commitment is of a quote and of the call of that quote; one of them is
\* ACTIVE at most.  That it is the only one of its quote is left to the index.
CommitmentKeys ==
  /\ \A i \in DOMAIN commitments :
       /\ commitments[i].quote \in DOMAIN quotes
       /\ commitments[i].call = quotes[commitments[i].quote].call
       /\ {commitments[i].replaces, commitments[i].replacedBy} \subseteq
            {0} \cup DOMAIN commitments
  /\ \A i, j \in DOMAIN commitments :
       commitments[i].active /\ commitments[j].active => i = j

\* Evidence is of a commitment, once.
EvidenceKeys ==
  /\ \A e \in evidence : e.commitment \in DOMAIN commitments
  /\ \A e, f \in evidence : e.commitment = f.commitment => e = f

\* A brief or recap is of a commitment, once of each kind, and of its call.
PaperKeys ==
  /\ \A p \in papers :
       /\ p.commitment \in DOMAIN commitments
       /\ p.call = commitments[p.commitment].call
       /\ p.call \in sessions
  /\ \A p, o \in papers :
       p.kind = o.kind /\ p.commitment = o.commitment => p = o

\* An escalation is of a call and of a commitment, if any; one of them is
\* unresolved at most.
EscalationKeys ==
  /\ \A e \in DOMAIN escalations :
       /\ escalations[e].commitment \in {0} \cup DOMAIN commitments
       /\ contexts[e].call \in sessions
  /\ \A d, e \in Unresolved : d = e

\* An attempt is of a commitment, and of the one it resulted in with the
\* evidence of that one, or of an escalation.
RecoveryKeys ==
  \A k \in DOMAIN recoveries :
    LET a == recoveries[k]
    IN /\ a.commitment \in DOMAIN commitments
       /\ a.resulting # 0 =>
            /\ a.resulting \in DOMAIN commitments
            /\ \E e \in evidence : e.commitment = a.resulting
       /\ a.escalation \in {0} \cup DOMAIN escalations

\* A notification is of a commitment.
NotificationKeys ==
  \A n \in DOMAIN notifications :
    notifications[n].commitment \in DOMAIN commitments

-----------------------------------------------------------------------------
(* Properties.                                                             *)

\* Type invariant of the rows, with the rules of their constructors.
RecordsTypeOK ==
  /\ history \in Seq(Statuses)
  /\ trail \subseteq AuditEventType
  /\ evidence \subseteq EvidenceType
  /\ recoveries \in Seq(RecoveryType)
  /\ contexts \in Seq(ContextType)
  /\ decisions \in Seq(DecisionType)
  /\ papers \subseteq PaperType

\* The attempts that resulted in commitment i.
AttemptsFor(i) == {k \in DOMAIN recoveries : recoveries[k].resulting = i}

\* A commitment that passes every check of its service, though its quote has one
\* already, and that the index on quote_id refuses: its quote is a recovery's.
OnlyARecoverysQuoteIsRefused ==
  \A q \in DOMAIN quotes, i \in DOMAIN commitments :
    Committable(q) /\ commitments[i].quote = q => AttemptsFor(i) # {}

\* The database accepts the rows the services write: after any sequence of
\* mutations each reference names a row of this operation, and the unique
\* constraints hold that no check repeats.  Of the transactions that passed
\* their checks one kind only is lost at a constraint, the agreement of a quote
\* a recovery made and agreed itself (tables.py:402); a quote that a comparison
\* agreed never comes, selected and with open evidence, before the index again.
RowsAreAccepted ==
  /\ QuoteKeys
  /\ ReservationKeys
  /\ CommitmentKeys
  /\ OnlyARecoverysQuoteIsRefused
  /\ EvidenceKeys
  /\ PaperKeys
  /\ EscalationKeys
  /\ RecoveryKeys
  /\ NotificationKeys

\* The rows that speak of one commitment.
EvidenceOf(i) == {e \in evidence : e.commitment = i}
NoticesOf(i) == {n \in DOMAIN notifications : notifications[n].commitment = i}

MadeFromQuote(i) ==
  LET q == commitments[i].quote
  IN /\ EvidenceOf(i) = {[commitment |-> i, recording |-> q]}
     /\ [quote |-> q, consumedBy |-> i] \in reservations
     /\ AttemptsFor(i) = {}
     /\ NoticesOf(i) = {}

\* k and n are the only rows of their kind about commitment i.
MadeByRecovery(i) ==
  \E k \in DOMAIN recoveries, n \in DOMAIN notifications :
    LET a == recoveries[k]
    IN /\ EvidenceOf(i) = {[commitment |-> i, recording |-> RecoveryRecording]}
       /\ AttemptsFor(i) = {k}
       /\ NoticesOf(i) = {n}
       /\ a.commitment = commitments[i].replaces
       /\ decisions[n] =
            [version |-> a.after,
             before |-> DecisionState(a.before, "COMMITTED", a.commitment, commitments),
             after |-> DecisionState(a.after, "COMMITTED", i, commitments)]

\* Every commitment is explained by the rows around it, whatever happened
\* since: it agrees an eligible quote of its own, and either the recording
\* reserved for that quote is its evidence and no recovery speaks of it, or
\* exactly one attempt replaced the commitment before it and exactly one
\* notification tells the coordinator so, with the versions, the carriers and
\* the terms before and after.
CommitmentsAreExplained ==
  /\ CommitmentsKeepTheirQuote
  /\ \A i \in DOMAIN commitments : MadeFromQuote(i) \/ MadeByRecovery(i)

\* Every escalation out of the mandate is the outcome of exactly one attempt,
\* which was made on the commitment it names and at the version it was raised
\* for, and no other escalation is the outcome of an attempt.
EscalationsAreExplained ==
  \A e \in DOMAIN escalations :
    LET attempts == {k \in DOMAIN recoveries : recoveries[k].escalation = e}
    IN IF contexts[e].reason = "OUT_OF_MANDATE"
       THEN \E k \in attempts :
              /\ attempts = {k}
              /\ recoveries[k].commitment = escalations[e].commitment
              /\ recoveries[k].before = contexts[e].version
       ELSE attempts = {}

\* What the audit view shows of a recovery is complete: neither a commitment
\* nor an escalation lacks the rows that explain it, or has those of another.
RowsAreExplained == CommitmentsAreExplained /\ EscalationsAreExplained

At(v, types) == \E t \in types : [version |-> v, type |-> t] \in trail

\* The audit trail tells the history of the operation: every version has an
\* event; the operation became escalated at exactly the versions with an
\* escalation event, left that status at exactly those where an escalation was
\* resolved, by a new mandate; and became or stayed COMMITTED by a new
\* commitment at exactly those where one was activated.
AuditExplainsHistory ==
  /\ Len(history) = version
  /\ history[version] = status
  /\ \A v \in 1 .. version : At(v, EventTypes)
  /\ \A v \in 2 .. version :
       /\ history[v] = "ESCALATED" /\ history[v - 1] # "ESCALATED" <=>
            At(v, {"PRE_CONTACT_ESCALATED", "POST_CONTACT_ESCALATED",
                   "EXPLICIT_ESCALATION_CREATED"})
       /\ history[v] # "ESCALATED" /\ history[v - 1] = "ESCALATED" <=>
            At(v, {"ESCALATION_RESOLVED"})
       /\ At(v, {"ESCALATION_RESOLVED"}) <=> At(v, {"MANDATE_REPLACED"})
       /\ At(v, {"COMMITMENT_SUPERSEDED"}) => At(v, {"COMMITMENT_ACTIVATED"})
       /\ history[v] = "COMMITTED" /\ history[v - 1] = "NEGOTIATING" =>
            At(v, {"COMMITMENT_ACTIVATED"})
  /\ Cardinality({v \in 1 .. version : At(v, {"COMMITMENT_ACTIVATED"})})
       = Len(commitments)
  /\ Cardinality({v \in 1 .. version : At(v, {"MANDATE_REPLACED"})})
       = Len(mandates) - 1
=============================================================================
