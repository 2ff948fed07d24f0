--------------------------- MODULE OperationReads ---------------------------
(***************************************************************************)
(* get_operation: one request that reads an operation statement by         *)
(* statement, without a lock and in a transaction whose statements each    *)
(* see what was committed before them, while the mutations go on.          *)
(*                                                                         *)
(* Quotes and evidence never change once they are written, so the number   *)
(* of the quotes stands for them, and the statements that read the         *)
(* evidence of the listed commitments are one step with the list.          *)
(***************************************************************************)
EXTENDS OperationRecords

VARIABLES
  pc,     \* the statement the request runs next, or how it ended
  view    \* what it has read

readVars == <<recordVars, pc, view>>

ViewType == [version : Nat, mandate : Nat, status : Statuses \cup {"none"},
             sessions : SUBSET Calls, stopped : BOOLEAN, quotes : Nat,
             active : Nat, open : Nat, notices : Seq(NotificationType)]

NoView == [version |-> 0, mandate |-> 0, status |-> "none", sessions |-> {},
           stopped |-> FALSE, quotes |-> 0, active |-> 0, open |-> 0,
           notices |-> <<>>]

-----------------------------------------------------------------------------
(* What the statements find.                                               *)

\* The entries of the history that are newer than the row that was read: with
\* one of them the aggregate is refused as invalid stored state.
Future == {v \in DOMAIN history : v > view.version}

\* The first ACTIVE commitment of the lineage, 0 for none.
ActiveShown == Winner

\* A mutant of the next definition: resolved escalations are not left out.
NewestEscalation == Len(escalations)

\* The open escalation, 0 for none.
OpenShown ==
  IF Unresolved = {} THEN 0 ELSE CHOOSE e \in DOMAIN escalations : ~escalations[e].resolved

\* Every listed commitment has its evidence.
EvidenceFound == \A i \in DOMAIN commitments : EvidenceOf(i) # {}

-----------------------------------------------------------------------------
(* The statements.                                                         *)

\* The view after a statement, or the error a read of too many rows ends with.
Reads(at, next, ok, v) ==
  /\ pc = at
  /\ pc' = IF ok THEN next ELSE "refused"
  /\ view' = IF ok THEN v ELSE view
  /\ UNCHANGED recordVars

\* The row of the operation, and the mandate row it names, which never changes.
ReadRow ==
  Reads("idle", "statuses", TRUE,
        [view EXCEPT !.version = version, !.mandate = Len(mandates)])

ReadStatuses ==
  Reads("statuses", "negotiation", Len(history) <= RowLimit /\ Future = {},
        [view EXCEPT !.status = history[Len(history)]])

ReadNegotiation ==
  Reads("negotiation", "quotes", TRUE,
        [view EXCEPT !.sessions = sessions, !.stopped = preContact])

ReadQuotes ==
  Reads("quotes", "commitments", Len(quotes) <= RowLimit,
        [view EXCEPT !.quotes = Len(quotes)])

ReadCommitments ==
  Reads("commitments", "audits", Len(commitments) <= RowLimit /\ EvidenceFound,
        [view EXCEPT !.active = ActiveShown])

ReadAudits == Reads("audits", "escalation", audits <= RowLimit, view)

ReadEscalation ==
  Reads("escalation", "notifications", TRUE, [view EXCEPT !.open = OpenShown])

\* The last rows, and with them the answer.
ReadNotifications ==
  Reads("notifications", "answered", Len(notifications) <= RowLimit,
        [view EXCEPT !.notices = notifications])

ReadsInit == RecordsInit /\ pc = "idle" /\ view = NoView

ReadsNext ==
  \/ RecordsNext /\ UNCHANGED <<pc, view>>
  \/ ReadRow
  \/ ReadStatuses
  \/ ReadNegotiation
  \/ ReadQuotes
  \/ ReadCommitments
  \/ ReadAudits
  \/ ReadEscalation
  \/ ReadNotifications

ReadsSpec == ReadsInit /\ [][ReadsNext]_readVars

-----------------------------------------------------------------------------
(* Properties.                                                             *)

\* Type invariant of the request.
ReadsTypeOK ==
  /\ pc \in {"idle", "statuses", "negotiation", "quotes", "commitments",
             "audits", "escalation", "notifications", "answered", "refused"}
  /\ view \in ViewType

\* Everything the answer shows is what the operation is.
Whole ==
  /\ view.mandate = Len(mandates)
  /\ view.status = status
  /\ view.sessions = sessions
  /\ view.stopped = preContact
  /\ view.quotes = Len(quotes)
  /\ view.active = Winner
  /\ view.open # 0 => Unresolved = {view.open}
  /\ view.open = 0 => Unresolved = {}
  /\ view.notices = notifications

\* The operation has more rows than a projection may hold.
TooManyRows ==
  \/ version > RowLimit
  \/ audits > RowLimit
  \/ \E n \in {Len(quotes), Len(commitments), Len(notifications)} : n > RowLimit

\* A client may send the version of its answer with a mutation: as long as the
\* operation still has that version, every part of the answer is current, even
\* though it was read in many statements between which the services commit;
\* and a request of that version was refused for the number of rows only.
CurrentAnswersAreWhole ==
  view.version = version =>
    /\ pc = "answered" => Whole
    /\ pc = "refused" => TooManyRows
=============================================================================
