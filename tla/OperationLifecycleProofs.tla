----------------------- MODULE OperationLifecycleProofs -----------------------
(***************************************************************************)
(* What holds of an operation for every set of calls, terms and mandates,  *)
(* every limit and every bound: of its rows (OperationLifecycle), of the   *)
(* rows beside them (OperationRecords) and of a request that reads both    *)
(* (OperationReads).  TLC checks the same properties on the small          *)
(* instances of MCOperation and MCReads.                                   *)
(***************************************************************************)
EXTENDS OperationReads, SequenceTheorems, FiniteSetTheorems, TLAPS

-----------------------------------------------------------------------------
(* The helpers of the services.                                            *)

\* get_active returns an ACTIVE commitment, or 0 when there is none.
LEMMA WinnerFound ==
  ASSUME commitments \in Seq(CommitmentType)
  PROVE  /\ Winner \in 0 .. Len(commitments)
         /\ Winner # 0 => Winner \in DOMAIN commitments /\ commitments[Winner].active
         /\ Winner = 0 => \A i \in DOMAIN commitments : ~commitments[i].active
<1>1. DOMAIN commitments = 1 .. Len(commitments) /\ Len(commitments) \in Nat
  BY LenProperties
<1>2. CASE \E i \in DOMAIN commitments : commitments[i].active
  <2>1. Winner = CHOOSE i \in DOMAIN commitments : commitments[i].active
    BY <1>2 DEF Winner
  <2>2. Winner \in DOMAIN commitments /\ commitments[Winner].active
    BY <1>2, <2>1, Zenon
  <2>3. QED
    BY <1>1, <2>2
<1>3. CASE ~\E i \in DOMAIN commitments : commitments[i].active
  BY <1>1, <1>3 DEF Winner
<1>4. QED
  BY <1>2, <1>3

\* The mandate in force is one that was approved.
LEMMA MandateInForce ==
  ASSUME mandates \in Seq(MandateType), mandates # <<>>
  PROVE  /\ Len(mandates) \in Nat \ {0}
         /\ Len(mandates) \in DOMAIN mandates
         /\ ActiveMandate = mandates[Len(mandates)]
<1>1. Len(mandates) \in Nat \ {0}
  BY EmptySeq
<1>2. DOMAIN mandates = 1 .. Len(mandates)
  BY LenProperties
<1>3. QED
  BY <1>1, <1>2 DEF ActiveMandate

\* A new commitment is appended; of the others only the one that was active
\* changes.
LEMMA Activated ==
  ASSUME commitments \in Seq(CommitmentType),
         mandates \in Seq(MandateType), mandates # <<>>,
         NEW call \in Calls, NEW quote \in Nat \ {0}, NEW terms \in Terms,
         Activate(call, quote, terms)
  PROVE  /\ commitments' \in Seq(CommitmentType)
         /\ Len(commitments') = Len(commitments) + 1
         /\ DOMAIN commitments' = 1 .. Len(commitments) + 1
         /\ DOMAIN commitments = 1 .. Len(commitments)
         /\ commitments'[Len(commitments) + 1] =
              [call |-> call, quote |-> quote, terms |-> terms,
               mandate |-> Len(mandates), active |-> TRUE,
               replaces |-> Winner, replacedBy |-> 0]
         /\ \A i \in 1 .. Len(commitments) :
              commitments'[i] =
                IF i = Winner
                THEN [commitments[i] EXCEPT !.active = FALSE,
                                            !.replacedBy = Len(commitments) + 1]
                ELSE commitments[i]
<1> DEFINE n == Len(commitments)
           c == [call |-> call, quote |-> quote, terms |-> terms,
                 mandate |-> Len(mandates), active |-> TRUE,
                 replaces |-> Winner, replacedBy |-> 0]
           old(i) == [commitments[i] EXCEPT !.active = FALSE, !.replacedBy = n + 1]
           row(i) == IF i = n + 1 THEN c ELSE IF i = Winner THEN old(i)
                     ELSE commitments[i]
<1>1. n \in Nat /\ DOMAIN commitments = 1 .. n
  BY LenProperties
<1>2. Winner \in 0 .. n
  BY WinnerFound
<1>3. commitments' = [i \in 1 .. n + 1 |-> row(i)]
  BY DEF Activate
<1>4. Len(mandates) \in Nat \ {0}
  BY MandateInForce
<1>5. c \in CommitmentType
  BY <1>1, <1>2, <1>4 DEF CommitmentType
<1>6. \A i \in 1 .. n : commitments[i] \in CommitmentType
  BY <1>1, ElementOfSeq
<1> HIDE DEF c
<1>7. \A x \in CommitmentType, k \in Nat :
        [x EXCEPT !.active = FALSE, !.replacedBy = k] \in CommitmentType
  BY DEF CommitmentType
<1>8. \A i \in 1 .. n + 1 : row(i) \in CommitmentType
  <2>1. \A i \in 1 .. n : old(i) \in CommitmentType
    <3>1. n + 1 \in Nat
      BY <1>1
    <3>2. QED
      BY <1>6, <1>7, <3>1, Zenon
  <2> HIDE DEF old
  <2>2. \A i \in 1 .. n + 1 : i \in 1 .. n \/ i = n + 1
    BY <1>1
  <2>3. QED
    BY <1>5, <1>6, <2>1, <2>2, Zenon
<1>9. commitments' \in [1 .. n + 1 -> CommitmentType]
  BY <1>3, <1>8
<1>10. commitments' \in Seq(CommitmentType) /\ Len(commitments') = n + 1
  BY <1>1, <1>9
<1>11. DOMAIN commitments' = 1 .. n + 1
  BY <1>9
<1> HIDE DEF n, c, old, row
<1>12. \A i \in 1 .. n + 1 : commitments'[i] = row(i)
  BY <1>3
<1>13. row(n + 1) = c /\ n + 1 \in 1 .. n + 1
  BY <1>1 DEF row
<1>14. \A i \in 1 .. n :
         i \in 1 .. n + 1 /\ row(i) = IF i = Winner THEN old(i) ELSE commitments[i]
  BY <1>1 DEF row
<1>15. commitments'[n + 1] = c
  BY <1>12, <1>13
<1>16. \A i \in 1 .. n : commitments'[i] = IF i = Winner THEN old(i) ELSE commitments[i]
  BY <1>12, <1>14
<1>17. QED
  BY <1>1, <1>10, <1>11, <1>15, <1>16 DEF n, c, old
-----------------------------------------------------------------------------
(* Types.                                                                  *)

\* Every transition is to the next version and a status.
LEMMA Transitioned ==
  ASSUME version \in Nat \ {0}, NEW s \in Statuses, Transition(s)
  PROVE  version' \in Nat \ {0} /\ version' = version + 1 /\ status' = s
BY DEF Transition

\* The types hold after an approval.
LEMMA TypeInit == Init => TypeOK
<1> SUFFICES ASSUME Init PROVE TypeOK
  OBVIOUS
<1>1. PICK m \in MandateTerms : mandates = <<m>>
  BY DEF Init
<1>2. m \in MandateType
  BY ConstantsAssumption
<1>3. mandates \in Seq(MandateType) /\ mandates # <<>>
  BY <1>1, <1>2
<1>4. quotes \in Seq(QuoteType) /\ commitments \in Seq(CommitmentType)
      /\ escalations \in Seq(EscalationType)
      /\ notifications \in Seq(NotificationType)
  BY DEF Init
<1>5. /\ version \in Nat \ {0} /\ status \in Statuses
      /\ audits \in Nat /\ now \in Nat
  BY DEF Init, Statuses
<1>6. /\ sessions \subseteq Calls /\ preContact \in BOOLEAN
      /\ reservations \subseteq ReservationType
  BY DEF Init
<1>7. documents \subseteq DocumentKinds \X (Nat \ {0})
  BY Zenon DEF Init
<1>8. QED
  BY <1>3, <1>4, <1>5, <1>6, <1>7 DEF TypeOK

\* Every step keeps the types.
LEMMA TypeStep == TypeOK /\ [Next]_vars => TypeOK'
<1> SUFFICES ASSUME TypeOK, [Next]_vars PROVE TypeOK'
  OBVIOUS
<1> USE DEF TypeOK
<1>0. /\ Len(mandates) \in Nat \ {0}
      /\ Winner \in 0 .. Len(commitments)
      /\ Winner # 0 => Winner \in DOMAIN commitments
      /\ Len(commitments) \in Nat /\ DOMAIN commitments = 1 .. Len(commitments)
      /\ Len(quotes) \in Nat /\ DOMAIN quotes = 1 .. Len(quotes)
  BY MandateInForce, WinnerFound, LenProperties
<1>1. ASSUME NEW selected \in SUBSET Calls, StartNegotiation(selected) PROVE TypeOK'
  <2>1. version' \in Nat \ {0} /\ status' \in Statuses
    BY <1>1, Transitioned DEF StartNegotiation, Statuses
  <2>2. QED
    BY <1>1, <2>1 DEF StartNegotiation
<1>2. ASSUME NEW call \in Calls, NEW terms \in Terms, NEW until \in 0 .. MaxNow + 1,
             RecordQuote(call, terms, until)
      PROVE  TypeOK'
  <2>1. version' \in Nat \ {0} /\ status' \in Statuses
    BY <1>2, Transitioned DEF RecordQuote
  <2>2. [call |-> call, terms |-> terms, mandate |-> Len(mandates),
         eligible |-> InsideMandate(terms), until |-> until] \in QuoteType
    <3>1. InsideMandate(terms) \in BOOLEAN
      BY DEF InsideMandate, Within
    <3>2. until \in Nat
      BY ConstantsAssumption
    <3>3. QED
      BY <1>0, <3>1, <3>2 DEF QuoteType
  <2>3. quotes' \in Seq(QuoteType)
    BY <1>2, <2>2, AppendProperties DEF RecordQuote
  <2>4. QED
    BY <1>2, <2>1, <2>3 DEF RecordQuote
<1>3. ASSUME NEW call \in Calls, AttachEvidence(call) PROVE TypeOK'
  <2>1. reservations' \subseteq ReservationType
    BY <1>0, <1>3 DEF AttachEvidence, ReservationType
  <2>2. QED
    BY <1>3, <2>1 DEF AttachEvidence
<1>4. ASSUME NEW q \in DOMAIN quotes, CreateCommitment(q) PROVE TypeOK'
  <2>1. version' \in Nat \ {0} /\ status' \in Statuses
    BY <1>4, Transitioned DEF CreateCommitment, Committable, Consume, Statuses
  <2>2. quotes[q] \in QuoteType
    BY <1>0, ElementOfSeq
  <2>3. commitments' \in Seq(CommitmentType)
    <3>1. quotes[q].call \in Calls /\ quotes[q].terms \in Terms /\ q \in Nat \ {0}
      BY <1>0, <2>2 DEF QuoteType
    <3>2. Activate(quotes[q].call, q, quotes[q].terms)
      BY <1>4 DEF CreateCommitment, Committable, Consume
    <3>3. QED
      BY <3>1, <3>2, Activated
  <2>4. reservations' \subseteq ReservationType
    <3>1. PICK r \in OpenReservations(q) :
            reservations' = (reservations \ {r}) \cup
              {[r EXCEPT !.consumedBy = Len(commitments) + 1]}
      BY <1>4 DEF CreateCommitment, Committable, Consume
    <3>2. r \in ReservationType
      BY DEF OpenReservations
    <3>3. QED
      BY <1>0, <3>1, <3>2 DEF ReservationType
  <2>5. audits' \in Nat
    BY <1>4 DEF CreateCommitment, Committable, Consume
  <2>6. QED
    BY <1>4, <2>1, <2>3, <2>4, <2>5 DEF CreateCommitment, Committable, Consume
<1>5. ASSUME NEW i \in DOMAIN commitments, NEW terms \in Terms,
             RecoverInsideMandate(i, terms)
      PROVE  TypeOK'
  <2>1. version' \in Nat \ {0} /\ status' \in Statuses
    BY <1>5, Transitioned DEF RecoverInsideMandate, Statuses
  <2>2. commitments[i].call \in Calls /\ now + RecoveryValidity \in Nat
    <3>1. commitments[i] \in CommitmentType
      BY <1>0, ElementOfSeq
    <3>2. commitments[i].call \in Calls
      BY <3>1 DEF CommitmentType
    <3>3. now + RecoveryValidity \in Nat
      BY <1>0, ConstantsAssumption
    <3>4. QED
      BY <3>2, <3>3
  <2>3. quotes' \in Seq(QuoteType)
    <3>1. [call |-> commitments[i].call, terms |-> terms, mandate |-> Len(mandates),
           eligible |-> TRUE, until |-> now + RecoveryValidity] \in QuoteType
      BY <1>0, <2>2 DEF QuoteType
    <3>2. QED
      BY <1>5, <3>1, AppendProperties DEF RecoverInsideMandate
  <2>4. commitments' \in Seq(CommitmentType)
    <3>1. Len(quotes) + 1 \in Nat \ {0}
      BY <1>0
    <3>2. Activate(commitments[i].call, Len(quotes) + 1, terms)
      BY <1>5 DEF RecoverInsideMandate
    <3>3. QED
      BY <2>2, <3>1, <3>2, Activated
  <2>5. notifications' \in Seq(NotificationType)
    <3>1. [commitment |-> Len(commitments) + 1, by |-> NoOne] \in NotificationType
      BY <1>0 DEF NotificationType
    <3>2. QED
      BY <1>5, <3>1, AppendProperties DEF RecoverInsideMandate, Notify
  <2>6. QED
    BY <1>5, <2>1, <2>3, <2>4, <2>5 DEF RecoverInsideMandate
<1>6. ASSUME NEW i \in DOMAIN commitments, NEW terms \in Terms,
             RecoverOutsideMandate(i, terms)
      PROVE  TypeOK'
  <2>1. version' \in Nat \ {0} /\ status' \in Statuses
    BY <1>6, Transitioned DEF RecoverOutsideMandate, Statuses
  <2>2. [commitment |-> i, mandate |-> Len(mandates), resolved |-> FALSE]
          \in EscalationType
    BY <1>0 DEF EscalationType
  <2>3. escalations' \in Seq(EscalationType)
    BY <1>6, <2>2, AppendProperties DEF RecoverOutsideMandate
  <2>4. QED
    BY <1>6, <2>1, <2>3 DEF RecoverOutsideMandate
<1>7. ASSUME NEW call \in Calls, CreateEscalation(call) PROVE TypeOK'
  <2>1. version' \in Nat \ {0} /\ status' \in Statuses
    BY <1>7, Transitioned DEF CreateEscalation, Statuses
  <2>2. \A c \in Nat :
          [commitment |-> c, mandate |-> Len(mandates), resolved |-> FALSE]
            \in EscalationType
    BY <1>0 DEF EscalationType
  <2> DEFINE c == IF Winner # 0 /\ commitments[Winner].call = call THEN Winner ELSE 0
  <2>3. /\ c \in Nat
        /\ escalations' = Append(escalations,
             [commitment |-> c, mandate |-> Len(mandates), resolved |-> FALSE])
    BY <1>0, <1>7 DEF CreateEscalation
  <2> HIDE DEF c
  <2>4. escalations' \in Seq(EscalationType)
    BY <2>2, <2>3, AppendProperties
  <2>5. QED
    BY <1>7, <2>1, <2>4 DEF CreateEscalation
<1>8. ASSUME NEW e \in DOMAIN escalations, NEW m \in MandateTerms, ReplaceMandate(e, m)
      PROVE  TypeOK'
  <2>1. version' \in Nat \ {0} /\ status' \in Statuses
    BY <1>8, Transitioned DEF ReplaceMandate, ResumedStatus, Statuses
  <2>2. mandates' \in Seq(MandateType) /\ mandates' # <<>>
    <3>1. m \in MandateType
      BY ConstantsAssumption
    <3>2. QED
      BY <1>8, <3>1, AppendProperties DEF ReplaceMandate, Approved
  <2>3. escalations' \in Seq(EscalationType)
    <3>1. e \in 1 .. Len(escalations) /\ escalations[e] \in EscalationType
      BY LenProperties, ElementOfSeq
    <3>2. [escalations[e] EXCEPT !.resolved = TRUE] \in EscalationType
      BY <3>1 DEF EscalationType
    <3>3. escalations' = [escalations EXCEPT ![e] = [escalations[e] EXCEPT !.resolved = TRUE]]
      BY <1>8 DEF ReplaceMandate
    <3>4. QED
      BY <3>1, <3>2, <3>3, ExceptSeq
  <2>4. QED
    BY <1>8, <2>1, <2>2, <2>3 DEF ReplaceMandate
<1>9. ASSUME NEW n \in DOMAIN notifications, NEW k \in Coordinators,
             AcknowledgeNotification(n, k)
      PROVE  TypeOK'
  <2>1. version' \in Nat \ {0} /\ status' \in Statuses
    BY <1>9, Transitioned DEF AcknowledgeNotification
  <2>2. notifications' \in Seq(NotificationType)
    <3>1. n \in 1 .. Len(notifications) /\ notifications[n] \in NotificationType
      BY LenProperties, ElementOfSeq
    <3>2. [notifications[n] EXCEPT !.by = k] \in NotificationType
      BY <3>1 DEF NotificationType
    <3>3. notifications' = [notifications EXCEPT ![n] = [notifications[n] EXCEPT !.by = k]]
      BY <1>9 DEF AcknowledgeNotification
    <3>4. QED
      BY <3>1, <3>2, <3>3, ExceptSeq
  <2>3. QED
    BY <1>9, <2>1, <2>2 DEF AcknowledgeNotification
<1>10. ASSUME NEW kind \in DocumentKinds, NEW i \in DOMAIN commitments,
              GenerateDocument(kind, i)
       PROVE  TypeOK'
  BY <1>0, <1>10 DEF GenerateDocument
<1>11. ASSUME Tick PROVE TypeOK'
  BY <1>11 DEF Tick
<1>12. ASSUME UNCHANGED vars PROVE TypeOK'
  BY <1>12 DEF vars
<1>13. QED
  BY <1>1, <1>2, <1>3, <1>4, <1>5, <1>6, <1>7, <1>8, <1>9, <1>10, <1>11, <1>12
  DEF Next

\* Type correctness: the rows keep their types whatever the services do.
THEOREM TypeInvariant == Spec => []TypeOK
BY TypeInit, TypeStep, PTL DEF Spec
-----------------------------------------------------------------------------
(* The chain of commitments.                                               *)

\* The winner of a chain is its newest commitment.
LEMMA ChainWinner ==
  ASSUME commitments \in Seq(CommitmentType), OneWinnerChain
  PROVE  Winner = Len(commitments)
<1>1. DOMAIN commitments = 1 .. Len(commitments) /\ Len(commitments) \in Nat
  BY LenProperties
<1>2. \A i \in 1 .. Len(commitments) : commitments[i].active <=> i = Len(commitments)
  BY <1>1 DEF OneWinnerChain
<1>3. CASE Winner = 0
  <2>1. ~(Len(commitments) \in 1 .. Len(commitments))
    BY <1>1, <1>2, <1>3, WinnerFound
  <2>2. QED
    BY <1>1, <1>3, <2>1
<1>4. CASE Winner # 0
  <2>1. Winner \in 1 .. Len(commitments) /\ commitments[Winner].active
    BY <1>1, <1>4, WinnerFound
  <2>2. QED
    BY <1>2, <2>1
<1>5. QED
  BY <1>3, <1>4

\* Once a commitment was activated there is a winner among the commitments.
LEMMA ActivatedWinner ==
  ASSUME TypeOK, NEW call \in Calls, NEW quote \in Nat \ {0}, NEW terms \in Terms,
         Activate(call, quote, terms)
  PROVE  Winner' # 0 /\ Winner' \in DOMAIN commitments' /\ commitments'[Winner'].active
<1>1. /\ commitments \in Seq(CommitmentType) /\ Len(commitments) \in Nat
      /\ mandates \in Seq(MandateType) /\ mandates # <<>>
  BY LenProperties DEF TypeOK
<1>2. /\ DOMAIN commitments' = 1 .. Len(commitments) + 1
      /\ commitments'[Len(commitments) + 1] =
           [call |-> call, quote |-> quote, terms |-> terms,
            mandate |-> Len(mandates), active |-> TRUE,
            replaces |-> Winner, replacedBy |-> 0]
  BY <1>1, Activated
<1>3. commitments'[Len(commitments) + 1].active
  BY <1>2
<1>4. Len(commitments) + 1 \in DOMAIN commitments'
  BY <1>1, <1>2
<1>5. Winner' \in DOMAIN commitments' /\ commitments'[Winner'].active
  BY <1>3, <1>4, Zenon DEF Winner
<1>6. QED
  BY <1>1, <1>2, <1>5

\* An activation extends a chain by a link.
LEMMA ChainActivated ==
  ASSUME TypeOK, OneWinnerChain,
         NEW call \in Calls, NEW quote \in Nat \ {0}, NEW terms \in Terms,
         Activate(call, quote, terms)
  PROVE  OneWinnerChain'
<1> DEFINE n == Len(commitments)
<1>1. /\ commitments \in Seq(CommitmentType)
      /\ mandates \in Seq(MandateType) /\ mandates # <<>>
  BY DEF TypeOK
<1>2. n \in Nat /\ Winner = n
  BY <1>1, ChainWinner, LenProperties
<1>3. /\ Len(commitments') = n + 1
      /\ DOMAIN commitments' = 1 .. n + 1
      /\ DOMAIN commitments = 1 .. n
      /\ commitments'[n + 1] =
           [call |-> call, quote |-> quote, terms |-> terms,
            mandate |-> Len(mandates), active |-> TRUE,
            replaces |-> Winner, replacedBy |-> 0]
  BY <1>1, Activated
<1>4. \A i \in 1 .. n :
        commitments'[i] =
          IF i = Winner
          THEN [commitments[i] EXCEPT !.active = FALSE, !.replacedBy = n + 1]
          ELSE commitments[i]
  BY <1>1, Activated
<1>5. /\ DOMAIN commitments' = 1 .. n + 1
      /\ DOMAIN commitments = 1 .. n
      /\ commitments'[n + 1].active
      /\ commitments'[n + 1].replaces = n
      /\ commitments'[n + 1].replacedBy = 0
  BY <1>2, <1>3
<1> HIDE DEF n
<1>6. ASSUME NEW i \in 1 .. n, i # n
      PROVE  /\ ~commitments'[i].active
             /\ commitments'[i].replaces = i - 1
             /\ commitments'[i].replacedBy = i + 1
  <2>1. commitments'[i] = commitments[i]
    BY <1>2, <1>6, <1>4
  <2>2. /\ commitments[i].active <=> i = n
        /\ commitments[i].replaces = i - 1
        /\ commitments[i].replacedBy = IF i = n THEN 0 ELSE i + 1
    BY <1>5, <1>6, Zenon DEF OneWinnerChain, n
  <2>3. QED
    BY <1>6, <2>1, <2>2
<1>7. ASSUME n # 0
      PROVE  /\ ~commitments'[n].active
             /\ commitments'[n].replaces = n - 1
             /\ commitments'[n].replacedBy = n + 1
  <2>1. n \in 1 .. n
    BY <1>2, <1>7
  <2>2. commitments[n] \in CommitmentType /\ commitments[n].replaces = n - 1
    BY <1>1, <1>5, <2>1, ElementOfSeq DEF OneWinnerChain, n
  <2>3. commitments'[n] = [commitments[n] EXCEPT !.active = FALSE, !.replacedBy = n + 1]
    BY <1>2, <2>1, <1>4
  <2>4. QED
    BY <2>2, <2>3 DEF CommitmentType
<1>8. ASSUME NEW i \in 1 .. n + 1
      PROVE  /\ commitments'[i].active <=> i = n + 1
             /\ commitments'[i].replaces = i - 1
             /\ commitments'[i].replacedBy = IF i = n + 1 THEN 0 ELSE i + 1
  <2>1. i = n + 1 \/ (i = n /\ n # 0) \/ (i \in 1 .. n /\ i # n)
    BY <1>2
  <2>2. CASE i = n + 1
    BY <1>2, <1>5, <2>2
  <2>3. CASE i = n /\ n # 0
    BY <1>2, <1>7, <2>3
  <2>4. CASE i \in 1 .. n /\ i # n
    BY <1>2, <1>6, <2>4
  <2>5. QED
    BY <2>1, <2>2, <2>3, <2>4
<1>9. Len(commitments') = n + 1
  BY <1>3
<1>10. QED
  BY <1>5, <1>8, <1>9 DEF OneWinnerChain

\* The two mutations that agree terms activate a commitment; no other step
\* touches the commitments.
LEMMA OnlyTwoAgree ==
  ASSUME TypeOK, [Next]_vars
  PROVE  \/ UNCHANGED commitments
         \/ \E call \in Calls, quote \in Nat \ {0}, terms \in Terms :
              Activate(call, quote, terms)
<1>1. ASSUME NEW q \in DOMAIN quotes, CreateCommitment(q)
      PROVE  \E call \in Calls, quote \in Nat \ {0}, terms \in Terms :
               Activate(call, quote, terms)
  <2>1. q \in Nat \ {0} /\ quotes[q] \in QuoteType
    BY LenProperties, ElementOfSeq DEF TypeOK
  <2>2. quotes[q].call \in Calls /\ quotes[q].terms \in Terms
    BY <2>1 DEF QuoteType
  <2>3. QED
    BY <1>1, <2>1, <2>2 DEF CreateCommitment, Committable, Consume
<1>2. ASSUME NEW i \in DOMAIN commitments, NEW terms \in Terms,
             RecoverInsideMandate(i, terms)
      PROVE  \E call \in Calls, quote \in Nat \ {0}, t \in Terms :
               Activate(call, quote, t)
  <2>1. commitments[i].call \in Calls
    <3>1. commitments[i] \in CommitmentType
      BY LenProperties, ElementOfSeq DEF TypeOK
    <3>2. QED
      BY <3>1 DEF CommitmentType
  <2>2. Len(quotes) + 1 \in Nat \ {0}
    BY LenProperties DEF TypeOK
  <2>3. QED
    BY <1>2, <2>1, <2>2 DEF RecoverInsideMandate
<1>3. QED
  BY <1>1, <1>2 DEF Next, vars, StartNegotiation, RecordQuote, AttachEvidence,
     RecoverOutsideMandate, CreateEscalation, ReplaceMandate,
     AcknowledgeNotification, GenerateDocument, Tick

\* Whatever its two mutations do, an operation has one winner and one history.
THEOREM ChainInvariant == Spec => []OneWinnerChain
<1>1. Init => OneWinnerChain
  BY DEF Init, OneWinnerChain
<1>2. TypeOK /\ OneWinnerChain /\ [Next]_vars => OneWinnerChain'
  <2> SUFFICES ASSUME TypeOK, OneWinnerChain, [Next]_vars PROVE OneWinnerChain'
    OBVIOUS
  <2>1. CASE UNCHANGED commitments
    BY <2>1 DEF OneWinnerChain
  <2>2. QED
    BY <2>1, OnlyTwoAgree, ChainActivated
<1>3. QED
  BY <1>1, <1>2, TypeInvariant, PTL DEF Spec
-----------------------------------------------------------------------------
(* The status and the rows it summarises.                                  *)

\* Escalating an operation without an open escalation opens exactly one.
LEMMA Escalated ==
  ASSUME escalations \in Seq(EscalationType), Unresolved = {},
         NEW x \in EscalationType, ~x.resolved,
         escalations' = Append(escalations, x)
  PROVE  Unresolved' = {Len(escalations) + 1} /\ escalations' # <<>>
<1> DEFINE n == Len(escalations)
<1>1. n \in Nat /\ DOMAIN escalations = 1 .. n
  BY LenProperties
<1>2. /\ Len(escalations') = n + 1
      /\ escalations' \in Seq(EscalationType)
      /\ \A i \in 1 .. n : escalations'[i] = escalations[i]
      /\ escalations'[n + 1] = x
  BY AppendProperties
<1>3. DOMAIN escalations' = 1 .. n + 1
  BY <1>1, <1>2, LenProperties
<1>4. \A i \in 1 .. n : escalations[i].resolved
  BY <1>1 DEF Unresolved
<1>5. \A i \in 1 .. n + 1 : ~escalations'[i].resolved <=> i = n + 1
  BY <1>1, <1>2, <1>4
<1>6. n + 1 \in 1 .. n + 1
  BY <1>1
<1>7. QED
  BY <1>1, <1>2, <1>3, <1>5, <1>6 DEF Unresolved

\* Resolving the one open escalation leaves none open.
LEMMA Resolved ==
  ASSUME escalations \in Seq(EscalationType), NEW e \in DOMAIN escalations,
         \A d \in Unresolved : d = e,
         escalations' = [escalations EXCEPT ![e].resolved = TRUE]
  PROVE  Unresolved' = {} /\ DOMAIN escalations' = DOMAIN escalations
<1>1. escalations[e] \in EscalationType
  BY LenProperties, ElementOfSeq
<1>2. escalations'[e].resolved
  BY <1>1 DEF EscalationType
<1>3. DOMAIN escalations' = DOMAIN escalations
  OBVIOUS
<1>4. \A d \in DOMAIN escalations : d # e => escalations'[d] = escalations[d]
  OBVIOUS
<1>5. QED
  BY <1>2, <1>3, <1>4 DEF Unresolved

\* The status agrees with the rows after every step.
LEMMA StatusStep ==
  TypeOK /\ StatusReflectsRows /\ [Next]_vars => StatusReflectsRows'
<1> SUFFICES ASSUME TypeOK, StatusReflectsRows, [Next]_vars
             PROVE  StatusReflectsRows'
  OBVIOUS
<1>1. ASSUME UNCHANGED commitments PROVE Winner' = Winner
  BY <1>1 DEF Winner
<1>2. ASSUME UNCHANGED escalations PROVE Unresolved' = Unresolved
  BY <1>2 DEF Unresolved
<1>3. ASSUME NEW selected \in SUBSET Calls, StartNegotiation(selected)
      PROVE  StatusReflectsRows'
  <2>1. Winner' = Winner /\ Unresolved' = Unresolved
    BY <1>1, <1>2, <1>3 DEF StartNegotiation
  <2>2. Winner = 0 /\ Unresolved = {}
    BY <1>3 DEF StartNegotiation, StatusReflectsRows, Winner, Unresolved
  <2>3. QED
    BY <1>3, <2>1, <2>2 DEF StartNegotiation, StatusReflectsRows, Transition
<1>4. ASSUME UNCHANGED <<status, sessions, preContact, commitments, escalations>>
      PROVE  StatusReflectsRows'
  <2>1. Winner' = Winner /\ Unresolved' = Unresolved
    BY <1>1, <1>2, <1>4
  <2>2. QED
    BY <1>4, <2>1 DEF StatusReflectsRows
<1>5. ASSUME NEW q \in DOMAIN quotes, CreateCommitment(q) PROVE StatusReflectsRows'
  <2>1. q \in Nat \ {0} /\ quotes[q] \in QuoteType
    BY LenProperties, ElementOfSeq DEF TypeOK
  <2>2. /\ quotes[q].call \in Calls /\ quotes[q].terms \in Terms
        /\ Activate(quotes[q].call, q, quotes[q].terms)
    BY <1>5, <2>1 DEF QuoteType, CreateCommitment, Committable, Consume
  <2>3. Winner' # 0
    BY <2>1, <2>2, ActivatedWinner
  <2>4. Unresolved' = Unresolved /\ UNCHANGED <<sessions, preContact, escalations>>
    BY <1>2, <1>5 DEF CreateCommitment, Committable, Consume
  <2>5. ~preContact /\ Unresolved = {} /\ sessions # {}
    BY <1>5 DEF CreateCommitment, Committable, Consume, Negotiable, StatusReflectsRows
  <2>6. status' = "COMMITTED"
    BY <1>5 DEF CreateCommitment, Committable, Consume, Transition
  <2>7. QED
    BY <2>3, <2>4, <2>5, <2>6 DEF StatusReflectsRows
<1>6. ASSUME NEW i \in DOMAIN commitments, NEW terms \in Terms,
             RecoverInsideMandate(i, terms)
      PROVE  StatusReflectsRows'
  <2>1. commitments[i].call \in Calls
    <3>1. commitments[i] \in CommitmentType
      BY LenProperties, ElementOfSeq DEF TypeOK
    <3>2. QED
      BY <3>1 DEF CommitmentType
  <2>2. Len(quotes) + 1 \in Nat \ {0}
    BY LenProperties DEF TypeOK
  <2>3. Winner' # 0
    BY <1>6, <2>1, <2>2, ActivatedWinner DEF RecoverInsideMandate
  <2>4. /\ Unresolved' = Unresolved /\ Unresolved = {}
        /\ UNCHANGED <<sessions, preContact, escalations>>
    BY <1>2, <1>6 DEF RecoverInsideMandate
  <2>5. sessions # {} /\ ~preContact
    BY DEF StatusReflectsRows
  <2>6. status' = "COMMITTED"
    BY <1>6 DEF RecoverInsideMandate, Transition
  <2>7. QED
    BY <2>3, <2>4, <2>5, <2>6 DEF StatusReflectsRows
<1>7. ASSUME NEW x \in EscalationType, ~x.resolved, Unresolved = {}, sessions # {},
             escalations' = Append(escalations, x), status' = "ESCALATED",
             UNCHANGED <<sessions, preContact, commitments>>
      PROVE  StatusReflectsRows'
  <2>1. Unresolved' = {Len(escalations) + 1}
    BY <1>7, Escalated DEF TypeOK
  <2>2. QED
    BY <1>1, <1>7, <2>1 DEF StatusReflectsRows
<1>8. ASSUME NEW i \in DOMAIN commitments, NEW terms \in Terms,
             RecoverOutsideMandate(i, terms)
      PROVE  StatusReflectsRows'
  <2>1. [commitment |-> i, mandate |-> Len(mandates), resolved |-> FALSE]
          \in EscalationType
    BY LenProperties, MandateInForce DEF TypeOK, EscalationType
  <2>2. sessions # {}
    BY DEF StatusReflectsRows
  <2>3. QED
    BY <1>7, <1>8, <2>1, <2>2 DEF RecoverOutsideMandate, Transition
<1>9. ASSUME NEW call \in Calls, CreateEscalation(call) PROVE StatusReflectsRows'
  <2> DEFINE c == IF Winner # 0 /\ commitments[Winner].call = call THEN Winner ELSE 0
             x == [commitment |-> c, mandate |-> Len(mandates), resolved |-> FALSE]
  <2>1. c \in Nat
    BY WinnerFound, LenProperties DEF TypeOK
  <2>2. escalations' = Append(escalations, x)
    BY <1>9 DEF CreateEscalation
  <2> HIDE DEF c
  <2>3. x \in EscalationType /\ ~x.resolved
    BY <2>1, MandateInForce DEF TypeOK, EscalationType
  <2> HIDE DEF x
  <2>4. QED
    BY <1>7, <1>9, <2>2, <2>3 DEF CreateEscalation, Transition
<1>10. ASSUME NEW e \in DOMAIN escalations, NEW m \in MandateTerms, ReplaceMandate(e, m)
       PROVE  StatusReflectsRows'
  <2>1. e \in Unresolved /\ \A d \in Unresolved : d = e
    BY <1>10 DEF ReplaceMandate, Unresolved, StatusReflectsRows
  <2>2. Unresolved' = {}
    BY <1>10, <2>1, Resolved DEF ReplaceMandate, TypeOK
  <2>3. Winner' = Winner /\ UNCHANGED <<sessions, preContact, commitments>>
    BY <1>1, <1>10 DEF ReplaceMandate
  <2>4. sessions # {} /\ ~preContact
    BY DEF StatusReflectsRows
  <2>5. status' = IF Winner # 0 THEN "COMMITTED" ELSE "NEGOTIATING"
    BY <1>10 DEF ReplaceMandate, Transition, ResumedStatus
  <2>6. QED
    BY <2>2, <2>3, <2>4, <2>5 DEF StatusReflectsRows
<1>11. QED
  <2>1. CASE \E call \in Calls, terms \in Terms, until \in 0 .. MaxNow + 1 :
               RecordQuote(call, terms, until)
    BY <1>4, <2>1 DEF RecordQuote, Transition
  <2>2. CASE \E call \in Calls : AttachEvidence(call)
    BY <1>4, <2>2 DEF AttachEvidence
  <2>3. CASE \E n \in DOMAIN notifications, k \in Coordinators :
               AcknowledgeNotification(n, k)
    BY <1>4, <2>3 DEF AcknowledgeNotification, Transition
  <2>4. CASE \E kind \in DocumentKinds, i \in DOMAIN commitments :
               GenerateDocument(kind, i)
    BY <1>4, <2>4 DEF GenerateDocument
  <2>5. CASE Tick \/ UNCHANGED vars
    BY <1>4, <2>5 DEF Tick, vars
  <2>6. QED
    BY <1>3, <1>5, <1>6, <1>8, <1>9, <1>10, <2>1, <2>2, <2>3, <2>4, <2>5 DEF Next

\* The status every screen shows is the status of the rows.
THEOREM StatusInvariant == Spec => []StatusReflectsRows
<1>1. Init => StatusReflectsRows
  BY DEF Init, StatusReflectsRows, Winner, Unresolved
<1>2. QED
  BY <1>1, StatusStep, TypeInvariant, PTL DEF Spec

\* While an operation is escalated nothing is quoted or agreed.
THEOREM EscalationFreezes == Spec => EscalationFreezesAgreement
<1>1. TypeOK /\ StatusReflectsRows /\ [Next]_vars
        => (status = "ESCALATED" => UNCHANGED <<quotes, commitments>>)
  <2> SUFFICES ASSUME TypeOK, StatusReflectsRows, [Next]_vars, status = "ESCALATED"
               PROVE  UNCHANGED <<quotes, commitments>>
    OBVIOUS
  <2>1. ~Negotiable
    BY DEF Negotiable
  <2>2. preContact \/ Unresolved # {}
    BY DEF StatusReflectsRows
  <2>3. ASSUME NEW i \in DOMAIN commitments, NEW terms \in Terms,
               RecoverInsideMandate(i, terms)
        PROVE  FALSE
    BY <2>2, <2>3 DEF RecoverInsideMandate, StatusReflectsRows
  <2>4. QED
    BY <2>1, <2>3 DEF Next, vars, StartNegotiation, RecordQuote, AttachEvidence,
       CreateCommitment, Committable, Consume, RecoverOutsideMandate, CreateEscalation, ReplaceMandate,
       AcknowledgeNotification, GenerateDocument, Tick
<1>2. QED
  BY <1>1, TypeInvariant, StatusInvariant, PTL DEF Spec, EscalationFreezesAgreement
-----------------------------------------------------------------------------
(* Terms and mandates.                                                     *)

\* What is inside a mandate stays so: a later approval appends a version.
LEMMA MandatesGrow ==
  ASSUME TypeOK, [Next]_vars
  PROVE  \A k \in DOMAIN mandates : k \in DOMAIN mandates' /\ mandates'[k] = mandates[k]
<1>1. ASSUME NEW e \in DOMAIN escalations, NEW m \in MandateTerms, ReplaceMandate(e, m)
      PROVE  \A k \in DOMAIN mandates :
               k \in DOMAIN mandates' /\ mandates'[k] = mandates[k]
  <2>1. m \in MandateType /\ mandates \in Seq(MandateType)
    BY ConstantsAssumption DEF TypeOK
  <2>2. mandates' = Append(mandates, m)
    BY <1>1 DEF ReplaceMandate, Approved
  <2>3. /\ mandates' \in Seq(MandateType)
        /\ Len(mandates') = Len(mandates) + 1
        /\ \A k \in 1 .. Len(mandates) : mandates'[k] = mandates[k]
    BY <2>1, <2>2, AppendProperties
  <2>4. /\ DOMAIN mandates = 1 .. Len(mandates)
        /\ DOMAIN mandates' = 1 .. Len(mandates) + 1
        /\ Len(mandates) \in Nat
    BY <2>1, <2>3, LenProperties
  <2>5. QED
    BY <2>3, <2>4
<1>2. QED
  BY <1>1 DEF Next, vars, StartNegotiation, RecordQuote, AttachEvidence,
     CreateCommitment, Committable, Consume, RecoverInsideMandate, RecoverOutsideMandate,
     CreateEscalation, AcknowledgeNotification, GenerateDocument, Tick

\* A commitment made from terms inside the mandate in force keeps the old ones
\* inside theirs.
LEMMA ActivatedInside ==
  ASSUME TypeOK, TermsInsideMandate, UNCHANGED mandates,
         NEW call \in Calls, NEW quote \in Nat \ {0}, NEW terms \in Terms,
         InsideMandate(terms), Activate(call, quote, terms)
  PROVE  \A i \in DOMAIN commitments' :
           /\ commitments'[i].mandate \in DOMAIN mandates'
           /\ Within(mandates'[commitments'[i].mandate], commitments'[i].terms)
<1> DEFINE n == Len(commitments)
<1>1. /\ commitments \in Seq(CommitmentType) /\ n \in Nat
      /\ mandates \in Seq(MandateType) /\ mandates # <<>>
  BY LenProperties DEF TypeOK
<1>2. /\ DOMAIN commitments' = 1 .. n + 1
      /\ DOMAIN commitments = 1 .. n
      /\ commitments'[n + 1] =
           [call |-> call, quote |-> quote, terms |-> terms,
            mandate |-> Len(mandates), active |-> TRUE,
            replaces |-> Winner, replacedBy |-> 0]
  BY <1>1, Activated
<1>3. \A i \in 1 .. n :
        commitments'[i] =
          IF i = Winner
          THEN [commitments[i] EXCEPT !.active = FALSE, !.replacedBy = n + 1]
          ELSE commitments[i]
  BY <1>1, Activated
<1>4. /\ commitments'[n + 1].mandate \in DOMAIN mandates
      /\ Within(mandates[commitments'[n + 1].mandate], commitments'[n + 1].terms)
  <2>1. /\ commitments'[n + 1].mandate = Len(mandates)
        /\ commitments'[n + 1].terms = terms
    BY <1>2
  <2>2. /\ Len(mandates) \in DOMAIN mandates
        /\ Within(mandates[Len(mandates)], terms)
    BY <1>1, MandateInForce DEF InsideMandate
  <2>3. QED
    BY <2>1, <2>2
<1>5. ASSUME NEW i \in 1 .. n
      PROVE  /\ commitments'[i].mandate \in DOMAIN mandates
             /\ Within(mandates[commitments'[i].mandate], commitments'[i].terms)
  <2>1. commitments[i] \in CommitmentType
    BY <1>1, ElementOfSeq
  <2>2. /\ commitments'[i].mandate = commitments[i].mandate
        /\ commitments'[i].terms = commitments[i].terms
    BY <1>3, <2>1 DEF CommitmentType
  <2>3. QED
    BY <1>2, <2>2 DEF TermsInsideMandate
<1>6. QED
  <2>1. DOMAIN commitments' = 1 .. n + 1
    BY <1>2
  <2>2. n \in Nat
    BY <1>1
  <2> HIDE DEF n
  <2>3. \A i \in 1 .. n + 1 : i \in 1 .. n \/ i = n + 1
    BY <2>2
  <2>4. QED
    BY <1>4, <1>5, <2>1, <2>3, Zenon

\* Whatever was quoted as eligible or agreed is inside the mandate it names.
LEMMA TermsStep ==
  TypeOK /\ TermsInsideMandate /\ [Next]_vars => TermsInsideMandate'
<1> SUFFICES ASSUME TypeOK, TermsInsideMandate, [Next]_vars PROVE TermsInsideMandate'
  OBVIOUS
<1>1. \A k \in DOMAIN mandates : k \in DOMAIN mandates' /\ mandates'[k] = mandates[k]
  BY MandatesGrow
<1>2. ASSUME UNCHANGED quotes
      PROVE  \A q \in DOMAIN quotes' :
               quotes'[q].eligible =>
                 /\ quotes'[q].mandate \in DOMAIN mandates'
                 /\ Within(mandates'[quotes'[q].mandate], quotes'[q].terms)
  BY <1>1, <1>2 DEF TermsInsideMandate
<1>3. ASSUME UNCHANGED commitments
      PROVE  \A i \in DOMAIN commitments' :
               /\ commitments'[i].mandate \in DOMAIN mandates'
               /\ Within(mandates'[commitments'[i].mandate], commitments'[i].terms)
  BY <1>1, <1>3 DEF TermsInsideMandate
<1>4. ASSUME NEW x \in QuoteType, quotes' = Append(quotes, x), UNCHANGED mandates,
             x.mandate = Len(mandates), x.eligible => InsideMandate(x.terms)
      PROVE  \A q \in DOMAIN quotes' :
               quotes'[q].eligible =>
                 /\ quotes'[q].mandate \in DOMAIN mandates'
                 /\ Within(mandates'[quotes'[q].mandate], quotes'[q].terms)
  <2> DEFINE n == Len(quotes)
  <2>1. /\ quotes' \in Seq(QuoteType) /\ Len(quotes') = n + 1
        /\ \A q \in 1 .. n : quotes'[q] = quotes[q]
        /\ quotes'[n + 1] = x
    BY <1>4, AppendProperties DEF TypeOK
  <2>2. /\ n \in Nat /\ DOMAIN quotes = 1 .. n /\ DOMAIN quotes' = 1 .. n + 1
    BY <2>1, LenProperties DEF TypeOK
  <2>3. x.eligible => /\ x.mandate \in DOMAIN mandates
                      /\ Within(mandates[x.mandate], x.terms)
    BY <1>4, MandateInForce DEF InsideMandate, TypeOK
  <2>4. \A q \in 1 .. n :
          quotes[q].eligible => /\ quotes[q].mandate \in DOMAIN mandates
                                /\ Within(mandates[quotes[q].mandate], quotes[q].terms)
    BY <2>2 DEF TermsInsideMandate
  <2>5. \A q \in 1 .. n + 1 : q \in 1 .. n \/ q = n + 1
    BY <2>2
  <2> HIDE DEF n
  <2>6. QED
    BY <1>4, <2>1, <2>2, <2>3, <2>4, <2>5, Zenon
<1>5. ASSUME NEW call \in Calls, NEW terms \in Terms, NEW until \in 0 .. MaxNow + 1,
             RecordQuote(call, terms, until)
      PROVE  TermsInsideMandate'
  <2> DEFINE x == [call |-> call, terms |-> terms, mandate |-> Len(mandates),
                   eligible |-> InsideMandate(terms), until |-> until]
  <2>1. x \in QuoteType
    BY ConstantsAssumption, MandateInForce DEF TypeOK, QuoteType, InsideMandate, Within
  <2>2. quotes' = Append(quotes, x) /\ UNCHANGED <<mandates, commitments>>
    BY <1>5 DEF RecordQuote
  <2>3. x.mandate = Len(mandates) /\ (x.eligible => InsideMandate(x.terms))
    OBVIOUS
  <2> HIDE DEF x
  <2>4. QED
    BY <1>3, <1>4, <2>1, <2>2, <2>3 DEF TermsInsideMandate
<1>6. ASSUME NEW q \in DOMAIN quotes, CreateCommitment(q) PROVE TermsInsideMandate'
  <2>1. q \in Nat \ {0} /\ quotes[q] \in QuoteType
    BY LenProperties, ElementOfSeq DEF TypeOK
  <2>2. quotes[q].call \in Calls /\ quotes[q].terms \in Terms
    BY <2>1 DEF QuoteType
  <2>3. InsideMandate(quotes[q].terms)
    BY <1>6, MandateInForce DEF CreateCommitment, Committable, Consume, TermsInsideMandate, InsideMandate, TypeOK
  <2>4. /\ Activate(quotes[q].call, q, quotes[q].terms)
        /\ UNCHANGED <<mandates, quotes>>
    BY <1>6 DEF CreateCommitment, Committable, Consume
  <2>5. QED
    BY <1>2, <2>1, <2>2, <2>3, <2>4, ActivatedInside DEF TermsInsideMandate
<1>7. ASSUME NEW i \in DOMAIN commitments, NEW terms \in Terms,
             RecoverInsideMandate(i, terms)
      PROVE  TermsInsideMandate'
  <2>1. commitments[i].call \in Calls
    <3>1. commitments[i] \in CommitmentType
      BY LenProperties, ElementOfSeq DEF TypeOK
    <3>2. QED
      BY <3>1 DEF CommitmentType
  <2> DEFINE x == [call |-> commitments[i].call, terms |-> terms,
                   mandate |-> Len(mandates), eligible |-> TRUE,
                   until |-> now + RecoveryValidity]
  <2>2. now + RecoveryValidity \in Nat /\ Len(quotes) + 1 \in Nat \ {0}
    BY ConstantsAssumption, LenProperties DEF TypeOK
  <2>3. x \in QuoteType
    BY <2>1, <2>2, MandateInForce DEF TypeOK, QuoteType
  <2>4. /\ quotes' = Append(quotes, x)
        /\ InsideMandate(terms)
        /\ Activate(commitments[i].call, Len(quotes) + 1, terms)
        /\ UNCHANGED mandates
    BY <1>7 DEF RecoverInsideMandate
  <2>5. x.mandate = Len(mandates) /\ x.terms = terms
    OBVIOUS
  <2> HIDE DEF x
  <2>6. QED
    BY <1>4, <2>1, <2>2, <2>3, <2>4, <2>5, ActivatedInside DEF TermsInsideMandate
<1>8. ASSUME UNCHANGED <<quotes, commitments>> PROVE TermsInsideMandate'
  BY <1>2, <1>3, <1>8 DEF TermsInsideMandate
<1>9. QED
  BY <1>5, <1>6, <1>7, <1>8 DEF Next, vars, StartNegotiation, AttachEvidence,
     RecoverOutsideMandate, CreateEscalation, ReplaceMandate,
     AcknowledgeNotification, GenerateDocument, Tick

\* No agreement was ever made outside the mandate it was made under.
THEOREM TermsInvariant == Spec => []TermsInsideMandate
<1>1. Init => TermsInsideMandate
  BY DEF Init, TermsInsideMandate
<1>2. QED
  BY <1>1, TermsStep, TypeInvariant, PTL DEF Spec
-----------------------------------------------------------------------------
(* The operation implements MandateSafeAgreement.                          *)

\* An approval starts as the promise starts.
LEMMA PromiseInit == Init => Promise!Init
<1> SUFFICES ASSUME Init PROVE Promise!Init
  OBVIOUS
<1>1. Winner = 0 /\ status = "READY" /\ ~preContact
  BY DEF Init, Winner
<1>2. agreementOf = NoOne /\ phaseOf = "ready"
  BY <1>1 DEF agreementOf, phaseOf
<1>3. mandates \in {<<m>> : m \in {x \in MandateTerms : ValidMandate(x, PickupDate)}}
  BY DEF Init
<1>4. QED
  BY <1>2, <1>3 DEF Promise!Init

\* A step that agrees terms replaces the agreement by these terms.
LEMMA AgreementReplaced ==
  ASSUME TypeOK, OneWinnerChain,
         NEW call \in Calls, NEW quote \in Nat \ {0}, NEW terms \in Terms,
         Activate(call, quote, terms)
  PROVE  agreementOf' = [terms |-> terms, mandate |-> Len(mandates)]
<1> DEFINE n == Len(commitments)
<1>1. /\ commitments \in Seq(CommitmentType) /\ n \in Nat
      /\ mandates \in Seq(MandateType) /\ mandates # <<>>
  BY LenProperties DEF TypeOK
<1>2. Winner' # 0 /\ Winner' \in DOMAIN commitments' /\ commitments'[Winner'].active
  BY ActivatedWinner
<1>3. /\ Len(commitments') = n + 1
      /\ commitments'[n + 1] =
           [call |-> call, quote |-> quote, terms |-> terms,
            mandate |-> Len(mandates), active |-> TRUE,
            replaces |-> Winner, replacedBy |-> 0]
  BY <1>1, Activated
<1>4. OneWinnerChain'
  BY ChainActivated
<1>5. Winner' = n + 1
  BY <1>2, <1>3, <1>4 DEF OneWinnerChain
<1>6. agreementOf' = [terms |-> commitments'[n + 1].terms,
                      mandate |-> commitments'[n + 1].mandate]
  BY <1>2, <1>5 DEF agreementOf
<1>7. QED
  BY <1>3, <1>6

\* Every step of the services is a step of the promise, or none.
LEMMA PromiseStep ==
  /\ TypeOK /\ OneWinnerChain /\ StatusReflectsRows /\ TermsInsideMandate
  /\ [Next]_vars
  => [Promise!Next]_(Promise!promise)
<1> SUFFICES ASSUME TypeOK, OneWinnerChain, StatusReflectsRows, TermsInsideMandate,
                    [Next]_vars
             PROVE  Promise!Next \/ UNCHANGED Promise!promise
  OBVIOUS
<1>1. ASSUME UNCHANGED commitments PROVE agreementOf' = agreementOf
  BY <1>1 DEF agreementOf, Winner
<1>2. ASSUME UNCHANGED <<status, preContact, commitments, mandates>>
      PROVE  UNCHANGED Promise!promise
  BY <1>1, <1>2 DEF phaseOf, Promise!promise
<1>3. ASSUME NEW selected \in SUBSET Calls, StartNegotiation(selected)
      PROVE  Promise!Next
  <2>1. /\ phaseOf = "ready"
        /\ phaseOf' = IF selected = {} THEN "stopped" ELSE "open"
        /\ UNCHANGED <<agreementOf, mandates>>
    BY <1>1, <1>3 DEF StartNegotiation, Transition, phaseOf
  <2>2. QED
    BY <2>1 DEF Promise!Next, Promise!Open, Promise!Stop
<1>4. ASSUME NEW call \in Calls, NEW quote \in Nat \ {0}, NEW terms \in Terms,
             Activate(call, quote, terms), InsideMandate(terms),
             phaseOf = "open", phaseOf' = "open", UNCHANGED mandates
      PROVE  Promise!Next
  <2>1. agreementOf' = [terms |-> terms, mandate |-> Len(mandates)]
    BY <1>4, AgreementReplaced
  <2>2. Promise!Agree(terms)
    BY <1>4, <2>1 DEF Promise!Agree, Promise!Within, Within, InsideMandate, ActiveMandate
  <2>3. QED
    BY <2>2 DEF Promise!Next
<1>5. ASSUME NEW q \in DOMAIN quotes, CreateCommitment(q) PROVE Promise!Next
  <2>1. q \in Nat \ {0} /\ quotes[q] \in QuoteType
    BY LenProperties, ElementOfSeq DEF TypeOK
  <2>2. quotes[q].call \in Calls /\ quotes[q].terms \in Terms
    BY <2>1 DEF QuoteType
  <2>3. InsideMandate(quotes[q].terms)
    BY <1>5, MandateInForce DEF CreateCommitment, Committable, Consume, TermsInsideMandate, InsideMandate, TypeOK
  <2>4. Activate(quotes[q].call, q, quotes[q].terms) /\ UNCHANGED mandates
    BY <1>5 DEF CreateCommitment, Committable, Consume
  <2>5. phaseOf = "open" /\ phaseOf' = "open"
    BY <1>5 DEF CreateCommitment, Committable, Consume, Negotiable, Transition, StatusReflectsRows, phaseOf
  <2>6. QED
    BY <1>4, <2>1, <2>2, <2>3, <2>4, <2>5
<1>6. ASSUME Unresolved = {}, sessions # {} PROVE phaseOf = "open"
  BY <1>6 DEF TypeOK, Statuses, StatusReflectsRows, phaseOf
<1>7. ASSUME NEW i \in DOMAIN commitments PROVE sessions # {} /\ ~preContact
  BY DEF StatusReflectsRows
<1>8. ASSUME NEW i \in DOMAIN commitments, NEW terms \in Terms,
             RecoverInsideMandate(i, terms)
      PROVE  Promise!Next
  <2>1. commitments[i].call \in Calls
    <3>1. commitments[i] \in CommitmentType
      BY LenProperties, ElementOfSeq DEF TypeOK
    <3>2. QED
      BY <3>1 DEF CommitmentType
  <2>2. Len(quotes) + 1 \in Nat \ {0}
    BY LenProperties DEF TypeOK
  <2>3. /\ Activate(commitments[i].call, Len(quotes) + 1, terms)
        /\ InsideMandate(terms) /\ UNCHANGED mandates
    BY <1>8 DEF RecoverInsideMandate
  <2>4. phaseOf = "open"
    BY <1>6, <1>7, <1>8 DEF RecoverInsideMandate
  <2>5. phaseOf' = "open"
    BY <1>7, <1>8 DEF RecoverInsideMandate, Transition, phaseOf
  <2>6. QED
    BY <1>4, <2>1, <2>2, <2>3, <2>4, <2>5
<1>9. ASSUME NEW i \in DOMAIN commitments, NEW terms \in Terms,
             RecoverOutsideMandate(i, terms)
      PROVE  Promise!Next
  <2>1. phaseOf = "open" /\ UNCHANGED <<agreementOf, mandates>>
    BY <1>1, <1>6, <1>7, <1>9 DEF RecoverOutsideMandate
  <2>2. phaseOf' = "escalated"
    BY <1>7, <1>9 DEF RecoverOutsideMandate, Transition, phaseOf
  <2>3. QED
    BY <2>1, <2>2 DEF Promise!Next, Promise!Escalate
<1>10. ASSUME NEW call \in Calls, CreateEscalation(call) PROVE Promise!Next
  <2>1. sessions # {} /\ Unresolved = {} /\ ~preContact
    BY <1>10 DEF CreateEscalation, StatusReflectsRows
  <2>2. phaseOf = "open" /\ UNCHANGED <<agreementOf, mandates>>
    BY <1>1, <1>6, <1>10, <2>1 DEF CreateEscalation
  <2>3. phaseOf' = "escalated"
    BY <1>10, <2>1 DEF CreateEscalation, Transition, phaseOf
  <2>4. QED
    BY <2>2, <2>3 DEF Promise!Next, Promise!Escalate
<1>11. ASSUME NEW e \in DOMAIN escalations, NEW m \in MandateTerms, ReplaceMandate(e, m)
       PROVE  Promise!Next
  <2>1. e \in Unresolved /\ ~preContact
    BY <1>11 DEF ReplaceMandate, Unresolved, StatusReflectsRows
  <2>2. phaseOf = "escalated"
    BY <2>1 DEF StatusReflectsRows, phaseOf
  <2>3. phaseOf' = "open"
    BY <1>11, <2>1 DEF ReplaceMandate, Transition, ResumedStatus, phaseOf
  <2>4. /\ UNCHANGED agreementOf
        /\ mandates' = Append(mandates, m)
        /\ ValidMandate(m, PickupDate)
    BY <1>1, <1>11 DEF ReplaceMandate, Approved
  <2>5. QED
    BY <2>2, <2>3, <2>4 DEF Promise!Next, Promise!Approve
<1>12. QED
  <2>1. CASE \E call \in Calls, terms \in Terms, until \in 0 .. MaxNow + 1 :
               RecordQuote(call, terms, until)
    BY <1>2, <2>1 DEF RecordQuote, Transition
  <2>2. CASE \E call \in Calls : AttachEvidence(call)
    BY <1>2, <2>2 DEF AttachEvidence
  <2>3. CASE \E n \in DOMAIN notifications, k \in Coordinators :
               AcknowledgeNotification(n, k)
    BY <1>2, <2>3 DEF AcknowledgeNotification, Transition
  <2>4. CASE \E kind \in DocumentKinds, i \in DOMAIN commitments :
               GenerateDocument(kind, i)
    BY <1>2, <2>4 DEF GenerateDocument
  <2>5. CASE Tick \/ UNCHANGED vars
    BY <1>2, <2>5 DEF Tick, vars
  <2>6. QED
    BY <1>3, <1>5, <1>8, <1>9, <1>10, <1>11, <2>1, <2>2, <2>3, <2>4, <2>5 DEF Next

\* The services keep the promise to the coordinator: at most one agreement,
\* inside the mandate in force, and none while an escalation is open.
THEOREM PromiseKept == Spec => KeepsPromise
<1>1. QED
  BY PromiseInit, PromiseStep, TypeInvariant, ChainInvariant, StatusInvariant,
     TermsInvariant, PTL DEF Spec, KeepsPromise, Promise!Spec
-----------------------------------------------------------------------------
(* Quotes, evidence and notifications of the commitments.                  *)

\* What an older commitment agreed stays, and the new one is as it was made.
LEMMA AgreedKept ==
  ASSUME TypeOK, NEW call \in Calls, NEW quote \in Nat \ {0}, NEW terms \in Terms,
         Activate(call, quote, terms)
  PROVE  /\ Len(commitments) \in Nat
         /\ DOMAIN commitments = 1 .. Len(commitments)
         /\ DOMAIN commitments' = 1 .. Len(commitments) + 1
         /\ Len(commitments') = Len(commitments) + 1
         /\ \A i \in DOMAIN commitments' :
              i \in DOMAIN commitments \/ i = Len(commitments) + 1
         /\ \A i \in DOMAIN commitments :
              /\ i \in DOMAIN commitments' /\ i # Len(commitments) + 1
              /\ commitments'[i].call = commitments[i].call
              /\ commitments'[i].quote = commitments[i].quote
              /\ commitments'[i].terms = commitments[i].terms
              /\ commitments'[i].mandate = commitments[i].mandate
         /\ LET c == commitments'[Len(commitments) + 1]
            IN /\ c.call = call /\ c.quote = quote /\ c.terms = terms
               /\ c.mandate = Len(mandates)
<1> DEFINE n == Len(commitments)
<1>1. /\ commitments \in Seq(CommitmentType) /\ n \in Nat
      /\ mandates \in Seq(MandateType) /\ mandates # <<>>
  BY LenProperties DEF TypeOK
<1>2. /\ Len(commitments') = n + 1
      /\ DOMAIN commitments' = 1 .. n + 1
      /\ DOMAIN commitments = 1 .. n
      /\ commitments'[n + 1] =
           [call |-> call, quote |-> quote, terms |-> terms,
            mandate |-> Len(mandates), active |-> TRUE,
            replaces |-> Winner, replacedBy |-> 0]
      /\ \A i \in 1 .. n :
           commitments'[i] =
             IF i = Winner
             THEN [commitments[i] EXCEPT !.active = FALSE, !.replacedBy = n + 1]
             ELSE commitments[i]
  BY <1>1, Activated
<1>3. ASSUME NEW i \in 1 .. n
      PROVE  /\ commitments'[i].call = commitments[i].call
             /\ commitments'[i].quote = commitments[i].quote
             /\ commitments'[i].terms = commitments[i].terms
             /\ commitments'[i].mandate = commitments[i].mandate
  <2>1. commitments[i] \in CommitmentType
    BY <1>1, ElementOfSeq
  <2>2. QED
    BY <1>2, <2>1 DEF CommitmentType
<1>4. /\ commitments'[n + 1].call = call /\ commitments'[n + 1].quote = quote
      /\ commitments'[n + 1].terms = terms
      /\ commitments'[n + 1].mandate = Len(mandates)
  <2> DEFINE c == [call |-> call, quote |-> quote, terms |-> terms,
                   mandate |-> Len(mandates), active |-> TRUE,
                   replaces |-> Winner, replacedBy |-> 0]
  <2>1. c.call = call /\ c.quote = quote /\ c.terms = terms /\ c.mandate = Len(mandates)
    OBVIOUS
  <2>2. commitments'[n + 1] = c
    BY <1>2
  <2>. HIDE DEF c
  <2>3. QED
    BY <2>1, <2>2
<1>5. /\ n \in Nat /\ DOMAIN commitments = 1 .. n /\ DOMAIN commitments' = 1 .. n + 1
      /\ Len(commitments') = n + 1
  BY <1>1, <1>2
<1>. HIDE DEF n
<1>6. /\ \A i \in 1 .. n + 1 : i \in 1 .. n \/ i = n + 1
      /\ \A i \in 1 .. n : i \in 1 .. n + 1 /\ i # n + 1
  BY <1>5
<1>7. QED
  BY <1>3, <1>4, <1>5, <1>6 DEF n

\* The quotes only grow: an old one stays, and a recovery appends its own.
LEMMA QuotesGrow ==
  ASSUME TypeOK, [Next]_vars
  PROVE  \A q \in DOMAIN quotes : q \in DOMAIN quotes' /\ quotes'[q] = quotes[q]
<1>1. ASSUME NEW x \in QuoteType, quotes' = Append(quotes, x)
      PROVE  \A q \in DOMAIN quotes : q \in DOMAIN quotes' /\ quotes'[q] = quotes[q]
  <2>1. /\ quotes \in Seq(QuoteType) /\ DOMAIN quotes = 1 .. Len(quotes)
        /\ Len(quotes) \in Nat
    BY LenProperties DEF TypeOK
  <2>2. /\ Len(quotes') = Len(quotes) + 1 /\ quotes' \in Seq(QuoteType)
        /\ \A q \in 1 .. Len(quotes) : quotes'[q] = quotes[q]
    BY <1>1, <2>1, AppendProperties
  <2>3. DOMAIN quotes' = 1 .. Len(quotes) + 1
    BY <2>2, LenProperties
  <2>4. QED
    BY <2>1, <2>2, <2>3
<1>2. UNCHANGED quotes \/ \E x : quotes' = Append(quotes, x)
  <2>1. ASSUME NEW call, NEW terms, NEW until, RecordQuote(call, terms, until)
        PROVE  \E x : quotes' = Append(quotes, x)
    BY <2>1 DEF RecordQuote
  <2>2. ASSUME NEW i, NEW terms, RecoverInsideMandate(i, terms)
        PROVE  \E x : quotes' = Append(quotes, x)
    BY <2>2 DEF RecoverInsideMandate
  <2>3. \/ UNCHANGED quotes
        \/ \E call, terms, until : RecordQuote(call, terms, until)
        \/ \E i, terms : RecoverInsideMandate(i, terms)
    BY DEF Next, vars, StartNegotiation, AttachEvidence,
       CreateCommitment, Committable, Consume, RecoverOutsideMandate,
       CreateEscalation, ReplaceMandate, AcknowledgeNotification, GenerateDocument, Tick
  <2>4. QED
    BY <2>1, <2>2, <2>3
<1>3. UNCHANGED quotes \/ \E x \in QuoteType : quotes' = Append(quotes, x)
  <2>1. CASE UNCHANGED quotes
    BY <2>1
  <2>2. CASE \E x : quotes' = Append(quotes, x)
    <3>1. PICK x : quotes' = Append(quotes, x)
      BY <2>2
    <3>2. quotes' \in Seq(QuoteType) /\ quotes \in Seq(QuoteType)
      BY TypeStep DEF TypeOK
    <3>3. quotes'[Len(quotes) + 1] = x /\ Len(quotes') = Len(quotes) + 1
          /\ Len(quotes) \in Nat
      BY <3>1, <3>2, LenProperties
    <3>4. x \in QuoteType
      BY <3>2, <3>3, ElementOfSeq, LenProperties
    <3>5. QED
      BY <3>1, <3>4
  <2>3. QED
    BY <1>2, <2>1, <2>2
<1>4. QED
  BY <1>1, <1>3

\* How a new commitment is made: from the selected quote nobody agreed yet, with
\* one of its open reservations, or from a quote of its own.
LEMMA HowAgreed ==
  ASSUME TypeOK, [Next]_vars
  PROVE  \/ UNCHANGED commitments
         \/ \E q \in DOMAIN quotes :
              /\ CreateCommitment(q)
              /\ quotes[q] \in QuoteType /\ quotes[q].eligible
              /\ quotes[q].mandate = Len(mandates)
              /\ QuoteUncommitted(q)
              /\ Activate(quotes[q].call, q, quotes[q].terms)
              /\ UNCHANGED notifications
         \/ \E i \in DOMAIN commitments, terms \in Terms :
              /\ RecoverInsideMandate(i, terms)
              /\ commitments[i] \in CommitmentType
              /\ Activate(commitments[i].call, Len(quotes) + 1, terms)
              /\ Notify(Len(commitments) + 1)
              /\ UNCHANGED reservations
<1>1. ASSUME NEW q \in DOMAIN quotes, CreateCommitment(q)
      PROVE  /\ quotes[q] \in QuoteType /\ quotes[q].eligible
             /\ quotes[q].mandate = Len(mandates)
             /\ QuoteUncommitted(q)
             /\ Activate(quotes[q].call, q, quotes[q].terms)
             /\ UNCHANGED notifications
  BY <1>1, LenProperties, ElementOfSeq DEF TypeOK, CreateCommitment, Committable, Consume
<1>2. ASSUME NEW i \in DOMAIN commitments, NEW terms \in Terms,
             RecoverInsideMandate(i, terms)
      PROVE  /\ commitments[i] \in CommitmentType
             /\ Activate(commitments[i].call, Len(quotes) + 1, terms)
             /\ Notify(Len(commitments) + 1)
             /\ UNCHANGED reservations
  BY <1>2, LenProperties, ElementOfSeq DEF TypeOK, RecoverInsideMandate
<1>3. \/ UNCHANGED commitments
      \/ \E q \in DOMAIN quotes : CreateCommitment(q)
      \/ \E i \in DOMAIN commitments, terms \in Terms : RecoverInsideMandate(i, terms)
  BY DEF Next, vars, StartNegotiation, RecordQuote, AttachEvidence,
     RecoverOutsideMandate, CreateEscalation, ReplaceMandate,
     AcknowledgeNotification, GenerateDocument, Tick
<1>4. QED
  BY <1>1, <1>2, <1>3

\* An agreement of a quote that nobody agreed keeps every commitment its quote.
LEMMA AgreedQuotes ==
  ASSUME TypeOK, CommitmentsKeepTheirQuote,
         \A q \in DOMAIN quotes : q \in DOMAIN quotes' /\ quotes'[q] = quotes[q],
         NEW call \in Calls, NEW quote \in Nat \ {0}, NEW terms \in Terms,
         Activate(call, quote, terms),
         QuoteUncommitted(quote),
         quote \in DOMAIN quotes',
         quotes'[quote].eligible, quotes'[quote].call = call,
         quotes'[quote].terms = terms, quotes'[quote].mandate = Len(mandates)
  PROVE  CommitmentsKeepTheirQuote'
<1> DEFINE n == Len(commitments)
           of(i) == commitments'[i].quote
           holds(i) == /\ of(i) \in DOMAIN quotes'
                       /\ quotes'[of(i)].eligible
                       /\ quotes'[of(i)].call = commitments'[i].call
                       /\ quotes'[of(i)].terms = commitments'[i].terms
                       /\ quotes'[of(i)].mandate = commitments'[i].mandate
<1>1. holds(n + 1) /\ of(n + 1) = quote
  BY AgreedKept
<1>2. ASSUME NEW i \in DOMAIN commitments
      PROVE  holds(i) /\ of(i) = commitments[i].quote /\ of(i) # quote
  <2>1. LET q == commitments[i].quote
        IN /\ q \in DOMAIN quotes
           /\ quotes[q].eligible
           /\ quotes[q].call = commitments[i].call
           /\ quotes[q].terms = commitments[i].terms
           /\ quotes[q].mandate = commitments[i].mandate
    BY DEF CommitmentsKeepTheirQuote
  <2>2. /\ commitments'[i].call = commitments[i].call
        /\ commitments'[i].quote = commitments[i].quote
        /\ commitments'[i].terms = commitments[i].terms
        /\ commitments'[i].mandate = commitments[i].mandate
    BY AgreedKept
  <2>3. commitments[i].quote # quote
    BY DEF QuoteUncommitted
  <2>4. QED
    BY <2>1, <2>2, <2>3
<1>3. \A i \in DOMAIN commitments' : i \in DOMAIN commitments \/ i = n + 1
  BY AgreedKept
<1>4. \A i \in DOMAIN commitments' : holds(i)
  BY <1>1, <1>2, <1>3
<1>5. ASSUME NEW i \in DOMAIN commitments', NEW j \in DOMAIN commitments', of(i) = of(j)
      PROVE  i = j
  <2>1. CASE i \in DOMAIN commitments /\ j \in DOMAIN commitments
    BY <1>2, <1>5, <2>1 DEF CommitmentsKeepTheirQuote
  <2>2. QED
    BY <1>1, <1>2, <1>3, <1>5, <2>1
<1>6. QED
  BY <1>4, <1>5 DEF CommitmentsKeepTheirQuote

\* Every commitment is the agreement of one quote of its own.
THEOREM QuotesInvariant == Spec => []CommitmentsKeepTheirQuote
<1>1. Init => CommitmentsKeepTheirQuote
  BY DEF Init, CommitmentsKeepTheirQuote
<1>2. TypeOK /\ CommitmentsKeepTheirQuote /\ [Next]_vars => CommitmentsKeepTheirQuote'
  <2> SUFFICES ASSUME TypeOK, CommitmentsKeepTheirQuote, [Next]_vars
               PROVE  CommitmentsKeepTheirQuote'
    OBVIOUS
  <2>1. \A q \in DOMAIN quotes : q \in DOMAIN quotes' /\ quotes'[q] = quotes[q]
    BY QuotesGrow
  <2>2. CASE UNCHANGED commitments
    BY <2>1, <2>2 DEF CommitmentsKeepTheirQuote
  <2>3. ASSUME NEW q \in DOMAIN quotes, CreateCommitment(q),
               quotes[q] \in QuoteType, quotes[q].eligible,
               quotes[q].mandate = Len(mandates), QuoteUncommitted(q),
               Activate(quotes[q].call, q, quotes[q].terms)
        PROVE  CommitmentsKeepTheirQuote'
    <3>1. q \in Nat \ {0} /\ quotes[q].call \in Calls /\ quotes[q].terms \in Terms
      BY <2>3, LenProperties DEF TypeOK, QuoteType
    <3>2. q \in DOMAIN quotes' /\ quotes'[q] = quotes[q]
      BY <2>1
    <3>3. QED
      BY <2>1, <2>3, <3>1, <3>2, AgreedQuotes
  <2>4. ASSUME NEW i \in DOMAIN commitments, NEW terms \in Terms,
               RecoverInsideMandate(i, terms), commitments[i] \in CommitmentType,
               Activate(commitments[i].call, Len(quotes) + 1, terms)
        PROVE  CommitmentsKeepTheirQuote'
    <3> DEFINE new == [call |-> commitments[i].call, terms |-> terms,
                       mandate |-> Len(mandates), eligible |-> TRUE,
                       until |-> now + RecoveryValidity]
               k == Len(quotes) + 1
    <3>1. /\ commitments[i].call \in Calls /\ Len(quotes) \in Nat
          /\ DOMAIN quotes = 1 .. Len(quotes) /\ quotes \in Seq(QuoteType)
      BY <2>4, LenProperties DEF TypeOK, CommitmentType
    <3>2. quotes' = Append(quotes, new)
      BY <2>4 DEF RecoverInsideMandate
    <3>3. /\ new.call = commitments[i].call /\ new.terms = terms
          /\ new.mandate = Len(mandates) /\ new.eligible
      OBVIOUS
    <3>. HIDE DEF new
    <3>4. k \in DOMAIN quotes' /\ quotes'[k] = new
      BY <3>1, <3>2
    <3>5. k \notin DOMAIN quotes /\ k \in Nat \ {0}
      BY <3>1
    <3>6. QuoteUncommitted(k)
      BY <3>5 DEF QuoteUncommitted, CommitmentsKeepTheirQuote
    <3>7. QED
      BY <2>1, <2>4, <3>1, <3>3, <3>4, <3>5, <3>6, AgreedQuotes
  <2>5. QED
    BY <2>2, <2>3, <2>4, HowAgreed
<1>3. QED
  BY <1>1, <1>2, TypeInvariant, PTL DEF Spec

\* What a new commitment makes of the reservations: nothing, or it consumes the
\* open one of its own quote.
LEMMA Consumed ==
  ASSUME TypeOK, NEW q \in DOMAIN quotes, CreateCommitment(q)
  PROVE  \E r \in reservations, s \in ReservationType :
           /\ r.quote = q /\ r.consumedBy = 0
           /\ s.quote = q /\ s.consumedBy = Len(commitments) + 1
           /\ reservations' = (reservations \ {r}) \cup {s}
<1>1. PICK r \in OpenReservations(q) :
        reservations' = (reservations \ {r}) \cup
          {[r EXCEPT !.consumedBy = Len(commitments) + 1]}
  BY DEF CreateCommitment, Committable, Consume
<1>2. r \in reservations /\ r \in ReservationType /\ r.quote = q /\ r.consumedBy = 0
  BY <1>1 DEF OpenReservations, TypeOK
<1>3. Len(commitments) + 1 \in Nat
  BY LenProperties DEF TypeOK
<1> DEFINE s == [r EXCEPT !.consumedBy = Len(commitments) + 1]
<1>4. s \in ReservationType /\ s.quote = q /\ s.consumedBy = Len(commitments) + 1
  BY <1>2, <1>3 DEF ReservationType
<1>5. reservations' = (reservations \ {r}) \cup {s}
  BY <1>1
<1>. HIDE DEF s
<1>6. QED
  BY <1>2, <1>4, <1>5

\* While nothing new is agreed, reservations are only added for quotes without one.
LEMMA OnlyEvidence ==
  ASSUME TypeOK, UNCHANGED commitments, [Next]_vars
  PROVE  \/ UNCHANGED reservations
         \/ \E q \in DOMAIN quotes :
              /\ \A r \in reservations : r.quote # q
              /\ reservations' = reservations \cup {[quote |-> q, consumedBy |-> 0]}
<1>1. ASSUME NEW call \in Calls, NEW quote \in Nat \ {0}, NEW terms \in Terms,
             Activate(call, quote, terms)
      PROVE  FALSE
  BY <1>1, AgreedKept
<1>2. ASSUME NEW q \in DOMAIN quotes, CreateCommitment(q) PROVE FALSE
  <2>1. q \in Nat \ {0} /\ quotes[q] \in QuoteType
    BY LenProperties, ElementOfSeq DEF TypeOK
  <2>2. Activate(quotes[q].call, q, quotes[q].terms)
    BY <1>2 DEF CreateCommitment, Committable, Consume
  <2>3. quotes[q].call \in Calls /\ quotes[q].terms \in Terms
    BY <2>1 DEF QuoteType
  <2>4. QED
    BY <1>1, <2>1, <2>2, <2>3
<1>3. UNCHANGED reservations \/ \E call \in Calls : AttachEvidence(call)
  BY <1>2 DEF Next, vars, StartNegotiation, RecordQuote, RecoverInsideMandate,
     RecoverOutsideMandate, CreateEscalation, ReplaceMandate,
     AcknowledgeNotification, GenerateDocument, Tick
<1>4. QED
  BY <1>3 DEF AttachEvidence

\* Recorded agreement audio stays with the quote it was recorded for.
LEMMA EvidenceStep ==
  TypeOK /\ EvidenceFollowsQuote /\ [Next]_vars => EvidenceFollowsQuote'
<1>. SUFFICES ASSUME TypeOK, EvidenceFollowsQuote, [Next]_vars
              PROVE  EvidenceFollowsQuote'
  OBVIOUS
<1>1. CASE UNCHANGED commitments
  <2>1. CASE UNCHANGED reservations
    BY <1>1, <2>1 DEF EvidenceFollowsQuote
  <2>2. ASSUME NEW q \in DOMAIN quotes,
               \A r \in reservations : r.quote # q,
               reservations' = reservations \cup {[quote |-> q, consumedBy |-> 0]}
        PROVE  EvidenceFollowsQuote'
    BY <1>1, <2>2 DEF EvidenceFollowsQuote
  <2>3. QED
    BY <1>1, <2>1, <2>2, OnlyEvidence
<1>2. ASSUME NEW q \in DOMAIN quotes, CreateCommitment(q), quotes[q] \in QuoteType,
             Activate(quotes[q].call, q, quotes[q].terms)
      PROVE  EvidenceFollowsQuote'
  <2>1. PICK r \in reservations, s \in ReservationType :
           /\ r.quote = q /\ r.consumedBy = 0
           /\ s.quote = q /\ s.consumedBy = Len(commitments) + 1
           /\ reservations' = (reservations \ {r}) \cup {s}
    BY <1>2, Consumed
  <2>2. q \in Nat \ {0} /\ quotes[q].call \in Calls /\ quotes[q].terms \in Terms
    <3>1. quotes \in Seq(QuoteType)
      BY DEF TypeOK
    <3>2. q \in Nat \ {0}
      BY <1>2, <3>1, LenProperties
    <3>3. quotes[q] \in QuoteType
      BY <1>2
    <3>4. QED
      BY <3>2, <3>3 DEF QuoteType
  <2>3. /\ Len(commitments) + 1 \in DOMAIN commitments'
        /\ commitments'[Len(commitments) + 1].quote = q
        /\ \A i \in DOMAIN commitments :
             i \in DOMAIN commitments' /\ commitments'[i].quote = commitments[i].quote
    BY <1>2, <2>2, AgreedKept
  <2>4. QED
    BY <2>1, <2>3 DEF EvidenceFollowsQuote
<1>3. ASSUME NEW i \in DOMAIN commitments, NEW terms \in Terms,
             commitments[i] \in CommitmentType,
             Activate(commitments[i].call, Len(quotes) + 1, terms),
             UNCHANGED reservations
      PROVE  EvidenceFollowsQuote'
  <2>1. commitments[i].call \in Calls /\ Len(quotes) + 1 \in Nat \ {0}
    <3>1. quotes \in Seq(QuoteType)
      BY DEF TypeOK
    <3>2. Len(quotes) \in Nat
      BY <3>1, LenProperties
    <3>3. commitments[i].call \in Calls
      BY <1>3 DEF CommitmentType
    <3>4. QED
      BY <3>2, <3>3
  <2>2. \A j \in DOMAIN commitments :
          j \in DOMAIN commitments' /\ commitments'[j].quote = commitments[j].quote
    BY <1>3, <2>1, AgreedKept
  <2>3. QED
    BY <1>3, <2>2 DEF EvidenceFollowsQuote
<1>4. QED
  BY <1>1, <1>2, <1>3, HowAgreed

\* The evidence of a commitment is that of its own quote.
THEOREM EvidenceInvariant == Spec => []EvidenceFollowsQuote
<1>1. Init => EvidenceFollowsQuote
  BY DEF Init, EvidenceFollowsQuote
<1>2. QED
  BY <1>1, EvidenceStep, TypeInvariant, PTL DEF Spec

\* A winner whose quote is live is replaced by the comparison only for a better
\* one: the selected quote precedes it, and the winner has the terms of its quote.
THEOREM WinnerImproves == Spec => LiveWinnerOnlyImproves
<1> DEFINE Improves ==
      \A q \in DOMAIN quotes :
       /\ Winner # 0
       /\ Len(commitments') > Len(commitments)
       /\ commitments'[Len(commitments')].quote = q
       /\ commitments[Winner].quote \in Candidates
       => quotes[q].terms.amount <= commitments[Winner].terms.amount
<1>1. TypeOK /\ CommitmentsKeepTheirQuote /\ [Next]_vars => Improves
  <2> SUFFICES ASSUME TypeOK, CommitmentsKeepTheirQuote, [Next]_vars,
                      NEW q \in DOMAIN quotes,
                      Winner # 0, Len(commitments') > Len(commitments),
                      commitments'[Len(commitments')].quote = q,
                      commitments[Winner].quote \in Candidates
               PROVE  quotes[q].terms.amount <= commitments[Winner].terms.amount
    OBVIOUS
  <2> DEFINE w == commitments[Winner].quote
  <2>1. Winner \in DOMAIN commitments
    BY WinnerFound DEF TypeOK
  <2>2. w \in DOMAIN quotes /\ quotes[w].terms = commitments[Winner].terms
    BY <2>1 DEF CommitmentsKeepTheirQuote
  <2>3. q \in Nat /\ quotes[q] \in QuoteType
    BY LenProperties, ElementOfSeq DEF TypeOK
  <2>4. quotes[q].terms.amount \in Nat
    <3>1. quotes[q].terms \in TermsType
      BY <2>3, ConstantsAssumption DEF QuoteType
    <3>2. QED
      BY <3>1 DEF TermsType
  <2>5. CASE UNCHANGED commitments
    BY <2>5, LenProperties DEF TypeOK
  <2>6. ASSUME NEW p \in DOMAIN quotes, CreateCommitment(p), quotes[p] \in QuoteType,
               Activate(quotes[p].call, p, quotes[p].terms)
        PROVE  quotes[q].terms.amount <= commitments[Winner].terms.amount
    <3>1. p \in Nat \ {0} /\ quotes[p].call \in Calls /\ quotes[p].terms \in Terms
      <4>1. quotes \in Seq(QuoteType)
        BY DEF TypeOK
      <4>2. p \in Nat \ {0}
        BY <2>6, <4>1, LenProperties
      <4>3. quotes[p] \in QuoteType
        BY <2>6
      <4>4. QED
        BY <4>2, <4>3 DEF QuoteType
    <3>2. p = q
      BY <2>6, <3>1, AgreedKept
    <3>3. Selected(q)
      BY <2>6, <3>2 DEF CreateCommitment, Committable, Consume
    <3>4. w = q \/ Precedes(q, w)
      BY <3>3 DEF Selected
    <3>5. Precedes(q, w) => \/ quotes[q].terms.amount < quotes[w].terms.amount
                            \/ quotes[q].terms.amount = quotes[w].terms.amount
      BY DEF Precedes
    <3>6. w \in DOMAIN quotes /\ quotes[w].terms.amount \in Nat
      <4>1. \A x \in DOMAIN quotes : quotes[x] \in QuoteType
        BY LenProperties, ElementOfSeq DEF TypeOK
      <4>2. w \in DOMAIN quotes
        BY <2>2
      <4>. HIDE DEF w
      <4>3. quotes[w].terms \in TermsType
        BY <4>1, <4>2, ConstantsAssumption DEF QuoteType
      <4>4. QED
        BY <4>2, <4>3 DEF TermsType
    <3>7. quotes[q].terms.amount <= quotes[w].terms.amount
      BY <2>4, <3>4, <3>5, <3>6
    <3>8. QED
      BY <2>2, <3>7
  <2>7. ASSUME NEW i \in DOMAIN commitments, NEW terms \in Terms,
               commitments[i] \in CommitmentType,
               Activate(commitments[i].call, Len(quotes) + 1, terms)
        PROVE  FALSE
    <3>1. /\ commitments[i].call \in Calls /\ Len(quotes) \in Nat
          /\ DOMAIN quotes = 1 .. Len(quotes)
      BY <2>7, LenProperties DEF TypeOK, CommitmentType
    <3>2. Len(quotes) + 1 \in Nat \ {0}
      BY <3>1
    <3>3. q = Len(quotes) + 1
      <4>1. /\ Len(commitments') = Len(commitments) + 1
            /\ commitments'[Len(commitments) + 1].quote = Len(quotes) + 1
        BY <2>7, <3>1, <3>2, AgreedKept
      <4>2. QED
        BY <4>1
    <3>4. QED
      BY <3>1, <3>3
  <2>8. QED
    BY <2>5, <2>6, <2>7, HowAgreed
<1>2. TypeOK /\ CommitmentsKeepTheirQuote /\ [Next]_vars => [Improves]_vars
  BY <1>1
<1>3. LiveWinnerOnlyImproves <=> [][Improves]_vars
  BY DEF LiveWinnerOnlyImproves
<1>. HIDE DEF Improves
<1>4. Spec => [][Improves]_vars
  BY <1>2, TypeInvariant, QuotesInvariant, PTL DEF Spec
<1>5. QED
  BY <1>3, <1>4

-----------------------------------------------------------------------------
(* Notifications.                                                          *)

\* The notifications of a commitment.
Notices(i) == {n \in DOMAIN notifications : notifications[n].commitment = i}

\* A notification is of a commitment that was made.
NoticesKnown ==
  \A n \in DOMAIN notifications : notifications[n].commitment \in DOMAIN commitments

\* A commitment has evidence, or one notification.
Told(i) ==
  Cardinality(Notices(i)) = IF \E r \in reservations : r.consumedBy = i THEN 0 ELSE 1

\* What a step may do to the notifications while nothing new is agreed.
LEMMA NoticesKept ==
  ASSUME TypeOK, UNCHANGED commitments, [Next]_vars
  PROVE  /\ DOMAIN notifications' = DOMAIN notifications
         /\ \A n \in DOMAIN notifications :
              notifications'[n].commitment = notifications[n].commitment
<1>1. ASSUME NEW i \in DOMAIN commitments, NEW terms \in Terms,
             RecoverInsideMandate(i, terms)
      PROVE  FALSE
  <2>1. commitments[i] \in CommitmentType /\ Len(quotes) + 1 \in Nat \ {0}
        /\ Activate(commitments[i].call, Len(quotes) + 1, terms)
    BY <1>1, LenProperties, ElementOfSeq DEF TypeOK, RecoverInsideMandate
  <2>2. commitments[i].call \in Calls
    BY <2>1 DEF CommitmentType
  <2>3. Len(commitments') = Len(commitments) + 1 /\ Len(commitments) \in Nat
    BY <2>1, <2>2, AgreedKept
  <2>4. QED
    BY <2>3
<1>2. UNCHANGED notifications
      \/ \E n \in DOMAIN notifications, k \in Coordinators : AcknowledgeNotification(n, k)
  BY <1>1 DEF Next, vars, StartNegotiation, RecordQuote, AttachEvidence,
     CreateCommitment, Committable, Consume, RecoverOutsideMandate, CreateEscalation, ReplaceMandate,
     GenerateDocument, Tick
<1>3. ASSUME NEW n \in DOMAIN notifications, NEW k \in Coordinators,
             AcknowledgeNotification(n, k)
      PROVE  /\ DOMAIN notifications' = DOMAIN notifications
             /\ \A m \in DOMAIN notifications :
                  notifications'[m].commitment = notifications[m].commitment
  <2>1. notifications' = [notifications EXCEPT ![n].by = k]
    BY <1>3 DEF AcknowledgeNotification
  <2>2. \A m \in DOMAIN notifications : notifications[m] \in NotificationType
    BY LenProperties, ElementOfSeq DEF TypeOK
  <2>3. QED
    BY <2>1, <2>2 DEF NotificationType
<1>4. QED
  BY <1>2, <1>3

\* The notification of a new commitment, and no other, names it.
LEMMA NoticeAdded ==
  ASSUME TypeOK, NoticesKnown, NEW k, k \notin DOMAIN commitments, Notify(k)
  PROVE  /\ \A i \in DOMAIN commitments : Notices(i)' = Notices(i)
         /\ \E n : Notices(k)' = {n}
         /\ \A n \in DOMAIN notifications' :
              notifications'[n].commitment \in DOMAIN commitments \cup {k}
<1> DEFINE n == Len(notifications) + 1
           new == [commitment |-> k, by |-> NoOne]
<1>1. /\ notifications \in Seq(NotificationType) /\ Len(notifications) \in Nat
      /\ DOMAIN notifications = 1 .. Len(notifications)
  BY LenProperties DEF TypeOK
<1>2. notifications' = Append(notifications, new) /\ new.commitment = k
  BY DEF Notify
<1>. HIDE DEF new
<1>3. /\ DOMAIN notifications' = 1 .. n
      /\ notifications'[n] = new
      /\ \A m \in DOMAIN notifications : notifications'[m] = notifications[m]
  BY <1>1, <1>2
<1>4. /\ \A m \in DOMAIN notifications' : m \in DOMAIN notifications \/ m = n
      /\ n \in DOMAIN notifications' /\ n \notin DOMAIN notifications
      /\ \A m \in DOMAIN notifications : m \in DOMAIN notifications'
  BY <1>1, <1>3
<1>. HIDE DEF n
<1>5. ASSUME NEW i \in DOMAIN commitments PROVE Notices(i)' = Notices(i)
  BY <1>2, <1>3, <1>4 DEF Notices
<1>6. Notices(k)' = {n}
  BY <1>2, <1>3, <1>4 DEF Notices, NoticesKnown
<1>7. \A m \in DOMAIN notifications' :
        notifications'[m].commitment \in DOMAIN commitments \cup {k}
  BY <1>2, <1>3, <1>4 DEF NoticesKnown
<1>8. QED
  BY <1>5, <1>6, <1>7

\* Every step tells the coordinator of what a recovery replaced, once.
LEMMA NoticesStep ==
  /\ TypeOK /\ EvidenceFollowsQuote /\ NoticesKnown /\ RecoveriesAreNotified
  /\ [Next]_vars
  => NoticesKnown' /\ RecoveriesAreNotified'
<1>. SUFFICES ASSUME TypeOK, EvidenceFollowsQuote, NoticesKnown, RecoveriesAreNotified,
                     [Next]_vars
              PROVE  NoticesKnown' /\ RecoveriesAreNotified'
  OBVIOUS
<1>1. \A i \in DOMAIN commitments : Told(i) /\ i # 0
  <2>1. \A i \in DOMAIN commitments : i # 0
    BY LenProperties DEF TypeOK
  <2>2. \A i \in DOMAIN commitments : Told(i)
    BY DEF RecoveriesAreNotified, Told, Notices
  <2>3. QED
    BY <2>1, <2>2
<1>2. (\A i \in DOMAIN commitments' : Told(i)') => RecoveriesAreNotified'
  BY DEF RecoveriesAreNotified, Told, Notices
<1>3. \A r \in reservations : r.consumedBy # 0 => r.consumedBy \in DOMAIN commitments
  BY DEF EvidenceFollowsQuote
<1>4. CASE UNCHANGED commitments
  <2>1. \A i \in DOMAIN commitments : Notices(i)' = Notices(i)
    BY <1>4, NoticesKept DEF Notices
  <2>2. UNCHANGED reservations \/ \E q : reservations' = reservations \cup
                                          {[quote |-> q, consumedBy |-> 0]}
    BY <1>4, OnlyEvidence
  <2>3. \A i \in DOMAIN commitments :
          (\E r \in reservations' : r.consumedBy = i)
            <=> (\E r \in reservations : r.consumedBy = i)
    BY <1>1, <2>2
  <2>4. NoticesKnown'
    BY <1>4, NoticesKept DEF NoticesKnown
  <2>5. QED
    BY <1>1, <1>2, <1>4, <2>1, <2>3, <2>4 DEF Told
<1>5. ASSUME NEW q \in DOMAIN quotes, CreateCommitment(q), quotes[q] \in QuoteType,
             Activate(quotes[q].call, q, quotes[q].terms), UNCHANGED notifications
      PROVE  NoticesKnown' /\ RecoveriesAreNotified'
  <2>0. PICK k : k = Len(commitments) + 1
    OBVIOUS
  <2>1. PICK r \in reservations, s \in ReservationType :
           /\ r.consumedBy = 0 /\ s.consumedBy = k
           /\ reservations' = (reservations \ {r}) \cup {s}
    BY <2>0, <1>5, Consumed
  <2>2. q \in Nat \ {0} /\ quotes[q].call \in Calls /\ quotes[q].terms \in Terms
    BY <1>5, LenProperties DEF TypeOK, QuoteType
  <2>3. /\ \A i \in DOMAIN commitments' : i \in DOMAIN commitments \/ i = k
        /\ \A i \in DOMAIN commitments : i \in DOMAIN commitments' /\ i # k
    BY <2>0, <1>5, <2>2, AgreedKept
  <2>4. \A i : Notices(i)' = Notices(i)
    BY <1>5 DEF Notices
  <2>5. \A i \in DOMAIN commitments :
          (\E x \in reservations' : x.consumedBy = i)
            <=> (\E x \in reservations : x.consumedBy = i)
    BY <1>1, <2>1, <2>3
  <2>6. \A i \in DOMAIN commitments : Told(i)'
    BY <1>1, <2>4, <2>5 DEF Told
  <2>7. Notices(k)' = {}
    <3>1. k \notin DOMAIN commitments
      BY <2>3
    <3>2. Notices(k) = {}
      BY <3>1 DEF Notices, NoticesKnown
    <3>3. QED
      BY <2>4, <3>2
  <2>8. Told(k)'
    BY <2>1, <2>7, FS_EmptySet DEF Told
  <2>9. NoticesKnown'
    BY <1>5, <2>3 DEF NoticesKnown
  <2>10. QED
    BY <1>2, <2>3, <2>6, <2>8, <2>9
<1>6. ASSUME NEW j \in DOMAIN commitments, NEW terms \in Terms,
             commitments[j] \in CommitmentType,
             Activate(commitments[j].call, Len(quotes) + 1, terms),
             Notify(Len(commitments) + 1), UNCHANGED reservations
      PROVE  NoticesKnown' /\ RecoveriesAreNotified'
  <2>0. PICK k : k = Len(commitments) + 1
    OBVIOUS
  <2>1. commitments[j].call \in Calls /\ Len(quotes) + 1 \in Nat \ {0}
    <3>1. Len(quotes) \in Nat
      BY LenProperties DEF TypeOK
    <3>2. commitments[j].call \in Calls
      BY <1>6 DEF CommitmentType
    <3>3. QED
      BY <3>1, <3>2
  <2>2. /\ \A i \in DOMAIN commitments' : i \in DOMAIN commitments \/ i = k
        /\ \A i \in DOMAIN commitments : i \in DOMAIN commitments' /\ i # k
        /\ k \in DOMAIN commitments' /\ k # 0
    BY <2>0, <1>6, <2>1, AgreedKept
  <2>3. Notify(k) /\ k \notin DOMAIN commitments
    BY <2>0, <1>6, <2>2
  <2>4. /\ \A i \in DOMAIN commitments : Notices(i)' = Notices(i)
        /\ \E n : Notices(k)' = {n}
        /\ \A n \in DOMAIN notifications' :
             notifications'[n].commitment \in DOMAIN commitments \cup {k}
    BY <2>3, NoticeAdded
  <2>5. \A i \in DOMAIN commitments : Told(i)'
    BY <1>1, <1>6, <2>4 DEF Told
  <2>6. Cardinality(Notices(k)') = 1
    BY <2>4, FS_Singleton
  <2>7. ~ \E r \in reservations' : r.consumedBy = k
    BY <1>3, <1>6, <2>2, <2>3
  <2>8. Told(k)'
    BY <2>6, <2>7 DEF Told
  <2>9. NoticesKnown'
    BY <2>2, <2>4 DEF NoticesKnown
  <2>10. QED
    BY <1>2, <2>2, <2>5, <2>8, <2>9
<1>7. QED
  BY <1>4, <1>5, <1>6, HowAgreed

\* The coordinator is told once of each replacement of a recovery.
THEOREM NoticesInvariant == Spec => []RecoveriesAreNotified
<1>1. Init => NoticesKnown /\ RecoveriesAreNotified
  BY DEF Init, NoticesKnown, RecoveriesAreNotified
<1>2. QED
  BY <1>1, NoticesStep, TypeInvariant, EvidenceInvariant, PTL DEF Spec

-----------------------------------------------------------------------------
(* The rows beside the rows.                                               *)

\* A mutation with its rows is the mutation.
LEMMA RecordsStep == [RecordsNext]_recordVars => [Next]_vars
<1> SUFFICES ASSUME [RecordsNext]_recordVars PROVE [Next]_vars
  OBVIOUS
<1>1. CASE RecordsNext
  <2>1. \/ \E selected \in SUBSET Calls : StartNegotiation(selected)
        \/ \E call \in Calls, terms \in Terms, until \in 0 .. MaxNow + 1 :
             RecordQuote(call, terms, until)
        \/ \E call \in Calls : AttachEvidence(call)
        \/ \E q \in DOMAIN quotes : CreateCommitment(q)
        \/ \E i \in DOMAIN commitments, terms \in Terms :
             RecoverInsideMandate(i, terms)
        \/ \E i \in DOMAIN commitments, terms \in Terms :
             RecoverOutsideMandate(i, terms)
        \/ \E call \in Calls : CreateEscalation(call)
        \/ \E e \in DOMAIN escalations, m \in MandateTerms : ReplaceMandate(e, m)
        \/ \E n \in DOMAIN notifications, k \in Coordinators :
             AcknowledgeNotification(n, k)
        \/ \E kind \in DocumentKinds, i \in DOMAIN commitments :
             GenerateDocument(kind, i)
        \/ Tick
    BY <1>1, Zenon DEF RecordsNext, StartRecorded, QuoteRecorded, EvidenceAttached,
       CommitmentRecorded, ReplacementRecorded, EscalationRecorded,
       ExplicitEscalationRecorded, MandateRecorded, AcknowledgementRecorded,
       PaperRecorded, RecordsTick
  <2>2. QED
    BY <2>1 DEF Next
<1>2. CASE UNCHANGED recordVars
  BY <1>2 DEF recordVars
<1>3. QED
  BY <1>1, <1>2

\* The services with all their rows implement the operation: whatever holds of
\* Spec holds of an operation with its history, audit trail and artifacts.
THEOREM RecordsImplement == RecordsSpec => Spec
<1>1. RecordsInit => Init
  BY DEF RecordsInit
<1>2. QED
  BY <1>1, RecordsStep, PTL DEF RecordsSpec, Spec

\* A request that reads changes no row.
LEMMA ReadsStep ==
  /\ [ReadsNext]_readVars => [RecordsNext]_recordVars
  /\ [ReadsNext]_readVars =>
       \/ [RecordsNext]_recordVars /\ UNCHANGED <<pc, view>>
       \/ ReadRow \/ ReadStatuses \/ ReadNegotiation \/ ReadQuotes
       \/ ReadCommitments \/ ReadAudits \/ ReadEscalation \/ ReadNotifications
<1> SUFFICES ASSUME [ReadsNext]_readVars
             PROVE  /\ [RecordsNext]_recordVars
                    /\ \/ [RecordsNext]_recordVars /\ UNCHANGED <<pc, view>>
                       \/ ReadRow \/ ReadStatuses \/ ReadNegotiation \/ ReadQuotes
                       \/ ReadCommitments \/ ReadAudits \/ ReadEscalation
                       \/ ReadNotifications
  OBVIOUS
<1>1. CASE UNCHANGED readVars
  BY <1>1 DEF readVars
<1>2. CASE RecordsNext /\ UNCHANGED <<pc, view>>
  BY <1>2
<1>3. CASE \/ ReadRow \/ ReadStatuses \/ ReadNegotiation \/ ReadQuotes
           \/ ReadCommitments \/ ReadAudits \/ ReadEscalation \/ ReadNotifications
  <2>1. UNCHANGED recordVars
    BY <1>3, Zenon DEF ReadRow, ReadStatuses, ReadNegotiation, ReadQuotes,
       ReadCommitments, ReadAudits, ReadEscalation, ReadNotifications, Reads
  <2>2. QED
    BY <1>3, <2>1, Zenon
<1>4. QED
  BY <1>1, <1>2, <1>3, Zenon DEF ReadsNext

\* An operation that is read while it changes is an operation.
THEOREM ReadsImplement == ReadsSpec => RecordsSpec
<1>1. ReadsInit => RecordsInit
  BY DEF ReadsInit
<1>2. QED
  BY <1>1, ReadsStep, PTL DEF ReadsSpec, RecordsSpec

\* A step enters a new version with its status, or leaves everything that is
\* read of the operation as it is and audits at least as much.
LEMMA VersionStep ==
  ASSUME TypeOK, [RecordsNext]_recordVars
  PROVE  \/ version' = version + 1 /\ Entered
         \/ /\ UNCHANGED <<version, status, mandates, sessions, preContact,
                           quotes, commitments, escalations, notifications,
                           history, evidence>>
            /\ audits' \in {audits, audits + 1}
<1> DEFINE Moved == version' = version + 1 /\ Entered
           Stayed == /\ UNCHANGED <<version, status, mandates, sessions, preContact,
                           quotes, commitments, escalations, notifications,
                           history, evidence>>
                     /\ audits' \in {audits, audits + 1}
<1>1. ASSUME NEW selected \in SUBSET Calls, StartRecorded(selected) PROVE Moved
  BY <1>1 DEF StartRecorded, StartNegotiation, Transition
<1>2. ASSUME NEW call \in Calls, NEW terms \in Terms, NEW until \in 0 .. MaxNow + 1,
             QuoteRecorded(call, terms, until)
      PROVE  Moved
  BY <1>2 DEF QuoteRecorded, RecordQuote, Transition
<1>3. ASSUME NEW call \in Calls, EvidenceAttached(call) PROVE Stayed
  BY <1>3 DEF EvidenceAttached, AttachEvidence, rows
<1>4. ASSUME NEW q \in DOMAIN quotes, CommitmentRecorded(q) PROVE Moved
  BY <1>4 DEF CommitmentRecorded, CreateCommitment, Committable, Consume, Transition
<1>5. ASSUME NEW i \in DOMAIN commitments, NEW terms \in Terms,
             ReplacementRecorded(i, terms)
      PROVE  Moved
  BY <1>5 DEF ReplacementRecorded, RecoverInsideMandate, Transition
<1>6. ASSUME NEW i \in DOMAIN commitments, NEW terms \in Terms,
             EscalationRecorded(i, terms)
      PROVE  Moved
  BY <1>6 DEF EscalationRecorded, RecoverOutsideMandate, Transition
<1>7. ASSUME NEW call \in Calls, ExplicitEscalationRecorded(call) PROVE Moved
  BY <1>7 DEF ExplicitEscalationRecorded, CreateEscalation, Transition
<1>8. ASSUME NEW e \in DOMAIN escalations, NEW m \in MandateTerms, MandateRecorded(e, m)
      PROVE  Moved
  BY <1>8 DEF MandateRecorded, ReplaceMandate, Transition
<1>9. ASSUME NEW n \in DOMAIN notifications, NEW k \in Coordinators,
             AcknowledgementRecorded(n, k)
      PROVE  Moved
  BY <1>9 DEF AcknowledgementRecorded, AcknowledgeNotification, Transition
<1>10. ASSUME NEW kind \in DocumentKinds, NEW i \in DOMAIN commitments,
              PaperRecorded(kind, i)
       PROVE  Stayed
  BY <1>10 DEF PaperRecorded, GenerateDocument
<1>11. ASSUME RecordsTick PROVE Stayed
  BY <1>11 DEF RecordsTick, Tick, rows
<1>12. ASSUME UNCHANGED recordVars PROVE Stayed
  BY <1>12 DEF recordVars, vars, rows
<1> HIDE DEF Moved, Stayed
<1>13. Moved \/ Stayed
  BY <1>1, <1>2, <1>3, <1>4, <1>5, <1>6, <1>7, <1>8, <1>9, <1>10, <1>11, <1>12
  DEF RecordsNext
<1>14. QED
  BY <1>13 DEF Moved, Stayed

\* The history has one status per version, the latest is that of the operation.
HistoryKept ==
  /\ history \in Seq(Statuses)
  /\ Len(history) = version
  /\ history[version] = status

LEMMA HistoryStep ==
  ASSUME TypeOK, TypeOK', HistoryKept, [RecordsNext]_recordVars
  PROVE  HistoryKept'
<1>1. CASE version' = version + 1 /\ Entered
  <2>1. /\ history' = Append(history, status') /\ status' \in Statuses
        /\ history \in Seq(Statuses) /\ Len(history) = version
    BY <1>1 DEF Entered, TypeOK, HistoryKept
  <2>2. /\ history' \in Seq(Statuses) /\ Len(history') = version + 1
        /\ history'[version + 1] = status'
    BY <2>1, AppendProperties
  <2>3. QED
    BY <1>1, <2>2 DEF HistoryKept
<1>2. CASE UNCHANGED <<version, status, history>>
  BY <1>2 DEF HistoryKept
<1>3. QED
  BY <1>1, <1>2, VersionStep

\* A commitment is made by one of two services, and only with it evidence.
LEMMA HowRecorded ==
  ASSUME TypeOK, [RecordsNext]_recordVars
  PROVE  \/ UNCHANGED <<commitments, evidence>>
         \/ \E q \in DOMAIN quotes : CommitmentRecorded(q)
         \/ \E i \in DOMAIN commitments, terms \in Terms : ReplacementRecorded(i, terms)
<1>1. CASE RecordsNext
  BY <1>1 DEF RecordsNext, StartRecorded, QuoteRecorded, EvidenceAttached,
       EscalationRecorded, ExplicitEscalationRecorded, MandateRecorded,
       AcknowledgementRecorded, PaperRecorded, RecordsTick, StartNegotiation,
       RecordQuote, AttachEvidence, RecoverOutsideMandate, CreateEscalation,
       ReplaceMandate, AcknowledgeNotification, GenerateDocument, Tick, rows
<1>2. CASE UNCHANGED recordVars
  BY <1>2 DEF recordVars, vars, rows
<1>3. QED
  BY <1>1, <1>2

\* What is recorded for a new commitment is the evidence reserved for its quote.
LEMMA EvidenceReserved ==
  ASSUME TypeOK, EvidenceFollowsQuote, NEW q \in DOMAIN quotes, CreateCommitment(q)
  PROVE  /\ ReservedEvidence = {[commitment |-> Len(commitments) + 1, recording |-> q]}
         /\ [quote |-> q, consumedBy |-> Len(commitments) + 1] \in reservations'
         /\ \A r \in reservations : r.consumedBy # 0 => r \in reservations'
<1>1. PICK r \in reservations, s \in ReservationType :
         /\ r.quote = q /\ r.consumedBy = 0
         /\ s.quote = q /\ s.consumedBy = Len(commitments) + 1
         /\ reservations' = (reservations \ {r}) \cup {s}
  BY Consumed
<1>2. Len(commitments) \in Nat /\ DOMAIN commitments = 1 .. Len(commitments)
  BY LenProperties DEF TypeOK
<1>3. s = [quote |-> q, consumedBy |-> Len(commitments) + 1]
  BY <1>1 DEF ReservationType
<1>4. s \notin reservations
  BY <1>1, <1>2 DEF EvidenceFollowsQuote
<1>5. reservations' \ reservations = {s}
  BY <1>1, <1>4, Zenon
<1>6. ReservedEvidence = {[commitment |-> s.consumedBy, recording |-> s.quote]}
  BY <1>5 DEF ReservedEvidence
<1>7. QED
  BY <1>1, <1>3, <1>6

\* Evidence is of a commitment that was made, and each of them has evidence.
EvidenceKnown ==
  /\ evidence \subseteq EvidenceType
  /\ \A e \in evidence : e.commitment \in DOMAIN commitments
  /\ \A i \in DOMAIN commitments : \E e : EvidenceOf(i) = {e}

\* Evidence of a new commitment is its only evidence, and that of the others
\* stays as it is.
LEMMA EvidenceAdded ==
  ASSUME NEW k, NEW x, EvidenceKnown, x.commitment = k, k \notin DOMAIN commitments,
         evidence' = evidence \cup {x}
  PROVE  /\ EvidenceOf(k)' = {x}
         /\ \A i : i # k => EvidenceOf(i)' = EvidenceOf(i)
BY DEF EvidenceOf, EvidenceKnown

\* How each of the two services records the evidence of what it makes.
LEMMA EvidenceOfNew ==
  ASSUME TypeOK, EvidenceFollowsQuote, [RecordsNext]_recordVars
  PROVE  \/ UNCHANGED <<commitments, evidence>>
         \/ \E call \in Calls, quote \in Nat \ {0}, terms \in Terms, x \in EvidenceType :
              /\ Activate(call, quote, terms)
              /\ x.commitment = Len(commitments) + 1
              /\ evidence' = evidence \cup {x}
<1>1. Len(commitments) \in Nat /\ DOMAIN commitments = 1 .. Len(commitments)
      /\ Len(quotes) \in Nat /\ DOMAIN quotes = 1 .. Len(quotes)
  BY LenProperties DEF TypeOK
<1>2. ASSUME NEW q \in DOMAIN quotes, CommitmentRecorded(q)
      PROVE  \E call \in Calls, quote \in Nat \ {0}, terms \in Terms, x \in EvidenceType :
              /\ Activate(call, quote, terms)
              /\ x.commitment = Len(commitments) + 1
              /\ evidence' = evidence \cup {x}
  <2> DEFINE x == [commitment |-> Len(commitments) + 1, recording |-> q]
  <2>1. CreateCommitment(q) /\ Activate(quotes[q].call, q, quotes[q].terms)
    BY <1>2 DEF CommitmentRecorded, CreateCommitment, Committable, Consume
  <2>2. quotes[q] \in QuoteType /\ q \in Nat \ {0}
    BY <1>1, ElementOfSeq DEF TypeOK
  <2>3. quotes[q].call \in Calls /\ quotes[q].terms \in Terms
    BY <2>2 DEF QuoteType
  <2>4. x \in EvidenceType /\ x.commitment = Len(commitments) + 1
    BY <1>1, <2>2 DEF EvidenceType
  <2>5. evidence' = evidence \cup {x}
    BY <1>2, <2>1, EvidenceReserved DEF CommitmentRecorded
  <2> HIDE DEF x
  <2>6. QED
    BY <2>1, <2>2, <2>3, <2>4, <2>5
<1>3. ASSUME NEW i \in DOMAIN commitments, NEW terms \in Terms,
             ReplacementRecorded(i, terms)
      PROVE  \E call \in Calls, quote \in Nat \ {0}, t \in Terms, x \in EvidenceType :
              /\ Activate(call, quote, t)
              /\ x.commitment = Len(commitments) + 1
              /\ evidence' = evidence \cup {x}
  <2> DEFINE x == [commitment |-> Len(commitments) + 1, recording |-> RecoveryRecording]
  <2>1. /\ RecoverInsideMandate(i, terms)
        /\ Activate(commitments[i].call, Len(quotes) + 1, terms)
    BY <1>3 DEF ReplacementRecorded, RecoverInsideMandate
  <2>2. commitments[i] \in CommitmentType
    BY <1>1, ElementOfSeq DEF TypeOK
  <2>3. commitments[i].call \in Calls /\ Len(quotes) + 1 \in Nat \ {0}
    BY <1>1, <2>2 DEF CommitmentType
  <2>4. Len(commitments') = Len(commitments) + 1
    BY <2>1, <2>3, AgreedKept
  <2>5. x \in EvidenceType /\ x.commitment = Len(commitments) + 1
    BY <1>1 DEF EvidenceType, RecoveryRecording
  <2>6. evidence' = evidence \cup {x}
    BY <1>3, <2>4 DEF ReplacementRecorded
  <2> HIDE DEF x
  <2>7. QED
    BY <2>1, <2>3, <2>5, <2>6
<1>4. QED
  BY <1>2, <1>3, HowRecorded

LEMMA EvidenceKnownStep ==
  ASSUME TypeOK, EvidenceFollowsQuote, EvidenceKnown, [RecordsNext]_recordVars
  PROVE  EvidenceKnown'
<1>1. CASE UNCHANGED <<commitments, evidence>>
  BY <1>1 DEF EvidenceKnown, EvidenceOf
<1>2. ASSUME NEW call \in Calls, NEW quote \in Nat \ {0}, NEW terms \in Terms,
             NEW x \in EvidenceType,
             Activate(call, quote, terms),
             x.commitment = Len(commitments) + 1,
             evidence' = evidence \cup {x}
      PROVE  EvidenceKnown'
  <2>0. PICK k : k = Len(commitments) + 1
    OBVIOUS
  <2>1. /\ DOMAIN commitments = 1 .. Len(commitments) /\ Len(commitments) \in Nat
        /\ DOMAIN commitments' = 1 .. k
        /\ \A i \in DOMAIN commitments' : i \in DOMAIN commitments \/ i = k
    BY <1>2, <2>0, AgreedKept
  <2>2. k \notin DOMAIN commitments /\ k \in DOMAIN commitments'
        /\ DOMAIN commitments \subseteq DOMAIN commitments'
    BY <2>0, <2>1
  <2>3. /\ EvidenceOf(k)' = {x}
        /\ \A i : i # k => EvidenceOf(i)' = EvidenceOf(i)
    BY <1>2, <2>0, <2>2, EvidenceAdded
  <2>4. \A i \in DOMAIN commitments' : \E e : EvidenceOf(i)' = {e}
    <3>1. ASSUME NEW i \in DOMAIN commitments' PROVE \E e : EvidenceOf(i)' = {e}
      <4>1. CASE i = k
        BY <2>3, <4>1
      <4>2. CASE i # k
        BY <2>1, <2>3, <4>2 DEF EvidenceKnown
      <4>3. QED
        BY <4>1, <4>2
    <3>2. QED
      BY <3>1
  <2>5. evidence' \subseteq EvidenceType
    BY <1>2 DEF EvidenceKnown
  <2>6. \A e \in evidence' : e.commitment \in DOMAIN commitments'
    BY <1>2, <2>0, <2>2 DEF EvidenceKnown
  <2>7. QED
    BY <2>4, <2>5, <2>6 DEF EvidenceKnown
<1>3. QED
  BY <1>1, <1>2, EvidenceOfNew

\* The rows beside the rows, as far as reading them relies on it.
LEMMA KnownInvariant == RecordsSpec => [](HistoryKept /\ EvidenceKnown)
<1>1. RecordsInit => HistoryKept /\ EvidenceKnown
  <2> SUFFICES ASSUME RecordsInit PROVE HistoryKept /\ EvidenceKnown
    OBVIOUS
  <2>1. history = <<"READY">> /\ version = 1 /\ status = "READY"
    BY DEF RecordsInit, Init
  <2>2. "READY" \in Statuses
    BY DEF Statuses
  <2>3. HistoryKept
    BY <2>1, <2>2 DEF HistoryKept
  <2>4. EvidenceKnown
    BY DEF RecordsInit, Init, EvidenceKnown
  <2>5. QED
    BY <2>3, <2>4
<1>2. /\ TypeOK /\ TypeOK' /\ EvidenceFollowsQuote /\ HistoryKept /\ EvidenceKnown
      /\ [RecordsNext]_recordVars
      => (HistoryKept /\ EvidenceKnown)'
  BY HistoryStep, EvidenceKnownStep
<1>3. RecordsSpec => []TypeOK /\ []EvidenceFollowsQuote
  BY RecordsImplement, TypeInvariant, EvidenceInvariant, PTL
<1>4. QED
  BY <1>1, <1>2, <1>3, PTL DEF RecordsSpec

-----------------------------------------------------------------------------
(* Reading an operation while it changes.                                  *)

\* What a request has read is of its version, as far as it got; and it was
\* refused at a version for its rows only.
ReadSoFar ==
  /\ pc \notin {"idle", "refused"} => view.mandate = Len(mandates)
  /\ pc \notin {"idle", "statuses", "refused"} => view.status = status
  /\ pc \notin {"idle", "statuses", "negotiation", "refused"} =>
       view.sessions = sessions /\ view.stopped = preContact
  /\ pc \in {"commitments", "audits", "escalation", "notifications", "answered"} =>
       view.quotes = Len(quotes)
  /\ pc \in {"audits", "escalation", "notifications", "answered"} =>
       view.active = Winner
  /\ pc \in {"notifications", "answered"} =>
       /\ view.open # 0 => Unresolved = {view.open}
       /\ view.open = 0 => Unresolved = {}
  /\ pc = "answered" => view.notices = notifications
  /\ pc = "refused" => TooManyRows

\* As long as the version is the one it started from.  It started from one that
\* was reached.
ReadInvariant ==
  /\ ReadsTypeOK
  /\ view.version <= version
  /\ pc = "idle" => view.version = 0
  /\ view.version = version => ReadSoFar

\* The one open escalation is found.
LEMMA OpenFound ==
  ASSUME TypeOK, StatusReflectsRows
  PROVE  /\ OpenShown \in Nat
         /\ OpenShown # 0 => Unresolved = {OpenShown}
         /\ OpenShown = 0 => Unresolved = {}
<1>1. DOMAIN escalations = 1 .. Len(escalations) /\ Len(escalations) \in Nat
  BY LenProperties DEF TypeOK
<1>2. CASE Unresolved = {}
  BY <1>2 DEF OpenShown
<1>3. CASE Unresolved # {}
  <2>1. OpenShown = CHOOSE e \in DOMAIN escalations : ~escalations[e].resolved
    BY <1>3 DEF OpenShown
  <2>2. OpenShown \in DOMAIN escalations /\ ~escalations[OpenShown].resolved
    BY <1>3, <2>1, Zenon DEF Unresolved
  <2>3. OpenShown \in Unresolved
    BY <2>2 DEF Unresolved
  <2>4. Unresolved = {OpenShown}
    BY <2>3 DEF StatusReflectsRows
  <2>5. QED
    BY <1>1, <2>2, <2>4
<1>4. QED
  BY <1>2, <1>3

\* A mutation either leaves what was read as it is or moves the version away.
LEMMA ReadUnderMutation ==
  ASSUME TypeOK, ReadInvariant, [RecordsNext]_recordVars, UNCHANGED <<pc, view>>
  PROVE  ReadInvariant'
<1>0. ReadsTypeOK' /\ version \in Nat /\ view.version \in Nat /\ audits \in Nat
  BY DEF ReadInvariant, ReadsTypeOK, TypeOK, ViewType
<1>1. CASE version' = version + 1
  BY <1>0, <1>1 DEF ReadInvariant
<1>2. CASE /\ UNCHANGED <<version, status, mandates, sessions, preContact,
                          quotes, commitments, escalations, notifications>>
           /\ audits' \in {audits, audits + 1}
  <2>1. Winner' = Winner /\ Unresolved' = Unresolved
    BY <1>2 DEF Winner, Unresolved
  <2>2. TooManyRows => TooManyRows'
    BY <1>0, <1>2, ConstantsAssumption DEF TooManyRows
  <2>3. ReadSoFar => ReadSoFar'
    BY <1>2, <2>1, <2>2 DEF ReadSoFar
  <2>4. QED
    BY <1>0, <1>2, <2>3 DEF ReadInvariant
<1>3. QED
  BY <1>1, <1>2, VersionStep

\* A statement reads what is there.
LEMMA ReadStatement ==
  ASSUME TypeOK, StatusReflectsRows, HistoryKept, EvidenceKnown, ReadInvariant,
         \/ ReadRow \/ ReadStatuses \/ ReadNegotiation \/ ReadQuotes
         \/ ReadCommitments \/ ReadAudits \/ ReadEscalation \/ ReadNotifications
  PROVE  ReadInvariant'
<1>0. /\ UNCHANGED recordVars
      /\ view \in ViewType /\ version \in Nat \ {0} /\ view.version \in Nat
      /\ view.version <= version
      /\ pc = "idle" => view.version = 0
      /\ view.version = version => ReadSoFar
  <2>1. UNCHANGED recordVars
    BY Zenon DEF ReadRow, ReadStatuses, ReadNegotiation, ReadQuotes,
       ReadCommitments, ReadAudits, ReadEscalation, ReadNotifications, Reads
  <2>2. QED
    BY <2>1 DEF ReadInvariant, ReadsTypeOK, TypeOK, ViewType
<1>1. /\ UNCHANGED <<version, status, mandates, sessions, preContact, quotes,
                     commitments, escalations, notifications, audits>>
      /\ Winner' = Winner /\ Unresolved' = Unresolved
      /\ TooManyRows' <=> TooManyRows
  <2>1. UNCHANGED vars
    BY <1>0 DEF recordVars
  <2>2. QED
    BY <2>1 DEF vars, Winner, Unresolved, TooManyRows
<1>2. /\ Len(mandates) \in Nat /\ Len(quotes) \in Nat /\ Len(commitments) \in Nat
      /\ Len(notifications) \in Nat /\ Winner \in Nat
      /\ status \in Statuses /\ sessions \subseteq Calls /\ preContact \in BOOLEAN
      /\ notifications \in Seq(NotificationType) /\ audits \in Nat
      /\ Len(history) = version /\ history[version] = status
      /\ OpenShown \in Nat
  BY WinnerFound, OpenFound, LenProperties DEF TypeOK, HistoryKept
<1> DEFINE Done == ReadsTypeOK' /\ view'.version <= version
                   /\ (pc' = "idle" => view'.version = 0)
                   /\ (view'.version = version => ReadSoFar')
<1>3. ASSUME ReadRow PROVE Done
  <2>1. /\ pc' = "statuses"
        /\ view' = [view EXCEPT !.version = version, !.mandate = Len(mandates)]
    BY <1>3 DEF ReadRow, Reads
  <2>2. /\ view'.version = version /\ view'.mandate = Len(mandates)
        /\ view' \in ViewType
    BY <1>0, <1>2, <2>1 DEF ViewType
  <2>3. QED
    BY <1>0, <1>1, <1>2, <2>1, <2>2 DEF ReadSoFar, ReadsTypeOK
<1>4. ASSUME ReadStatuses PROVE Done
  <2>1. CASE Len(history) <= RowLimit /\ Future = {}
    <3>1. /\ pc = "statuses" /\ pc' = "negotiation"
          /\ view' = [view EXCEPT !.status = status]
      BY <1>2, <1>4, <2>1 DEF ReadStatuses, Reads
    <3>2. /\ view'.version = view.version /\ view'.mandate = view.mandate
          /\ view'.status = status
          /\ view' \in ViewType
      BY <1>0, <1>2, <3>1 DEF ViewType
    <3>3. QED
      BY <1>0, <1>1, <1>2, <3>1, <3>2 DEF ReadSoFar, ReadsTypeOK
  <2>2. CASE ~(Len(history) <= RowLimit /\ Future = {})
    <3>1. pc' = "refused" /\ view' = view
      BY <1>4, <2>2 DEF ReadStatuses, Reads
    <3>2. view.version = version => TooManyRows
      <4>1. SUFFICES ASSUME view.version = version PROVE version > RowLimit
        BY DEF TooManyRows
      <4>2. Future = {}
        <5>1. DOMAIN history = 1 .. version
          BY <1>2, LenProperties DEF HistoryKept
        <5>2. QED
          BY <1>0, <4>1, <5>1 DEF Future
      <4>3. QED
        BY <1>0, <1>2, <2>2, <4>2, ConstantsAssumption
    <3>3. QED
      BY <1>0, <1>1, <3>1, <3>2 DEF ReadSoFar, ReadsTypeOK
  <2>3. QED
    BY <2>1, <2>2
<1>5. ASSUME ReadNegotiation PROVE Done
  <2>1. /\ pc = "negotiation" /\ pc' = "quotes"
        /\ view' = [view EXCEPT !.sessions = sessions, !.stopped = preContact]
    BY <1>5 DEF ReadNegotiation, Reads
  <2>2. /\ view'.version = view.version /\ view'.mandate = view.mandate
        /\ view'.status = view.status
        /\ view'.sessions = sessions /\ view'.stopped = preContact
        /\ view' \in ViewType
    BY <1>0, <1>2, <2>1 DEF ViewType
  <2>3. QED
    BY <1>0, <1>1, <2>1, <2>2 DEF ReadSoFar, ReadsTypeOK
<1>6. ASSUME ReadQuotes PROVE Done
  <2>1. CASE Len(quotes) <= RowLimit
    <3>1. /\ pc = "quotes" /\ pc' = "commitments"
          /\ view' = [view EXCEPT !.quotes = Len(quotes)]
      BY <1>6, <2>1 DEF ReadQuotes, Reads
    <3>2. /\ view'.version = view.version /\ view'.mandate = view.mandate
          /\ view'.status = view.status
          /\ view'.sessions = view.sessions /\ view'.stopped = view.stopped
          /\ view'.quotes = Len(quotes)
          /\ view' \in ViewType
      BY <1>0, <1>2, <3>1 DEF ViewType
    <3>3. QED
      BY <1>0, <1>1, <3>1, <3>2 DEF ReadSoFar, ReadsTypeOK
  <2>2. CASE ~(Len(quotes) <= RowLimit)
    <3>1. pc' = "refused" /\ view' = view /\ TooManyRows
      BY <1>2, <1>6, <2>2, ConstantsAssumption DEF ReadQuotes, Reads, TooManyRows
    <3>2. QED
      BY <1>0, <1>1, <3>1 DEF ReadSoFar, ReadsTypeOK
  <2>3. QED
    BY <2>1, <2>2
<1>7. ASSUME ReadCommitments PROVE Done
  <2>0. EvidenceFound
    BY DEF EvidenceFound, EvidenceKnown
  <2>1. CASE Len(commitments) <= RowLimit
    <3>1. /\ pc = "commitments" /\ pc' = "audits"
          /\ view' = [view EXCEPT !.active = Winner]
      BY <1>7, <2>0, <2>1 DEF ReadCommitments, Reads, ActiveShown
    <3>2. /\ view'.version = view.version /\ view'.mandate = view.mandate
          /\ view'.status = view.status
          /\ view'.sessions = view.sessions /\ view'.stopped = view.stopped
          /\ view'.quotes = view.quotes /\ view'.active = Winner
          /\ view' \in ViewType
      BY <1>0, <1>2, <3>1 DEF ViewType
    <3>3. QED
      BY <1>0, <1>1, <3>1, <3>2 DEF ReadSoFar, ReadsTypeOK
  <2>2. CASE ~(Len(commitments) <= RowLimit)
    <3>1. pc' = "refused" /\ view' = view /\ TooManyRows
      BY <1>2, <1>7, <2>2, ConstantsAssumption DEF ReadCommitments, Reads, TooManyRows
    <3>2. QED
      BY <1>0, <1>1, <3>1 DEF ReadSoFar, ReadsTypeOK
  <2>3. QED
    BY <2>1, <2>2
<1>8. ASSUME ReadAudits PROVE Done
  <2>1. CASE audits <= RowLimit
    <3>1. pc = "audits" /\ pc' = "escalation" /\ view' = view
      BY <1>8, <2>1 DEF ReadAudits, Reads
    <3>2. QED
      BY <1>0, <1>1, <3>1 DEF ReadSoFar, ReadsTypeOK
  <2>2. CASE ~(audits <= RowLimit)
    <3>1. pc' = "refused" /\ view' = view /\ TooManyRows
      BY <1>2, <1>8, <2>2, ConstantsAssumption DEF ReadAudits, Reads, TooManyRows
    <3>2. QED
      BY <1>0, <1>1, <3>1 DEF ReadSoFar, ReadsTypeOK
  <2>3. QED
    BY <2>1, <2>2
<1>9. ASSUME ReadEscalation PROVE Done
  <2>1. /\ pc = "escalation" /\ pc' = "notifications"
        /\ view' = [view EXCEPT !.open = OpenShown]
    BY <1>9 DEF ReadEscalation, Reads
  <2>2. /\ view'.version = view.version /\ view'.mandate = view.mandate
        /\ view'.status = view.status
        /\ view'.sessions = view.sessions /\ view'.stopped = view.stopped
        /\ view'.quotes = view.quotes /\ view'.active = view.active
        /\ view'.open = OpenShown
        /\ view' \in ViewType
    BY <1>0, <1>2, <2>1 DEF ViewType
  <2>3. QED
    BY <1>0, <1>1, <2>1, <2>2, OpenFound DEF ReadSoFar, ReadsTypeOK
<1>10. ASSUME ReadNotifications PROVE Done
  <2>1. CASE Len(notifications) <= RowLimit
    <3>1. /\ pc = "notifications" /\ pc' = "answered"
          /\ view' = [view EXCEPT !.notices = notifications]
      BY <1>10, <2>1 DEF ReadNotifications, Reads
    <3>2. /\ view'.version = view.version /\ view'.mandate = view.mandate
          /\ view'.status = view.status
          /\ view'.sessions = view.sessions /\ view'.stopped = view.stopped
          /\ view'.quotes = view.quotes /\ view'.active = view.active
          /\ view'.open = view.open /\ view'.notices = notifications
          /\ view' \in ViewType
      BY <1>0, <1>2, <3>1 DEF ViewType
    <3>3. QED
      BY <1>0, <1>1, <3>1, <3>2 DEF ReadSoFar, ReadsTypeOK
  <2>2. CASE ~(Len(notifications) <= RowLimit)
    <3>1. pc' = "refused" /\ view' = view /\ TooManyRows
      BY <1>2, <1>10, <2>2, ConstantsAssumption
      DEF ReadNotifications, Reads, TooManyRows
    <3>2. QED
      BY <1>0, <1>1, <3>1 DEF ReadSoFar, ReadsTypeOK
  <2>3. QED
    BY <2>1, <2>2
<1>11. Done
  BY <1>3, <1>4, <1>5, <1>6, <1>7, <1>8, <1>9, <1>10
<1>12. QED
  BY <1>1, <1>11 DEF ReadInvariant

LEMMA ReadInvariantKept == ReadsSpec => []ReadInvariant
<1>1. ReadsInit => ReadInvariant
  <2> SUFFICES ASSUME ReadsInit PROVE ReadInvariant
    OBVIOUS
  <2>1. pc = "idle" /\ version = 1 /\ view = NoView
    BY DEF ReadsInit, RecordsInit, Init
  <2>2. NoView \in ViewType /\ NoView.version = 0
    BY DEF NoView, ViewType
  <2>3. QED
    BY <2>1, <2>2 DEF ReadInvariant, ReadsTypeOK
<1>2. /\ TypeOK /\ StatusReflectsRows /\ HistoryKept /\ EvidenceKnown
      /\ ReadInvariant /\ [ReadsNext]_readVars
      => ReadInvariant'
  BY ReadsStep, ReadUnderMutation, ReadStatement
<1>3. ReadsSpec => /\ []TypeOK /\ []StatusReflectsRows
                   /\ [](HistoryKept /\ EvidenceKnown)
  BY ReadsImplement, RecordsImplement, TypeInvariant, StatusInvariant,
     KnownInvariant, PTL
<1>4. QED
  BY <1>1, <1>2, <1>3, PTL DEF ReadsSpec

\* A request is always at one of its statements, with a view of its type.
THEOREM ReadsTypeInvariant == ReadsSpec => []ReadsTypeOK
<1>1. ReadInvariant => ReadsTypeOK
  BY DEF ReadInvariant
<1>2. QED
  BY <1>1, ReadInvariantKept, PTL

\* An answer of the version an operation still has is its whole state, and a
\* request of that version was refused for the number of rows only: between the
\* statements of a request a mutation moves the version or changes nothing the
\* remaining statements read.
THEOREM AnswersAreWhole == ReadsSpec => []CurrentAnswersAreWhole
<1>1. ReadInvariant => CurrentAnswersAreWhole
  <2> SUFFICES ASSUME ReadInvariant, view.version = version
               PROVE  /\ pc = "answered" => Whole
                      /\ pc = "refused" => TooManyRows
    BY DEF CurrentAnswersAreWhole
  <2>1. ReadSoFar
    BY DEF ReadInvariant
  <2>2. QED
    BY <2>1 DEF ReadSoFar, Whole
<1>2. QED
  BY <1>1, ReadInvariantKept, PTL

-----------------------------------------------------------------------------
(* The audit trail.                                                        *)

EscalationEvents ==
  {"PRE_CONTACT_ESCALATED", "POST_CONTACT_ESCALATED", "EXPLICIT_ESCALATION_CREATED"}

PaperEvents == {"BRIEF_GENERATED", "RECAP_GENERATED"}

\* What the events of a version say of the change that made it, from status s
\* to status t.
Tells(T, s, t) ==
  /\ s # "ESCALATED" /\ t = "ESCALATED" <=> T \cap EscalationEvents # {}
  /\ s = "ESCALATED" /\ t # "ESCALATED" <=> "ESCALATION_RESOLVED" \in T
  /\ "ESCALATION_RESOLVED" \in T <=> "MANDATE_REPLACED" \in T
  /\ "COMMITMENT_SUPERSEDED" \in T => "COMMITMENT_ACTIVATED" \in T
  /\ s = "NEGOTIATING" /\ t = "COMMITTED" => "COMMITMENT_ACTIVATED" \in T

\* How many rows grew, by what the events say.
Grows(T) ==
  /\ Len(commitments') =
       IF "COMMITMENT_ACTIVATED" \in T THEN Len(commitments) + 1 ELSE Len(commitments)
  /\ Len(mandates') =
       IF "MANDATE_REPLACED" \in T THEN Len(mandates) + 1 ELSE Len(mandates)

\* Every mutation audits the version it makes truly, and a brief or a recap says
\* nothing of the status.
LEMMA HowAudited ==
  ASSUME TypeOK, StatusReflectsRows, [RecordsNext]_recordVars
  PROVE  \/ /\ version' = version + 1 /\ Entered
            /\ \E T \in SUBSET EventTypes :
                 T # {} /\ Audited(T) /\ Tells(T, status, status') /\ Grows(T)
         \/ /\ UNCHANGED <<version, status, history, commitments, mandates>>
            /\ \E T \in SUBSET PaperEvents : Audited(T)
<1> DEFINE Moved == /\ version' = version + 1 /\ Entered
                   /\ \E T \in SUBSET EventTypes :
                        T # {} /\ Audited(T) /\ Tells(T, status, status') /\ Grows(T)
           Silent == /\ UNCHANGED <<version, status, history, commitments, mandates>>
                     /\ \E T \in SUBSET PaperEvents : Audited(T)
<1>0. /\ Len(commitments) \in Nat /\ DOMAIN commitments = 1 .. Len(commitments)
      /\ Len(quotes) \in Nat /\ DOMAIN quotes = 1 .. Len(quotes)
      /\ mandates \in Seq(MandateType)
  BY LenProperties DEF TypeOK
<1>1. ASSUME NEW selected \in SUBSET Calls, StartRecorded(selected) PROVE Moved
  <2> DEFINE T == {IF selected = {} THEN "PRE_CONTACT_ESCALATED"
                   ELSE "NEGOTIATION_STARTED"}
  <2>1. Entered /\ Audited(T) /\ StartNegotiation(selected)
    BY <1>1 DEF StartRecorded
  <2>2. /\ version' = version + 1 /\ status = "READY"
        /\ status' = IF selected = {} THEN "ESCALATED" ELSE "NEGOTIATING"
        /\ UNCHANGED <<commitments, mandates>>
    BY <2>1 DEF StartNegotiation, Transition
  <2>3. Tells(T, status, status')
    BY <2>2 DEF Tells, EscalationEvents
  <2>4. T \in SUBSET EventTypes /\ T # {} /\ Grows(T)
    BY <2>2 DEF EventTypes, Grows
  <2> HIDE DEF T
  <2>5. QED
    BY <2>1, <2>2, <2>3, <2>4
<1>2. ASSUME NEW call \in Calls, NEW terms \in Terms, NEW until \in 0 .. MaxNow + 1,
             QuoteRecorded(call, terms, until)
      PROVE  Moved
  <2> DEFINE T == {IF InsideMandate(terms) THEN "QUOTE_RECORDED" ELSE "QUOTE_REJECTED"}
  <2>1. Entered /\ Audited(T) /\ RecordQuote(call, terms, until)
    BY <1>2 DEF QuoteRecorded
  <2>2. version' = version + 1 /\ UNCHANGED <<status, commitments, mandates>>
    BY <2>1 DEF RecordQuote, Transition
  <2>3. Tells(T, status, status')
    BY <2>2 DEF Tells, EscalationEvents
  <2>4. T \in SUBSET EventTypes /\ T # {} /\ Grows(T)
    BY <2>2 DEF EventTypes, Grows
  <2> HIDE DEF T
  <2>5. QED
    BY <2>1, <2>2, <2>3, <2>4
<1>a. \A A : A = ActivationEvents =>
        /\ A \in SUBSET EventTypes /\ "COMMITMENT_ACTIVATED" \in A
        /\ A \subseteq {"COMMITMENT_ACTIVATED", "COMMITMENT_SUPERSEDED"}
  BY DEF ActivationEvents, EventTypes
<1>4. ASSUME NEW q \in DOMAIN quotes, CommitmentRecorded(q) PROVE Moved
  <2> DEFINE T == ActivationEvents
  <2>1. Entered /\ Audited(T) /\ CreateCommitment(q)
    BY <1>4 DEF CommitmentRecorded
  <2>2. /\ version' = version + 1 /\ status' = "COMMITTED" /\ status # "ESCALATED"
        /\ UNCHANGED mandates
        /\ Activate(quotes[q].call, q, quotes[q].terms)
    BY <2>1 DEF CreateCommitment, Committable, Consume, Transition, Negotiable
  <2>3. quotes[q] \in QuoteType /\ q \in Nat \ {0}
    BY <1>0, ElementOfSeq DEF TypeOK
  <2>4. quotes[q].call \in Calls /\ quotes[q].terms \in Terms
    BY <2>3 DEF QuoteType
  <2>5. Len(commitments') = Len(commitments) + 1
    BY <2>2, <2>3, <2>4, AgreedKept
  <2>6. /\ T \in SUBSET EventTypes /\ "COMMITMENT_ACTIVATED" \in T
        /\ T \subseteq {"COMMITMENT_ACTIVATED", "COMMITMENT_SUPERSEDED"}
    BY <1>a
  <2> HIDE DEF T
  <2>7. Tells(T, status, status')
    BY <2>2, <2>6 DEF Tells, EscalationEvents
  <2>8. Grows(T)
    BY <2>2, <2>5, <2>6 DEF Grows
  <2>9. QED
    BY <2>1, <2>2, <2>6, <2>7, <2>8
<1>5. ASSUME NEW i \in DOMAIN commitments, NEW terms \in Terms,
             ReplacementRecorded(i, terms)
      PROVE  Moved
  <2> DEFINE T == ActivationEvents \cup {"RECOVERY_REPLACEMENT_APPLIED"}
  <2>1. Entered /\ Audited(T) /\ RecoverInsideMandate(i, terms)
    BY <1>5 DEF ReplacementRecorded
  <2>2. /\ version' = version + 1 /\ status' = "COMMITTED"
        /\ UNCHANGED mandates /\ Unresolved = {}
        /\ Activate(commitments[i].call, Len(quotes) + 1, terms)
    BY <2>1 DEF RecoverInsideMandate, Transition
  <2>3. commitments[i] \in CommitmentType /\ Len(quotes) + 1 \in Nat \ {0}
    BY <1>0, ElementOfSeq DEF TypeOK
  <2>4. commitments[i].call \in Calls
    BY <2>3 DEF CommitmentType
  <2>5. Len(commitments') = Len(commitments) + 1
    BY <2>2, <2>3, <2>4, AgreedKept
  <2>6. /\ T \in SUBSET EventTypes /\ "COMMITMENT_ACTIVATED" \in T
        /\ T \subseteq {"COMMITMENT_ACTIVATED", "COMMITMENT_SUPERSEDED",
                        "RECOVERY_REPLACEMENT_APPLIED"}
    BY <1>a DEF EventTypes
  <2>7. status # "ESCALATED"
    BY <1>0, <2>2 DEF StatusReflectsRows
  <2> HIDE DEF T
  <2>8. Tells(T, status, status')
    BY <2>2, <2>6, <2>7 DEF Tells, EscalationEvents
  <2>9. Grows(T)
    BY <2>2, <2>5, <2>6 DEF Grows
  <2>10. QED
    BY <2>1, <2>2, <2>6, <2>8, <2>9
<1>6. ASSUME NEW i \in DOMAIN commitments, NEW terms \in Terms,
             EscalationRecorded(i, terms)
      PROVE  Moved
  <2> DEFINE T == {"POST_CONTACT_ESCALATED"}
  <2>1. Entered /\ Audited(T) /\ RecoverOutsideMandate(i, terms)
    BY <1>6 DEF EscalationRecorded
  <2>2. /\ version' = version + 1 /\ status' = "ESCALATED"
        /\ UNCHANGED <<mandates, commitments>> /\ Unresolved = {}
    BY <2>1 DEF RecoverOutsideMandate, Transition
  <2>3. status # "ESCALATED"
    BY <1>0, <2>2 DEF StatusReflectsRows
  <2>4. Tells(T, status, status')
    BY <2>2, <2>3 DEF Tells, EscalationEvents
  <2>5. T \in SUBSET EventTypes /\ T # {} /\ Grows(T)
    BY <2>2 DEF EventTypes, Grows
  <2> HIDE DEF T
  <2>6. QED
    BY <2>1, <2>2, <2>4, <2>5
<1>7. ASSUME NEW call \in Calls, ExplicitEscalationRecorded(call) PROVE Moved
  <2> DEFINE T == {"EXPLICIT_ESCALATION_CREATED"}
  <2>1. Entered /\ Audited(T) /\ CreateEscalation(call)
    BY <1>7 DEF ExplicitEscalationRecorded
  <2>2. /\ version' = version + 1 /\ status' = "ESCALATED" /\ call \in sessions
        /\ UNCHANGED <<mandates, commitments>> /\ Unresolved = {}
    BY <2>1 DEF CreateEscalation, Transition
  <2>3. status # "ESCALATED"
    BY <2>2 DEF StatusReflectsRows
  <2>4. Tells(T, status, status')
    BY <2>2, <2>3 DEF Tells, EscalationEvents
  <2>5. T \in SUBSET EventTypes /\ T # {} /\ Grows(T)
    BY <2>2 DEF EventTypes, Grows
  <2> HIDE DEF T
  <2>6. QED
    BY <2>1, <2>2, <2>4, <2>5
<1>8. ASSUME NEW e \in DOMAIN escalations, NEW m \in MandateTerms, MandateRecorded(e, m)
      PROVE  Moved
  <2> DEFINE T == ResolutionEvents
  <2>1. Entered /\ Audited(T) /\ ReplaceMandate(e, m)
    BY <1>8 DEF MandateRecorded
  <2>2. /\ version' = version + 1 /\ status' # "ESCALATED" /\ status = "ESCALATED"
        /\ UNCHANGED commitments /\ mandates' = Append(mandates, m)
    BY <2>1 DEF ReplaceMandate, Transition, ResumedStatus, Approved,
       StatusReflectsRows, Unresolved
  <2>3. m \in MandateType
    BY ConstantsAssumption
  <2>4. Len(mandates') = Len(mandates) + 1
    BY <1>0, <2>2, <2>3, AppendProperties
  <2>5. Tells(T, status, status')
    BY <2>2 DEF Tells, EscalationEvents, ResolutionEvents
  <2>6. T \in SUBSET EventTypes /\ T # {} /\ Grows(T)
    BY <2>2, <2>4 DEF EventTypes, Grows, ResolutionEvents
  <2> HIDE DEF T
  <2>7. QED
    BY <2>1, <2>2, <2>5, <2>6
<1>9. ASSUME NEW n \in DOMAIN notifications, NEW k \in Coordinators,
             AcknowledgementRecorded(n, k)
      PROVE  Moved
  <2> DEFINE T == {"NOTIFICATION_ACKNOWLEDGED"}
  <2>1. Entered /\ Audited(T) /\ AcknowledgeNotification(n, k)
    BY <1>9 DEF AcknowledgementRecorded
  <2>2. version' = version + 1 /\ UNCHANGED <<status, commitments, mandates>>
    BY <2>1 DEF AcknowledgeNotification, Transition
  <2>3. Tells(T, status, status')
    BY <2>2 DEF Tells, EscalationEvents
  <2>4. T \in SUBSET EventTypes /\ T # {} /\ Grows(T)
    BY <2>2 DEF EventTypes, Grows
  <2> HIDE DEF T
  <2>5. QED
    BY <2>1, <2>2, <2>3, <2>4
<1>10. ASSUME NEW kind \in DocumentKinds, NEW i \in DOMAIN commitments,
              PaperRecorded(kind, i)
       PROVE  Silent
  <2> DEFINE T == {IF kind = "brief" THEN "BRIEF_GENERATED" ELSE "RECAP_GENERATED"}
  <2>1. Audited(T) /\ GenerateDocument(kind, i) /\ UNCHANGED history
    BY <1>10 DEF PaperRecorded
  <2>2. T \in SUBSET PaperEvents
    BY DEF PaperEvents
  <2> HIDE DEF T
  <2>3. QED
    BY <2>1, <2>2 DEF GenerateDocument
<1>11. ASSUME UNCHANGED <<version, status, history, commitments, mandates, trail>>
       PROVE  Silent
  <2>1. Audited({})
    BY <1>11 DEF Audited
  <2>2. QED
    BY <1>11, <2>1
<1>12. ASSUME NEW call \in Calls, EvidenceAttached(call) PROVE Silent
  BY <1>11, <1>12 DEF EvidenceAttached, AttachEvidence
<1>13. ASSUME RecordsTick PROVE Silent
  BY <1>11, <1>13 DEF RecordsTick, Tick
<1>14. ASSUME UNCHANGED recordVars PROVE Silent
  BY <1>11, <1>14 DEF recordVars, vars
<1> HIDE DEF Moved, Silent
<1>15. Moved \/ Silent
  BY <1>1, <1>2, <1>4, <1>5, <1>6, <1>7, <1>8, <1>9, <1>10, <1>12, <1>13, <1>14
  DEF RecordsNext
<1>16. QED
  BY <1>15 DEF Moved, Silent

\* What an operation that has an event of a version was told of it.
EventsAt(v) == {t \in EventTypes : [version |-> v, type |-> t] \in trail}

\* Events are of versions that were reached.
TrailKnown == \A e \in trail : e.version \in 1 .. version /\ e.type \in EventTypes

\* The events of the version that is left, and those of the versions before it.
LEMMA EventsAdded ==
  ASSUME version \in Nat, version' \in Nat, TrailKnown,
         NEW v \in Nat, v = version', NEW T \in SUBSET EventTypes, Audited(T)
  PROVE  /\ EventsAt(v)' = EventsAt(v) \cup T
         /\ \A u : u # v => EventsAt(u)' = EventsAt(u)
         /\ v \notin 1 .. version => EventsAt(v)' = T
<1>1. \A u, t : [version |-> u, type |-> t] \in trail' <=>
         [version |-> u, type |-> t] \in trail \/ (u = v /\ t \in T)
  <2>1. trail' = trail \cup {[version |-> v, type |-> t] : t \in T}
    BY DEF Audited
  <2>2. QED
    BY <2>1
<1>2. \A t \in T : t \in EventTypes
  OBVIOUS
<1>3. v \notin 1 .. version => \A t : [version |-> v, type |-> t] \notin trail
  BY DEF TrailKnown
<1>4. QED
  BY <1>1, <1>2, <1>3 DEF EventsAt

\* The trail tells of version v what the history says of it.
TrailTold(v) == Tells(EventsAt(v), history[v - 1], history[v])

\* The versions with an event of a type.
VersionsWith(type) == {v \in 1 .. version : type \in EventsAt(v)}

\* The trail tells of every version, and of the number of the rows.
TrailTells ==
  /\ TrailKnown
  /\ \A v \in 1 .. version : EventsAt(v) # {}
  /\ \A v \in 2 .. version : TrailTold(v)
  /\ IsFiniteSet(VersionsWith("COMMITMENT_ACTIVATED"))
  /\ Cardinality(VersionsWith("COMMITMENT_ACTIVATED")) = Len(commitments)
  /\ IsFiniteSet(VersionsWith("MANDATE_REPLACED"))
  /\ Cardinality(VersionsWith("MANDATE_REPLACED")) + 1 = Len(mandates)

LEMMA TrailStep ==
  ASSUME TypeOK, StatusReflectsRows, HistoryKept, TrailTells, [RecordsNext]_recordVars
  PROVE  TrailTells'
<1>0. /\ version \in Nat \ {0} /\ history \in Seq(Statuses) /\ Len(history) = version
      /\ history[version] = status
      /\ Len(commitments) \in Nat /\ Len(mandates) \in Nat \ {0} /\ TrailKnown
  BY LenProperties, MandateInForce DEF TypeOK, HistoryKept, TrailTells
<1>1. ASSUME version' = version + 1, Entered,
             NEW T \in SUBSET EventTypes, T # {}, Audited(T),
             Tells(T, status, status'), Grows(T)
      PROVE  TrailTells'
  <2>1. PICK v \in Nat \ {0} : v = version + 1
    BY <1>0
  <2>2. /\ v = version' /\ v \notin 1 .. version
        /\ \A u \in 1 .. version' : (u \in 1 .. version /\ u # v) \/ u = v
        /\ \A u \in 2 .. version' :
             (u \in 2 .. version /\ u # v /\ u - 1 \in 1 .. version) \/ u = v
        /\ \A u \in 1 .. version : u # v
        /\ v - 1 = version
    BY <1>0, <1>1, <2>1
  <2>3. /\ EventsAt(v)' = T
        /\ \A u : u # v => EventsAt(u)' = EventsAt(u)
    BY <1>0, <1>1, <2>2, EventsAdded
  <2>4. /\ \A u \in 1 .. version : history'[u] = history[u]
        /\ history'[v] = status'
    <3>1. status' \in Statuses /\ history' = Append(history, status')
      BY <1>1, TypeStep, RecordsStep DEF Entered, TypeOK
    <3>2. QED
      BY <1>0, <2>1, <3>1, AppendProperties
  <2>5. TrailKnown'
    <3>1. trail' = trail \cup {[version |-> v, type |-> t] : t \in T}
      BY <1>1, <2>2 DEF Audited
    <3>2. 1 .. version \subseteq 1 .. version' /\ v \in 1 .. version'
      BY <1>0, <1>1, <2>1
    <3>3. QED
      BY <1>0, <3>1, <3>2 DEF TrailKnown
  <2>6. ASSUME NEW u \in 1 .. version' PROVE EventsAt(u)' # {}
    <3>1. CASE u = v
      BY <1>1, <2>3, <3>1
    <3>2. CASE u # v
      BY <2>2, <2>3, <3>2 DEF TrailTells
    <3>3. QED
      BY <3>1, <3>2
  <2>7. ASSUME NEW u \in 2 .. version' PROVE TrailTold(u)'
    <3>1. CASE u = v
      <4>1. EventsAt(u)' = T /\ history'[u - 1] = status /\ history'[u] = status'
        <5>1. version \in 1 .. version
          BY <1>0
        <5>2. QED
          BY <1>0, <2>2, <2>3, <2>4, <3>1, <5>1
      <4>2. QED
        BY <1>1, <4>1 DEF TrailTold, Tells
    <3>2. CASE u # v
      <4>1. u \in 2 .. version /\ u - 1 \in 1 .. version /\ u \in 1 .. version
        BY <1>0, <2>2, <3>2
      <4>2. /\ EventsAt(u)' = EventsAt(u)
            /\ history'[u - 1] = history[u - 1] /\ history'[u] = history[u]
        BY <2>3, <2>4, <3>2, <4>1
      <4>3. TrailTold(u)
        BY <4>1 DEF TrailTells
      <4>4. QED
        BY <4>2, <4>3 DEF TrailTold, Tells
    <3>3. QED
      BY <3>1, <3>2
  <2>8. ASSUME NEW type
        PROVE  /\ v \notin VersionsWith(type)
               /\ VersionsWith(type)' =
                    IF type \in T THEN VersionsWith(type) \cup {v} ELSE VersionsWith(type)
    <3>1. v \in 1 .. version' /\ 1 .. version \subseteq 1 .. version'
      BY <1>0, <1>1, <2>1
    <3>2. \A u \in 1 .. version : type \in EventsAt(u)' <=> type \in EventsAt(u)
      BY <2>2, <2>3
    <3>3. type \in EventsAt(v)' <=> type \in T
      BY <2>3
    <3>4. QED
      BY <2>2, <3>1, <3>2, <3>3 DEF VersionsWith
  <2>9. ASSUME NEW type, NEW n \in Nat, IsFiniteSet(VersionsWith(type)),
               Cardinality(VersionsWith(type)) = n
        PROVE  /\ IsFiniteSet(VersionsWith(type)')
               /\ Cardinality(VersionsWith(type)') = IF type \in T THEN n + 1 ELSE n
    <3> DEFINE S == VersionsWith(type)
    <3>1. v \notin S /\ VersionsWith(type)' = IF type \in T THEN S \cup {v} ELSE S
      BY <2>8
    <3>2. IsFiniteSet(S) /\ Cardinality(S) = n
      BY <2>9
    <3> HIDE DEF S
    <3>3. IsFiniteSet(S \cup {v}) /\ Cardinality(S \cup {v}) = n + 1
      BY <3>1, <3>2, FS_AddElement
    <3>4. QED
      BY <3>1, <3>2, <3>3
  <2>10. /\ IsFiniteSet(VersionsWith("COMMITMENT_ACTIVATED")')
         /\ Cardinality(VersionsWith("COMMITMENT_ACTIVATED")') = Len(commitments')
         /\ IsFiniteSet(VersionsWith("MANDATE_REPLACED")')
         /\ Cardinality(VersionsWith("MANDATE_REPLACED")') + 1 = Len(mandates')
    <3>1. /\ IsFiniteSet(VersionsWith("COMMITMENT_ACTIVATED"))
          /\ Cardinality(VersionsWith("COMMITMENT_ACTIVATED")) = Len(commitments)
          /\ IsFiniteSet(VersionsWith("MANDATE_REPLACED"))
          /\ Cardinality(VersionsWith("MANDATE_REPLACED")) + 1 = Len(mandates)
      BY DEF TrailTells
    <3>2. PICK n \in Nat : n = Cardinality(VersionsWith("MANDATE_REPLACED"))
      BY <3>1, FS_CardinalityType
    <3>3. /\ IsFiniteSet(VersionsWith("COMMITMENT_ACTIVATED")')
          /\ Cardinality(VersionsWith("COMMITMENT_ACTIVATED")') =
               IF "COMMITMENT_ACTIVATED" \in T THEN Len(commitments) + 1
               ELSE Len(commitments)
      BY <1>0, <2>9, <3>1, Zenon
    <3>4. /\ IsFiniteSet(VersionsWith("MANDATE_REPLACED")')
          /\ Cardinality(VersionsWith("MANDATE_REPLACED")') =
               IF "MANDATE_REPLACED" \in T THEN n + 1 ELSE n
      BY <2>9, <3>1, <3>2, Zenon
    <3>5. n + 1 = Len(mandates)
      BY <3>1, <3>2
    <3>6. QED
      BY <1>1, <3>3, <3>4, <3>5 DEF Grows
  <2>11. QED
    BY <2>5, <2>6, <2>7, <2>10 DEF TrailTells
<1>2. ASSUME UNCHANGED <<version, status, history, commitments, mandates>>,
             NEW T \in SUBSET PaperEvents, Audited(T)
      PROVE  TrailTells'
  <2>1. T \in SUBSET EventTypes
    BY <1>2 DEF PaperEvents, EventTypes
  <2>2. PICK v \in Nat \ {0} : v = version
    BY <1>0
  <2>3. /\ EventsAt(v)' = EventsAt(v) \cup T
        /\ \A u : u # v => EventsAt(u)' = EventsAt(u)
    <3>1. v = version' /\ version' \in Nat /\ version \in Nat
      BY <1>0, <1>2, <2>2
    <3>2. QED
      BY <1>0, <1>2, <2>1, <3>1, EventsAdded
  <2>4. \A u : EventsAt(u) \subseteq EventsAt(u)' /\ EventsAt(u)' \subseteq EventsAt(u) \cup T
    BY <2>3
  <2>5. \A t \in T : t \notin EscalationEvents
          /\ t \notin {"ESCALATION_RESOLVED", "MANDATE_REPLACED",
                       "COMMITMENT_SUPERSEDED", "COMMITMENT_ACTIVATED"}
    BY <1>2 DEF PaperEvents, EscalationEvents
  <2>6. TrailKnown'
    <3>1. trail' = trail \cup {[version |-> v, type |-> t] : t \in T}
      BY <1>2, <2>2 DEF Audited
    <3>2. v \in 1 .. version
      BY <1>0, <2>2
    <3>3. QED
      BY <1>0, <1>2, <2>1, <3>1, <3>2 DEF TrailKnown
  <2>7. \A u \in 1 .. version' : EventsAt(u)' # {}
    BY <1>2, <2>4 DEF TrailTells
  <2>8. ASSUME NEW u \in 2 .. version' PROVE TrailTold(u)'
    <3>1. TrailTold(u)
      BY <1>2 DEF TrailTells
    <3>2. EventsAt(u)' \cap EscalationEvents = EventsAt(u) \cap EscalationEvents
      BY <2>4, <2>5
    <3>3. \A t \in {"ESCALATION_RESOLVED", "MANDATE_REPLACED",
                    "COMMITMENT_SUPERSEDED", "COMMITMENT_ACTIVATED"} :
            t \in EventsAt(u)' <=> t \in EventsAt(u)
      BY <2>4, <2>5
    <3>4. QED
      BY <1>2, <3>1, <3>2, <3>3 DEF TrailTold, Tells
  <2>9. \A type \in {"MANDATE_REPLACED", "COMMITMENT_ACTIVATED"} :
          VersionsWith(type)' = VersionsWith(type)
    BY <1>2, <2>4, <2>5 DEF VersionsWith
  <2>10. QED
    BY <1>2, <2>6, <2>7, <2>8, <2>9 DEF TrailTells
<1>3. QED
  BY <1>1, <1>2, HowAudited

LEMMA TrailInvariant == RecordsSpec => []TrailTells
<1>1. RecordsInit => TrailTells
  <2> SUFFICES ASSUME RecordsInit PROVE TrailTells
    OBVIOUS
  <2>1. /\ version = 1 /\ commitments = <<>>
        /\ trail = {[version |-> 1, type |-> "OPERATION_APPROVED"]}
    BY DEF RecordsInit, Init
  <2>2. Len(mandates) = 1
    BY DEF RecordsInit, Init
  <2>3. TrailKnown
    BY <2>1 DEF TrailKnown, EventTypes
  <2>4. EventsAt(1) = {"OPERATION_APPROVED"}
    BY <2>1 DEF EventsAt, EventTypes
  <2>5. /\ VersionsWith("COMMITMENT_ACTIVATED") = {}
        /\ VersionsWith("MANDATE_REPLACED") = {}
    BY <2>1, <2>4 DEF VersionsWith
  <2>6. /\ \A v \in 1 .. version : EventsAt(v) # {}
        /\ \A v \in 2 .. version : TrailTold(v)
    BY <2>1, <2>4
  <2>7. QED
    <3>1. IsFiniteSet({}) /\ Cardinality({}) = 0
      BY FS_EmptySet
    <3>2. Len(commitments) = 0
      BY <2>1
    <3>3. /\ IsFiniteSet(VersionsWith("COMMITMENT_ACTIVATED"))
          /\ Cardinality(VersionsWith("COMMITMENT_ACTIVATED")) = 0
          /\ IsFiniteSet(VersionsWith("MANDATE_REPLACED"))
          /\ Cardinality(VersionsWith("MANDATE_REPLACED")) = 0
      BY <2>5, <3>1
    <3>4. QED
      BY <2>2, <2>3, <2>6, <3>2, <3>3 DEF TrailTells
<1>2. /\ TypeOK /\ StatusReflectsRows /\ (HistoryKept /\ EvidenceKnown) /\ TrailTells
      /\ [RecordsNext]_recordVars
      => TrailTells'
  BY TrailStep
<1>3. RecordsSpec => /\ []TypeOK /\ []StatusReflectsRows
                     /\ [](HistoryKept /\ EvidenceKnown)
  BY RecordsImplement, TypeInvariant, StatusInvariant, KnownInvariant, PTL
<1>4. QED
  BY <1>1, <1>2, <1>3, PTL DEF RecordsSpec

\* The audit trail tells the history of the operation: each version has the
\* events of the one mutation that made it, and neither a brief nor a recap adds
\* an event that speaks of the status, a commitment or a mandate.
THEOREM TrailTellsHistory == RecordsSpec => []AuditExplainsHistory
<1>1. TypeOK /\ (HistoryKept /\ EvidenceKnown) /\ TrailTells => AuditExplainsHistory
  <2> SUFFICES ASSUME TypeOK, HistoryKept, TrailTells PROVE AuditExplainsHistory
    OBVIOUS
  <2>1. ASSUME NEW v, NEW S \in SUBSET EventTypes
        PROVE  At(v, S) <=> EventsAt(v) \cap S # {}
    BY DEF At, EventsAt
  <2>2. /\ EscalationEvents \in SUBSET EventTypes
        /\ \A t \in {"ESCALATION_RESOLVED", "MANDATE_REPLACED", "COMMITMENT_SUPERSEDED",
                     "COMMITMENT_ACTIVATED"} : {t} \in SUBSET EventTypes
        /\ EventTypes \in SUBSET EventTypes
    BY DEF EscalationEvents, EventTypes
  <2>3. \A v : /\ At(v, EventTypes) <=> EventsAt(v) # {}
               /\ At(v, EscalationEvents) <=> EventsAt(v) \cap EscalationEvents # {}
               /\ \A t \in {"ESCALATION_RESOLVED", "MANDATE_REPLACED",
                            "COMMITMENT_SUPERSEDED", "COMMITMENT_ACTIVATED"} :
                    At(v, {t}) <=> t \in EventsAt(v)
    <3>1. \A v : EventsAt(v) \cap EventTypes = EventsAt(v)
      BY DEF EventsAt
    <3>2. QED
      BY <2>1, <2>2, <3>1
  <2>4. Len(history) = version /\ history[version] = status
    BY DEF HistoryKept
  <2>5. \A v \in 1 .. version : At(v, EventTypes)
    BY <2>3 DEF TrailTells
  <2>6. ASSUME NEW v \in 2 .. version
        PROVE  /\ history[v] = "ESCALATED" /\ history[v - 1] # "ESCALATED" <=>
                    At(v, EscalationEvents)
               /\ history[v] # "ESCALATED" /\ history[v - 1] = "ESCALATED" <=>
                    At(v, {"ESCALATION_RESOLVED"})
               /\ At(v, {"ESCALATION_RESOLVED"}) <=> At(v, {"MANDATE_REPLACED"})
               /\ At(v, {"COMMITMENT_SUPERSEDED"}) => At(v, {"COMMITMENT_ACTIVATED"})
               /\ history[v] = "COMMITTED" /\ history[v - 1] = "NEGOTIATING" =>
                    At(v, {"COMMITMENT_ACTIVATED"})
    <3>1. TrailTold(v)
      BY DEF TrailTells
    <3>2. QED
      BY <2>3, <3>1 DEF TrailTold, Tells
  <2>7. /\ {v \in 1 .. version : At(v, {"COMMITMENT_ACTIVATED"})}
             = VersionsWith("COMMITMENT_ACTIVATED")
        /\ {v \in 1 .. version : At(v, {"MANDATE_REPLACED"})}
             = VersionsWith("MANDATE_REPLACED")
    BY <2>3 DEF VersionsWith
  <2>8. /\ Cardinality(VersionsWith("COMMITMENT_ACTIVATED")) = Len(commitments)
        /\ Cardinality(VersionsWith("MANDATE_REPLACED")) = Len(mandates) - 1
    <3>1. Cardinality(VersionsWith("MANDATE_REPLACED")) \in Nat
      BY FS_CardinalityType DEF TrailTells
    <3>2. QED
      BY <3>1 DEF TrailTells
  <2>9. QED
    BY <2>4, <2>5, <2>6, <2>7, <2>8 DEF AuditExplainsHistory, EscalationEvents
<1>2. RecordsSpec => []TypeOK /\ [](HistoryKept /\ EvidenceKnown)
  BY RecordsImplement, TypeInvariant, KnownInvariant, PTL
<1>3. QED
  BY <1>1, <1>2, TrailInvariant, PTL

-----------------------------------------------------------------------------
(* The rows no step takes back.                                            *)

\* Every commitment stays, and so does everything it agrees.
LEMMA CommitmentsGrow ==
  ASSUME TypeOK, [Next]_vars
  PROVE  \A i \in DOMAIN commitments :
           /\ i \in DOMAIN commitments'
           /\ commitments'[i].call = commitments[i].call
           /\ commitments'[i].quote = commitments[i].quote
           /\ commitments'[i].terms = commitments[i].terms
           /\ commitments'[i].mandate = commitments[i].mandate
           /\ commitments'[i].replaces = commitments[i].replaces
<1>1. CASE UNCHANGED commitments
  BY <1>1
<1>2. ASSUME NEW call \in Calls, NEW quote \in Nat \ {0}, NEW terms \in Terms,
             Activate(call, quote, terms), NEW i \in DOMAIN commitments
      PROVE  /\ i \in DOMAIN commitments'
             /\ commitments'[i].call = commitments[i].call
             /\ commitments'[i].quote = commitments[i].quote
             /\ commitments'[i].terms = commitments[i].terms
             /\ commitments'[i].mandate = commitments[i].mandate
             /\ commitments'[i].replaces = commitments[i].replaces
  <2>1. /\ i \in DOMAIN commitments'
        /\ commitments'[i].call = commitments[i].call
        /\ commitments'[i].quote = commitments[i].quote
        /\ commitments'[i].terms = commitments[i].terms
        /\ commitments'[i].mandate = commitments[i].mandate
    BY <1>2, AgreedKept
  <2>2. commitments'[i].replaces = commitments[i].replaces
    <3>1. /\ DOMAIN commitments = 1 .. Len(commitments)
          /\ \A j \in 1 .. Len(commitments) :
              commitments'[j] =
                IF j = Winner
                THEN [commitments[j] EXCEPT !.active = FALSE,
                                            !.replacedBy = Len(commitments) + 1]
                ELSE commitments[j]
      BY <1>2, Activated DEF TypeOK
    <3>2. commitments[i] \in CommitmentType
      BY <3>1, ElementOfSeq DEF TypeOK
    <3>3. [commitments[i] EXCEPT !.active = FALSE,
             !.replacedBy = Len(commitments) + 1].replaces = commitments[i].replaces
      BY <3>2 DEF CommitmentType
    <3>4. i \in 1 .. Len(commitments)
      BY <3>1
    <3>5. QED
      BY <3>1, <3>3, <3>4
  <2>3. QED
    BY <2>1, <2>2
<1>3. QED
  BY <1>1, <1>2, OnlyTwoAgree

\* Carriers are selected once.
LEMMA SessionsGrow ==
  ASSUME [Next]_vars
  PROVE  sessions \subseteq sessions'
BY DEF Next, vars, StartNegotiation, RecordQuote, AttachEvidence, CreateCommitment, Committable, Consume,
   RecoverInsideMandate, RecoverOutsideMandate, CreateEscalation, ReplaceMandate,
   AcknowledgeNotification, GenerateDocument, Tick

\* A reservation is for a quote, and one that was consumed stays.
LEMMA ReservationsGrow ==
  ASSUME TypeOK, EvidenceFollowsQuote, [Next]_vars
  PROVE  /\ \A r \in reservations : r.consumedBy # 0 => r \in reservations'
         /\ \A r \in reservations' :
              \/ r.quote \in DOMAIN quotes
              \/ \E s \in reservations : s.quote = r.quote
<1>1. CASE UNCHANGED commitments
  BY <1>1, OnlyEvidence
<1>2. ASSUME NEW q \in DOMAIN quotes, CreateCommitment(q)
      PROVE  /\ \A r \in reservations : r.consumedBy # 0 => r \in reservations'
             /\ \A r \in reservations' :
                  \/ r.quote \in DOMAIN quotes
                  \/ \E s \in reservations : s.quote = r.quote
  <2>1. PICK r \in reservations, s \in ReservationType :
           /\ r.quote = q /\ r.consumedBy = 0
           /\ s.quote = q /\ s.consumedBy = Len(commitments) + 1
           /\ reservations' = (reservations \ {r}) \cup {s}
    BY <1>2, Consumed
  <2>2. QED
    BY <2>1
<1>3. CASE UNCHANGED reservations
  BY <1>3
<1>4. QED
  BY <1>1, <1>2, <1>3, HowAgreed

-----------------------------------------------------------------------------
(* The lists of rows.                                                      *)

\* The rows of a step that is none of the four that add to the lists.
SameRows ==
  /\ UNCHANGED <<recoveries, contexts, decisions, papers, documents>>
  /\ DOMAIN escalations' = DOMAIN escalations
  /\ \A e \in DOMAIN escalations :
       escalations'[e].commitment = escalations[e].commitment
  /\ DOMAIN notifications' = DOMAIN notifications
  /\ \A n \in DOMAIN notifications :
       notifications'[n].commitment = notifications[n].commitment

LEMMA OtherRows ==
  ASSUME TypeOK, [RecordsNext]_recordVars
  PROVE  \/ SameRows
         \/ \E i \in DOMAIN commitments, terms \in Terms : ReplacementRecorded(i, terms)
         \/ \E i \in DOMAIN commitments, terms \in Terms : EscalationRecorded(i, terms)
         \/ \E call \in Calls : ExplicitEscalationRecorded(call)
         \/ \E kind \in DocumentKinds, i \in DOMAIN commitments : PaperRecorded(kind, i)
<1>1. ASSUME UNCHANGED <<escalations, notifications, documents,
                         recoveries, contexts, decisions, papers>>
      PROVE  SameRows
  BY <1>1 DEF SameRows
<1>2. ASSUME NEW selected \in SUBSET Calls, StartRecorded(selected) PROVE SameRows
  BY <1>1, <1>2 DEF StartRecorded, StartNegotiation, rows
<1>3. ASSUME NEW call \in Calls, NEW terms \in Terms, NEW until \in 0 .. MaxNow + 1,
             QuoteRecorded(call, terms, until)
      PROVE  SameRows
  BY <1>1, <1>3 DEF QuoteRecorded, RecordQuote, rows
<1>4. ASSUME NEW call \in Calls, EvidenceAttached(call) PROVE SameRows
  BY <1>1, <1>4 DEF EvidenceAttached, AttachEvidence, rows
<1>5. ASSUME NEW q \in DOMAIN quotes, CommitmentRecorded(q) PROVE SameRows
  BY <1>1, <1>5 DEF CommitmentRecorded, CreateCommitment, Committable, Consume
<1>6. ASSUME NEW e \in DOMAIN escalations, NEW m \in MandateTerms, MandateRecorded(e, m)
      PROVE  SameRows
  <2>1. /\ UNCHANGED <<notifications, documents, recoveries, contexts, decisions, papers>>
        /\ escalations' = [escalations EXCEPT ![e].resolved = TRUE]
    BY <1>6 DEF MandateRecorded, ReplaceMandate, rows
  <2>2. DOMAIN escalations' = DOMAIN escalations
    BY <2>1
  <2>3. ASSUME NEW d \in DOMAIN escalations
        PROVE  escalations'[d].commitment = escalations[d].commitment
    <3>1. escalations[d] \in EscalationType
      BY LenProperties, ElementOfSeq DEF TypeOK
    <3>2. escalations'[d] = IF d = e THEN [escalations[d] EXCEPT !.resolved = TRUE]
                            ELSE escalations[d]
      BY <2>1
    <3>3. QED
      BY <3>1, <3>2 DEF EscalationType
  <2>4. QED
    BY <2>1, <2>2, <2>3 DEF SameRows
<1>7. ASSUME NEW n \in DOMAIN notifications, NEW k \in Coordinators,
             AcknowledgementRecorded(n, k)
      PROVE  SameRows
  <2>1. /\ UNCHANGED <<commitments, escalations, documents,
                       recoveries, contexts, decisions, papers>>
        /\ [Next]_vars
    BY <1>7, Zenon DEF AcknowledgementRecorded, AcknowledgeNotification, rows, Next
  <2>2. QED
    BY <2>1, NoticesKept DEF SameRows
<1>8. ASSUME RecordsTick PROVE SameRows
  BY <1>1, <1>8 DEF RecordsTick, Tick, rows
<1>9. ASSUME UNCHANGED recordVars PROVE SameRows
  BY <1>1, <1>9 DEF recordVars, vars, rows
<1>10. QED
  BY <1>2, <1>3, <1>4, <1>5, <1>6, <1>7, <1>8, <1>9 DEF RecordsNext

\* The attempt and the decision of a replacement of the newest commitment i, and
\* the attempt that escalates over i.
Replacing(i) ==
  [commitment |-> i, scenario |-> "MANDATE_SAFE",
   before |-> version, after |-> version + 1, outcome |-> "REPLACED",
   resulting |-> i + 1, escalation |-> 0]

Deciding(i) ==
  [version |-> version + 1,
   before |-> DecisionState(version, "COMMITTED", i, commitments),
   after |-> DecisionState(version + 1, "COMMITTED", i + 1, commitments')]

Escalating(i) ==
  [commitment |-> i, scenario |-> "OUT_OF_MANDATE",
   before |-> version, after |-> version + 1, outcome |-> "ESCALATED",
   resulting |-> 0, escalation |-> Len(escalations) + 1]

\* What each of the four adds.
LEMMA ReplacementAdds ==
  ASSUME TypeOK, StatusReflectsRows, OneWinnerChain, RecordsTypeOK,
         NEW i \in DOMAIN commitments, NEW terms \in Terms,
         ReplacementRecorded(i, terms)
  PROVE  /\ UNCHANGED <<contexts, papers, documents, escalations, reservations,
                        sessions>>
         /\ i = Len(commitments)
         /\ Activate(commitments[i].call, Len(quotes) + 1, terms)
         /\ commitments[i].call \in Calls
         /\ DOMAIN commitments' = 1 .. i + 1
         /\ commitments'[i + 1].call = commitments[i].call
         /\ commitments'[i + 1].terms = terms
         /\ commitments'[i + 1].replaces = i
         /\ evidence' = evidence \cup
              {[commitment |-> i + 1, recording |-> RecoveryRecording]}
         /\ recoveries' = Append(recoveries, Replacing(i))
         /\ Replacing(i) \in RecoveryType
         /\ Notify(i + 1)
         /\ decisions' = Append(decisions, Deciding(i))
         /\ Deciding(i) \in DecisionType
<1>1. /\ Winner = i /\ status' = "COMMITTED" /\ version' = version + 1
      /\ Unresolved = {}
      /\ UNCHANGED <<contexts, papers, documents, escalations, reservations, sessions>>
      /\ Activate(commitments[i].call, Len(quotes) + 1, terms)
      /\ Notify(Len(commitments) + 1)
      /\ evidence' = evidence \cup
           {[commitment |-> Len(commitments'), recording |-> RecoveryRecording]}
      /\ recoveries' = Append(recoveries, ReplacedAttempt(i))
      /\ decisions' = Append(decisions,
           [version |-> version',
            before |-> DecisionState(version, status, i, commitments),
            after |-> DecisionState(version', status', Len(commitments'), commitments')])
  BY DEF ReplacementRecorded, RecoverInsideMandate, Transition
<1>2. /\ Len(commitments) \in Nat /\ DOMAIN commitments = 1 .. Len(commitments)
      /\ Len(quotes) + 1 \in Nat \ {0} /\ commitments[i] \in CommitmentType
  BY LenProperties, ElementOfSeq DEF TypeOK
<1>3. i = Len(commitments) /\ commitments[i].call \in Calls
  BY <1>1, <1>2, ChainWinner DEF TypeOK, CommitmentType
<1>4. /\ DOMAIN commitments' = 1 .. i + 1 /\ Len(commitments') = i + 1
      /\ commitments'[i + 1] =
           [call |-> commitments[i].call, quote |-> Len(quotes) + 1, terms |-> terms,
            mandate |-> Len(mandates), active |-> TRUE,
            replaces |-> Winner, replacedBy |-> 0]
  BY <1>1, <1>2, <1>3, Activated DEF TypeOK
<1>5. status = "COMMITTED"
  <2>1. status # "ESCALATED"
    BY <1>1, <1>2 DEF StatusReflectsRows
  <2>2. QED
    BY <1>1, <1>2, <2>1 DEF StatusReflectsRows
<1>6. Replacing(i) \in RecoveryType
  BY <1>2 DEF Replacing, RecoveryType, TypeOK
<1>7. Deciding(i) \in DecisionType
  <2>1. /\ version \in Nat \ {0} /\ i \in Nat \ {0}
        /\ commitments[i].call \in Calls /\ commitments[i].terms \in Terms
        /\ commitments'[i + 1].call \in Calls /\ commitments'[i + 1].terms \in Terms
    BY <1>2, <1>3, <1>4 DEF CommitmentType, TypeOK
  <2>2. DecisionState(version, "COMMITTED", i, commitments) \in DecisionStateType
    BY <2>1 DEF DecisionState, DecisionStateType, Statuses
  <2>3. DecisionState(version + 1, "COMMITTED", i + 1, commitments')
          \in DecisionStateType
    BY <2>1 DEF DecisionState, DecisionStateType, Statuses
  <2>4. QED
    BY <2>1, <2>2, <2>3 DEF Deciding, DecisionType
<1>8. QED
  BY <1>1, <1>3, <1>4, <1>5, <1>6, <1>7 DEF ReplacedAttempt, Replacing, Deciding

LEMMA EscalationAdds ==
  ASSUME TypeOK, NEW i \in DOMAIN commitments, NEW terms \in Terms,
         EscalationRecorded(i, terms)
  PROVE  /\ UNCHANGED <<evidence, decisions, papers, documents, commitments,
                        notifications, reservations, sessions>>
         /\ commitments[i].call \in Calls
         /\ escalations' = Append(escalations, [commitment |-> i,
              mandate |-> Len(mandates), resolved |-> FALSE])
         /\ Len(escalations') = Len(escalations) + 1
         /\ recoveries' = Append(recoveries, Escalating(i))
         /\ Escalating(i) \in RecoveryType
         /\ contexts' = Append(contexts, [call |-> commitments[i].call,
              reason |-> "OUT_OF_MANDATE", version |-> version])
<1>1. /\ UNCHANGED <<evidence, decisions, papers, documents, commitments,
                     notifications, reservations, sessions>>
      /\ escalations' = Append(escalations, [commitment |-> i,
           mandate |-> Len(mandates), resolved |-> FALSE])
      /\ recoveries' = Append(recoveries, EscalatedAttempt(i))
      /\ contexts' = Append(contexts, Context(commitments[i].call, "OUT_OF_MANDATE"))
  BY DEF EscalationRecorded, RecoverOutsideMandate
<1>2. commitments[i] \in CommitmentType /\ i \in Nat /\ Len(mandates) \in Nat \ {0}
  BY LenProperties, ElementOfSeq, MandateInForce DEF TypeOK
<1>3. Len(escalations') = Len(escalations) + 1
  <2>1. [commitment |-> i, mandate |-> Len(mandates), resolved |-> FALSE]
          \in EscalationType
    BY <1>2 DEF EscalationType
  <2>2. QED
    BY <1>1, <2>1, AppendProperties DEF TypeOK
<1>4. Escalating(i) \in RecoveryType
  <2>1. i \in Nat \ {0} /\ version \in Nat \ {0} /\ Len(escalations) \in Nat
    BY LenProperties DEF TypeOK
  <2>2. QED
    BY <2>1 DEF Escalating, RecoveryType
<1>5. QED
  BY <1>1, <1>2, <1>3, <1>4 DEF EscalatedAttempt, Escalating, Context, CommitmentType

LEMMA ExplicitAdds ==
  ASSUME TypeOK, NEW call \in Calls, ExplicitEscalationRecorded(call)
  PROVE  /\ UNCHANGED <<evidence, decisions, papers, documents, commitments,
                        notifications, reservations, sessions, recoveries>>
         /\ call \in sessions
         /\ \E c \in {0} \cup DOMAIN commitments :
              escalations' = Append(escalations, [commitment |-> c,
                mandate |-> Len(mandates), resolved |-> FALSE])
         /\ contexts' = Append(contexts, [call |-> call,
              reason |-> "EXPLICIT_COORDINATOR_ESCALATION", version |-> version])
<1> DEFINE c == IF Winner # 0 /\ commitments[Winner].call = call THEN Winner ELSE 0
<1>1. /\ UNCHANGED <<evidence, decisions, papers, documents, commitments,
                     notifications, reservations, sessions, recoveries>>
      /\ call \in sessions
      /\ escalations' = Append(escalations, [commitment |-> c,
           mandate |-> Len(mandates), resolved |-> FALSE])
      /\ contexts' = Append(contexts, Context(call, "EXPLICIT_COORDINATOR_ESCALATION"))
  BY DEF ExplicitEscalationRecorded, CreateEscalation
<1>2. c \in {0} \cup DOMAIN commitments
  BY WinnerFound DEF TypeOK
<1> HIDE DEF c
<1>3. QED
  BY <1>1, <1>2 DEF Context

LEMMA PaperAdds ==
  ASSUME TypeOK, NEW kind \in DocumentKinds, NEW i \in DOMAIN commitments,
         PaperRecorded(kind, i)
  PROVE  /\ UNCHANGED <<evidence, decisions, contexts, recoveries, commitments,
                        escalations, notifications, reservations, sessions>>
         /\ <<kind, i>> \notin documents
         /\ documents' = documents \cup {<<kind, i>>}
         /\ \E p \in PaperType :
              /\ p.kind = kind /\ p.commitment = i /\ p.call = commitments[i].call
              /\ papers' = papers \cup {p}
<1>1. /\ UNCHANGED <<evidence, decisions, contexts, recoveries, commitments,
                     escalations, notifications, reservations, sessions>>
      /\ <<kind, i>> \notin documents
      /\ documents' = documents \cup {<<kind, i>>}
      /\ papers' = papers \cup {Paper(kind, i)}
  BY DEF PaperRecorded, GenerateDocument
<1>2. commitments[i] \in CommitmentType /\ i \in Nat \ {0}
  BY LenProperties, ElementOfSeq DEF TypeOK
<1>3. /\ Paper(kind, i) \in PaperType
      /\ Paper(kind, i).kind = kind /\ Paper(kind, i).commitment = i
      /\ Paper(kind, i).call = commitments[i].call
  BY <1>2 DEF Paper, PaperType, CommitmentType
<1>4. QED
  BY <1>1, <1>3

-----------------------------------------------------------------------------
(* Types of the rows.                                                      *)

LEMMA RecordsTypeStep ==
  ASSUME TypeOK, StatusReflectsRows, OneWinnerChain, RecordsTypeOK,
         HistoryKept', EvidenceKnown', TrailKnown', [RecordsNext]_recordVars
  PROVE  RecordsTypeOK'
<1> DEFINE Typed == /\ recoveries' \in Seq(RecoveryType)
                    /\ contexts' \in Seq(ContextType)
                    /\ decisions' \in Seq(DecisionType)
                    /\ papers' \subseteq PaperType
<1>0. /\ recoveries \in Seq(RecoveryType) /\ contexts \in Seq(ContextType)
      /\ decisions \in Seq(DecisionType) /\ papers \subseteq PaperType
      /\ trail \subseteq AuditEventType
      /\ version \in Nat \ {0}
      /\ DOMAIN commitments = 1 .. Len(commitments) /\ Len(commitments) \in Nat
      /\ Len(escalations) \in Nat
  BY LenProperties DEF RecordsTypeOK, TypeOK
<1>1. ASSUME SameRows PROVE Typed
  <2>1. /\ recoveries' = recoveries /\ contexts' = contexts
        /\ decisions' = decisions /\ papers' = papers
    BY <1>1 DEF SameRows
  <2>2. QED
    BY <1>0, <2>1
<1>2. ASSUME NEW i \in DOMAIN commitments, NEW terms \in Terms,
             ReplacementRecorded(i, terms)
      PROVE  Typed
  <2>1. /\ contexts' = contexts /\ papers' = papers
        /\ recoveries' = Append(recoveries, Replacing(i))
        /\ decisions' = Append(decisions, Deciding(i))
        /\ Replacing(i) \in RecoveryType /\ Deciding(i) \in DecisionType
    BY <1>2, ReplacementAdds
  <2>2. QED
    BY <1>0, <2>1, AppendProperties
<1>3. ASSUME NEW i \in DOMAIN commitments, NEW terms \in Terms,
             EscalationRecorded(i, terms)
      PROVE  Typed
  <2> DEFINE x == [call |-> commitments[i].call, reason |-> "OUT_OF_MANDATE",
                   version |-> version]
  <2>1. /\ decisions' = decisions /\ papers' = papers /\ commitments[i].call \in Calls
        /\ recoveries' = Append(recoveries, Escalating(i))
        /\ Escalating(i) \in RecoveryType /\ contexts' = Append(contexts, x)
    BY <1>3, EscalationAdds
  <2>2. x \in ContextType
    BY <1>0, <2>1 DEF ContextType
  <2> HIDE DEF x
  <2>3. QED
    BY <1>0, <2>1, <2>2, AppendProperties
<1>4. ASSUME NEW call \in Calls, ExplicitEscalationRecorded(call) PROVE Typed
  <2> DEFINE x == [call |-> call, reason |-> "EXPLICIT_COORDINATOR_ESCALATION",
                   version |-> version]
  <2>1. UNCHANGED <<decisions, papers, recoveries>> /\ contexts' = Append(contexts, x)
    BY <1>4, ExplicitAdds
  <2>2. x \in ContextType
    BY <1>0 DEF ContextType
  <2> HIDE DEF x
  <2>3. QED
    BY <1>0, <2>1, <2>2, AppendProperties
<1>5. ASSUME NEW kind \in DocumentKinds, NEW i \in DOMAIN commitments,
             PaperRecorded(kind, i)
      PROVE  Typed
  <2>1. /\ recoveries' = recoveries /\ contexts' = contexts /\ decisions' = decisions
        /\ \E p \in PaperType : papers' = papers \cup {p}
    BY <1>5, PaperAdds
  <2>2. QED
    BY <1>0, <2>1
<1> HIDE DEF Typed
<1>6. Typed
  BY <1>1, <1>2, <1>3, <1>4, <1>5, OtherRows
<1>7. trail' \subseteq AuditEventType
  <2>1. \E T : Audited(T) \/ UNCHANGED trail
    BY HowAudited
  <2>2. version' \in Nat
    BY TypeStep, RecordsStep DEF TypeOK
  <2>3. \A e \in trail' : e \in AuditEventType
    <3>1. ASSUME NEW T, Audited(T), NEW e \in trail' PROVE e \in AuditEventType
      <4>1. e \in trail \/ \E t \in T : e = [version |-> version', type |-> t]
        BY <3>1 DEF Audited
      <4>2. e.version \in Nat \ {0} /\ e.type \in EventTypes
        BY <2>2 DEF TrailKnown
      <4>3. QED
        BY <1>0, <4>1, <4>2 DEF AuditEventType
    <3>2. QED
      BY <1>0, <2>1, <3>1
  <2>4. QED
    BY <2>3
<1>8. QED
  BY <1>6, <1>7 DEF Typed, RecordsTypeOK, HistoryKept, EvidenceKnown

-----------------------------------------------------------------------------
(* The references of the rows.                                             *)

\* Quotes are of the selected carriers, and so are commitments and papers.
QuoteReferences ==
  /\ QuoteKeys
  /\ \A r \in reservations : r.quote \in DOMAIN quotes

\* An escalation and its context are one row, a notification and its decision
\* another.
ListReferences ==
  /\ DOMAIN contexts = DOMAIN escalations
  /\ DOMAIN decisions = DOMAIN notifications
  /\ \A e \in DOMAIN escalations :
       /\ escalations[e].commitment \in {0} \cup DOMAIN commitments
       /\ contexts[e].call \in sessions
  /\ \A k \in DOMAIN recoveries :
       /\ recoveries[k].commitment \in DOMAIN commitments
       /\ recoveries[k].resulting \in {0} \cup DOMAIN commitments
       /\ recoveries[k].escalation \in {0} \cup DOMAIN escalations

\* A brief or a recap is generated once per commitment.
PaperReferences ==
  /\ \A p \in papers :
       /\ p.commitment \in DOMAIN commitments
       /\ p.call = commitments[p.commitment].call
       /\ <<p.kind, p.commitment>> \in documents
  /\ \A p, o \in papers : p.kind = o.kind /\ p.commitment = o.commitment => p = o

\* The call of a commitment is that of its quote, which is a selected one.
LEMMA CommittedCalls ==
  ASSUME CommitmentsKeepTheirQuote, QuoteKeys
  PROVE  \A i \in DOMAIN commitments : commitments[i].call \in sessions
BY DEF CommitmentsKeepTheirQuote, QuoteKeys

LEMMA QuoteReferencesStep ==
  ASSUME TypeOK, CommitmentsKeepTheirQuote, EvidenceFollowsQuote, QuoteReferences,
         [Next]_vars
  PROVE  QuoteReferences'
<1>1. /\ \A q \in DOMAIN quotes : q \in DOMAIN quotes' /\ quotes'[q] = quotes[q]
      /\ sessions \subseteq sessions'
      /\ \A i \in DOMAIN commitments : commitments[i].call \in sessions
      /\ \A q \in DOMAIN quotes : quotes[q].call \in sessions
  BY QuotesGrow, SessionsGrow, CommittedCalls DEF QuoteReferences, QuoteKeys
<1>2. ASSUME NEW x \in QuoteType, quotes' = Append(quotes, x), x.call \in sessions
      PROVE  QuoteKeys'
  <2>1. /\ Len(quotes) \in Nat /\ DOMAIN quotes = 1 .. Len(quotes)
        /\ DOMAIN quotes' = 1 .. Len(quotes) + 1
        /\ quotes'[Len(quotes) + 1] = x
    BY <1>2, LenProperties, AppendProperties DEF TypeOK
  <2>2. \A q \in DOMAIN quotes' : q \in DOMAIN quotes \/ q = Len(quotes) + 1
    BY <2>1
  <2>3. QED
    BY <1>1, <1>2, <2>1, <2>2 DEF QuoteKeys
<1>3. ASSUME UNCHANGED quotes PROVE QuoteKeys'
  BY <1>1, <1>3 DEF QuoteKeys
<1>4. ASSUME NEW call \in Calls, NEW terms \in Terms, NEW until \in 0 .. MaxNow + 1,
             RecordQuote(call, terms, until)
      PROVE  QuoteKeys'
  <2> DEFINE x == [call |-> call, terms |-> terms, mandate |-> Len(mandates),
                   eligible |-> InsideMandate(terms), until |-> until]
  <2>1. quotes' = Append(quotes, x) /\ call \in sessions
    BY <1>4 DEF RecordQuote
  <2>2. x \in QuoteType /\ x.call = call
    <3>1. InsideMandate(terms) \in BOOLEAN
      BY DEF InsideMandate, Within
    <3>2. until \in Nat /\ Len(mandates) \in Nat \ {0}
      BY ConstantsAssumption, MandateInForce DEF TypeOK
    <3>3. QED
      BY <3>1, <3>2 DEF QuoteType
  <2> HIDE DEF x
  <2>3. QED
    BY <1>2, <2>1, <2>2
<1>5. ASSUME NEW i \in DOMAIN commitments, NEW terms \in Terms,
             RecoverInsideMandate(i, terms)
      PROVE  QuoteKeys'
  <2> DEFINE x == [call |-> commitments[i].call, terms |-> terms,
                   mandate |-> Len(mandates), eligible |-> TRUE,
                   until |-> now + RecoveryValidity]
  <2>1. quotes' = Append(quotes, x)
    BY <1>5 DEF RecoverInsideMandate
  <2>2. commitments[i] \in CommitmentType
    BY LenProperties, ElementOfSeq DEF TypeOK
  <2>3. x \in QuoteType /\ x.call = commitments[i].call
    <3>1. commitments[i].call \in Calls /\ now + RecoveryValidity \in Nat
      BY <2>2, ConstantsAssumption DEF CommitmentType, TypeOK
    <3>2. Len(mandates) \in Nat \ {0}
      BY MandateInForce DEF TypeOK
    <3>3. QED
      BY <3>1, <3>2 DEF QuoteType
  <2> HIDE DEF x
  <2>4. QED
    BY <1>1, <1>2, <2>1, <2>3
<1>6. QuoteKeys'
  <2>1. \/ UNCHANGED quotes
        \/ \E call \in Calls, terms \in Terms, until \in 0 .. MaxNow + 1 :
             RecordQuote(call, terms, until)
        \/ \E i \in DOMAIN commitments, terms \in Terms : RecoverInsideMandate(i, terms)
    BY DEF Next, vars, StartNegotiation, AttachEvidence, CreateCommitment, Committable, Consume,
       RecoverOutsideMandate, CreateEscalation, ReplaceMandate,
       AcknowledgeNotification, GenerateDocument, Tick
  <2>2. QED
    BY <1>3, <1>4, <1>5, <2>1
<1>7. \A r \in reservations' : r.quote \in DOMAIN quotes'
  <2>1. \A r \in reservations' :
          r.quote \in DOMAIN quotes \/ \E s \in reservations : s.quote = r.quote
    BY ReservationsGrow
  <2>2. \A s \in reservations : s.quote \in DOMAIN quotes
    BY DEF QuoteReferences
  <2>3. QED
    BY <1>1, <2>1, <2>2
<1>8. QED
  BY <1>6, <1>7 DEF QuoteReferences

LEMMA PaperReferencesStep ==
  ASSUME TypeOK, PaperReferences, StatusReflectsRows, OneWinnerChain, RecordsTypeOK,
         [RecordsNext]_recordVars
  PROVE  PaperReferences'
<1>0. [Next]_vars
  BY RecordsStep
<1>1. \A i \in DOMAIN commitments :
        i \in DOMAIN commitments' /\ commitments'[i].call = commitments[i].call
  BY <1>0, CommitmentsGrow
<1>2. CASE UNCHANGED <<papers, documents>>
  BY <1>1, <1>2 DEF PaperReferences
<1>3. ASSUME NEW kind \in DocumentKinds, NEW i \in DOMAIN commitments,
             PaperRecorded(kind, i)
      PROVE  PaperReferences'
  <2>1. /\ UNCHANGED commitments
        /\ <<kind, i>> \notin documents
        /\ documents' = documents \cup {<<kind, i>>}
        /\ \E p \in PaperType :
             /\ p.kind = kind /\ p.commitment = i /\ p.call = commitments[i].call
             /\ papers' = papers \cup {p}
    BY <1>3, PaperAdds
  <2>2. PICK p \in PaperType :
             /\ p.kind = kind /\ p.commitment = i /\ p.call = commitments[i].call
             /\ papers' = papers \cup {p}
    BY <2>1
  <2>3. ASSUME NEW o \in papers PROVE ~(o.kind = kind /\ o.commitment = i)
    BY <2>1 DEF PaperReferences
  <2>4. \A o \in papers' : o \in papers \/ o = p
    BY <2>2
  <2>5. QED
    BY <2>1, <2>2, <2>3, <2>4 DEF PaperReferences
<1>4. QED
  <2>1. \/ UNCHANGED <<papers, documents>>
        \/ \E kind \in DocumentKinds, i \in DOMAIN commitments : PaperRecorded(kind, i)
    <3>1. SameRows => UNCHANGED <<papers, documents>>
      BY DEF SameRows
    <3>2. \A i \in DOMAIN commitments, terms \in Terms :
            ReplacementRecorded(i, terms) => UNCHANGED <<papers, documents>>
      BY ReplacementAdds
    <3>3. \A i \in DOMAIN commitments, terms \in Terms :
            EscalationRecorded(i, terms) => UNCHANGED <<papers, documents>>
      BY EscalationAdds
    <3>4. \A call \in Calls :
            ExplicitEscalationRecorded(call) => UNCHANGED <<papers, documents>>
      BY ExplicitAdds
    <3>5. QED
      BY <3>1, <3>2, <3>3, <3>4, OtherRows
  <2>2. QED
    BY <1>2, <1>3, <2>1

\* A list of rows one of which is new.
LEMMA Appended ==
  ASSUME NEW T, NEW s \in Seq(T), NEW x \in T, NEW t, t = Append(s, x)
  PROVE  /\ Len(s) \in Nat /\ DOMAIN s = 1 .. Len(s)
         /\ DOMAIN t = 1 .. Len(s) + 1
         /\ Len(s) + 1 \in DOMAIN t /\ Len(s) + 1 \notin DOMAIN s
         /\ t[Len(s) + 1] = x
         /\ \A k \in DOMAIN t : k \in DOMAIN s \/ k = Len(s) + 1
         /\ \A k \in DOMAIN s : k \in DOMAIN t /\ k # Len(s) + 1 /\ t[k] = s[k]
<1>1. Len(s) \in Nat /\ DOMAIN s = 1 .. Len(s)
  BY LenProperties
<1>2. t \in Seq(T) /\ Len(t) = Len(s) + 1 /\ t[Len(s) + 1] = x
      /\ \A k \in 1 .. Len(s) : t[k] = s[k]
  BY AppendProperties
<1>3. DOMAIN t = 1 .. Len(s) + 1
  BY <1>2, LenProperties
<1>4. QED
  BY <1>1, <1>2, <1>3

\* The attempt, the notification and the decision of a replacement are new rows,
\* and the rows there were stay.
LEMMA ListsOfReplacement ==
  ASSUME TypeOK, StatusReflectsRows, OneWinnerChain, RecordsTypeOK,
         DOMAIN decisions = DOMAIN notifications,
         NEW i \in DOMAIN commitments, NEW terms \in Terms,
         ReplacementRecorded(i, terms)
  PROVE  /\ DOMAIN decisions' = DOMAIN notifications'
         /\ \E k \in DOMAIN recoveries' \ DOMAIN recoveries :
              /\ recoveries'[k] = Replacing(i)
              /\ \A j \in DOMAIN recoveries' : j \in DOMAIN recoveries \/ j = k
         /\ \E n \in DOMAIN notifications' \ DOMAIN notifications :
              /\ notifications'[n].commitment = i + 1
              /\ decisions'[n] = Deciding(i)
              /\ \A m \in DOMAIN notifications' : m \in DOMAIN notifications \/ m = n
         /\ \A j \in DOMAIN recoveries :
              j \in DOMAIN recoveries' /\ recoveries'[j] = recoveries[j]
         /\ \A m \in DOMAIN notifications :
              /\ m \in DOMAIN notifications' /\ notifications'[m] = notifications[m]
              /\ decisions'[m] = decisions[m]
<1> DEFINE x == [commitment |-> i + 1, by |-> NoOne]
           n == Len(notifications) + 1
           k == Len(recoveries) + 1
<1>1. /\ recoveries' = Append(recoveries, Replacing(i))
      /\ decisions' = Append(decisions, Deciding(i))
      /\ notifications' = Append(notifications, x)
      /\ Replacing(i) \in RecoveryType /\ Deciding(i) \in DecisionType
  BY ReplacementAdds DEF Notify
<1>2. /\ recoveries \in Seq(RecoveryType) /\ decisions \in Seq(DecisionType)
      /\ notifications \in Seq(NotificationType)
  BY DEF RecordsTypeOK, TypeOK
<1>3. x \in NotificationType /\ x.commitment = i + 1
  <2>1. i \in Nat
    BY LenProperties DEF TypeOK
  <2>2. QED
    BY <2>1 DEF NotificationType
<1> HIDE DEF x
<1>4. /\ k \in DOMAIN recoveries' /\ k \notin DOMAIN recoveries
      /\ recoveries'[k] = Replacing(i)
      /\ \A j \in DOMAIN recoveries' : j \in DOMAIN recoveries \/ j = k
      /\ \A j \in DOMAIN recoveries :
           j \in DOMAIN recoveries' /\ recoveries'[j] = recoveries[j]
  BY <1>1, <1>2, Appended
<1>5. /\ Len(notifications) \in Nat /\ DOMAIN notifications = 1 .. Len(notifications)
      /\ DOMAIN notifications' = 1 .. n
      /\ n \in DOMAIN notifications' /\ n \notin DOMAIN notifications
      /\ notifications'[n] = x
      /\ \A m \in DOMAIN notifications' : m \in DOMAIN notifications \/ m = n
      /\ \A m \in DOMAIN notifications :
           m \in DOMAIN notifications' /\ notifications'[m] = notifications[m]
  BY <1>1, <1>2, <1>3, Appended
<1>6. /\ Len(decisions) \in Nat /\ DOMAIN decisions = 1 .. Len(decisions)
      /\ DOMAIN decisions' = 1 .. Len(decisions) + 1
      /\ decisions'[Len(decisions) + 1] = Deciding(i)
      /\ \A m \in DOMAIN decisions : decisions'[m] = decisions[m]
  BY <1>1, <1>2, Appended
<1>7. Len(decisions) + 1 = n
  BY <1>5, <1>6
<1> HIDE DEF k, n
<1>8. \E j \in DOMAIN recoveries' \ DOMAIN recoveries :
        /\ recoveries'[j] = Replacing(i)
        /\ \A l \in DOMAIN recoveries' : l \in DOMAIN recoveries \/ l = j
  BY <1>4
<1>9. \E m \in DOMAIN notifications' \ DOMAIN notifications :
        /\ notifications'[m].commitment = i + 1
        /\ decisions'[m] = Deciding(i)
        /\ \A l \in DOMAIN notifications' : l \in DOMAIN notifications \/ l = m
  BY <1>3, <1>5, <1>6, <1>7
<1>10. DOMAIN decisions' = DOMAIN notifications'
  BY <1>5, <1>6, <1>7
<1>11. QED
  BY <1>4, <1>5, <1>6, <1>8, <1>9, <1>10

\* An escalation and its context are a new row; the rows there were stay.
LEMMA ListsOfEscalation ==
  ASSUME TypeOK, RecordsTypeOK, DOMAIN contexts = DOMAIN escalations,
         NEW x \in EscalationType, NEW y \in ContextType,
         escalations' = Append(escalations, x), contexts' = Append(contexts, y)
  PROVE  /\ DOMAIN contexts' = DOMAIN escalations'
         /\ LET e == Len(escalations) + 1
            IN /\ e \in DOMAIN escalations' /\ e \notin DOMAIN escalations
               /\ escalations'[e] = x /\ contexts'[e] = y
               /\ \A d \in DOMAIN escalations' : d \in DOMAIN escalations \/ d = e
         /\ \A d \in DOMAIN escalations :
              /\ d \in DOMAIN escalations' /\ escalations'[d] = escalations[d]
              /\ contexts'[d] = contexts[d]
<1> DEFINE e == Len(escalations) + 1
<1>1. escalations \in Seq(EscalationType) /\ contexts \in Seq(ContextType)
  BY DEF RecordsTypeOK, TypeOK
<1>2. /\ Len(escalations) \in Nat /\ DOMAIN escalations = 1 .. Len(escalations)
      /\ DOMAIN escalations' = 1 .. e
      /\ e \in DOMAIN escalations' /\ e \notin DOMAIN escalations
      /\ escalations'[e] = x
      /\ \A m \in DOMAIN escalations' : m \in DOMAIN escalations \/ m = e
      /\ \A m \in DOMAIN escalations :
           m \in DOMAIN escalations' /\ escalations'[m] = escalations[m]
  BY <1>1, Appended
<1>3. /\ Len(contexts) \in Nat /\ DOMAIN contexts = 1 .. Len(contexts)
      /\ DOMAIN contexts' = 1 .. Len(contexts) + 1
      /\ contexts'[Len(contexts) + 1] = y
      /\ \A m \in DOMAIN contexts : contexts'[m] = contexts[m]
  BY <1>1, Appended
<1>4. Len(contexts) + 1 = e
  BY <1>2, <1>3
<1> HIDE DEF e
<1>5. QED
  BY <1>2, <1>3, <1>4 DEF e

LEMMA ListsOfOutside ==
  ASSUME TypeOK, RecordsTypeOK, DOMAIN contexts = DOMAIN escalations,
         NEW i \in DOMAIN commitments, NEW terms \in Terms,
         EscalationRecorded(i, terms)
  PROVE  /\ DOMAIN contexts' = DOMAIN escalations'
         /\ LET e == Len(escalations) + 1
            IN /\ e \in DOMAIN escalations' /\ e \notin DOMAIN escalations
               /\ escalations'[e].commitment = i
               /\ contexts'[e].call = commitments[i].call
               /\ contexts'[e].reason = "OUT_OF_MANDATE"
               /\ contexts'[e].version = version
               /\ \A d \in DOMAIN escalations' : d \in DOMAIN escalations \/ d = e
         /\ \A d \in DOMAIN escalations :
              /\ d \in DOMAIN escalations' /\ escalations'[d] = escalations[d]
              /\ contexts'[d] = contexts[d]
         /\ \E k \in DOMAIN recoveries' \ DOMAIN recoveries :
              /\ recoveries'[k] = Escalating(i)
              /\ \A j \in DOMAIN recoveries' : j \in DOMAIN recoveries \/ j = k
         /\ \A j \in DOMAIN recoveries :
              j \in DOMAIN recoveries' /\ recoveries'[j] = recoveries[j]
<1> DEFINE x == [commitment |-> i, mandate |-> Len(mandates), resolved |-> FALSE]
           y == [call |-> commitments[i].call, reason |-> "OUT_OF_MANDATE",
                 version |-> version]
           k == Len(recoveries) + 1
<1>1. /\ escalations' = Append(escalations, x) /\ contexts' = Append(contexts, y)
      /\ recoveries' = Append(recoveries, Escalating(i))
      /\ Escalating(i) \in RecoveryType /\ commitments[i].call \in Calls
  BY EscalationAdds
<1>2. x \in EscalationType /\ y \in ContextType
  <2>1. i \in Nat /\ Len(mandates) \in Nat \ {0} /\ version \in Nat \ {0}
    BY LenProperties, MandateInForce DEF TypeOK
  <2>2. QED
    BY <1>1, <2>1 DEF EscalationType, ContextType
<1>3. /\ k \in DOMAIN recoveries' /\ k \notin DOMAIN recoveries
      /\ recoveries'[k] = Escalating(i)
      /\ \A j \in DOMAIN recoveries' : j \in DOMAIN recoveries \/ j = k
      /\ \A j \in DOMAIN recoveries :
           j \in DOMAIN recoveries' /\ recoveries'[j] = recoveries[j]
  BY <1>1, Appended DEF RecordsTypeOK
<1>4. /\ x.commitment = i /\ y.call = commitments[i].call
      /\ y.reason = "OUT_OF_MANDATE" /\ y.version = version
  OBVIOUS
<1> HIDE DEF x, y, k
<1>5. \E j \in DOMAIN recoveries' \ DOMAIN recoveries :
        /\ recoveries'[j] = Escalating(i)
        /\ \A l \in DOMAIN recoveries' : l \in DOMAIN recoveries \/ l = j
  BY <1>3
<1>6. QED
  BY <1>1, <1>2, <1>3, <1>4, <1>5, ListsOfEscalation

LEMMA ListsOfExplicit ==
  ASSUME TypeOK, RecordsTypeOK, DOMAIN contexts = DOMAIN escalations,
         NEW call \in Calls, ExplicitEscalationRecorded(call)
  PROVE  /\ DOMAIN contexts' = DOMAIN escalations'
         /\ LET e == Len(escalations) + 1
            IN /\ e \in DOMAIN escalations' /\ e \notin DOMAIN escalations
               /\ escalations'[e].commitment \in {0} \cup DOMAIN commitments
               /\ contexts'[e].call = call
               /\ contexts'[e].reason = "EXPLICIT_COORDINATOR_ESCALATION"
               /\ \A d \in DOMAIN escalations' : d \in DOMAIN escalations \/ d = e
         /\ \A d \in DOMAIN escalations :
              /\ d \in DOMAIN escalations' /\ escalations'[d] = escalations[d]
              /\ contexts'[d] = contexts[d]
<1> DEFINE y == [call |-> call, reason |-> "EXPLICIT_COORDINATOR_ESCALATION",
                 version |-> version]
<1>1. PICK c \in {0} \cup DOMAIN commitments :
         escalations' = Append(escalations, [commitment |-> c,
           mandate |-> Len(mandates), resolved |-> FALSE])
  BY ExplicitAdds
<1> DEFINE x == [commitment |-> c, mandate |-> Len(mandates), resolved |-> FALSE]
<1>2. contexts' = Append(contexts, y)
  BY ExplicitAdds
<1>3. x \in EscalationType /\ y \in ContextType
  <2>1. c \in Nat /\ Len(mandates) \in Nat \ {0} /\ version \in Nat \ {0}
    BY LenProperties, MandateInForce DEF TypeOK
  <2>2. QED
    BY <2>1 DEF EscalationType, ContextType
<1>4. /\ x.commitment = c /\ y.call = call
      /\ y.reason = "EXPLICIT_COORDINATOR_ESCALATION"
      /\ escalations' = Append(escalations, x)
  BY <1>1
<1> HIDE DEF x, y
<1>5. QED
  BY <1>2, <1>3, <1>4, ListsOfEscalation

LEMMA ListReferencesStep ==
  ASSUME TypeOK, StatusReflectsRows, OneWinnerChain, RecordsTypeOK,
         CommitmentsKeepTheirQuote, QuoteReferences,
         ListReferences, [RecordsNext]_recordVars
  PROVE  ListReferences'
<1>1. /\ \A i \in DOMAIN commitments : i \in DOMAIN commitments'
      /\ sessions \subseteq sessions'
      /\ \A i \in DOMAIN commitments : commitments[i].call \in sessions
  BY RecordsStep, CommitmentsGrow, SessionsGrow, CommittedCalls DEF QuoteReferences
<1>2. /\ DOMAIN contexts = DOMAIN escalations
      /\ DOMAIN decisions = DOMAIN notifications
      /\ \A e \in DOMAIN escalations :
           /\ escalations[e].commitment \in {0} \cup DOMAIN commitments
           /\ contexts[e].call \in sessions
      /\ \A k \in DOMAIN recoveries :
           /\ recoveries[k].commitment \in DOMAIN commitments
           /\ recoveries[k].resulting \in {0} \cup DOMAIN commitments
           /\ recoveries[k].escalation \in {0} \cup DOMAIN escalations
  BY DEF ListReferences
<1> DEFINE Domains == /\ DOMAIN contexts' = DOMAIN escalations'
                      /\ DOMAIN decisions' = DOMAIN notifications'
           Escalations ==
             \A e \in DOMAIN escalations' :
               /\ escalations'[e].commitment \in {0} \cup DOMAIN commitments'
               /\ contexts'[e].call \in sessions'
           Attempts ==
             \A k \in DOMAIN recoveries' :
               /\ recoveries'[k].commitment \in DOMAIN commitments'
               /\ recoveries'[k].resulting \in {0} \cup DOMAIN commitments'
               /\ recoveries'[k].escalation \in {0} \cup DOMAIN escalations'
<1>3. CASE SameRows
  <2>1. /\ recoveries' = recoveries /\ contexts' = contexts /\ decisions' = decisions
        /\ DOMAIN escalations' = DOMAIN escalations
        /\ \A e \in DOMAIN escalations :
             escalations'[e].commitment = escalations[e].commitment
        /\ DOMAIN notifications' = DOMAIN notifications
    BY <1>3 DEF SameRows
  <2>2. Domains
    BY <1>2, <2>1
  <2>3. Escalations
    BY <1>1, <1>2, <2>1
  <2>4. Attempts
    BY <1>1, <1>2, <2>1
  <2>5. QED
    BY <2>2, <2>3, <2>4 DEF ListReferences
<1>4. ASSUME NEW i \in DOMAIN commitments, NEW terms \in Terms,
             ReplacementRecorded(i, terms)
      PROVE  ListReferences'
  <2>1. /\ contexts' = contexts /\ escalations' = escalations
        /\ i + 1 \in DOMAIN commitments'
    <3>1. i \in Nat
      BY LenProperties DEF TypeOK
    <3>2. /\ contexts' = contexts /\ escalations' = escalations
          /\ DOMAIN commitments' = 1 .. i + 1
      BY <1>4, ReplacementAdds
    <3>3. QED
      BY <3>1, <3>2
  <2>2. Domains
    BY <1>2, <1>4, <2>1, ListsOfReplacement
  <2>3. Escalations
    BY <1>1, <1>2, <2>1
  <2>4. PICK k \in DOMAIN recoveries' \ DOMAIN recoveries :
          /\ recoveries'[k] = Replacing(i)
          /\ \A j \in DOMAIN recoveries' : j \in DOMAIN recoveries \/ j = k
    BY <1>2, <1>4, ListsOfReplacement
  <2>5. \A j \in DOMAIN recoveries : recoveries'[j] = recoveries[j]
    BY <1>2, <1>4, ListsOfReplacement
  <2>6. /\ recoveries'[k].commitment = i /\ recoveries'[k].resulting = i + 1
        /\ recoveries'[k].escalation = 0
    BY <2>4 DEF Replacing
  <2>7. Attempts
    BY <1>1, <1>2, <2>1, <2>4, <2>5, <2>6
  <2>8. QED
    BY <2>2, <2>3, <2>7 DEF ListReferences
<1>5. ASSUME NEW i \in DOMAIN commitments, NEW terms \in Terms,
             EscalationRecorded(i, terms)
      PROVE  ListReferences'
  <2>1. decisions' = decisions /\ notifications' = notifications
    BY <1>5, EscalationAdds
  <2>2. PICK e : e = Len(escalations) + 1
    OBVIOUS
  <2>3. /\ DOMAIN contexts' = DOMAIN escalations'
        /\ e \in DOMAIN escalations'
        /\ escalations'[e].commitment = i
        /\ contexts'[e].call = commitments[i].call
        /\ \A d \in DOMAIN escalations' : d \in DOMAIN escalations \/ d = e
        /\ \A d \in DOMAIN escalations :
             /\ d \in DOMAIN escalations' /\ escalations'[d] = escalations[d]
             /\ contexts'[d] = contexts[d]
    BY <1>2, <1>5, <2>2, ListsOfOutside
  <2>4. PICK k \in DOMAIN recoveries' \ DOMAIN recoveries :
          /\ recoveries'[k] = Escalating(i)
          /\ \A j \in DOMAIN recoveries' : j \in DOMAIN recoveries \/ j = k
    BY <1>2, <1>5, ListsOfOutside
  <2>5. \A j \in DOMAIN recoveries : recoveries'[j] = recoveries[j]
    BY <1>2, <1>5, ListsOfOutside
  <2>6. /\ recoveries'[k].commitment = i /\ recoveries'[k].resulting = 0
        /\ recoveries'[k].escalation = e
    BY <2>2, <2>4 DEF Escalating
  <2>7. Domains
    BY <1>2, <2>1, <2>3
  <2>8. Escalations
    BY <1>1, <1>2, <2>3
  <2>9. Attempts
    BY <1>1, <1>2, <2>3, <2>4, <2>5, <2>6
  <2>10. QED
    BY <2>7, <2>8, <2>9 DEF ListReferences
<1>6. ASSUME NEW call \in Calls, ExplicitEscalationRecorded(call)
      PROVE  ListReferences'
  <2>1. /\ decisions' = decisions /\ notifications' = notifications
        /\ recoveries' = recoveries /\ call \in sessions
    BY <1>6, ExplicitAdds
  <2>2. PICK e : e = Len(escalations) + 1
    OBVIOUS
  <2>3. /\ DOMAIN contexts' = DOMAIN escalations'
        /\ e \in DOMAIN escalations'
        /\ escalations'[e].commitment \in {0} \cup DOMAIN commitments
        /\ contexts'[e].call = call
        /\ \A d \in DOMAIN escalations' : d \in DOMAIN escalations \/ d = e
        /\ \A d \in DOMAIN escalations :
             /\ d \in DOMAIN escalations' /\ escalations'[d] = escalations[d]
             /\ contexts'[d] = contexts[d]
    BY <1>2, <1>6, <2>2, ListsOfExplicit
  <2>4. Domains
    BY <1>2, <2>1, <2>3
  <2>5. Escalations
    BY <1>1, <1>2, <2>1, <2>3
  <2>6. Attempts
    BY <1>1, <1>2, <2>1, <2>3
  <2>7. QED
    BY <2>4, <2>5, <2>6 DEF ListReferences
<1>7. ASSUME NEW kind \in DocumentKinds, NEW i \in DOMAIN commitments,
             PaperRecorded(kind, i)
      PROVE  ListReferences'
  <2>1. /\ decisions' = decisions /\ contexts' = contexts /\ recoveries' = recoveries
        /\ escalations' = escalations /\ notifications' = notifications
    BY <1>7, PaperAdds
  <2>2. Domains /\ Escalations /\ Attempts
    BY <1>1, <1>2, <2>1
  <2>3. QED
    BY <2>2 DEF ListReferences
<1>8. QED
  BY <1>3, <1>4, <1>5, <1>6, <1>7, OtherRows

\* Every reference of the rows, with their types.
References ==
  RecordsTypeOK /\ QuoteReferences /\ ListReferences /\ PaperReferences

LEMMA ReferencesInvariant == RecordsSpec => []References
<1>1. RecordsInit => References
  <2> SUFFICES ASSUME RecordsInit PROVE References
    OBVIOUS
  <2>1. /\ version = 1 /\ status = "READY" /\ sessions = {} /\ quotes = <<>>
        /\ reservations = {} /\ commitments = <<>> /\ escalations = <<>>
        /\ notifications = <<>> /\ documents = {}
        /\ history = <<status>> /\ evidence = {} /\ recoveries = <<>>
        /\ contexts = <<>> /\ decisions = <<>> /\ papers = {}
        /\ trail = {[version |-> 1, type |-> "OPERATION_APPROVED"]}
    BY DEF RecordsInit, Init
  <2>2. RecordsTypeOK
    <3>1. history \in Seq(Statuses)
      BY <2>1 DEF Statuses
    <3>2. trail \subseteq AuditEventType
      BY <2>1 DEF AuditEventType, EventTypes
    <3>3. recoveries \in Seq(RecoveryType)
      BY <2>1
    <3>4. contexts \in Seq(ContextType)
      BY <2>1
    <3>5. decisions \in Seq(DecisionType)
      BY <2>1
    <3>6. evidence \subseteq EvidenceType /\ papers \subseteq PaperType
      BY <2>1
    <3>7. QED
      BY <3>1, <3>2, <3>3, <3>4, <3>5, <3>6 DEF RecordsTypeOK
  <2>3. QuoteReferences
    BY <2>1 DEF QuoteReferences, QuoteKeys
  <2>4. ListReferences
    BY <2>1 DEF ListReferences
  <2>5. PaperReferences
    BY <2>1 DEF PaperReferences
  <2>6. QED
    BY <2>2, <2>3, <2>4, <2>5 DEF References
<1>2. /\ TypeOK /\ StatusReflectsRows /\ OneWinnerChain
      /\ CommitmentsKeepTheirQuote /\ EvidenceFollowsQuote
      /\ (HistoryKept /\ EvidenceKnown)' /\ TrailTells' /\ References
      /\ [RecordsNext]_recordVars
      => References'
  <2> SUFFICES ASSUME TypeOK, StatusReflectsRows, OneWinnerChain,
                      CommitmentsKeepTheirQuote, EvidenceFollowsQuote,
                      HistoryKept', EvidenceKnown', TrailTells', References,
                      [RecordsNext]_recordVars
               PROVE  References'
    OBVIOUS
  <2>1. RecordsTypeOK /\ QuoteReferences /\ ListReferences /\ PaperReferences
    BY DEF References
  <2>2. TrailKnown'
    BY DEF TrailTells
  <2>3. RecordsTypeOK'
    BY <2>1, <2>2, RecordsTypeStep
  <2>4. QuoteReferences'
    BY <2>1, RecordsStep, QuoteReferencesStep
  <2>5. ListReferences'
    BY <2>1, ListReferencesStep
  <2>6. PaperReferences'
    BY <2>1, PaperReferencesStep
  <2>7. QED
    BY <2>3, <2>4, <2>5, <2>6 DEF References
<1>3. RecordsSpec => /\ []TypeOK /\ []StatusReflectsRows /\ []OneWinnerChain
                     /\ []CommitmentsKeepTheirQuote /\ []EvidenceFollowsQuote
                     /\ [](HistoryKept /\ EvidenceKnown) /\ []TrailTells
  BY RecordsImplement, TypeInvariant, StatusInvariant, ChainInvariant,
     QuotesInvariant, EvidenceInvariant, KnownInvariant, TrailInvariant, PTL
<1>4. QED
  BY <1>1, <1>2, <1>3, PTL DEF RecordsSpec

\* The rows of the services have their types, whatever they did.
THEOREM RecordsTypeInvariant == RecordsSpec => []RecordsTypeOK
<1>1. References => RecordsTypeOK
  BY DEF References
<1>2. QED
  BY <1>1, ReferencesInvariant, PTL

\* A notification is of a commitment that was made.
LEMMA NoticesKnownInvariant == Spec => []NoticesKnown
<1>1. Init => NoticesKnown /\ RecoveriesAreNotified
  BY DEF Init, NoticesKnown, RecoveriesAreNotified
<1>2. QED
  BY <1>1, NoticesStep, TypeInvariant, EvidenceInvariant, PTL DEF Spec

-----------------------------------------------------------------------------
(* The rows that explain a commitment and an escalation.                   *)

\* What the lemmas below assume of the rows.
Known ==
  /\ TypeOK /\ StatusReflectsRows /\ OneWinnerChain /\ EvidenceFollowsQuote
  /\ NoticesKnown /\ EvidenceKnown /\ References

\* The rows of the attempts, notifications and escalations stay.
LEMMA RowsKept ==
  ASSUME Known, [RecordsNext]_recordVars
  PROVE  /\ \A k \in DOMAIN recoveries :
              k \in DOMAIN recoveries' /\ recoveries'[k] = recoveries[k]
         /\ \A n \in DOMAIN notifications :
              /\ n \in DOMAIN notifications'
              /\ notifications'[n].commitment = notifications[n].commitment
              /\ decisions'[n] = decisions[n]
         /\ \A e \in DOMAIN escalations :
              /\ e \in DOMAIN escalations'
              /\ escalations'[e].commitment = escalations[e].commitment
              /\ contexts'[e] = contexts[e]
<1>1. /\ TypeOK /\ StatusReflectsRows /\ OneWinnerChain /\ RecordsTypeOK
      /\ DOMAIN contexts = DOMAIN escalations
      /\ DOMAIN decisions = DOMAIN notifications
  BY DEF Known, References, ListReferences
<1>2. CASE SameRows
  BY <1>2 DEF SameRows
<1>3. ASSUME NEW i \in DOMAIN commitments, NEW terms \in Terms,
             ReplacementRecorded(i, terms)
      PROVE  /\ UNCHANGED <<escalations, contexts>>
             /\ \A k \in DOMAIN recoveries :
                  k \in DOMAIN recoveries' /\ recoveries'[k] = recoveries[k]
             /\ \A n \in DOMAIN notifications :
                  /\ n \in DOMAIN notifications' /\ notifications'[n] = notifications[n]
                  /\ decisions'[n] = decisions[n]
  BY <1>1, <1>3, ReplacementAdds, ListsOfReplacement
<1>4. ASSUME NEW i \in DOMAIN commitments, NEW terms \in Terms,
             EscalationRecorded(i, terms)
      PROVE  /\ UNCHANGED <<notifications, decisions>>
             /\ \A k \in DOMAIN recoveries :
                  k \in DOMAIN recoveries' /\ recoveries'[k] = recoveries[k]
             /\ \A e \in DOMAIN escalations :
                  /\ e \in DOMAIN escalations' /\ escalations'[e] = escalations[e]
                  /\ contexts'[e] = contexts[e]
  BY <1>1, <1>4, EscalationAdds, ListsOfOutside
<1>5. ASSUME NEW call \in Calls, ExplicitEscalationRecorded(call)
      PROVE  /\ UNCHANGED <<notifications, decisions, recoveries>>
             /\ \A e \in DOMAIN escalations :
                  /\ e \in DOMAIN escalations' /\ escalations'[e] = escalations[e]
                  /\ contexts'[e] = contexts[e]
  BY <1>1, <1>5, ExplicitAdds, ListsOfExplicit
<1>6. ASSUME NEW kind \in DocumentKinds, NEW i \in DOMAIN commitments,
             PaperRecorded(kind, i)
      PROVE  UNCHANGED <<notifications, decisions, recoveries, escalations, contexts>>
  BY <1>1, <1>6, PaperAdds
<1>7. \/ SameRows
      \/ \E i \in DOMAIN commitments, terms \in Terms : ReplacementRecorded(i, terms)
      \/ \E i \in DOMAIN commitments, terms \in Terms : EscalationRecorded(i, terms)
      \/ \E call \in Calls : ExplicitEscalationRecorded(call)
      \/ \E kind \in DocumentKinds, i \in DOMAIN commitments : PaperRecorded(kind, i)
  BY <1>1, OtherRows
<1>8. QED
  BY <1>2, <1>3, <1>4, <1>5, <1>6, <1>7

\* New attempts result in a new commitment or a new escalation, and a new
\* notification is of a new commitment.
LEMMA NewRowsOfNew ==
  ASSUME Known, [RecordsNext]_recordVars
  PROVE  /\ \A k \in DOMAIN recoveries' :
              \/ k \in DOMAIN recoveries
              \/ /\ recoveries'[k].resulting \notin DOMAIN commitments
                 /\ recoveries'[k].escalation \notin DOMAIN escalations
         /\ \A n \in DOMAIN notifications' :
              \/ n \in DOMAIN notifications
              \/ notifications'[n].commitment \notin DOMAIN commitments
<1>1. /\ TypeOK /\ StatusReflectsRows /\ OneWinnerChain /\ RecordsTypeOK
      /\ DOMAIN contexts = DOMAIN escalations
      /\ DOMAIN decisions = DOMAIN notifications
      /\ Len(commitments) \in Nat /\ DOMAIN commitments = 1 .. Len(commitments)
      /\ Len(escalations) \in Nat /\ DOMAIN escalations = 1 .. Len(escalations)
  BY LenProperties DEF Known, References, ListReferences, TypeOK
<1>2. CASE SameRows
  BY <1>2 DEF SameRows
<1>3. ASSUME NEW i \in DOMAIN commitments, NEW terms \in Terms,
             ReplacementRecorded(i, terms)
      PROVE  /\ \A k \in DOMAIN recoveries' :
                  \/ k \in DOMAIN recoveries
                  \/ /\ recoveries'[k].resulting \notin DOMAIN commitments
                     /\ recoveries'[k].escalation \notin DOMAIN escalations
             /\ \A n \in DOMAIN notifications' :
                  \/ n \in DOMAIN notifications
                  \/ notifications'[n].commitment \notin DOMAIN commitments
  <2>1. i + 1 \notin DOMAIN commitments /\ 0 \notin DOMAIN escalations
    BY <1>1, <1>3, ReplacementAdds
  <2>2. PICK k \in DOMAIN recoveries' \ DOMAIN recoveries :
          /\ recoveries'[k] = Replacing(i)
          /\ \A j \in DOMAIN recoveries' : j \in DOMAIN recoveries \/ j = k
    BY <1>1, <1>3, ListsOfReplacement
  <2>3. PICK n \in DOMAIN notifications' \ DOMAIN notifications :
          /\ notifications'[n].commitment = i + 1
          /\ decisions'[n] = Deciding(i)
          /\ \A m \in DOMAIN notifications' : m \in DOMAIN notifications \/ m = n
    BY <1>1, <1>3, ListsOfReplacement
  <2>4. recoveries'[k].resulting = i + 1 /\ recoveries'[k].escalation = 0
    BY <2>2 DEF Replacing
  <2>5. QED
    BY <2>1, <2>2, <2>3, <2>4
<1>4. ASSUME NEW i \in DOMAIN commitments, NEW terms \in Terms,
             EscalationRecorded(i, terms)
      PROVE  /\ UNCHANGED notifications
             /\ \A k \in DOMAIN recoveries' :
                  \/ k \in DOMAIN recoveries
                  \/ /\ recoveries'[k].resulting \notin DOMAIN commitments
                     /\ recoveries'[k].escalation \notin DOMAIN escalations
  <2>1. /\ notifications' = notifications
        /\ 0 \notin DOMAIN commitments /\ Len(escalations) + 1 \notin DOMAIN escalations
    <3>1. notifications' = notifications
      BY <1>1, <1>4, EscalationAdds
    <3>2. 0 \notin 1 .. Len(commitments) /\ Len(escalations) + 1 \notin 1 .. Len(escalations)
      BY <1>1
    <3>3. QED
      BY <1>1, <3>1, <3>2, Zenon
  <2>2. PICK k \in DOMAIN recoveries' \ DOMAIN recoveries :
          /\ recoveries'[k] = Escalating(i)
          /\ \A j \in DOMAIN recoveries' : j \in DOMAIN recoveries \/ j = k
    BY <1>1, <1>4, ListsOfOutside
  <2>3. recoveries'[k].resulting = 0 /\ recoveries'[k].escalation = Len(escalations) + 1
    BY <2>2 DEF Escalating
  <2>4. QED
    BY <2>1, <2>2, <2>3
<1>5. ASSUME NEW call \in Calls, ExplicitEscalationRecorded(call)
      PROVE  UNCHANGED <<notifications, recoveries>>
  BY <1>1, <1>5, ExplicitAdds
<1>6. ASSUME NEW kind \in DocumentKinds, NEW i \in DOMAIN commitments,
             PaperRecorded(kind, i)
      PROVE  UNCHANGED <<notifications, recoveries>>
  BY <1>1, <1>6, PaperAdds
<1>7. \/ SameRows
      \/ \E i \in DOMAIN commitments, terms \in Terms : ReplacementRecorded(i, terms)
      \/ \E i \in DOMAIN commitments, terms \in Terms : EscalationRecorded(i, terms)
      \/ \E call \in Calls : ExplicitEscalationRecorded(call)
      \/ \E kind \in DocumentKinds, i \in DOMAIN commitments : PaperRecorded(kind, i)
  BY <1>1, OtherRows
<1>8. QED
  BY <1>2, <1>3, <1>4, <1>5, <1>6, <1>7

\* The attempts that ended with escalation e.
AttemptsOf(e) == {k \in DOMAIN recoveries : recoveries[k].escalation = e}

\* No step adds to the rows of a commitment or of an escalation there was.
LEMMA RowsOfOld ==
  ASSUME Known, [RecordsNext]_recordVars
  PROVE  /\ \A i \in DOMAIN commitments :
              /\ EvidenceOf(i)' = EvidenceOf(i)
              /\ AttemptsFor(i)' = AttemptsFor(i)
              /\ NoticesOf(i)' = NoticesOf(i)
         /\ \A e \in DOMAIN escalations : AttemptsOf(e)' = AttemptsOf(e)
<1>1. ASSUME NEW i \in DOMAIN commitments PROVE EvidenceOf(i)' = EvidenceOf(i)
  <2>1. TypeOK /\ EvidenceFollowsQuote
    BY DEF Known
  <2>2. CASE UNCHANGED evidence
    BY <2>2 DEF EvidenceOf
  <2>3. ASSUME NEW x, x.commitment = Len(commitments) + 1, evidence' = evidence \cup {x}
        PROVE  EvidenceOf(i)' = EvidenceOf(i)
    <3>1. i # Len(commitments) + 1
      BY <2>1, LenProperties DEF TypeOK
    <3>2. QED
      BY <2>3, <3>1 DEF EvidenceOf
  <2>4. QED
    BY <2>1, <2>2, <2>3, EvidenceOfNew
<1>2. ASSUME NEW i \in DOMAIN commitments
      PROVE  AttemptsFor(i)' = AttemptsFor(i) /\ NoticesOf(i)' = NoticesOf(i)
  BY RowsKept, NewRowsOfNew DEF AttemptsFor, NoticesOf
<1>3. ASSUME NEW e \in DOMAIN escalations PROVE AttemptsOf(e)' = AttemptsOf(e)
  BY RowsKept, NewRowsOfNew DEF AttemptsOf
<1>4. QED
  BY <1>1, <1>2, <1>3

\* A commitment stays explained.
LEMMA ExplanationKept ==
  ASSUME Known, [RecordsNext]_recordVars, NEW i \in DOMAIN commitments,
         MadeFromQuote(i) \/ MadeByRecovery(i)
  PROVE  MadeFromQuote(i)' \/ MadeByRecovery(i)'
<1>1. /\ EvidenceOf(i)' = EvidenceOf(i)
      /\ AttemptsFor(i)' = AttemptsFor(i)
      /\ NoticesOf(i)' = NoticesOf(i)
  BY RowsOfOld
<1>2. \A j \in DOMAIN commitments :
        /\ j \in DOMAIN commitments'
        /\ commitments'[j].call = commitments[j].call
        /\ commitments'[j].quote = commitments[j].quote
        /\ commitments'[j].terms = commitments[j].terms
        /\ commitments'[j].replaces = commitments[j].replaces
  BY RecordsStep, CommitmentsGrow DEF Known
<1>3. CASE MadeFromQuote(i)
  <2>1. i # 0
    BY LenProperties DEF Known, TypeOK
  <2>2. \A r \in reservations : r.consumedBy # 0 => r \in reservations'
    BY RecordsStep, ReservationsGrow DEF Known
  <2>3. [quote |-> commitments[i].quote, consumedBy |-> i] \in reservations'
    BY <1>3, <2>1, <2>2 DEF MadeFromQuote
  <2>4. QED
    BY <1>1, <1>2, <1>3, <2>3 DEF MadeFromQuote
<1>4. CASE MadeByRecovery(i)
  <2>1. PICK k \in DOMAIN recoveries, n \in DOMAIN notifications :
          /\ EvidenceOf(i) = {[commitment |-> i, recording |-> RecoveryRecording]}
          /\ AttemptsFor(i) = {k}
          /\ NoticesOf(i) = {n}
          /\ recoveries[k].commitment = commitments[i].replaces
          /\ decisions[n] =
               [version |-> recoveries[k].after,
                before |-> DecisionState(recoveries[k].before, "COMMITTED",
                             recoveries[k].commitment, commitments),
                after |-> DecisionState(recoveries[k].after, "COMMITTED", i, commitments)]
    BY <1>4 DEF MadeByRecovery
  <2>2. /\ k \in DOMAIN recoveries' /\ recoveries'[k] = recoveries[k]
        /\ n \in DOMAIN notifications' /\ decisions'[n] = decisions[n]
    BY RowsKept
  <2>3. recoveries[k].commitment \in DOMAIN commitments
    BY DEF Known, References, ListReferences
  <2>4. /\ \A v : DecisionState(v, "COMMITTED", i, commitments')
                    = DecisionState(v, "COMMITTED", i, commitments)
        /\ \A v : DecisionState(v, "COMMITTED", recoveries[k].commitment, commitments')
                    = DecisionState(v, "COMMITTED", recoveries[k].commitment, commitments)
    BY <1>2, <2>3 DEF DecisionState
  <2>5. decisions'[n] =
          [version |-> recoveries'[k].after,
           before |-> DecisionState(recoveries'[k].before, "COMMITTED",
                        recoveries'[k].commitment, commitments'),
           after |-> DecisionState(recoveries'[k].after, "COMMITTED", i, commitments')]
    BY <2>1, <2>2, <2>4
  <2>6. recoveries'[k].commitment = commitments'[i].replaces
    BY <1>2, <2>1, <2>2
  <2>7. QED
    BY <1>1, <2>1, <2>2, <2>5, <2>6 DEF MadeByRecovery
<1>5. QED
  BY <1>3, <1>4

\* A commitment that CreateCommitmentService makes is explained.
LEMMA NewFromQuote ==
  ASSUME Known, NEW q \in DOMAIN quotes, CommitmentRecorded(q),
         NEW c, c = Len(commitments) + 1
  PROVE  MadeFromQuote(c)' /\ DOMAIN commitments' = DOMAIN commitments \cup {c}
<1>1. /\ TypeOK /\ EvidenceFollowsQuote /\ NoticesKnown /\ EvidenceKnown
      /\ CreateCommitment(q) /\ UNCHANGED <<recoveries, notifications>>
      /\ evidence' = evidence \cup ReservedEvidence
  BY DEF Known, CommitmentRecorded, CreateCommitment, Committable, Consume
<1>2. /\ Len(commitments) \in Nat /\ DOMAIN commitments = 1 .. Len(commitments)
      /\ DOMAIN quotes = 1 .. Len(quotes) /\ quotes[q] \in QuoteType
      /\ q \in Nat \ {0}
  BY <1>1, LenProperties, ElementOfSeq DEF TypeOK
<1>3. c \notin DOMAIN commitments /\ c # 0
  BY <1>2
<1>4. DOMAIN commitments' = 1 .. c /\ commitments'[c].quote = q
  <2>1. quotes[q].call \in Calls /\ quotes[q].terms \in Terms
    BY <1>2 DEF QuoteType
  <2>2. Activate(quotes[q].call, q, quotes[q].terms)
    BY <1>1 DEF CreateCommitment, Committable, Consume
  <2>3. QED
    BY <1>1, <1>2, <2>1, <2>2, AgreedKept
<1>5. /\ evidence' = evidence \cup {[commitment |-> c, recording |-> q]}
      /\ [quote |-> q, consumedBy |-> c] \in reservations'
  BY <1>1, EvidenceReserved
<1>6. EvidenceOf(c)' = {[commitment |-> c, recording |-> q]}
  <2>1. PICK x : x = [commitment |-> c, recording |-> q]
    OBVIOUS
  <2>2. x.commitment = c
    BY <2>1
  <2>3. QED
    BY <1>1, <1>3, <1>5, <2>1, <2>2, EvidenceAdded
<1>7. AttemptsFor(c)' = {}
  <2>1. \A k \in DOMAIN recoveries : recoveries[k].resulting \in {0} \cup DOMAIN commitments
    BY DEF Known, References, ListReferences
  <2>2. QED
    BY <1>1, <1>3, <2>1 DEF AttemptsFor
<1>8. NoticesOf(c)' = {}
  BY <1>1, <1>3 DEF NoticesOf, NoticesKnown
<1>9. QED
  BY <1>2, <1>4, <1>5, <1>6, <1>7, <1>8 DEF MadeFromQuote

\* A commitment that a recovery makes is explained.
LEMMA NewByRecovery ==
  ASSUME Known, NEW i \in DOMAIN commitments, NEW terms \in Terms,
         ReplacementRecorded(i, terms), NEW c, c = Len(commitments) + 1
  PROVE  MadeByRecovery(c)' /\ DOMAIN commitments' = DOMAIN commitments \cup {c}
<1>1. /\ TypeOK /\ StatusReflectsRows /\ OneWinnerChain /\ RecordsTypeOK
      /\ NoticesKnown /\ EvidenceKnown
      /\ DOMAIN decisions = DOMAIN notifications
      /\ \A k \in DOMAIN recoveries :
           recoveries[k].resulting \in {0} \cup DOMAIN commitments
      /\ Len(commitments) \in Nat /\ DOMAIN commitments = 1 .. Len(commitments)
  BY LenProperties DEF Known, References, ListReferences, TypeOK
<1>2. /\ i = Len(commitments) /\ c = i + 1
      /\ DOMAIN commitments' = 1 .. i + 1
      /\ commitments'[i + 1].replaces = i
      /\ evidence' = evidence \cup
           {[commitment |-> i + 1, recording |-> RecoveryRecording]}
      /\ Activate(commitments[i].call, Len(quotes) + 1, terms)
      /\ commitments[i].call \in Calls
  BY <1>1, ReplacementAdds
<1>3. c \notin DOMAIN commitments /\ c # 0
  BY <1>1, <1>2
<1>4. EvidenceOf(c)' = {[commitment |-> c, recording |-> RecoveryRecording]}
  <2>1. PICK x : x = [commitment |-> c, recording |-> RecoveryRecording]
    OBVIOUS
  <2>2. x.commitment = c
    BY <2>1
  <2>3. QED
    BY <1>1, <1>2, <1>3, <2>1, <2>2, EvidenceAdded
<1>5. PICK k \in DOMAIN recoveries' \ DOMAIN recoveries :
        /\ recoveries'[k] = Replacing(i)
        /\ \A j \in DOMAIN recoveries' : j \in DOMAIN recoveries \/ j = k
  BY <1>1, ListsOfReplacement
<1>6. PICK n \in DOMAIN notifications' \ DOMAIN notifications :
        /\ notifications'[n].commitment = i + 1
        /\ decisions'[n] = Deciding(i)
        /\ \A m \in DOMAIN notifications' : m \in DOMAIN notifications \/ m = n
  BY <1>1, ListsOfReplacement
<1>7. /\ \A j \in DOMAIN recoveries : recoveries'[j] = recoveries[j]
      /\ \A m \in DOMAIN notifications : notifications'[m] = notifications[m]
  BY <1>1, ListsOfReplacement
<1>8. /\ recoveries'[k].resulting = c /\ recoveries'[k].commitment = i
      /\ recoveries'[k].before = version /\ recoveries'[k].after = version + 1
  BY <1>2, <1>5 DEF Replacing
<1>9. AttemptsFor(c)' = {k}
  BY <1>1, <1>3, <1>5, <1>7, <1>8 DEF AttemptsFor
<1>10. NoticesOf(c)' = {n}
  <2>1. \A m \in DOMAIN notifications : notifications'[m].commitment # c
    BY <1>1, <1>3, <1>7 DEF NoticesKnown
  <2>2. QED
    BY <1>2, <1>6, <2>1 DEF NoticesOf
<1>11. commitments'[i].call = commitments[i].call /\ commitments'[i].terms = commitments[i].terms
  <2>1. Len(quotes) + 1 \in Nat \ {0}
    BY LenProperties, <1>1 DEF TypeOK
  <2>2. QED
    BY <1>1, <1>2, <2>1, AgreedKept
<1>12. decisions'[n] =
         [version |-> version + 1,
          before |-> DecisionState(version, "COMMITTED", i, commitments'),
          after |-> DecisionState(version + 1, "COMMITTED", c, commitments')]
  BY <1>2, <1>6, <1>11 DEF Deciding, DecisionState
<1>13. MadeByRecovery(c)'
  BY <1>2, <1>4, <1>5, <1>6, <1>8, <1>9, <1>10, <1>12 DEF MadeByRecovery
<1>14. QED
  BY <1>1, <1>2, <1>13

LEMMA CommitmentsExplainedStep ==
  ASSUME Known, [RecordsNext]_recordVars,
         \A i \in DOMAIN commitments : MadeFromQuote(i) \/ MadeByRecovery(i)
  PROVE  \A i \in DOMAIN commitments' : MadeFromQuote(i)' \/ MadeByRecovery(i)'
<1>1. \A i \in DOMAIN commitments : MadeFromQuote(i)' \/ MadeByRecovery(i)'
  BY ExplanationKept
<1>2. PICK c : c = Len(commitments) + 1
  OBVIOUS
<1>3. \/ UNCHANGED commitments
      \/ \E q \in DOMAIN quotes : CommitmentRecorded(q)
      \/ \E i \in DOMAIN commitments, terms \in Terms : ReplacementRecorded(i, terms)
  BY HowRecorded DEF Known
<1>4. CASE UNCHANGED commitments
  BY <1>1, <1>4
<1>5. ASSUME NEW q \in DOMAIN quotes, CommitmentRecorded(q)
      PROVE  MadeFromQuote(c)' /\ DOMAIN commitments' = DOMAIN commitments \cup {c}
  BY <1>2, <1>5, NewFromQuote
<1>6. ASSUME NEW i \in DOMAIN commitments, NEW terms \in Terms,
             ReplacementRecorded(i, terms)
      PROVE  MadeByRecovery(c)' /\ DOMAIN commitments' = DOMAIN commitments \cup {c}
  BY <1>2, <1>6, NewByRecovery
<1>7. CASE /\ MadeFromQuote(c)' \/ MadeByRecovery(c)'
           /\ DOMAIN commitments' = DOMAIN commitments \cup {c}
  BY <1>1, <1>7
<1>8. QED
  BY <1>3, <1>4, <1>5, <1>6, <1>7

\* An escalation is explained by the attempts that ended with it.
Explained(e) ==
  IF contexts[e].reason = "OUT_OF_MANDATE"
  THEN \E k \in AttemptsOf(e) :
         /\ AttemptsOf(e) = {k}
         /\ recoveries[k].commitment = escalations[e].commitment
         /\ recoveries[k].before = contexts[e].version
  ELSE AttemptsOf(e) = {}

LEMMA EscalationsExplainedStep ==
  ASSUME Known, [RecordsNext]_recordVars, \A e \in DOMAIN escalations : Explained(e)
  PROVE  \A e \in DOMAIN escalations' : Explained(e)'
<1>1. /\ TypeOK /\ StatusReflectsRows /\ OneWinnerChain /\ RecordsTypeOK
      /\ DOMAIN contexts = DOMAIN escalations
      /\ \A k \in DOMAIN recoveries :
           recoveries[k].escalation \in {0} \cup DOMAIN escalations
      /\ Len(escalations) \in Nat
  BY LenProperties DEF Known, References, ListReferences, TypeOK
<1>2. ASSUME NEW e \in DOMAIN escalations PROVE Explained(e)'
  <2>1. /\ AttemptsOf(e)' = AttemptsOf(e)
        /\ contexts'[e] = contexts[e]
        /\ escalations'[e].commitment = escalations[e].commitment
        /\ \A k \in DOMAIN recoveries : recoveries'[k] = recoveries[k]
    BY RowsOfOld, RowsKept
  <2>2. \A k \in AttemptsOf(e) : k \in DOMAIN recoveries
    BY DEF AttemptsOf
  <2>3. Explained(e)
    BY <1>2
  <2>4. QED
    BY <2>1, <2>2, <2>3 DEF Explained
<1>3. PICK d : d = Len(escalations) + 1
  OBVIOUS
<1>4. d # 0
  BY <1>1, <1>3
<1>5. ASSUME NEW i \in DOMAIN commitments, NEW terms \in Terms,
             EscalationRecorded(i, terms)
      PROVE  /\ Explained(d)'
             /\ \A e \in DOMAIN escalations' : e \in DOMAIN escalations \/ e = d
  <2>1. /\ d \notin DOMAIN escalations
        /\ escalations'[d].commitment = i
        /\ contexts'[d].reason = "OUT_OF_MANDATE"
        /\ contexts'[d].version = version
        /\ \A e \in DOMAIN escalations' : e \in DOMAIN escalations \/ e = d
        /\ \A j \in DOMAIN recoveries :
             j \in DOMAIN recoveries' /\ recoveries'[j] = recoveries[j]
    BY <1>1, <1>3, <1>5, ListsOfOutside
  <2>2. PICK k \in DOMAIN recoveries' \ DOMAIN recoveries :
          /\ recoveries'[k] = Escalating(i)
          /\ \A j \in DOMAIN recoveries' : j \in DOMAIN recoveries \/ j = k
    BY <1>1, <1>5, ListsOfOutside
  <2>3. /\ recoveries'[k].commitment = i /\ recoveries'[k].escalation = d
        /\ recoveries'[k].before = version
    BY <1>3, <2>2 DEF Escalating
  <2>4. AttemptsOf(d)' = {k}
    BY <1>1, <1>4, <2>1, <2>2, <2>3 DEF AttemptsOf
  <2>5. QED
    BY <2>1, <2>3, <2>4 DEF Explained
<1>6. ASSUME NEW call \in Calls, ExplicitEscalationRecorded(call)
      PROVE  /\ Explained(d)'
             /\ \A e \in DOMAIN escalations' : e \in DOMAIN escalations \/ e = d
  <2>1. /\ d \notin DOMAIN escalations
        /\ contexts'[d].reason = "EXPLICIT_COORDINATOR_ESCALATION"
        /\ \A e \in DOMAIN escalations' : e \in DOMAIN escalations \/ e = d
    BY <1>1, <1>3, <1>6, ListsOfExplicit
  <2>2. recoveries' = recoveries
    BY <1>1, <1>6, ExplicitAdds
  <2>3. AttemptsOf(d)' = {}
    BY <1>1, <1>4, <2>1, <2>2 DEF AttemptsOf
  <2>4. QED
    BY <2>1, <2>3 DEF Explained
<1>7. CASE DOMAIN escalations' = DOMAIN escalations
  BY <1>2, <1>7
<1>8. CASE /\ Explained(d)'
           /\ \A e \in DOMAIN escalations' : e \in DOMAIN escalations \/ e = d
  BY <1>2, <1>8
<1>9. SameRows => DOMAIN escalations' = DOMAIN escalations
  BY DEF SameRows
<1>10. \A i \in DOMAIN commitments, terms \in Terms :
         ReplacementRecorded(i, terms) => DOMAIN escalations' = DOMAIN escalations
  <2>1. \A i \in DOMAIN commitments, terms \in Terms :
          ReplacementRecorded(i, terms) => escalations' = escalations
    BY <1>1, ReplacementAdds
  <2>2. QED
    BY <2>1
<1>11. \A kind \in DocumentKinds, i \in DOMAIN commitments :
         PaperRecorded(kind, i) => DOMAIN escalations' = DOMAIN escalations
  <2>1. \A kind \in DocumentKinds, i \in DOMAIN commitments :
          PaperRecorded(kind, i) => escalations' = escalations
    BY <1>1, PaperAdds
  <2>2. QED
    BY <2>1
<1>12. \/ SameRows
       \/ \E i \in DOMAIN commitments, terms \in Terms : ReplacementRecorded(i, terms)
       \/ \E i \in DOMAIN commitments, terms \in Terms : EscalationRecorded(i, terms)
       \/ \E call \in Calls : ExplicitEscalationRecorded(call)
       \/ \E kind \in DocumentKinds, i \in DOMAIN commitments : PaperRecorded(kind, i)
  BY <1>1, OtherRows
<1>13. QED
  BY <1>5, <1>6, <1>7, <1>8, <1>9, <1>10, <1>11, <1>12

\* What the audit view shows of a commitment and of an escalation is complete:
\* the rows that explain it are written with it, and later mutations write rows
\* of their own.
THEOREM RowsExplained == RecordsSpec => []RowsAreExplained
<1> DEFINE Commitments ==
      \A i \in DOMAIN commitments : MadeFromQuote(i) \/ MadeByRecovery(i)
           Escalations == \A e \in DOMAIN escalations : Explained(e)
<1>1. RecordsInit => Commitments /\ Escalations
  BY DEF RecordsInit, Init
<1>2. Known /\ Commitments /\ Escalations /\ [RecordsNext]_recordVars
      => (Commitments /\ Escalations)'
  BY CommitmentsExplainedStep, EscalationsExplainedStep
<1>3. RecordsSpec => []Known
  <2>1. /\ TypeOK /\ StatusReflectsRows /\ OneWinnerChain /\ EvidenceFollowsQuote
        /\ NoticesKnown /\ (HistoryKept /\ EvidenceKnown) /\ References
        => Known
    BY DEF Known
  <2>2. QED
    BY <2>1, RecordsImplement, TypeInvariant, StatusInvariant, ChainInvariant,
       EvidenceInvariant, NoticesKnownInvariant, KnownInvariant,
       ReferencesInvariant, PTL
<1>4. CommitmentsKeepTheirQuote /\ Commitments /\ Escalations => RowsAreExplained
  BY DEF RowsAreExplained, CommitmentsAreExplained, EscalationsAreExplained,
     Explained, AttemptsOf
<1> HIDE DEF Commitments, Escalations
<1>5. QED
  BY <1>1, <1>2, <1>3, <1>4, RecordsImplement, QuotesInvariant, PTL DEF RecordsSpec

\* The database accepts the rows of every mutation, whatever the services did, but
\* for the agreement of a quote that a recovery made and agreed before.
THEOREM RowsAccepted == RecordsSpec => []RowsAreAccepted
<1>1. /\ TypeOK /\ StatusReflectsRows /\ OneWinnerChain
      /\ CommitmentsKeepTheirQuote /\ EvidenceFollowsQuote /\ NoticesKnown
      /\ (HistoryKept /\ EvidenceKnown) /\ References /\ RowsAreExplained
      => RowsAreAccepted
  <2> SUFFICES ASSUME TypeOK, StatusReflectsRows, OneWinnerChain,
                      CommitmentsKeepTheirQuote, EvidenceFollowsQuote,
                      NoticesKnown, EvidenceKnown, References, RowsAreExplained
               PROVE  RowsAreAccepted
    OBVIOUS
  <2>1. QuoteReferences /\ ListReferences /\ PaperReferences
    BY DEF References
  <2>2. DOMAIN commitments = 1 .. Len(commitments) /\ Len(commitments) \in Nat
    BY LenProperties DEF TypeOK
  <2>3. ReservationKeys
    BY <2>1 DEF QuoteReferences, ReservationKeys, EvidenceFollowsQuote
  <2>4. CommitmentKeys
    <3>1. ASSUME NEW i \in DOMAIN commitments
          PROVE  /\ commitments[i].quote \in DOMAIN quotes
                 /\ commitments[i].call = quotes[commitments[i].quote].call
                 /\ {commitments[i].replaces, commitments[i].replacedBy} \subseteq
                      {0} \cup DOMAIN commitments
      <4>1. /\ commitments[i].quote \in DOMAIN quotes
            /\ commitments[i].call = quotes[commitments[i].quote].call
        BY DEF CommitmentsKeepTheirQuote
      <4>2. /\ commitments[i].replaces = i - 1
            /\ commitments[i].replacedBy = IF i = Len(commitments) THEN 0 ELSE i + 1
        BY DEF OneWinnerChain
      <4>3. /\ i - 1 \in {0} \cup DOMAIN commitments
            /\ i # Len(commitments) => i + 1 \in DOMAIN commitments
        BY <2>2
      <4>4. QED
        BY <4>1, <4>2, <4>3
    <3>2. \A i, j \in DOMAIN commitments :
            commitments[i].active /\ commitments[j].active => i = j
      BY DEF OneWinnerChain
    <3>3. QED
      BY <3>1, <3>2 DEF CommitmentKeys
  <2>5. EvidenceKeys
    <3>1. ASSUME NEW e \in evidence, NEW f \in evidence, e.commitment = f.commitment
          PROVE  e = f
      <4>1. e.commitment \in DOMAIN commitments
        BY DEF EvidenceKnown
      <4>2. PICK g : EvidenceOf(e.commitment) = {g}
        BY <4>1 DEF EvidenceKnown
      <4>3. e \in EvidenceOf(e.commitment) /\ f \in EvidenceOf(e.commitment)
        BY <3>1 DEF EvidenceOf
      <4>4. QED
        BY <4>2, <4>3
    <3>2. QED
      BY <3>1 DEF EvidenceKeys, EvidenceKnown
  <2>6. PaperKeys
    BY <2>1, CommittedCalls DEF PaperKeys, PaperReferences, QuoteReferences
  <2>7. EscalationKeys
    BY <2>1 DEF EscalationKeys, ListReferences, StatusReflectsRows
  <2>8. RecoveryKeys
    <3>1. \A i \in DOMAIN commitments : \E e \in evidence : e.commitment = i
      BY DEF EvidenceKnown, EvidenceOf
    <3>2. QED
      BY <2>1, <3>1 DEF RecoveryKeys, ListReferences
  <2>9. NotificationKeys
    BY DEF NotificationKeys, NoticesKnown
  <2>10. OnlyARecoverysQuoteIsRefused
    <3>1. SUFFICES ASSUME NEW q \in DOMAIN quotes, NEW i \in DOMAIN commitments,
                          Committable(q), commitments[i].quote = q
                   PROVE  AttemptsFor(i) # {}
      BY DEF OnlyARecoverysQuoteIsRefused
    <3>2. PICK r \in reservations : r.quote = q /\ r.consumedBy = 0
      BY <3>1 DEF Committable, OpenReservations
    <3>3. CASE MadeFromQuote(i)
      <4>1. [quote |-> q, consumedBy |-> i] \in reservations
        BY <3>1, <3>3 DEF MadeFromQuote
      <4>2. r = [quote |-> q, consumedBy |-> i]
        BY <3>2, <4>1 DEF EvidenceFollowsQuote
      <4>3. i # 0
        BY <2>2
      <4>4. QED
        BY <3>2, <4>2, <4>3
    <3>4. CASE MadeByRecovery(i)
      BY <3>4 DEF MadeByRecovery
    <3>5. QED
      BY <3>3, <3>4 DEF RowsAreExplained, CommitmentsAreExplained
  <2>11. QED
    BY <2>1, <2>3, <2>4, <2>5, <2>6, <2>7, <2>8, <2>9, <2>10
    DEF RowsAreAccepted, QuoteReferences
<1>2. RecordsSpec => /\ []TypeOK /\ []StatusReflectsRows /\ []OneWinnerChain
                     /\ []CommitmentsKeepTheirQuote /\ []EvidenceFollowsQuote
                     /\ []NoticesKnown /\ [](HistoryKept /\ EvidenceKnown)
                     /\ []References /\ []RowsAreExplained
  BY RecordsImplement, TypeInvariant, StatusInvariant, ChainInvariant,
     QuotesInvariant, EvidenceInvariant, NoticesKnownInvariant, KnownInvariant,
     ReferencesInvariant, RowsExplained, PTL
<1>3. QED
  BY <1>1, <1>2, PTL
=============================================================================
