------------------------- MODULE InboundCallsProofs -------------------------
(***************************************************************************)
(* What holds of inbound calls for every number of calls, operations,      *)
(* deliveries, commitments, restarts and failures.                         *)
(***************************************************************************)
EXTENDS InboundCalls, TLAPS

\* A stream that writes or cleans up has stored its recording; what is left behind
\* and what is completed belongs to a stream that is over, or cleans up after a
\* commit that raised.
Kept ==
  /\ \A c \in Calls : stream[c] \in {"write", "cleanup"} => c \in recordings
  /\ \A c \in orphans : stream[c] = "over"
  /\ \A c \in Calls :
       attempts[c].status = "COMPLETED" =>
         stream[c] = "over" \/ (stream[c] = "cleanup" /\ c \in unheard)

\* What a completed call made is not newer than what the operation has.
Dated ==
  \A c \in Calls :
    attempts[c].status = "COMPLETED" =>
      attempts[c].result <= operations[attempts[c].operation].commitment

\* An attempt with consent, a delivery that tells of it and a caller who waits for
\* its answer all follow the key the caller pressed.
Agreed ==
  \A c \in Calls :
    \/ attempts[c].status \in {"CONSENTED", "STREAMING", "COMPLETED"}
    \/ \E n \in Copies : hooks[c]["consent"][n] # "none"
    \/ phone[c] = "pressed"
    => agreed[c]

\* The inductive invariant.
Inv ==
  /\ TypeOK /\ Kept /\ RecordingsAreEvidence
  /\ OneCallPerOperation
  /\ Dated /\ RecoveryReplacesItsCommitment
  /\ Agreed /\ RecordedWithConsent

-----------------------------------------------------------------------------
(* Lemmas about types.                                                     *)

\* An attempt with a status of its own is one.
LEMMA AttemptTyped ==
  ASSUME TypeOK, NEW c \in Calls, attempts[c].status # "none"
  PROVE  attempts[c] \in AttemptType
  BY DEF TypeOK, None

\* An attempt that changes its status stays one.
LEMMA StatusTyped ==
  ASSUME TypeOK, NEW c \in Calls, attempts[c].status # "none",
         NEW status \in Live \cup {"COMPLETED", "FAILED"},
         attempts' = [attempts EXCEPT ![c].status = status]
  PROVE  attempts' \in [Calls -> AttemptType \cup {None}]
<1>1. attempts[c] \in AttemptType
  BY AttemptTyped
<1>2. [attempts[c] EXCEPT !.status = status] \in AttemptType
  BY <1>1 DEF AttemptType
<1>3. QED
  BY <1>2 DEF TypeOK

\* A webhook that goes on leaves the deliveries typed and the others as they are.
LEMMA GotoTyped ==
  ASSUME TypeOK, NEW c \in Calls, NEW k \in Kinds, NEW n \in Copies,
         NEW step \in HookSteps, Goto(c, k, n, step)
  PROVE  /\ hooks' \in [Calls -> [Kinds -> [Copies -> HookSteps]]]
         /\ \A d \in Calls, j \in Kinds, m \in Copies :
              hooks'[d][j][m] # hooks[d][j][m] =>
                d = c /\ j = k /\ m = n /\ hooks[d][j][m] = hooks[c][k][n]
  BY DEF TypeOK, Goto

\* The initial states are typed.
LEMMA InitTyped == ASSUME Init PROVE TypeOK
<1>1. operations \in [Operations -> OperationType]
  <2>1. 1 \in 1 .. MaxCommitments
    BY InboundAssumption
  <2>2. [commitment : {1}, safe : {TRUE}, status : {"COMMITTED"}]
          \subseteq OperationType
    BY <2>1 DEF OperationType
  <2>3. QED
    BY <2>2 DEF Init
<1>2. hooks \in [Calls -> [Kinds -> [Copies -> HookSteps]]]
  BY DEF Init, HookSteps
<1>3. /\ attempts \in [Calls -> AttemptType \cup {None}]
      /\ restarts \in 0 .. MaxRestarts
      /\ glitches \in 0 .. MaxGlitches
  BY InboundAssumption DEF Init
<1>4. QED
  BY <1>1, <1>2, <1>3 DEF Init, TypeOK, StreamSteps

\* Every step keeps the types.
LEMMA NextTyped ==
  ASSUME TypeOK, Kept, [Next]_vars
  PROVE  TypeOK'
<1> USE DEF TypeOK
<1>1. ASSUME NEW c \in Calls, NEW k \in Kinds, NEW n \in Copies,
             Deliver(c, k, n)
      PROVE  TypeOK'
  BY <1>1 DEF Deliver, HookSteps
<1>2. ASSUME NEW c \in Calls, NEW k \in Kinds, NEW n \in Copies,
             HearAnswer(c, k, n)
      PROVE  TypeOK'
  BY <1>2 DEF HearAnswer, AfterAnswer, HookSteps
<1>3. ASSUME NEW c \in Calls, Ring(c) \/ PressOne(c) \/ HangUp(c)
      PROVE  TypeOK'
  BY <1>3 DEF Ring, PressOne, HangUp
<1>4. ASSUME NEW o \in Operations,
             Supersede(o) \/ Escalate(o) \/ ReplaceMandate(o)
      PROVE  TypeOK'
  <2>1. operations' \in [Operations -> OperationType]
    <3>1. operations[o] \in OperationType
      OBVIOUS
    <3>2. ASSUME Supersede(o)
          PROVE  [operations[o] EXCEPT !.commitment = @ + 1] \in OperationType
      BY <3>1, <3>2, InboundAssumption DEF Supersede, OperationType
    <3>3. [operations[o] EXCEPT !.status = "ESCALATED"] \in OperationType
      BY <3>1 DEF OperationType
    <3>4. \A safe \in BOOLEAN :
            [operations[o] EXCEPT !.status = "COMMITTED", !.safe = safe]
              \in OperationType
      BY <3>1 DEF OperationType
    <3>5. CASE Supersede(o)
      BY <3>5, <3>2 DEF Supersede
    <3>6. CASE Escalate(o)
      BY <3>6, <3>3 DEF Escalate
    <3>7. CASE ReplaceMandate(o)
      <4>1. PICK safe \in BOOLEAN :
              operations' = [operations EXCEPT ![o] =
                [operations[o] EXCEPT !.status = "COMMITTED", !.safe = safe]]
        BY <3>7 DEF ReplaceMandate
      <4>2. QED
        BY <4>1, <3>4
    <3>8. QED
      BY <1>4, <3>5, <3>6, <3>7
  <2>2. QED
    BY <1>4, <2>1 DEF Supersede, Escalate, ReplaceMandate
<1>5. ASSUME NEW c \in Calls, NEW k \in Kinds, NEW n \in Copies,
             Lookup(c, k, n)
      PROVE  TypeOK'
  <2>1. PICK step \in HookSteps : Goto(c, k, n, step)
    BY <1>5 DEF Lookup, AfterAccept, HookSteps
  <2>2. hooks' \in [Calls -> [Kinds -> [Copies -> HookSteps]]]
    BY <2>1, GotoTyped DEF TypeOK
  <2>3. QED
    BY <1>5, <2>2 DEF Lookup
<1>6. ASSUME NEW c \in Calls, NEW k \in Kinds, NEW n \in Copies,
             Correlate(c, k, n)
      PROVE  TypeOK'
  <2>1. PICK step \in HookSteps : Goto(c, k, n, step)
    BY <1>6 DEF Correlate, GotoCommitted, AfterAccept, HookSteps
  <2>2. hooks' \in [Calls -> [Kinds -> [Copies -> HookSteps]]]
    BY <2>1, GotoTyped
  <2>3. attempts' \in [Calls -> AttemptType \cup {None}]
    <3>1. CASE UNCHANGED attempts
      BY <3>1
    <3>2. CASE ~UNCHANGED attempts
      <4>1. PICK o \in Candidates :
              attempts' = [attempts EXCEPT
                             ![c] = [status |-> "AWAITING_CONSENT",
                                     operation |-> o,
                                     commitment |-> operations[o].commitment,
                                     result |-> 0, expired |-> FALSE]]
        BY <1>6, <3>2 DEF Correlate
      <4>2. o \in Operations /\ operations[o].commitment \in 1 .. MaxCommitments
        BY <4>1 DEF Candidates, OperationType
      <4>3. [status |-> "AWAITING_CONSENT", operation |-> o,
             commitment |-> operations[o].commitment, result |-> 0,
             expired |-> FALSE] \in AttemptType
        BY <4>2, InboundAssumption DEF AttemptType, Live
      <4>4. QED
        BY <4>1, <4>3
    <3>3. QED
      BY <3>1, <3>2
  <2>4. glitches' \in 0 .. MaxGlitches
    BY <1>6, InboundAssumption DEF Correlate, GotoCommitted, Glitch
  <2>5. QED
    BY <1>6, <2>2, <2>3, <2>4 DEF Correlate
<1>7. ASSUME NEW c \in Calls, NEW n \in Copies, Consent(c, n)
      PROVE  TypeOK'
  <2>1. PICK step \in HookSteps : Goto(c, "consent", n, step)
    BY <1>7 DEF Consent, GotoCommitted, HookSteps
  <2>2. hooks' \in [Calls -> [Kinds -> [Copies -> HookSteps]]]
    BY <2>1, GotoTyped DEF Kinds
  <2>3. attempts' \in [Calls -> AttemptType \cup {None}]
    BY <1>7, StatusTyped DEF Consent, Live
  <2>4. glitches' \in 0 .. MaxGlitches
    BY <1>7, InboundAssumption DEF Consent, GotoCommitted, Glitch
  <2>5. QED
    BY <1>7, <2>2, <2>3, <2>4 DEF Consent
<1>8. ASSUME NEW c \in Calls, NEW k \in Kinds, NEW n \in Copies,
             Register(c, k, n) \/ HookFails(c, k, n)
      PROVE  TypeOK'
  <2>1. hooks' \in [Calls -> [Kinds -> [Copies -> HookSteps]]]
    BY <1>8, GotoTyped DEF Register, HookFails, HookSteps
  <2>2. glitches' \in 0 .. MaxGlitches
    BY <1>8, InboundAssumption DEF Register, HookFails, Glitch
  <2>3. entries' \in [Calls -> {"none", "bound", "claimed"}]
    BY <1>8 DEF Register, HookFails
  <2>4. QED
    BY <1>8, <2>1, <2>2, <2>3 DEF Register, HookFails
<1>9. ASSUME NEW c \in Calls, Expire(c)
      PROVE  TypeOK'
  <2>1. attempts' \in [Calls -> AttemptType \cup {None}]
    <3>1. attempts[c] \in AttemptType
      BY <1>9, AttemptTyped DEF Expire
    <3>2. [attempts[c] EXCEPT !.expired = TRUE] \in AttemptType
      BY <3>1 DEF AttemptType
    <3>3. QED
      BY <1>9, <3>2 DEF Expire
  <2>2. QED
    BY <1>9, <2>1 DEF Expire
<1>10. ASSUME NEW c \in Calls, StartStream(c) \/ StartBreaks(c)
       PROVE  TypeOK'
  <2>1. attempts' \in [Calls -> AttemptType \cup {None}]
    BY <1>10, StatusTyped DEF StartStream, StartBreaks, Startable, Live
  <2>2. glitches' \in 0 .. MaxGlitches
    BY <1>10, InboundAssumption DEF StartStream, StartBreaks, Glitch
  <2>3. QED
    BY <1>10, <2>1, <2>2 DEF StartStream, StartBreaks, StreamSteps
<1>11. ASSUME NEW c \in Calls, NEW outcome \in Failures \cup {"check"},
              EndStream(c, outcome)
       PROVE  TypeOK'
  BY <1>11 DEF EndStream, StreamSteps
<1>12. ASSUME NEW c \in Calls, Claim(c) \/ Check(c) \/ Store(c)
       PROVE  TypeOK'
  <2>1. stream' \in [Calls -> StreamSteps]
    <3>1. PICK s \in {"live", "store", "over", "write"} : stream' = [stream EXCEPT ![c] = s]
      BY <1>12 DEF Claim, Check, Store
    <3>2. s \in StreamSteps
      BY DEF StreamSteps
    <3>3. QED
      BY <3>1, <3>2
  <2>2. QED
    BY <1>12, <2>1 DEF Claim, Check, Store
<1>13. ASSUME NEW c \in Calls, Fail(c)
       PROVE  TypeOK'
  <2>1. attempts' \in [Calls -> AttemptType \cup {None}]
    BY <1>13, StatusTyped DEF Fail, Live
  <2>2. QED
    BY <1>13, <2>1 DEF Fail, Over, StreamSteps
<1>14. ASSUME NEW c \in Calls, FinishBreaks(c) \/ Rollback(c)
       PROVE  TypeOK'
  <2>1. stream' \in [Calls -> StreamSteps]
    BY <1>14 DEF FinishBreaks, Rollback, Over, StreamSteps
  <2>2. glitches' \in 0 .. MaxGlitches
    BY <1>14, InboundAssumption DEF FinishBreaks, Rollback, Glitch
  <2>3. QED
    BY <1>14, <2>1, <2>2 DEF FinishBreaks, Rollback
<1>15. ASSUME NEW c \in Calls, Complete(c)
       PROVE  TypeOK'
  <2>1. attempts[c] \in AttemptType
    BY <1>15, AttemptTyped DEF Complete, Replaces, Recoverable
  <2>2. operations[attempts[c].operation] \in OperationType
    BY <2>1 DEF AttemptType
  <2>3. operations[attempts[c].operation].commitment + 1
          \in 1 .. MaxCommitments
    BY <1>15, <2>2, InboundAssumption DEF Complete, OperationType
  <2> DEFINE o == attempts[c].operation
             new == operations[o].commitment + 1
  <2>4. operations' \in [Operations -> OperationType]
    <3>1. [operations[o] EXCEPT !.commitment = new] \in OperationType
      BY <2>2, <2>3 DEF OperationType
    <3>2. QED
      BY <1>15, <3>1 DEF Complete
  <2>5. attempts' \in [Calls -> AttemptType \cup {None}]
    <3>. HIDE DEF new
    <3>1. [attempts[c] EXCEPT !.status = "COMPLETED", !.result = new]
            \in AttemptType
      <4>1. new \in 0 .. MaxCommitments
        BY <2>3, InboundAssumption DEF new
      <4>2. QED
        BY <2>1, <4>1 DEF AttemptType
    <3>2. attempts' = [attempts EXCEPT ![c] =
                         [attempts[c] EXCEPT !.status = "COMPLETED",
                                             !.result = new]]
      BY <1>15 DEF Complete, TypeOK, new
    <3>3. QED
      BY <3>1, <3>2
  <2>6. stream' \in [Calls -> StreamSteps]
    BY <1>15 DEF Complete, Over, StreamSteps
  <2>7. unheard' \subseteq Calls /\ glitches' \in 0 .. MaxGlitches
    BY <1>15, InboundAssumption DEF Complete, Glitch
  <2>8. QED
    BY <1>15, <2>4, <2>5, <2>6, <2>7 DEF Complete
<1>16. ASSUME NEW c \in Calls, Cleanup(c)
       PROVE  TypeOK'
  <2>1. orphans' \subseteq recordings' /\ recordings' \subseteq Calls
    BY <1>16 DEF Cleanup, KeptAfter, Kept
  <2>2. glitches' \in 0 .. MaxGlitches
    BY <1>16, InboundAssumption DEF Cleanup, Glitch
  <2>3. QED
    BY <1>16, <2>1, <2>2 DEF Cleanup, Over, StreamSteps
<1>17. CASE Restart
  <2>1. hooks' \in [Calls -> [Kinds -> [Copies -> HookSteps]]]
    BY <1>17 DEF Restart, HookSteps
  <2>2. restarts' \in 0 .. MaxRestarts
    BY <1>17, InboundAssumption DEF Restart
  <2>3. phone' \in [Calls -> {"idle", "ringing", "asked", "pressed",
                              "connecting", "streaming", "gone"}]
    BY <1>17 DEF Restart
  <2>4. QED
    BY <1>17, <2>1, <2>2, <2>3 DEF Restart, StreamSteps
<1>18. CASE UNCHANGED vars
  BY <1>18 DEF vars
<1>19. QED
  BY <1>1, <1>2, <1>3, <1>4, <1>5, <1>6, <1>7, <1>8, <1>9, <1>10, <1>11,
     <1>12, <1>13, <1>14, <1>15, <1>16, <1>17, <1>18
  DEF Next, ServeHook, ServeStream, Kinds

-----------------------------------------------------------------------------
(* Evidence.                                                               *)

\* Every step keeps recordings, their calls and their streams together.
LEMMA NextKept ==
  ASSUME TypeOK, Kept, RecordingsAreEvidence, [Next]_vars
  PROVE  (Kept /\ RecordingsAreEvidence)'
<1> DEFINE Idle == UNCHANGED <<attempts, recordings, stream, orphans, unheard>>
           Good == Kept /\ RecordingsAreEvidence
<1>0. /\ attempts \in [Calls -> AttemptType \cup {None}]
      /\ stream \in [Calls -> StreamSteps]
      /\ recordings \subseteq Calls /\ orphans \subseteq recordings
      /\ unheard \subseteq Calls
  BY DEF TypeOK
<1>1. ASSUME Idle PROVE Good'
  BY <1>1 DEF Kept, RecordingsAreEvidence
<1>2. ASSUME NEW c \in Calls, NEW k \in Kinds, NEW n \in Copies,
             \/ Deliver(c, k, n) \/ HearAnswer(c, k, n) \/ Lookup(c, k, n)
             \/ Register(c, k, n) \/ HookFails(c, k, n)
      PROVE  Idle
  BY <1>2 DEF Deliver, HearAnswer, Lookup, Register, HookFails
<1>3. ASSUME NEW c \in Calls, Ring(c) \/ PressOne(c) \/ HangUp(c)
      PROVE  Idle
  BY <1>3 DEF Ring, PressOne, HangUp
<1>4. ASSUME NEW o \in Operations,
             Supersede(o) \/ Escalate(o) \/ ReplaceMandate(o)
      PROVE  Idle
  BY <1>4 DEF Supersede, Escalate, ReplaceMandate
<1>5. ASSUME NEW c \in Calls, UNCHANGED <<recordings, stream, orphans, unheard>>,
             \A d \in Calls \ {c} : attempts'[d] = attempts[d],
             attempts'[c].status # "COMPLETED",
             attempts[c].status # "COMPLETED" \/ attempts'[c] = attempts[c]
      PROVE  Good'
  BY <1>5, <1>0 DEF Kept, RecordingsAreEvidence
<1>6. ASSUME NEW c \in Calls, NEW k \in Kinds, NEW n \in Copies,
             Correlate(c, k, n)
      PROVE  Good'
  <2>1. CASE UNCHANGED attempts
    BY <1>6, <2>1, <1>1 DEF Correlate
  <2>2. CASE ~UNCHANGED attempts
    BY <1>6, <2>2, <1>0, <1>5 DEF Correlate, None
  <2>3. QED
    BY <2>1, <2>2
<1>7. ASSUME NEW c \in Calls, NEW n \in Copies, Consent(c, n)
      PROVE  Good'
  <2>1. CASE UNCHANGED attempts
    BY <1>7, <2>1, <1>1 DEF Consent
  <2>2. CASE attempts[c].status = "AWAITING_CONSENT"
             /\ attempts' = [attempts EXCEPT ![c].status = "CONSENTED"]
    BY <1>7, <2>2, <1>0, <1>5, AttemptTyped DEF Consent, AttemptType
  <2>3. QED
    BY <1>7, <2>1, <2>2 DEF Consent
<1>8. ASSUME NEW c \in Calls, Expire(c)
      PROVE  Good'
  BY <1>8, <1>0, <1>5, AttemptTyped DEF Expire, AttemptType
<1>9. ASSUME NEW c \in Calls, NEW step \in StreamSteps \ {"write", "cleanup"},
             stream[c] \notin {"write", "cleanup", "over"},
             stream' = [stream EXCEPT ![c] = step],
             UNCHANGED <<recordings, orphans, unheard>>,
             \A d \in Calls \ {c} : attempts'[d] = attempts[d],
             attempts'[c].status # "COMPLETED"
      PROVE  Good'
  BY <1>9, <1>0 DEF Kept, RecordingsAreEvidence
<1>10. ASSUME NEW c \in Calls, StartStream(c) \/ StartBreaks(c)
       PROVE  Good'
  <2>1. attempts'[c].status # "COMPLETED"
    BY <1>10, <1>0, AttemptTyped
    DEF StartStream, StartBreaks, Startable, AttemptType, Kept
  <2>2. QED
    BY <1>10, <2>1, <1>0, <1>9 DEF StartStream, StartBreaks, StreamSteps
<1>11. ASSUME NEW c \in Calls, NEW outcome \in Failures \cup {"check"},
              EndStream(c, outcome)
       PROVE  Good'
  BY <1>11, <1>0, <1>9 DEF EndStream, StreamSteps, Failures, Kept
<1>12. ASSUME NEW c \in Calls, Claim(c) \/ Check(c) \/ FinishBreaks(c)
       PROVE  Good'
  <2>1. /\ stream[c] \notin {"write", "cleanup", "over"}
        /\ UNCHANGED <<attempts, recordings, orphans, unheard>>
        /\ \E step \in {"live", "store", "over"} :
             stream' = [stream EXCEPT ![c] = step]
    BY <1>12 DEF Claim, Check, FinishBreaks, Over, Failures
  <2>2. QED
    BY <2>1, <1>0, <1>9 DEF StreamSteps, Kept
<1>13. ASSUME NEW c \in Calls, Fail(c)
       PROVE  Good'
  <2>1. attempts'[c].status # "COMPLETED"
    BY <1>13, <1>0, AttemptTyped DEF Fail, Live, Failures, AttemptType, Kept
  <2>2. QED
    BY <1>13, <2>1, <1>0, <1>9 DEF Fail, Over, StreamSteps, Failures
<1>14. ASSUME NEW c \in Calls, Store(c)
       PROVE  Good'
  BY <1>14, <1>0 DEF Store, Kept, RecordingsAreEvidence
<1>15. ASSUME NEW c \in Calls, Complete(c)
       PROVE  Good'
  <2>1. /\ \A d \in Calls \ {c} : attempts'[d] = attempts[d]
        /\ attempts'[c].status = "COMPLETED"
    BY <1>15, <1>0, AttemptTyped
    DEF Complete, Replaces, Recoverable, AttemptType
  <2>2. stream[c] = "write" /\ UNCHANGED <<recordings, orphans>>
    BY <1>15 DEF Complete
  <2>3. CASE stream' = [stream EXCEPT ![c] = "over"] /\ UNCHANGED unheard
    BY <2>1, <2>2, <2>3, <1>0 DEF Kept, RecordingsAreEvidence
  <2>4. CASE stream' = [stream EXCEPT ![c] = "cleanup"] /\ unheard' = unheard \cup {c}
    BY <2>1, <2>2, <2>4, <1>0 DEF Kept, RecordingsAreEvidence
  <2>5. QED
    BY <1>15, <2>3, <2>4 DEF Complete, Over
<1>16. ASSUME NEW c \in Calls, Rollback(c)
       PROVE  Good'
  BY <1>16, <1>0 DEF Rollback, Kept, RecordingsAreEvidence
<1>17. ASSUME NEW c \in Calls, Cleanup(c)
       PROVE  Good'
  BY <1>17, <1>0 DEF Cleanup, Over, KeptAfter, Kept, RecordingsAreEvidence
<1>18. CASE Restart
  BY <1>18, <1>0 DEF Restart, Kept, RecordingsAreEvidence
<1>19. CASE UNCHANGED vars
  BY <1>19, <1>1 DEF vars
<1>20. QED
  BY <1>1, <1>2, <1>3, <1>4, <1>6, <1>7, <1>8, <1>10, <1>11, <1>12, <1>13,
     <1>14, <1>15, <1>16, <1>17, <1>18, <1>19
  DEF Next, ServeHook, ServeStream, Kinds

-----------------------------------------------------------------------------
(* The operation of a call.                                                *)

\* What a step may make of the attempt of a call: it is accepted for an operation
\* that no other call has, it is completed, or it keeps its operation and comes to
\* no live status it had left.
Moves(c) ==
  \/ attempts'[c] = attempts[c]
  \/ /\ attempts[c] = None
     /\ attempts'[c].status = "AWAITING_CONSENT"
     /\ ~Occupied(attempts'[c].operation)
  \/ /\ attempts[c].status \in Live
     /\ attempts'[c].status # "COMPLETED"
     /\ attempts'[c].operation = attempts[c].operation
     /\ attempts'[c].commitment = attempts[c].commitment
  \/ Complete(c)

\* A step changes one attempt at most, and in one of these ways.
LEMMA OneMoves ==
  ASSUME TypeOK, [Next]_vars
  PROVE  \/ UNCHANGED attempts
         \/ \E c \in Calls :
              /\ Moves(c)
              /\ \A d \in Calls \ {c} : attempts'[d] = attempts[d]
<1> DEFINE Good == \/ UNCHANGED attempts
                   \/ \E c \in Calls :
                        /\ Moves(c)
                        /\ \A d \in Calls \ {c} : attempts'[d] = attempts[d]
<1>0. attempts \in [Calls -> AttemptType \cup {None}]
  BY DEF TypeOK
<1>1. ASSUME NEW c \in Calls, NEW k \in Kinds, NEW n \in Copies,
             Correlate(c, k, n)
      PROVE  Good
  <2>1. CASE UNCHANGED attempts
    BY <2>1
  <2>2. CASE ~UNCHANGED attempts
    <3>1. PICK o \in Candidates :
            attempts' = [attempts EXCEPT
                           ![c] = [status |-> "AWAITING_CONSENT",
                                   operation |-> o,
                                   commitment |-> operations[o].commitment,
                                   result |-> 0, expired |-> FALSE]]
      BY <1>1, <2>2 DEF Correlate
    <3>2. attempts[c] = None /\ ~Occupied(o)
      BY <1>1, <2>2, <3>1 DEF Correlate, Candidates
    <3>3. QED
      BY <1>0, <3>1, <3>2 DEF Moves
  <2>3. QED
    BY <2>1, <2>2
<1>2. ASSUME NEW c \in Calls, NEW status \in Live \cup {"FAILED"},
             attempts[c].status \in Live,
             attempts' = [attempts EXCEPT ![c].status = status]
      PROVE  Good
  <2>1. attempts[c] \in AttemptType
    BY <1>2, AttemptTyped DEF Live
  <2>2. QED
    BY <1>0, <1>2, <2>1 DEF Moves, AttemptType, Live
<1>3. ASSUME NEW c \in Calls, NEW n \in Copies, Consent(c, n)
      PROVE  Good
  BY <1>3, <1>2 DEF Consent, Live
<1>4. ASSUME NEW c \in Calls, Expire(c)
      PROVE  Good
  <2>1. attempts[c] \in AttemptType
    BY <1>4, AttemptTyped DEF Expire
  <2>2. QED
    BY <1>0, <1>4, <2>1 DEF Expire, Moves, AttemptType, Live
<1>5. ASSUME NEW c \in Calls, StartStream(c) \/ StartBreaks(c) \/ Fail(c)
      PROVE  Good
  BY <1>5, <1>2 DEF StartStream, StartBreaks, Fail, Startable, Live
<1>6. ASSUME NEW c \in Calls, Complete(c)
      PROVE  Good
  BY <1>0, <1>6 DEF Complete, Moves
<1>7. ASSUME NEW c \in Calls, NEW k \in Kinds, NEW n \in Copies,
             \/ Deliver(c, k, n) \/ HearAnswer(c, k, n) \/ Lookup(c, k, n)
             \/ Register(c, k, n) \/ HookFails(c, k, n)
      PROVE  Good
  BY <1>7 DEF Deliver, HearAnswer, Lookup, Register, HookFails
<1>8. ASSUME NEW c \in Calls, NEW outcome \in Failures \cup {"check"},
             \/ Ring(c) \/ PressOne(c) \/ HangUp(c) \/ EndStream(c, outcome)
             \/ Claim(c) \/ FinishBreaks(c) \/ Check(c) \/ Store(c)
             \/ Rollback(c) \/ Cleanup(c)
      PROVE  Good
  BY <1>8 DEF Ring, PressOne, HangUp, EndStream, Claim, FinishBreaks, Check,
              Store, Rollback, Cleanup
<1>9. ASSUME NEW o \in Operations,
             Supersede(o) \/ Escalate(o) \/ ReplaceMandate(o)
      PROVE  Good
  BY <1>9 DEF Supersede, Escalate, ReplaceMandate
<1>10. CASE Restart \/ UNCHANGED vars
  BY <1>10 DEF Restart, vars
<1>11. QED
  BY <1>1, <1>3, <1>4, <1>5, <1>6, <1>7, <1>8, <1>9, <1>10
  DEF Next, ServeHook, ServeStream, Kinds

\* Every step leaves an operation to one call.
LEMMA NextOneCall ==
  ASSUME TypeOK, OneCallPerOperation, [Next]_vars
  PROVE  OneCallPerOperation'
<1>1. CASE UNCHANGED attempts
  BY <1>1 DEF OneCallPerOperation
<1>2. ASSUME NEW c \in Calls, Moves(c),
             \A d \in Calls \ {c} : attempts'[d] = attempts[d]
      PROVE  OneCallPerOperation'
  <2>1. ASSUME Complete(c) PROVE attempts'[c].status = "COMPLETED"
    BY <2>1, AttemptTyped
    DEF Complete, TypeOK, Replaces, Recoverable, AttemptType
  <2>2. QED
    BY <1>2, <2>1 DEF OneCallPerOperation, Moves, Occupied, Live
<1>3. QED
  BY <1>1, <1>2, OneMoves

\* No step takes a commitment of an operation back, and a completion adds one.
LEMMA OperationsGrow ==
  ASSUME TypeOK, [Next]_vars
  PROVE  \A o \in Operations :
           operations'[o].commitment >= operations[o].commitment
<1> DEFINE Good == \A o \in Operations :
                     operations'[o].commitment >= operations[o].commitment
<1>0. /\ operations \in [Operations -> OperationType]
      /\ \A o \in Operations : operations[o].commitment \in Nat
  BY InboundAssumption DEF TypeOK, OperationType
<1>1. ASSUME UNCHANGED operations PROVE Good
  BY <1>0, <1>1
<1>2. ASSUME NEW o \in Operations,
             Supersede(o) \/ Escalate(o) \/ ReplaceMandate(o)
      PROVE  Good
  BY <1>0, <1>2 DEF Supersede, Escalate, ReplaceMandate, OperationType
<1>3. ASSUME NEW c \in Calls, Complete(c)
      PROVE  Good
  BY <1>0, <1>3 DEF Complete, OperationType
<1>4. ASSUME NEW c \in Calls, NEW k \in Kinds, NEW n \in Copies,
             \/ Deliver(c, k, n) \/ HearAnswer(c, k, n) \/ Lookup(c, k, n)
             \/ Correlate(c, k, n) \/ Register(c, k, n) \/ HookFails(c, k, n)
      PROVE  UNCHANGED operations
  BY <1>4 DEF Deliver, HearAnswer, Lookup, Correlate, Register, HookFails
<1>5. ASSUME NEW c \in Calls, NEW n \in Copies, Consent(c, n)
      PROVE  UNCHANGED operations
  BY <1>5 DEF Consent
<1>6. ASSUME NEW c \in Calls, NEW outcome \in Failures \cup {"check"},
             \/ Ring(c) \/ PressOne(c) \/ HangUp(c) \/ Expire(c)
             \/ StartStream(c) \/ StartBreaks(c) \/ EndStream(c, outcome)
             \/ Claim(c) \/ Fail(c) \/ FinishBreaks(c) \/ Check(c)
             \/ Store(c) \/ Rollback(c) \/ Cleanup(c)
      PROVE  UNCHANGED operations
  BY <1>6 DEF Ring, PressOne, HangUp, Expire, StartStream, StartBreaks, EndStream,
              Claim, Fail, FinishBreaks, Check, Store, Rollback, Cleanup
<1>7. CASE Restart \/ UNCHANGED vars
  BY <1>7, <1>1 DEF Restart, vars
<1>8. QED
  BY <1>1, <1>2, <1>3, <1>4, <1>5, <1>6, <1>7
  DEF Next, ServeHook, ServeStream, Kinds

\* Every step keeps a completed call the one that replaced its commitment.
LEMMA NextReplaces ==
  ASSUME TypeOK, TypeOK', Dated, RecoveryReplacesItsCommitment, [Next]_vars
  PROVE  (Dated /\ RecoveryReplacesItsCommitment)'
<1>0. /\ \A c \in Calls :
           attempts[c].status = "COMPLETED" =>
             /\ attempts[c].operation \in Operations
             /\ attempts[c].result \in Nat /\ attempts[c].commitment \in Nat
      /\ \A o \in Operations :
           /\ operations[o].commitment \in Nat
           /\ operations'[o].commitment \in Nat
           /\ operations'[o].commitment >= operations[o].commitment
  <2>1. \A c \in Calls :
          attempts[c].status = "COMPLETED" => attempts[c] \in AttemptType
    BY AttemptTyped
  <2>2. QED
    BY <2>1, OperationsGrow, InboundAssumption
    DEF TypeOK, AttemptType, OperationType
<1>1. ASSUME NEW c \in Calls,
             \A d \in Calls \ {c} : attempts'[d] = attempts[d],
             attempts'[c].status # "COMPLETED" \/ attempts'[c] = attempts[c]
      PROVE  (Dated /\ RecoveryReplacesItsCommitment)'
  <2>1. \A d \in Calls :
          attempts'[d].status = "COMPLETED" => attempts'[d] = attempts[d]
    BY <1>1
  <2>2. Dated'
    BY <2>1, <1>0 DEF Dated
  <2>3. QED
    BY <2>1, <2>2 DEF RecoveryReplacesItsCommitment
<1>2. ASSUME NEW c \in Calls, Complete(c)
      PROVE  (Dated /\ RecoveryReplacesItsCommitment)'
  <2> DEFINE o == attempts[c].operation
             new == operations[o].commitment + 1
  <2>1. attempts[c] \in AttemptType
    BY <1>2, AttemptTyped DEF Complete, Replaces, Recoverable
  <2>2. o \in Operations /\ attempts[c].commitment = operations[o].commitment
    BY <1>2, <2>1 DEF Complete, Replaces, AttemptType
  <2>3. /\ attempts' = [attempts EXCEPT ![c].status = "COMPLETED",
                                        ![c].result = new]
        /\ operations' = [operations EXCEPT ![o].commitment = new]
    BY <1>2 DEF Complete
  <2>4. /\ attempts'[c].status = "COMPLETED" /\ attempts'[c].result = new
        /\ attempts'[c].operation = o
        /\ attempts'[c].commitment = operations[o].commitment
        /\ \A d \in Calls \ {c} : attempts'[d] = attempts[d]
    BY <2>1, <2>2, <2>3 DEF TypeOK, AttemptType
  <2>5. operations'[o].commitment = new
    BY <2>2, <2>3 DEF TypeOK, OperationType
  <2>6. \A d \in Calls \ {c} :
          attempts[d].status = "COMPLETED" /\ attempts[d].operation = o
            => attempts[d].result < new
    BY <1>0, <2>2 DEF Dated
  <2>7. Dated'
    BY <1>0, <2>2, <2>4, <2>5 DEF Dated
  <2>8. RecoveryReplacesItsCommitment'
    <3>1. ASSUME NEW d \in Calls, NEW e \in Calls, d # e,
                 attempts'[d].status = "COMPLETED",
                 attempts'[e].status = "COMPLETED",
                 attempts'[d].operation = attempts'[e].operation
          PROVE  attempts'[d].result # attempts'[e].result
      <4>1. CASE d = c
        BY <3>1, <4>1, <2>4, <2>6, <1>0
      <4>2. CASE e = c
        BY <3>1, <4>2, <2>4, <2>6, <1>0
      <4>3. CASE d # c /\ e # c
        BY <3>1, <4>3, <2>4 DEF RecoveryReplacesItsCommitment
      <4>4. QED
        BY <4>1, <4>2, <4>3
    <3>2. \A d \in Calls :
            attempts'[d].status = "COMPLETED" =>
              attempts'[d].result = attempts'[d].commitment + 1
      BY <2>4 DEF RecoveryReplacesItsCommitment
    <3>3. QED
      BY <3>1, <3>2 DEF RecoveryReplacesItsCommitment
  <2>9. QED
    BY <2>7, <2>8
<1>3. CASE UNCHANGED attempts
  <2>1. Dated'
    BY <1>0, <1>3 DEF Dated
  <2>2. QED
    BY <1>3, <2>1 DEF RecoveryReplacesItsCommitment
<1>4. QED
  BY <1>1, <1>2, <1>3, OneMoves DEF Moves

-----------------------------------------------------------------------------
(* Consent.                                                                *)

\* Every step keeps streams and recordings behind the consent of their caller.
LEMMA NextAgreed ==
  ASSUME TypeOK, Agreed, RecordedWithConsent, [Next]_vars
  PROVE  (Agreed /\ RecordedWithConsent)'
<1> DEFINE Heard(c) == \E n \in Copies : hooks[c]["consent"][n] # "none"
           Good == Agreed /\ RecordedWithConsent
<1>0. /\ attempts \in [Calls -> AttemptType \cup {None}]
      /\ hooks \in [Calls -> [Kinds -> [Copies -> HookSteps]]]
      /\ stream \in [Calls -> StreamSteps]
      /\ phone \in [Calls -> {"idle", "ringing", "asked", "pressed",
                              "connecting", "streaming", "gone"}]
      /\ agreed \in [Calls -> BOOLEAN]
      /\ recordings \subseteq Calls
      /\ "consent" \in Kinds
  BY DEF TypeOK, Kinds
<1>1. ASSUME UNCHANGED <<recordings, stream, agreed>>,
             \A c \in Calls :
               /\ attempts'[c].status \in {"CONSENTED", "STREAMING", "COMPLETED"}
                  /\ attempts'[c].status # attempts[c].status
                    => agreed[c]
               /\ phone'[c] = "pressed" => phone[c] = "pressed"
               /\ Heard(c)' => Heard(c) \/ phone[c] = "pressed"
      PROVE  Good'
  BY <1>1 DEF Agreed, RecordedWithConsent
<1>2. ASSUME NEW c \in Calls, NEW k \in Kinds, NEW n \in Copies,
             Deliver(c, k, n)
      PROVE  Good'
  <2>1. \A d \in Calls : Heard(d)' => Heard(d) \/ phone[d] = "pressed"
    BY <1>0, <1>2 DEF Deliver, Waiting
  <2>2. QED
    BY <1>1, <1>2, <2>1 DEF Deliver
<1>3. ASSUME NEW c \in Calls, NEW k \in Kinds, NEW n \in Copies,
             HearAnswer(c, k, n)
      PROVE  Good'
  <2>1. \A d \in Calls : Heard(d)' => Heard(d)
    BY <1>0, <1>3 DEF HearAnswer
  <2>2. \A d \in Calls : phone'[d] = "pressed" => phone[d] = "pressed"
    BY <1>0, <1>3 DEF HearAnswer, AfterAnswer
  <2>3. QED
    BY <1>1, <1>3, <2>1, <2>2 DEF HearAnswer
<1>4. ASSUME NEW c \in Calls, NEW k \in Kinds, NEW n \in Copies,
             Lookup(c, k, n) \/ Correlate(c, k, n) \/ Register(c, k, n)
               \/ HookFails(c, k, n)
      PROVE  Good'
  <2>1. hooks[c][k][n] # "none"
        /\ \E step \in HookSteps : hooks' = [hooks EXCEPT ![c][k][n] = step]
    BY <1>4
    DEF Lookup, Correlate, Register, HookFails, GotoCommitted, Goto, AfterAccept,
        HookSteps
  <2>2. \A d \in Calls : Heard(d)' => Heard(d)
    BY <1>0, <2>1
  <2>3. \A d \in Calls :
          attempts'[d].status # attempts[d].status =>
            attempts'[d].status = "AWAITING_CONSENT"
    BY <1>0, <1>4 DEF Lookup, Correlate, Register, HookFails
  <2>4. UNCHANGED <<recordings, stream, agreed, phone>>
    BY <1>4 DEF Lookup, Correlate, Register, HookFails
  <2>5. QED
    BY <1>1, <2>2, <2>3, <2>4
<1>5. ASSUME NEW c \in Calls, NEW n \in Copies, Consent(c, n)
      PROVE  Good'
  <2>1. hooks[c]["consent"][n] # "none" /\ agreed[c]
        /\ \E step \in HookSteps :
              hooks' = [hooks EXCEPT ![c]["consent"][n] = step]
    BY <1>5 DEF Consent, GotoCommitted, Goto, HookSteps, Agreed
  <2>2. \A d \in Calls : Heard(d)' => Heard(d)
    BY <1>0, <2>1
  <2>3. \A d \in Calls : attempts'[d].status # attempts[d].status => d = c
    BY <1>0, <1>5 DEF Consent
  <2>4. UNCHANGED <<recordings, stream, agreed, phone>>
    BY <1>5 DEF Consent
  <2>5. QED
    BY <1>1, <2>1, <2>2, <2>3, <2>4
<1>6. ASSUME NEW c \in Calls, PressOne(c)
      PROVE  Good'
  BY <1>0, <1>6 DEF PressOne, Agreed, RecordedWithConsent
<1>7. ASSUME NEW c \in Calls, Ring(c) \/ HangUp(c)
      PROVE  Good'
  BY <1>0, <1>1, <1>7 DEF Ring, HangUp
<1>8. ASSUME NEW c \in Calls, Expire(c)
      PROVE  Good'
  <2>1. \A d \in Calls : attempts'[d].status = attempts[d].status
    BY <1>0, <1>8, AttemptTyped DEF Expire, AttemptType
  <2>2. QED
    BY <1>1, <1>8, <2>1 DEF Expire
<1>9. ASSUME NEW o \in Operations,
             Supersede(o) \/ Escalate(o) \/ ReplaceMandate(o)
      PROVE  Good'
  BY <1>1, <1>9 DEF Supersede, Escalate, ReplaceMandate
\* Only a call that may stream starts to.
<1>10. ASSUME UNCHANGED <<agreed, hooks>>,
              \A c \in Calls :
                /\ attempts'[c].status \in {"CONSENTED", "STREAMING", "COMPLETED"}
                     => agreed[c]
                /\ phone'[c] = "pressed" => phone[c] = "pressed"
                /\ c \in recordings' \/ stream'[c] \notin {"none", "over"}
                     => agreed[c]
       PROVE  Good'
  BY <1>10 DEF Agreed, RecordedWithConsent
<1>11. ASSUME NEW c \in Calls, StartStream(c) \/ StartBreaks(c)
       PROVE  Good'
  <2>1. attempts[c].status = "CONSENTED" \/ UNCHANGED attempts
    BY <1>11 DEF StartStream, StartBreaks, Startable
  <2>2. \A d \in Calls :
          attempts'[d].status \in {"CONSENTED", "STREAMING", "COMPLETED"}
            => agreed[d]
    BY <1>0, <1>11, <2>1 DEF StartStream, StartBreaks, Agreed
  <2>3. \A d \in Calls : stream'[d] \notin {"none", "over"} => agreed[d]
    BY <1>0, <1>11 DEF StartStream, StartBreaks, Startable, Agreed,
                       RecordedWithConsent
  <2>4. QED
    BY <1>0, <1>10, <1>11, <2>2, <2>3 DEF StartStream, StartBreaks,
                                         RecordedWithConsent
<1>12. ASSUME NEW c \in Calls, NEW outcome \in Failures \cup {"check"},
              Claim(c) \/ EndStream(c, outcome)
       PROVE  Good'
  <2>1. stream[c] \notin {"none", "over"}
        /\ \E step \in StreamSteps : stream' = [stream EXCEPT ![c] = step]
    BY <1>12 DEF Claim, EndStream, StreamSteps
  <2>2. \A d \in Calls : phone'[d] = "pressed" => phone[d] = "pressed"
    BY <1>0, <1>12 DEF Claim, EndStream
  <2>3. UNCHANGED <<attempts, recordings, agreed, hooks>>
    BY <1>12 DEF Claim, EndStream
  <2>4. QED
    BY <1>0, <1>10, <2>1, <2>2, <2>3 DEF Agreed, RecordedWithConsent
<1>13. ASSUME NEW c \in Calls,
              \/ Fail(c) \/ FinishBreaks(c) \/ Check(c) \/ Store(c)
              \/ Complete(c) \/ Rollback(c) \/ Cleanup(c)
       PROVE  Good'
  <2>1. /\ stream[c] \notin {"none", "over"}
        /\ \E step \in StreamSteps : stream' = [stream EXCEPT ![c] = step]
        /\ recordings' \subseteq recordings \cup {c}
        /\ UNCHANGED <<phone, agreed, hooks>>
    BY <1>13 DEF Fail, FinishBreaks, Check, Store, Complete, Rollback, Cleanup,
                 KeptAfter, Over, Failures, StreamSteps
  <2>2. agreed[c]
    BY <2>1 DEF RecordedWithConsent
  <2>3. \A d \in Calls \ {c} : attempts'[d] = attempts[d]
    BY <1>0, <1>13 DEF Fail, FinishBreaks, Check, Store, Complete, Rollback,
                       Cleanup
  <2>4. QED
    BY <1>0, <1>10, <2>1, <2>2, <2>3 DEF Agreed, RecordedWithConsent
<1>14. CASE Restart
  <2>1. \A d \in Calls : Heard(d)' => Heard(d)
    BY <1>0, <1>14 DEF Restart
  <2>2. \A d \in Calls :
          /\ phone'[d] = "pressed" => phone[d] = "pressed"
          /\ stream'[d] \notin {"none", "over"} => FALSE
    BY <1>0, <1>14 DEF Restart
  <2>3. QED
    BY <1>14, <2>1, <2>2 DEF Restart, Agreed, RecordedWithConsent
<1>15. CASE UNCHANGED vars
  BY <1>1, <1>15 DEF vars
<1>16. QED
  BY <1>2, <1>3, <1>4, <1>5, <1>6, <1>7, <1>8, <1>9, <1>11, <1>12, <1>13,
     <1>14, <1>15
  DEF Next, ServeHook, ServeStream, Kinds

-----------------------------------------------------------------------------
(* Theorems.                                                               *)

\* The invariant is inductive.
THEOREM Invariant == Spec => []Inv
<1>1. Init => Inv
  <2>1. ASSUME Init PROVE Inv
    <3>1. TypeOK
      BY <2>1, InitTyped
    <3>2. \A c \in Calls :
            /\ attempts[c].status = "none" /\ stream[c] = "none"
            /\ phone[c] = "idle"
            /\ \A n \in Copies : hooks[c]["consent"][n] = "none"
      BY <2>1 DEF Init, None, Kinds
    <3>3. recordings = {} /\ orphans = {} /\ unheard = {}
      BY <2>1 DEF Init
    <3>4. QED
      BY <3>1, <3>2, <3>3
      DEF Inv, Kept, RecordingsAreEvidence, OneCallPerOperation, Dated,
          RecoveryReplacesItsCommitment, Agreed, RecordedWithConsent, Live
  <2>2. QED
    BY <2>1
<1>2. Inv /\ [Next]_vars => Inv'
  BY NextTyped, NextKept, NextOneCall, NextReplaces, NextAgreed DEF Inv
<1>3. QED
  BY <1>1, <1>2, PTL DEF Spec

\* Types: every variable of every reachable state has its type.
THEOREM TypeInvariant == Spec => []TypeOK
  BY Invariant, PTL DEF Inv

\* inbound.py complete_inbound_recovery: evidence and recovery go together, unless
\* the commit that joined them raised.
THEOREM EvidenceInvariant == Spec => []RecordingsAreEvidence
  BY Invariant, PTL DEF Inv

\* inbound.py accept_inbound_call: an operation takes one call at a time.
THEOREM OneCallInvariant == Spec => []OneCallPerOperation
  BY Invariant, PTL DEF Inv

\* inbound.py complete_inbound_recovery: a call replaces the commitment it was
\* accepted for, and no other call replaces the same one.
THEOREM RecoveryInvariant == Spec => []RecoveryReplacesItsCommitment
  BY Invariant, PTL DEF Inv

\* inbound.py start_inbound_stream: nothing of a caller is streamed or kept before
\* that caller agreed.
THEOREM ConsentInvariant == Spec => []RecordedWithConsent
  BY Invariant, PTL DEF Inv
=============================================================================
