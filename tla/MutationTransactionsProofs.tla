---------------------- MODULE MutationTransactionsProofs ----------------------
(***************************************************************************)
(* What the locks and the idempotency rows guarantee for every number of   *)
(* requests, operations and keys, and for every mutation.                  *)
(***************************************************************************)
EXTENDS MutationTransactions, SequenceTheorems, TLAPS

BodyType == [result : Nat, active : BOOLEAN]

-----------------------------------------------------------------------------
(* Types.                                                                  *)

\* A mutation writes a row of the type of the one it read.
LEMMA EffectType ==
  ASSUME NEW kind \in AllKinds, NEW s \in OpType, NEW result \in Nat
  PROVE  Effect(kind, s, result) \in OpType
<1>1. s.version + 1 \in Nat \ {0} /\ s.mandate + 1 \in Nat \ {0}
  BY DEF OpType
<1>2. CASE kind = "start_negotiation"
  <2>1. \A v \in Nat \ {0} : [s EXCEPT !.version = v, !.started = TRUE] \in OpType
    BY DEF OpType
  <2>2. Effect(kind, s, result) =
          [s EXCEPT !.version = s.version + 1,
                    !.started = TRUE]
    BY <1>2 DEF Effect
  <2>3. QED
    BY <1>1, <2>1, <2>2
<1>3. CASE kind = "record_quote"
  <2>1. \A v \in Nat \ {0}  :
          [s EXCEPT !.version = v, !.quoted = TRUE, !.reservation = "none"] \in OpType
    BY DEF OpType
  <2>2. Effect(kind, s, result) =
          [s EXCEPT !.version = s.version + 1,
                    !.quoted = TRUE, !.reservation = "none"]
    BY <1>3 DEF Effect
  <2>3. QED
    BY <1>1, <2>1, <2>2
<1>4. CASE kind = "attach_commitment_evidence"
  <2>1. [s EXCEPT !.reservation = "open"] \in OpType
    BY DEF OpType
  <2>2. Effect(kind, s, result) = [s EXCEPT !.reservation = "open"]
    BY <1>4 DEF Effect
  <2>3. QED
    BY <1>1, <2>1, <2>2
<1>5. CASE kind = "create_commitment"
  <2>1. \A v \in Nat \ {0}  :
          [s EXCEPT !.version = v, !.reservation = "consumed",
                    !.winner = result] \in OpType
    BY DEF OpType
  <2>2. Effect(kind, s, result) =
          [s EXCEPT !.version = s.version + 1,
                    !.reservation = "consumed", !.winner = result]
    BY <1>5 DEF Effect
  <2>3. QED
    BY <1>1, <2>1, <2>2
<1>6. CASE kind = "create_escalation"
  <2>1. \A v \in Nat \ {0} : [s EXCEPT !.version = v, !.escalated = TRUE] \in OpType
    BY DEF OpType
  <2>2. Effect(kind, s, result) =
          [s EXCEPT !.version = s.version + 1,
                    !.escalated = TRUE]
    BY <1>6 DEF Effect
  <2>3. QED
    BY <1>1, <2>1, <2>2
<1>7. CASE kind = "replace_mandate"
  <2> DEFINE next(v, m) == [s EXCEPT !.version = v, !.escalated = FALSE, !.mandate = m,
                                     !.quoted = FALSE, !.reservation = "none"]
  <2>1. \A v, m \in Nat \ {0} : next(v, m) \in OpType
    BY DEF OpType
  <2>2. Effect(kind, s, result) = next(s.version + 1, s.mandate + 1)
    BY <1>7 DEF Effect
  <2> HIDE DEF next
  <2>3. QED
    BY <1>1, <2>1, <2>2
<1>8. CASE kind = "start_inbound_simulation"
  <2>1. \A v \in Nat \ {0} : [s EXCEPT !.version = v, !.winner = result] \in OpType
    BY DEF OpType
  <2>2. Effect(kind, s, result) =
          [s EXCEPT !.version = s.version + 1,
                    !.winner = result]
    BY <1>8 DEF Effect
  <2>3. QED
    BY <1>1, <2>1, <2>2
<1>9. QED
  BY <1>2, <1>3, <1>4, <1>5, <1>6, <1>7, <1>8
  DEF AllKinds, KeyedKinds, RecheckedKinds

\* An answer of the right type keeps the types of what it touches.
LEMMA AnswerTyped ==
  ASSUME TypeOK, NEW d \in Deliveries, cmd[d] \in CommandType,
         NEW outcome \in Outcomes, NEW body \in BodyType,
         Answer(d, outcome, body)
  PROVE  /\ rowLock' \in [Operations -> Deliveries \cup {Nobody}]
         /\ keyLocks' \subseteq Deliveries
         /\ pc' \in [Deliveries -> Stages]
         /\ cmd' \in [Deliveries -> CommandType \cup {NoCommand}]
         /\ mandateSeen' \in [Deliveries -> Nat]
         /\ seen' \in [Deliveries -> OpType]
         /\ answer' \in [Deliveries -> AnswerType \cup {NoAnswer}]
         /\ \A e \in Deliveries :
              /\ pc'[e] # "idle" => cmd'[e] \in CommandType
              /\ pc'[e] = "done" => answer'[e] \in AnswerType
<1>1. [outcome |-> outcome, body |-> body] \in AnswerType
  BY DEF AnswerType, BodyType
<1>2. /\ pc' = [pc EXCEPT ![d] = "done"]
      /\ answer' = [answer EXCEPT ![d] = [outcome |-> outcome, body |-> body]]
      /\ UNCHANGED <<cmd, mandateSeen, seen>>
  BY DEF Answer
<1>3. /\ rowLock' \in [Operations -> Deliveries \cup {Nobody}]
      /\ keyLocks' \subseteq Deliveries
  BY DEF Answer, TypeOK
<1>4. pc' \in [Deliveries -> Stages]
  BY <1>2 DEF TypeOK, Stages
<1>5. answer' \in [Deliveries -> AnswerType \cup {NoAnswer}]
  BY <1>1, <1>2 DEF TypeOK
<1>6. \A e \in Deliveries :
        /\ pc'[e] # "idle" => cmd'[e] \in CommandType
        /\ pc'[e] = "done" => answer'[e] \in AnswerType
  <2> TAKE e \in Deliveries
  <2>1. CASE e = d
    BY <1>1, <1>2, <2>1 DEF TypeOK
  <2>2. CASE e # d
    BY <1>2, <2>2 DEF TypeOK
  <2>3. QED
    BY <2>1, <2>2
<1>7. QED
  BY <1>2, <1>3, <1>4, <1>5, <1>6 DEF TypeOK

\* A step to another stage keeps the types of the requests.
LEMMA GotoTyped ==
  ASSUME TypeOK, NEW d \in Deliveries, cmd[d] \in CommandType,
         NEW stage \in Stages \ {"done"}, Goto(d, stage)
  PROVE  /\ pc' \in [Deliveries -> Stages]
         /\ UNCHANGED <<ops, records, cmd, answer, log>>
         /\ \A e \in Deliveries :
              /\ pc'[e] # "idle" => cmd'[e] \in CommandType
              /\ pc'[e] = "done" => answer'[e] \in AnswerType
<1>1. pc' = [pc EXCEPT ![d] = stage] /\ UNCHANGED <<ops, records, cmd, answer, log>>
  BY DEF Goto
<1>2. pc' \in [Deliveries -> Stages]
  BY <1>1 DEF TypeOK
<1>3. \A e \in Deliveries : pc'[e] = IF e = d THEN stage ELSE pc[e]
  BY <1>1 DEF TypeOK
<1>4. QED
  BY <1>1, <1>2, <1>3 DEF TypeOK
\* A request that has left its client carries a command and one target.
LEMMA TargetTyped ==
  ASSUME TypeOK, NEW d \in Deliveries, pc[d] # "idle"
  PROVE  /\ cmd[d] \in CommandType
         /\ cmd[d].operation \in Operations /\ cmd[d].kind \in Kinds
         /\ ops[cmd[d].operation] \in OpType
         /\ Fingerprint(d) \in [operation : Operations, expected : Nat, mandate : Nat]
<1>1. cmd[d] \in CommandType
  BY DEF TypeOK
<1>2. /\ cmd[d].operation \in Operations /\ cmd[d].kind \in Kinds
      /\ cmd[d].expected \in Nat
  BY <1>1 DEF CommandType
<1>3. mandateSeen[d] \in Nat /\ ops[cmd[d].operation] \in OpType
  BY <1>2 DEF TypeOK
<1>4. QED
  BY <1>1, <1>2, <1>3 DEF Fingerprint

\* Every step keeps the types.
LEMMA TypeStep == TypeOK /\ [Next]_vars => TypeOK'
<1> SUFFICES ASSUME TypeOK, [Next]_vars PROVE TypeOK'
  OBVIOUS
<1>1. ASSUME NEW d \in Deliveries, Deliver(d) PROVE TypeOK'
  <2>0. PICK o \in Operations : \E c \in Command(o) :
          /\ cmd' = [cmd EXCEPT ![d] = c]
          /\ pc' = [pc EXCEPT ![d] = CASE c.kind = "start_negotiation" -> "preread"
                                      [] c.kind \in KeyedKinds -> "keyed"
                                      [] OTHER -> "check"]
    BY <1>1 DEF Deliver
  <2>1. PICK c \in Command(o) :
          /\ cmd' = [cmd EXCEPT ![d] = c]
          /\ pc' = [pc EXCEPT ![d] = CASE c.kind = "start_negotiation" -> "preread"
                                      [] c.kind \in KeyedKinds -> "keyed"
                                      [] OTHER -> "check"]
    BY <2>0
  <2>2. c \in CommandType
    <3>1. ops[o].version \in Nat
      BY DEF TypeOK, OpType
    <3>2. QED
      BY <3>1 DEF Command, CommandType
  <2>3. PICK stage \in Stages \ {"idle", "done"} : pc' = [pc EXCEPT ![d] = stage]
    BY <2>1 DEF Stages
  <2>4. \A e \in Deliveries :
          /\ cmd'[e] = IF e = d THEN c ELSE cmd[e]
          /\ pc'[e] = IF e = d THEN stage ELSE pc[e]
    BY <2>1, <2>3 DEF TypeOK
  <2>5. /\ cmd' \in [Deliveries -> CommandType \cup {NoCommand}]
        /\ pc' \in [Deliveries -> Stages]
    BY <2>1, <2>2, <2>3 DEF TypeOK
  <2>6. UNCHANGED <<ops, records, rowLock, keyLocks, mandateSeen, seen, answer, log>>
    BY <1>1 DEF Deliver
  <2>7. QED
    BY <2>2, <2>4, <2>5, <2>6 DEF TypeOK
<1>2. ASSUME NEW d \in Deliveries, pc[d] # "idle",
             NEW outcome \in Outcomes, Reject(d, outcome)
      PROVE  TypeOK'
  <2>1. [result |-> 0, active |-> FALSE] \in BodyType
    BY DEF BodyType
  <2>2. QED
    BY <1>2, <2>1, AnswerTyped, TargetTyped DEF Reject, TypeOK
<1>3. ASSUME NEW d \in Deliveries, pc[d] # "idle",
             NEW r \in RecordsOf(d), AnswerFromRecord(d, r)
      PROVE  TypeOK'
  <2>1. r \in RecordType /\ r.result \in Nat
    BY DEF RecordsOf, TypeOK, RecordType
  <2>2. Body(d, r.result) \in BodyType /\ [result |-> 0, active |-> FALSE] \in BodyType
    BY <2>1 DEF Body, BodyType
  <2>3. "replayed" \in Outcomes /\ "reused" \in Outcomes
    BY DEF Outcomes
  <2>4. UNCHANGED <<ops, records, log>>
    BY <1>3 DEF AnswerFromRecord
  <2>5. PICK outcome \in Outcomes, body \in BodyType : Answer(d, outcome, body)
    BY <1>3, <2>2, <2>3, Zenon DEF AnswerFromRecord
  <2>6. QED
    BY <1>3, <2>4, <2>5, AnswerTyped, TargetTyped DEF TypeOK
<1>4. ASSUME NEW d \in Deliveries, pc[d] # "idle",
             NEW stage \in Stages \ {"done"}, Goto(d, stage),
             rowLock' \in [Operations -> Deliveries \cup {Nobody}],
             keyLocks' \subseteq Deliveries,
             mandateSeen' \in [Deliveries -> Nat],
             seen' \in [Deliveries -> OpType]
      PROVE  TypeOK'
  BY <1>4, GotoTyped, TargetTyped DEF TypeOK
<1>5. ASSUME NEW d \in Deliveries, Preread(d) PROVE TypeOK'
  <2>1. ops[cmd[d].operation].mandate \in Nat
    BY <1>5, TargetTyped DEF Preread, OpType
  <2>2. mandateSeen' \in [Deliveries -> Nat]
    BY <1>5, <2>1 DEF Preread, TypeOK
  <2>3. QED
    BY <1>4, <1>5, <2>2 DEF Preread, TypeOK, Stages
<1>6. ASSUME NEW d \in Deliveries, LockKey(d) PROVE TypeOK'
  BY <1>4, <1>6 DEF LockKey, TypeOK, Stages
<1>7. ASSUME NEW d \in Deliveries, CheckNew(d) PROVE TypeOK'
  <2>1. PICK stage \in Stages \ {"done"} : Goto(d, stage)
    BY <1>7 DEF CheckNew, Stages
  <2>2. QED
    BY <1>4, <1>7, <2>1 DEF CheckNew, TypeOK
<1>8. ASSUME NEW d \in Deliveries, ReadReservation(d) PROVE TypeOK'
  BY <1>2, <1>4, <1>8 DEF ReadReservation, TypeOK, Stages, Outcomes
<1>9. ASSUME NEW d \in Deliveries, LockRow(d) PROVE TypeOK'
  <2>1. cmd[d].operation \in Operations /\ ops[cmd[d].operation] \in OpType
    BY <1>9, TargetTyped DEF LockRow
  <2>2. /\ rowLock' \in [Operations -> Deliveries \cup {Nobody}]
        /\ seen' \in [Deliveries -> OpType]
    BY <1>9, <2>1 DEF LockRow, TypeOK
  <2>3. QED
    BY <1>4, <1>9, <2>2 DEF LockRow, TypeOK, Stages
<1>10. ASSUME NEW d \in Deliveries, Apply(d) PROVE TypeOK'
  <2> DEFINE o == cmd[d].operation
             n == Len(log) + 1
  <2>1. pc[d] # "idle"
    BY <1>10 DEF Apply
  <2>2. /\ cmd[d] \in CommandType /\ o \in Operations
        /\ cmd[d].kind \in Kinds /\ cmd[d].kind \in AllKinds /\ cmd[d].key \in Keys
        /\ Fingerprint(d) \in [operation : Operations, expected : Nat, mandate : Nat]
    BY <2>1, TargetTyped, RequestsAssumption DEF CommandType
  <2>3. n \in Nat /\ log' \in Seq(CommandType)
    BY <1>10, <2>2, LenProperties, AppendProperties DEF Apply, TypeOK
  <2>4. ops' \in [Operations -> OpType]
    <3>1. Effect(cmd[d].kind, seen[d], n) \in OpType
      BY <2>2, <2>3, EffectType DEF TypeOK
    <3>2. ops' = [ops EXCEPT ![o] = Effect(cmd[d].kind, seen[d], n)]
      BY <1>10 DEF Apply
    <3>3. QED
      BY <3>1, <3>2 DEF TypeOK
  <2>5. records' \subseteq RecordType
    <3>1. [kind |-> cmd[d].kind, key |-> cmd[d].key,
           fingerprint |-> Fingerprint(d), result |-> n] \in RecordType
      BY <2>2, <2>3 DEF RecordType
    <3>2. QED
      BY <1>10, <3>1 DEF Apply, TypeOK
  <2>6. /\ Answer(d, "applied", [result |-> n, active |-> TRUE])
        /\ [result |-> n, active |-> TRUE] \in BodyType
        /\ "applied" \in Outcomes
    BY <1>10, <2>3 DEF Apply, BodyType, Outcomes
  <2>7. QED
    BY <2>2, <2>3, <2>4, <2>5, <2>6, AnswerTyped DEF TypeOK
<1>11. ASSUME NEW d \in Deliveries,
              CheckDone(d) \/ RecheckDone(d) \/ RefuseStale(d) \/ Refuse(d) \/ Abort(d)
       PROVE  TypeOK'
  <2>1. CASE CheckDone(d) \/ RecheckDone(d)
    BY <1>3, <2>1 DEF CheckDone, RecheckDone, Recheck
  <2>2. CASE RefuseStale(d) \/ Refuse(d) \/ Abort(d)
    BY <1>2, <2>2 DEF RefuseStale, Refuse, Abort, Outcomes
  <2>3. QED
    BY <1>11, <2>1, <2>2
<1>12. CASE UNCHANGED vars
  BY <1>12 DEF vars, TypeOK
<1>13. QED
  BY <1>1, <1>5, <1>6, <1>7, <1>8, <1>9, <1>10, <1>11, <1>12 DEF Next, Step

\* Type correctness of the tables, the locks and the requests.
THEOREM TypeInvariant == Spec => []TypeOK
<1>1. Init => TypeOK
  <2> SUFFICES ASSUME Init PROVE TypeOK
    OBVIOUS
  <2>1. NewOperation \in OpType /\ First \subseteq OpType
    BY RequestsAssumption DEF NewOperation, OpType
  <2>2. /\ ops \in [Operations -> OpType]
        /\ seen \in [Deliveries -> OpType]
        /\ records \subseteq RecordType
        /\ log \in Seq(CommandType)
    BY <2>1 DEF Init
  <2>3. /\ rowLock \in [Operations -> Deliveries \cup {Nobody}]
        /\ keyLocks \subseteq Deliveries
        /\ pc \in [Deliveries -> Stages]
        /\ cmd \in [Deliveries -> CommandType \cup {NoCommand}]
        /\ mandateSeen \in [Deliveries -> Nat]
        /\ answer \in [Deliveries -> AnswerType \cup {NoAnswer}]
    BY DEF Init, Stages
  <2>4. \A d \in Deliveries : pc[d] = "idle"
    BY DEF Init
  <2>5. QED
    BY <2>2, <2>3, <2>4 DEF TypeOK
<1>2. QED
  BY <1>1, TypeStep, PTL DEF Spec
-----------------------------------------------------------------------------
(* The row lock.                                                           *)

\* Between its lock and its answer a request holds the row of its operation,
\* and the row is still the one the lock returned.
HoldsRow ==
  \A d \in Deliveries :
    pc[d] = "locked" => /\ rowLock[cmd[d].operation] = d
                        /\ seen[d] = ops[cmd[d].operation]

\* Ending one request releases the rows of no other.
LEMMA OthersKeepTheirLocks ==
  ASSUME TypeOK, HoldsRow, NEW d \in Deliveries, NEW outcome, NEW body,
         Answer(d, outcome, body),
         NEW e \in Deliveries, pc'[e] = "locked"
  PROVE  /\ e # d /\ pc[e] = "locked"
         /\ cmd'[e] = cmd[e] /\ seen'[e] = seen[e]
         /\ rowLock'[cmd[e].operation] = e
         /\ rowLock[cmd[e].operation] = e
<1>1. e # d /\ pc[e] = "locked" /\ cmd'[e] = cmd[e] /\ seen'[e] = seen[e]
  BY DEF Answer, TypeOK
<1>2. rowLock[cmd[e].operation] = e
  BY <1>1 DEF HoldsRow
<1>3. cmd[e].operation \in Operations
  BY <1>1, TargetTyped
<1>4. QED
  BY <1>1, <1>2, <1>3 DEF Answer

\* Every step keeps the rows with those who locked them.
LEMMA HoldsRowStep == TypeOK /\ HoldsRow /\ [Next]_vars => HoldsRow'
<1> SUFFICES ASSUME TypeOK, HoldsRow, [Next]_vars,
                    NEW e \in Deliveries, pc'[e] = "locked"
             PROVE  /\ rowLock'[cmd'[e].operation] = e
                    /\ seen'[e] = ops'[cmd'[e].operation]
  BY DEF HoldsRow
<1> DEFINE Goal == /\ rowLock'[cmd'[e].operation] = e
                   /\ seen'[e] = ops'[cmd'[e].operation]
<1>1. ASSUME pc[e] = "locked", UNCHANGED <<rowLock, seen, ops>>, cmd'[e] = cmd[e]
      PROVE  Goal
  BY <1>1 DEF HoldsRow
<1>2. ASSUME NEW d \in Deliveries, Deliver(d) PROVE Goal
  <2>1. PICK o \in Operations : \E c \in Command(o) :
          /\ cmd' = [cmd EXCEPT ![d] = c]
          /\ pc' = [pc EXCEPT ![d] = CASE c.kind = "start_negotiation" -> "preread"
                                      [] c.kind \in KeyedKinds -> "keyed"
                                      [] OTHER -> "check"]
    BY <1>2 DEF Deliver
  <2>2. pc[e] = "locked" /\ cmd'[e] = cmd[e]
    BY <2>1 DEF TypeOK
  <2>3. QED
    BY <1>1, <1>2, <2>2 DEF Deliver
<1>3. ASSUME NEW d \in Deliveries, NEW stage \in Stages \ {"locked"}, Goto(d, stage),
             UNCHANGED <<rowLock, seen>>
      PROVE  Goal
  BY <1>1, <1>3 DEF Goto, TypeOK
<1>4. ASSUME NEW d \in Deliveries, NEW outcome, NEW body, Answer(d, outcome, body),
             UNCHANGED ops
      PROVE  Goal
  <2>1. /\ pc[e] = "locked" /\ cmd'[e] = cmd[e] /\ seen'[e] = seen[e]
        /\ rowLock'[cmd[e].operation] = e
    BY <1>4, OthersKeepTheirLocks
  <2>2. QED
    BY <1>4, <2>1 DEF HoldsRow
<1>5. ASSUME NEW d \in Deliveries, LockRow(d) PROVE Goal
  <2>1. /\ rowLock[cmd[d].operation] = Nobody /\ cmd[d].operation \in Operations
        /\ UNCHANGED <<ops, cmd>>
    BY <1>5, TargetTyped DEF LockRow, RowFree, Goto
  <2>2. CASE e = d
    BY <1>5, <2>1, <2>2 DEF LockRow, TypeOK
  <2>3. CASE e # d
    <3>1. pc[e] = "locked"
      BY <1>5, <2>3 DEF LockRow, Goto, TypeOK
    <3>2. rowLock[cmd[e].operation] = e /\ seen[e] = ops[cmd[e].operation]
      BY <3>1 DEF HoldsRow
    <3>3. cmd[e].operation # cmd[d].operation
      BY <2>1, <3>2, RequestsAssumption
    <3>4. QED
      BY <1>5, <2>1, <2>3, <3>2, <3>3 DEF LockRow, TypeOK
  <2>4. QED
    BY <2>2, <2>3
<1>6. ASSUME NEW d \in Deliveries, Apply(d) PROVE Goal
  <2> DEFINE result == Len(log) + 1
  <2>1. /\ pc[d] = "locked"
        /\ ops' = [ops EXCEPT ![cmd[d].operation] = Effect(cmd[d].kind, seen[d], result)]
        /\ Answer(d, "applied", [result |-> result, active |-> TRUE])
    BY <1>6 DEF Apply
  <2>2. /\ e # d /\ pc[e] = "locked" /\ cmd'[e] = cmd[e] /\ seen'[e] = seen[e]
        /\ rowLock'[cmd[e].operation] = e /\ rowLock[cmd[e].operation] = e
    BY <2>1, OthersKeepTheirLocks
  <2>3. rowLock[cmd[d].operation] = d
    BY <2>1 DEF HoldsRow
  <2>4. cmd[e].operation # cmd[d].operation
    BY <2>2, <2>3
  <2>5. ops'[cmd[e].operation] = ops[cmd[e].operation]
    BY <2>1, <2>4 DEF TypeOK
  <2>6. QED
    BY <2>2, <2>5 DEF HoldsRow
<1>7. ASSUME NEW d \in Deliveries,
             \/ Preread(d) \/ LockKey(d) \/ CheckNew(d) \/ ReadReservation(d)
      PROVE  Goal
  <2>1. CASE Preread(d) \/ LockKey(d) \/ CheckNew(d)
    BY <1>3, <2>1 DEF Preread, LockKey, CheckNew, Stages
  <2>2. CASE ReadReservation(d)
    BY <1>3, <1>4, <2>2 DEF ReadReservation, Reject, Stages
  <2>3. QED
    BY <1>7, <2>1, <2>2
<1>8. ASSUME NEW d \in Deliveries,
             \/ CheckDone(d) \/ RecheckDone(d) \/ RefuseStale(d) \/ Refuse(d) \/ Abort(d)
      PROVE  Goal
  <2>1. CASE CheckDone(d) \/ RecheckDone(d)
    BY <1>4, <2>1 DEF CheckDone, RecheckDone, AnswerFromRecord
  <2>2. CASE RefuseStale(d) \/ Refuse(d) \/ Abort(d)
    BY <1>4, <2>2 DEF RefuseStale, Refuse, Abort, Reject
  <2>3. QED
    BY <1>8, <2>1, <2>2
<1>9. CASE UNCHANGED vars
  BY <1>1, <1>9 DEF vars
<1>10. QED
  BY <1>2, <1>5, <1>6, <1>7, <1>8, <1>9 DEF Next, Step

\* The row lock is held, and the row it returned is current, until the answer.
THEOREM HoldsRowInvariant == Spec => []HoldsRow
<1>1. Init => HoldsRow
  BY DEF Init, HoldsRow
<1>2. QED
  BY <1>1, HoldsRowStep, TypeInvariant, PTL DEF Spec

\* Only Apply changes an operation.
LEMMA OnlyApplyWrites ==
  ASSUME [Next]_vars, ~UNCHANGED ops
  PROVE  \E d \in Deliveries : Apply(d)
BY DEF Next, Step, vars, Deliver, Preread, LockKey, CheckDone, CheckNew,
   ReadReservation, LockRow, RecheckDone, RefuseStale, Refuse, Abort, Goto, Reject,
   AnswerFromRecord

\* Every change of an operation is one mutation of the row as it was.
THEOREM AtomicMutations == Spec => MutationsAreAtomic
<1> DEFINE A == \A o \in Operations :
                  ops'[o] # ops[o] =>
                    \E d \in Deliveries :
                      /\ pc[d] = "locked"
                      /\ cmd[d].operation = o
                      /\ cmd[d].expected = ops[o].version
                      /\ Permitted(cmd[d].kind, ops[o])
                      /\ ops'[o] = Effect(cmd[d].kind, ops[o], Len(log) + 1)
<1>1. TypeOK /\ HoldsRow /\ [Next]_vars => A
  <2> SUFFICES ASSUME TypeOK, HoldsRow, [Next]_vars,
                      NEW o \in Operations, ops'[o] # ops[o]
               PROVE  \E d \in Deliveries :
                        /\ pc[d] = "locked"
                        /\ cmd[d].operation = o
                        /\ cmd[d].expected = ops[o].version
                        /\ Permitted(cmd[d].kind, ops[o])
                        /\ ops'[o] = Effect(cmd[d].kind, ops[o], Len(log) + 1)
    OBVIOUS
  <2>1. PICK d \in Deliveries : Apply(d)
    BY OnlyApplyWrites
  <2>2. /\ pc[d] = "locked" /\ Fresh(d) /\ Permitted(cmd[d].kind, seen[d])
        /\ ops' = [ops EXCEPT ![cmd[d].operation] =
                     Effect(cmd[d].kind, seen[d], Len(log) + 1)]
    BY <2>1 DEF Apply
  <2>3. o = cmd[d].operation
    BY <2>2 DEF TypeOK
  <2>4. seen[d] = ops[o]
    BY <2>2, <2>3 DEF HoldsRow
  <2>5. ops'[o] = Effect(cmd[d].kind, ops[o], Len(log) + 1)
    BY <2>2, <2>3, <2>4 DEF TypeOK
  <2>6. cmd[d].expected = ops[o].version /\ Permitted(cmd[d].kind, ops[o])
    BY <2>2, <2>4 DEF Fresh
  <2>7. QED
    BY <2>2, <2>3, <2>5, <2>6
<1>2. QED
  BY <1>1, TypeInvariant, HoldsRowInvariant, PTL DEF Spec, MutationsAreAtomic
-----------------------------------------------------------------------------
(* The idempotency rows.                                                   *)

\* The row r of a key tells the truth about the i-th mutation of the log.
Describes(r, i) ==
  /\ r.result = i
  /\ r.kind = log[i].kind
  /\ r.key = log[i].key
  /\ r.fingerprint.operation = log[i].operation
  /\ r.fingerprint.expected = log[i].expected

\* A key has one row, and rows and committed mutations correspond.
Recorded ==
  /\ \A r, q \in records : r.kind = q.kind /\ r.key = q.key => r = q
  /\ \A i \in DOMAIN log : \E r \in records : Describes(r, i)

\* Whoever was told of a success has the row of its key to show for it.
Backed ==
  \A d \in Deliveries :
    Succeeded(d) =>
      \E r \in records :
        /\ r.kind = cmd[d].kind
        /\ r.key = cmd[d].key
        /\ r.fingerprint = Fingerprint(d)
        /\ r.result = answer[d].body.result

\* Only Apply commits a mutation or writes the row of a key.
LEMMA OnlyApplyRecords ==
  ASSUME [Next]_vars, ~UNCHANGED <<records, log>>
  PROVE  \E d \in Deliveries : Apply(d)
BY DEF Next, Step, vars, Deliver, Preread, LockKey, CheckDone, CheckNew,
   ReadReservation, LockRow, RecheckDone, RefuseStale, Refuse, Abort, Goto, Reject,
   AnswerFromRecord

\* Apply finds no row of its key, and adds one for what it appends to the log.
LEMMA RecordedStep == TypeOK /\ Recorded /\ [Next]_vars => Recorded'
<1> SUFFICES ASSUME TypeOK, Recorded, [Next]_vars PROVE Recorded'
  OBVIOUS
<1>1. CASE UNCHANGED <<records, log>>
  BY <1>1 DEF Recorded, Describes
<1>2. ASSUME NEW d \in Deliveries, Apply(d) PROVE Recorded'
  <2> DEFINE n == Len(log) + 1
  <2>1. PICK q : q = [kind |-> cmd[d].kind, key |-> cmd[d].key,
                      fingerprint |-> Fingerprint(d), result |-> n]
    OBVIOUS
  <2>2. /\ records' = records \cup {q}
        /\ log' = Append(log, cmd[d])
        /\ RecordsOf(d) = {}
    BY <1>2, <2>1 DEF Apply
  <2>3. /\ q.kind = cmd[d].kind /\ q.key = cmd[d].key /\ q.result = n
        /\ q.fingerprint.operation = cmd[d].operation
        /\ q.fingerprint.expected = cmd[d].expected
    BY <2>1 DEF Fingerprint
  <2>4. \A r \in records : ~(r.kind = q.kind /\ r.key = q.key)
    BY <2>2, <2>3 DEF RecordsOf
  <2>5. cmd[d] \in CommandType
    BY <1>2 DEF Apply, TypeOK
  <2>6. /\ DOMAIN log' = DOMAIN log \cup {n}
        /\ \A i \in DOMAIN log : log'[i] = log[i]
        /\ log'[n] = cmd[d]
    <3>1. log \in Seq(CommandType) /\ Len(log) \in Nat /\ DOMAIN log = 1 .. Len(log)
      BY LenProperties DEF TypeOK
    <3>2. /\ Len(log') = n
          /\ DOMAIN log' = 1 .. n
          /\ \A i \in 1 .. Len(log) : log'[i] = log[i]
          /\ log'[n] = cmd[d]
      BY <2>2, <2>5, <3>1, AppendProperties, LenProperties
    <3>3. QED
      BY <3>1, <3>2
  <2>7. \A r, s \in records' : r.kind = s.kind /\ r.key = s.key => r = s
    BY <2>2, <2>4 DEF Recorded
  <2>8. ASSUME NEW i \in DOMAIN log' PROVE \E r \in records' : Describes(r, i)'
    <3>1. CASE i \in DOMAIN log
      BY <2>2, <2>6, <3>1 DEF Recorded, Describes
    <3>2. CASE i = n
      BY <2>2, <2>3, <2>6, <3>2 DEF Describes
    <3>3. QED
      BY <2>6, <2>8, <3>1, <3>2
  <2>9. QED
    BY <2>7, <2>8 DEF Recorded
<1>3. QED
  BY <1>1, <1>2, OnlyApplyRecords

\* A request is answered once, from the row of its key or with a new one.
LEMMA BackedStep == TypeOK /\ Backed /\ [Next]_vars => Backed'
<1> SUFFICES ASSUME TypeOK, Backed, [Next]_vars,
                    NEW e \in Deliveries, Succeeded(e)'
             PROVE  \E r \in records' :
                      /\ r.kind = cmd'[e].kind
                      /\ r.key = cmd'[e].key
                      /\ r.fingerprint = Fingerprint(e)'
                      /\ r.result = answer'[e].body.result
  BY DEF Backed
<1> DEFINE Goal == \E r \in records' :
                     /\ r.kind = cmd'[e].kind
                     /\ r.key = cmd'[e].key
                     /\ r.fingerprint = Fingerprint(e)'
                     /\ r.result = answer'[e].body.result
<1>0. records \subseteq records'
  <2>1. ASSUME NEW d \in Deliveries, Apply(d) PROVE records \subseteq records'
    BY <2>1 DEF Apply
  <2>2. QED
    BY <2>1, OnlyApplyRecords
<1>1. ASSUME pc'[e] = pc[e], cmd'[e] = cmd[e], answer'[e] = answer[e],
             mandateSeen'[e] = mandateSeen[e]
      PROVE  Goal
  <2>1. Fingerprint(e)' = Fingerprint(e)
    BY <1>1 DEF Fingerprint
  <2>2. QED
    BY <1>0, <1>1, <2>1 DEF Backed, Succeeded
<1>2. ASSUME NEW d \in Deliveries, Deliver(d) PROVE Goal
  <2>1. PICK c, stage : /\ cmd' = [cmd EXCEPT ![d] = c]
                        /\ pc' = [pc EXCEPT ![d] = stage]
                        /\ stage \in {"preread", "keyed", "check"}
    BY <1>2 DEF Deliver
  <2>2. e # d
    BY <2>1 DEF Succeeded, TypeOK
  <2>3. QED
    BY <1>1, <1>2, <2>1, <2>2 DEF Deliver, TypeOK
<1>3. ASSUME NEW d \in Deliveries, NEW stage \in Stages \ {"done"}, Goto(d, stage),
             e # d => mandateSeen'[e] = mandateSeen[e]
      PROVE  Goal
  BY <1>1, <1>3 DEF Goto, TypeOK, Succeeded
<1>4. ASSUME NEW d \in Deliveries, NEW outcome, NEW body, Answer(d, outcome, body), e # d
      PROVE  Goal
  BY <1>1, <1>4 DEF Answer, TypeOK
<1>5. ASSUME NEW d \in Deliveries, NEW outcome \in Outcomes \ {"applied", "replayed"},
             Reject(d, outcome)
      PROVE  Goal
  <2>1. CASE e # d
    BY <1>4, <1>5, <2>1 DEF Reject
  <2>2. CASE e = d
    BY <1>5, <2>2 DEF Reject, Answer, Succeeded, TypeOK
  <2>3. QED
    BY <2>1, <2>2
<1>6. ASSUME NEW d \in Deliveries, NEW r \in RecordsOf(d), AnswerFromRecord(d, r) PROVE Goal
  <2>1. CASE e # d
    BY <1>4, <1>6, <2>1 DEF AnswerFromRecord
  <2>2. CASE e = d /\ r.fingerprint = Fingerprint(d)
    <3>1. answer' = [answer EXCEPT ![d] = [outcome |-> "replayed", body |-> Body(d, r.result)]]
      BY <1>6, <2>2 DEF AnswerFromRecord, Answer
    <3>2. answer'[d].body.result = r.result
      BY <3>1 DEF TypeOK, Body
    <3>3. cmd' = cmd
      BY <1>6, <2>2 DEF AnswerFromRecord, Answer
    <3>4. /\ r \in records /\ r.kind = cmd[d].kind /\ r.key = cmd[d].key
          /\ r.fingerprint = Fingerprint(d)'
      BY <1>6, <2>2 DEF RecordsOf, Fingerprint, AnswerFromRecord, Answer
    <3>5. QED
      BY <1>0, <2>2, <3>2, <3>3, <3>4
  <2>3. CASE e = d /\ r.fingerprint # Fingerprint(d)
    BY <1>6, <2>3 DEF AnswerFromRecord, Answer, Succeeded, TypeOK
  <2>4. QED
    BY <2>1, <2>2, <2>3
<1>7. ASSUME NEW d \in Deliveries, Apply(d) PROVE Goal
  <2> DEFINE n == Len(log) + 1
  <2>1. CASE e # d
    BY <1>4, <1>7, <2>1 DEF Apply
  <2>2. CASE e = d
    <3>1. PICK q : q = [kind |-> cmd[d].kind, key |-> cmd[d].key,
                        fingerprint |-> Fingerprint(d), result |-> n]
      OBVIOUS
    <3>2. q \in records' /\ cmd' = cmd
      BY <1>7, <3>1 DEF Apply, Answer
    <3>3. answer' = [answer EXCEPT ![d] =
                       [outcome |-> "applied", body |-> [result |-> n, active |-> TRUE]]]
      BY <1>7 DEF Apply, Answer
    <3>4. answer'[d].body.result = n
      BY <3>3 DEF TypeOK
    <3>5. /\ q.kind = cmd[d].kind /\ q.key = cmd[d].key /\ q.result = n
          /\ q.fingerprint = Fingerprint(d)'
      BY <1>7, <3>1 DEF Fingerprint, Apply, Answer
    <3>6. QED
      BY <2>2, <3>2, <3>4, <3>5
  <2>3. QED
    BY <2>1, <2>2
<1>8. ASSUME NEW d \in Deliveries, Step(d) \/ Abort(d) PROVE Goal
  <2>1. CASE Preread(d) \/ LockKey(d) \/ CheckNew(d) \/ LockRow(d)
    BY <1>3, <2>1 DEF Preread, LockKey, CheckNew, LockRow, Stages, TypeOK
  <2>2. CASE ReadReservation(d)
    BY <1>3, <1>5, <2>2 DEF ReadReservation, Stages, Outcomes
  <2>3. CASE CheckDone(d) \/ RecheckDone(d)
    BY <1>6, <2>3 DEF CheckDone, RecheckDone, Recheck
  <2>4. CASE RefuseStale(d) \/ Refuse(d) \/ Abort(d)
    BY <1>5, <2>4 DEF RefuseStale, Refuse, Abort, Outcomes
  <2>5. CASE Apply(d)
    BY <1>7, <2>5
  <2>6. QED
    BY <1>8, <2>1, <2>2, <2>3, <2>4, <2>5 DEF Step
<1>9. CASE UNCHANGED vars
  BY <1>1, <1>9 DEF vars
<1>10. QED
  BY <1>2, <1>8, <1>9 DEF Next

\* The rows of the keys are the log of the mutations, and answers rest on them.
LEMMA RowsInvariant == Spec => [](Recorded /\ Backed)
<1>1. Init => Recorded /\ Backed
  BY DEF Init, Recorded, Backed, Succeeded
<1>2. QED
  BY <1>1, RecordedStep, BackedStep, TypeInvariant, PTL DEF Spec

\* A key is committed once, however many requests carry it at the same time:
\* two mutations of one key in the log would need two rows of it.
LEMMA KeysApplyOnce == Spec => []AppliedOnce
<1>1. Recorded => AppliedOnce
  <2> SUFFICES ASSUME Recorded, NEW i \in DOMAIN log, NEW j \in DOMAIN log,
                      log[i].kind = log[j].kind, log[i].key = log[j].key
               PROVE  i = j
    BY DEF AppliedOnce
  <2>1. PICK r \in records : Describes(r, i)
    BY DEF Recorded
  <2>2. PICK q \in records : Describes(q, j)
    BY DEF Recorded
  <2>3. r = q
    BY <2>1, <2>2 DEF Recorded, Describes
  <2>4. QED
    BY <2>1, <2>2, <2>3 DEF Describes
<1>2. QED
  BY <1>1, RowsInvariant, PTL

\* Two successes of one key are one command and one result, for both have the
\* same row to show.
THEOREM KeysAgree == Spec => []OneMutationPerKey
<1>1. TypeOK /\ Recorded /\ Backed => SameKeySameResult
  <2> SUFFICES ASSUME TypeOK, Recorded, Backed,
                      NEW d \in Deliveries, NEW e \in Deliveries,
                      Succeeded(d), Succeeded(e),
                      cmd[d].kind = cmd[e].kind, cmd[d].key = cmd[e].key
               PROVE  cmd[d] = cmd[e] /\ answer[d].body.result = answer[e].body.result
    BY DEF SameKeySameResult
  <2>1. PICK r \in records : /\ r.kind = cmd[d].kind /\ r.key = cmd[d].key
                             /\ r.fingerprint = Fingerprint(d)
                             /\ r.result = answer[d].body.result
    BY DEF Backed
  <2>2. PICK q \in records : /\ q.kind = cmd[e].kind /\ q.key = cmd[e].key
                             /\ q.fingerprint = Fingerprint(e)
                             /\ q.result = answer[e].body.result
    BY DEF Backed
  <2>3. r = q
    BY <2>1, <2>2 DEF Recorded
  <2>4. cmd[d] \in CommandType /\ cmd[e] \in CommandType
    BY DEF TypeOK, Succeeded
  <2>5. /\ cmd[d].operation = cmd[e].operation
        /\ cmd[d].expected = cmd[e].expected
        /\ answer[d].body.result = answer[e].body.result
    BY <2>1, <2>2, <2>3 DEF Fingerprint
  <2>6. QED
    BY <2>4, <2>5 DEF CommandType
<1>2. OneMutationPerKey <=> AppliedOnce /\ SameKeySameResult
  BY DEF OneMutationPerKey
<1>3. QED
  BY <1>1, <1>2, TypeInvariant, RowsInvariant, KeysApplyOnce, PTL
-----------------------------------------------------------------------------
(* Retries.                                                                *)

\* A request past the lock of its key holds it alone, and one past its lookup
\* knows that nothing was committed under the key.
KeyHeld ==
  /\ \A d, e \in keyLocks : cmd[d].kind = cmd[e].kind /\ cmd[d].key = cmd[e].key => d = e
  /\ \A d \in keyLocks : pc[d] \notin {"idle", "keyed", "done"}
  /\ \A d \in Deliveries :
       cmd[d].kind \in KeyedKinds =>
         /\ pc[d] \in {"check", "lock", "locked"} => d \in keyLocks
         /\ pc[d] \in {"lock", "locked"} => RecordsOf(d) = {}
         /\ pc[d] # "preread"
  /\ \A d \in Deliveries : pc[d] = "reserve" => cmd[d].kind = "create_commitment"

\* The end of a request releases its key.
LEMMA AnswerReleases ==
  ASSUME TypeOK, KeyHeld, NEW d \in Deliveries, NEW outcome, NEW body,
         Answer(d, outcome, body), UNCHANGED records
  PROVE  KeyHeld'
<1>1. /\ UNCHANGED cmd
      /\ keyLocks' = keyLocks \ {d}
      /\ \A e \in Deliveries : pc'[e] = IF e = d THEN "done" ELSE pc[e]
  BY DEF Answer, TypeOK
<1>3. QED
  BY <1>1 DEF KeyHeld, RecordsOf, TypeOK

\* Locks of keys and lookups under them exclude another request of the key.
LEMMA KeyHeldStep == TypeOK /\ KeyHeld /\ [Next]_vars => KeyHeld'
<1> SUFFICES ASSUME TypeOK, KeyHeld, [Next]_vars PROVE KeyHeld'
  OBVIOUS
<1>1. ASSUME NEW d \in Deliveries, Deliver(d) PROVE KeyHeld'
  <2>1. PICK c, stage : /\ cmd' = [cmd EXCEPT ![d] = c]
                        /\ pc' = [pc EXCEPT ![d] = stage]
                        /\ stage \in {"preread", "keyed", "check"}
                        /\ c.kind \in KeyedKinds => stage = "keyed"
    BY <1>1 DEF Deliver, KeyedKinds
  <2>2. pc[d] = "idle" /\ UNCHANGED <<keyLocks, records>>
    BY <1>1 DEF Deliver
  <2>3. \A e \in Deliveries : /\ cmd'[e] = IF e = d THEN c ELSE cmd[e]
                              /\ pc'[e] = IF e = d THEN stage ELSE pc[e]
    BY <2>1 DEF TypeOK
  <2>4. d \notin keyLocks /\ keyLocks \subseteq Deliveries
    BY <2>2 DEF KeyHeld, TypeOK
  <2>6. QED
    BY <2>1, <2>2, <2>3, <2>4 DEF KeyHeld, RecordsOf
<1>2. ASSUME NEW d \in Deliveries, LockKey(d) PROVE KeyHeld'
  <2>1. /\ pc[d] = "keyed" /\ KeyLockFree(d) /\ keyLocks' = keyLocks \cup {d}
        /\ UNCHANGED <<records, cmd>>
        /\ \A e \in Deliveries : pc'[e] = IF e = d THEN "check" ELSE pc[e]
    BY <1>2 DEF LockKey, Goto, TypeOK
  <2>3. QED
    BY <2>1 DEF KeyHeld, KeyLockFree, RecordsOf, TypeOK
<1>3. ASSUME NEW d \in Deliveries,
             NEW stage, Goto(d, stage), UNCHANGED keyLocks,
             pc[d] \in {"preread", "check", "reserve", "lock"},
             stage \notin {"idle", "keyed", "done"},
             stage = "reserve" => cmd[d].kind = "create_commitment",
             cmd[d].kind \in KeyedKinds =>
               /\ stage \notin {"preread", "reserve"}
               /\ RecordsOf(d) = {}
      PROVE  KeyHeld'
  <2>1. /\ UNCHANGED <<records, cmd>>
        /\ \A e \in Deliveries : pc'[e] = IF e = d THEN stage ELSE pc[e]
    BY <1>3 DEF Goto, TypeOK
  <2>3. cmd[d].kind \in KeyedKinds => d \in keyLocks /\ stage # "preread"
    BY <1>3 DEF KeyHeld, KeyedKinds
  <2>4. QED
    BY <1>3, <2>1, <2>3 DEF KeyHeld, RecordsOf, TypeOK
<1>4. ASSUME NEW d \in Deliveries, Apply(d) PROVE KeyHeld'
  <2>1. PICK q : q = [kind |-> cmd[d].kind, key |-> cmd[d].key,
                      fingerprint |-> Fingerprint(d), result |-> Len(log) + 1]
    OBVIOUS
  <2>2. /\ pc[d] = "locked" /\ RecordsOf(d) = {}
        /\ records' = records \cup {q}
        /\ UNCHANGED cmd /\ keyLocks' = keyLocks \ {d}
        /\ \A e \in Deliveries : pc'[e] = IF e = d THEN "done" ELSE pc[e]
    BY <1>4, <2>1 DEF Apply, Answer, TypeOK
  <2>3. /\ q.kind = cmd[d].kind /\ q.key = cmd[d].key
        /\ q.kind # "start_negotiation" => q.fingerprint.mandate = 0
    BY <2>1 DEF Fingerprint
  <2>5. ASSUME NEW e \in Deliveries, e # d, cmd[e].kind \in KeyedKinds,
               pc[e] \in {"lock", "locked"}
        PROVE  RecordsOf(e)' = {}
    <3>1. e \in keyLocks /\ RecordsOf(e) = {}
      BY <2>5 DEF KeyHeld
    <3>2. CASE cmd[e].kind = cmd[d].kind /\ cmd[e].key = cmd[d].key
      <4>1. d \in keyLocks
        BY <2>2, <2>5, <3>2 DEF KeyHeld
      <4>2. QED
        BY <2>5, <3>1, <3>2, <4>1 DEF KeyHeld
    <3>3. CASE ~(cmd[e].kind = cmd[d].kind /\ cmd[e].key = cmd[d].key)
      BY <2>2, <2>3, <3>1, <3>3 DEF RecordsOf
    <3>4. QED
      BY <3>2, <3>3
  <2>6. QED
    BY <2>2, <2>5 DEF KeyHeld, TypeOK
<1>5. ASSUME NEW d \in Deliveries,
             \/ Preread(d) \/ CheckNew(d) \/ ReadReservation(d) \/ LockRow(d)
      PROVE  KeyHeld'
  <2>1. CASE Preread(d)
    <3>1. pc[d] = "preread" /\ cmd[d].kind \notin KeyedKinds
      BY <2>1 DEF Preread, KeyHeld
    <3>2. QED
      BY <1>3, <2>1, <3>1 DEF Preread
  <2>2. CASE CheckNew(d)
    BY <1>3, <2>2 DEF CheckNew, KeyedKinds
  <2>3. CASE ReadReservation(d)
    <3>1. pc[d] = "reserve" /\ cmd[d].kind \notin KeyedKinds
      BY <2>3 DEF ReadReservation, KeyHeld, KeyedKinds
    <3>2. (Goto(d, "lock") /\ UNCHANGED keyLocks) \/ Reject(d, "refused")
      BY <2>3 DEF ReadReservation
    <3>3. QED
      BY <1>3, <3>1, <3>2, AnswerReleases DEF Reject
  <2>4. CASE LockRow(d)
    <3>1. pc[d] = "lock" /\ Goto(d, "locked") /\ UNCHANGED keyLocks
      BY <2>4 DEF LockRow
    <3>2. cmd[d].kind \in KeyedKinds => RecordsOf(d) = {}
      BY <3>1 DEF KeyHeld
    <3>3. QED
      BY <1>3, <3>1, <3>2
  <2>5. QED
    BY <1>5, <2>1, <2>2, <2>3, <2>4
<1>6. ASSUME NEW d \in Deliveries,
             \/ CheckDone(d) \/ RecheckDone(d) \/ RefuseStale(d) \/ Refuse(d) \/ Abort(d)
      PROVE  KeyHeld'
  <2>1. CASE CheckDone(d) \/ RecheckDone(d)
    BY <2>1, AnswerReleases DEF CheckDone, RecheckDone, AnswerFromRecord
  <2>2. CASE RefuseStale(d) \/ Refuse(d) \/ Abort(d)
    BY <2>2, AnswerReleases DEF RefuseStale, Refuse, Abort, Reject
  <2>3. QED
    BY <1>6, <2>1, <2>2
<1>7. CASE UNCHANGED vars
  <2>1. UNCHANGED <<records, cmd, pc, keyLocks>>
    BY <1>7 DEF vars
  <2>2. QED
    BY <2>1 DEF KeyHeld, RecordsOf
<1>8. QED
  BY <1>1, <1>2, <1>4, <1>5, <1>6, <1>7 DEF Next, Step

\* Whoever repeats a committed command finds its row before it can be turned
\* down, or is turned down for what the server read on its own: the fingerprint
\* of a start differs in the mandate version alone, a commitment that finds its
\* reservation gone had looked its key up before, and so had an attachment that
\* waited for the row.  None is applied again.
THEOREM RetriesReplayed == Spec => RetriesAreReplayed
<1> DEFINE A == \A d, e \in Deliveries :
                  Committed(d) /\ cmd[d] = cmd[e] =>
                    /\ pc[e] # "done" /\ pc'[e] = "done" =>
                         \/ answer'[e].outcome \in {"replayed", "failed"}
                         \/ ServerReadMoved(d, e)
                    /\ pc[e] \in {"preread", "keyed", "check"} =>
                         pc'[e] \in {"preread", "keyed", "check", "done"}
<1>1. TypeOK /\ Recorded /\ Backed /\ KeyHeld /\ [Next]_vars => A
  <2> SUFFICES ASSUME TypeOK, Recorded, Backed, KeyHeld, [Next]_vars,
                      NEW d \in Deliveries, NEW e \in Deliveries,
                      Committed(d), cmd[d] = cmd[e]
               PROVE  /\ pc[e] # "done" /\ pc'[e] = "done" =>
                           \/ answer'[e].outcome \in {"replayed", "failed"}
                           \/ ServerReadMoved(d, e)
                      /\ pc[e] \in {"preread", "keyed", "check"} =>
                           pc'[e] \in {"preread", "keyed", "check", "done"}
    OBVIOUS
  <2>1. pc[d] = "done" /\ answer[d].outcome = "applied" /\ Succeeded(d)
    BY DEF Committed, Succeeded
  <2>2. cmd[d] \in CommandType /\ cmd[e] \in CommandType /\ cmd[e].kind \in AllKinds
    BY <2>1, RequestsAssumption DEF TypeOK, CommandType
  <2>3. PICK r \in records : /\ r.kind = cmd[e].kind /\ r.key = cmd[e].key
                             /\ r.fingerprint = Fingerprint(d)
    BY <2>1 DEF Backed
  <2>4. r \in RecordsOf(e) /\ \A q \in RecordsOf(e) : q = r
    BY <2>3 DEF RecordsOf, Recorded
  <2>5. r.fingerprint # Fingerprint(e) =>
          cmd[e].kind = "start_negotiation" /\ mandateSeen[e] # mandateSeen[d]
    BY <2>3 DEF Fingerprint
  <2>6. ASSUME NEW f \in Deliveries, NEW outcome, NEW body, Answer(f, outcome, body),
               pc'[e] # pc[e]
        PROVE  f = e /\ pc'[e] = "done" /\ answer'[e].outcome = outcome
    <3>1. f = e
      BY <2>6 DEF Answer, TypeOK
    <3>2. QED
      BY <2>6, <3>1 DEF Answer, TypeOK
  <2>7. CASE pc'[e] = pc[e]
    BY <2>7
  <2>8. ASSUME NEW f \in Deliveries, CheckDone(f) \/ RecheckDone(f), pc'[e] # pc[e]
        PROVE  /\ pc'[e] = "done"
               /\ \/ answer'[e].outcome = "replayed"
                  \/ ServerReadMoved(d, e)
    <3>1. PICK q \in RecordsOf(f) : AnswerFromRecord(f, q)
      BY <2>8 DEF CheckDone, RecheckDone, Recheck
    <3>2. f = e
      BY <2>6, <2>8, <3>1 DEF AnswerFromRecord
    <3>3. CASE q.fingerprint = Fingerprint(f)
      BY <2>6, <2>8, <3>1, <3>3 DEF AnswerFromRecord
    <3>4. CASE q.fingerprint # Fingerprint(f)
      <4>1. pc'[e] = "done" /\ answer'[e].outcome = "reused"
        BY <2>6, <2>8, <3>1, <3>4 DEF AnswerFromRecord
      <4>2. cmd[e].kind = "start_negotiation" /\ mandateSeen[e] # mandateSeen[d]
        BY <2>4, <2>5, <3>1, <3>2, <3>4
      <4>3. QED
        BY <4>1, <4>2 DEF ServerReadMoved
    <3>5. QED
      BY <3>3, <3>4
  <2>9. ASSUME NEW f \in Deliveries, RefuseStale(f) \/ Refuse(f) \/ Apply(f), pc'[e] # pc[e]
        PROVE  pc[e] = "locked" /\ ServerReadMoved(d, e)
    <3>1. f = e /\ pc[f] = "locked" /\ Recheck(f) = {}
      BY <2>6, <2>9 DEF RefuseStale, Refuse, Apply, Reject
    <3>2. cmd[e].kind \notin RecheckedKinds
      BY <2>4, <3>1 DEF Recheck
    <3>3. cmd[e].kind \notin KeyedKinds
      BY <2>4, <3>1 DEF KeyHeld
    <3>4. cmd[e].kind = "attach_commitment_evidence"
      BY <2>2, <3>2, <3>3 DEF AllKinds
    <3>5. RefuseStale(f) \/ Refuse(f)
      BY <2>4, <2>9, <3>1 DEF Apply
    <3>6. answer'[e].outcome \in {"refused", "stale"}
      BY <2>6, <2>9, <3>5 DEF RefuseStale, Refuse, Reject
    <3>7. QED
      BY <3>1, <3>4, <3>6 DEF ServerReadMoved
  <2>10. ASSUME NEW f \in Deliveries, Abort(f), pc'[e] # pc[e]
         PROVE  pc'[e] = "done" /\ answer'[e].outcome = "failed"
    BY <2>6, <2>10 DEF Abort, Reject
  <2>11. ASSUME NEW f \in Deliveries, ReadReservation(f), pc'[e] # pc[e]
         PROVE  pc[e] = "reserve" /\ (pc'[e] = "done" => ServerReadMoved(d, e))
    <3>1. CASE Goto(f, "lock")
      BY <2>11, <3>1 DEF Goto, TypeOK, ReadReservation
    <3>2. CASE Reject(f, "refused")
      <4>1. f = e /\ pc[e] = "reserve" /\ answer'[e].outcome = "refused"
        BY <2>6, <2>11, <3>2 DEF Reject, ReadReservation
      <4>2. cmd[e].kind = "create_commitment"
        BY <4>1 DEF KeyHeld
      <4>3. QED
        BY <4>1, <4>2 DEF ServerReadMoved
    <3>3. QED
      BY <2>11, <3>1, <3>2 DEF ReadReservation
  <2>12. ASSUME NEW f \in Deliveries, Deliver(f), pc'[e] # pc[e]
         PROVE  pc[e] = "idle" /\ pc'[e] # "done"
    <3>1. PICK c, stage : pc' = [pc EXCEPT ![f] = stage] /\ stage # "done"
      BY <2>12 DEF Deliver
    <3>2. QED
      BY <2>12, <3>1 DEF TypeOK, Deliver
  <2>13. ASSUME NEW f \in Deliveries, Preread(f) \/ LockKey(f) \/ CheckNew(f) \/ LockRow(f),
                pc'[e] # pc[e]
         PROVE  pc[e] = "lock" \/ pc'[e] = "check"
    <3>1. CASE Preread(f)
      BY <2>13, <3>1 DEF Preread, Goto, TypeOK
    <3>2. CASE LockKey(f)
      BY <2>13, <3>2 DEF LockKey, Goto, TypeOK
    <3>3. CASE CheckNew(f)
      <4>1. f = e
        BY <2>13, <3>3 DEF CheckNew, Goto, TypeOK
      <4>2. QED
        BY <2>4, <3>3, <4>1 DEF CheckNew
    <3>4. CASE LockRow(f)
      BY <2>13, <3>4 DEF LockRow, Goto, TypeOK
    <3>5. QED
      BY <2>13, <3>1, <3>2, <3>3, <3>4
  <2>14. ASSUME NEW f \in Deliveries, LockRow(f) \/ Preread(f) \/ LockKey(f), pc'[e] # pc[e]
         PROVE  pc'[e] # "done"
    BY <2>14 DEF LockRow, Preread, LockKey, Goto, TypeOK
  <2>15. ASSUME NEW f \in Deliveries, CheckNew(f), pc'[e] # pc[e]
         PROVE  FALSE
    <3>1. f = e
      BY <2>15 DEF CheckNew, Goto, TypeOK
    <3>2. QED
      BY <2>4, <2>15, <3>1 DEF CheckNew
  <2>16. CASE UNCHANGED vars
    BY <2>16 DEF vars
  <2>17. QED
    BY <2>7, <2>8, <2>9, <2>10, <2>11, <2>12, <2>13, <2>14, <2>15, <2>16 DEF Next, Step
<1>2. Init => KeyHeld
  BY DEF Init, KeyHeld, NoCommand, KeyedKinds
<1>3. QED
  BY <1>1, <1>2, KeyHeldStep, TypeInvariant, RowsInvariant, PTL DEF Spec, RetriesAreReplayed
=============================================================================
