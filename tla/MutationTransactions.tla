------------------------ MODULE MutationTransactions ------------------------
(***************************************************************************)
(* How a request to change an operation runs: its idempotency lookups, the *)
(* advisory lock of its key, the row lock of its operation, its writes and *)
(* its commit, interleaved with the other requests on READ COMMITTED       *)
(* PostgreSQL, where each statement sees what is committed by then.        *)
(*                                                                         *)
(* Deliveries are requests as they reach the API: a client that lost an    *)
(* answer sends the same command again, and the two may run at once.       *)
(* Four protocols share the tables:                                        *)
(*   start_negotiation, record_quote: look up, lock the row, look up again *)
(*   create_commitment: the same, after reading its evidence reservation   *)
(*   attach_commitment_evidence: look up, lock the row                     *)
(*   the mutations of _atomic_mutation: lock the key, look up, lock the row*)
(* What a mutation does to the operation is reduced to what decides whether*)
(* the next one is accepted; OperationLifecycle has the rest.              *)
(***************************************************************************)
EXTENDS Naturals, Sequences, FiniteSets

CONSTANTS
  Operations,
  Deliveries,
  Nobody,       \* no delivery holds the row lock
  Keys,         \* idempotency keys, chosen by clients
  Kinds,        \* the mutations that are requested
  First         \* the rows the operations may have to begin with

KeyedKinds ==
  {"create_escalation", "replace_mandate", "start_inbound_simulation"}
RecheckedKinds == {"start_negotiation", "record_quote", "create_commitment"}
AllKinds == KeyedKinds \cup RecheckedKinds \cup {"attach_commitment_evidence"}

VARIABLES
  ops,          \* the committed row of each operation
  records,      \* the committed idempotency rows
  rowLock,      \* who holds the row of each operation FOR UPDATE
  keyLocks,     \* the deliveries that hold the advisory lock of their key
  pc,
  cmd,          \* the command of each delivery
  mandateSeen,  \* the mandate version a facade read before its service ran
  seen,         \* the row of the operation as its lock returned it
  answer,
  log           \* the command of every committed mutation, in their order

vars == <<ops, records, rowLock, keyLocks, pc, cmd, mandateSeen, seen, answer,
          log>>

OpType == [version : Nat \ {0}, mandate : Nat \ {0}, started : BOOLEAN,
           escalated : BOOLEAN, quoted : BOOLEAN,
           reservation : {"none", "open", "consumed"}, winner : Nat]
Outcomes == {"applied", "replayed", "reused", "stale", "refused", "failed"}
Stages == {"idle", "preread", "keyed", "check", "reserve", "lock", "locked",
           "done"}

\* The row an approval leaves.
NewOperation == [version |-> 1, mandate |-> 1, started |-> FALSE,
                 escalated |-> FALSE, quoted |-> FALSE,
                 reservation |-> "none", winner |-> 0]

ASSUME RequestsAssumption ==
  /\ Nobody \notin Deliveries
  /\ Kinds \subseteq AllKinds
  /\ First \subseteq OpType

CommandType == [kind : Kinds, key : Keys, operation : Operations,
                expected : Nat]
AnswerType == [outcome : Outcomes, body : [result : Nat, active : BOOLEAN]]
RecordType == [kind : Kinds, key : Keys, result : Nat,
               fingerprint : [operation : Operations, expected : Nat,
                              mandate : Nat]]

NoCommand == [kind |-> "none"]
NoAnswer == [outcome |-> "none"]

\* A client has seen the present version or an earlier one: the one before
\* stands for all of those.
Command(o) == [kind : Kinds, key : Keys, operation : {o},
               expected : {n \in 1 .. ops[o].version : n + 1 >= ops[o].version}]

-----------------------------------------------------------------------------
(* What the mutations ask of an operation and do to it.                    *)

\* The guard of each mutation, on the row s of its operation.
Permitted(kind, s) ==
  CASE kind = "start_negotiation" -> ~s.started
    [] kind = "record_quote" -> s.started /\ ~s.escalated
    [] kind = "attach_commitment_evidence" ->
         s.quoted /\ s.reservation = "none"
    [] kind = "create_commitment" ->
         ~s.escalated /\ s.reservation = "open"
    [] kind = "create_escalation" -> s.started /\ ~s.escalated
    [] kind = "replace_mandate" -> s.escalated
    [] kind = "start_inbound_simulation" -> s.winner # 0 /\ ~s.escalated

\* The row a mutation writes, given the row s it read and its own result.  A new
\* quote is the selected one and has no evidence yet; a new mandate leaves no
\* quote to select; start_inbound_simulation recovers inside the mandate, with
\* terms that do not make its quote the selected one.
Effect(kind, s, result) ==
  CASE kind = "start_negotiation" ->
         [s EXCEPT !.version = @ + 1, !.started = TRUE]
    [] kind = "record_quote" ->
         [s EXCEPT !.version = @ + 1, !.quoted = TRUE, !.reservation = "none"]
    [] kind = "attach_commitment_evidence" -> [s EXCEPT !.reservation = "open"]
    [] kind = "create_commitment" ->
         [s EXCEPT !.version = @ + 1, !.reservation = "consumed",
                   !.winner = result]
    [] kind = "create_escalation" ->
         [s EXCEPT !.version = @ + 1, !.escalated = TRUE]
    [] kind = "replace_mandate" ->
         [s EXCEPT !.version = @ + 1, !.escalated = FALSE, !.mandate = @ + 1,
                   !.quoted = FALSE, !.reservation = "none"]
    [] kind = "start_inbound_simulation" ->
         [s EXCEPT !.version = @ + 1, !.winner = result]

\* A mutant of the next definition: the version the client saw is left out.
FingerprintOfTarget(d) ==
  [operation |-> cmd[d].operation, expected |-> 0,
   mandate |-> IF cmd[d].kind = "start_negotiation" THEN mandateSeen[d] ELSE 0]

\* fingerprint: the fields of the service's command.  start_negotiation puts
\* the mandate version it read itself among them.
Fingerprint(d) ==
  [operation |-> cmd[d].operation, expected |-> cmd[d].expected,
   mandate |-> IF cmd[d].kind = "start_negotiation" THEN mandateSeen[d] ELSE 0]

\* The idempotency rows of a delivery's mutation and key: one at most.
RecordsOf(d) ==
  {r \in records : r.kind = cmd[d].kind /\ r.key = cmd[d].key}

\* The body of an answer.  A replayed commitment is read again, so it shows the
\* disposition the commitment has by then; the others are stored or immutable.
Body(d, result) ==
  [result |-> result,
   active |-> cmd[d].kind = "create_commitment" =>
                ops[cmd[d].operation].winner = result]

-----------------------------------------------------------------------------
Init ==
  /\ ops \in [Operations -> First]
  /\ records = {}
  /\ rowLock = [o \in Operations |-> Nobody]
  /\ keyLocks = {}
  /\ pc = [d \in Deliveries |-> "idle"]
  /\ cmd = [d \in Deliveries |-> NoCommand]
  /\ mandateSeen = [d \in Deliveries |-> 0]
  /\ seen = [d \in Deliveries |-> NewOperation]
  /\ answer = [d \in Deliveries |-> NoAnswer]
  /\ log = <<>>

\* A mutant of the next definition: a replay returns with its transaction open.
AnswerLeavingReplayOpen(d, outcome, body) ==
  /\ pc' = [pc EXCEPT ![d] = "done"]
  /\ answer' = [answer EXCEPT ![d] = [outcome |-> outcome, body |-> body]]
  /\ rowLock' = [o \in Operations |->
                   IF rowLock[o] = d /\ outcome # "replayed"
                   THEN Nobody ELSE rowLock[o]]
  /\ keyLocks' = keyLocks \ {d}
  /\ UNCHANGED <<cmd, mandateSeen, seen>>

\* A transaction ends, committed or rolled back, and its locks with it.
Answer(d, outcome, body) ==
  /\ pc' = [pc EXCEPT ![d] = "done"]
  /\ answer' = [answer EXCEPT ![d] = [outcome |-> outcome, body |-> body]]
  /\ rowLock' = [o \in Operations |->
                   IF rowLock[o] = d THEN Nobody ELSE rowLock[o]]
  /\ keyLocks' = keyLocks \ {d}
  /\ UNCHANGED <<cmd, mandateSeen, seen>>

Reject(d, outcome) ==
  /\ Answer(d, outcome, [result |-> 0, active |-> FALSE])
  /\ UNCHANGED <<ops, records, log>>

\* The answer the idempotency row r decides.
AnswerFromRecord(d, r) ==
  /\ IF r.fingerprint = Fingerprint(d)
     THEN Answer(d, "replayed", Body(d, r.result))
     ELSE Answer(d, "reused", [result |-> 0, active |-> FALSE])
  /\ UNCHANGED <<ops, records, log>>

Goto(d, stage) ==
  /\ pc' = [pc EXCEPT ![d] = stage]
  /\ UNCHANGED <<ops, records, cmd, answer, log>>

\* A request arrives.
Deliver(d) ==
  /\ pc[d] = "idle"
  /\ \E o \in Operations : \E c \in Command(o) :
       /\ cmd' = [cmd EXCEPT ![d] = c]
       /\ pc' = [pc EXCEPT ![d] =
                   CASE c.kind = "start_negotiation" -> "preread"
                     [] c.kind \in KeyedKinds -> "keyed"
                     [] OTHER -> "check"]
  /\ UNCHANGED <<ops, records, rowLock, keyLocks, mandateSeen, seen, answer,
                 log>>

\* start_negotiation reads the mandate version in a transaction of its own.
Preread(d) ==
  /\ pc[d] = "preread"
  /\ mandateSeen' = [mandateSeen EXCEPT ![d] = ops[cmd[d].operation].mandate]
  /\ Goto(d, "check")
  /\ UNCHANGED <<rowLock, keyLocks, seen>>

\* A mutant of the next definition: the key is not locked.
KeyLockIgnored(d) == TRUE

\* pg_advisory_xact_lock is granted.
KeyLockFree(d) ==
  \A e \in keyLocks : cmd[e].kind # cmd[d].kind \/ cmd[e].key # cmd[d].key

LockKey(d) ==
  /\ pc[d] = "keyed"
  /\ KeyLockFree(d)
  /\ keyLocks' = keyLocks \cup {d}
  /\ Goto(d, "check")
  /\ UNCHANGED <<rowLock, mandateSeen, seen>>

\* The lookup before the row lock finds the mutation done, or goes on.
CheckDone(d) ==
  /\ pc[d] = "check"
  /\ \E r \in RecordsOf(d) : AnswerFromRecord(d, r)

CheckNew(d) ==
  /\ pc[d] = "check"
  /\ RecordsOf(d) = {}
  /\ Goto(d, IF cmd[d].kind = "create_commitment" THEN "reserve" ELSE "lock")
  /\ UNCHANGED <<rowLock, keyLocks, mandateSeen, seen>>

\* create_candidate_commitment reads its evidence reservation.
ReadReservation(d) ==
  /\ pc[d] = "reserve"
  /\ IF ops[cmd[d].operation].reservation = "open"
     THEN /\ Goto(d, "lock")
          /\ UNCHANGED <<rowLock, keyLocks, mandateSeen, seen>>
     ELSE Reject(d, "refused")

RowFree(d) == rowLock[cmd[d].operation] = Nobody

\* operations.get(..., for_update=True) returns the locked row.
LockRow(d) ==
  /\ pc[d] = "lock"
  /\ RowFree(d)
  /\ rowLock' = [rowLock EXCEPT ![cmd[d].operation] = d]
  /\ seen' = [seen EXCEPT ![d] = ops[cmd[d].operation]]
  /\ Goto(d, "locked")
  /\ UNCHANGED <<keyLocks, mandateSeen>>

\* A mutant of the next definition: the lookup under the lock is left out.
RecheckNothing(d) == {}

\* The row a lookup under the row lock finds.
Recheck(d) == IF cmd[d].kind \in RecheckedKinds THEN RecordsOf(d) ELSE {}

RecheckDone(d) ==
  /\ pc[d] = "locked"
  /\ \E r \in Recheck(d) : AnswerFromRecord(d, r)

\* A mutant of the next definition: the version the client saw goes unchecked.
FreshAnyway(d) == TRUE

Fresh(d) == seen[d].version = cmd[d].expected

RefuseStale(d) ==
  /\ pc[d] = "locked"
  /\ Recheck(d) = {}
  /\ ~Fresh(d)
  /\ Reject(d, "stale")

\* A guard of the mutation fails, or the unique index of the idempotency rows
\* refuses the new one because another operation took the key.
Refuse(d) ==
  /\ pc[d] = "locked"
  /\ Recheck(d) = {}
  /\ Fresh(d)
  /\ ~Permitted(cmd[d].kind, seen[d]) \/ RecordsOf(d) # {}
  /\ Reject(d, "refused")

Apply(d) ==
  LET o == cmd[d].operation
      result == Len(log) + 1
  IN /\ pc[d] = "locked"
     /\ Recheck(d) = {}
     /\ Fresh(d)
     /\ Permitted(cmd[d].kind, seen[d])
     /\ RecordsOf(d) = {}
     /\ ops' = [ops EXCEPT ![o] = Effect(cmd[d].kind, seen[d], result)]
     /\ records' = records \cup
          {[kind |-> cmd[d].kind, key |-> cmd[d].key,
            fingerprint |-> Fingerprint(d), result |-> result]}
     /\ log' = Append(log, cmd[d])
     /\ Answer(d, "applied", [result |-> result, active |-> TRUE])

\* The process or its connection is lost: the transaction is rolled back.
Abort(d) ==
  /\ pc[d] \notin {"idle", "done"}
  /\ Reject(d, "failed")

Step(d) ==
  \/ Preread(d)
  \/ LockKey(d)
  \/ CheckDone(d)
  \/ CheckNew(d)
  \/ ReadReservation(d)
  \/ LockRow(d)
  \/ RecheckDone(d)
  \/ RefuseStale(d)
  \/ Refuse(d)
  \/ Apply(d)

Next ==
  \E d \in Deliveries : Deliver(d) \/ Step(d) \/ Abort(d)

Spec == Init /\ [][Next]_vars

\* A request the event loop and the database serve goes on; nothing makes a
\* client send one, and nothing makes a connection fail.
FairSpec == Spec /\ \A d \in Deliveries : WF_vars(Step(d))

-----------------------------------------------------------------------------
(* Properties.                                                             *)

\* Type invariant of the tables, the locks and the requests.
TypeOK ==
  /\ ops \in [Operations -> OpType]
  /\ records \subseteq RecordType
  /\ rowLock \in [Operations -> Deliveries \cup {Nobody}]
  /\ keyLocks \subseteq Deliveries
  /\ pc \in [Deliveries -> Stages]
  /\ cmd \in [Deliveries -> CommandType \cup {NoCommand}]
  /\ mandateSeen \in [Deliveries -> Nat]
  /\ seen \in [Deliveries -> OpType]
  /\ answer \in [Deliveries -> AnswerType \cup {NoAnswer}]
  /\ log \in Seq(CommandType)
  /\ \A d \in Deliveries :
       /\ pc[d] # "idle" => cmd[d] \in CommandType
       /\ pc[d] = "done" => answer[d] \in AnswerType

\* However many times and however concurrently a key is delivered, its mutation
\* is committed once.
AppliedOnce ==
  \A i, j \in DOMAIN log :
    log[i].kind = log[j].kind /\ log[i].key = log[j].key => i = j

Succeeded(d) == pc[d] = "done" /\ answer[d].outcome \in {"applied", "replayed"}

\* Two deliveries of one key that both succeed carried the same command and
\* name the same result: a key reused for another request never succeeds.
SameKeySameResult ==
  \A d, e \in Deliveries :
    /\ Succeeded(d) /\ Succeeded(e)
    /\ cmd[d].kind = cmd[e].kind /\ cmd[d].key = cmd[e].key
    => /\ cmd[d] = cmd[e]
       /\ answer[d].body.result = answer[e].body.result

\* A key stands for one mutation: it is applied at most once, and whoever
\* succeeds with it asked for that mutation and is told its result.
OneMutationPerKey == AppliedOnce /\ SameKeySameResult

\* A step that changes an operation is one whole mutation of the row as it was
\* just before, for a client that had seen exactly that version: no update is
\* lost and none is built on a row that was read too early.
MutationsAreAtomic ==
  [][\A o \in Operations :
       ops'[o] # ops[o] =>
         \E d \in Deliveries :
           /\ pc[d] = "locked"
           /\ cmd[d].operation = o
           /\ cmd[d].expected = ops[o].version
           /\ Permitted(cmd[d].kind, ops[o])
           /\ ops'[o] = Effect(cmd[d].kind, ops[o], Len(log) + 1)]_vars

\* What the server read for the retry e may turn it down though its command was
\* committed for d: a start reads its mandate version again and puts it into the
\* fingerprint; a commitment reads its reservation, and an attachment the row,
\* after a lookup that came before the commit of d.
ServerReadMoved(d, e) ==
  \/ /\ cmd[e].kind = "start_negotiation"
     /\ mandateSeen[e] # mandateSeen[d]
     /\ answer'[e].outcome = "reused"
  \/ /\ cmd[e].kind = "create_commitment"
     /\ pc[e] = "reserve"
     /\ answer'[e].outcome = "refused"
  \/ /\ cmd[e].kind = "attach_commitment_evidence"
     /\ pc[e] = "locked"
     /\ answer'[e].outcome \in {"refused", "stale"}

Committed(d) == pc[d] = "done" /\ answer[d].outcome = "applied"

\* Once a command has been committed, its retry is replayed or its connection
\* fails, if nothing the server reads for it on its own has moved; it is never
\* applied again and never refused for the change it made itself.  A retry that
\* looks its key up from then on does not get past its lookup.
RetriesAreReplayed ==
  [][\A d, e \in Deliveries :
       Committed(d) /\ cmd[d] = cmd[e] =>
         /\ pc[e] # "done" /\ pc'[e] = "done" =>
              \/ answer'[e].outcome \in {"replayed", "failed"}
              \/ ServerReadMoved(d, e)
         /\ pc[e] \in {"preread", "keyed", "check"} =>
              pc'[e] \in {"preread", "keyed", "check", "done"}]_vars

\* What requirements.md:86 of 2026-08-30-15-expose-evidence-recovery-routes asks
\* for, and requirements.md:52 of pass 10: no exception at all.  The code
\* does not do it; no run lists it.
EveryRetryIsReplayed ==
  [][\A d, e \in Deliveries :
       Committed(d) /\ cmd[d] = cmd[e] /\ pc[e] # "done" /\ pc'[e] = "done"
       => answer'[e].outcome \in {"replayed", "failed"}]_vars

\* A replay repeats the answer that was given when the mutation was applied.
ReplayRepeatsAnswer ==
  \A d, e \in Deliveries :
    /\ Succeeded(d) /\ Succeeded(e)
    /\ cmd[d] = cmd[e]
    => answer[d].body = answer[e].body

\* Every request is answered: the advisory locks and the row locks, taken in
\* this order by every mutation, never leave requests waiting for each other.
EveryRequestIsAnswered ==
  \A d \in Deliveries : pc[d] # "idle" ~> pc[d] = "done"
=============================================================================
