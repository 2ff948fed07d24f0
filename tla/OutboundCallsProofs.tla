------------------------- MODULE OutboundCallsProofs -------------------------
(***************************************************************************)
(* What holds of outbound calls for every number of requests, keys,        *)
(* sessions, attempts, callbacks and restarts.                             *)
(***************************************************************************)
EXTENDS OutboundCalls, FiniteSetTheorems, TLAPS

-----------------------------------------------------------------------------
(* Types.                                                                  *)

\* None is neither a task nor an entry, a row or a call.
LEMMA NoneIsNoRecord ==
  /\ None \notin TaskType
  /\ None \notin EntryType
  /\ None \notin RowType
  /\ None \notin CallType
<1>1. None \notin TaskType
  BY DEF None, TaskType
<1>2. None \notin EntryType
  BY DEF None, EntryType
<1>3. None \notin RowType
  BY DEF None, RowType
<1>4. None \notin CallType
  BY DEF None, CallType
<1>5. QED
  BY <1>1, <1>2, <1>3, <1>4

\* Registered calls, their rows and what the tasks carry name placed calls, and
\* a task that records an outcome has one.
Refers ==
  /\ \A k \in Tasks :
       /\ tasks[k].stage = "record" => tasks[k].verdict # "none"
       /\ tasks[k].stage = "sent" => tasks[k].call \in DOMAIN calls
       /\ \/ tasks[k].stage = "register"
          \/ tasks[k].stage = "record" /\ tasks[k].verdict = "succeeded"
          => tasks[k].result # None /\ tasks[k].result.call \in DOMAIN calls
  /\ \A k \in Entries : entries[k].call.call \in DOMAIN calls
  /\ \A k \in Keys :
       rows[k] # None /\ rows[k].state = "succeeded"
         => rows[k].result # None /\ rows[k].result.call \in DOMAIN calls

\* A task that went past its reservation has a row, and so has an entry.
Reserved ==
  /\ \A k \in Tasks : tasks[k].stage # "reserve" => rows[k] # None
  /\ \A k \in Entries : rows[k] # None

\* A call was placed for a row, and a task that is about to place one is the
\* first of its key to do so.
Placed ==
  /\ \A n \in DOMAIN calls : rows[calls[n].key] # None
  /\ \A k \in Tasks :
       tasks[k].stage = "post" => \A n \in DOMAIN calls : calls[n].key # k

\* The inductive invariant.
Inv == TypeOK /\ Refers /\ Reserved /\ Placed /\ OneCallPerKey

\* What a step does to the tasks: they go on, with what they were started for,
\* or they end.
TasksGoOn ==
  \A j \in Keys :
    tasks'[j] # None => tasks[j] # None /\ tasks'[j].fingerprint = tasks[j].fingerprint

\* The answer of every waiting request is typed.
LEMMA SettleTyped ==
  ASSUME TypeOK, NEW k \in Keys, NEW a \in AnswerType, Settle(k, a)
  PROVE  answer' \in [Requests -> AnswerType]
  BY DEF TypeOK, Settle

\* A task that ends leaves the others as they are.
LEMMA EndTyped ==
  ASSUME TypeOK, NEW k \in Keys, NEW a \in AnswerType, End(k, a)
  PROVE  /\ answer' \in [Requests -> AnswerType]
         /\ tasks' \in [Keys -> TaskType \cup {None}]
         /\ tasks'[k] = None
         /\ \A j \in Keys \ {k} : tasks'[j] = tasks[j]
  BY SettleTyped DEF TypeOK, End

\* The refusals are answers.
LEMMA RefusalTyped ==
  \A r \in Refusals : [kind |-> r] \in AnswerType
  BY DEF AnswerType

\* The answer that names a call is an answer.
LEMMA CalledTyped ==
  \A n \in Nat \ {0} : Called(n) \in AnswerType
  BY DEF AnswerType, Called

\* A task that goes on leaves the others as they are.
LEMMA GoOnTyped ==
  ASSUME TypeOK, NEW k \in Keys, NEW t \in TaskType, tasks' = [tasks EXCEPT ![k] = t]
  PROVE  /\ tasks' \in [Keys -> TaskType \cup {None}]
         /\ tasks'[k] = t
         /\ \A j \in Keys \ {k} : tasks'[j] = tasks[j]
  BY DEF TypeOK

\* The rows and the calls that are written are typed.
LEMMA NewCallTyped ==
  ASSUME TypeOK, NEW n \in Nat \ {0}
  PROVE  NewCall(n) \in CallType /\ NewCall(n).call = n
  BY DEF TypeOK, NewCall, CallType, Statuses

\* The row of a reservation, new or from before a restart, is a pending row.
LEMMA PendingRowTyped ==
  ASSUME TypeOK, NEW k \in Keys, tasks[k] \in TaskType
  PROVE  PendingRow(k) \in RowType /\ PendingRow(k).state = "pending"
  BY DEF TypeOK, PendingRow, RowType, TaskType

\* A finished row is typed; if it says succeeded, it did before or has the call given.
LEMMA FinishedTyped ==
  ASSUME NEW row \in RowType, NEW state \in {"succeeded", "failed", "uncertain"},
         NEW c \in CallType \cup {None}, NEW at \in Nat
  PROVE  /\ Finished(row, state, c, at) \in RowType
         /\ Finished(row, state, c, at).state = "succeeded"
              => \/ Finished(row, state, c, at) = row
                 \/ state = "succeeded" /\ Finished(row, state, c, at).result = c
<1> DEFINE new == [row EXCEPT !.state = state, !.result = c, !.updated = at]
<1>1. new \in RowType /\ new.state = state /\ new.result = c
  BY DEF RowType
<1>2. Finished(row, state, c, at) \in {row, new}
  BY DEF Finished
<1>3. QED
  BY <1>1, <1>2

\* What a callback makes of an entry is typed, keeps its call and never leaves a terminal status.
LEMMA ObservedTyped ==
  ASSUME TypeOK, NEW c \in CallType, c.call \in DOMAIN calls,
         NEW i \in DOMAIN calls[c.call].events
  PROVE  /\ Observed(c, i) \in CallType
         /\ Observed(c, i).call = c.call
         /\ IsTerminal(c.status) => Observed(c, i).status = c.status
<1> DEFINE e == calls[c.call].events[i]
           status == NextStatus(c.status, e.status)
           since == IF status # c.status /\ e.at > c.since THEN e.at ELSE c.since
           new == [c EXCEPT !.status = status, !.since = since,
                            !.cursor = i, !.seen = @ \cup {i}]
<1>1. calls[c.call] \in PlacedType
  BY DEF TypeOK
<1>2. e \in EventType /\ i \in Nat
  BY <1>1 DEF PlacedType
<1>3. status \in Statuses /\ since \in Nat
  BY <1>2 DEF CallType, EventType, NextStatus
<1>4. IsTerminal(c.status) => status = c.status
  BY DEF NextStatus
<1> HIDE DEF status, since, e
<1>5. new \in CallType /\ new.call = c.call /\ new.status = status
  BY <1>2, <1>3 DEF CallType
<1>6. Observed(c, i) \in {c, new}
  BY DEF Observed, status, since, e
<1>7. QED
  BY <1>4, <1>5, <1>6

-----------------------------------------------------------------------------
(* The inductive invariant.                                                *)

\* The references a task carries lead to placed calls.
CarriesPlaced(t) ==
  /\ t.stage = "record" => t.verdict # "none"
  /\ t.stage = "sent" => t.call \in DOMAIN calls
  /\ \/ t.stage = "register"
     \/ t.stage = "record" /\ t.verdict = "succeeded"
     => t.result # None /\ t.result.call \in DOMAIN calls

\* A step of one task that places no call keeps the invariant when what it
\* makes of its task and row is sound by itself.
LEMMA TaskStep ==
  ASSUME Inv, NEW k \in Keys,
         UNCHANGED <<entries, calls>>,
         \A j \in Keys \ {k} : tasks'[j] = tasks[j] /\ rows'[j] = rows[j],
         rows[k] # None => rows'[k] # None,
         rows'[k] # None /\ rows'[k].state = "succeeded"
           => rows'[k].result # None /\ rows'[k].result.call \in DOMAIN calls,
         tasks'[k] # None =>
           /\ CarriesPlaced(tasks'[k])
           /\ tasks'[k].stage # "reserve" => rows'[k] # None
           /\ tasks'[k].stage = "post" => \A n \in DOMAIN calls : calls[n].key # k
  PROVE  Refers' /\ Reserved' /\ Placed' /\ OneCallPerKey'
<1>1. \A n \in DOMAIN calls : calls[n].key \in Keys
  <2>1. \A n \in DOMAIN calls : calls[n] \in PlacedType
    BY DEF Inv, TypeOK
  <2>2. QED
    BY <2>1 DEF PlacedType
<1>2. Refers'
  BY DEF Inv, Refers, CarriesPlaced, Tasks, Entries
<1>3. Reserved'
  BY DEF Inv, Reserved, Tasks, Entries
<1>4. Placed'
  BY <1>1 DEF Inv, Placed, Tasks
<1>5. OneCallPerKey'
  BY DEF Inv, OneCallPerKey
<1>6. QED
  BY <1>2, <1>3, <1>4, <1>5

\* Every state of the specification starts sound.
LEMMA InitSound == Init => Inv
<1> SUFFICES ASSUME Init PROVE Inv
  OBVIOUS
<1>1. Tasks = {} /\ Entries = {} /\ calls = <<>>
  BY DEF Init, Tasks, Entries
<1>2. TypeOK
  <2>1. [kind |-> "none"] \in AnswerType
    BY DEF AnswerType
  <2>2. QED
    BY <2>1 DEF Init, TypeOK, None
<1>3. Refers /\ Reserved /\ Placed /\ OneCallPerKey
  BY <1>1 DEF Init, Refers, Reserved, Placed, OneCallPerKey
<1>4. QED
  BY <1>2, <1>3 DEF Inv

\* A request that is answered at once or starts a task keeps the invariant.
LEMMA AskSound ==
  ASSUME Inv, NEW d \in Requests, NEW q \in RequestType,
         \/ AskConflict(d, q) \/ AskKnown(d, q) \/ AskRefused(d, q) \/ AskWaits(d, q)
  PROVE  Inv'
<1> USE DEF Inv
<1> DEFINE fresh == [fingerprint |-> Fingerprint(q), stage |-> "reserve",
                     attempt |-> 1, call |-> 0, verdict |-> "none",
                     result |-> None]
<1>1. q.key \in Keys
  BY DEF RequestType
<1>2. fresh \in TaskType /\ fresh.stage = "reserve"
  BY CallsAssumption DEF TaskType, Fingerprint, FingerprintType, RequestType
<1>3. UNCHANGED <<entries, rows, calls, now, restarts>>
  BY DEF AskConflict, AskKnown, AskRefused, AskWaits, Ask
<1>4. \/ tasks' = tasks
      \/ tasks[q.key] = None /\ tasks' = [tasks EXCEPT ![q.key] = fresh]
  BY <1>1 DEF AskConflict, AskKnown, AskRefused, AskWaits, Tasks
<1> HIDE DEF fresh
<1>5. /\ tasks' \in [Keys -> TaskType \cup {None}]
      /\ \A j \in Keys \ {q.key} : tasks'[j] = tasks[j]
      /\ tasks'[q.key] \in {tasks[q.key], fresh}
  BY <1>1, <1>2, <1>4 DEF TypeOK
<1>6. request' \in [Requests -> RequestType \cup {None}]
  BY DEF TypeOK, AskConflict, AskKnown, AskRefused, AskWaits, Ask
<1>7. answer' \in [Requests -> AnswerType]
  <2>1. CASE AskKnown(d, q)
    <3>1. entries[q.key] \in EntryType
      BY <1>1, <2>1 DEF AskKnown, Entries, TypeOK
    <3>2. entries[q.key].call.call \in Nat \ {0}
      BY <3>1 DEF EntryType, CallType
    <3>3. QED
      BY <2>1, <3>2, CalledTyped DEF TypeOK, AskKnown, Ask
  <2>2. CASE ~AskKnown(d, q)
    <3>1. /\ [kind |-> "conflict"] \in AnswerType
          /\ [kind |-> "unauthorized"] \in AnswerType
          /\ [kind |-> "full"] \in AnswerType
      BY RefusalTyped DEF Refusals
    <3>2. Waiting \in AnswerType
      BY DEF AnswerType, Waiting
    <3>3. QED
      BY <2>2, <3>1, <3>2 DEF TypeOK, AskConflict, AskRefused, AskWaits, Ask
  <2>3. QED
    BY <2>1, <2>2
<1>8. TypeOK'
  BY <1>3, <1>5, <1>6, <1>7 DEF TypeOK
<1>9. Refers' /\ Reserved' /\ Placed' /\ OneCallPerKey'
  <2>1. tasks'[q.key] # None =>
          /\ CarriesPlaced(tasks'[q.key])
          /\ tasks'[q.key].stage # "reserve" => rows[q.key] # None
          /\ tasks'[q.key].stage = "post" => \A n \in DOMAIN calls : calls[n].key # q.key
    BY <1>1, <1>2, <1>5 DEF CarriesPlaced, Refers, Reserved, Placed, Tasks
  <2>2. QED
    BY <1>1, <1>3, <1>5, <2>1, TaskStep DEF Refers
<1>10. QED
  BY <1>8, <1>9

\* A task that ends, whatever it left in its row, keeps the invariant.
LEMMA EndSound ==
  ASSUME Inv, NEW k \in Keys, NEW a \in AnswerType, End(k, a),
         UNCHANGED <<request, entries, calls, now, restarts>>,
         rows' \in [Keys -> RowType \cup {None}],
         \A j \in Keys \ {k} : rows'[j] = rows[j],
         rows[k] # None => rows'[k] # None,
         rows'[k] # None /\ rows'[k].state = "succeeded"
           => rows'[k].result # None /\ rows'[k].result.call \in DOMAIN calls
  PROVE  Inv'
<1>1. TypeOK
  BY DEF Inv
<1>2. /\ answer' \in [Requests -> AnswerType]
      /\ tasks' \in [Keys -> TaskType \cup {None}]
      /\ tasks'[k] = None
      /\ \A j \in Keys \ {k} : tasks'[j] = tasks[j]
  BY <1>1, EndTyped
<1>3. TypeOK'
  BY <1>1, <1>2 DEF TypeOK
<1>4. Refers' /\ Reserved' /\ Placed' /\ OneCallPerKey'
  BY <1>2, TaskStep
<1>5. QED
  BY <1>3, <1>4 DEF Inv

\* A task that goes on soundly keeps the invariant.
LEMMA GoOnSound ==
  ASSUME Inv, NEW k \in Keys, NEW t \in TaskType,
         tasks' = [tasks EXCEPT ![k] = t],
         UNCHANGED <<request, answer, entries, calls, now, restarts>>,
         rows' \in [Keys -> RowType \cup {None}],
         \A j \in Keys \ {k} : rows'[j] = rows[j],
         rows[k] # None => rows'[k] # None,
         rows'[k] # None /\ rows'[k].state = "succeeded"
           => rows'[k].result # None /\ rows'[k].result.call \in DOMAIN calls,
         CarriesPlaced(t),
         t.stage # "reserve" => rows'[k] # None,
         t.stage = "post" => \A n \in DOMAIN calls : calls[n].key # k
  PROVE  Inv'
<1>1. TypeOK
  BY DEF Inv
<1>2. /\ tasks' \in [Keys -> TaskType \cup {None}]
      /\ tasks'[k] = t
      /\ \A j \in Keys \ {k} : tasks'[j] = tasks[j]
  BY <1>1, GoOnTyped
<1>3. TypeOK'
  BY <1>1, <1>2 DEF TypeOK
<1>4. Refers' /\ Reserved' /\ Placed' /\ OneCallPerKey'
  BY <1>2, TaskStep
<1>5. QED
  BY <1>3, <1>4 DEF Inv

\* The row a task records its outcome in.
LEMMA RecordedRowSound ==
  ASSUME Inv, NEW k \in Keys, At(k, "record")
  PROVE  /\ rows[k] \in RowType
         /\ RecordedRow(k) \in RowType
         /\ RecordedRow(k).state = "succeeded"
              => /\ RecordedRow(k).result # None
                 /\ RecordedRow(k).result.call \in DOMAIN calls
<1>1. tasks[k] \in TaskType /\ k \in Tasks
  BY DEF Inv, TypeOK, At, Tasks
<1>2. rows[k] \in RowType
  BY <1>1 DEF Inv, TypeOK, Reserved, At
<1>3. /\ tasks[k].verdict \in {"succeeded", "failed", "uncertain"}
      /\ tasks[k].verdict = "succeeded"
           => tasks[k].result # None /\ tasks[k].result.call \in DOMAIN calls
      /\ tasks[k].result \in CallType \cup {None}
  BY <1>1 DEF Inv, Refers, At, TaskType
<1>4. rows[k].state = "succeeded"
        => rows[k].result # None /\ rows[k].result.call \in DOMAIN calls
  BY <1>2, NoneIsNoRecord DEF Inv, Refers
<1>5. now \in Nat
  BY DEF Inv, TypeOK
<1>6. QED
  BY <1>2, <1>3, <1>4, <1>5, FinishedTyped DEF RecordedRow

\* A write that may have happened or not leaves rows of the right type.
LEMMA MaybeWritten ==
  ASSUME TypeOK, NEW k \in Keys, NEW row \in RowType,
         rows' \in {rows, [rows EXCEPT ![k] = row]}
  PROVE  /\ rows' \in [Keys -> RowType \cup {None}]
         /\ \A j \in Keys \ {k} : rows'[j] = rows[j]
         /\ rows'[k] \in {rows[k], row}
  BY DEF TypeOK

\* Every step of a task keeps the invariant.
LEMMA StepSound ==
  ASSUME Inv, NEW k \in Keys, Step(k)
  PROVE  Inv'
<1> DEFINE t == tasks[k]
<1>1. TypeOK /\ t \in TaskType /\ k \in Tasks /\ t # None
  <2>1. t # None
    BY DEF Step, RefuseUnauthorized, Reserve, Replay, ReserveFails, PlaceCall, Retry,
           Refused, LoseAnswer, Accepted, Record, RecordFails, Register, NoCallTaken,
           At, Tasks
  <2>2. QED
    BY <2>1 DEF Inv, TypeOK, Tasks
<1>2. /\ rows \in [Keys -> RowType \cup {None}]
      /\ rows[k] # None /\ rows[k].state = "succeeded"
           => rows[k].result # None /\ rows[k].result.call \in DOMAIN calls
      /\ t.stage # "reserve" => rows[k] # None
      /\ t.stage = "post" => \A n \in DOMAIN calls : calls[n].key # k
      /\ CarriesPlaced(t)
  BY <1>1 DEF Inv, TypeOK, Refers, Reserved, Placed, CarriesPlaced
<1>3. \A n \in DOMAIN calls : calls[n].key = k => rows[k] # None
  BY DEF Inv, Placed
<1>4. CASE RefuseUnauthorized(k)
  <2>1. [kind |-> "unauthorized"] \in AnswerType
    BY RefusalTyped DEF Refusals
  <2>2. QED
    BY <1>2, <1>4, <2>1, EndSound DEF RefuseUnauthorized
<1>5. CASE Reserve(k)
  <2> DEFINE u == [t EXCEPT !.stage = "post"]
  <2>1. /\ u \in TaskType
        /\ u.stage = "post"
    BY <1>1 DEF TaskType
  <2>2. PendingRow(k) \in RowType /\ PendingRow(k).state = "pending"
    BY <1>1, PendingRowTyped
  <2>3. /\ rows' \in [Keys -> RowType \cup {None}]
        /\ \A j \in Keys \ {k} : rows'[j] = rows[j]
        /\ rows'[k] = PendingRow(k)
    BY <1>2, <1>5, <2>2 DEF Reserve
  <2>4. \A n \in DOMAIN calls : calls[n].key # k
    BY <1>3, <1>5 DEF Reserve
  <2>5. tasks' = [tasks EXCEPT ![k] = u]
    BY <1>5 DEF Reserve
  <2>6. CarriesPlaced(u)
    BY <2>1 DEF CarriesPlaced
  <2>7. rows'[k] # None
    BY <2>2, <2>3, NoneIsNoRecord
  <2> HIDE DEF u
  <2>8. QED
    BY <1>5, <2>1, <2>2, <2>3, <2>4, <2>5, <2>6, <2>7, GoOnSound DEF Reserve
<1>6. CASE Replay(k)
  <2>1. UNCHANGED <<request, entries, rows, calls, now, restarts>>
    BY <1>6 DEF Replay
  <2>2. CASE \E a \in {"conflict", "failed", "uncertain"} : End(k, [kind |-> a])
    <3>1. \A a \in {"conflict", "failed", "uncertain"} : [kind |-> a] \in AnswerType
      BY RefusalTyped DEF Refusals
    <3>2. QED
      BY <1>2, <2>1, <2>2, <3>1, EndSound
  <2>3. CASE /\ rows[k] # None
             /\ rows[k].state = "succeeded"
             /\ tasks' = [tasks EXCEPT ![k].stage = "register",
                                       ![k].result = rows[k].result]
             /\ UNCHANGED answer
    <3> DEFINE u == [t EXCEPT !.stage = "register", !.result = rows[k].result]
    <3>1. rows[k].result \in CallType \cup {None}
      <4>1. rows[k] \in RowType
        BY <1>2, <2>3
      <4>2. QED
        BY <4>1 DEF RowType
    <3>2. u \in TaskType /\ u.stage = "register" /\ u.result = rows[k].result
      BY <1>1, <3>1 DEF TaskType
    <3>3. tasks' = [tasks EXCEPT ![k] = u]
      BY <1>1, <2>3 DEF TypeOK
    <3>4. CarriesPlaced(u)
      BY <1>2, <2>3, <3>2 DEF CarriesPlaced
    <3> HIDE DEF u
    <3>5. QED
      BY <1>2, <2>1, <2>3, <3>2, <3>3, <3>4, GoOnSound
  <2>4. QED
    BY <1>6, <2>2, <2>3 DEF Replay
<1>7. CASE ReserveFails(k)
  <2>1. [kind |-> "unavailable"] \in AnswerType
    BY RefusalTyped DEF Refusals
  <2>2. PendingRow(k) \in RowType /\ PendingRow(k).state = "pending"
    BY <1>1, PendingRowTyped
  <2>3. /\ rows' \in [Keys -> RowType \cup {None}]
        /\ \A j \in Keys \ {k} : rows'[j] = rows[j]
        /\ rows'[k] \in {rows[k], PendingRow(k)}
        /\ rows[k] # None => rows'[k] = rows[k]
    BY <1>2, <1>7, <2>2 DEF ReserveFails
  <2>4. rows'[k] # None /\ rows'[k].state = "succeeded" => rows'[k] = rows[k]
    BY <2>2, <2>3
  <2>5. QED
    BY <1>2, <1>7, <2>1, <2>3, <2>4, EndSound DEF ReserveFails
<1>8. CASE PlaceCall(k)
  <2> DEFINE u == [t EXCEPT !.stage = "sent", !.call = Len(calls) + 1]
             new == [key |-> k, session |-> t.fingerprint.session, events |-> <<>>]
  <2>1. calls \in Seq(PlacedType) /\ Len(calls) \in Nat
    BY <1>1 DEF TypeOK
  <2>2. u \in TaskType /\ u.stage = "sent" /\ u.call = Len(calls) + 1
    <3>1. \A n \in Nat :
            /\ [t EXCEPT !.stage = "sent", !.call = n] \in TaskType
            /\ [t EXCEPT !.stage = "sent", !.call = n].stage = "sent"
            /\ [t EXCEPT !.stage = "sent", !.call = n].call = n
      BY <1>1 DEF TaskType
    <3>2. Len(calls) + 1 \in Nat
      BY <2>1
    <3>3. QED
      BY <3>1, <3>2
  <2>3. tasks' = [tasks EXCEPT ![k] = u]
    BY <1>1, <1>8 DEF PlaceCall, TypeOK
  <2>4. /\ tasks' \in [Keys -> TaskType \cup {None}]
        /\ tasks'[k] = u
        /\ \A j \in Keys \ {k} : tasks'[j] = tasks[j]
    BY <1>1, <2>2, <2>3, GoOnTyped
  <2>5. new \in PlacedType /\ new.key = k
    BY <1>1 DEF PlacedType, TaskType, FingerprintType
  <2>6. calls' = Append(calls, new)
    BY <1>8 DEF PlaceCall
  <2> HIDE DEF u, new
  <2>7. /\ calls' \in Seq(PlacedType)
        /\ DOMAIN calls' = DOMAIN calls \cup {Len(calls) + 1}
        /\ Len(calls) + 1 \notin DOMAIN calls
        /\ \A n \in DOMAIN calls : calls'[n] = calls[n]
        /\ calls'[Len(calls) + 1] = new
    BY <2>1, <2>5, <2>6
  <2>8. UNCHANGED <<request, answer, entries, rows, now, restarts>>
    BY <1>8 DEF PlaceCall
  <2>9. TypeOK'
    BY <1>1, <2>4, <2>7, <2>8 DEF TypeOK
  <2>10. Refers'
    BY <2>2, <2>4, <2>7, <2>8 DEF Inv, Refers, Tasks, Entries
  <2>11. Reserved'
    BY <1>1, <1>2, <1>8, <2>4, <2>8 DEF Inv, Reserved, Tasks, Entries, PlaceCall, At
  <2>12. t.stage = "post"
    BY <1>8 DEF PlaceCall, At
  <2>13. Placed'
    BY <1>2, <2>2, <2>4, <2>5, <2>7, <2>8, <2>12 DEF Inv, Placed, Tasks
  <2>14. OneCallPerKey'
    BY <1>2, <2>5, <2>7, <2>12 DEF Inv, OneCallPerKey
  <2>15. QED
    BY <2>9, <2>10, <2>11, <2>13, <2>14 DEF Inv
<1>9. CASE Retry(k)
  <2> DEFINE u == [t EXCEPT !.stage = "post", !.attempt = t.attempt + 1]
  <2>1. t.stage = "post" /\ t.attempt + 1 \in 1 .. MaxAttempts
    BY <1>1, <1>9, CallsAssumption DEF Retry, NoCallTaken, AttemptLeft, At, TaskType
  <2>2. u \in TaskType /\ u.stage = "post"
    BY <1>1, <2>1 DEF TaskType
  <2>3. tasks' = [tasks EXCEPT ![k] = u]
    BY <1>1, <1>9 DEF Retry, TypeOK
  <2>4. CarriesPlaced(u)
    BY <2>2 DEF CarriesPlaced
  <2> HIDE DEF u
  <2>5. QED
    BY <1>2, <1>9, <2>1, <2>2, <2>3, <2>4, GoOnSound DEF Retry
<1>10. ASSUME NEW v \in {"succeeded", "failed", "uncertain"},
              NEW c \in CallType \cup {None},
              Judged(k, v, c), t.stage \in {"post", "sent"},
              v = "succeeded" => c # None /\ c.call \in DOMAIN calls
       PROVE  Inv'
  <2> DEFINE u == [t EXCEPT !.stage = "record", !.verdict = v, !.result = c]
  <2>1. u \in TaskType /\ u.stage = "record" /\ u.verdict = v /\ u.result = c
    BY <1>1 DEF TaskType
  <2>2. tasks' = [tasks EXCEPT ![k] = u]
    BY <1>1, <1>10 DEF Judged, TypeOK
  <2>3. CarriesPlaced(u)
    BY <1>10, <2>1 DEF CarriesPlaced
  <2> HIDE DEF u
  <2>4. QED
    BY <1>2, <1>10, <2>1, <2>2, <2>3, GoOnSound DEF Judged
<1>11. CASE Refused(k)
  BY <1>10, <1>11 DEF Refused, At
<1>12. CASE LoseAnswer(k)
  BY <1>10, <1>12 DEF LoseAnswer, LostVerdict, At
<1>13. CASE Accepted(k)
  <2>1. t.stage = "sent" /\ t.call \in DOMAIN calls
    BY <1>2, <1>13 DEF Accepted, At, CarriesPlaced
  <2>2. t.call \in Nat \ {0}
    BY <1>1, <2>1 DEF TypeOK
  <2>3. NewCall(t.call) \in CallType /\ NewCall(t.call).call = t.call
    BY <1>1, <2>2, NewCallTyped
  <2>4. NewCall(t.call) # None
    BY <2>3, NoneIsNoRecord
  <2>5. QED
    BY <1>10, <1>13, <2>1, <2>3, <2>4 DEF Accepted
<1>14. ASSUME At(k, "record"), rows' \in {rows, [rows EXCEPT ![k] = RecordedRow(k)]}
       PROVE  /\ rows' \in [Keys -> RowType \cup {None}]
              /\ \A j \in Keys \ {k} : rows'[j] = rows[j]
              /\ rows'[k] # None
              /\ rows'[k].state = "succeeded"
                   => rows'[k].result # None /\ rows'[k].result.call \in DOMAIN calls
  BY <1>1, <1>2, <1>14, RecordedRowSound, MaybeWritten, NoneIsNoRecord
<1>15. CASE Record(k)
  <2>1. rows' \in {rows, [rows EXCEPT ![k] = RecordedRow(k)]}
    BY <1>15 DEF Record
  <2>2. CASE t.verdict = "succeeded"
    <3> DEFINE u == [t EXCEPT !.stage = "register"]
    <3>1. /\ u \in TaskType /\ u.stage = "register"
          /\ u.result = t.result
      BY <1>1 DEF TaskType
    <3>2. tasks' = [tasks EXCEPT ![k] = u] /\ UNCHANGED answer
      BY <1>15, <2>2 DEF Record
    <3>3. CarriesPlaced(u)
      BY <1>2, <1>15, <2>2, <3>1 DEF CarriesPlaced, Record, At
    <3> HIDE DEF u
    <3>4. QED
      BY <1>14, <1>15, <2>1, <3>1, <3>2, <3>3, GoOnSound DEF Record
  <2>3. CASE t.verdict # "succeeded"
    <3>1. t.verdict \in {"failed", "uncertain"}
      BY <1>1, <1>2, <1>15, <2>3 DEF Record, At, CarriesPlaced, TaskType
    <3>2. [kind |-> t.verdict] \in AnswerType
      BY <3>1, RefusalTyped DEF Refusals
    <3>3. QED
      BY <1>14, <1>15, <2>1, <2>3, <3>2, EndSound DEF Record
  <2>4. QED
    BY <2>2, <2>3
<1>16. CASE RecordFails(k)
  <2>1. [kind |-> "uncertain"] \in AnswerType
    BY RefusalTyped DEF Refusals
  <2>2. QED
    BY <1>14, <1>16, <2>1, EndSound DEF RecordFails
<1>17. CASE Register(k)
  <2> DEFINE entry == [fingerprint |-> t.fingerprint, call |-> t.result]
  <2>1. t.stage = "register" /\ t.result # None /\ t.result.call \in DOMAIN calls
    BY <1>2, <1>17 DEF Register, At, CarriesPlaced
  <2>2. t.result \in CallType
    BY <1>1, <2>1 DEF TaskType
  <2>3. entry \in EntryType /\ entry.call.call \in DOMAIN calls
    BY <1>1, <2>1, <2>2 DEF EntryType, TaskType
  <2>4. Called(t.result.call) \in AnswerType
    BY <2>2, CalledTyped DEF CallType
  <2>5. /\ answer' \in [Requests -> AnswerType]
        /\ tasks' \in [Keys -> TaskType \cup {None}]
        /\ tasks'[k] = None
        /\ \A j \in Keys \ {k} : tasks'[j] = tasks[j]
    BY <1>1, <1>17, <2>4, EndTyped DEF Register
  <2>6. /\ entries' = [entries EXCEPT ![k] = entry]
        /\ UNCHANGED <<request, rows, calls, now, restarts>>
    BY <1>17 DEF Register
  <2> HIDE DEF entry
  <2>7. TypeOK'
    BY <1>1, <2>3, <2>5, <2>6 DEF TypeOK
  <2>8. Refers'
    <3>1. \A j \in Keys : entries'[j] = IF j = k THEN entry ELSE entries[j]
      BY <1>1, <2>6 DEF TypeOK
    <3>2. QED
      BY <2>3, <2>5, <2>6, <3>1 DEF Inv, Refers, Tasks, Entries
  <2>9. Placed' /\ OneCallPerKey'
    BY <2>5, <2>6 DEF Inv, Placed, OneCallPerKey, Tasks
  <2>10. Reserved'
    <3>1. rows[k] # None
      BY <1>2, <2>1
    <3>2. \A j \in Keys \ {k} : entries'[j] = entries[j]
      BY <1>1, <2>6 DEF TypeOK
    <3>3. QED
      BY <2>5, <2>6, <3>1, <3>2 DEF Inv, Reserved, Tasks, Entries
  <2>11. QED
    BY <2>7, <2>8, <2>9, <2>10 DEF Inv
<1>18. QED
  BY <1>4, <1>5, <1>6, <1>7, <1>8, <1>9, <1>11, <1>12, <1>13, <1>15, <1>16, <1>17
  DEF Step

\* What the provider, its callbacks, the clock and a restart do keeps the
\* invariant.
LEMMA ProgressSound ==
  ASSUME Inv, NEW n \in DOMAIN calls, NEW status \in Statuses, Progress(n, status)
  PROVE  Inv'
<1> DEFINE e == [status |-> status, at |-> now]
           new == [calls[n] EXCEPT !.events = Append(@, e)]
<1>1. calls \in Seq(PlacedType) /\ calls[n] \in PlacedType
  BY DEF Inv, TypeOK
<1>2. e \in EventType
  BY DEF Inv, TypeOK, EventType
<1> HIDE DEF e
<1>3. Append(calls[n].events, e) \in Seq(EventType)
  BY <1>1, <1>2 DEF PlacedType
<1>4. new \in PlacedType /\ new.key = calls[n].key
  BY <1>1, <1>3 DEF PlacedType
<1>5. calls' = [calls EXCEPT ![n] = new]
  BY DEF Progress, e
<1> HIDE DEF new
<1>6. /\ calls' \in Seq(PlacedType)
      /\ DOMAIN calls' = DOMAIN calls
      /\ \A m \in DOMAIN calls : calls'[m].key = calls[m].key
  BY <1>1, <1>4, <1>5
<1>7. UNCHANGED <<request, answer, tasks, entries, rows, now, restarts>>
  BY DEF Progress
<1>8. TypeOK'
  BY <1>6, <1>7 DEF Inv, TypeOK
<1>9. Refers' /\ Reserved' /\ Placed' /\ OneCallPerKey'
  BY <1>6, <1>7 DEF Inv, Refers, Reserved, Placed, OneCallPerKey, Tasks, Entries
<1>10. QED
  BY <1>8, <1>9 DEF Inv

\* A status callback, written or not, keeps the invariant.
LEMMA ObserveSound ==
  ASSUME Inv, NEW k \in Entries, NEW i \in DOMAIN calls[entries[k].call.call].events,
         ObserveStatus(k, i) \/ ObserveFails(k, i)
  PROVE  Inv'
<1> DEFINE c == entries[k].call
           new == Observed(c, i)
           at == calls[c.call].events[i].at
<1>1. k \in Keys /\ entries[k] \in EntryType
  BY DEF Inv, TypeOK, Entries
<1>2. c \in CallType /\ c.call \in DOMAIN calls
  BY <1>1 DEF Inv, Refers, EntryType
<1>3. new \in CallType /\ new.call = c.call
  BY <1>2, ObservedTyped DEF Inv
<1>4. at \in Nat
  <2>1. calls[c.call] \in PlacedType
    BY <1>2 DEF Inv, TypeOK
  <2>2. calls[c.call].events[i] \in EventType
    BY <2>1 DEF PlacedType
  <2>3. QED
    BY <2>2 DEF EventType
<1>5. rows' = [rows EXCEPT ![k] = ObservedRow(k, i)]
  BY DEF ObserveStatus, ObserveFails
<1>6. ObservedRow(k, i) = Finished(rows[k], "succeeded", new, at)
  BY DEF ObservedRow
<1> HIDE DEF new, at
<1>7. rows[k] \in RowType
  BY <1>1 DEF Inv, TypeOK, Reserved
<1>8. /\ ObservedRow(k, i) \in RowType
      /\ ObservedRow(k, i).state = "succeeded"
           => ObservedRow(k, i) = rows[k] \/ ObservedRow(k, i).result = new
  BY <1>3, <1>4, <1>6, <1>7, FinishedTyped
<1>9. new # None /\ new.call \in DOMAIN calls
  BY <1>2, <1>3, NoneIsNoRecord
<1>10. ObservedRow(k, i) # None
  BY <1>8, NoneIsNoRecord
<1>11. /\ rows' \in [Keys -> RowType \cup {None}]
       /\ rows'[k] = ObservedRow(k, i)
       /\ \A j \in Keys \ {k} : rows'[j] = rows[j]
  BY <1>1, <1>5, <1>8 DEF Inv, TypeOK
<1>12. UNCHANGED <<request, answer, tasks, calls, now, restarts>>
  BY DEF ObserveStatus, ObserveFails
<1>13. /\ entries' \in [Keys -> EntryType \cup {None}]
       /\ \A j \in Keys \ {k} : entries'[j] = entries[j]
       /\ entries'[k].call.call = c.call
  <2>1. CASE ObserveFails(k, i)
    BY <2>1 DEF Inv, TypeOK, ObserveFails
  <2>2. CASE ObserveStatus(k, i)
    <3> DEFINE entry == [entries[k] EXCEPT !.call = new]
    <3>1. entry \in EntryType /\ entry.call = new
      BY <1>1, <1>3 DEF EntryType
    <3>2. entries' = [entries EXCEPT ![k] = entry]
      BY <2>2 DEF ObserveStatus, new
    <3> HIDE DEF entry
    <3>3. QED
      BY <1>1, <1>3, <3>1, <3>2 DEF Inv, TypeOK
  <2>3. QED
    BY <2>1, <2>2
<1>14. TypeOK'
  BY <1>11, <1>12, <1>13 DEF Inv, TypeOK
<1>15. Refers'
  <2>1. \A j \in Entries' : entries'[j].call.call \in DOMAIN calls
    BY <1>1, <1>2, <1>13 DEF Inv, Refers, Entries
  <2>2. \A j \in Keys :
          rows'[j] # None /\ rows'[j].state = "succeeded"
            => rows'[j].result # None /\ rows'[j].result.call \in DOMAIN calls
    BY <1>7, <1>8, <1>9, <1>11, NoneIsNoRecord DEF Inv, Refers
  <2>3. QED
    BY <1>12, <2>1, <2>2 DEF Inv, Refers, Tasks
<1>16. Reserved'
  BY <1>1, <1>10, <1>11, <1>12, <1>13 DEF Inv, Reserved, Tasks, Entries
<1>17. Placed'
  <2>1. \A n \in DOMAIN calls : calls[n].key \in Keys
    <3>1. \A n \in DOMAIN calls : calls[n] \in PlacedType
      BY DEF Inv, TypeOK
    <3>2. QED
      BY <3>1 DEF PlacedType
  <2>2. QED
    BY <1>10, <1>11, <1>12, <2>1 DEF Inv, Placed, Tasks
<1>18. OneCallPerKey'
  BY <1>12 DEF Inv, OneCallPerKey
<1>19. QED
  BY <1>14, <1>15, <1>16, <1>17, <1>18 DEF Inv

\* A restart, which forgets tasks and entries, keeps the invariant.
LEMMA RestartSound ==
  ASSUME Inv, Restart
  PROVE  Inv'
<1>1. Tasks' = {} /\ Entries' = {}
  BY DEF Restart, Tasks, Entries
<1>2. UNCHANGED <<request, rows, calls, now>>
  BY DEF Restart
<1>3. TypeOK'
  <2>1. [kind |-> "lost"] \in AnswerType
    BY RefusalTyped DEF Refusals
  <2>2. QED
    BY <2>1 DEF Inv, TypeOK, Restart
<1>4. Refers' /\ Reserved' /\ Placed' /\ OneCallPerKey'
  BY <1>1, <1>2 DEF Inv, Refers, Reserved, Placed, OneCallPerKey
<1>5. QED
  BY <1>3, <1>4 DEF Inv

\* The clock keeps the invariant.
LEMMA TickSound ==
  ASSUME Inv, Tick \/ UNCHANGED vars
  PROVE  Inv'
<1>1. UNCHANGED <<request, answer, tasks, entries, rows, calls, restarts>>
  BY DEF Tick, vars
<1>2. now' \in Nat
  BY DEF Inv, TypeOK, Tick, vars
<1>3. TypeOK'
  BY <1>1, <1>2 DEF Inv, TypeOK
<1>4. Refers' /\ Reserved' /\ Placed' /\ OneCallPerKey'
  BY <1>1 DEF Inv, Refers, Reserved, Placed, OneCallPerKey, Tasks, Entries
<1>5. QED
  BY <1>3, <1>4 DEF Inv

\* The invariant is inductive.
LEMMA InvInductive == Inv /\ [Next]_vars => Inv'
<1> SUFFICES ASSUME Inv, [Next]_vars PROVE Inv'
  OBVIOUS
<1>1. QED
  BY AskSound, StepSound, ProgressSound, ObserveSound, RestartSound, TickSound DEF Next

-----------------------------------------------------------------------------
(* Theorems.                                                               *)

\* The invariant holds in every reachable state.
LEMMA Invariance == Spec => []Inv
<1>1. QED
  BY InitSound, InvInductive, PTL DEF Spec

\* Requests, tasks, entries, rows and provider calls are always well typed.
THEOREM TypeInvariant == Spec => []TypeOK
<1>1. Inv => TypeOK
  BY DEF Inv
<1>2. QED
  BY <1>1, Invariance, PTL

\* No retry, lost answer, duplicate or restart places a second call for a key.
THEOREM OneCall == Spec => []OneCallPerKey
<1>1. Inv => OneCallPerKey
  BY DEF Inv
<1>2. QED
  BY <1>1, Invariance, PTL

-----------------------------------------------------------------------------
(* Sessions and capacity.                                                  *)

\* Steps that only end tasks or let them go on.
LEMMA StepsGoOn ==
  ASSUME Inv, NEW k \in Keys, Step(k)
  PROVE  /\ k \in Tasks
         /\ TasksGoOn
         /\ \/ entries' = entries
            \/ /\ tasks'[k] = None
               /\ entries' = [entries EXCEPT ![k] =
                                [fingerprint |-> tasks[k].fingerprint,
                                 call |-> tasks[k].result]]
<1>1. TypeOK /\ tasks[k] \in TaskType /\ k \in Tasks /\ tasks[k] # None
  <2>1. tasks[k] # None
    BY DEF Step, RefuseUnauthorized, Reserve, Replay, ReserveFails, PlaceCall, Retry,
           Refused, LoseAnswer, Accepted, Record, RecordFails, Register, NoCallTaken,
           At, Tasks
  <2>2. QED
    BY <2>1 DEF Inv, TypeOK, Tasks
<1>2. ASSUME NEW a, End(k, a) PROVE TasksGoOn /\ tasks'[k] = None
  BY <1>1, <1>2 DEF End, TasksGoOn, TypeOK
<1>3. ASSUME NEW t, tasks' = [tasks EXCEPT ![k] = t],
             t.fingerprint = tasks[k].fingerprint
      PROVE  TasksGoOn
  BY <1>1, <1>3 DEF TasksGoOn, TypeOK
<1>4. CASE Register(k)
  BY <1>1, <1>2, <1>4 DEF Register
<1>5. CASE ~Register(k)
  <2>1. entries' = entries
    BY <1>5 DEF Step, RefuseUnauthorized, Reserve, Replay, ReserveFails, PlaceCall,
                Retry, Refused, LoseAnswer, Accepted, Judged, Record, RecordFails
  <2>2. CASE \E a : End(k, a)
    BY <1>1, <1>2, <2>1, <2>2
  <2>3. CASE ~\E a : End(k, a)
    <3>1. CASE Reserve(k) \/ Record(k)
      <4> DEFINE u(s) == [tasks[k] EXCEPT !.stage = s]
      <4>1. \A s : u(s).fingerprint = tasks[k].fingerprint
        BY <1>1 DEF TaskType
      <4>2. \E s : tasks' = [tasks EXCEPT ![k] = u(s)]
        BY <1>1, <2>3, <3>1 DEF Reserve, Record, TypeOK
      <4> HIDE DEF u
      <4>3. QED
        BY <1>1, <1>3, <2>1, <4>1, <4>2
    <3>2. CASE Replay(k)
      <4> DEFINE u == [tasks[k] EXCEPT !.stage = "register", !.result = rows[k].result]
      <4>1. u.fingerprint = tasks[k].fingerprint
        BY <1>1 DEF TaskType
      <4>2. tasks' = [tasks EXCEPT ![k] = u]
        BY <1>1, <2>3, <3>2 DEF Replay, TypeOK
      <4> HIDE DEF u
      <4>3. QED
        BY <1>1, <1>3, <2>1, <4>1, <4>2
    <3>3. CASE PlaceCall(k)
      <4> DEFINE u == [tasks[k] EXCEPT !.stage = "sent", !.call = Len(calls) + 1]
      <4>1. u.fingerprint = tasks[k].fingerprint
        BY <1>1 DEF TaskType
      <4>2. tasks' = [tasks EXCEPT ![k] = u]
        BY <1>1, <3>3 DEF PlaceCall, TypeOK
      <4> HIDE DEF u
      <4>3. QED
        BY <1>1, <1>3, <2>1, <4>1, <4>2
    <3>4. CASE Retry(k)
      <4> DEFINE u == [tasks[k] EXCEPT !.stage = "post", !.attempt = @ + 1]
      <4>1. u.fingerprint = tasks[k].fingerprint
        BY <1>1 DEF TaskType
      <4>2. tasks' = [tasks EXCEPT ![k] = u]
        BY <1>1, <3>4 DEF Retry, TypeOK
      <4> HIDE DEF u
      <4>3. QED
        BY <1>1, <1>3, <2>1, <4>1, <4>2
    <3>5. CASE Refused(k) \/ LoseAnswer(k) \/ Accepted(k)
      <4> DEFINE u(v, c) == [tasks[k] EXCEPT !.stage = "record", !.verdict = v,
                                             !.result = c]
      <4>1. \A v, c : u(v, c).fingerprint = tasks[k].fingerprint
        BY <1>1 DEF TaskType
      <4>2. \E v, c : tasks' = [tasks EXCEPT ![k] = u(v, c)]
        <5>1. ASSUME NEW v, NEW c, Judged(k, v, c)
              PROVE  tasks' = [tasks EXCEPT ![k] = u(v, c)]
          BY <1>1, <5>1 DEF Judged, TypeOK
        <5>2. \E v, c : Judged(k, v, c)
          BY <3>5 DEF Refused, LoseAnswer, Accepted
        <5>3. QED
          BY <5>1, <5>2
      <4> HIDE DEF u
      <4>3. QED
        BY <1>1, <1>3, <2>1, <4>1, <4>2
    <3>6. QED
      BY <1>5, <2>3, <3>1, <3>2, <3>3, <3>4, <3>5
      DEF Step, RefuseUnauthorized, ReserveFails, RecordFails
  <2>4. QED
    BY <2>2, <2>3
<1>6. QED
  BY <1>4, <1>5

\* The session a task or an entry is for.
SessionOf(x) ==
  IF x \in Tasks THEN tasks[x].fingerprint.session ELSE entries[x].fingerprint.session

\* Sessions apart, in terms of the session of a key.
LEMMA ApartMeans ==
  SessionsApart <=>
    /\ Tasks \cap Entries = {}
    /\ \A j, k \in Tasks \cup Entries : SessionOf(j) = SessionOf(k) => j = k
  BY DEF SessionsApart, SessionOf, Tasks, Entries

\* Tasks that go on or end beside the same entries stay apart.
LEMMA ApartGoesOn ==
  ASSUME SessionsApart, TasksGoOn,
         \A j \in Keys : entries'[j] # None => entries[j] # None
                           /\ entries'[j].fingerprint = entries[j].fingerprint
  PROVE  SessionsApart'
<1>1. Tasks' \subseteq Tasks /\ Entries' \subseteq Entries
  BY DEF TasksGoOn, Tasks, Entries
<1>2. \A j \in Tasks' \cup Entries' : SessionOf(j)' = SessionOf(j)
  BY <1>1 DEF SessionsApart, SessionOf, TasksGoOn, Tasks, Entries
<1>3. Tasks' \cap Entries' = {}
  BY <1>1 DEF SessionsApart
<1>4. \A j, k \in Tasks' \cup Entries' : SessionOf(j)' = SessionOf(k)' => j = k
  BY <1>1, <1>2, ApartMeans
<1>5. QED
  BY <1>3, <1>4 DEF SessionsApart, SessionOf, Tasks, Entries

\* A carrier session has at most one call that is pending or registered.
THEOREM SessionsStayApart == Spec => []SessionsApart
<1>1. Init => SessionsApart
  BY DEF Init, SessionsApart, Tasks, Entries
<1>2. Inv /\ SessionsApart /\ [Next]_vars => SessionsApart'
  <2> SUFFICES ASSUME Inv, SessionsApart, [Next]_vars PROVE SessionsApart'
    OBVIOUS
  <2>1. ASSUME NEW d \in Requests, NEW q \in RequestType, AskWaits(d, q)
        PROVE  SessionsApart'
    <3> DEFINE fresh == [fingerprint |-> Fingerprint(q), stage |-> "reserve",
                         attempt |-> 1, call |-> 0, verdict |-> "none",
                         result |-> None]
    <3>1. q.key \in Keys /\ q.key \notin Entries /\ ~SessionTaken(q)
      BY <2>1 DEF RequestType, AskWaits
    <3>2. entries' = entries
      BY <2>1 DEF AskWaits, Ask
    <3>3. CASE q.key \in Tasks
      BY <2>1, <3>2, <3>3, ApartGoesOn DEF AskWaits, TasksGoOn
    <3>4. CASE q.key \notin Tasks
      <4>1. fresh \in TaskType /\ fresh.fingerprint.session = q.session
        BY CallsAssumption
        DEF TaskType, Fingerprint, FingerprintType, RequestType
      <4>2. tasks' = [tasks EXCEPT ![q.key] = fresh]
        BY <2>1, <3>4 DEF AskWaits
      <4> HIDE DEF fresh
      <4>3. /\ tasks'[q.key] = fresh
            /\ \A j \in Keys \ {q.key} : tasks'[j] = tasks[j]
        BY <3>1, <4>2 DEF Inv, TypeOK
      <4>4. fresh # None
        BY <4>1, NoneIsNoRecord
      <4>5. Tasks' = Tasks \cup {q.key} /\ Entries' = Entries
        BY <3>1, <3>2, <4>3, <4>4 DEF Tasks, Entries
      <4>6. \A j \in Tasks \cup Entries : SessionOf(j) # q.session
        BY <3>1, <3>4 DEF SessionTaken, SessionOf
      <4>7. /\ SessionOf(q.key)' = q.session
            /\ \A j \in Tasks \cup Entries : SessionOf(j)' = SessionOf(j)
        BY <3>1, <3>2, <3>4, <4>1, <4>3, <4>5 DEF SessionOf, Tasks, Entries
      <4>8. Tasks' \cap Entries' = {}
        BY <3>1, <4>5 DEF SessionsApart
      <4>9. \A j, k \in Tasks' \cup Entries' : SessionOf(j)' = SessionOf(k)' => j = k
        BY <4>5, <4>6, <4>7, ApartMeans
      <4>10. QED
        BY <4>8, <4>9 DEF SessionsApart, SessionOf, Tasks, Entries
    <3>5. QED
      BY <3>3, <3>4
  <2>2. ASSUME NEW d \in Requests, NEW q \in RequestType,
               AskConflict(d, q) \/ AskKnown(d, q) \/ AskRefused(d, q)
        PROVE  SessionsApart'
    <3>1. tasks' = tasks /\ entries' = entries
      BY <2>2 DEF AskConflict, AskKnown, AskRefused, Ask
    <3>2. QED
      BY <3>1, ApartGoesOn DEF TasksGoOn
  <2>3. ASSUME NEW k \in Keys, Step(k)
        PROVE  SessionsApart'
    <3>1. CASE entries' = entries
      BY <2>3, <3>1, StepsGoOn, ApartGoesOn
    <3>2. CASE /\ tasks'[k] = None
               /\ entries' = [entries EXCEPT ![k] =
                                [fingerprint |-> tasks[k].fingerprint,
                                 call |-> tasks[k].result]]
      <4> DEFINE entry == [fingerprint |-> tasks[k].fingerprint,
                           call |-> tasks[k].result]
      <4>1. /\ entries'[k] = entry
            /\ \A j \in Keys \ {k} : entries'[j] = entries[j]
        BY <3>2 DEF Inv, TypeOK
      <4>2. k \in Tasks /\ TasksGoOn
        BY <2>3, StepsGoOn
      <4>3. entry # None /\ entry.fingerprint = tasks[k].fingerprint
        BY DEF None
      <4> HIDE DEF entry
      <4>4. /\ Tasks' \subseteq Tasks \ {k}
            /\ Entries' = Entries \cup {k}
        BY <3>2, <4>1, <4>2, <4>3 DEF TasksGoOn, Tasks, Entries
      <4>5. \A j \in Tasks' \cup Entries' : SessionOf(j)' = SessionOf(j)
        BY <4>1, <4>2, <4>3, <4>4
        DEF SessionsApart, SessionOf, TasksGoOn, Tasks, Entries
      <4>6. Tasks' \cap Entries' = {}
        BY <4>4 DEF SessionsApart
      <4>7. \A i, j \in Tasks' \cup Entries' : SessionOf(i)' = SessionOf(j)' => i = j
        BY <4>2, <4>4, <4>5, ApartMeans
      <4>8. QED
        BY <4>6, <4>7 DEF SessionsApart, SessionOf, Tasks, Entries
    <3>3. QED
      BY <2>3, <3>1, <3>2, StepsGoOn
  <2>4. ASSUME NEW k \in Entries, NEW i \in DOMAIN calls[entries[k].call.call].events,
               ObserveStatus(k, i) \/ ObserveFails(k, i)
        PROVE  SessionsApart'
    <3>1. k \in Keys /\ entries[k] \in EntryType
      BY DEF Inv, TypeOK, Entries
    <3>2. \A c : [entries[k] EXCEPT !.call = c].fingerprint = entries[k].fingerprint
      BY <3>1 DEF EntryType
    <3>3. \/ entries' = entries
          \/ entries' = [entries EXCEPT ![k] =
                           [entries[k] EXCEPT !.call = Observed(entries[k].call, i)]]
      BY <2>4 DEF ObserveStatus, ObserveFails
    <3>4. \A j \in Keys : entries'[j] # None =>
            entries[j] # None /\ entries'[j].fingerprint = entries[j].fingerprint
      <4> DEFINE entry == [entries[k] EXCEPT !.call = Observed(entries[k].call, i)]
      <4>1. entry.fingerprint = entries[k].fingerprint
        BY <3>2
      <4>2. entries' = entries \/ entries' = [entries EXCEPT ![k] = entry]
        BY <3>3
      <4> HIDE DEF entry
      <4>3. QED
        BY <3>1, <4>1, <4>2 DEF Inv, TypeOK, Entries
    <3>5. tasks' = tasks
      BY <2>4 DEF ObserveStatus, ObserveFails
    <3>6. QED
      BY <3>4, <3>5, ApartGoesOn DEF TasksGoOn
  <2>5. CASE Restart
    <3>1. Tasks' = {} /\ Entries' = {}
      BY <2>5 DEF Restart, Tasks, Entries
    <3>2. QED
      BY <3>1 DEF SessionsApart
  <2>6. CASE \/ \E n \in DOMAIN calls, status \in Statuses : Progress(n, status)
             \/ Tick
             \/ UNCHANGED vars
    <3>1. tasks' = tasks /\ entries' = entries
      BY <2>6 DEF Progress, Tick, vars
    <3>2. QED
      BY <3>1, ApartGoesOn DEF TasksGoOn
  <2>7. QED
    BY <2>1, <2>2, <2>3, <2>4, <2>5, <2>6 DEF Next
<1>3. QED
  BY <1>1, <1>2, Invariance, PTL DEF Spec

\* The calls that count against the capacity.
Counted == {k \in Entries : entries[k].call.status # "over"} \cup Tasks

\* Fewer calls need no more capacity.
LEMMA FewerFit ==
  ASSUME IsFiniteSet(Counted), CapacityHolds, Counted' \subseteq Counted
  PROVE  IsFiniteSet(Counted') /\ CapacityHolds'
<1>1. /\ IsFiniteSet(Counted')
      /\ Cardinality(Counted') <= Cardinality(Counted)
      /\ Cardinality(Counted) \in Nat /\ Cardinality(Counted') \in Nat
  BY FS_Subset, FS_CardinalityType
<1>2. Cardinality(Counted) <= MaxActive
  BY DEF CapacityHolds, Counted
<1>3. Cardinality(Counted') <= MaxActive
  BY <1>1, <1>2, CallsAssumption
<1>4. CapacityHolds'
  BY <1>3 DEF CapacityHolds, Counted
<1>5. QED
  BY <1>1, <1>4

\* A request that starts a task found room for it.
LEMMA NewcomerFits ==
  ASSUME IsFiniteSet(Counted), NEW k, InUse < MaxActive, Counted' \subseteq Counted \cup {k}
  PROVE  IsFiniteSet(Counted') /\ CapacityHolds'
<1>1. Active \cup Tasks = Counted
  BY DEF Active, Counted, IsTerminal
<1>2. IsFiniteSet(Active) /\ IsFiniteSet(Tasks)
  BY <1>1, FS_Subset
<1>3. Cardinality(Counted) <= InUse /\ Cardinality(Counted) \in Nat /\ InUse \in Nat
  <2>1. /\ Cardinality(Counted)
             = Cardinality(Active) + Cardinality(Tasks) - Cardinality(Active \cap Tasks)
    BY <1>1, <1>2, FS_Union
  <2>2. /\ Cardinality(Active) \in Nat /\ Cardinality(Tasks) \in Nat
        /\ Cardinality(Active \cap Tasks) \in Nat
    <3>1. IsFiniteSet(Active \cap Tasks)
      BY <1>2, FS_Subset
    <3>2. QED
      BY <1>2, <3>1, FS_CardinalityType
  <2>3. Cardinality(Counted) \in Nat
    BY FS_CardinalityType
  <2>4. QED
    BY <2>1, <2>2, <2>3 DEF InUse
<1>4. /\ IsFiniteSet(Counted \cup {k})
      /\ Cardinality(Counted \cup {k}) <= Cardinality(Counted) + 1
      /\ Cardinality(Counted \cup {k}) \in Nat
  <2>1. /\ IsFiniteSet(Counted \cup {k})
        /\ Cardinality(Counted \cup {k})
             = IF k \in Counted THEN Cardinality(Counted) ELSE Cardinality(Counted) + 1
    BY FS_AddElement
  <2>2. QED
    BY <1>3, <2>1
<1>5. /\ IsFiniteSet(Counted')
      /\ Cardinality(Counted') <= Cardinality(Counted \cup {k})
      /\ Cardinality(Counted') \in Nat
  BY <1>4, FS_Subset, FS_CardinalityType
<1>6. Cardinality(Counted') <= MaxActive
  BY <1>3, <1>4, <1>5, CallsAssumption
<1>7. QED
  BY <1>5, <1>6 DEF CapacityHolds, Counted

\* Pending and active calls together never exceed the capacity.
THEOREM CapacityInvariant == Spec => []CapacityHolds
<1> DEFINE Fits == IsFiniteSet(Counted) /\ CapacityHolds
<1>1. Init => Fits
  <2> SUFFICES ASSUME Init PROVE Fits
    OBVIOUS
  <2>1. Counted = {}
    BY DEF Init, Counted, Tasks, Entries
  <2>2. QED
    BY <2>1, FS_EmptySet, CallsAssumption DEF CapacityHolds, Counted
<1>2. Inv /\ Fits /\ [Next]_vars => Fits'
  <2> SUFFICES ASSUME Inv, Fits, [Next]_vars PROVE Fits'
    OBVIOUS
  <2>1. ASSUME NEW d \in Requests, NEW q \in RequestType,
               AskConflict(d, q) \/ AskKnown(d, q) \/ AskRefused(d, q) \/ AskWaits(d, q)
        PROVE  Fits'
    <3>1. entries' = entries
      BY <2>1 DEF AskConflict, AskKnown, AskRefused, AskWaits, Ask
    <3>2. CASE tasks' = tasks
      <4>1. Counted' = Counted
        BY <3>1, <3>2 DEF Counted, Tasks, Entries
      <4>2. QED
        BY <4>1, FewerFit
    <3>3. CASE tasks' # tasks
      <4>1. AskWaits(d, q) /\ q.key \notin Tasks /\ q.key \in Keys
        BY <2>1, <3>3 DEF AskConflict, AskKnown, AskRefused, AskWaits, RequestType
      <4>2. InUse < MaxActive
        <5>1. ~(InUse >= MaxActive)
          BY <4>1 DEF AskWaits, Full
        <5>2. InUse \in Nat
          <6>1. Active \cup Tasks = Counted
            BY DEF Active, Counted, IsTerminal
          <6>2. IsFiniteSet(Active) /\ IsFiniteSet(Tasks)
            BY <6>1, FS_Subset
          <6>3. QED
            BY <6>2, FS_CardinalityType DEF InUse
        <5>3. QED
          BY <5>1, <5>2, CallsAssumption
      <4>3. Counted' \subseteq Counted \cup {q.key}
        <5>1. \A j \in Keys \ {q.key} : tasks'[j] = tasks[j]
          BY <4>1 DEF AskWaits, Inv, TypeOK
        <5>2. QED
          BY <3>1, <5>1 DEF Counted, Tasks, Entries
      <4>4. QED
        BY <4>2, <4>3, NewcomerFits
    <3>4. QED
      BY <3>2, <3>3
  <2>2. ASSUME NEW k \in Keys, Step(k)
        PROVE  Fits'
    <3>1. k \in Tasks /\ Tasks' \subseteq Tasks
      BY <2>2, StepsGoOn DEF TasksGoOn, Tasks
    <3>2. \A j \in Keys \ {k} : entries'[j] = entries[j]
      BY <2>2, StepsGoOn DEF Inv, TypeOK
    <3>3. Counted' \subseteq Counted
      BY <3>1, <3>2 DEF Counted, Entries
    <3>4. QED
      BY <3>3, FewerFit
  <2>3. ASSUME NEW k \in Entries, NEW i \in DOMAIN calls[entries[k].call.call].events,
               ObserveStatus(k, i) \/ ObserveFails(k, i)
        PROVE  Fits'
    <3> DEFINE c == entries[k].call
               entry == [entries[k] EXCEPT !.call = Observed(c, i)]
    <3>1. k \in Keys /\ entries[k] \in EntryType
      BY DEF Inv, TypeOK, Entries
    <3>2. c \in CallType /\ c.call \in DOMAIN calls
      BY <3>1 DEF Inv, Refers, EntryType
    <3>3. c.status = "over" => Observed(c, i).status = "over"
      BY <3>2, ObservedTyped DEF Inv, IsTerminal
    <3>4. entry.call = Observed(c, i)
      BY <3>1 DEF EntryType
    <3>5. entries' \in {entries, [entries EXCEPT ![k] = entry]}
      BY <2>3 DEF ObserveStatus, ObserveFails
    <3> HIDE DEF entry
    <3>6. Counted' \subseteq Counted
      <4>1. tasks' = tasks
        BY <2>3 DEF ObserveStatus, ObserveFails
      <4>2. QED
        BY <3>1, <3>3, <3>4, <3>5, <4>1 DEF Inv, TypeOK, Counted, Tasks, Entries
    <3>7. QED
      BY <3>6, FewerFit
  <2>4. CASE Restart
    <3>1. Counted' = {}
      BY <2>4 DEF Restart, Counted, Tasks, Entries
    <3>2. QED
      BY <3>1, FewerFit
  <2>5. CASE \/ \E n \in DOMAIN calls, status \in Statuses : Progress(n, status)
             \/ Tick
             \/ UNCHANGED vars
    <3>1. Counted' = Counted
      BY <2>5 DEF Progress, Tick, vars, Counted, Tasks, Entries
    <3>2. QED
      BY <3>1, FewerFit
  <2>6. QED
    BY <2>1, <2>2, <2>3, <2>4, <2>5 DEF Next
<1> HIDE DEF Fits
<1>3. Spec => []Fits
  BY <1>1, <1>2, Invariance, PTL DEF Spec
<1>4. Fits => CapacityHolds
  BY DEF Fits
<1>5. QED
  BY <1>3, <1>4, PTL

-----------------------------------------------------------------------------
(* The truth of rows and answers.                                          *)

NoCall(k) == \A n \in DOMAIN calls : calls[n].key # k

\* The n-th call was placed for key k and the session of fingerprint f.
IsCallOf(n, k, f) ==
  n \in DOMAIN calls /\ calls[n].key = k /\ calls[n].session = f.session

\* A row that is final.
IsFailed(k) == rows[k] # None /\ rows[k].state = "failed"
HasCall(k, n, f) ==
  /\ rows[k] # None
  /\ rows[k].state = "succeeded"
  /\ rows[k].fingerprint = f
  /\ rows[k].result.call = n

\* What a task believes of its key is so.
TaskTruth(k) ==
  tasks[k] # None =>
    /\ tasks[k].stage \in {"post", "sent", "record"} =>
         /\ rows[k].state = "pending"
         /\ rows[k].fingerprint = tasks[k].fingerprint
    /\ tasks[k].stage = "sent" => IsCallOf(tasks[k].call, k, tasks[k].fingerprint)
    /\ tasks[k].stage = "record" =>
         /\ tasks[k].verdict = "succeeded"
              => IsCallOf(tasks[k].result.call, k, tasks[k].fingerprint)
         /\ tasks[k].verdict = "failed" => NoCall(k)
    /\ tasks[k].stage = "register"
         => HasCall(k, tasks[k].result.call, tasks[k].fingerprint)

\* A final row tells what happened.
RowTruth(k) ==
  /\ IsFailed(k) => NoCall(k)
  /\ rows[k] # None /\ rows[k].state = "succeeded"
       => IsCallOf(rows[k].result.call, k, rows[k].fingerprint)

\* An entry has its row.
EntryTruth(k) ==
  entries[k] # None => HasCall(k, entries[k].call.call, entries[k].fingerprint)

\* An answer repeats a final row, and who waits has a task to wait for.
AnswerTruth(d) ==
  /\ answer[d] = Waiting
       => /\ request[d] # None
          /\ tasks[request[d].key] # None
          /\ tasks[request[d].key].fingerprint = Fingerprint(request[d])
  /\ answer[d].kind = "failed" => request[d] # None /\ IsFailed(request[d].key)
  /\ answer[d].kind = "call"
       => /\ request[d] # None
          /\ HasCall(request[d].key, answer[d].call, Fingerprint(request[d]))

Truth ==
  /\ \A k \in Keys : TaskTruth(k) /\ RowTruth(k) /\ EntryTruth(k)
  /\ \A d \in Requests : AnswerTruth(d)

\* A final row stays as it is.
RowKept(k) ==
  /\ IsFailed(k) => IsFailed(k)'
  /\ \A n, f : HasCall(k, n, f) => HasCall(k, n, f)'

\* A step of one key that places no call keeps the truth when what it makes of
\* its own key is true.
LEMMA KeyStep ==
  ASSUME Inv, Truth, NEW k \in Keys,
         UNCHANGED <<request, calls>>,
         \A j \in Keys \ {k} : /\ tasks'[j] = tasks[j]
                               /\ rows'[j] = rows[j]
                               /\ entries'[j] = entries[j],
         RowKept(k),
         TaskTruth(k)', RowTruth(k)', EntryTruth(k)',
         \A d \in Requests :
           \/ /\ answer'[d] = answer[d]
              /\ answer[d] = Waiting /\ request[d].key = k
                   => tasks'[k] # None /\ tasks'[k].fingerprint = tasks[k].fingerprint
           \/ request[d].key = k /\ AnswerTruth(d)'
  PROVE  Truth'
<1>1. \A j \in Keys \ {k} : (TaskTruth(j) /\ RowTruth(j) /\ EntryTruth(j))'
  BY DEF Truth, TaskTruth, RowTruth, EntryTruth, IsFailed, HasCall, IsCallOf, NoCall
<1>2. \A j \in Keys : RowKept(j)
  BY DEF RowKept, IsFailed, HasCall
<1>3. ASSUME NEW d \in Requests PROVE AnswerTruth(d)'
  <2>1. CASE request[d].key = k /\ AnswerTruth(d)'
    BY <2>1
  <2>2. CASE /\ answer'[d] = answer[d]
             /\ answer[d] = Waiting /\ request[d].key = k
                  => tasks'[k] # None /\ tasks'[k].fingerprint = tasks[k].fingerprint
    <3>1. AnswerTruth(d) /\ request'[d] = request[d]
      BY DEF Truth
    <3>2. request[d] # None => request[d].key \in Keys
      BY DEF Inv, TypeOK, RequestType
    <3>3. Fingerprint(request[d])' = Fingerprint(request[d])
      BY DEF Fingerprint
    <3>4. answer[d] = Waiting
            => /\ tasks'[request[d].key] # None
               /\ tasks'[request[d].key].fingerprint = Fingerprint(request[d])
      BY <2>2, <3>1, <3>2 DEF AnswerTruth
    <3>5. answer[d].kind = "failed" => IsFailed(request[d].key)'
      BY <1>2, <3>1, <3>2 DEF AnswerTruth, RowKept
    <3>6. answer[d].kind = "call"
            => HasCall(request[d].key, answer[d].call, Fingerprint(request[d]))'
      BY <1>2, <2>2, <3>1, <3>2, <3>3 DEF AnswerTruth, RowKept
    <3>7. QED
      BY <2>2, <3>1, <3>3, <3>4, <3>5, <3>6 DEF AnswerTruth
  <2>3. QED
    BY <2>1, <2>2
<1>4. QED
  BY <1>1, <1>3 DEF Truth

\* What HasCall says of the next state.
WillHaveCall(k, n, f) ==
  /\ rows'[k] # None
  /\ rows'[k].state = "succeeded"
  /\ rows'[k].fingerprint = f
  /\ rows'[k].result.call = n

\* A task that ends with a true answer keeps the truth.
LEMMA EndTrue ==
  ASSUME Inv, Truth, NEW k \in Keys, tasks[k] # None,
         NEW a \in AnswerType, End(k, a),
         UNCHANGED <<request, calls>>,
         \A j \in Keys \ {k} : rows'[j] = rows[j] /\ entries'[j] = entries[j],
         RowKept(k), RowTruth(k)', EntryTruth(k)',
         a.kind # "waiting",
         a.kind = "failed" => rows'[k] # None /\ rows'[k].state = "failed",
         a.kind = "call" => WillHaveCall(k, a.call, tasks[k].fingerprint)
  PROVE  Truth'
<1>1. /\ tasks'[k] = None
      /\ \A j \in Keys \ {k} : tasks'[j] = tasks[j]
  BY EndTyped DEF Inv
<1>2. TaskTruth(k)'
  BY <1>1 DEF TaskTruth
<1>3. ASSUME NEW d \in Requests
      PROVE  \/ /\ answer'[d] = answer[d]
                /\ ~(answer[d] = Waiting /\ request[d].key = k)
             \/ request[d].key = k /\ AnswerTruth(d)'
  <2>1. CASE answer[d] = Waiting /\ request[d].key = k
    <3>1. answer'[d] = a /\ request'[d] = request[d]
      BY <2>1 DEF Inv, TypeOK, End, Settle
    <3>2. request[d] # None /\ Fingerprint(request[d]) = tasks[k].fingerprint
      BY <2>1 DEF Truth, AnswerTruth
    <3>3. a # Waiting'
      BY DEF Waiting
    <3>4. Fingerprint(request'[d]) = tasks[k].fingerprint
      BY <3>1, <3>2
    <3>5. QED
      BY <2>1, <3>1, <3>2, <3>3, <3>4
      DEF AnswerTruth, HasCall, IsFailed, WillHaveCall, Waiting
  <2>2. CASE ~(answer[d] = Waiting /\ request[d].key = k)
    BY <2>2 DEF Inv, TypeOK, End, Settle
  <2>3. QED
    BY <2>1, <2>2
<1>4. QED
  BY <1>1, <1>2, <1>3, KeyStep

\* A task that goes on truly, in a step that answers nobody, keeps the truth.
LEMMA GoOnTrue ==
  ASSUME Inv, Truth, NEW k \in Keys, tasks[k] # None, NEW t \in TaskType,
         tasks' = [tasks EXCEPT ![k] = t], t.fingerprint = tasks[k].fingerprint,
         UNCHANGED <<request, answer, entries, calls>>,
         \A j \in Keys \ {k} : rows'[j] = rows[j],
         RowKept(k), RowTruth(k)', EntryTruth(k)', TaskTruth(k)'
  PROVE  Truth'
<1>1. /\ tasks'[k] = t
      /\ \A j \in Keys \ {k} : tasks'[j] = tasks[j]
  BY GoOnTyped DEF Inv
<1>2. t # None
  BY NoneIsNoRecord
<1>3. QED
  BY <1>1, <1>2, KeyStep

\* The row of a pending attempt takes the outcome as it is.
LEMMA PendingRowFinishes ==
  ASSUME NEW row \in RowType, row.state = "pending", NEW state, NEW c, NEW at
  PROVE  /\ Finished(row, state, c, at).state = state
         /\ Finished(row, state, c, at).result = c
         /\ Finished(row, state, c, at).fingerprint = row.fingerprint
  BY DEF Finished, RowType

\* A row in a final state keeps it, its fingerprint and its call.
LEMMA FinalRowStays ==
  ASSUME NEW row \in RowType, row.state # "pending",
         NEW state, NEW c \in CallType, NEW at, row.result.call = c.call
  PROVE  /\ Finished(row, state, c, at).state = row.state
         /\ Finished(row, state, c, at).fingerprint = row.fingerprint
         /\ row.state = "succeeded" => Finished(row, state, c, at).result.call = c.call
<1> DEFINE new == [row EXCEPT !.state = state, !.result = c, !.updated = at]
<1>1. new.state = state /\ new.result = c /\ new.fingerprint = row.fingerprint
  BY DEF RowType
<1>2. \/ Finished(row, state, c, at) = row
      \/ Finished(row, state, c, at) = new /\ row.state = "succeeded" /\ state = "succeeded"
  BY DEF Finished
<1> HIDE DEF new
<1>3. QED
  BY <1>1, <1>2

\* Every step of a task keeps the truth.
LEMMA StepTrue ==
  ASSUME Inv, SessionsApart, Truth, NEW k \in Keys, Step(k)
  PROVE  Truth'
<1> DEFINE t == tasks[k]
           f == t.fingerprint
<1>1. TypeOK /\ t \in TaskType /\ t # None /\ entries[k] = None
  <2>1. k \in Tasks
    BY StepsGoOn
  <2>2. QED
    BY <2>1 DEF Inv, TypeOK, SessionsApart, Tasks, Entries
<1>2. TaskTruth(k) /\ RowTruth(k)
  BY DEF Truth
<1>3. rows \in [Keys -> RowType \cup {None}]
  BY <1>1 DEF TypeOK
<1>4. ASSUME UNCHANGED <<rows, calls>>
      PROVE  RowKept(k) /\ RowTruth(k)'
  BY <1>2, <1>4 DEF RowKept, RowTruth, HasCall, IsFailed, NoCall, IsCallOf
<1>5. UNCHANGED entries => EntryTruth(k)'
  BY <1>1 DEF EntryTruth
<1>6. ASSUME NEW r \in Refusals, r # "failed", End(k, [kind |-> r]),
             UNCHANGED <<request, entries, calls>>,
             \A j \in Keys \ {k} : rows'[j] = rows[j],
             RowKept(k), RowTruth(k)'
      PROVE  Truth'
  <2> DEFINE a == [kind |-> r]
  <2>1. a \in AnswerType
    BY RefusalTyped
  <2>2. a.kind \notin {"waiting", "failed", "call"}
    BY <1>6 DEF Refusals
  <2>3. End(k, a)
    BY <1>6
  <2> HIDE DEF a
  <2>4. QED
    BY <1>1, <1>5, <1>6, <2>1, <2>2, <2>3, EndTrue
<1>7. CASE RefuseUnauthorized(k)
  <2>1. UNCHANGED <<request, entries, rows, calls>>
    BY <1>7 DEF RefuseUnauthorized
  <2>2. End(k, [kind |-> "unauthorized"])
    BY <1>7 DEF RefuseUnauthorized
  <2>3. QED
    BY <1>4, <1>6, <2>1, <2>2 DEF Refusals
<1>8. ASSUME NEW row, row = PendingRow(k), rows[k] = None,
             rows' \in {rows, [rows EXCEPT ![k] = row]}, UNCHANGED calls
      PROVE  /\ RowKept(k)
             /\ RowTruth(k)'
             /\ \A j \in Keys \ {k} : rows'[j] = rows[j]
  <2>1. row.state = "pending"
    BY <1>1, <1>8, PendingRowTyped
  <2>2. rows'[k] \in {None, row} /\ \A j \in Keys \ {k} : rows'[j] = rows[j]
    BY <1>3, <1>8
  <2>3. RowKept(k)
    BY <1>8 DEF RowKept, HasCall, IsFailed
  <2>4. RowTruth(k)'
    BY <2>1, <2>2 DEF RowTruth, IsFailed
  <2>5. QED
    BY <2>2, <2>3, <2>4
<1>9. CASE Reserve(k)
  <2> DEFINE u == [t EXCEPT !.stage = "post"]
             row == PendingRow(k)
  <2>1. u \in TaskType /\ u.stage = "post" /\ u.fingerprint = f
    BY <1>1 DEF TaskType
  <2>2. /\ UNCHANGED <<request, answer, entries, calls>>
        /\ tasks' = [tasks EXCEPT ![k] = u]
        /\ rows[k] = None
        /\ rows' = [rows EXCEPT ![k] = row]
    BY <1>9 DEF Reserve
  <2>3. row.state = "pending" /\ row.fingerprint = f
    BY DEF PendingRow
  <2> HIDE DEF u, row
  <2>4. rows'[k] = row /\ tasks'[k] = u
    BY <1>1, <1>3, <2>2 DEF TypeOK
  <2>5. TaskTruth(k)'
    BY <2>1, <2>3, <2>4 DEF TaskTruth
  <2>6. RowKept(k) /\ RowTruth(k)' /\ \A j \in Keys \ {k} : rows'[j] = rows[j]
    BY <1>8, <2>2 DEF row
  <2>7. QED
    BY <1>1, <1>5, <2>1, <2>2, <2>5, <2>6, GoOnTrue
<1>10. CASE Replay(k)
  <2>1. UNCHANGED <<request, entries, rows, calls>> /\ rows[k] # None
    BY <1>10 DEF Replay
  <2>2. CASE End(k, [kind |-> "conflict"]) \/ End(k, [kind |-> "uncertain"])
    BY <1>4, <1>6, <2>1, <2>2 DEF Refusals
  <2>3. CASE End(k, [kind |-> "failed"]) /\ rows[k].state = "failed"
    <3> DEFINE a == [kind |-> "failed"]
    <3>1. a \in AnswerType
      BY RefusalTyped DEF Refusals
    <3>2. a.kind = "failed" /\ End(k, a)
      BY <2>3
    <3> HIDE DEF a
    <3>3. QED
      BY <1>1, <1>4, <1>5, <2>1, <2>3, <3>1, <3>2, EndTrue
  <2>4. CASE /\ rows[k].fingerprint = f
             /\ rows[k].state = "succeeded"
             /\ tasks' = [tasks EXCEPT ![k].stage = "register",
                                       ![k].result = rows[k].result]
             /\ UNCHANGED answer
    <3> DEFINE u == [t EXCEPT !.stage = "register", !.result = rows[k].result]
    <3>1. rows[k].result \in CallType \cup {None}
      <4>1. rows[k] \in RowType
        BY <1>3, <2>1
      <4>2. QED
        BY <4>1 DEF RowType
    <3>2. /\ u \in TaskType /\ u.stage = "register" /\ u.result = rows[k].result
          /\ u.fingerprint = f
      BY <1>1, <3>1 DEF TaskType
    <3>3. tasks' = [tasks EXCEPT ![k] = u]
      BY <1>1, <2>4 DEF TypeOK
    <3> HIDE DEF u
    <3>4. tasks'[k] = u
      BY <1>1, <3>3 DEF TypeOK
    <3>5. TaskTruth(k)'
      BY <2>1, <2>4, <3>2, <3>4 DEF TaskTruth, HasCall
    <3>6. QED
      BY <1>1, <1>4, <1>5, <2>1, <2>4, <3>2, <3>3, <3>5, GoOnTrue
  <2>5. QED
    BY <1>10, <2>2, <2>3, <2>4 DEF Replay
<1>11. CASE ReserveFails(k)
  <2> DEFINE row == PendingRow(k)
  <2>1. UNCHANGED <<request, entries, calls>> /\ End(k, [kind |-> "unavailable"])
    BY <1>11 DEF ReserveFails
  <2>2. CASE UNCHANGED rows
    BY <1>4, <1>6, <2>1, <2>2 DEF Refusals
  <2>3. CASE ~UNCHANGED rows
    <3>1. rows[k] = None /\ rows' = [rows EXCEPT ![k] = row]
      BY <1>3, <1>11, <2>3 DEF ReserveFails
    <3> HIDE DEF row
    <3>2. RowKept(k) /\ RowTruth(k)' /\ \A j \in Keys \ {k} : rows'[j] = rows[j]
      BY <1>8, <2>1, <3>1 DEF row
    <3>3. QED
      BY <1>6, <2>1, <3>2 DEF Refusals
  <2>4. QED
    BY <2>2, <2>3
<1>12. CASE PlaceCall(k)
  <2> DEFINE u == [t EXCEPT !.stage = "sent", !.call = Len(calls) + 1]
             new == [key |-> k, session |-> f.session, events |-> <<>>]
  <2>1. calls \in Seq(PlacedType) /\ Len(calls) \in Nat
    BY <1>1 DEF TypeOK
  <2>2. /\ u.stage = "sent" /\ u.call = Len(calls) + 1 /\ u.fingerprint = f
        /\ u # None
    <3>1. \A n \in Nat : [t EXCEPT !.stage = "sent", !.call = n] \in TaskType
      BY <1>1 DEF TaskType
    <3>2. Len(calls) + 1 \in Nat
      BY <2>1
    <3>3. u \in TaskType
      BY <3>1, <3>2
    <3>4. QED
      BY <1>1, <3>3, NoneIsNoRecord DEF TaskType
  <2>3. tasks' = [tasks EXCEPT ![k] = u]
    BY <1>1, <1>12 DEF PlaceCall, TypeOK
  <2>4. new.key = k /\ new.session = f.session
    OBVIOUS
  <2>5. calls' = Append(calls, new) /\ UNCHANGED <<request, answer, entries, rows>>
    BY <1>12 DEF PlaceCall
  <2> HIDE DEF u, new
  <2>6. /\ tasks'[k] = u
        /\ \A j \in Keys \ {k} : tasks'[j] = tasks[j]
    BY <1>1, <2>3 DEF TypeOK
  <2>7. /\ DOMAIN calls' = DOMAIN calls \cup {Len(calls) + 1}
        /\ \A n \in DOMAIN calls : calls'[n] = calls[n]
        /\ calls'[Len(calls) + 1] = new
    BY <2>1, <2>5
  <2>8. t.stage = "post" /\ rows[k].state = "pending" /\ rows[k].fingerprint = f
    BY <1>1, <1>2, <1>12 DEF PlaceCall, At, TaskTruth
  <2>9. \A n, j, g : IsCallOf(n, j, g) => IsCallOf(n, j, g)'
    BY <2>7 DEF IsCallOf
  <2>10. \A j \in Keys \ {k} : NoCall(j) => NoCall(j)'
    BY <2>4, <2>7 DEF NoCall
  <2>11. TaskTruth(k)'
    <3>1. /\ Len(calls) + 1 \in DOMAIN calls'
          /\ calls'[Len(calls) + 1].key = k
          /\ calls'[Len(calls) + 1].session = f.session
      BY <2>4, <2>7
    <3>2. QED
      BY <2>2, <2>5, <2>6, <2>8, <3>1 DEF TaskTruth, IsCallOf
  <2>12. ASSUME NEW j \in Keys PROVE RowTruth(j)' /\ EntryTruth(j)'
    BY <2>5, <2>8, <2>9, <2>10 DEF Truth, RowTruth, EntryTruth, HasCall, IsFailed
  <2>13. ASSUME NEW j \in Keys \ {k} PROVE TaskTruth(j)'
    BY <2>5, <2>6, <2>9, <2>10 DEF Truth, TaskTruth, HasCall
  <2>14. ASSUME NEW d \in Requests PROVE AnswerTruth(d)'
    <3>1. AnswerTruth(d) /\ (request[d] # None => request[d].key \in Keys)
      BY <1>1 DEF Truth, TypeOK, RequestType
    <3>2. \A j \in Keys :
            tasks[j] # None => tasks'[j] # None
                                 /\ tasks'[j].fingerprint = tasks[j].fingerprint
      BY <2>2, <2>6
    <3>3. QED
      BY <2>5, <3>1, <3>2 DEF AnswerTruth, HasCall, IsFailed, Fingerprint
  <2>15. QED
    BY <2>11, <2>12, <2>13, <2>14 DEF Truth
<1>13. CASE Retry(k)
  <2> DEFINE u == [t EXCEPT !.stage = "post", !.attempt = t.attempt + 1]
  <2>1. t.stage = "post" /\ t.attempt + 1 \in 1 .. MaxAttempts
    BY <1>1, <1>13, CallsAssumption DEF Retry, NoCallTaken, AttemptLeft, At, TaskType
  <2>2. u \in TaskType /\ u.stage = "post" /\ u.fingerprint = f
    BY <1>1, <2>1 DEF TaskType
  <2>3. /\ tasks' = [tasks EXCEPT ![k] = u]
        /\ UNCHANGED <<request, answer, entries, rows, calls>>
    BY <1>1, <1>13 DEF Retry, TypeOK
  <2> HIDE DEF u
  <2>4. tasks'[k] = u
    BY <1>1, <2>3 DEF TypeOK
  <2>5. TaskTruth(k)'
    BY <1>1, <1>2, <2>1, <2>2, <2>3, <2>4 DEF TaskTruth
  <2>6. QED
    BY <1>1, <1>4, <1>5, <2>2, <2>3, <2>5, GoOnTrue
<1>14. ASSUME NEW v \in {"succeeded", "failed", "uncertain"},
              NEW c \in CallType \cup {None},
              Judged(k, v, c), t.stage \in {"post", "sent"},
              v = "succeeded" => IsCallOf(c.call, k, f),
              v = "failed" => NoCall(k)
       PROVE  Truth'
  <2> DEFINE u == [t EXCEPT !.stage = "record", !.verdict = v, !.result = c]
  <2>1. /\ u \in TaskType /\ u.stage = "record" /\ u.verdict = v /\ u.result = c
        /\ u.fingerprint = f
    BY <1>1 DEF TaskType
  <2>2. /\ tasks' = [tasks EXCEPT ![k] = u]
        /\ UNCHANGED <<request, answer, entries, rows, calls>>
    BY <1>1, <1>14 DEF Judged, TypeOK
  <2> HIDE DEF u
  <2>3. tasks'[k] = u
    BY <1>1, <2>2 DEF TypeOK
  <2>4. TaskTruth(k)'
    BY <1>1, <1>2, <1>14, <2>1, <2>2, <2>3 DEF TaskTruth, IsCallOf, NoCall
  <2>5. QED
    BY <1>1, <1>4, <1>5, <2>1, <2>2, <2>4, GoOnTrue
<1>15. CASE Refused(k)
  <2>1. t.stage = "post" /\ NoCall(k)
    BY <1>1, <1>15 DEF Refused, At, Inv, Placed, NoCall, Tasks
  <2>2. QED
    BY <1>14, <1>15, <2>1 DEF Refused
<1>16. CASE LoseAnswer(k)
  BY <1>14, <1>16 DEF LoseAnswer, LostVerdict, At
<1>17. CASE Accepted(k)
  <2>1. t.stage = "sent" /\ IsCallOf(t.call, k, f)
    BY <1>1, <1>2, <1>17 DEF Accepted, At, TaskTruth
  <2>2. t.call \in Nat \ {0}
    BY <1>1, <2>1 DEF TypeOK, IsCallOf
  <2>3. NewCall(t.call) \in CallType /\ NewCall(t.call).call = t.call
    BY <1>1, <2>2, NewCallTyped
  <2>4. QED
    BY <1>14, <1>17, <2>1, <2>3 DEF Accepted
<1>18. ASSUME At(k, "record"),
              rows' \in {rows, [rows EXCEPT ![k] = RecordedRow(k)]}, UNCHANGED calls
       PROVE  /\ RowKept(k)
              /\ RowTruth(k)'
              /\ \A j \in Keys \ {k} : rows'[j] = rows[j]
  <2> DEFINE row == RecordedRow(k)
  <2>1. /\ rows[k] \in RowType /\ rows[k] # None
        /\ rows[k].state = "pending" /\ rows[k].fingerprint = f
    BY <1>1, <1>2, <1>18, RecordedRowSound, NoneIsNoRecord DEF At, TaskTruth
  <2>2. row.state = t.verdict /\ row.result = t.result /\ row.fingerprint = f
    BY <2>1, PendingRowFinishes DEF RecordedRow
  <2>3. /\ t.verdict = "succeeded" => IsCallOf(t.result.call, k, f)
        /\ t.verdict = "failed" => NoCall(k)
    BY <1>1, <1>2, <1>18 DEF At, TaskTruth
  <2> HIDE DEF row
  <2>4. rows'[k] \in {rows[k], row} /\ \A j \in Keys \ {k} : rows'[j] = rows[j]
    BY <1>3, <1>18 DEF row
  <2>5. RowKept(k)
    BY <2>1 DEF RowKept, HasCall, IsFailed
  <2>6. RowTruth(k)'
    BY <1>18, <2>1, <2>2, <2>3, <2>4 DEF RowTruth, IsFailed, IsCallOf, NoCall
  <2>7. QED
    BY <2>4, <2>5, <2>6
<1>19. CASE Record(k)
  <2> DEFINE row == RecordedRow(k)
  <2>1. /\ At(k, "record") /\ rows' = [rows EXCEPT ![k] = row]
        /\ UNCHANGED <<request, entries, calls>>
    BY <1>19 DEF Record
  <2>2. /\ rows[k] \in RowType /\ row \in RowType
        /\ rows[k].state = "pending" /\ rows[k].fingerprint = f
    BY <1>1, <1>2, <2>1, RecordedRowSound DEF At, TaskTruth
  <2>3. row.state = t.verdict /\ row.result = t.result /\ row.fingerprint = f
    BY <2>2, PendingRowFinishes DEF RecordedRow
  <2>4. rows'[k] = row /\ row # None
    BY <1>3, <2>1, <2>2, NoneIsNoRecord
  <2>5. RowKept(k) /\ RowTruth(k)' /\ \A j \in Keys \ {k} : rows'[j] = rows[j]
    BY <1>18, <2>1
  <2> HIDE DEF row
  <2>6. CASE t.verdict = "succeeded"
    <3> DEFINE u == [t EXCEPT !.stage = "register"]
    <3>1. /\ u \in TaskType /\ u.stage = "register"
          /\ u.result = t.result /\ u.fingerprint = f
      BY <1>1 DEF TaskType
    <3>2. tasks' = [tasks EXCEPT ![k] = u] /\ UNCHANGED answer
      BY <1>19, <2>6 DEF Record
    <3> HIDE DEF u
    <3>3. tasks'[k] = u
      BY <1>1, <3>2 DEF TypeOK
    <3>4. TaskTruth(k)'
      BY <2>3, <2>4, <2>6, <3>1, <3>3 DEF TaskTruth, HasCall
    <3>5. QED
      BY <1>1, <1>5, <2>1, <2>5, <3>1, <3>2, <3>4, GoOnTrue
  <2>7. CASE t.verdict # "succeeded"
    <3>1. t.verdict \in {"failed", "uncertain"}
      BY <1>1, <2>1, <2>7 DEF At, Inv, Refers, Tasks, TaskType
    <3>2. End(k, [kind |-> t.verdict])
      BY <1>19, <2>7 DEF Record
    <3>3. CASE t.verdict = "uncertain"
      BY <1>6, <2>1, <2>5, <3>2, <3>3 DEF Refusals
    <3>4. CASE t.verdict = "failed"
      <4> DEFINE a == [kind |-> "failed"]
      <4>1. a \in AnswerType
        BY RefusalTyped DEF Refusals
      <4>2. a.kind = "failed" /\ End(k, a)
        BY <3>2, <3>4
      <4> HIDE DEF a
      <4>3. QED
        BY <1>1, <1>5, <2>1, <2>3, <2>4, <2>5, <3>4, <4>1, <4>2, EndTrue
    <3>5. QED
      BY <3>1, <3>3, <3>4
  <2>8. QED
    BY <2>6, <2>7
<1>20. CASE RecordFails(k)
  <2>1. /\ At(k, "record") /\ rows' \in {rows, [rows EXCEPT ![k] = RecordedRow(k)]}
        /\ UNCHANGED <<request, entries, calls>>
        /\ End(k, [kind |-> "uncertain"])
    BY <1>20 DEF RecordFails
  <2>2. QED
    BY <1>6, <1>18, <2>1 DEF Refusals
<1>21. CASE Register(k)
  <2> DEFINE a == Called(t.result.call)
             entry == [fingerprint |-> f, call |-> t.result]
  <2>1. t.stage = "register" /\ HasCall(k, t.result.call, f)
    BY <1>1, <1>2, <1>21 DEF Register, At, TaskTruth
  <2>2. t.result \in CallType
    BY <1>1, <1>21 DEF Register, At, Inv, Refers, Tasks, TaskType
  <2>3. a \in AnswerType /\ a.kind = "call" /\ a.call = t.result.call
    BY <2>2, CalledTyped DEF CallType, Called
  <2>4. /\ End(k, a)
        /\ entries' = [entries EXCEPT ![k] = entry]
        /\ UNCHANGED <<request, rows, calls>>
    BY <1>21 DEF Register
  <2>5. entry.fingerprint = f /\ entry.call.call = t.result.call
    OBVIOUS
  <2> HIDE DEF a, entry
  <2>6. entries'[k] = entry /\ \A j \in Keys \ {k} : entries'[j] = entries[j]
    BY <1>1, <2>4 DEF TypeOK
  <2>7. WillHaveCall(k, a.call, f)
    BY <2>1, <2>3, <2>4 DEF WillHaveCall, HasCall
  <2>8. EntryTruth(k)'
    BY <2>3, <2>5, <2>6, <2>7 DEF EntryTruth, HasCall, WillHaveCall
  <2>9. QED
    BY <1>1, <1>4, <2>3, <2>4, <2>6, <2>7, <2>8, EndTrue
<1>22. QED
  BY <1>7, <1>9, <1>10, <1>11, <1>12, <1>13, <1>15, <1>16, <1>17, <1>19, <1>20, <1>21
  DEF Step

\* A request that is answered at once, joins a task or starts one keeps the truth.
LEMMA AskTrue ==
  ASSUME Inv, Truth, NEW d \in Requests, NEW q \in RequestType,
         AskConflict(d, q) \/ AskKnown(d, q) \/ AskRefused(d, q) \/ AskWaits(d, q)
  PROVE  Truth'
<1> DEFINE fresh == [fingerprint |-> Fingerprint(q), stage |-> "reserve",
                     attempt |-> 1, call |-> 0, verdict |-> "none",
                     result |-> None]
<1>1. TypeOK /\ q.key \in Keys /\ q # None
  BY DEF Inv, RequestType, None
<1>2. /\ request[d] = None
      /\ request' = [request EXCEPT ![d] = q]
      /\ UNCHANGED <<entries, rows, calls>>
  BY DEF AskConflict, AskKnown, AskRefused, AskWaits, Ask
<1>3. /\ request'[d] = q
      /\ \A e \in Requests \ {d} : request'[e] = request[e]
  BY <1>1, <1>2 DEF TypeOK
<1>4. fresh.stage = "reserve" /\ fresh.fingerprint = Fingerprint(q) /\ fresh # None
  BY DEF None
<1>5. \/ tasks' = tasks
      \/ tasks[q.key] = None /\ tasks' = [tasks EXCEPT ![q.key] = fresh]
  BY <1>1 DEF AskConflict, AskKnown, AskRefused, AskWaits, Tasks
<1> HIDE DEF fresh
<1>6. \A j \in Keys :
        \/ tasks'[j] = tasks[j]
        \/ j = q.key /\ tasks[j] = None /\ tasks'[j] = fresh
  BY <1>1, <1>5 DEF TypeOK
<1>7. ASSUME NEW j \in Keys PROVE TaskTruth(j)' /\ RowTruth(j)' /\ EntryTruth(j)'
  <2>1. TaskTruth(j) /\ RowTruth(j) /\ EntryTruth(j)
    BY DEF Truth
  <2>2. TaskTruth(j)'
    BY <1>2, <1>4, <1>6, <2>1 DEF TaskTruth, HasCall, IsCallOf, NoCall
  <2>3. RowTruth(j)' /\ EntryTruth(j)'
    BY <1>2, <2>1 DEF RowTruth, EntryTruth, HasCall, IsFailed, IsCallOf, NoCall
  <2>4. QED
    BY <2>2, <2>3
<1>8. ASSUME NEW e \in Requests \ {d} PROVE AnswerTruth(e)'
  <2>1. AnswerTruth(e) /\ (request[e] # None => request[e].key \in Keys)
    BY <1>1 DEF Truth, TypeOK, RequestType
  <2>2. answer'[e] = answer[e]
    BY <1>1 DEF TypeOK, AskConflict, AskKnown, AskRefused, AskWaits, Ask
  <2>3. answer[e] = Waiting
          => /\ tasks'[request[e].key] # None
             /\ tasks'[request[e].key].fingerprint = Fingerprint(request[e])
    BY <1>6, <2>1 DEF AnswerTruth
  <2>4. QED
    BY <1>2, <1>3, <2>1, <2>2, <2>3
    DEF AnswerTruth, HasCall, IsFailed, Fingerprint, Waiting
<1>9. AnswerTruth(d)'
  <2>1. CASE AskKnown(d, q)
    <3>1. answer'[d] = Called(entries[q.key].call.call)
      BY <1>1, <2>1 DEF AskKnown, Ask, TypeOK
    <3>2. entries[q.key] # None /\ entries[q.key].fingerprint = Fingerprint(q)
      BY <2>1 DEF AskKnown, Conflicts, Entries
    <3>3. HasCall(q.key, entries[q.key].call.call, Fingerprint(q))
      BY <1>1, <3>2 DEF Truth, EntryTruth
    <3>4. /\ answer'[d].kind = "call"
          /\ answer'[d].call = entries[q.key].call.call
          /\ answer'[d] # Waiting
      BY <3>1 DEF Called, Waiting
    <3>5. QED
      BY <1>1, <1>2, <1>3, <3>3, <3>4 DEF AnswerTruth, HasCall, Fingerprint, Waiting
  <2>2. CASE AskWaits(d, q)
    <3>1. answer'[d] = Waiting /\ Waiting.kind = "waiting"
      BY <1>1, <2>2 DEF AskWaits, Ask, TypeOK, Waiting
    <3>2. tasks'[q.key] # None /\ tasks'[q.key].fingerprint = Fingerprint(q)
      <4>1. CASE q.key \in Tasks
        BY <1>1, <2>2, <4>1 DEF AskWaits, Conflicts, Tasks
      <4>2. CASE q.key \notin Tasks
        <5>1. tasks' = [tasks EXCEPT ![q.key] = fresh]
          BY <2>2, <4>2 DEF AskWaits, fresh
        <5>2. QED
          BY <1>1, <1>4, <5>1 DEF TypeOK
      <4>3. QED
        BY <4>1, <4>2
    <3>3. QED
      BY <1>1, <1>3, <3>1, <3>2 DEF AnswerTruth, Fingerprint, Waiting
  <2>3. CASE AskConflict(d, q) \/ AskRefused(d, q)
    <3>1. answer'[d].kind \in {"conflict", "unauthorized", "full"}
      BY <1>1, <2>3 DEF AskConflict, AskRefused, Ask, TypeOK
    <3>2. QED
      BY <3>1 DEF AnswerTruth, Waiting
  <2>4. QED
    BY <2>1, <2>2, <2>3
<1>10. QED
  BY <1>7, <1>8, <1>9 DEF Truth

\* A callback keeps the truth.
LEMMA ObserveTrue ==
  ASSUME Inv, SessionsApart, Truth, NEW k \in Entries,
         NEW i \in DOMAIN calls[entries[k].call.call].events,
         ObserveStatus(k, i) \/ ObserveFails(k, i)
  PROVE  Truth'
<1> DEFINE c == entries[k].call
           new == Observed(c, i)
           at == calls[c.call].events[i].at
           row == ObservedRow(k, i)
           entry == [entries[k] EXCEPT !.call = new]
<1>1. /\ TypeOK /\ k \in Keys /\ entries[k] \in EntryType /\ entries[k] # None
      /\ tasks[k] = None
  BY DEF Inv, TypeOK, SessionsApart, Tasks, Entries
<1>2. c \in CallType /\ c.call \in DOMAIN calls
  BY <1>1 DEF Inv, Refers, EntryType
<1>3. new \in CallType /\ new.call = c.call
  BY <1>2, ObservedTyped DEF Inv
<1>4. /\ rows[k] \in RowType /\ rows[k].state = "succeeded"
      /\ rows[k].result.call = c.call
      /\ rows[k].fingerprint = entries[k].fingerprint
  BY <1>1 DEF Truth, EntryTruth, HasCall, TypeOK
<1>5. row = Finished(rows[k], "succeeded", new, at)
  BY DEF ObservedRow
<1>6. entry.fingerprint = entries[k].fingerprint /\ entry.call = new
  BY <1>1 DEF EntryType
<1>7. /\ UNCHANGED <<request, answer, tasks, calls>>
      /\ rows' = [rows EXCEPT ![k] = row]
      /\ entries' \in {entries, [entries EXCEPT ![k] = entry]}
  BY DEF ObserveStatus, ObserveFails
<1> HIDE DEF new, at, row, entry
<1>8. row.state = "succeeded" /\ row.result.call = c.call
        /\ row.fingerprint = rows[k].fingerprint
  BY <1>3, <1>4, <1>5, FinalRowStays
<1>9. row # None
  <2>1. at \in Nat
    <3>1. calls[c.call] \in PlacedType
      BY <1>1, <1>2 DEF TypeOK
    <3>2. calls[c.call].events[i] \in EventType
      BY <3>1 DEF PlacedType
    <3>3. QED
      BY <3>2 DEF EventType, at
  <2>2. row \in RowType
    BY <1>3, <1>4, <1>5, <2>1, FinishedTyped
  <2>3. QED
    BY <2>2, NoneIsNoRecord
<1>10. /\ rows'[k] = row
       /\ \A j \in Keys \ {k} : rows'[j] = rows[j] /\ entries'[j] = entries[j]
       /\ entries'[k] \in {entries[k], entry}
  BY <1>1, <1>7 DEF TypeOK
<1>11. RowKept(k)
  BY <1>4, <1>8, <1>9, <1>10 DEF RowKept, HasCall, IsFailed
<1>12. RowTruth(k)'
  <2>1. IsCallOf(rows[k].result.call, k, rows[k].fingerprint)
    BY <1>1, <1>4, NoneIsNoRecord DEF Truth, RowTruth
  <2>2. QED
    BY <1>4, <1>7, <1>8, <1>10, <2>1 DEF RowTruth, IsFailed, IsCallOf
<1>13. EntryTruth(k)'
  BY <1>3, <1>4, <1>6, <1>8, <1>9, <1>10 DEF EntryTruth, HasCall
<1>14. TaskTruth(k)'
  BY <1>1, <1>7 DEF TaskTruth
<1>15. \A d \in Requests :
         /\ answer'[d] = answer[d]
         /\ answer[d] = Waiting /\ request[d].key = k => tasks[k] # None
  BY <1>7 DEF Truth, AnswerTruth
<1>16. QED
  BY <1>1, <1>7, <1>10, <1>11, <1>12, <1>13, <1>14, <1>15, KeyStep

\* A restart, the clock and the provider keep the truth.
LEMMA RestTrue ==
  ASSUME Inv, Truth,
         \/ Restart
         \/ \E n \in DOMAIN calls, status \in Statuses : Progress(n, status)
         \/ Tick
         \/ UNCHANGED vars
  PROVE  Truth'
<1>1. CASE Restart
  <2>1. /\ \A k \in Keys : tasks'[k] = None /\ entries'[k] = None
        /\ UNCHANGED <<request, rows, calls>>
    BY <1>1 DEF Restart
  <2>2. \A k \in Keys : TaskTruth(k)' /\ EntryTruth(k)'
    BY <2>1 DEF TaskTruth, EntryTruth
  <2>3. \A k \in Keys : RowTruth(k)'
    BY <2>1 DEF Truth, RowTruth, IsFailed, NoCall, IsCallOf
  <2>4. ASSUME NEW d \in Requests PROVE AnswerTruth(d)'
    <3>1. \/ answer[d] # Waiting /\ answer'[d] = answer[d]
          \/ answer'[d] = [kind |-> "lost"]
      BY <1>1 DEF Restart
    <3>2. AnswerTruth(d)
      BY DEF Truth
    <3>3. CASE answer[d] # Waiting /\ answer'[d] = answer[d]
      BY <2>1, <3>2, <3>3 DEF AnswerTruth, HasCall, IsFailed, Fingerprint, Waiting
    <3>4. CASE answer'[d] = [kind |-> "lost"]
      BY <3>4 DEF AnswerTruth, Waiting
    <3>5. QED
      BY <3>1, <3>3, <3>4
  <2>5. QED
    BY <2>2, <2>3, <2>4 DEF Truth
<1>2. CASE \/ \E n \in DOMAIN calls, status \in Statuses : Progress(n, status)
           \/ Tick
           \/ UNCHANGED vars
  <2>1. UNCHANGED <<request, answer, tasks, entries, rows>>
    BY <1>2 DEF Progress, Tick, vars
  <2>2. /\ DOMAIN calls' = DOMAIN calls
        /\ \A n \in DOMAIN calls :
             calls'[n].key = calls[n].key /\ calls'[n].session = calls[n].session
    <3>1. ASSUME NEW n \in DOMAIN calls, NEW status \in Statuses, Progress(n, status)
          PROVE  /\ DOMAIN calls' = DOMAIN calls
                 /\ \A m \in DOMAIN calls :
                      /\ calls'[m].key = calls[m].key
                      /\ calls'[m].session = calls[m].session
      <4>1. calls \in Seq(PlacedType) /\ calls[n] \in PlacedType
        BY DEF Inv, TypeOK
      <4>2. \A events : LET c == [calls[n] EXCEPT !.events = events]
                        IN c.key = calls[n].key /\ c.session = calls[n].session
        BY <4>1 DEF PlacedType
      <4>3. PICK events : calls' = [calls EXCEPT ![n] = [calls[n] EXCEPT !.events = events]]
        BY <3>1 DEF Progress
      <4>4. QED
        BY <4>1, <4>2, <4>3
    <3>2. QED
      BY <1>2, <3>1 DEF Tick, vars
  <2>3. /\ \A n, k, f : IsCallOf(n, k, f) => IsCallOf(n, k, f)'
        /\ \A k : NoCall(k) => NoCall(k)'
    BY <2>2 DEF IsCallOf, NoCall
  <2>4. \A k \in Keys : TaskTruth(k)' /\ RowTruth(k)' /\ EntryTruth(k)'
    BY <2>1, <2>3 DEF Truth, TaskTruth, RowTruth, EntryTruth, HasCall, IsFailed
  <2>5. \A d \in Requests : AnswerTruth(d)'
    BY <2>1 DEF Truth, AnswerTruth, HasCall, IsFailed, Fingerprint, Waiting
  <2>6. QED
    BY <2>4, <2>5 DEF Truth
<1>3. QED
  BY <1>1, <1>2

\* Tasks, rows, entries and answers tell the truth in every reachable state.
LEMMA TruthInvariance == Spec => []Truth
<1>1. Init => Truth
  BY DEF Init, Truth, TaskTruth, RowTruth, EntryTruth, AnswerTruth, IsFailed, HasCall,
         Waiting, None
<1>2. Inv /\ SessionsApart /\ Truth /\ [Next]_vars => Truth'
  BY AskTrue, StepTrue, ObserveTrue, RestTrue DEF Next
<1>3. QED
  BY <1>1, <1>2, Invariance, SessionsStayApart, PTL DEF Spec

\* A key that failed, by its row or by an answer, has no call and gets none.
THEOREM FailureInvariant == Spec => []FailureIsDefinitive
<1>1. Inv /\ Truth => FailureIsDefinitive
  <2> SUFFICES ASSUME Inv, Truth, NEW n \in DOMAIN calls
               PROVE  /\ rows[calls[n].key] # None
                           => rows[calls[n].key].state # "failed"
                      /\ \A d \in Requests :
                           answer[d].kind = "failed" => request[d].key # calls[n].key
    BY DEF FailureIsDefinitive
  <2>1. calls[n].key \in Keys
    <3>1. calls[n] \in PlacedType
      BY DEF Inv, TypeOK
    <3>2. QED
      BY <3>1 DEF PlacedType
  <2>2. ~IsFailed(calls[n].key)
    BY <2>1 DEF Truth, RowTruth, NoCall
  <2>3. QED
    BY <2>2 DEF Truth, AnswerTruth, IsFailed
<1>2. QED
  BY <1>1, Invariance, TruthInvariance, PTL

\* Every answered call is the one its key placed, for the session asked for.
THEOREM AnswersInvariant == Spec => []AnswersAgree
<1>1. Inv /\ Truth => AnswersAgree
  <2> SUFFICES ASSUME Inv, Truth, NEW d \in Requests, answer[d].kind = "call"
               PROVE  /\ answer[d].call \in DOMAIN calls
                      /\ calls[answer[d].call].key = request[d].key
                      /\ calls[answer[d].call].session = request[d].session
    BY DEF AnswersAgree
  <2>1. /\ request[d] \in RequestType
        /\ HasCall(request[d].key, answer[d].call, Fingerprint(request[d]))
    BY DEF Inv, TypeOK, Truth, AnswerTruth
  <2>2. request[d].key \in Keys
    BY <2>1 DEF RequestType
  <2>3. IsCallOf(answer[d].call, request[d].key, Fingerprint(request[d]))
    BY <2>1, <2>2 DEF Truth, RowTruth, HasCall
  <2>4. QED
    BY <2>3 DEF IsCallOf, Fingerprint
<1>2. QED
  BY <1>1, Invariance, TruthInvariance, PTL

\* Every answered or registered call is in the database, for a replay to find.
THEOREM RecordedInvariant == Spec => []AnsweredCallsAreRecorded
<1>1. Truth => AnsweredCallsAreRecorded
  BY DEF Truth, AnswersAgree, AnsweredCallsAreRecorded, AnswerTruth, EntryTruth,
         HasCall, Entries
<1>2. QED
  BY <1>1, TruthInvariance, PTL

\* Every answered call is the one asked for, and is found again by a replay.
THEOREM AnswersAreKeptAlways == Spec => []AnswersAreKept
BY AnswersInvariant, RecordedInvariant, PTL DEF AnswersAreKept
-----------------------------------------------------------------------------
(* Statuses.                                                               *)

\* The events of a call raise its status.
Rising ==
  \A n \in DOMAIN calls : \A i, j \in DOMAIN calls[n].events :
    i < j => StatusOrder(calls[n].events[i].status) < StatusOrder(calls[n].events[j].status)

\* What the process or the database holds of a key says c of its call.
Carries(k, c) ==
  \/ tasks[k] # None /\ c = tasks[k].result
  \/ entries[k] # None /\ c = entries[k].call
  \/ rows[k] # None /\ c = rows[k].result

\* c names a placed call, and events it has had.
Told(c) ==
  /\ c.call \in DOMAIN calls
  /\ c.cursor \in 0 .. Len(calls[c.call].events)
  /\ TellsNewest(c)

AllTold == \A k \in Keys : \A c \in CallType : Carries(k, c) => Told(c)

\* The events of a placed call are typed.
LEMMA EventsTyped ==
  ASSUME TypeOK, NEW n \in DOMAIN calls
  PROVE  /\ calls[n] \in PlacedType
         /\ calls[n].events \in Seq(EventType)
         /\ Len(calls[n].events) \in Nat
         /\ DOMAIN calls[n].events = 1 .. Len(calls[n].events)
         /\ \A i \in DOMAIN calls[n].events : calls[n].events[i].status \in Statuses
<1>1. calls[n] \in PlacedType
  BY DEF TypeOK
<1>2. calls[n].events \in Seq(EventType)
  BY <1>1 DEF PlacedType
<1>3. \A i \in DOMAIN calls[n].events : calls[n].events[i] \in EventType
  BY <1>2
<1>4. QED
  BY <1>1, <1>2, <1>3 DEF EventType

\* An event after the cursor has a higher status, so that the call takes it.
LEMMA ObservedTold ==
  ASSUME TypeOK, Rising, NEW c \in CallType, Told(c),
         NEW i \in DOMAIN calls[c.call].events
  PROVE  Told(Observed(c, i))
<1> DEFINE events == calls[c.call].events
           e == events[i]
           status == NextStatus(c.status, e.status)
           since == IF status # c.status /\ e.at > c.since THEN e.at ELSE c.since
           new == [c EXCEPT !.status = status, !.since = since,
                            !.cursor = i, !.seen = @ \cup {i}]
<1>1. /\ DOMAIN events = 1 .. Len(events) /\ Len(events) \in Nat
      /\ \A j \in DOMAIN events : events[j].status \in Statuses
  BY EventsTyped DEF Told
<1>2. CASE i <= c.cursor
  BY <1>2 DEF Observed
<1>3. CASE ~(i <= c.cursor)
  <2>1. /\ c.cursor \in 0 .. Len(events) /\ c.cursor < i /\ i \in Nat
        /\ \A j \in c.seen : j <= c.cursor
        /\ c.status = IF c.cursor = 0 THEN "queued" ELSE events[c.cursor].status
    BY <1>1, <1>3 DEF Told, TellsNewest
  <2>2. status = e.status
    <3>1. CASE c.cursor = 0
      BY <1>1, <2>1, <3>1 DEF NextStatus, IsTerminal, StatusOrder, Statuses
    <3>2. CASE c.cursor # 0
      <4>1. c.cursor \in DOMAIN events
        BY <1>1, <2>1, <3>2
      <4>2. StatusOrder(c.status) < StatusOrder(e.status) /\ c.status \in Statuses
        BY <1>1, <2>1, <3>2, <4>1 DEF Rising, Told
      <4>3. e.status \in Statuses
        BY <1>1
      <4> HIDE DEF e, events
      <4>4. QED
        BY <4>2, <4>3 DEF NextStatus, IsTerminal, StatusOrder, Statuses
    <3>3. QED
      BY <3>1, <3>2
  <2>3. Observed(c, i) = new
    BY <1>3 DEF Observed
  <2> HIDE DEF status, since
  <2>4. /\ new.call = c.call /\ new.status = status /\ new.cursor = i
        /\ new.seen = c.seen \cup {i}
    BY DEF CallType
  <2>5. \A j \in new.seen : j <= new.cursor
    <3>1. c.seen \subseteq Nat /\ c.cursor \in Nat
      BY DEF CallType
    <3>2. QED
      BY <2>1, <2>4, <3>1
  <2>6. new.cursor # 0 /\ new.cursor \in 0 .. Len(events)
    BY <1>1, <2>1, <2>4
  <2> HIDE DEF new
  <2>7. QED
    BY <2>2, <2>3, <2>4, <2>5, <2>6 DEF Told, TellsNewest
<1>4. QED
  BY <1>2, <1>3

\* A step of a task hands on what its key carries, or makes a new call of an answer.
LEMMA StepCarries ==
  ASSUME Inv, NEW k \in Keys, Step(k), NEW j \in Keys, NEW c \in CallType, Carries(j, c)'
  PROVE  Carries(j, c) \/ (At(j, "sent") /\ c = NewCall(tasks[j].call))
<1> DEFINE Goal == Carries(j, c) \/ (At(j, "sent") /\ c = NewCall(tasks[j].call))
<1>1. TypeOK /\ c # None /\ k \in Tasks /\ tasks[k] \in TaskType /\ tasks[k] # None
  BY NoneIsNoRecord DEF Inv, TypeOK, Tasks, Step, At, RefuseUnauthorized, Reserve, Replay,
     ReserveFails, PlaceCall, NoCallTaken, Retry, Refused, LoseAnswer, Accepted, Record,
     RecordFails, Register
<1>2. ASSUME \/ tasks'[j] = None
             \/ tasks[j] # None /\ tasks'[j].result \in {None, tasks[j].result}
             \/ rows[j] # None /\ tasks'[j].result = rows[j].result
             \/ At(j, "sent") /\ tasks'[j].result = NewCall(tasks[j].call),
             \/ entries'[j] = entries[j]
             \/ tasks[j] # None /\ entries'[j].call = tasks[j].result,
             \/ rows'[j] = rows[j]
             \/ rows'[j].result = None
             \/ rows[j] # None /\ rows'[j].result = rows[j].result
             \/ tasks[j] # None /\ rows'[j].result = tasks[j].result
      PROVE  Goal
  BY <1>1, <1>2 DEF Carries
<1>3. ASSUME NEW a, End(k, a) PROVE tasks'[j] \in {None, tasks[j]}
  BY <1>1, <1>3 DEF End, TypeOK
<1>4. rows[k] # None => RecordedRow(k).result \in {rows[k].result, tasks[k].result}
  <2>1. ASSUME rows[k] # None PROVE rows[k] \in RowType
    BY <1>1, <2>1 DEF TypeOK
  <2>2. QED
    BY <2>1 DEF RecordedRow, Finished, RowType
<1>5. CASE RefuseUnauthorized(k)
  BY <1>1, <1>2, <1>3, <1>5 DEF RefuseUnauthorized
<1>6. CASE Reserve(k)
  <2>1. tasks'[j] # None /\ tasks[j] # None => tasks'[j].result = tasks[j].result
    BY <1>1, <1>6 DEF Reserve, TypeOK, TaskType
  <2>2. tasks'[j] # None => tasks[j] # None
    BY <1>1, <1>6 DEF Reserve, TypeOK
  <2>3. rows'[j] = rows[j] \/ rows'[j].result = None
    BY <1>1, <1>6 DEF Reserve, TypeOK, PendingRow
  <2>4. QED
    BY <1>2, <1>6, <2>1, <2>2, <2>3 DEF Reserve
<1>7. CASE Replay(k)
  <2>1. UNCHANGED <<entries, rows>> /\ rows[k] # None
    BY <1>7 DEF Replay
  <2>2. \/ \E a : End(k, a)
        \/ tasks' = [tasks EXCEPT ![k].stage = "register", ![k].result = rows[k].result]
    BY <1>7 DEF Replay
  <2>3. CASE \E a : End(k, a)
    BY <1>2, <1>3, <2>1, <2>3
  <2>4. CASE tasks' = [tasks EXCEPT ![k].stage = "register", ![k].result = rows[k].result]
    <3>1. IF j = k THEN tasks'[j].result = rows[k].result ELSE tasks'[j] = tasks[j]
      BY <1>1, <2>4 DEF TypeOK, TaskType
    <3>2. QED
      BY <1>2, <2>1, <3>1
  <2>5. QED
    BY <2>2, <2>3, <2>4
<1>8. CASE ReserveFails(k)
  <2>1. rows'[j] = rows[j] \/ rows'[j].result = None
    BY <1>1, <1>8 DEF ReserveFails, TypeOK, PendingRow
  <2>2. QED
    BY <1>2, <1>3, <1>8, <2>1 DEF ReserveFails
<1>9. CASE PlaceCall(k) \/ Retry(k)
  <2>1. UNCHANGED <<entries, rows>>
    BY <1>9 DEF PlaceCall, Retry
  <2>2. IF j = k THEN tasks'[j].result = tasks[j].result ELSE tasks'[j] = tasks[j]
    <3>1. CASE PlaceCall(k)
      BY <1>1, <3>1 DEF PlaceCall, TypeOK, TaskType
    <3>2. CASE Retry(k)
      <4>1. PICK attempt : tasks' = [tasks EXCEPT ![k].stage = "post", ![k].attempt = attempt]
        BY <3>2 DEF Retry
      <4>2. QED
        BY <1>1, <4>1 DEF TypeOK, TaskType
    <3>3. QED
      BY <1>9, <3>1, <3>2
  <2>3. QED
    BY <1>1, <1>2, <2>1, <2>2
<1>10. CASE Refused(k) \/ LoseAnswer(k) \/ Accepted(k)
  <2>1. PICK verdict, result :
          /\ Judged(k, verdict, result)
          /\ result = None \/ (At(k, "sent") /\ result = NewCall(tasks[k].call))
    BY <1>10 DEF Refused, LoseAnswer, Accepted
  <2>2. UNCHANGED <<entries, rows>>
    BY <2>1 DEF Judged
  <2>3. IF j = k THEN tasks'[j].result = result ELSE tasks'[j] = tasks[j]
    BY <1>1, <2>1 DEF Judged, TypeOK, TaskType
  <2>4. QED
    BY <1>1, <1>2, <2>1, <2>2, <2>3
<1>11. CASE Record(k) \/ RecordFails(k)
  <2>1. UNCHANGED entries /\ At(k, "record")
    BY <1>11 DEF Record, RecordFails
  <2>2. rows[k] # None
    BY <2>1 DEF Inv, Reserved, At
  <2>3. \/ rows'[j] = rows[j]
        \/ rows[j] # None /\ tasks[j] # None /\ rows'[j].result \in {rows[j].result, tasks[j].result}
    BY <1>1, <1>4, <1>11, <2>2 DEF Record, RecordFails, TypeOK
  <2>4. \/ tasks'[j] = None
        \/ tasks[j] # None /\ tasks'[j].result = tasks[j].result
    <3>1. CASE \E a : End(k, a)
      BY <1>3, <3>1
    <3>2. CASE tasks' = [tasks EXCEPT ![k].stage = "register"]
      BY <1>1, <3>2 DEF TypeOK, TaskType
    <3>3. QED
      BY <1>11, <3>1, <3>2 DEF Record, RecordFails
  <2>5. QED
    BY <1>2, <2>1, <2>3, <2>4
<1>12. CASE Register(k)
  <2>1. /\ UNCHANGED rows
        /\ entries'[j] = entries[j] \/ (j = k /\ entries'[j].call = tasks[j].result)
    BY <1>1, <1>12 DEF Register, TypeOK
  <2>2. tasks'[j] \in {None, tasks[j]}
    BY <1>3, <1>12 DEF Register
  <2>3. QED
    BY <1>1, <1>2, <2>1, <2>2
<1>13. QED
  BY <1>5, <1>6, <1>7, <1>8, <1>9, <1>10, <1>11, <1>12 DEF Step

\* What told the newest event goes on to tell it while calls only gain events.
LEMMA ToldGoesOn ==
  ASSUME TypeOK, NEW c \in CallType, Told(c),
         DOMAIN calls \subseteq DOMAIN calls',
         calls'[c.call].events = calls[c.call].events
         \/ \E e : calls'[c.call].events = Append(calls[c.call].events, e)
  PROVE  Told(c)'
<1> DEFINE events == calls[c.call].events
<1>1. DOMAIN events = 1 .. Len(events) /\ Len(events) \in Nat /\ events \in Seq(EventType)
  BY EventsTyped DEF Told
<1>2. CASE calls'[c.call].events = calls[c.call].events
  BY <1>2 DEF Told, TellsNewest
<1>3. CASE \E e : calls'[c.call].events = Append(events, e)
  <2>1. PICK e : calls'[c.call].events = Append(events, e)
    BY <1>3
  <2>2. /\ Len(calls'[c.call].events) = Len(events) + 1
        /\ \A i \in 1 .. Len(events) : calls'[c.call].events[i] = events[i]
    BY <1>1, <2>1
  <2>3. c.cursor \in 0 .. Len(events)
    BY DEF Told
  <2>4. c.cursor \in 0 .. Len(calls'[c.call].events)
    BY <1>1, <2>2, <2>3
  <2>5. c.cursor # 0 => calls'[c.call].events[c.cursor] = events[c.cursor]
    BY <1>1, <2>2, <2>3
  <2>6. QED
    BY <2>4, <2>5 DEF Told, TellsNewest
<1>4. QED
  BY <1>2, <1>3

\* What a step does to the calls: one more, one more event, or nothing.
LEMMA CallsGrow ==
  ASSUME Inv, [Next]_vars
  PROVE  \/ UNCHANGED calls
         \/ \E k \in Keys : PlaceCall(k)
         \/ \E n \in DOMAIN calls, status \in Statuses : Progress(n, status)
BY DEF Next, Step, vars, AskConflict, AskKnown, AskRefused, AskWaits, Ask, RefuseUnauthorized,
   Reserve, Replay, ReserveFails, Retry, Refused, LoseAnswer, Accepted, Judged, Record,
   RecordFails, Register, ObserveStatus, ObserveFails, Restart, Tick

\* Calls gain events of rising status, and lose none.
LEMMA RisingStep ==
  ASSUME Inv, Rising, [Next]_vars
  PROVE  /\ Rising'
         /\ DOMAIN calls \subseteq DOMAIN calls'
         /\ \A n \in DOMAIN calls :
              \/ calls'[n].events = calls[n].events
              \/ \E e : calls'[n].events = Append(calls[n].events, e)
<1>1. TypeOK /\ calls \in Seq(PlacedType) /\ Len(calls) \in Nat /\ DOMAIN calls = 1 .. Len(calls)
  BY DEF Inv, TypeOK
<1>2. CASE UNCHANGED calls
  BY <1>2 DEF Rising
<1>3. ASSUME NEW k \in Keys, PlaceCall(k)
      PROVE  /\ Rising'
             /\ DOMAIN calls \subseteq DOMAIN calls'
             /\ \A n \in DOMAIN calls : calls'[n].events = calls[n].events
  <2>1. PICK new : new = [key |-> k, session |-> tasks[k].fingerprint.session, events |-> <<>>]
    OBVIOUS
  <2>2. calls' = Append(calls, new) /\ new.events = <<>>
    BY <1>3, <2>1 DEF PlaceCall
  <2>3. /\ DOMAIN calls' = 1 .. Len(calls) + 1
        /\ \A n \in 1 .. Len(calls) : calls'[n] = calls[n]
        /\ calls'[Len(calls) + 1] = new
    BY <1>1, <2>2
  <2>4. DOMAIN new.events = {}
    BY <2>2
  <2>5. ASSUME NEW n \in DOMAIN calls', NEW i \in DOMAIN calls'[n].events
        PROVE  n \in DOMAIN calls /\ calls'[n] = calls[n]
    BY <1>1, <2>3, <2>4, <2>5
  <2>6. QED
    BY <1>1, <2>3, <2>5 DEF Rising
<1>4. ASSUME NEW n \in DOMAIN calls, NEW status \in Statuses, Progress(n, status)
      PROVE  /\ Rising'
             /\ DOMAIN calls' = DOMAIN calls
             /\ \A m \in DOMAIN calls :
                  \/ calls'[m].events = calls[m].events
                  \/ \E e : calls'[m].events = Append(calls[m].events, e)
  <2> DEFINE events == calls[n].events
             e == [status |-> status, at |-> now]
             grown == Append(events, e)
  <2>1. /\ calls[n] \in PlacedType /\ events \in Seq(EventType) /\ Len(events) \in Nat
        /\ DOMAIN events = 1 .. Len(events)
        /\ \A i \in DOMAIN events : events[i].status \in Statuses
    BY <1>1, EventsTyped
  <2>2. StatusOrder(status) > StatusOrder(LastStatus(n))
    BY <1>4 DEF Progress
  <2>3. e \in EventType
    BY <1>1 DEF EventType, TypeOK
  <2>4. \A i \in DOMAIN events : StatusOrder(events[i].status) < StatusOrder(status)
    <3>1. ASSUME NEW i \in DOMAIN events
          PROVE  /\ LastStatus(n) = events[Len(events)].status
                 /\ Len(events) \in DOMAIN events
                 /\ i = Len(events) \/ i < Len(events)
      BY <2>1 DEF LastStatus
    <3>2. ASSUME NEW i \in DOMAIN events
          PROVE  StatusOrder(events[i].status) <= StatusOrder(LastStatus(n))
      BY <2>1, <3>1 DEF Rising, StatusOrder, Statuses
    <3>3. ASSUME NEW i \in DOMAIN events PROVE LastStatus(n) \in Statuses
      BY <2>1, <3>1
    <3>4. QED
      BY <2>1, <2>2, <3>2, <3>3 DEF StatusOrder, Statuses
  <2>5. e.status = status
    OBVIOUS
  <2>6. calls' = [calls EXCEPT ![n].events = grown]
    BY <1>4 DEF Progress
  <2> HIDE DEF e
  <2>7. /\ Len(grown) = Len(events) + 1 /\ DOMAIN grown = 1 .. Len(events) + 1
        /\ \A i \in 1 .. Len(events) : grown[i] = events[i]
        /\ grown[Len(events) + 1] = e
    BY <2>1, <2>3
  <2>8. /\ DOMAIN calls' = DOMAIN calls
        /\ calls'[n].events = grown
        /\ \A m \in DOMAIN calls \ {n} : calls'[m] = calls[m]
    BY <1>1, <2>1, <2>6 DEF PlacedType
  <2>9. ASSUME NEW i \in DOMAIN grown, NEW j \in DOMAIN grown, i < j
        PROVE  StatusOrder(grown[i].status) < StatusOrder(grown[j].status)
    <3>1. i \in DOMAIN events /\ grown[i] = events[i]
      BY <2>1, <2>7, <2>9
    <3>2. CASE j \in DOMAIN events
      BY <2>1, <2>7, <2>9, <3>1, <3>2 DEF Rising
    <3>3. CASE j = Len(events) + 1
      BY <2>4, <2>5, <2>7, <3>1, <3>3
    <3>4. QED
      BY <2>1, <2>7, <3>2, <3>3
  <2> HIDE DEF grown
  <2>10. Rising'
    BY <2>8, <2>9 DEF Rising
  <2>11. QED
    BY <2>8, <2>10 DEF grown
<1>5. QED
  BY <1>2, <1>3, <1>4, CallsGrow

\* Whatever a step carries tells the newest event it was told of.
LEMMA AllToldStep ==
  ASSUME Inv, Rising, AllTold, [Next]_vars
  PROVE  AllTold'
<1> SUFFICES ASSUME NEW k \in Keys, NEW c \in CallType, Carries(k, c)' PROVE Told(c)'
  BY DEF AllTold
<1>1. TypeOK /\ None \notin CallType
  BY NoneIsNoRecord DEF Inv
<1>2. ASSUME Told(c) PROVE Told(c)'
  <2>1. c.call \in DOMAIN calls
    BY <1>2 DEF Told
  <2>2. /\ DOMAIN calls \subseteq DOMAIN calls'
        /\ \/ calls'[c.call].events = calls[c.call].events
           \/ \E e : calls'[c.call].events = Append(calls[c.call].events, e)
    BY <2>1, RisingStep
  <2>3. QED
    BY <1>1, <1>2, <2>2, ToldGoesOn
<1>3. ASSUME Carries(k, c) PROVE Told(c)'
  BY <1>2, <1>3 DEF AllTold
<1>4. ASSUME NEW j \in Keys, Step(j) PROVE Told(c)'
  <2>1. CASE At(k, "sent") /\ c = NewCall(tasks[k].call)
    <3>1. tasks[k].call \in DOMAIN calls
      BY <2>1 DEF Inv, Refers, At
    <3>2. c.call = tasks[k].call /\ c.cursor = 0 /\ c.status = "queued" /\ c.seen = {}
      BY <2>1 DEF NewCall
    <3>3. Told(c)
      BY <1>1, <3>1, <3>2, EventsTyped DEF Told, TellsNewest
    <3>4. QED
      BY <1>2, <3>3
  <2>2. QED
    BY <1>3, <1>4, <2>1, StepCarries
<1>5. ASSUME NEW j \in Entries, NEW i \in DOMAIN calls[entries[j].call.call].events,
             ObserveStatus(j, i) \/ ObserveFails(j, i)
      PROVE  Told(c)'
  <2> DEFINE new == Observed(entries[j].call, i)
  <2>1. j \in Keys /\ entries[j] # None /\ entries[j] \in EntryType /\ entries[j].call \in CallType
    BY <1>1 DEF Entries, TypeOK, EntryType
  <2>2. Told(entries[j].call)
    BY <2>1 DEF AllTold, Carries
  <2>3. Told(new) /\ new \in CallType
    BY <1>1, <2>1, <2>2, ObservedTold, ObservedTyped DEF Told
  <2>4. rows[j] # None /\ rows[j] \in RowType
    BY <1>1, <2>1 DEF Inv, Reserved, TypeOK
  <2>5. ObservedRow(j, i).result \in {rows[j].result, new}
    BY <2>4 DEF ObservedRow, Finished, RowType
  <2>6. UNCHANGED tasks /\ rows' = [rows EXCEPT ![j] = ObservedRow(j, i)]
    BY <1>5 DEF ObserveStatus, ObserveFails
  <2> HIDE DEF new
  <2>7. entries'[k] = entries[k] \/ (k = j /\ entries'[k].call = new)
    BY <1>1, <1>5, <2>1 DEF ObserveStatus, ObserveFails, TypeOK, EntryType, new
  <2>8. rows'[k] = rows[k] \/ (k = j /\ rows'[k].result \in {rows[k].result, new})
    BY <1>1, <2>1, <2>5, <2>6 DEF TypeOK
  <2>9. Carries(k, c) \/ c = new
    BY <2>1, <2>4, <2>6, <2>7, <2>8 DEF Carries
  <2>10. QED
    BY <1>2, <1>3, <2>3, <2>9
<1>6. ASSUME NEW d \in Requests, NEW q \in RequestType,
             AskConflict(d, q) \/ AskKnown(d, q) \/ AskRefused(d, q) \/ AskWaits(d, q)
      PROVE  Told(c)'
  <2>1. UNCHANGED <<entries, rows>>
    BY <1>6 DEF AskConflict, AskKnown, AskRefused, AskWaits, Ask
  <2>2. tasks'[k] = tasks[k] \/ tasks'[k].result = None
    <3>1. CASE UNCHANGED tasks
      BY <3>1
    <3>2. CASE AskWaits(d, q) /\ ~UNCHANGED tasks
      <4>1. PICK new : /\ tasks' = [tasks EXCEPT ![q.key] = new]
                       /\ new.result = None
        BY <3>2 DEF AskWaits
      <4>2. QED
        BY <1>1, <4>1 DEF TypeOK
    <3>3. QED
      BY <1>6, <3>1, <3>2 DEF AskConflict, AskKnown, AskRefused
  <2>3. QED
    BY <1>1, <1>3, <2>1, <2>2 DEF Carries
<1>7. CASE Restart
  <2>1. tasks'[k] = None /\ entries'[k] = None /\ UNCHANGED rows
    BY <1>7 DEF Restart
  <2>2. QED
    BY <1>3, <2>1 DEF Carries
<1>8. CASE \/ \E n \in DOMAIN calls, status \in Statuses : Progress(n, status)
           \/ Tick
           \/ UNCHANGED vars
  <2>1. UNCHANGED <<tasks, entries, rows>>
    BY <1>8 DEF Progress, Tick, vars
  <2>2. QED
    BY <1>3, <2>1 DEF Carries
<1>9. QED
  BY <1>4, <1>5, <1>6, <1>7, <1>8 DEF Next

\* In memory and in the database a call has the status of the newest event it
\* was told of, in whatever order and however often its callbacks arrived.
THEOREM StatusInvariant == Spec => []StatusIsNewestSeen
<1>1. Init => Rising /\ AllTold
  BY NoneIsNoRecord DEF Init, Rising, AllTold, Carries
<1>2. Inv /\ Rising /\ AllTold /\ [Next]_vars => (Rising /\ AllTold)'
  BY RisingStep, AllToldStep
<1>3. Inv /\ AllTold => StatusIsNewestSeen
  <2> SUFFICES ASSUME Inv, AllTold PROVE StatusIsNewestSeen
    OBVIOUS
  <2>1. ASSUME NEW k \in Entries PROVE TellsNewest(entries[k].call)
    <3>1. k \in Keys /\ entries[k] # None /\ entries[k] \in EntryType
      BY DEF Inv, TypeOK, Entries
    <3>2. QED
      BY <3>1 DEF AllTold, Carries, Told, EntryType
  <2>2. ASSUME NEW k \in Keys, rows[k] # None, rows[k].state = "succeeded"
        PROVE  TellsNewest(rows[k].result)
    <3>1. rows[k] \in RowType /\ rows[k].result # None
      BY <2>2 DEF Inv, TypeOK, Refers
    <3>2. QED
      BY <2>2, <3>1 DEF AllTold, Carries, Told, RowType
  <2>3. QED
    BY <2>1, <2>2 DEF StatusIsNewestSeen
<1>4. QED
  BY <1>1, <1>2, <1>3, Invariance, PTL DEF Spec
=============================================================================
