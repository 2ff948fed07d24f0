---------------------------- MODULE OutboundCalls ----------------------------
(***************************************************************************)
(* Outbound calls: what LiveTelephonyApplication keeps in memory, what the *)
(* attempt store keeps in the database and what the provider does.         *)
(*                                                                         *)
(* A request either is answered at once from memory or waits for the task  *)
(* of its key.  A task is shielded from the client that started it; it     *)
(* reserves the key in the database, posts the call, with retries where    *)
(* the provider cannot have got it, records the outcome and registers the  *)
(* call.  The provider reports the progress of a call by callbacks that    *)
(* arrive at any time, in any order, again, or never.  A restart loses the *)
(* memory and the tasks, not the database.                                 *)
(***************************************************************************)
EXTENDS Naturals, Sequences, FiniteSets

CONSTANTS
  Requests,      \* HTTP requests as they reach the API
  Keys,          \* idempotency keys
  Sessions,      \* carrier sessions of the operation
  Correlations,  \* correlation ids, one for each request id of the API
  MaxActive,     \* _MAX_ACTIVE_OUTBOUND_CALLS
  MaxAttempts,   \* max_attempts of TwilioOutboundCallConfig
  MaxEvents,     \* bound of the model on the callbacks of one call
  MaxNow,        \* bound of the model on the clock
  MaxRestarts    \* bound of the model on the restarts of the process

ASSUME CallsAssumption ==
  /\ MaxActive \in Nat
  /\ MaxAttempts \in Nat \ {0}
  /\ MaxEvents \in Nat
  /\ MaxNow \in Nat
  /\ MaxRestarts \in Nat

VARIABLES
  request,   \* the body and headers of each request
  answer,    \* what each request was answered
  tasks,     \* _pending_outbound, by key
  entries,   \* the runtime entries of registered calls, by key
  rows,      \* the outbound call attempts of the database, by key
  calls,     \* the calls the provider placed, in their order
  now,
  restarts

vars == <<request, answer, tasks, entries, rows, calls, now, restarts>>

None == [kind |-> "none"]

RequestType == [key : Keys, session : Sessions, correlation : Correlations]
FingerprintType == [session : Sessions, correlation : Correlations]

\* "live" stands for the three statuses between, "over" for the terminal ones:
\* the provider ends a call with one of those, and it counts like the others.
Statuses == {"queued", "live", "over"}

IsTerminal(status) == status = "over"

\* _STATUS_ORDER.
StatusOrder(status) ==
  CASE status = "queued" -> 0 [] status = "live" -> 1 [] status = "over" -> 4

\* OutboundCall: the call, its status and since when, and its event cursor.
CallType == [call : Nat \ {0}, status : Statuses, since : Nat,
             cursor : Nat, seen : SUBSET Nat]

NewCall(n) ==
  [call |-> n, status |-> "queued", since |-> now, cursor |-> 0, seen |-> {}]

TaskType == [fingerprint : FingerprintType,
             stage : {"reserve", "post", "sent", "record", "register"},
             attempt : 1 .. MaxAttempts, call : Nat,
             verdict : {"none", "succeeded", "failed", "uncertain"},
             result : CallType \cup {None}]
EntryType == [fingerprint : FingerprintType, call : CallType]
RowType == [fingerprint : FingerprintType,
            state : {"pending", "succeeded", "failed", "uncertain"},
            result : CallType \cup {None}, updated : Nat]
EventType == [status : Statuses, at : Nat]
PlacedType == [key : Keys, session : Sessions, events : Seq(EventType)]

Refusals == {"conflict", "unauthorized", "full", "failed", "uncertain",
             "unavailable", "lost"}
AnswerType == [kind : {"none", "waiting"} \cup Refusals]
                \cup [kind : {"call"}, call : Nat \ {0}]

Waiting == [kind |-> "waiting"]
Called(n) == [kind |-> "call", call |-> n]

Tasks == {k \in Keys : tasks[k] # None}
Entries == {k \in Keys : entries[k] # None}

\* A mutant of the next definition: a key answers for every session.
FingerprintOfOrigin(q) ==
  [session |-> CHOOSE s \in Sessions : TRUE, correlation |-> q.correlation]

\* outbound_call_request_fingerprint leaves out the key, not the correlation.
Fingerprint(q) == [session |-> q.session, correlation |-> q.correlation]

-----------------------------------------------------------------------------
Init ==
  /\ request = [d \in Requests |-> None]
  /\ answer = [d \in Requests |-> None]
  /\ tasks = [k \in Keys |-> None]
  /\ entries = [k \in Keys |-> None]
  /\ rows = [k \in Keys |-> None]
  /\ calls = <<>>
  /\ now = 0
  /\ restarts = 0

-----------------------------------------------------------------------------
(* A request, under the lock of the application.                           *)

Conflicts(q) ==
  \/ q.key \in Entries /\ entries[q.key].fingerprint # Fingerprint(q)
  \/ q.key \in Tasks /\ tasks[q.key].fingerprint # Fingerprint(q)

\* A mutant of the next definition: sessions of pending calls are not taken.
SessionRegistered(q) ==
  \E k \in Entries : entries[k].fingerprint.session = q.session

SessionTaken(q) ==
  \/ \E k \in Entries : entries[k].fingerprint.session = q.session
  \/ /\ q.key \notin Tasks
     /\ \E k \in Tasks : tasks[k].fingerprint.session = q.session

Active == {k \in Entries : ~IsTerminal(entries[k].call.status)}

\* A mutant of the next definition: pending calls do not count.
InUseOfActive == Cardinality(Active)

InUse == Cardinality(Active) + Cardinality(Tasks)

Full(q) == q.key \notin Tasks /\ InUse >= MaxActive

\* A request is answered a without further ado.
Ask(d, q, a) ==
  /\ request[d] = None
  /\ request' = [request EXCEPT ![d] = q]
  /\ answer' = [answer EXCEPT ![d] = a]
  /\ UNCHANGED <<entries, rows, calls, now, restarts>>

AskConflict(d, q) ==
  /\ Conflicts(q)
  /\ Ask(d, q, [kind |-> "conflict"])
  /\ UNCHANGED tasks

AskKnown(d, q) ==
  /\ ~Conflicts(q)
  /\ q.key \in Entries
  /\ Ask(d, q, Called(entries[q.key].call.call))
  /\ UNCHANGED tasks

AskRefused(d, q) ==
  /\ ~Conflicts(q)
  /\ q.key \notin Entries
  /\ SessionTaken(q) \/ Full(q)
  /\ Ask(d, q, [kind |-> IF SessionTaken(q) THEN "unauthorized" ELSE "full"])
  /\ UNCHANGED tasks

\* The request joins the task of its key, or starts it.
AskWaits(d, q) ==
  /\ ~Conflicts(q)
  /\ q.key \notin Entries
  /\ ~SessionTaken(q)
  /\ ~Full(q)
  /\ Ask(d, q, Waiting)
  /\ tasks' = IF q.key \in Tasks THEN tasks
              ELSE [tasks EXCEPT ![q.key] =
                      [fingerprint |-> Fingerprint(q), stage |-> "reserve",
                       attempt |-> 1, call |-> 0, verdict |-> "none",
                       result |-> None]]

-----------------------------------------------------------------------------
(* The task of a key.                                                      *)

At(k, stage) == k \in Tasks /\ tasks[k].stage = stage

\* Every request that waits for the task is answered a.
Settle(k, a) ==
  answer' = [d \in Requests |->
               IF answer[d] = Waiting /\ request[d].key = k THEN a ELSE answer[d]]

\* A mutant of the next definition: the pending call keeps its slot.
EndKeepingSlot(k, a) == Settle(k, a) /\ UNCHANGED tasks

\* The task is over, and with it the pending call.
End(k, a) == Settle(k, a) /\ tasks' = [tasks EXCEPT ![k] = None]

\* The authorization is too old or the destination is not on the allowlist.
RefuseUnauthorized(k) ==
  /\ At(k, "reserve")
  /\ End(k, [kind |-> "unauthorized"])
  /\ UNCHANGED <<request, entries, rows, calls, now, restarts>>

PendingRow(k) ==
  [fingerprint |-> tasks[k].fingerprint, state |-> "pending",
   result |-> None, updated |-> now]

Reserve(k) ==
  /\ At(k, "reserve")
  /\ rows[k] = None
  /\ rows' = [rows EXCEPT ![k] = PendingRow(k)]
  /\ tasks' = [tasks EXCEPT ![k].stage = "post"]
  /\ UNCHANGED <<request, answer, entries, calls, now, restarts>>

\* The key was reserved before: its row decides, and no call is placed.
Replay(k) ==
  /\ At(k, "reserve")
  /\ rows[k] # None
  /\ CASE rows[k].fingerprint # tasks[k].fingerprint ->
            End(k, [kind |-> "conflict"])
       [] rows[k].fingerprint = tasks[k].fingerprint
            /\ rows[k].state = "succeeded" ->
            /\ tasks' = [tasks EXCEPT ![k].stage = "register",
                                      ![k].result = rows[k].result]
            /\ UNCHANGED answer
       [] rows[k].fingerprint = tasks[k].fingerprint
            /\ rows[k].state = "failed" ->
            End(k, [kind |-> "failed"])
       [] OTHER -> End(k, [kind |-> "uncertain"])
  /\ UNCHANGED <<request, entries, rows, calls, now, restarts>>

\* The database fails, after its commit or before.
ReserveFails(k) ==
  /\ At(k, "reserve")
  /\ rows' \in {rows, [rows EXCEPT ![k] = IF @ = None THEN PendingRow(k) ELSE @]}
  /\ End(k, [kind |-> "unavailable"])
  /\ UNCHANGED <<request, entries, calls, now, restarts>>

\* The provider gets the request and places the call.
PlaceCall(k) ==
  /\ At(k, "post")
  /\ calls' = Append(calls, [key |-> k,
                             session |-> tasks[k].fingerprint.session,
                             events |-> <<>>])
  /\ tasks' = [tasks EXCEPT ![k].stage = "sent", ![k].call = Len(calls) + 1]
  /\ UNCHANGED <<request, answer, entries, rows, now, restarts>>

\* A mutant of the next definition: an answer that was lost is tried again.
UnansweredCall(k) == At(k, "post") \/ At(k, "sent")

\* The provider took no call: it was not reached or it answered 429.
NoCallTaken(k) == At(k, "post")

AttemptLeft(k) == tasks[k].attempt < MaxAttempts

Retry(k) ==
  /\ NoCallTaken(k)
  /\ AttemptLeft(k)
  /\ tasks' = [tasks EXCEPT ![k].stage = "post", ![k].attempt = @ + 1]
  /\ UNCHANGED <<request, answer, entries, rows, calls, now, restarts>>

Judged(k, verdict, result) ==
  /\ tasks' = [tasks EXCEPT ![k].stage = "record", ![k].verdict = verdict,
                            ![k].result = result]
  /\ UNCHANGED <<request, answer, entries, rows, calls, now, restarts>>

\* The provider refuses the call, or the last attempt did not reach it.
Refused(k) ==
  /\ At(k, "post")
  /\ Judged(k, "failed", None)

\* A mutant of the next definition: no answer is a failure.
LostVerdictFailed == "failed"

LostVerdict == "uncertain"

\* A timeout, a lost connection, a 5xx or an answer that cannot be read.
LoseAnswer(k) ==
  /\ At(k, "post") \/ At(k, "sent")
  /\ Judged(k, LostVerdict, None)

Accepted(k) ==
  /\ At(k, "sent")
  /\ Judged(k, "succeeded", NewCall(tasks[k].call))

\* transition_status.
NextStatus(current, incoming) ==
  IF IsTerminal(current) \/ StatusOrder(incoming) < StatusOrder(current)
  THEN current ELSE incoming

\* _is_monotonic_call_update.
Monotonic(row, c, at) ==
  /\ at >= row.updated
  /\ c.since >= row.result.since
  /\ row.result.seen \subseteq c.seen
  /\ IF IsTerminal(row.result.status) THEN c.status = row.result.status
     ELSE NextStatus(row.result.status, c.status) = c.status
  /\ c.cursor > row.result.cursor

\* _finish: the row after an outcome of its attempt or a later status.
Finished(row, state, c, at) ==
  IF \/ row.state = "pending"
     \/ /\ row.state = "succeeded" /\ state = "succeeded"
        /\ Monotonic(row, c, at)
  THEN [row EXCEPT !.state = state, !.result = c, !.updated = at]
  ELSE row

RecordedRow(k) ==
  Finished(rows[k], tasks[k].verdict, tasks[k].result, now)

Record(k) ==
  /\ At(k, "record")
  /\ rows' = [rows EXCEPT ![k] = RecordedRow(k)]
  /\ IF tasks[k].verdict = "succeeded"
     THEN /\ tasks' = [tasks EXCEPT ![k].stage = "register"]
          /\ UNCHANGED answer
     ELSE End(k, [kind |-> tasks[k].verdict])
  /\ UNCHANGED <<request, entries, calls, now, restarts>>

\* A mutant of the next definition: a failed write goes unnoticed.
RecordFailsQuietly(k) ==
  /\ At(k, "record")
  /\ rows' \in {rows, [rows EXCEPT ![k] = RecordedRow(k)]}
  /\ IF tasks[k].verdict = "succeeded"
     THEN /\ tasks' = [tasks EXCEPT ![k].stage = "register"]
          /\ UNCHANGED answer
     ELSE End(k, [kind |-> tasks[k].verdict])
  /\ UNCHANGED <<request, entries, calls, now, restarts>>

\* The database fails, after its commit or before: the outcome is uncertain.
RecordFails(k) ==
  /\ At(k, "record")
  /\ rows' \in {rows, [rows EXCEPT ![k] = RecordedRow(k)]}
  /\ End(k, [kind |-> "uncertain"])
  /\ UNCHANGED <<request, entries, calls, now, restarts>>

Register(k) ==
  /\ At(k, "register")
  /\ entries' = [entries EXCEPT ![k] = [fingerprint |-> tasks[k].fingerprint,
                                        call |-> tasks[k].result]]
  /\ End(k, Called(tasks[k].result.call))
  /\ UNCHANGED <<request, rows, calls, now, restarts>>

Step(k) ==
  \/ RefuseUnauthorized(k)
  \/ Reserve(k)
  \/ Replay(k)
  \/ ReserveFails(k)
  \/ PlaceCall(k)
  \/ Retry(k)
  \/ Refused(k)
  \/ LoseAnswer(k)
  \/ Accepted(k)
  \/ Record(k)
  \/ RecordFails(k)
  \/ Register(k)

-----------------------------------------------------------------------------
(* The provider, its callbacks, and the process.                           *)

LastStatus(n) ==
  LET events == calls[n].events
  IN IF events = <<>> THEN "queued" ELSE events[Len(events)].status

\* A call goes on; its events are numbered and stamped with their time.
Progress(n, status) ==
  /\ Len(calls[n].events) < MaxEvents
  /\ ~IsTerminal(LastStatus(n))
  /\ StatusOrder(status) > StatusOrder(LastStatus(n))
  /\ calls' = [calls EXCEPT ![n].events =
                 Append(@, [status |-> status, at |-> now])]
  /\ UNCHANGED <<request, answer, tasks, entries, rows, now, restarts>>

\* A mutant of the next definition: callbacks are taken in any order.
AcceptedInAnyOrder(c, i) ==
  LET e == calls[c.call].events[i]
  IN [c EXCEPT !.status = e.status,
               !.since = IF e.at > @ THEN e.at ELSE @,
               !.cursor = i, !.seen = @ \cup {i}]

\* apply_status_event, with the number of the event in the place of its id.
Observed(c, i) ==
  LET e == calls[c.call].events[i]
      status == NextStatus(c.status, e.status)
  IN IF i <= c.cursor THEN c
     ELSE [c EXCEPT !.status = status,
                    !.since = IF status # c.status /\ e.at > @ THEN e.at ELSE @,
                    !.cursor = i, !.seen = @ \cup {i}]

\* The durable half of observe_status.
ObservedRow(k, i) ==
  Finished(rows[k], "succeeded", Observed(entries[k].call, i),
           calls[entries[k].call.call].events[i].at)

\* A callback reaches a registered call.  Others are answered an error.
ObserveStatus(k, i) ==
  /\ rows' = [rows EXCEPT ![k] = ObservedRow(k, i)]
  /\ entries' = [entries EXCEPT ![k].call = Observed(@, i)]
  /\ UNCHANGED <<request, answer, tasks, calls, now, restarts>>

\* The database commits the status and its answer is lost.
ObserveFails(k, i) ==
  /\ rows' = [rows EXCEPT ![k] = ObservedRow(k, i)]
  /\ UNCHANGED <<request, answer, tasks, entries, calls, now, restarts>>

\* The process starts anew: memory and tasks are gone.
Restart ==
  /\ restarts < MaxRestarts
  /\ restarts' = restarts + 1
  /\ tasks' = [k \in Keys |-> None]
  /\ entries' = [k \in Keys |-> None]
  /\ answer' = [d \in Requests |->
                  IF answer[d] = Waiting THEN [kind |-> "lost"] ELSE answer[d]]
  /\ UNCHANGED <<request, rows, calls, now>>

Tick ==
  /\ now < MaxNow
  /\ now' = now + 1
  /\ UNCHANGED <<request, answer, tasks, entries, rows, calls, restarts>>

Next ==
  \/ \E d \in Requests, q \in RequestType :
       AskConflict(d, q) \/ AskKnown(d, q) \/ AskRefused(d, q) \/ AskWaits(d, q)
  \/ \E k \in Keys : Step(k)
  \/ \E n \in DOMAIN calls, status \in Statuses : Progress(n, status)
  \/ \E k \in Entries : \E i \in DOMAIN calls[entries[k].call.call].events :
       ObserveStatus(k, i) \/ ObserveFails(k, i)
  \/ Restart
  \/ Tick

Spec == Init /\ [][Next]_vars

\* The event loop serves each task, and every wait of a task has a timeout.
FairSpec == Spec /\ \A k \in Keys : WF_vars(Step(k))

-----------------------------------------------------------------------------
(* Properties.                                                             *)

\* Type invariant of the requests, the memory, the database and the provider.
TypeOK ==
  /\ request \in [Requests -> RequestType \cup {None}]
  /\ answer \in [Requests -> AnswerType]
  /\ tasks \in [Keys -> TaskType \cup {None}]
  /\ entries \in [Keys -> EntryType \cup {None}]
  /\ rows \in [Keys -> RowType \cup {None}]
  /\ calls \in Seq(PlacedType)
  /\ now \in Nat
  /\ restarts \in Nat

\* Whatever is retried, lost or restarted, a key places one call.
OneCallPerKey ==
  \A m, n \in DOMAIN calls : calls[m].key = calls[n].key => m = n

\* A failure is told, or recorded, only of a key that placed no call, and none
\* is placed for it afterwards.
FailureIsDefinitive ==
  \A n \in DOMAIN calls :
    /\ rows[calls[n].key] # None => rows[calls[n].key].state # "failed"
    /\ \A d \in Requests :
         answer[d].kind = "failed" => request[d].key # calls[n].key

\* The answer names a call to the session the request asked for.
AnswersAgree ==
  \A d \in Requests :
    answer[d].kind = "call" =>
      /\ answer[d].call \in DOMAIN calls
      /\ calls[answer[d].call].key = request[d].key
      /\ calls[answer[d].call].session = request[d].session

\* The call is in the database, and so is one that callbacks may reach.
AnsweredCallsAreRecorded ==
  /\ \A d \in Requests :
       answer[d].kind = "call" =>
         /\ rows[request[d].key] # None
         /\ rows[request[d].key].state = "succeeded"
         /\ rows[request[d].key].result.call = answer[d].call
  /\ \A k \in Entries :
       /\ rows[k] # None
       /\ rows[k].state = "succeeded"
       /\ rows[k].result.call = entries[k].call.call
       /\ rows[k].fingerprint = entries[k].fingerprint

\* Requests of one key that are answered a call name the same one, a call to the
\* session each of them asked for, and it is recorded as such: an exact replay
\* finds it again, after a restart too.
AnswersAreKept == AnswersAgree /\ AnsweredCallsAreRecorded

\* Pending and active calls together never exceed the capacity.
CapacityHolds ==
  Cardinality({k \in Entries : entries[k].call.status # "over"} \cup Tasks)
    <= MaxActive

\* No carrier session has two calls that are pending or registered.
SessionsApart ==
  /\ Tasks \cap Entries = {}
  /\ \A j, k \in Keys :
       LET S(x) == IF x \in Tasks THEN tasks[x].fingerprint.session
                   ELSE entries[x].fingerprint.session
       IN j \in Tasks \cup Entries /\ k \in Tasks \cup Entries /\ S(j) = S(k)
            => j = k

\* The status of c is the one its newest event reported.
TellsNewest(c) ==
  /\ \A i \in c.seen : i <= c.cursor
  /\ IF c.cursor = 0 THEN c.status = "queued"
     ELSE c.status = calls[c.call].events[c.cursor].status

\* In memory and in the database a call has the status of the newest event it
\* was told of, however late or often its callbacks arrived.
StatusIsNewestSeen ==
  /\ \A k \in Entries : TellsNewest(entries[k].call)
  /\ \A k \in Keys :
       rows[k] # None /\ rows[k].state = "succeeded" => TellsNewest(rows[k].result)

\* A pending call gives its slot back.
SlotsAreFreed == \A k \in Keys : k \in Tasks ~> k \notin Tasks

\* A request that repeats the body and the key of one that was answered a call,
\* while that call is registered, is answered the same call.
ReplayReturnsCall ==
  [][\A d, e \in Requests :
       /\ request[e] = None /\ request'[e] # None
       /\ answer[d].kind = "call"
       /\ request[d].key = request'[e].key
       /\ request[d].session = request'[e].session
       /\ request[d].key \in Entries
       => answer'[e] = answer[d]]_vars

\* A call that is known to be over is over in the database.
TerminalIsDurable ==
  \A k \in Entries :
    IsTerminal(entries[k].call.status) =>
      rows[k].result.status = entries[k].call.status
=============================================================================
