---------------------------- MODULE HumanHandoff ----------------------------
(***************************************************************************)
(* The takeover of one live call by a coordinator: requests that reserve a *)
(* handoff and fence the AI in one transaction, the provider calls that    *)
(* follow it, the callbacks of the conference, and the control of the page *)
(* that asks and polls.                                                    *)
(*                                                                         *)
(* A request that creates a handoff gives it its name: rows, bindings and  *)
(* rooms are indexed by it.  Callbacks are delivered in any order and again*)
(* until they are acknowledged; each is applied by two transactions.  A    *)
(* restart loses the requests, the callbacks under way and the local event *)
(* that silences the AI, not the database and not the conference.          *)
(***************************************************************************)
EXTENDS Naturals, Sequences, FiniteSets

CONSTANTS
  Requests,     \* POST requests as they reach the API
  Nobody,       \* no request
  Keys,         \* idempotency keys
  ControlKey,   \* the key the control of the page has drawn
  MaxCalls,     \* bound of the model on the outbound attempts of the call
  MaxEvents,    \* bound of the model on the events of a conference
  MaxRestarts,  \* bound of the model on the restarts of the process
  MaxGlitches   \* bound of the model on database failures and lost answers

ASSUME HandoffAssumption ==
  /\ Nobody \notin Requests
  /\ ControlKey \in Keys
  /\ MaxCalls \in Nat \ {0}
  /\ MaxEvents \in Nat
  /\ MaxRestarts \in Nat
  /\ MaxGlitches \in Nat

VARIABLES
  call,       \* the outbound attempts of the call, and their real legs
  cmd,        \* the command of each request
  stage,      \* where each request is
  reply,      \* what each request was answered
  rows,       \* the handoffs of the database
  fences,     \* the authority fences of the database, by their handoff
  silenced,   \* the authority event of this process is set
  bindings,   \* the provider bindings of the database
  rooms,      \* the conferences of the provider
  callbacks,  \* the callbacks that are not acknowledged
  mapped,     \* events between the two transactions of their callback
  outcomes,   \* how many outcome audits each handoff has
  control,    \* the control of the page
  restarts,
  glitches

serverVars == <<cmd, stage, reply, rows, fences, silenced, bindings, mapped,
                outcomes>>
vars == <<call, serverVars, rooms, callbacks, control, restarts,
          glitches>>

None == [kind |-> "none"]

SafeFailures == {"FAILED_SAFE", "TIMED_OUT_SAFE"}
Terminal == {"JOINED"} \cup SafeFailures
Statuses == {"CONNECTING"} \cup Terminal
Participants == {"remote", "coordinator"}
Errors == {"conflict", "timeout", "refused", "lost"}

\* The stages after the commit are those of begin_handoff; a safe failure is the
\* stage of a request that has still to record it.
Stages == {"unsent", "arrived", "write", "commit", "resolve", "redirect",
           "dial", "attach", "read", "done"} \cup SafeFailures

\* status_updated_at of a call in progress is the number of its attempt: only
\* another attempt of the same call has another one.  The process knows the
\* newest attempt if it placed it.
Progress == {"none", "ringing", "up", "down"}
CallType == [attempt : 1 .. MaxCalls, known : BOOLEAN,
             status : [1 .. MaxCalls -> Progress],
             leg : [1 .. MaxCalls -> Progress]]
CommandType == [key : Keys, expected : 1 .. MaxCalls]
RowType == [key : Keys, expected : 1 .. MaxCalls, status : Statuses,
            cursor : Nat]
BindingType == [leg : 1 .. MaxCalls, attached : BOOLEAN,
                present : SUBSET Participants, last : [Participants -> Nat]]
RoomType == [redirected : BOOLEAN, dials : Nat,
             events : Seq([who : Participants, joined : BOOLEAN])]
CallbackType == [handoff : Requests, seq : Nat \ {0}]
EventType == [handoff : Requests, seq : Nat \ {0}, status : Statuses]
Shown == {"READY", "PROCESSING", "STALE"} \cup Statuses
ControlType == [status : Shown, polled : Statuses \cup {"none"},
                ready : 0 .. MaxCalls, attempt : 0 .. MaxCalls,
                handoff : Requests \cup {Nobody},
                waiting : Requests \cup {Nobody}]

Handoffs == {h \in Requests : rows[h] # None}

EmptyRoom == [redirected |-> FALSE, dials |-> 0, events |-> <<>>]

\* Who is in the conference after the first n of its events.
PresentAfter(h, n) ==
  LET upto(p) == {i \in 1 .. n : rooms[h].events[i].who = p}
  IN {p \in Participants :
        \E i \in upto(p) : /\ \A j \in upto(p) : j <= i
                           /\ rooms[h].events[i].joined}

Here(h) == PresentAfter(h, Len(rooms[h].events))

FirstCall == [n \in 1 .. MaxCalls |-> IF n = 1 THEN "ringing" ELSE "none"]

Init ==
  /\ call = [attempt |-> 1, known |-> TRUE, status |-> FirstCall,
             leg |-> FirstCall]
  /\ cmd = [r \in Requests |-> None]
  /\ stage = [r \in Requests |-> "unsent"]
  /\ reply = [r \in Requests |-> "none"]
  /\ rows = [r \in Requests |-> None]
  /\ fences = {}
  /\ silenced = FALSE
  /\ bindings = [r \in Requests |-> None]
  /\ rooms = [r \in Requests |-> EmptyRoom]
  /\ callbacks = {}
  /\ mapped = {}
  /\ outcomes = [r \in Requests |-> 0]
  /\ control = [status |-> "READY", polled |-> "none", ready |-> 0,
                attempt |-> 0, handoff |-> Nobody, waiting |-> Nobody]
  /\ restarts = 0
  /\ glitches = 0

Glitch == glitches < MaxGlitches /\ glitches' = glitches + 1

-----------------------------------------------------------------------------
(* The call.                                                               *)

Answer(n) ==
  /\ call.leg[n] = "ringing"
  /\ call' = [call EXCEPT !.leg[n] = "up"]
  /\ UNCHANGED <<serverVars, rooms, callbacks, control, restarts,
                 glitches>>

\* The status callbacks of a call are applied while the process that placed it
\* lives; after a restart its entry is gone and they are answered with an error.
FollowCall ==
  /\ call.known
  /\ call.status[call.attempt] # call.leg[call.attempt]
  /\ call' = [call EXCEPT !.status[call.attempt] = call.leg[call.attempt]]
  /\ UNCHANGED <<serverVars, rooms, callbacks, control, restarts,
                 glitches>>

\* Another attempt, which only a process that forgot the first one accepts; the
\* leg it forgot may still be up.
Redial ==
  LET n == call.attempt + 1
  IN /\ ~call.known
     /\ n <= MaxCalls
     /\ call' = [call EXCEPT !.attempt = n, !.known = TRUE,
                             !.status[n] = "ringing", !.leg[n] = "ringing"]
     /\ UNCHANGED <<serverVars, rooms, callbacks, control, restarts,
                    glitches>>

\* _readiness_context: the newest attempt is in progress (that it has a brief is
\* taken for granted).
Ready == call.status[call.attempt] = "up"

-----------------------------------------------------------------------------
(* A request, until its handoff is reserved.                               *)

Send(r, c) ==
  /\ stage[r] = "unsent"
  /\ cmd' = [cmd EXCEPT ![r] = c]
  /\ stage' = [stage EXCEPT ![r] = "arrived"]

Request(r, c) ==
  /\ Send(r, c)
  /\ UNCHANGED <<call, reply, rows, fences, silenced, bindings, rooms,
                 callbacks, mapped, outcomes, control, restarts, glitches>>

Finish(r, a) ==
  /\ stage' = [stage EXCEPT ![r] = "done"]
  /\ reply' = [reply EXCEPT ![r] = a]

\* The authorization is too old, or the destination is not allowed.
Refuse(r) ==
  /\ stage[r] = "arrived"
  /\ Finish(r, "refused")
  /\ UNCHANGED <<call, cmd, rows, fences, silenced, bindings, rooms,
                 callbacks, mapped, outcomes, control, restarts, glitches>>

Locked == \E r \in Requests : stage[r] \in {"write", "commit"}

\* A mutant of the next definition: a handoff that failed lets another begin.
UnfencedAnswer(r) ==
  LET same == {h \in Handoffs : rows[h].key = cmd[r].key}
      live == Ready /\ cmd[r].expected = call.attempt
  IN IF \E h \in same : rows[h].expected # cmd[r].expected THEN "conflict"
     ELSE IF same # {} THEN rows[CHOOSE h \in same : TRUE].status
     ELSE IF ~live \/ \E h \in Handoffs : rows[h].status = "CONNECTING"
     THEN "conflict"
     ELSE "none"

\* What ends a reservation before anything lasts of it: a repeated key, which is
\* a conflict or a replay; an active handoff; a call that is not live or has
\* changed; the primary key of the fences, one to a call.
EarlyAnswer(r) ==
  LET same == {h \in Handoffs : rows[h].key = cmd[r].key}
      live == Ready /\ cmd[r].expected = call.attempt
  IN IF \E h \in same : rows[h].expected # cmd[r].expected THEN "conflict"
     ELSE IF same # {} THEN rows[CHOOSE h \in same : TRUE].status
     ELSE IF ~live \/ \E h \in Handoffs : rows[h].status = "CONNECTING"
     THEN "conflict"
     ELSE IF fences # {} THEN "refused" ELSE "none"

Reserve(r) ==
  /\ stage[r] = "arrived"
  /\ ~Locked
  /\ IF EarlyAnswer(r) = "none"
     THEN stage' = [stage EXCEPT ![r] = "write"] /\ UNCHANGED reply
     ELSE Finish(r, EarlyAnswer(r))
  /\ UNCHANGED <<call, cmd, rows, fences, silenced, bindings, rooms,
                 callbacks, mapped, outcomes, control, restarts, glitches>>

\* handoff_requested sets the event of the process inside the transaction.
Silence(r) ==
  /\ stage[r] = "write"
  /\ silenced' = TRUE
  /\ stage' = [stage EXCEPT ![r] = "commit"]
  /\ UNCHANGED <<call, cmd, reply, rows, fences, bindings, rooms,
                 callbacks, mapped, outcomes, control, restarts, glitches>>

\* A mutant of the next definition: the fence is left for later.
NoFence(r) == fences

FenceOf(r) == fences \cup {r}

Commit(r) ==
  /\ stage[r] = "commit"
  /\ rows' = [rows EXCEPT ![r] = [key |-> cmd[r].key,
                                  expected |-> cmd[r].expected,
                                  status |-> "CONNECTING", cursor |-> 0]]
  /\ fences' = FenceOf(r)
  /\ stage' = [stage EXCEPT ![r] = "resolve"]
  /\ UNCHANGED <<call, cmd, reply, silenced, bindings, rooms,
                 callbacks, mapped, outcomes, control, restarts, glitches>>

\* The transaction fails.  The event stays set: the AI is silent all the same.
Abort(r) ==
  /\ stage[r] \in {"write", "commit"}
  /\ Glitch
  /\ Finish(r, "refused")
  /\ UNCHANGED <<call, cmd, rows, fences, silenced, bindings, rooms,
                 callbacks, mapped, outcomes, control, restarts>>

-----------------------------------------------------------------------------
(* begin_handoff, and what the request records of it.                      *)

\* provider_call_sid: the newest of the attempts that are in progress.
InProgress ==
  {n \in 1 .. call.attempt :
     /\ call.status[n] = "up"
     /\ \A m \in n + 1 .. call.attempt : call.status[m] # "up"}

Resolve(r) ==
  /\ stage[r] = "resolve"
  /\ IF InProgress # {}
     THEN /\ \E n \in InProgress :
               bindings' = [bindings EXCEPT
                            ![r] = [leg |-> n, attached |-> FALSE,
                                    present |-> {},
                                    last |-> [p \in Participants |-> 0]]]
          /\ stage' = [stage EXCEPT ![r] = "redirect"]
     ELSE /\ stage' = [stage EXCEPT ![r] = "FAILED_SAFE"]
          /\ UNCHANGED bindings
  /\ UNCHANGED <<call, cmd, reply, rows, fences, silenced, rooms,
                 callbacks, mapped, outcomes, control, restarts, glitches>>

\* What a provider call leaves: it is done and answered; or the request hears of
\* a failure or of nothing in time, and it is done all the same, or not.
Provided(r, room, next) ==
  \/ /\ rooms' = [rooms EXCEPT ![r] = room]
     /\ stage' = [stage EXCEPT ![r] = next]
     /\ UNCHANGED glitches
  \/ /\ Glitch
     /\ \E f \in SafeFailures : stage' = [stage EXCEPT ![r] = f]
     /\ \/ rooms' = [rooms EXCEPT ![r] = room]
        \/ UNCHANGED rooms

LegOf(r) == call.leg[bindings[r].leg] = "up"

\* The live leg is sent into the conference, which ends its media stream.
Redirect(r) ==
  /\ stage[r] = "redirect"
  /\ IF LegOf(r)
     THEN Provided(r, [rooms[r] EXCEPT !.redirected = TRUE], "dial")
     ELSE /\ stage' = [stage EXCEPT ![r] = "FAILED_SAFE"]
          /\ UNCHANGED <<rooms, glitches>>
  /\ UNCHANGED <<call, cmd, reply, rows, fences, silenced, bindings,
                 callbacks, mapped, outcomes, control, restarts>>

Dial(r) ==
  /\ stage[r] = "dial"
  /\ Provided(r, [rooms[r] EXCEPT !.dials = @ + 1], "attach")
  /\ UNCHANGED <<call, cmd, reply, rows, fences, silenced, bindings,
                 callbacks, mapped, outcomes, control, restarts>>

Attach(r) ==
  /\ stage[r] = "attach"
  /\ \/ /\ bindings' = [bindings EXCEPT ![r].attached = TRUE]
        /\ stage' = [stage EXCEPT ![r] = "read"]
        /\ UNCHANGED glitches
     \/ /\ Glitch
        /\ stage' = [stage EXCEPT ![r] = "FAILED_SAFE"]
        /\ UNCHANGED bindings
  /\ UNCHANGED <<call, cmd, reply, rows, fences, silenced, rooms,
                 callbacks, mapped, outcomes, control, restarts>>

\* A mutant of the next definition: the failure overwrites what was observed.
FailAlways(row, failure) == [row EXCEPT !.status = failure]

\* fail_provider_attempt keeps an outcome that a callback brought first.
Fail(row, failure) ==
  IF row.status \in Terminal THEN row ELSE [row EXCEPT !.status = failure]

\* The transaction that ends a handoff audits its outcome.
Audited(h, row) ==
  IF row.status \in Terminal /\ row.status # rows[h].status
  THEN [outcomes EXCEPT ![h] = @ + 1] ELSE outcomes

RecordFailure(r) ==
  LET row == Fail(rows[r], stage[r])
  IN /\ stage[r] \in SafeFailures
     /\ rows' = [rows EXCEPT ![r] = row]
     /\ outcomes' = Audited(r, row)
     /\ Finish(r, IF stage[r] = "TIMED_OUT_SAFE" THEN "timeout" ELSE "refused")
     /\ UNCHANGED <<call, cmd, fences, silenced, bindings, rooms,
                    callbacks, mapped, control, restarts, glitches>>

\* The failure cannot be written, and the handoff stays CONNECTING; or the row
\* cannot be read for the answer.
Unavailable(r) ==
  /\ stage[r] \in SafeFailures \cup {"read"}
  /\ Glitch
  /\ Finish(r, "refused")
  /\ UNCHANGED <<call, cmd, rows, fences, silenced, bindings, rooms,
                 callbacks, mapped, outcomes, control, restarts>>

\* A mutant of the next definition: the answer waits for the outcome.
ReadOutcome(r) ==
  /\ stage[r] = "read"
  /\ rows[r].status \in Terminal
  /\ Finish(r, rows[r].status)
  /\ UNCHANGED <<call, cmd, rows, fences, silenced, bindings, rooms,
                 callbacks, mapped, outcomes, control, restarts, glitches>>

ReadBack(r) ==
  /\ stage[r] = "read"
  /\ Finish(r, rows[r].status)
  /\ UNCHANGED <<call, cmd, rows, fences, silenced, bindings, rooms,
                 callbacks, mapped, outcomes, control, restarts, glitches>>

-----------------------------------------------------------------------------
(* The conference and its callbacks.                                       *)

\* The room after one more event, and the callback that reports it.
Report(hs, who, joined) ==
  LET heard == [who |-> who, joined |-> joined]
  IN /\ \A h \in hs : Len(rooms[h].events) < MaxEvents
     /\ rooms' = [h \in Requests |->
                    IF h \in hs
                    THEN [rooms[h] EXCEPT !.events = Append(@, heard)]
                    ELSE rooms[h]]
     /\ callbacks' = callbacks \cup
          {[handoff |-> h, seq |-> Len(rooms[h].events) + 1] : h \in hs}

Entered(h, p) ==
  Cardinality({i \in 1 .. Len(rooms[h].events) :
                 rooms[h].events[i] = [who |-> p, joined |-> TRUE]})

RemoteJoins(h) ==
  /\ rooms[h].redirected
  /\ LegOf(h)
  /\ Entered(h, "remote") = 0
  /\ Report({h}, "remote", TRUE)
  /\ UNCHANGED <<call, serverVars, control, restarts, glitches>>

CoordinatorJoins(h) ==
  /\ Entered(h, "coordinator") < rooms[h].dials
  /\ Report({h}, "coordinator", TRUE)
  /\ UNCHANGED <<call, serverVars, control, restarts, glitches>>

CoordinatorLeaves(h) ==
  /\ "coordinator" \in Here(h)
  /\ Report({h}, "coordinator", FALSE)
  /\ UNCHANGED <<call, serverVars, control, restarts, glitches>>

HangUp(n) ==
  /\ call.leg[n] = "up"
  /\ call' = [call EXCEPT !.leg[n] = "down"]
  /\ Report({h \in Requests : bindings[h] # None /\ bindings[h].leg = n
                               /\ "remote" \in Here(h)}, "remote", FALSE)
  /\ UNCHANGED <<serverVars, control, restarts, glitches>>

\* apply_callback: only a later event of the same participant changes its
\* presence.
Seen(b, e, seq) ==
  IF seq <= b.last[e.who] THEN b
  ELSE [b EXCEPT !.last[e.who] = seq,
                 !.present = IF e.joined THEN @ \cup {e.who} ELSE @ \ {e.who}]

\* map_status_callback: the status a callback stands for.
StatusOf(b, e) ==
  IF b.present = Participants THEN "JOINED"
  ELSE IF e.joined THEN "CONNECTING" ELSE "FAILED_SAFE"

\* The first transaction of a callback.  Before the coordinator is attached its
\* callbacks match no binding, and are refused.
MapCallback(c) ==
  LET h == c.handoff
      e == rooms[h].events[c.seq]
      b == Seen(bindings[h], e, c.seq)
  IN /\ bindings[h] # None
     /\ e.who = "remote" \/ bindings[h].attached
     /\ bindings' = [bindings EXCEPT ![h] = b]
     /\ mapped' = mapped \cup
          {[handoff |-> h, seq |-> c.seq, status |-> StatusOf(b, e)]}
     /\ UNCHANGED <<call, cmd, stage, reply, rows, fences, silenced,
                    rooms, callbacks, outcomes, control, restarts, glitches>>

\* apply_handoff_status_event: no older event, and none after an outcome.
Applied(row, e) ==
  IF e.seq <= row.cursor THEN row
  ELSE [row EXCEPT !.status = IF @ \in Terminal THEN @ ELSE e.status,
                   !.cursor = e.seq]

\* The second transaction, and the acknowledgement.
Observe(e) ==
  LET row == Applied(rows[e.handoff], e)
  IN /\ rows' = [rows EXCEPT ![e.handoff] = row]
     /\ outcomes' = Audited(e.handoff, row)
     /\ mapped' = mapped \ {e}
     /\ callbacks' = callbacks \ {[handoff |-> e.handoff, seq |-> e.seq]}
     /\ UNCHANGED <<call, cmd, stage, reply, fences, silenced,
                    bindings, rooms, control, restarts, glitches>>

ObserveFails(e) ==
  /\ Glitch
  /\ mapped' = mapped \ {e}
  /\ UNCHANGED <<call, cmd, stage, reply, rows, fences, silenced,
                 bindings, rooms, callbacks, outcomes, control, restarts>>

-----------------------------------------------------------------------------
(* The control of the page.  Its first request fixes the key and the status *)
(* it expects; every later one repeats them.                               *)

\* What the control shows: the row it polls, once it has one.
Shows == IF control.polled # "none" THEN control.polled ELSE control.status

ReadReadiness ==
  /\ Ready
  /\ control' = [control EXCEPT !.ready = call.attempt]
  /\ UNCHANGED <<call, serverVars, rooms, callbacks, restarts,
                 glitches>>

\* "Take over live call", and the recheck of an attempt that was not answered.
TakeOver(r) ==
  LET expected == IF control.attempt = 0 THEN control.ready ELSE control.attempt
  IN /\ control.waiting = Nobody
     /\ control.ready > 0
     /\ Shows \in {"READY"} \cup SafeFailures
     /\ Send(r, [key |-> ControlKey, expected |-> expected])
     /\ control' = [control EXCEPT !.status = "PROCESSING", !.waiting = r,
                                   !.attempt = expected]
     /\ UNCHANGED <<call, reply, rows, fences, silenced, bindings,
                    rooms, callbacks, mapped, outcomes, restarts, glitches>>

\* How the control reads an error: 409, 504, or anything else.
ErrorShown(a) ==
  CASE a = "conflict" -> "STALE"
    [] a = "timeout" -> "TIMED_OUT_SAFE"
    [] OTHER -> "FAILED_SAFE"

ControlHears ==
  LET r == control.waiting
      a == reply[r]
  IN /\ r # Nobody
     /\ stage[r] = "done"
     /\ control' =
          IF a \in Statuses
          THEN [control EXCEPT
                  !.status = a, !.waiting = Nobody,
                  !.handoff = CHOOSE h \in Handoffs : rows[h].key = ControlKey]
          ELSE [control EXCEPT !.status = ErrorShown(a), !.waiting = Nobody]
     /\ UNCHANGED <<call, serverVars, rooms, callbacks, restarts,
                    glitches>>

\* The answer never comes: the control gives up a request that goes on.
ControlLoses ==
  /\ control.waiting # Nobody
  /\ Glitch
  /\ control' = [control EXCEPT !.status = "FAILED_SAFE", !.waiting = Nobody]
  /\ UNCHANGED <<call, serverVars, rooms, callbacks, restarts>>

\* The query of the handoff, which polls it while it is CONNECTING.
Poll ==
  /\ control.handoff # Nobody
  /\ control' = [control EXCEPT !.polled = rows[control.handoff].status]
  /\ UNCHANGED <<call, serverVars, rooms, callbacks, restarts,
                 glitches>>

-----------------------------------------------------------------------------
Active == Stages \ {"unsent", "done"}

Restart ==
  /\ restarts < MaxRestarts
  /\ restarts' = restarts + 1
  /\ call' = [call EXCEPT !.known = FALSE]
  /\ stage' = [r \in Requests |-> IF stage[r] \in Active THEN "done"
                                  ELSE stage[r]]
  /\ reply' = [r \in Requests |-> IF stage[r] \in Active THEN "lost"
                                  ELSE reply[r]]
  /\ silenced' = FALSE
  /\ mapped' = {}
  /\ UNCHANGED <<cmd, rows, fences, bindings, rooms, callbacks,
                 outcomes, control, glitches>>

\* One step of the server for a request that has arrived.
Serve(r) ==
  \/ Refuse(r) \/ Reserve(r) \/ Silence(r) \/ Commit(r) \/ Abort(r)
  \/ Resolve(r) \/ Redirect(r) \/ Dial(r) \/ Attach(r)
  \/ RecordFailure(r) \/ Unavailable(r) \/ ReadBack(r)

Next ==
  \/ FollowCall \/ Redial
  \/ \E n \in 1 .. MaxCalls : Answer(n) \/ HangUp(n)
  \/ \E r \in Requests, k \in Keys \ {ControlKey}, n \in 1 .. MaxCalls :
       n <= call.attempt /\ Request(r, [key |-> k, expected |-> n])
  \/ \E r \in Requests : Serve(r) \/ TakeOver(r)
  \/ \E h \in Requests :
       RemoteJoins(h) \/ CoordinatorJoins(h) \/ CoordinatorLeaves(h)
  \/ \E c \in callbacks : MapCallback(c)
  \/ \E e \in mapped : Observe(e) \/ ObserveFails(e)
  \/ ReadReadiness \/ ControlHears \/ ControlLoses \/ Poll
  \/ Restart

\* The tasks of a request run while the process lives; nothing makes a caller,
\* the provider or the page act.
Fairness == \A r \in Requests : WF_vars(Serve(r))

Spec == Init /\ [][Next]_vars /\ Fairness

-----------------------------------------------------------------------------
(* Properties.                                                             *)

\* Every variable keeps its type; the name of a handoff is that of its request.
TypeOK ==
  /\ call \in CallType
  /\ cmd \in [Requests -> CommandType \cup {None}]
  /\ stage \in [Requests -> Stages]
  /\ reply \in [Requests -> {"none"} \cup Statuses \cup Errors]
  /\ rows \in [Requests -> RowType \cup {None}]
  /\ fences \subseteq Requests
  /\ silenced \in BOOLEAN
  /\ bindings \in [Requests -> BindingType \cup {None}]
  /\ rooms \in [Requests -> RoomType]
  /\ callbacks \subseteq CallbackType
  /\ mapped \subseteq EventType
  /\ outcomes \in [Requests -> Nat]
  /\ control \in ControlType
  /\ restarts \in 0 .. MaxRestarts
  /\ glitches \in 0 .. MaxGlitches

\* However often a takeover is asked for, by whom, under which keys and across
\* restarts and lost answers, at most one coordinator is ever dialed into the
\* call (services.py request_handoff, handoffs.py reserve).
OneCoordinator ==
  \A g, h \in Requests :
    rooms[g].dials > 0 /\ rooms[h].dials > 0 => g = h /\ rooms[g].dials = 1

\* The provider moves no leg and dials nobody before the authority of the AI is
\* fenced in the database: a crash never leaves the AI and a coordinator on one
\* call (handoffs.py reserve, handoff.py begin_handoff).
FencedBeforeProvider ==
  \A h \in Requests : rooms[h].redirected \/ rooms[h].dials > 0 => h \in fences

\* A handoff that has ended stays as it ended, whatever callbacks and provider
\* failures come late, out of order or again, and its outcome is audited once
\* (services.py apply_handoff_status_event, handoffs.py fail_provider_attempt).
OutcomeIsFinal ==
  [][\A h \in Requests :
       /\ rows[h] # None /\ rows[h].status \in Terminal
            => rows'[h] # None /\ rows'[h].status = rows[h].status
       /\ outcomes'[h] = IF rows'[h] # None /\ rows'[h].status \in Terminal
                         THEN 1 ELSE 0]_vars

\* Every request that arrives is answered (services.py request_handoff).
RequestsAreAnswered ==
  \A r \in Requests : stage[r] \in Active ~> stage[r] = "done"

\* JOINED is verified evidence: the two parties were once in the conference
\* together (human-handoff-control.tsx "Coordinator joined").
JoinedIsTrue ==
  \A h \in Handoffs :
    rows[h].status = "JOINED" =>
      \E n \in 1 .. Len(rooms[h].events) : PresentAfter(h, n) = Participants
=============================================================================
