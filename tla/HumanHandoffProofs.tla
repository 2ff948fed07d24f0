------------------------- MODULE HumanHandoffProofs -------------------------
(***************************************************************************)
(* What holds of a takeover for every number of requests, keys, attempts,  *)
(* events, restarts and failures, and how far the AI can reach into a call *)
(* after its authority ended.                                              *)
(***************************************************************************)
EXTENDS LiveTakeover, TLAPS

Begun == {"resolve", "redirect", "dial", "attach", "read"} \cup SafeFailures

\* A request that writes is alone and the first; one that has begun is fenced and
\* has its row, and from the redirect on its binding.
Reserved ==
  /\ \A g, h \in fences : g = h
  /\ \A r \in Requests :
       /\ stage[r] \in {"write", "commit"} =>
            /\ fences = {}
            /\ \A s \in Requests : stage[s] \in {"write", "commit"} => s = r
       /\ stage[r] \in Begun => r \in fences
       /\ stage[r] \in {"redirect", "dial", "attach"} => bindings[r] # None
       /\ stage[r] # "unsent" => cmd[r] # None
  /\ \A h \in Requests : rows[h] # None => h \in fences
  /\ \A h \in fences : rows[h] # None
  /\ \A h \in Requests : bindings[h] # None => rows[h] # None
  /\ \A e \in mapped : rows[e.handoff] # None

\* The provider is asked by one request, for one leg and one coordinator.
Asked ==
  \A r \in Requests :
    /\ rooms[r].redirected \/ rooms[r].dials > 0 => r \in fences
    /\ rooms[r].dials <= 1
    /\ rooms[r].dials > 0 => stage[r] \in {"attach", "read", "done"} \cup SafeFailures

\* Each handoff that has ended was audited once.
AuditedOnce ==
  \A h \in Requests :
    outcomes[h] = IF rows[h] # None /\ rows[h].status \in Terminal THEN 1 ELSE 0

\* A callback reports an event of its conference.
Reported == \A c \in callbacks : c.seq <= Len(rooms[c.handoff].events)

\* The page waits for a request it sent with its key, and polls a handoff of the
\* database; a request that is answered with a status has its handoff there.
Followed ==
  /\ control.waiting # Nobody =>
       /\ stage[control.waiting] # "unsent"
       /\ cmd[control.waiting].key = ControlKey
  /\ control.handoff # Nobody => rows[control.handoff] # None
  /\ \A r \in Requests :
       /\ stage[r] = "unsent" => reply[r] = "none"
       /\ stage[r] \in Begun => rows[r].key = cmd[r].key
       /\ reply[r] \in Statuses => \E h \in Handoffs : rows[h].key = cmd[r].key

\* The inductive invariant.
Inv == TypeOK /\ Reserved /\ Asked /\ AuditedOnce /\ Reported /\ Followed

-----------------------------------------------------------------------------
(* Types.                                                                  *)

\* None is no record of any type.
LEMMA NoneIsNoRecord ==
  None \notin CommandType /\ None \notin RowType /\ None \notin BindingType
<1>1. None \notin CommandType
  BY DEF None, CommandType
<1>2. None \notin RowType
  BY DEF None, RowType
<1>3. None \notin BindingType
  BY DEF None, BindingType
<1>4. QED
  BY <1>1, <1>2, <1>3

\* The bounds are numbers.
LEMMA Constants ==
  /\ MaxCalls \in Nat \ {0} /\ MaxEvents \in Nat
  /\ MaxRestarts \in Nat /\ MaxGlitches \in Nat
  /\ ControlKey \in Keys /\ Nobody \notin Requests
  BY HandoffAssumption

\* The initial states are typed.
LEMMA InitTyped == ASSUME Init PROVE TypeOK
<1>1. call \in CallType
  <2>1. 1 \in 1 .. MaxCalls /\ FirstCall \in [1 .. MaxCalls -> Progress]
    BY Constants DEF FirstCall, Progress
  <2>2. QED
    BY <2>1 DEF Init, CallType
<1>2. rooms \in [Requests -> RoomType]
  BY DEF Init, RoomType, EmptyRoom
<1>3. control \in ControlType
  BY Constants DEF Init, ControlType, Shown
<1>4. /\ stage \in [Requests -> Stages]
      /\ restarts \in 0 .. MaxRestarts /\ glitches \in 0 .. MaxGlitches
  BY Constants DEF Init, Stages
<1>5. QED
  BY <1>1, <1>2, <1>3, <1>4 DEF Init, TypeOK

\* An attempt in progress is an attempt.
LEMMA InProgressTyped == ASSUME TypeOK PROVE InProgress \subseteq 1 .. MaxCalls
  BY Constants DEF TypeOK, CallType, InProgress

\* Why a reservation ends early is a reply.
LEMMA EarlyAnswerTyped ==
  ASSUME TypeOK, NEW r \in Requests
  PROVE  EarlyAnswer(r) \in {"none"} \cup Statuses \cup Errors
<1> DEFINE same == {h \in Handoffs : rows[h].key = cmd[r].key}
<1>1. \A h \in Handoffs : rows[h] \in RowType
  BY DEF TypeOK, Handoffs
<1>2. same # {} => rows[CHOOSE h \in same : TRUE].status \in Statuses
  <2>1. \A h \in Handoffs : rows[h].status \in Statuses
    BY <1>1 DEF RowType
  <2>2. same # {} => (CHOOSE h \in same : TRUE) \in same
    OBVIOUS
  <2>3. QED
    BY <2>1, <2>2
<1>. HIDE DEF same
<1>3. \/ EarlyAnswer(r) \in {"conflict", "refused", "none"}
      \/ same # {} /\ EarlyAnswer(r) = rows[CHOOSE h \in same : TRUE].status
  BY DEF EarlyAnswer, same
<1>4. QED
  BY <1>2, <1>3 DEF Errors

\* A reservation goes on only where nothing is fenced.
LEMMA FirstReservation ==
  ASSUME TypeOK, NEW r \in Requests, EarlyAnswer(r) = "none"
  PROVE  fences = {} /\ Ready /\ cmd[r].expected = call.attempt
<1> DEFINE same == {h \in Handoffs : rows[h].key = cmd[r].key}
<1>1. same # {} => rows[CHOOSE h \in same : TRUE].status # "none"
  <2>1. \A h \in Handoffs : rows[h].status \in Statuses
    BY DEF TypeOK, Handoffs, RowType
  <2>2. same # {} => (CHOOSE h \in same : TRUE) \in same
    OBVIOUS
  <2>3. QED
    BY <2>1, <2>2 DEF Statuses, Terminal, SafeFailures
<1>2. QED
  BY <1>1 DEF EarlyAnswer

\* The step that ends a request is typed.
LEMMA FinishTyped ==
  ASSUME TypeOK, NEW r \in Requests, NEW a \in Statuses \cup Errors, Finish(r, a)
  PROVE  /\ stage' \in [Requests -> Stages]
         /\ reply' \in [Requests -> {"none"} \cup Statuses \cup Errors]
  BY DEF TypeOK, Finish, Stages

\* A glitch is counted.
LEMMA GlitchTyped ==
  ASSUME TypeOK, Glitch
  PROVE  glitches' \in 0 .. MaxGlitches
  BY Constants DEF TypeOK, Glitch

\* A row that fails or observes an event is a row, and keeps its key and an outcome.
LEMMA RowGoesOn ==
  ASSUME NEW row \in RowType
  PROVE  /\ \A f \in SafeFailures :
              /\ Fail(row, f) \in RowType /\ Fail(row, f).key = row.key
              /\ row.status \in Terminal => Fail(row, f).status = row.status
         /\ \A e \in EventType :
              /\ Applied(row, e) \in RowType /\ Applied(row, e).key = row.key
              /\ row.status \in Terminal => Applied(row, e).status = row.status
<1>1. ASSUME NEW f \in SafeFailures
      PROVE  /\ Fail(row, f) \in RowType /\ Fail(row, f).key = row.key
             /\ row.status \in Terminal => Fail(row, f).status = row.status
  BY <1>1 DEF Fail, RowType, Statuses, Terminal
<1>2. ASSUME NEW e \in EventType
      PROVE  /\ Applied(row, e) \in RowType /\ Applied(row, e).key = row.key
             /\ row.status \in Terminal => Applied(row, e).status = row.status
  <2>1. e.seq \in Nat /\ e.status \in Statuses
    BY DEF EventType
  <2> DEFINE status == IF row.status \in Terminal THEN row.status ELSE e.status
  <2>2. Applied(row, e) \in {row, [row EXCEPT !.status = status, !.cursor = e.seq]}
    BY DEF Applied
  <2>3. status \in Statuses
    BY <2>1 DEF RowType
  <2>. HIDE DEF status
  <2>4. [row EXCEPT !.status = status, !.cursor = e.seq] \in RowType
    BY <2>1, <2>3 DEF RowType
  <2>5. QED
    BY <2>2, <2>4 DEF RowType, status
<1>3. QED
  BY <1>1, <1>2

\* What a callback makes of a binding is a binding.
LEMMA SeenTyped ==
  ASSUME NEW b \in BindingType, NEW seq \in Nat \ {0},
         NEW e \in [who : Participants, joined : BOOLEAN]
  PROVE  Seen(b, e, seq) \in BindingType /\ StatusOf(b, e) \in Statuses
<1> DEFINE present == IF e.joined THEN b.present \cup {e.who}
                      ELSE b.present \ {e.who}
           last == [b.last EXCEPT ![e.who] = seq]
<1>1. present \in SUBSET Participants /\ last \in [Participants -> Nat]
  BY DEF BindingType
<1>2. Seen(b, e, seq) \in {b, [b EXCEPT !.last = last, !.present = present]}
  BY DEF Seen
<1>. HIDE DEF present, last
<1>3. [b EXCEPT !.last = last, !.present = present] \in BindingType
  BY <1>1 DEF BindingType
<1>4. StatusOf(b, e) \in Statuses
  BY DEF StatusOf, Statuses, Terminal, SafeFailures
<1>5. QED
  BY <1>2, <1>3, <1>4

\* A sequence with one more element.
LEMMA OneMore ==
  ASSUME NEW S, NEW s \in Seq(S), NEW x \in S
  PROVE  /\ Append(s, x) \in Seq(S) /\ Len(Append(s, x)) = Len(s) + 1
         /\ Len(s) \in Nat
         /\ \A i \in 1 .. Len(s) : s[i] \in S
  OBVIOUS

\* An element of the events of a conference is an event.
LEMMA ElementOfEvents ==
  ASSUME NEW S, NEW s \in Seq(S), NEW i \in 1 .. Len(s)
  PROVE  s[i] \in S
  OBVIOUS

\* The rooms are records with the events of their conferences.
LEMMA RoomsTyped ==
  ASSUME TypeOK, NEW h \in Requests
  PROVE  /\ rooms[h] \in RoomType
         /\ rooms[h].redirected \in BOOLEAN /\ rooms[h].dials \in Nat
         /\ rooms[h].events \in Seq([who : Participants, joined : BOOLEAN])
         /\ Len(rooms[h].events) \in Nat
<1> DEFINE Event == [who : Participants, joined : BOOLEAN]
<1>1. rooms[h] \in [redirected : BOOLEAN, dials : Nat, events : Seq(Event)]
  BY DEF TypeOK, RoomType
<1>. HIDE DEF Event
<1>2. /\ rooms[h].redirected \in BOOLEAN /\ rooms[h].dials \in Nat
      /\ rooms[h].events \in Seq(Event)
  BY <1>1
<1>3. Len(rooms[h].events) \in Nat
  BY <1>2
<1>4. QED
  BY <1>1, <1>2, <1>3 DEF RoomType, Event

\* A room that is redirected into, or dialed from, is a room.
LEMMA RoomEdited ==
  ASSUME NEW room \in RoomType
  PROVE  /\ [room EXCEPT !.redirected = TRUE] \in RoomType
         /\ [room EXCEPT !.dials = room.dials + 1] \in RoomType
<1> DEFINE Events == Seq([who : Participants, joined : BOOLEAN])
<1>1. RoomType = [redirected : BOOLEAN, dials : Nat, events : Events]
  BY DEF RoomType
<1>. HIDE DEF Events
<1>2. room.dials + 1 \in Nat
  BY <1>1
<1>3. QED
  BY <1>1, <1>2

\* A transition that reports events keeps the rooms and the callbacks typed, and
\* what was asked of the provider.
LEMMA ReportTyped ==
  ASSUME TypeOK, Reported, NEW hs \in SUBSET Requests, NEW who \in Participants,
         NEW joined \in BOOLEAN, Report(hs, who, joined)
  PROVE  /\ rooms' \in [Requests -> RoomType]
         /\ callbacks' \subseteq CallbackType
         /\ Reported'
         /\ \A h \in Requests : /\ rooms'[h].redirected = rooms[h].redirected
                                 /\ rooms'[h].dials = rooms[h].dials
<1> DEFINE Event == [who : Participants, joined : BOOLEAN]
           heard == [who |-> who, joined |-> joined]
<1>1. \A h \in Requests :
        /\ rooms[h] \in [redirected : BOOLEAN, dials : Nat, events : Seq(Event)]
        /\ rooms[h].events \in Seq(Event)
        /\ Len(rooms[h].events) \in Nat
  BY RoomsTyped DEF RoomType
<1>2. heard \in Event
  OBVIOUS
<1>3. rooms' = [h \in Requests |->
                  IF h \in hs
                  THEN [rooms[h] EXCEPT !.events = Append(rooms[h].events, heard)]
                  ELSE rooms[h]]
      /\ callbacks' = callbacks \cup
           {[handoff |-> h, seq |-> Len(rooms[h].events) + 1] : h \in hs}
  BY DEF Report
<1>. HIDE DEF heard
<1>4. \A h \in hs : /\ Append(rooms[h].events, heard) \in Seq(Event)
                    /\ Len(Append(rooms[h].events, heard)) = Len(rooms[h].events) + 1
  <2>. HIDE DEF Event
  <2>1. QED
    BY <1>1, <1>2, OneMore
<1>5. \A h \in Requests :
        /\ rooms'[h] \in RoomType
        /\ rooms'[h].redirected = rooms[h].redirected
        /\ rooms'[h].dials = rooms[h].dials
        /\ Len(rooms'[h].events) =
             IF h \in hs THEN Len(rooms[h].events) + 1 ELSE Len(rooms[h].events)
  <2>1. RoomType = [redirected : BOOLEAN, dials : Nat, events : Seq(Event)]
    BY DEF RoomType
  <2>. HIDE DEF Event
  <2>2. QED
    BY <2>1, <1>1, <1>3, <1>4
<1>6. \A h \in hs :
        [handoff |-> h, seq |-> Len(rooms[h].events) + 1] \in CallbackType
  BY <1>1 DEF CallbackType
<1>7. callbacks' \subseteq CallbackType
  BY <1>3, <1>6 DEF TypeOK
<1>8. Reported'
  <2>1. ASSUME NEW c \in callbacks' PROVE c.seq <= Len(rooms'[c.handoff].events)
    <3>1. CASE c \in callbacks
      <4>1. c.handoff \in Requests /\ c.seq \in Nat
            /\ c.seq <= Len(rooms[c.handoff].events)
        BY <3>1 DEF TypeOK, CallbackType, Reported
      <4>2. QED
        BY <4>1, <1>1, <1>5
    <3>2. CASE \E h \in hs : c = [handoff |-> h, seq |-> Len(rooms[h].events) + 1]
      BY <3>2, <1>1, <1>5
    <3>3. QED
      BY <2>1, <3>1, <3>2, <1>3
  <2>2. QED
    BY <2>1 DEF Reported
<1>9. rooms' \in [Requests -> RoomType]
  BY <1>3, <1>5
<1>10. QED
  BY <1>5, <1>7, <1>8, <1>9

\* What a provider call leaves is typed: one more dial at most, or the redirect.
LEMMA ProvidedTyped ==
  ASSUME TypeOK, NEW r \in Requests, NEW room \in RoomType,
         NEW next \in {"dial", "attach"}, Provided(r, room, next)
  PROVE  /\ rooms' \in [Requests -> RoomType]
         /\ stage' \in [Requests -> Stages]
         /\ glitches' \in 0 .. MaxGlitches
<1>1. rooms' \in {rooms, [rooms EXCEPT ![r] = room]}
  BY DEF Provided
<1>2. \E s \in Stages : stage' = [stage EXCEPT ![r] = s]
  BY DEF Provided, Stages, SafeFailures
<1>3. glitches' = glitches \/ Glitch
  BY DEF Provided
<1>4. QED
  BY <1>1, <1>2, <1>3, GlitchTyped DEF TypeOK

\* An outcome is counted.
LEMMA AuditedTyped ==
  ASSUME TypeOK, NEW h \in Requests, NEW row
  PROVE  Audited(h, row) \in [Requests -> Nat]
<1>1. outcomes[h] + 1 \in Nat
  BY DEF TypeOK
<1>2. QED
  BY <1>1 DEF TypeOK, Audited

\* Every step of the server keeps the types.
LEMMA ServeTyped ==
  ASSUME Inv, NEW r \in Requests, Serve(r)
  PROVE  TypeOK'
<1>. USE DEF Inv
<1>1. CASE Refuse(r)
  BY <1>1, FinishTyped DEF Refuse, TypeOK, Errors
<1>2. CASE Reserve(r)
  <2>1. CASE EarlyAnswer(r) = "none"
    BY <1>2, <2>1 DEF Reserve, TypeOK, Stages
  <2>2. CASE EarlyAnswer(r) # "none"
    BY <1>2, <2>2, EarlyAnswerTyped, FinishTyped DEF Reserve, TypeOK
  <2>3. QED
    BY <2>1, <2>2
<1>3. CASE Silence(r)
  BY <1>3 DEF Silence, TypeOK, Stages
<1>4. CASE Commit(r)
  <2> DEFINE row == [key |-> cmd[r].key, expected |-> cmd[r].expected,
                     status |-> "CONNECTING", cursor |-> 0]
  <2>1. cmd[r] \in CommandType
    BY <1>4 DEF Commit, Reserved, TypeOK
  <2>2. row \in RowType
    BY <2>1 DEF CommandType, RowType, Statuses
  <2>3. rows' = [rows EXCEPT ![r] = row] /\ fences' = fences \cup {r}
        /\ stage' = [stage EXCEPT ![r] = "resolve"]
    BY <1>4 DEF Commit, FenceOf
  <2>. HIDE DEF row
  <2>4. rows' \in [Requests -> RowType \cup {None}]
    BY <2>2, <2>3 DEF TypeOK
  <2>5. QED
    BY <1>4, <2>3, <2>4 DEF Commit, TypeOK, Stages
<1>5. CASE Abort(r)
  BY <1>5, FinishTyped, GlitchTyped DEF Abort, TypeOK, Errors
<1>6. CASE Resolve(r)
  <2> DEFINE b(n) == [leg |-> n, attached |-> FALSE, present |-> {},
                      last |-> [p \in Participants |-> 0]]
  <2>1. \A n \in InProgress : b(n) \in BindingType
    BY InProgressTyped DEF BindingType
  <2>2. \/ UNCHANGED bindings
        \/ \E n \in InProgress : bindings' = [bindings EXCEPT ![r] = b(n)]
    BY <1>6 DEF Resolve
  <2>. HIDE DEF b
  <2>3. bindings' \in [Requests -> BindingType \cup {None}]
    BY <2>1, <2>2 DEF TypeOK
  <2>4. stage' \in [Requests -> Stages]
    BY <1>6 DEF Resolve, TypeOK, Stages, SafeFailures
  <2>5. QED
    BY <1>6, <2>3, <2>4 DEF Resolve, TypeOK
<1>7. CASE Redirect(r)
  <2> DEFINE room == [rooms[r] EXCEPT !.redirected = TRUE]
  <2>1. room \in RoomType
    BY RoomsTyped, RoomEdited
  <2>2. \/ Provided(r, room, "dial")
        \/ /\ stage' = [stage EXCEPT ![r] = "FAILED_SAFE"]
           /\ UNCHANGED <<rooms, glitches>>
    BY <1>7 DEF Redirect
  <2>. HIDE DEF room
  <2>3. /\ rooms' \in [Requests -> RoomType]
        /\ stage' \in [Requests -> Stages]
        /\ glitches' \in 0 .. MaxGlitches
    BY <2>1, <2>2, ProvidedTyped DEF TypeOK, Stages, SafeFailures
  <2>4. QED
    BY <1>7, <2>3 DEF Redirect, TypeOK
<1>8. CASE Dial(r)
  <2> DEFINE room == [rooms[r] EXCEPT !.dials = rooms[r].dials + 1]
  <2>1. room \in RoomType
    BY RoomsTyped, RoomEdited
  <2>2. Provided(r, room, "attach")
    BY <1>8 DEF Dial
  <2>. HIDE DEF room
  <2>3. /\ rooms' \in [Requests -> RoomType]
        /\ stage' \in [Requests -> Stages]
        /\ glitches' \in 0 .. MaxGlitches
    BY <2>1, <2>2, ProvidedTyped
  <2>4. QED
    BY <1>8, <2>3 DEF Dial, TypeOK
<1>9. CASE Attach(r)
  <2> DEFINE b == [bindings[r] EXCEPT !.attached = TRUE]
  <2>1. bindings[r] \in BindingType
    BY <1>9 DEF Attach, Reserved, TypeOK
  <2>2. b \in BindingType
    BY <2>1 DEF BindingType
  <2>3. bindings' \in {bindings, [bindings EXCEPT ![r] = b]}
    BY <1>9 DEF Attach
  <2>. HIDE DEF b
  <2>4. bindings' \in [Requests -> BindingType \cup {None}]
    BY <2>2, <2>3 DEF TypeOK
  <2>5. stage' \in [Requests -> Stages] /\ glitches' \in 0 .. MaxGlitches
    BY <1>9, GlitchTyped DEF Attach, TypeOK, Stages, SafeFailures
  <2>6. QED
    BY <1>9, <2>4, <2>5 DEF Attach, TypeOK
<1>10. CASE RecordFailure(r)
  <2>1. rows[r] \in RowType /\ stage[r] \in SafeFailures
    BY <1>10 DEF RecordFailure, Reserved, Begun, TypeOK
  <2>2. rows' = [rows EXCEPT ![r] = Fail(rows[r], stage[r])]
        /\ outcomes' = Audited(r, Fail(rows[r], stage[r]))
    BY <1>10 DEF RecordFailure
  <2>3. Fail(rows[r], stage[r]) \in RowType
    BY <2>1, RowGoesOn
  <2>4. rows' \in [Requests -> RowType \cup {None}]
    BY <2>2, <2>3 DEF TypeOK
  <2>5. outcomes' \in [Requests -> Nat]
    BY <2>2, AuditedTyped
  <2>6. \E a \in Statuses \cup Errors : Finish(r, a)
    BY <1>10 DEF RecordFailure, Errors
  <2>7. QED
    BY <1>10, <2>4, <2>5, <2>6, FinishTyped DEF RecordFailure, TypeOK
<1>11. CASE Unavailable(r)
  BY <1>11, FinishTyped, GlitchTyped DEF Unavailable, TypeOK, Errors
<1>12. CASE ReadBack(r)
  <2>1. rows[r] \in RowType
    BY <1>12 DEF ReadBack, Reserved, Begun, TypeOK
  <2>2. rows[r].status \in Statuses
    BY <2>1 DEF RowType
  <2>3. QED
    BY <1>12, <2>2, FinishTyped DEF ReadBack, TypeOK
<1>13. QED
  BY <1>1, <1>2, <1>3, <1>4, <1>5, <1>6, <1>7, <1>8, <1>9, <1>10, <1>11, <1>12
     DEF Serve

-----------------------------------------------------------------------------
(* The steps of the server and the other conjuncts.                        *)

\* What a step of the server does to the stage of its request, and what it leaves.
LEMMA ServeStep ==
  ASSUME Inv, NEW r \in Requests, Serve(r)
  PROVE  /\ stage[r] \notin {"unsent", "done"}
         /\ \E s \in Stages \ {"unsent"} : stage' = [stage EXCEPT ![r] = s]
         /\ UNCHANGED <<call, cmd, callbacks, mapped, control, restarts>>
<1>1. stage[r] \notin {"unsent", "done"}
  BY DEF Serve, Refuse, Reserve, Silence, Commit, Abort, Resolve, Redirect, Dial,
         Attach, RecordFailure, Unavailable, ReadBack, SafeFailures
<1>2. /\ \E s \in Stages \ {"unsent"} : stage' = [stage EXCEPT ![r] = s]
      /\ UNCHANGED <<call, cmd, callbacks, mapped, control, restarts>>
  <2>1. CASE Refuse(r) \/ Reserve(r) \/ Silence(r) \/ Commit(r) \/ Abort(r)
    BY <2>1 DEF Refuse, Reserve, Silence, Commit, Abort, Finish, Stages
  <2>2. CASE Resolve(r) \/ Redirect(r) \/ Dial(r) \/ Attach(r)
    BY <2>2 DEF Resolve, Redirect, Dial, Attach, Provided, Stages, SafeFailures
  <2>3. CASE RecordFailure(r) \/ Unavailable(r) \/ ReadBack(r)
    BY <2>3 DEF RecordFailure, Unavailable, ReadBack, Finish, Stages
  <2>4. QED
    BY <2>1, <2>2, <2>3 DEF Serve
<1>3. QED
  BY <1>1, <1>2

\* A step of the server leaves the reservations in order.
LEMMA ServeReserves ==
  ASSUME Inv, NEW r \in Requests, Serve(r)
  PROVE  Reserved'
<1>. USE DEF Inv
<1>1. stage \in [Requests -> Stages] /\ rows \in [Requests -> RowType \cup {None}]
      /\ bindings \in [Requests -> BindingType \cup {None}]
      /\ fences \subseteq Requests
  BY DEF TypeOK
<1>2. UNCHANGED <<cmd, mapped>>
  BY ServeStep
<1>3. CASE Refuse(r) \/ Abort(r) \/ Unavailable(r) \/ ReadBack(r)
  <2>1. stage' = [stage EXCEPT ![r] = "done"] /\ UNCHANGED <<rows, fences, bindings>>
    BY <1>3 DEF Refuse, Abort, Unavailable, ReadBack, Finish
  <2>2. stage[r] # "unsent"
    BY ServeStep
  <2>3. QED
    BY <1>1, <1>2, <2>1, <2>2 DEF Reserved, Begun, SafeFailures
<1>4. CASE Reserve(r)
  <2>1. UNCHANGED <<rows, fences, bindings>> /\ stage[r] = "arrived"
    BY <1>4 DEF Reserve
  <2>2. CASE EarlyAnswer(r) = "none"
    <3>1. stage' = [stage EXCEPT ![r] = "write"] /\ ~Locked /\ fences = {}
      BY <1>4, <2>2, FirstReservation DEF Reserve
    <3>2. QED
      BY <1>1, <1>2, <2>1, <3>1 DEF Reserved, Begun, SafeFailures, Locked
  <2>3. CASE EarlyAnswer(r) # "none"
    <3>1. stage' = [stage EXCEPT ![r] = "done"]
      BY <1>4, <2>3 DEF Reserve, Finish
    <3>2. QED
      BY <1>1, <1>2, <2>1, <3>1 DEF Reserved, Begun, SafeFailures
  <2>4. QED
    BY <2>2, <2>3
<1>5. CASE Silence(r)
  BY <1>1, <1>2, <1>5 DEF Silence, Reserved, Begun, SafeFailures
<1>6. CASE Commit(r)
  <2> DEFINE row == [key |-> cmd[r].key, expected |-> cmd[r].expected,
                     status |-> "CONNECTING", cursor |-> 0]
  <2>1. /\ stage[r] = "commit" /\ stage' = [stage EXCEPT ![r] = "resolve"]
        /\ rows' = [rows EXCEPT ![r] = row] /\ fences' = fences \cup {r}
        /\ UNCHANGED bindings
    BY <1>6 DEF Commit, FenceOf
  <2>2. row # None
    BY DEF None
  <2>3. fences = {} /\ \A s \in Requests : stage[s] \in {"write", "commit"} => s = r
    BY <2>1 DEF Reserved
  <2>. HIDE DEF row
  <2>4. QED
    BY <1>1, <1>2, <2>1, <2>2, <2>3 DEF Reserved, Begun, SafeFailures
<1>7. CASE Resolve(r)
  <2> DEFINE b(n) == [leg |-> n, attached |-> FALSE, present |-> {},
                      last |-> [p \in Participants |-> 0]]
  <2>1. \A n \in InProgress : b(n) # None
    BY DEF None
  <2>2. /\ stage[r] = "resolve" /\ UNCHANGED <<rows, fences>>
        /\ \/ /\ \E n \in InProgress : bindings' = [bindings EXCEPT ![r] = b(n)]
              /\ stage' = [stage EXCEPT ![r] = "redirect"]
           \/ /\ stage' = [stage EXCEPT ![r] = "FAILED_SAFE"]
              /\ UNCHANGED bindings
    BY <1>7 DEF Resolve
  <2>. HIDE DEF b
  <2>3. rows[r] # None
    BY <2>2 DEF Reserved, Begun
  <2>4. QED
    BY <1>1, <1>2, <2>1, <2>2, <2>3 DEF Reserved, Begun, SafeFailures
<1>8. CASE Redirect(r) \/ Dial(r)
  <2>1. /\ stage[r] \in {"redirect", "dial"} /\ UNCHANGED <<rows, fences, bindings>>
        /\ \E s \in {"dial", "attach"} \cup SafeFailures : stage' = [stage EXCEPT ![r] = s]
    BY <1>8 DEF Redirect, Dial, Provided, SafeFailures
  <2>2. QED
    BY <1>1, <1>2, <2>1 DEF Reserved, Begun, SafeFailures
<1>9. CASE Attach(r)
  <2> DEFINE b == [bindings[r] EXCEPT !.attached = TRUE]
  <2>1. /\ stage[r] = "attach" /\ UNCHANGED <<rows, fences>>
        /\ bindings' \in {bindings, [bindings EXCEPT ![r] = b]}
        /\ \E s \in {"read", "FAILED_SAFE"} : stage' = [stage EXCEPT ![r] = s]
    BY <1>9 DEF Attach
  <2>2. rows[r] # None
    BY <2>1 DEF Reserved, Begun
  <2>. HIDE DEF b
  <2>3. QED
    BY <1>1, <1>2, <2>1, <2>2 DEF Reserved, Begun, SafeFailures
<1>10. CASE RecordFailure(r)
  <2> DEFINE row == Fail(rows[r], stage[r])
  <2>1. /\ stage[r] \in SafeFailures /\ rows' = [rows EXCEPT ![r] = row]
        /\ stage' = [stage EXCEPT ![r] = "done"] /\ UNCHANGED <<fences, bindings>>
    BY <1>10 DEF RecordFailure, Finish
  <2>2. rows[r] \in RowType
    BY <1>1, <2>1 DEF Reserved, Begun
  <2>3. row # None
    BY <2>1, <2>2, RowGoesOn, NoneIsNoRecord
  <2>. HIDE DEF row
  <2>4. QED
    BY <1>1, <1>2, <2>1, <2>2, <2>3, NoneIsNoRecord DEF Reserved, Begun, SafeFailures
<1>11. QED
  BY <1>3, <1>4, <1>5, <1>6, <1>7, <1>8, <1>9, <1>10 DEF Serve

\* A step of the server asks the provider for one leg and one coordinator.
LEMMA ServeAsks ==
  ASSUME Inv, NEW r \in Requests, Serve(r)
  PROVE  Asked' /\ \A h \in Requests : rooms'[h].events = rooms[h].events
<1>. USE DEF Inv
<1>1. stage \in [Requests -> Stages] /\ fences \subseteq Requests
  BY DEF TypeOK
<1>2. fences \subseteq fences'
  BY DEF Serve, Refuse, Reserve, Silence, Commit, Abort, Resolve, Redirect, Dial,
         Attach, RecordFailure, Unavailable, ReadBack, FenceOf
<1>3. CASE UNCHANGED rooms
  <2>1. rooms[r].dials > 0 => stage[r] \in {"attach", "read"} \cup SafeFailures
    BY ServeStep DEF Asked
  <2>2. stage[r] \in {"attach", "read"} \cup SafeFailures =>
          \E s \in {"read", "done"} \cup SafeFailures : stage' = [stage EXCEPT ![r] = s]
    BY <1>1, <1>3 DEF Serve, Refuse, Reserve, Silence, Commit, Abort, Resolve,
         Redirect, Dial, Attach, RecordFailure, Unavailable, ReadBack, Finish,
         SafeFailures, Provided
  <2>3. \E s \in Stages : stage' = [stage EXCEPT ![r] = s]
    BY ServeStep
  <2>4. QED
    BY <1>1, <1>2, <1>3, <2>1, <2>2, <2>3 DEF Asked
<1>4. CASE Redirect(r) /\ rooms' # rooms
  <2>1. /\ rooms' = [rooms EXCEPT ![r] = [rooms[r] EXCEPT !.redirected = TRUE]]
        /\ stage[r] = "redirect"
        /\ \E s \in Stages : stage' = [stage EXCEPT ![r] = s]
    BY <1>4 DEF Redirect, Provided, Stages, SafeFailures
  <2>2. r \in fences /\ ~(rooms[r].dials > 0)
    BY <2>1 DEF Reserved, Begun, Asked, SafeFailures
  <2>3. \A h \in Requests : /\ rooms'[h].dials = rooms[h].dials
                            /\ rooms'[h].events = rooms[h].events
                            /\ h # r => rooms'[h] = rooms[h]
    BY <2>1, RoomsTyped DEF TypeOK, RoomType
  <2>4. QED
    BY <1>1, <1>2, <2>1, <2>2, <2>3 DEF Asked
<1>5. CASE Dial(r) /\ rooms' # rooms
  <2>1. /\ rooms' = [rooms EXCEPT ![r] = [rooms[r] EXCEPT !.dials = rooms[r].dials + 1]]
        /\ stage[r] = "dial"
        /\ \E s \in {"attach"} \cup SafeFailures : stage' = [stage EXCEPT ![r] = s]
    BY <1>5 DEF Dial, Provided
  <2>2. r \in fences /\ rooms[r].dials = 0
    BY <2>1, RoomsTyped DEF Reserved, Begun, Asked, SafeFailures
  <2>3. \A h \in Requests : /\ rooms'[h].events = rooms[h].events
                            /\ h # r => rooms'[h] = rooms[h]
    BY <2>1, RoomsTyped DEF TypeOK, RoomType
  <2>4. rooms'[r].dials = 1
    BY <2>1, <2>2, RoomsTyped DEF TypeOK, RoomType
  <2>5. QED
    BY <1>1, <1>2, <2>1, <2>2, <2>3, <2>4 DEF Asked
<1>6. CASE ~(Redirect(r) \/ Dial(r))
  <2>1. UNCHANGED rooms
    BY <1>6 DEF Serve, Refuse, Reserve, Silence, Commit, Abort, Resolve,
         Attach, RecordFailure, Unavailable, ReadBack
  <2>2. QED
    BY <2>1, <1>3
<1>7. QED
  BY <1>3, <1>4, <1>5, <1>6

\* What a step may do to the handoffs: keep them with their keys and outcomes, and
\* audit each outcome that it brings.
RowsGoOn ==
  /\ \A h \in Requests :
       rows[h] # None =>
         /\ rows'[h] # None /\ rows'[h].key = rows[h].key
         /\ rows[h].status \in Terminal => rows'[h].status = rows[h].status
  /\ AuditedOnce'

\* A handoff whose row goes on keeps its outcome, audited once.
LEMMA OneRowGoesOn ==
  ASSUME TypeOK, AuditedOnce, NEW h \in Requests, NEW row \in RowType,
         rows[h] \in RowType,
         row.key = rows[h].key,
         rows[h].status \in Terminal => row.status = rows[h].status,
         rows' = [rows EXCEPT ![h] = row],
         outcomes' = Audited(h, row)
  PROVE  RowsGoOn
<1>1. row # None /\ rows[h] # None
  BY NoneIsNoRecord
<1>2. \A g \in Requests : rows'[g] = IF g = h THEN row ELSE rows[g]
  BY DEF TypeOK
<1>3. outcomes[h] = IF rows[h].status \in Terminal THEN 1 ELSE 0
  BY <1>1 DEF AuditedOnce
<1>4. outcomes'[h] = IF row.status \in Terminal THEN 1 ELSE 0
  BY <1>3 DEF Audited, TypeOK
<1>5. \A g \in Requests : g # h => outcomes'[g] = outcomes[g]
  BY DEF Audited, TypeOK
<1>6. AuditedOnce'
  BY <1>1, <1>2, <1>4, <1>5 DEF AuditedOnce
<1>7. QED
  BY <1>1, <1>2, <1>6 DEF RowsGoOn

\* The handoffs go on in a step of the server.
LEMMA ServeGoesOn ==
  ASSUME Inv, NEW r \in Requests, Serve(r)
  PROVE  RowsGoOn
<1>. USE DEF Inv
<1>1. CASE Commit(r)
  <2> DEFINE row == [key |-> cmd[r].key, expected |-> cmd[r].expected,
                     status |-> "CONNECTING", cursor |-> 0]
  <2>1. /\ stage[r] = "commit" /\ rows' = [rows EXCEPT ![r] = row]
        /\ UNCHANGED outcomes
    BY <1>1 DEF Commit
  <2>2. rows[r] = None
    BY <2>1 DEF Reserved
  <2>3. row.status \notin Terminal
    BY DEF Terminal, SafeFailures
  <2>. HIDE DEF row
  <2>4. \A g \in Requests : rows'[g] = IF g = r THEN row ELSE rows[g]
    BY <2>1 DEF TypeOK
  <2>5. QED
    BY <2>1, <2>2, <2>3, <2>4 DEF RowsGoOn, AuditedOnce
<1>2. CASE RecordFailure(r)
  <2>1. rows[r] \in RowType /\ stage[r] \in SafeFailures
    BY <1>2 DEF RecordFailure, Reserved, Begun, TypeOK
  <2>2. rows' = [rows EXCEPT ![r] = Fail(rows[r], stage[r])]
        /\ outcomes' = Audited(r, Fail(rows[r], stage[r]))
    BY <1>2 DEF RecordFailure
  <2>3. QED
    BY <2>1, <2>2, RowGoesOn, OneRowGoesOn
<1>3. CASE ~(Commit(r) \/ RecordFailure(r))
  <2>1. UNCHANGED <<rows, outcomes>>
    BY <1>3 DEF Serve, Refuse, Reserve, Silence, Abort, Resolve, Redirect, Dial,
         Attach, Unavailable, ReadBack
  <2>2. QED
    BY <2>1 DEF RowsGoOn, AuditedOnce
<1>4. QED
  BY <1>1, <1>2, <1>3

\* What the page and the requests know stays true where the handoffs go on.
LEMMA KnownGoesOn ==
  ASSUME Inv, RowsGoOn, rows' \in [Requests -> RowType \cup {None}]
  PROVE  /\ \A h \in Handoffs : h \in Handoffs' /\ rows'[h].key = rows[h].key
         /\ control.handoff # Nobody => rows'[control.handoff] # None
  BY DEF Inv, RowsGoOn, Handoffs, Followed, TypeOK, ControlType

\* A step of the server answers no request with a handoff that is not there.
LEMMA ServeFollows ==
  ASSUME Inv, NEW r \in Requests, Serve(r), TypeOK'
  PROVE  Followed'
<1>. USE DEF Inv
<1>1. /\ stage[r] \notin {"unsent", "done"}
      /\ UNCHANGED <<call, cmd, control>>
      /\ \E s \in Stages \ {"unsent"} : stage' = [stage EXCEPT ![r] = s]
  BY ServeStep
<1>2. stage \in [Requests -> Stages] /\ reply \in [Requests -> {"none"} \cup Statuses \cup Errors]
      /\ rows \in [Requests -> RowType \cup {None}]
      /\ control.waiting \in Requests \cup {Nobody}
  BY DEF TypeOK, ControlType
<1>3. /\ \A h \in Handoffs : h \in Handoffs' /\ rows'[h].key = rows[h].key
      /\ control.handoff # Nobody => rows'[control.handoff] # None
  BY ServeGoesOn, KnownGoesOn DEF TypeOK
<1>4. \A q \in Requests \ {r} : reply'[q] = reply[q] /\ stage'[q] = stage[q]
  <2>1. UNCHANGED reply \/ \E a : Finish(r, a)
    <3>1. CASE Refuse(r) \/ Reserve(r) \/ Silence(r) \/ Commit(r) \/ Abort(r)
      BY <3>1 DEF Refuse, Reserve, Silence, Commit, Abort
    <3>2. CASE Resolve(r) \/ Redirect(r) \/ Dial(r) \/ Attach(r)
      BY <3>2 DEF Resolve, Redirect, Dial, Attach
    <3>3. CASE RecordFailure(r)
      BY <3>3 DEF RecordFailure
    <3>4. CASE Unavailable(r) \/ ReadBack(r)
      BY <3>4 DEF Unavailable, ReadBack
    <3>5. QED
      BY <3>1, <3>2, <3>3, <3>4 DEF Serve
  <2>2. QED
    BY <1>1, <1>2, <2>1 DEF Finish
<1>5. stage'[r] \in Begun => rows'[r] # None /\ rows'[r].key = cmd[r].key
  <2>1. CASE Commit(r)
    BY <2>1 DEF Commit, TypeOK, None
  <2>2. CASE ~Commit(r) /\ stage'[r] \in Begun
    <3>1. stage[r] \in Begun
      BY <2>2, <1>2 DEF Serve, Refuse, Reserve, Silence, Abort, Resolve, Redirect, Dial,
         Attach, RecordFailure, Unavailable, ReadBack, Finish, Begun, SafeFailures,
         Provided
    <3>2. rows[r] # None /\ rows[r].key = cmd[r].key
      BY <3>1 DEF Reserved, Followed
    <3>3. QED
      BY <3>2, ServeGoesOn DEF RowsGoOn
  <2>3. QED
    BY <2>1, <2>2
<1>6. reply'[r] \in Statuses => \E h \in Handoffs : rows[h].key = cmd[r].key
  <2>1. CASE Reserve(r) /\ EarlyAnswer(r) # "none"
    <3>1. reply'[r] = EarlyAnswer(r)
      BY <2>1, <1>2 DEF Reserve, Finish
    <3>2. EarlyAnswer(r) \in Statuses => \E h \in Handoffs : rows[h].key = cmd[r].key
      <4>1. "conflict" \notin Statuses /\ "refused" \notin Statuses /\ "none" \notin Statuses
        BY DEF Statuses, Terminal, SafeFailures
      <4>2. QED
        BY <4>1 DEF EarlyAnswer
    <3>3. QED
      BY <3>1, <3>2
  <2>2. CASE ReadBack(r)
    <3>1. r \in Handoffs /\ rows[r].key = cmd[r].key
      BY <2>2 DEF ReadBack, Reserved, Followed, Begun, Handoffs
    <3>2. QED
      BY <3>1
  <2>3. CASE ~ReadBack(r) /\ ~(Reserve(r) /\ EarlyAnswer(r) # "none")
    <3>1. reply'[r] = reply[r] \/ reply'[r] \in {"refused", "timeout"}
      BY <2>3, <1>2 DEF Serve, Refuse, Reserve, Silence, Commit, Abort, Resolve, Redirect, Dial,
         Attach, RecordFailure, Unavailable, Finish
    <3>2. "refused" \notin Statuses /\ "timeout" \notin Statuses
      BY DEF Statuses, Terminal, SafeFailures
    <3>3. QED
      BY <3>1, <3>2 DEF Followed
  <2>4. QED
    BY <2>1, <2>2, <2>3
<1>7. ASSUME NEW q \in Requests
      PROVE  /\ stage'[q] = "unsent" => reply'[q] = "none"
             /\ stage'[q] \in Begun => rows'[q].key = cmd[q].key
             /\ reply'[q] \in Statuses => \E h \in Handoffs' : rows'[h].key = cmd[q].key
  <2>1. CASE q = r
    BY <2>1, <1>1, <1>2, <1>3, <1>5, <1>6
  <2>2. CASE q # r
    <3>1. stage[q] \in Begun => q \in Handoffs /\ rows[q].key = cmd[q].key
      BY DEF Reserved, Followed, Handoffs
    <3>2. QED
      BY <2>2, <3>1, <1>3, <1>4 DEF Followed
  <2>3. QED
    BY <2>1, <2>2
<1>8. control.waiting # Nobody => stage'[control.waiting] # "unsent"
  BY <1>1, <1>2 DEF Followed
<1>9. QED
  BY <1>1, <1>3, <1>7, <1>8 DEF Followed

\* A step of the server keeps the invariant.
LEMMA ServeKeeps ==
  ASSUME Inv, NEW r \in Requests, Serve(r)
  PROVE  Inv' /\ RowsGoOn
<1>1. Reported'
  <2>1. UNCHANGED callbacks
    BY ServeStep
  <2>2. \A c \in callbacks : c.handoff \in Requests
    BY DEF Inv, TypeOK, CallbackType
  <2>3. \A h \in Requests : rooms'[h].events = rooms[h].events
    BY ServeAsks
  <2>4. QED
    BY <2>1, <2>2, <2>3 DEF Inv, Reported
<1>2. QED
  BY <1>1, ServeTyped, ServeReserves, ServeAsks, ServeGoesOn, ServeFollows
     DEF Inv, RowsGoOn

-----------------------------------------------------------------------------
(* The other steps.                                                        *)

\* A request that is sent, by a client or by the page.
LEMMA SendKeeps ==
  ASSUME Inv, NEW r \in Requests, NEW c \in CommandType, Send(r, c),
         UNCHANGED <<call, reply, rows, fences, silenced, bindings, rooms,
                     callbacks, mapped, outcomes, restarts, glitches>>,
         control' \in ControlType,
         control'.handoff = control.handoff,
         control'.waiting = control.waiting
           \/ (control'.waiting = r /\ c.key = ControlKey)
  PROVE  Inv' /\ RowsGoOn
<1>. USE DEF Inv
<1>1. /\ stage \in [Requests -> Stages]
      /\ cmd \in [Requests -> CommandType \cup {None}]
      /\ control.waiting \in Requests \cup {Nobody}
      /\ r # Nobody
  BY Constants DEF TypeOK, ControlType
<1>2. /\ stage[r] = "unsent" /\ stage' = [stage EXCEPT ![r] = "arrived"]
      /\ cmd' = [cmd EXCEPT ![r] = c] /\ c # None
  BY NoneIsNoRecord DEF Send
<1>3. TypeOK'
  BY <1>1, <1>2 DEF TypeOK, Stages
<1>4. Reserved'
  BY <1>1, <1>2 DEF Reserved, Begun, SafeFailures
<1>5. Asked'
  BY <1>1, <1>2 DEF Asked, SafeFailures
<1>6. AuditedOnce' /\ Reported' /\ RowsGoOn
  BY DEF AuditedOnce, Reported, RowsGoOn
<1>7. ASSUME NEW q \in Requests
      PROVE  /\ stage'[q] = "unsent" => reply'[q] = "none"
             /\ stage'[q] \in Begun => rows'[q].key = cmd'[q].key
             /\ reply'[q] \in Statuses => \E h \in Handoffs' : rows'[h].key = cmd'[q].key
  <2>1. Handoffs' = Handoffs
    BY DEF Handoffs
  <2>2. CASE q = r
    <3>1. reply'[q] = "none" /\ stage'[q] = "arrived"
      BY <2>2, <1>1, <1>2 DEF Followed
    <3>2. QED
      BY <3>1 DEF Begun, SafeFailures, Statuses, Terminal
  <2>3. CASE q # r
    BY <2>1, <2>3, <1>1, <1>2 DEF Followed
  <2>4. QED
    BY <2>2, <2>3
<1>8. control'.waiting # Nobody =>
        stage'[control'.waiting] # "unsent" /\ cmd'[control'.waiting].key = ControlKey
  BY <1>1, <1>2 DEF Followed
<1>9. control'.handoff # Nobody => rows'[control'.handoff] # None
  BY DEF Followed
<1>10. Followed'
  BY <1>7, <1>8, <1>9 DEF Followed
<1>11. QED
  BY <1>3, <1>4, <1>5, <1>6, <1>10

\* A step of the call, of the conference or of the page that leaves the server.
LEMMA OutsideKeeps ==
  ASSUME Inv, UNCHANGED serverVars,
         \/ UNCHANGED <<rooms, callbacks>>
         \/ \E hs \in SUBSET Requests, who \in Participants, joined \in BOOLEAN :
              Report(hs, who, joined),
         call' \in CallType, control' \in ControlType,
         glitches' \in 0 .. MaxGlitches, UNCHANGED restarts,
         control'.waiting \in {control.waiting, Nobody},
         control'.handoff # Nobody => rows[control'.handoff] # None
  PROVE  Inv' /\ RowsGoOn
<1>. USE DEF Inv, serverVars
<1>1. /\ rooms' \in [Requests -> RoomType]
      /\ callbacks' \subseteq CallbackType
      /\ Reported'
      /\ \A h \in Requests : /\ rooms'[h].redirected = rooms[h].redirected
                             /\ rooms'[h].dials = rooms[h].dials
  <2>1. CASE UNCHANGED <<rooms, callbacks>>
    BY <2>1 DEF TypeOK, Reported
  <2>2. CASE ~UNCHANGED <<rooms, callbacks>>
    <3>1. PICK hs \in SUBSET Requests, who \in Participants, joined \in BOOLEAN :
            Report(hs, who, joined)
      BY <2>2
    <3>2. QED
      BY <3>1, ReportTyped
  <2>3. QED
    BY <2>1, <2>2
<1>2. TypeOK'
  BY <1>1 DEF TypeOK
<1>3. Reserved'
  BY DEF Reserved
<1>4. Asked'
  BY <1>1 DEF Asked
<1>5. AuditedOnce' /\ RowsGoOn
  BY DEF AuditedOnce, RowsGoOn
<1>6. Followed'
  BY DEF Followed, Handoffs
<1>7. QED
  BY <1>1, <1>2, <1>3, <1>4, <1>5, <1>6

\* The parts of the call and of the control.
LEMMA Parts ==
  ASSUME TypeOK
  PROVE  /\ call.attempt \in 1 .. MaxCalls
         /\ call.leg \in [1 .. MaxCalls -> Progress]
         /\ call.status \in [1 .. MaxCalls -> Progress]
         /\ control.status \in Shown /\ control.polled \in Statuses \cup {"none"}
         /\ control.ready \in 0 .. MaxCalls /\ control.attempt \in 0 .. MaxCalls
         /\ control.handoff \in Requests \cup {Nobody}
         /\ control.waiting \in Requests \cup {Nobody}
  BY DEF TypeOK, CallType, ControlType

\* The call and the conference keep the invariant.
LEMMA ConferenceKeeps ==
  ASSUME Inv,
         \/ FollowCall \/ Redial
         \/ \E n \in 1 .. MaxCalls : Answer(n) \/ HangUp(n)
         \/ \E h \in Requests :
              RemoteJoins(h) \/ CoordinatorJoins(h) \/ CoordinatorLeaves(h)
  PROVE  Inv' /\ RowsGoOn
<1>. USE DEF Inv
<1>1. /\ UNCHANGED serverVars /\ UNCHANGED <<control, restarts, glitches>>
      /\ \/ UNCHANGED <<rooms, callbacks>>
         \/ \E hs \in SUBSET Requests, who \in Participants, joined \in BOOLEAN :
              Report(hs, who, joined)
  <2>1. CASE FollowCall \/ Redial \/ \E n \in 1 .. MaxCalls : Answer(n)
    BY <2>1 DEF Answer, FollowCall, Redial
  <2>2. CASE \E n \in 1 .. MaxCalls : HangUp(n)
    BY <2>2 DEF HangUp, Participants
  <2>3. ASSUME NEW h \in Requests,
               RemoteJoins(h) \/ CoordinatorJoins(h) \/ CoordinatorLeaves(h)
        PROVE  /\ UNCHANGED serverVars /\ UNCHANGED <<control, restarts, glitches>>
               /\ \E hs \in SUBSET Requests, who \in Participants, joined \in BOOLEAN :
                    Report(hs, who, joined)
    <3>1. {h} \in SUBSET Requests
      OBVIOUS
    <3>2. QED
      BY <2>3, <3>1 DEF RemoteJoins, CoordinatorJoins, CoordinatorLeaves, Participants
  <2>4. QED
    BY <2>1, <2>2, <2>3
<1>2. call' \in CallType
  <2>1. CASE \E n \in 1 .. MaxCalls : Answer(n) \/ HangUp(n)
    <3>1. PICK n \in 1 .. MaxCalls : Answer(n) \/ HangUp(n)
      BY <2>1
    <3>2. \E p \in Progress : call' = [call EXCEPT !.leg[n] = p]
      BY <3>1 DEF Answer, HangUp, Progress
    <3>3. PICK p \in Progress : call' = [call EXCEPT !.leg[n] = p]
      BY <3>2
    <3> DEFINE legs == [call.leg EXCEPT ![n] = p]
    <3>4. legs \in [1 .. MaxCalls -> Progress] /\ call' = [call EXCEPT !.leg = legs]
      BY <3>3, Parts
    <3>. HIDE DEF legs
    <3>5. QED
      BY <3>4 DEF TypeOK, CallType
  <2>2. CASE FollowCall
    <3>1. call.leg[call.attempt] \in Progress
      BY Parts
    <3>2. QED
      BY <2>2, <3>1 DEF FollowCall, TypeOK, CallType
  <2>3. CASE Redial
    <3>1. call.attempt + 1 \in 1 .. MaxCalls /\ "ringing" \in Progress
      BY <2>3, Parts, Constants DEF Redial, Progress
    <3>2. QED
      BY <2>3, <3>1 DEF Redial, TypeOK, CallType
  <2>4. CASE \E h \in Requests :
               RemoteJoins(h) \/ CoordinatorJoins(h) \/ CoordinatorLeaves(h)
    BY <2>4 DEF RemoteJoins, CoordinatorJoins, CoordinatorLeaves, TypeOK
  <2>5. QED
    BY <2>1, <2>2, <2>3, <2>4
<1>3. control' \in ControlType /\ glitches' \in 0 .. MaxGlitches
  BY <1>1 DEF TypeOK
<1>4. QED
  BY <1>1, <1>2, <1>3, OutsideKeeps DEF Followed

\* The page keeps the invariant.
LEMMA PageKeeps ==
  ASSUME Inv, ReadReadiness \/ ControlHears \/ ControlLoses \/ Poll
  PROVE  Inv' /\ RowsGoOn
<1>. USE DEF Inv
<1>1. UNCHANGED <<call, serverVars, rooms, callbacks, restarts>>
      /\ glitches' \in 0 .. MaxGlitches
  BY GlitchTyped DEF ReadReadiness, ControlHears, ControlLoses, Poll, TypeOK
<1>2. call' \in CallType
  BY <1>1 DEF TypeOK
<1>3. CASE ReadReadiness
  <2>1. control' = [control EXCEPT !.ready = call.attempt]
    BY <1>3 DEF ReadReadiness
  <2>2. control \in ControlType /\ call.attempt \in 0 .. MaxCalls
    BY Constants DEF TypeOK, CallType
  <2>3. control' \in ControlType /\ control'.waiting = control.waiting
        /\ control'.handoff = control.handoff
    BY <2>1, <2>2 DEF ControlType
  <2>4. QED
    BY <1>1, <1>2, <2>3, OutsideKeeps DEF Followed
<1>4. CASE ControlLoses
  <2>1. control' = [control EXCEPT !.status = "FAILED_SAFE", !.waiting = Nobody]
    BY <1>4 DEF ControlLoses
  <2>2. control' \in ControlType /\ control'.waiting = Nobody
        /\ control'.handoff = control.handoff
    BY <2>1, Parts
       DEF TypeOK, ControlType, Shown, Statuses, Terminal, SafeFailures
  <2>3. QED
    BY <1>1, <1>2, <2>2, OutsideKeeps DEF Followed
<1>5. CASE Poll
  <2>1. control.handoff \in Requests /\ rows[control.handoff] \in RowType
    BY <1>5, Parts DEF Poll, Followed, TypeOK
  <2>2. rows[control.handoff].status \in Statuses
    BY <2>1 DEF RowType
  <2>3. control' = [control EXCEPT !.polled = rows[control.handoff].status]
    BY <1>5 DEF Poll
  <2>4. control' \in ControlType /\ control'.waiting = control.waiting
        /\ control'.handoff = control.handoff
    BY <2>2, <2>3, Parts DEF TypeOK, ControlType
  <2>5. QED
    BY <1>1, <1>2, <2>4, OutsideKeeps DEF Followed
<1>6. CASE ControlHears
  <2> DEFINE r == control.waiting
             a == reply[r]
             g == CHOOSE h \in Handoffs : rows[h].key = ControlKey
             e == ErrorShown(a)
  <2>1. r \in Requests /\ stage[r] = "done" /\ cmd[r].key = ControlKey
    BY <1>6, Parts DEF ControlHears, Followed
  <2>2. a \in Statuses => g \in Requests /\ rows[g] # None
    <3>1. a \in Statuses => \E h \in Handoffs : rows[h].key = ControlKey
      BY <2>1 DEF Followed
    <3>2. QED
      BY <3>1 DEF Handoffs
  <2>3. \/ /\ a \in Statuses
           /\ control' = [control EXCEPT !.status = a, !.waiting = Nobody, !.handoff = g]
        \/ control' = [control EXCEPT !.status = e, !.waiting = Nobody]
    BY <1>6 DEF ControlHears
  <2>4. e \in Shown
    BY DEF ErrorShown, Shown, Statuses, Terminal, SafeFailures
  <2>. HIDE DEF r, a, g, e
  <2>5. /\ control' \in ControlType /\ control'.waiting = Nobody
        /\ control'.handoff = control.handoff
             \/ (control'.handoff \in Requests /\ rows[control'.handoff] # None)
    <3>1. control \in ControlType
      BY DEF TypeOK
    <3>2. CASE a \in Statuses /\ control' =
                 [control EXCEPT !.status = a, !.waiting = Nobody, !.handoff = g]
      <4>1. a \in Shown /\ g \in Requests /\ rows[g] # None
        BY <3>2, <2>2 DEF Shown
      <4>2. control' \in ControlType /\ control'.waiting = Nobody /\ control'.handoff = g
        BY <3>1, <3>2, <4>1 DEF ControlType
      <4>3. QED
        BY <4>1, <4>2
    <3>3. CASE control' =
                 [control EXCEPT !.status = e, !.waiting = Nobody]
      <4>1. /\ control' \in ControlType /\ control'.waiting = Nobody
            /\ control'.handoff = control.handoff
        BY <3>1, <3>3, <2>4 DEF ControlType
      <4>2. QED
        BY <4>1
    <3>4. QED
      BY <2>3, <3>2, <3>3
  <2>6. QED
    BY <1>1, <1>2, <2>5, OutsideKeeps DEF Followed
<1>7. QED
  BY <1>3, <1>4, <1>5, <1>6

\* The page asks for a takeover.
LEMMA TakeOverKeeps ==
  ASSUME Inv, NEW r \in Requests, TakeOver(r)
  PROVE  Inv' /\ RowsGoOn
<1> DEFINE expected == IF control.attempt = 0 THEN control.ready ELSE control.attempt
           c == [key |-> ControlKey, expected |-> expected]
<1>1. expected \in 1 .. MaxCalls
  BY Parts, Constants DEF TakeOver, Inv
<1>2. c \in CommandType /\ c.key = ControlKey
  BY <1>1, Constants DEF CommandType
<1>3. /\ Send(r, c)
      /\ control' = [control EXCEPT !.status = "PROCESSING", !.waiting = r,
                                    !.attempt = expected]
      /\ UNCHANGED <<call, reply, rows, fences, silenced, bindings, rooms,
                     callbacks, mapped, outcomes, restarts, glitches>>
  BY DEF TakeOver
<1>. HIDE DEF c, expected
<1>4. /\ control' \in ControlType /\ control'.waiting = r
      /\ control'.handoff = control.handoff
  <2>1. control \in ControlType /\ "PROCESSING" \in Shown /\ expected \in 0 .. MaxCalls
    BY <1>1, Constants DEF Inv, TypeOK, Shown
  <2>2. QED
    BY <1>3, <2>1 DEF ControlType
<1>5. QED
  BY <1>2, <1>3, <1>4, SendKeeps

\* Another client asks for a takeover.
LEMMA RequestKeeps ==
  ASSUME Inv, NEW r \in Requests, NEW c \in CommandType, Request(r, c)
  PROVE  Inv' /\ RowsGoOn
<1>1. /\ Send(r, c)
      /\ UNCHANGED <<call, reply, rows, fences, silenced, bindings, rooms,
                     callbacks, mapped, outcomes, restarts, glitches>>
  BY DEF Request
<1>2. control' = control
  BY DEF Request
<1>3. /\ control' \in ControlType
      /\ control'.handoff = control.handoff
      /\ control'.waiting = control.waiting
           \/ (control'.waiting = r /\ c.key = ControlKey)
  BY <1>2 DEF Inv, TypeOK
<1>4. QED
  BY <1>1, <1>3, SendKeeps

\* The first transaction of a callback.
LEMMA MapCallbackKeeps ==
  ASSUME Inv, NEW c \in callbacks, MapCallback(c)
  PROVE  Inv' /\ RowsGoOn
<1> DEFINE h == c.handoff
           event == rooms[h].events[c.seq]
           b == Seen(bindings[h], event, c.seq)
           told == [handoff |-> h, seq |-> c.seq, status |-> StatusOf(b, event)]
<1>. USE DEF Inv
<1>1. h \in Requests /\ c.seq \in Nat \ {0} /\ c.seq <= Len(rooms[h].events)
  BY DEF TypeOK, CallbackType, Reported
<1>2. /\ bindings[h] # None
      /\ bindings' = [bindings EXCEPT ![h] = b]
      /\ mapped' = mapped \cup {told}
      /\ UNCHANGED <<call, cmd, stage, reply, rows, fences, silenced,
                     rooms, callbacks, outcomes, control, restarts, glitches>>
  BY DEF MapCallback
<1>3. event \in [who : Participants, joined : BOOLEAN]
  <2> DEFINE Event == [who : Participants, joined : BOOLEAN]
  <2> DEFINE n == c.seq
  <2>1. rooms[h].events \in Seq(Event) /\ n \in 1 .. Len(rooms[h].events)
    <3>1. rooms[h].events \in Seq(Event) /\ Len(rooms[h].events) \in Nat
      BY <1>1, RoomsTyped
    <3>2. n \in Nat \ {0} /\ n <= Len(rooms[h].events)
      BY <1>1
    <3>. HIDE DEF n, Event, h
    <3>3. QED
      BY <3>1, <3>2
  <2> DEFINE events == rooms[h].events
  <2>2. event = events[n]
    OBVIOUS
  <2>. HIDE DEF Event, h, n, events, event
  <2>3. events[n] \in Event
    BY <2>1, ElementOfEvents DEF events
  <2>4. QED
    BY <2>2, <2>3 DEF Event
<1>4. bindings[h] \in BindingType
  BY <1>1, <1>2 DEF TypeOK
<1>. HIDE DEF event
<1>5. b \in BindingType
  BY <1>1, <1>3, <1>4, SeenTyped
<1>6. StatusOf(b, event) \in Statuses
  BY <1>1, <1>3, <1>5, SeenTyped
<1>7. told \in EventType /\ told.handoff = h
  BY <1>1, <1>6 DEF EventType
<1>. HIDE DEF b, told
<1>8. rows[h] # None
  BY <1>1, <1>2 DEF Reserved
<1>9. TypeOK'
  BY <1>1, <1>2, <1>5, <1>7 DEF TypeOK
<1>. HIDE DEF h
<1>10. Reserved'
  <2>1. \A g \in Requests : bindings'[g] # None => rows[g] # None
    BY <1>1, <1>2, <1>8 DEF Reserved, TypeOK
  <2>2. \A g \in Requests : bindings[g] # None => bindings'[g] # None
    BY <1>2, <1>5, NoneIsNoRecord DEF TypeOK
  <2>3. \A e \in mapped' : rows[e.handoff] # None
    BY <1>2, <1>7, <1>8 DEF Reserved
  <2>4. QED
    BY <1>2, <2>1, <2>2, <2>3 DEF Reserved
<1>11. Asked' /\ AuditedOnce' /\ Reported' /\ RowsGoOn
  BY <1>2 DEF Asked, AuditedOnce, Reported, RowsGoOn
<1>12. Followed'
  BY <1>2 DEF Followed, Handoffs
<1>13. QED
  BY <1>9, <1>10, <1>11, <1>12

\* The second transaction of a callback, done or failed.
LEMMA ObserveKeeps ==
  ASSUME Inv, NEW e \in mapped, Observe(e) \/ ObserveFails(e)
  PROVE  Inv' /\ RowsGoOn
<1>. USE DEF Inv
<1>1. CASE ObserveFails(e)
  <2>1. /\ mapped' = mapped \ {e}
        /\ UNCHANGED <<call, cmd, stage, reply, rows, fences, silenced, bindings,
                       rooms, callbacks, outcomes, control, restarts>>
        /\ glitches' \in 0 .. MaxGlitches
    BY <1>1, GlitchTyped DEF ObserveFails
  <2>2. TypeOK'
    BY <2>1 DEF TypeOK
  <2>3. Reserved'
    BY <2>1 DEF Reserved
  <2>4. Asked' /\ AuditedOnce' /\ Reported' /\ RowsGoOn
    BY <2>1 DEF Asked, AuditedOnce, Reported, RowsGoOn
  <2>5. Followed'
    BY <2>1 DEF Followed, Handoffs
  <2>6. QED
    BY <2>2, <2>3, <2>4, <2>5
<1>2. CASE Observe(e)
  <2> DEFINE h == e.handoff
             row == Applied(rows[h], e)
  <2>1. /\ rows' = [rows EXCEPT ![h] = row]
        /\ outcomes' = Audited(h, row)
        /\ mapped' = mapped \ {e}
        /\ callbacks' \subseteq callbacks
        /\ UNCHANGED <<call, cmd, stage, reply, fences, silenced,
                       bindings, rooms, control, restarts, glitches>>
    BY <1>2 DEF Observe
  <2>2. e \in EventType /\ h \in Requests /\ rows[h] # None /\ rows[h] \in RowType
    BY DEF TypeOK, EventType, Reserved
  <2>3. /\ row \in RowType /\ row.key = rows[h].key
        /\ rows[h].status \in Terminal => row.status = rows[h].status
    BY <2>2, RowGoesOn
  <2>. HIDE DEF h, row
  <2>4. RowsGoOn
    BY <2>1, <2>2, <2>3, OneRowGoesOn
  <2>5. rows' \in [Requests -> RowType \cup {None}] /\ row # None
        /\ outcomes' \in [Requests -> Nat]
    BY <2>1, <2>2, <2>3, AuditedTyped, NoneIsNoRecord DEF TypeOK
  <2>6. TypeOK'
    BY <2>1, <2>5 DEF TypeOK
  <2>7. Reserved'
    BY <2>1, <2>2, <2>5 DEF Reserved, TypeOK, EventType
  <2>8. Asked' /\ Reported'
    BY <2>1 DEF Asked, Reported
  <2>9. Followed'
    <3>1. /\ \A g \in Handoffs : g \in Handoffs' /\ rows'[g].key = rows[g].key
          /\ control.handoff # Nobody => rows'[control.handoff] # None
      BY <2>4, <2>5, KnownGoesOn
    <3>2. \A r \in Requests : stage[r] \in Begun => r \in Handoffs
      BY DEF Reserved, Handoffs
    <3>3. QED
      BY <2>1, <3>1, <3>2 DEF Followed
  <2>10. QED
    BY <2>4, <2>6, <2>7, <2>8, <2>9 DEF RowsGoOn
<1>3. QED
  BY <1>1, <1>2

\* A restart.
LEMMA RestartKeeps ==
  ASSUME Inv, Restart
  PROVE  Inv' /\ RowsGoOn
<1>. USE DEF Inv
<1>1. /\ restarts < MaxRestarts /\ restarts' = restarts + 1
      /\ stage' = [r \in Requests |-> IF stage[r] \in Active THEN "done" ELSE stage[r]]
      /\ reply' = [r \in Requests |-> IF stage[r] \in Active THEN "lost" ELSE reply[r]]
      /\ silenced' = FALSE /\ mapped' = {}
      /\ call' = [call EXCEPT !.known = FALSE]
      /\ UNCHANGED <<cmd, rows, fences, bindings, rooms, callbacks,
                     outcomes, control, glitches>>
  BY DEF Restart
<1>2. \A r \in Requests : /\ stage[r] \in Stages
                          /\ stage'[r] \in {"unsent", "done"}
                          /\ stage'[r] = "unsent" <=> stage[r] = "unsent"
                          /\ stage[r] = "unsent" => reply'[r] = reply[r]
                          /\ reply'[r] \in {reply[r], "lost"}
  BY <1>1 DEF TypeOK, Active
<1>3. TypeOK'
  <2>1. "lost" \in Errors /\ "done" \in Stages
    BY DEF Errors, Stages
  <2>2. restarts' \in 0 .. MaxRestarts
    BY <1>1, Constants DEF TypeOK
  <2>3. call' \in CallType
    BY <1>1 DEF TypeOK, CallType
  <2>4. QED
    BY <1>1, <2>1, <2>2, <2>3 DEF TypeOK
<1>4. Reserved'
  BY <1>1, <1>2 DEF Reserved, Begun, SafeFailures
<1>5. Asked'
  BY <1>1, <1>2 DEF Asked, SafeFailures
<1>6. AuditedOnce' /\ Reported' /\ RowsGoOn
  BY <1>1 DEF AuditedOnce, Reported, RowsGoOn
<1>7. Followed'
  <2>1. "lost" \notin Statuses
    BY DEF Statuses, Terminal, SafeFailures
  <2>2. Handoffs' = Handoffs
    BY <1>1 DEF Handoffs
  <2>3. control.waiting # Nobody => control.waiting \in Requests
    BY Parts
  <2>4. QED
    BY <1>1, <1>2, <2>1, <2>2, <2>3 DEF Followed, Begun, SafeFailures
<1>8. QED
  BY <1>3, <1>4, <1>5, <1>6, <1>7

-----------------------------------------------------------------------------
(* The theorems.                                                           *)

\* The initial states satisfy the invariant.
LEMMA InitInv == Init => Inv
<1>. SUFFICES ASSUME Init PROVE Inv
  OBVIOUS
<1>1. TypeOK
  BY InitTyped
<1>2. Reserved
  BY DEF Init, Reserved, Begun, SafeFailures
<1>3. Asked /\ AuditedOnce /\ Reported
  BY DEF Init, Asked, AuditedOnce, Reported, EmptyRoom
<1>4. Followed
  BY DEF Init, Followed, Begun, SafeFailures, Statuses, Terminal
<1>5. QED
  BY <1>1, <1>2, <1>3, <1>4 DEF Inv

\* Every step keeps the invariant, the handoffs and their outcomes.
LEMMA NextInv == Inv /\ [Next]_vars => Inv' /\ RowsGoOn
<1>. SUFFICES ASSUME Inv, [Next]_vars PROVE Inv' /\ RowsGoOn
  OBVIOUS
<1>1. CASE FollowCall \/ Redial \/ \E n \in 1 .. MaxCalls : Answer(n) \/ HangUp(n)
  BY <1>1, ConferenceKeeps
<1>2. CASE \E r \in Requests, k \in Keys \ {ControlKey}, n \in 1 .. MaxCalls :
             n <= call.attempt /\ Request(r, [key |-> k, expected |-> n])
  <2>1. PICK r \in Requests, k \in Keys, n \in 1 .. MaxCalls :
          Request(r, [key |-> k, expected |-> n])
    BY <1>2
  <2>2. [key |-> k, expected |-> n] \in CommandType
    BY DEF CommandType
  <2>3. QED
    BY <2>1, <2>2, RequestKeeps
<1>3. CASE \E r \in Requests : Serve(r) \/ TakeOver(r)
  BY <1>3, ServeKeeps, TakeOverKeeps
<1>4. CASE \E h \in Requests :
             RemoteJoins(h) \/ CoordinatorJoins(h) \/ CoordinatorLeaves(h)
  BY <1>4, ConferenceKeeps
<1>5. CASE \E c \in callbacks : MapCallback(c)
  BY <1>5, MapCallbackKeeps
<1>6. CASE \E e \in mapped : Observe(e) \/ ObserveFails(e)
  BY <1>6, ObserveKeeps
<1>7. CASE ReadReadiness \/ ControlHears \/ ControlLoses \/ Poll
  BY <1>7, PageKeeps
<1>8. CASE Restart
  BY <1>8, RestartKeeps
<1>9. CASE UNCHANGED vars
  <2>1. UNCHANGED <<call, serverVars, rooms, callbacks, control, restarts, glitches>>
    BY <1>9 DEF vars
  <2>2. call' \in CallType /\ control' \in ControlType /\ glitches' \in 0 .. MaxGlitches
    BY <2>1 DEF Inv, TypeOK
  <2>3. QED
    BY <2>1, <2>2, OutsideKeeps DEF Inv, Followed
<1>10. QED
  BY <1>1, <1>2, <1>3, <1>4, <1>5, <1>6, <1>7, <1>8, <1>9 DEF Next

\* Every behaviour satisfies the inductive invariant.
THEOREM Invariant == Spec => []Inv
<1>1. Init => Inv
  BY InitInv
<1>2. Inv /\ [Next]_vars => Inv'
  BY NextInv
<1>3. QED
  BY <1>1, <1>2, PTL DEF Spec

\* Every variable keeps its type.
THEOREM TypeInvariant == Spec => []TypeOK
<1>1. Inv => TypeOK
  BY DEF Inv
<1>2. QED
  BY <1>1, Invariant, PTL

\* The inductive invariant allows one coordinator, and no provider call before
\* the fence.
LEMMA Guarded == Inv => OneCoordinator /\ FencedBeforeProvider
<1>1. Inv => OneCoordinator
  <2>1. ASSUME Inv, NEW g \in Requests, NEW h \in Requests,
               rooms[g].dials > 0, rooms[h].dials > 0
        PROVE  g = h /\ rooms[g].dials = 1
    <3>1. g \in fences /\ h \in fences /\ rooms[g].dials <= 1
      BY <2>1 DEF Inv, Asked
    <3>2. g = h
      BY <2>1, <3>1 DEF Inv, Reserved
    <3>3. rooms[g].dials \in Nat
      BY <2>1, RoomsTyped DEF Inv
    <3>4. QED
      BY <2>1, <3>1, <3>2, <3>3
  <2>2. QED
    BY <2>1 DEF OneCoordinator
<1>2. Inv => FencedBeforeProvider
  BY DEF Inv, Asked, FencedBeforeProvider
<1>3. QED
  BY <1>1, <1>2

\* At most one coordinator is ever dialed into the call, however many requests,
\* keys, attempts, restarts and failures there are.
THEOREM CoordinatorInvariant == Spec => []OneCoordinator
  BY Guarded, Invariant, PTL

\* The provider moves no leg and dials nobody before the fence is in the database.
THEOREM FenceInvariant == Spec => []FencedBeforeProvider
  BY Guarded, Invariant, PTL

\* A handoff that has ended stays as it ended, and is audited once, however many
\* callbacks and provider failures come late, again or out of order.
THEOREM OutcomesAreFinal == Spec => OutcomeIsFinal
<1> DEFINE Final ==
      \A h \in Requests :
       /\ rows[h] # None /\ rows[h].status \in Terminal
            => rows'[h] # None /\ rows'[h].status = rows[h].status
       /\ outcomes'[h] = IF rows'[h] # None /\ rows'[h].status \in Terminal
                         THEN 1 ELSE 0
<1>1. Inv /\ [Next]_vars => Final
  BY NextInv DEF RowsGoOn, AuditedOnce
<1>2. Inv /\ [Next]_vars => [Final]_vars
  BY <1>1
<1>3. OutcomeIsFinal <=> [][Final]_vars
  BY DEF OutcomeIsFinal
<1>. HIDE DEF Final
<1>4. Spec => [][Final]_vars
  BY <1>2, Invariant, PTL DEF Spec
<1>5. QED
  BY <1>3, <1>4
-----------------------------------------------------------------------------
(* The takeover with its bridge.                                           *)

\* The speaker found no fence, and has not acted on it yet.
Unaware == speaker.step = "read" /\ ~speaker.fence

\* An output after the fence has used up the only read from before the fence.
AtMostOne ==
  /\ late \in {0, 1}
  /\ late = 1 => fences # {} /\ ~Unaware

\* A fence that is committed stays in the database.
LEMMA FencesStay == [Next]_vars => fences \subseteq fences'
<1> SUFFICES ASSUME [Next]_vars PROVE fences \subseteq fences'
  OBVIOUS
<1>1. ASSUME NEW r \in Requests, Serve(r) PROVE fences \subseteq fences'
  <2>1. CASE Commit(r)
    BY <2>1 DEF Commit, FenceOf
  <2>2. CASE \/ Refuse(r) \/ Reserve(r) \/ Silence(r) \/ Abort(r) \/ Resolve(r)
             \/ Redirect(r) \/ Dial(r) \/ Attach(r)
    BY <2>2 DEF Refuse, Reserve, Silence, Abort, Resolve, Redirect, Dial, Attach
  <2>3. CASE RecordFailure(r) \/ Unavailable(r) \/ ReadBack(r)
    BY <2>3 DEF RecordFailure, Unavailable, ReadBack
  <2>4. QED
    BY <1>1, <2>1, <2>2, <2>3 DEF Serve
<1>2. ASSUME NEW r \in Requests, NEW c, Request(r, c) PROVE fences' = fences
  BY <1>2 DEF Request
<1>3. ASSUME NEW r \in Requests, TakeOver(r) PROVE fences' = fences
  BY <1>3 DEF TakeOver
<1>4. ASSUME NEW h \in Requests, RemoteJoins(h) \/ CoordinatorJoins(h) \/ CoordinatorLeaves(h)
      PROVE  fences' = fences
  BY <1>4 DEF RemoteJoins, CoordinatorJoins, CoordinatorLeaves, serverVars
<1>5. ASSUME NEW c \in callbacks, MapCallback(c) PROVE fences' = fences
  BY <1>5 DEF MapCallback
<1>6. ASSUME NEW e \in mapped, Observe(e) \/ ObserveFails(e) PROVE fences' = fences
  BY <1>6 DEF Observe, ObserveFails
<1>7. CASE \/ \E n \in 1 .. MaxCalls : Answer(n) \/ HangUp(n)
           \/ FollowCall \/ Redial \/ ReadReadiness \/ ControlHears
           \/ ControlLoses \/ Poll \/ Restart \/ UNCHANGED vars
  BY <1>7 DEF Answer, HangUp, FollowCall, Redial, ReadReadiness, ControlHears, ControlLoses,
     Poll, Restart, vars, serverVars
<1>8. QED
  BY <1>1, <1>2, <1>3, <1>4, <1>5, <1>6, <1>7 DEF Next

\* The bridge: only Act gives an output, and only ReadFence reads.
LEMMA BridgeStep ==
  ASSUME AtMostOne, UNCHANGED vars, Bridge!Next
  PROVE  AtMostOne'
<1>1. UNCHANGED fences
  BY DEF vars, serverVars
<1>2. CASE Bridge!ReadFence
  <2>1. /\ UNCHANGED late
        /\ speaker' = [step |-> "read", kind |-> speaker.kind, asked |-> speaker.asked,
                       fence |-> fences # {}]
    BY <1>2 DEF Bridge!ReadFence
  <2>2. speaker'.fence = (fences # {})
    BY <2>1
  <2>3. QED
    BY <1>1, <2>1, <2>2 DEF AtMostOne, Unaware
<1>3. CASE Bridge!Act
  <2>1. ~Unaware'
    BY <1>3 DEF Bridge!Act, Bridge!Silent, Bridge!Idle, Unaware
  <2>2. \/ UNCHANGED late
        \/ Unaware /\ fences # {} /\ late' = late + 1
    BY <1>3 DEF Bridge!Act, Bridge!MayGoOn, Unaware
  <2>3. QED
    BY <1>1, <2>1, <2>2 DEF AtMostOne
<1>4. CASE \E k \in Bridge!Kinds : Bridge!Hear(k)
  BY <1>1, <1>4 DEF Bridge!Hear, Bridge!Silent, Bridge!Idle, AtMostOne, Unaware
<1>5. CASE \/ Bridge!Claim \/ Bridge!SpeakerEnds \/ Bridge!Finish \/ Bridge!Expire
  BY <1>1, <1>5 DEF Bridge!Claim, Bridge!SpeakerEnds, Bridge!Finish, Bridge!Expire,
     Bridge!Idle, AtMostOne, Unaware
<1>6. CASE \/ Bridge!Connect \/ Bridge!ConnectFails \/ Bridge!Stop \/ Bridge!ListenerBreaks
           \/ Bridge!SpeechStarts \/ Bridge!Revoked
  BY <1>1, <1>6 DEF Bridge!Connect, Bridge!ConnectFails, Bridge!Stop, Bridge!ListenerBreaks,
     Bridge!SpeechStarts, Bridge!Revoked, Bridge!tasks, AtMostOne, Unaware
<1>7. QED
  BY <1>2, <1>3, <1>4, <1>5, <1>6 DEF Bridge!Next

\* At most one output of the AI follows the fence, through any number of calls,
\* takeovers and restarts: an output needs a read of the fence of its own, and
\* only a read from before the fence lets it through.
THEOREM LateInvariant == TakeoverSpec => []OneLateOutput
<1>1. TakeoverInit => AtMostOne
  BY DEF TakeoverInit, Bridge!Init, Bridge!Idle, AtMostOne, Unaware
<1>2. AtMostOne /\ [TakeoverNext]_allVars => AtMostOne'
  <2> SUFFICES ASSUME AtMostOne, [TakeoverNext]_allVars PROVE AtMostOne'
    OBVIOUS
  <2>1. CASE Next /\ UNCHANGED bridgeVars
    BY <2>1, FencesStay DEF bridgeVars, AtMostOne, Unaware
  <2>2. CASE Restart /\ Bridge!Lost
    BY <2>2 DEF Restart, Bridge!Lost, Bridge!Idle, AtMostOne, Unaware
  <2>3. CASE UNCHANGED vars /\ Bridge!Next
    BY <2>3, BridgeStep
  <2>4. CASE UNCHANGED allVars
    BY <2>4 DEF allVars, vars, serverVars, bridgeVars, AtMostOne, Unaware
  <2>5. QED
    BY <2>1, <2>2, <2>3, <2>4 DEF TakeoverNext
<1>3. AtMostOne => OneLateOutput
  BY DEF AtMostOne, OneLateOutput
<1>4. QED
  BY <1>1, <1>2, <1>3, PTL DEF TakeoverSpec

-----------------------------------------------------------------------------
(* The takeover is a handoff.                                              *)

\* The bridge takes no step of the handoff: composed with it, the requests, the
\* fence, the conference and the page go on as they do without it.
THEOREM TakeoverIsHandoff == TakeoverSpec => Init /\ [][Next]_vars
<1>1. TakeoverInit => Init
  BY DEF TakeoverInit
<1>2. [TakeoverNext]_allVars => [Next]_vars
  <2>1. Restart => Next
    BY DEF Next
  <2>2. QED
    BY <2>1 DEF TakeoverNext, allVars
<1>3. QED
  BY <1>1, <1>2, PTL DEF TakeoverSpec

\* What is proved of a handoff holds in the takeover of a live call: one
\* coordinator, no provider call before the fence, and outcomes that stay, while
\* the tasks of the bridge read the fence and the event at any time.
THEOREM TakeoverKeepsHandoff ==
  TakeoverSpec => []OneCoordinator /\ []FencedBeforeProvider /\ OutcomeIsFinal
<1> DEFINE Final ==
      \A h \in Requests :
       /\ rows[h] # None /\ rows[h].status \in Terminal
            => rows'[h] # None /\ rows'[h].status = rows[h].status
       /\ outcomes'[h] = IF rows'[h] # None /\ rows'[h].status \in Terminal
                         THEN 1 ELSE 0
<1>1. Inv /\ [Next]_vars => Inv'
  BY NextInv
<1>2. Inv /\ [Next]_vars => [Final]_vars
  BY NextInv DEF RowsGoOn, AuditedOnce
<1>3. OutcomeIsFinal <=> [][Final]_vars
  BY DEF OutcomeIsFinal
<1>. HIDE DEF Final
<1>4. TakeoverSpec => []OneCoordinator /\ []FencedBeforeProvider /\ [][Final]_vars
  BY <1>1, <1>2, InitInv, Guarded, TakeoverIsHandoff, PTL
<1>5. QED
  BY <1>3, <1>4

\* What the tasks of a stream go through is well typed.
LEMMA SpeakerTyped ==
  /\ Bridge!Idle \in Bridge!SpeakerType
  /\ [step |-> "ended"] \in Bridge!SpeakerType
  /\ \A k \in Bridge!Kinds, n \in 1 .. 2 :
       [step |-> "reading", kind |-> k, asked |-> n] \in Bridge!SpeakerType
  /\ \A k \in Bridge!Kinds, n \in 1 .. 2, f \in BOOLEAN :
       [step |-> "read", kind |-> k, asked |-> n, fence |-> f] \in Bridge!SpeakerType
<1>1. Bridge!Idle \in [step : {"idle", "ended"}] /\ [step |-> "ended"] \in [step : {"idle", "ended"}]
  BY DEF Bridge!Idle
<1>2. \A k \in Bridge!Kinds, n \in 1 .. 2 :
        [step |-> "reading", kind |-> k, asked |-> n]
          \in [step : {"reading"}, kind : Bridge!Kinds, asked : 1 .. 2]
  OBVIOUS
<1>3. \A k \in Bridge!Kinds, n \in 1 .. 2, f \in BOOLEAN :
        [step |-> "read", kind |-> k, asked |-> n, fence |-> f]
          \in [step : {"read"}, kind : Bridge!Kinds, asked : 1 .. 2, fence : BOOLEAN]
  OBVIOUS
<1>4. QED
  BY <1>1, <1>2, <1>3 DEF Bridge!SpeakerType

\* A speaker that is under way has an output, which it has asked about.
LEMMA SpeakerUnderWay ==
  ASSUME Bridge!TypeOK, speaker.step \in {"reading", "read"}
  PROVE  speaker.kind \in Bridge!Kinds /\ speaker.asked \in 1 .. 2
<1>1. CASE speaker \in [step : {"idle", "ended"}]
  BY <1>1
<1>2. CASE speaker \in [step : {"reading"}, kind : Bridge!Kinds, asked : 1 .. 2]
  BY <1>2
<1>3. CASE speaker \in [step : {"read"}, kind : Bridge!Kinds, asked : 1 .. 2, fence : BOOLEAN]
  BY <1>3
<1>4. QED
  BY <1>1, <1>2, <1>3 DEF Bridge!TypeOK, Bridge!SpeakerType

\* Every step of the bridge keeps its types.
LEMMA BridgeTyped ==
  ASSUME Bridge!TypeOK, call.attempt \in Nat, Bridge!Next
  PROVE  Bridge!TypeOK'
<1>1. CASE Bridge!Claim
  BY <1>1, SpeakerTyped DEF Bridge!Claim, Bridge!TypeOK
<1>2. CASE Bridge!Connect \/ Bridge!ConnectFails
  BY <1>2 DEF Bridge!Connect, Bridge!ConnectFails, Bridge!tasks, Bridge!TypeOK, Bridge!Outcomes
<1>3. CASE Bridge!Stop \/ Bridge!ListenerBreaks \/ Bridge!SpeechStarts \/ Bridge!Revoked
  BY <1>3 DEF Bridge!Stop, Bridge!ListenerBreaks, Bridge!SpeechStarts, Bridge!Revoked,
     Bridge!tasks, Bridge!TypeOK
<1>4. CASE \E k \in Bridge!Kinds : Bridge!Hear(k)
  <2>1. PICK k \in Bridge!Kinds : Bridge!Hear(k)
    BY <1>4
  <2>2. speaker' \in Bridge!SpeakerType /\ queued' \in BOOLEAN
    <3>1. 1 \in 1 .. 2
      OBVIOUS
    <3>2. /\ [step |-> "reading", kind |-> k, asked |-> 1] \in Bridge!SpeakerType
          /\ Bridge!Idle \in Bridge!SpeakerType
      BY <2>1, <3>1, SpeakerTyped
    <3>3. \/ /\ speaker' = [step |-> "reading", kind |-> k, asked |-> 1]
             /\ UNCHANGED queued
          \/ speaker' = Bridge!Idle /\ queued' = FALSE
      BY <2>1 DEF Bridge!Hear, Bridge!Silent
    <3>4. QED
      BY <3>2, <3>3 DEF Bridge!TypeOK
  <2>3. UNCHANGED <<claimed, phase, listener, guard, late, outcome>>
    BY <2>1 DEF Bridge!Hear
  <2>4. QED
    BY <2>2, <2>3 DEF Bridge!TypeOK
<1>5. CASE Bridge!ReadFence
  <2>1. speaker.kind \in Bridge!Kinds /\ speaker.asked \in 1 .. 2
    BY <1>5, SpeakerUnderWay DEF Bridge!ReadFence
  <2>2. speaker' \in Bridge!SpeakerType
    BY <1>5, <2>1, SpeakerTyped DEF Bridge!ReadFence
  <2>3. UNCHANGED <<claimed, phase, listener, guard, queued, late, outcome>>
    BY <1>5 DEF Bridge!ReadFence
  <2>4. QED
    BY <2>2, <2>3 DEF Bridge!TypeOK
<1>6. CASE Bridge!Act
  <2>1. "audio" \in Bridge!Kinds /\ 2 \in 1 .. 2
    BY DEF Bridge!Kinds
  <2>2. [step |-> "reading", kind |-> "audio", asked |-> 2] \in Bridge!SpeakerType
    BY <2>1, SpeakerTyped
  <2>3. speaker' \in {Bridge!Idle, [step |-> "reading", kind |-> "audio", asked |-> 2]}
    BY <1>6 DEF Bridge!Act, Bridge!Silent
  <2>4. queued' \in BOOLEAN /\ late' \in Nat
    <3>1. queued \in BOOLEAN /\ late \in Nat
      BY DEF Bridge!TypeOK
    <3>2. \/ queued' = FALSE
          \/ UNCHANGED queued
          \/ queued' = (queued \/ speaker.kind = "audio")
      BY <1>6 DEF Bridge!Act, Bridge!Silent
    <3>3. UNCHANGED late \/ late' = late + 1
      BY <1>6 DEF Bridge!Act
    <3>4. queued' \in BOOLEAN
      BY <3>1, <3>2
    <3>5. QED
      BY <3>1, <3>3, <3>4
  <2>5. UNCHANGED <<claimed, phase, listener, guard, outcome>>
    BY <1>6 DEF Bridge!Act
  <2>6. QED
    BY <2>2, <2>3, <2>4, <2>5, SpeakerTyped DEF Bridge!TypeOK
<1>7. CASE Bridge!SpeakerEnds \/ Bridge!Finish \/ Bridge!Expire
  BY <1>7, SpeakerTyped DEF Bridge!SpeakerEnds, Bridge!Finish, Bridge!Expire, Bridge!OutcomesOf,
     Bridge!Outcomes, Bridge!TypeOK
<1>8. QED
  BY <1>1, <1>2, <1>3, <1>4, <1>5, <1>6, <1>7 DEF Bridge!Next

\* Handoff and bridge are well typed together, through any number of calls.
THEOREM TakeoverTypeInvariant == TakeoverSpec => []TakeoverTypeOK
<1>1. TakeoverInit => Bridge!TypeOK
  <2>1. Bridge!Idle \in Bridge!SpeakerType
    BY SpeakerTyped
  <2>2. ASSUME Bridge!Init PROVE Bridge!TypeOK
    <3>1. claimed \in Nat /\ late \in Nat
      BY <2>2 DEF Bridge!Init
    <3>2. phase = "none" /\ listener = "on" /\ guard = "waiting" /\ outcome = "none"
      BY <2>2 DEF Bridge!Init
    <3>3. speaker \in Bridge!SpeakerType /\ queued \in BOOLEAN
      BY <2>1, <2>2 DEF Bridge!Init
    <3>4. QED
      BY <3>1, <3>2, <3>3 DEF Bridge!TypeOK
  <2>3. QED
    BY <2>2 DEF TakeoverInit
<1>2. TypeOK /\ Bridge!TypeOK /\ [TakeoverNext]_allVars => Bridge!TypeOK'
  <2> SUFFICES ASSUME TypeOK, Bridge!TypeOK, [TakeoverNext]_allVars PROVE Bridge!TypeOK'
    OBVIOUS
  <2>1. CASE UNCHANGED bridgeVars
    BY <2>1 DEF bridgeVars, Bridge!TypeOK
  <2>2. CASE Bridge!Lost
    BY <2>2, SpeakerTyped DEF Bridge!Lost, Bridge!TypeOK
  <2>3. CASE Bridge!Next
    <3>1. call.attempt \in Nat
      BY DEF TypeOK, CallType
    <3>2. QED
      BY <2>3, <3>1, BridgeTyped
  <2>4. QED
    BY <2>1, <2>2, <2>3 DEF TakeoverNext, allVars
<1>3. Inv => TypeOK
  BY DEF Inv
<1>4. Inv /\ [Next]_vars => Inv'
  BY NextInv
<1>5. QED
  BY <1>1, <1>2, <1>3, <1>4, InitInv, TakeoverIsHandoff, PTL DEF TakeoverSpec, TakeoverTypeOK
=============================================================================
