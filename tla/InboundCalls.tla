---------------------------- MODULE InboundCalls ----------------------------
(***************************************************************************)
(* Calls of a driver to the AI: the webhooks that correlate a call with one*)
(* committed operation and record the consent, the stream that follows, and*)
(* the recovery that its end completes in the operation, with the recording*)
(* kept as evidence.                                                       *)
(*                                                                         *)
(* Webhooks may be delivered more than once and overlap; other clients     *)
(* change the operation meanwhile; the recording is stored outside the     *)
(* transaction that refers to it.  A restart loses the webhooks under way, *)
(* the streams and the bindings held in memory.                            *)
(***************************************************************************)
EXTENDS Naturals, FiniteSets

CONSTANTS
  Calls,           \* calls to the inbound number, by their provider identifier
  Operations,      \* operations the caller has an active correlation with
  Copies,          \* deliveries of one webhook
  First,           \* its first delivery
  MaxRepeats,      \* bound of the model on the other ones
  MaxCommitments,  \* bound of the model on the commitments of an operation
  MaxRestarts,     \* bound of the model on the restarts of the process
  MaxGlitches      \* bound of the model on failures of database and storage

ASSUME InboundAssumption ==
  /\ First \in Copies
  /\ MaxRepeats \in Nat
  /\ MaxCommitments \in Nat \ {0}
  /\ MaxRestarts \in Nat
  /\ MaxGlitches \in Nat

VARIABLES
  operations,  \* what the handlers read of each operation
  attempts,    \* the inbound attempts of the database, by their call
  recordings,  \* the calls of which storage holds a recording
  entries,     \* the bindings in memory
  phone,       \* where the provider is with each call
  agreed,      \* the caller has pressed the key of consent
  hooks,       \* where each delivery of each webhook is
  stream,      \* where the media stream of each call is, and its completion
  orphans,     \* recordings a crash or a failing storage left behind
  unheard,     \* calls whose completion was committed and yet raised
  restarts,
  glitches

vars == <<operations, attempts, recordings, entries, phone, agreed, hooks,
          stream, orphans, unheard, restarts, glitches>>

None == [status |-> "none"]
Kinds == {"voice", "consent"}
Live == {"AWAITING_CONSENT", "CONSENTED", "STREAMING"}
Failures == {"DISCONNECTED", "TIMEOUT", "INSUFFICIENT_EVIDENCE"}

\* status is COMMITTED, or ESCALATED while an escalation is unresolved; safe says
\* that the terms of the fixed recovery are inside the active mandate.
OperationType == [commitment : 1 .. MaxCommitments, safe : BOOLEAN,
                  status : {"COMMITTED", "ESCALATED"}]
AttemptType ==
  [status : Live \cup {"COMPLETED", "FAILED"}, operation : Operations,
   commitment : 1 .. MaxCommitments, result : 0 .. MaxCommitments,
   expired : BOOLEAN]
HookSteps == {"none", "lookup", "correlate", "consent", "register",
              "hangup", "answered", "heard", "lost"}
StreamSteps == {"none", "claim", "live", "check", "store", "write", "cleanup",
                "over"} \cup Failures

Init ==
  /\ operations \in [Operations -> [commitment : {1}, safe : {TRUE},
                                    status : {"COMMITTED"}]]
  /\ attempts = [c \in Calls |-> None]
  /\ recordings = {}
  /\ entries = [c \in Calls |-> "none"]
  /\ phone = [c \in Calls |-> "idle"]
  /\ agreed = [c \in Calls |-> FALSE]
  /\ hooks = [c \in Calls |-> [k \in Kinds |-> [n \in Copies |-> "none"]]]
  /\ stream = [c \in Calls |-> "none"]
  /\ orphans = {}
  /\ unheard = {}
  /\ restarts = 0
  /\ glitches = 0

Glitch == glitches < MaxGlitches /\ glitches' = glitches + 1

-----------------------------------------------------------------------------
(* The provider and the caller.                                            *)

\* Where a call waits for the answer of a webhook.
Waiting(k) == IF k = "voice" THEN "ringing" ELSE "pressed"

Repeats ==
  {d \in Calls \X Kinds \X (Copies \ {First}) :
     hooks[d[1]][d[2]][d[3]] # "none"}

\* A delivery, and others while the provider waits for an answer.
Deliver(c, k, n) ==
  /\ hooks[c][k][n] = "none"
  /\ phone[c] = Waiting(k)
  /\ n = First \/ Cardinality(Repeats) < MaxRepeats
  /\ hooks' = [hooks EXCEPT ![c][k][n] = "lookup"]
  /\ UNCHANGED <<operations, attempts, recordings, entries, phone, agreed,
                 stream, orphans, unheard, restarts, glitches>>

Ring(c) ==
  /\ phone[c] = "idle"
  /\ phone' = [phone EXCEPT ![c] = "ringing"]
  /\ UNCHANGED <<operations, attempts, recordings, entries, agreed, hooks,
                 stream, orphans, unheard, restarts, glitches>>

\* What the call does next, as the answer of one delivery tells it.
AfterAnswer(k, a) ==
  CASE a # "answered" -> "gone"
    [] a = "answered" /\ k = "voice" -> "asked"
    [] OTHER -> "connecting"

\* The provider follows the first answer it hears, and no other.
HearAnswer(c, k, n) ==
  /\ hooks[c][k][n] \in {"answered", "hangup", "lost"}
  /\ hooks' = [hooks EXCEPT ![c][k][n] = "heard"]
  /\ phone' = IF phone[c] = Waiting(k)
              THEN [phone EXCEPT ![c] = AfterAnswer(k, hooks[c][k][n])]
              ELSE phone
  /\ UNCHANGED <<operations, attempts, recordings, entries, agreed, stream,
                 orphans, unheard, restarts, glitches>>

PressOne(c) ==
  /\ phone[c] = "asked"
  /\ phone' = [phone EXCEPT ![c] = "pressed"]
  /\ agreed' = [agreed EXCEPT ![c] = TRUE]
  /\ UNCHANGED <<operations, attempts, recordings, entries, hooks, stream,
                 orphans, unheard, restarts, glitches>>

\* The caller hangs up, or lets the question time out; nobody is told.
HangUp(c) ==
  /\ phone[c] \in {"ringing", "asked", "pressed", "connecting"}
  /\ phone' = [phone EXCEPT ![c] = "gone"]
  /\ UNCHANGED <<operations, attempts, recordings, entries, agreed, hooks,
                 stream, orphans, unheard, restarts, glitches>>

-----------------------------------------------------------------------------
(* The operation, in the hands of other clients.                           *)

Supersede(o) ==
  /\ operations[o].status = "COMMITTED"
  /\ operations[o].commitment < MaxCommitments
  /\ operations' = [operations EXCEPT ![o].commitment = @ + 1]
  /\ UNCHANGED <<attempts, recordings, entries, phone, agreed, hooks, stream,
                 orphans, unheard, restarts, glitches>>

Escalate(o) ==
  /\ operations[o].status = "COMMITTED"
  /\ operations' = [operations EXCEPT ![o].status = "ESCALATED"]
  /\ UNCHANGED <<attempts, recordings, entries, phone, agreed, hooks, stream,
                 orphans, unheard, restarts, glitches>>

\* The escalation is resolved by another mandate, which need not allow the fixed
\* recovery.
ReplaceMandate(o) ==
  /\ operations[o].status = "ESCALATED"
  /\ \E safe \in BOOLEAN :
       operations' = [operations EXCEPT ![o].status = "COMMITTED",
                                        ![o].safe = safe]
  /\ UNCHANGED <<attempts, recordings, entries, phone, agreed, hooks, stream,
                 orphans, unheard, restarts, glitches>>

-----------------------------------------------------------------------------
(* The webhooks.  Both accept the call; that of the consent records it too.*)

Goto(c, k, n, step) == hooks' = [hooks EXCEPT ![c][k][n] = step]

AfterAccept(k) == IF k = "voice" THEN "register" ELSE "consent"

\* A transaction of a webhook was committed, and its commit returns or raises.
GotoCommitted(c, k, n, step) ==
  \/ Goto(c, k, n, step) /\ UNCHANGED glitches
  \/ Goto(c, k, n, "lost") /\ Glitch

\* accept_inbound_call finds the attempt of the call, or none.
Lookup(c, k, n) ==
  /\ hooks[c][k][n] = "lookup"
  /\ Goto(c, k, n,
          IF attempts[c] = None THEN "correlate"
          ELSE IF attempts[c].status \in {"AWAITING_CONSENT", "CONSENTED"}
               THEN AfterAccept(k) ELSE "hangup")
  /\ UNCHANGED <<operations, attempts, recordings, entries, phone, agreed,
                 stream, orphans, unheard, restarts, glitches>>

\* A mutant of the next definition: only a call that streams occupies it.
OccupiedByStream(o) ==
  \E c \in Calls :
    attempts[c].status = "STREAMING" /\ attempts[c].operation = o

Occupied(o) ==
  \E c \in Calls : attempts[c].status \in Live /\ attempts[c].operation = o

Candidates ==
  {o \in Operations : operations[o].status = "COMMITTED" /\ ~Occupied(o)}

\* It takes the one operation that is open to a call, under the row locks of the
\* correlations and the operations.
Correlate(c, k, n) ==
  /\ hooks[c][k][n] = "correlate"
  /\ \/ /\ Cardinality(Candidates) = 1
        /\ attempts[c] = None
        /\ \E o \in Candidates :
             attempts' = [attempts EXCEPT
                            ![c] = [status |-> "AWAITING_CONSENT",
                                    operation |-> o,
                                    commitment |-> operations[o].commitment,
                                    result |-> 0, expired |-> FALSE]]
        /\ GotoCommitted(c, k, n, AfterAccept(k))
     \/ /\ Cardinality(Candidates) # 1
        /\ Goto(c, k, n, "hangup")
        /\ UNCHANGED <<attempts, glitches>>
     \/ /\ Cardinality(Candidates) = 1  \* another delivery was faster
        /\ attempts[c] # None
        /\ Goto(c, k, n, "lost")
        /\ UNCHANGED <<attempts, glitches>>
  /\ UNCHANGED <<operations, recordings, entries, phone, agreed, stream,
                 orphans, unheard, restarts>>

\* record_inbound_consent
Consent(c, n) ==
  /\ hooks[c]["consent"][n] = "consent"
  /\ \/ /\ attempts[c].status = "AWAITING_CONSENT"
        /\ ~attempts[c].expired
        /\ attempts' = [attempts EXCEPT ![c].status = "CONSENTED"]
        /\ GotoCommitted(c, "consent", n, "register")
     \/ /\ attempts[c].status = "CONSENTED"
        /\ Goto(c, "consent", n, "register")
        /\ UNCHANGED <<attempts, glitches>>
     \/ /\ \/ attempts[c].status \notin {"AWAITING_CONSENT", "CONSENTED"}
           \/ attempts[c].status = "AWAITING_CONSENT" /\ attempts[c].expired
        /\ Goto(c, "consent", n, "hangup")
        /\ UNCHANGED <<attempts, glitches>>
  /\ UNCHANGED <<operations, recordings, entries, phone, agreed, stream,
                 orphans, unheard, restarts>>

\* The binding is kept in memory, unless it is there.
Register(c, k, n) ==
  /\ hooks[c][k][n] = "register"
  /\ entries' = [entries EXCEPT ![c] = IF @ = "none" THEN "bound" ELSE @]
  /\ Goto(c, k, n, "answered")
  /\ UNCHANGED <<operations, attempts, recordings, phone, agreed, stream,
                 orphans, unheard, restarts, glitches>>

\* The database fails before anything is committed.
HookFails(c, k, n) ==
  /\ hooks[c][k][n] \in {"lookup", "correlate", "consent"}
  /\ Glitch
  /\ Goto(c, k, n, "lost")
  /\ UNCHANGED <<operations, attempts, recordings, entries, phone, agreed,
                 stream, orphans, unheard, restarts>>

\* Five minutes pass after the call was accepted.
Expire(c) ==
  /\ attempts[c].status \in {"AWAITING_CONSENT", "CONSENTED"}
  /\ ~attempts[c].expired
  /\ attempts' = [attempts EXCEPT ![c].expired = TRUE]
  /\ UNCHANGED <<operations, recordings, entries, phone, agreed, hooks, stream,
                 orphans, unheard, restarts, glitches>>

-----------------------------------------------------------------------------
(* The stream and its completion.                                          *)

\* start_inbound_stream
Startable(c) == attempts[c].status = "CONSENTED" /\ ~attempts[c].expired

\* The socket of the stream reaches the process with the binding of the call.
StartStream(c) ==
  /\ stream[c] = "none"
  /\ phone[c] = "connecting"
  /\ IF Startable(c)
     THEN /\ attempts' = [attempts EXCEPT ![c].status = "STREAMING"]
          /\ stream' = [stream EXCEPT ![c] = "claim"]
          /\ UNCHANGED phone
     ELSE /\ stream' = [stream EXCEPT ![c] = "over"]
          /\ phone' = [phone EXCEPT ![c] = "gone"]
          /\ UNCHANGED attempts
  /\ UNCHANGED <<operations, recordings, entries, agreed, hooks, orphans,
                 unheard, restarts, glitches>>

\* The database fails, before or after it commits, and the socket is closed.
StartBreaks(c) ==
  /\ stream[c] = "none"
  /\ phone[c] = "connecting"
  /\ Glitch
  /\ \/ UNCHANGED attempts
     \/ /\ Startable(c)
        /\ attempts' = [attempts EXCEPT ![c].status = "STREAMING"]
  /\ stream' = [stream EXCEPT ![c] = "over"]
  /\ phone' = [phone EXCEPT ![c] = "gone"]
  /\ UNCHANGED <<operations, recordings, entries, agreed, hooks, orphans,
                 unheard, restarts>>

\* binding_for_stream claims the binding in memory, once.
Claim(c) ==
  /\ stream[c] = "claim"
  /\ entries' = [entries EXCEPT ![c] = "claimed"]
  /\ stream' = [stream EXCEPT ![c] = "live"]
  /\ phone' = [phone EXCEPT ![c] = "streaming"]
  /\ UNCHANGED <<operations, attempts, recordings, agreed, hooks, orphans,
                 unheard, restarts, glitches>>

\* The bridge ends: a completion is a stop after audio was captured and speech
\* heard; anything else is a failure (VoiceBridge).
EndStream(c, outcome) ==
  /\ stream[c] = "live"
  /\ stream' = [stream EXCEPT ![c] = outcome]
  /\ phone' = [phone EXCEPT ![c] = "gone"]
  /\ UNCHANGED <<operations, attempts, recordings, entries, agreed, hooks,
                 orphans, unheard, restarts, glitches>>

Over(c) == stream' = [stream EXCEPT ![c] = "over"]

\* fail_inbound_call
Fail(c) ==
  /\ stream[c] \in Failures
  /\ Over(c)
  /\ attempts' = IF attempts[c].status \in Live
                 THEN [attempts EXCEPT ![c].status = "FAILED"] ELSE attempts
  /\ UNCHANGED <<operations, recordings, entries, phone, agreed, hooks,
                 orphans, unheard, restarts, glitches>>

\* The database fails before it commits, and stream_finished with it; after its
\* commit, a failure leaves what Fail leaves.
FinishBreaks(c) ==
  /\ stream[c] \in Failures \cup {"check", "store"}
  /\ Glitch
  /\ Over(c)
  /\ UNCHANGED <<operations, attempts, recordings, entries, phone, agreed,
                 hooks, orphans, unheard, restarts>>

Recoverable(c) == attempts[c].status \in {"CONSENTED", "STREAMING"}

\* complete_inbound_recovery: the first transaction only reads.
Check(c) ==
  /\ stream[c] = "check"
  /\ stream' = [stream EXCEPT ![c] = IF Recoverable(c) THEN "store" ELSE "over"]
  /\ UNCHANGED <<operations, attempts, recordings, entries, phone, agreed,
                 hooks, orphans, unheard, restarts, glitches>>

Store(c) ==
  /\ stream[c] = "store"
  /\ recordings' = recordings \cup {c}
  /\ stream' = [stream EXCEPT ![c] = "write"]
  /\ UNCHANGED <<operations, attempts, entries, phone, agreed, hooks, orphans,
                 unheard, restarts, glitches>>

\* A mutant of the next definition: whatever is active now is replaced.
ReplacesAny(c) ==
  LET o == operations[attempts[c].operation]
  IN Recoverable(c) /\ o.status = "COMMITTED" /\ o.safe

\* The second transaction replaces the commitment the call was accepted for, with
\* the fixed terms, and nothing else: not a newer one, not during an escalation,
\* not outside the mandate.
Replaces(c) ==
  LET o == operations[attempts[c].operation]
  IN /\ Recoverable(c)
     /\ o.commitment = attempts[c].commitment
     /\ o.status = "COMMITTED"
     /\ o.safe

Complete(c) ==
  LET o == attempts[c].operation
      new == operations[o].commitment + 1
  IN /\ stream[c] = "write"
     /\ Replaces(c)
     /\ new <= MaxCommitments
     /\ operations' = [operations EXCEPT ![o].commitment = new]
     /\ attempts' = [attempts EXCEPT ![c].status = "COMPLETED",
                                     ![c].result = new]
     /\ \/ /\ Over(c)
           /\ UNCHANGED <<unheard, glitches>>
        \/ /\ Glitch  \* the commit raises after PostgreSQL has committed
           /\ stream' = [stream EXCEPT ![c] = "cleanup"]
           /\ unheard' = unheard \cup {c}
     /\ UNCHANGED <<recordings, entries, phone, agreed, hooks, orphans,
                    restarts>>

\* It is rolled back: the domain refuses it, or the database fails.
Rollback(c) ==
  /\ stream[c] = "write"
  /\ \/ ~Replaces(c) /\ UNCHANGED glitches
     \/ Glitch
  /\ stream' = [stream EXCEPT ![c] = "cleanup"]
  /\ UNCHANGED <<operations, attempts, recordings, entries, phone, agreed,
                 hooks, orphans, unheard, restarts>>

\* A mutant of the next definition: a rollback forgets the recording.
KeptAfterRollback(c) == recordings

KeptAfter(c) == recordings \ {c}

\* The recording is deleted, whatever the commit that raised has done, and the
\* error goes on: the attempt is left as it is.
Cleanup(c) ==
  /\ stream[c] = "cleanup"
  /\ \/ /\ recordings' = KeptAfter(c)
        /\ UNCHANGED <<orphans, unheard, glitches>>
     \/ /\ Glitch
        /\ orphans' = orphans \cup {c}
        /\ UNCHANGED recordings
  /\ Over(c)
  /\ UNCHANGED <<operations, attempts, entries, phone, agreed, hooks, restarts,
                 unheard>>

-----------------------------------------------------------------------------
Restart ==
  /\ restarts < MaxRestarts
  /\ restarts' = restarts + 1
  /\ entries' = [c \in Calls |-> "none"]
  /\ hooks' = [c \in Calls |-> [k \in Kinds |-> [n \in Copies |->
                 IF hooks[c][k][n] \in {"lookup", "correlate", "consent",
                                        "register"}
                 THEN "lost" ELSE hooks[c][k][n]]]]
  /\ stream' = [c \in Calls |-> IF stream[c] = "none" THEN "none" ELSE "over"]
  /\ phone' = [c \in Calls |-> IF phone[c] = "streaming" \/ stream[c] = "claim"
                               THEN "gone" ELSE phone[c]]
  /\ orphans' = orphans \cup
       {c \in recordings : stream[c] \in {"write", "cleanup"}}
  /\ UNCHANGED <<operations, attempts, recordings, agreed, glitches, unheard>>

ServeHook(c, k, n) ==
  \/ Lookup(c, k, n) \/ Correlate(c, k, n) \/ Register(c, k, n)
  \/ k = "consent" /\ Consent(c, n)
  \/ HookFails(c, k, n)

ServeStream(c) ==
  \/ Claim(c) \/ Fail(c) \/ FinishBreaks(c) \/ Check(c) \/ Store(c)
  \/ Complete(c) \/ Rollback(c) \/ Cleanup(c)

Next ==
  \/ \E c \in Calls, k \in Kinds, n \in Copies :
       Deliver(c, k, n) \/ HearAnswer(c, k, n) \/ ServeHook(c, k, n)
  \/ \E c \in Calls :
       \/ Ring(c) \/ PressOne(c) \/ HangUp(c) \/ Expire(c)
       \/ StartStream(c) \/ StartBreaks(c) \/ ServeStream(c)
       \/ \E outcome \in Failures \cup {"check"} : EndStream(c, outcome)
  \/ \E o \in Operations : Supersede(o) \/ Escalate(o) \/ ReplaceMandate(o)
  \/ Restart

Spec == Init /\ [][Next]_vars

-----------------------------------------------------------------------------
(* Properties.                                                             *)

\* Every variable keeps its type.
TypeOK ==
  /\ operations \in [Operations -> OperationType]
  /\ attempts \in [Calls -> AttemptType \cup {None}]
  /\ recordings \subseteq Calls
  /\ entries \in [Calls -> {"none", "bound", "claimed"}]
  /\ phone \in [Calls -> {"idle", "ringing", "asked", "pressed", "connecting",
                          "streaming", "gone"}]
  /\ agreed \in [Calls -> BOOLEAN]
  /\ hooks \in [Calls -> [Kinds -> [Copies -> HookSteps]]]
  /\ stream \in [Calls -> StreamSteps]
  /\ orphans \subseteq recordings
  /\ unheard \subseteq Calls
  /\ restarts \in 0 .. MaxRestarts
  /\ glitches \in 0 .. MaxGlitches

\* No audio of a caller is streamed or kept before that caller agreed to it, in
\* any order and number of deliveries (inbound.py start_inbound_stream).
RecordedWithConsent ==
  \A c \in Calls :
    c \in recordings \/ stream[c] \notin {"none", "over"} => agreed[c]

\* Evidence and recovery go together: a completed call has its recording, and a
\* recording belongs to a completed call or to a completion under way, save what
\* a crash or a storage that fails to delete leaves.  The one call that may lose
\* its evidence is one whose commit raised after it was done: then the handler
\* takes it for rolled back (inbound.py complete_inbound_recovery,
\* unit_of_work.py commit).
RecordingsAreEvidence ==
  /\ \A c \in Calls \ unheard :
       attempts[c].status = "COMPLETED" => c \in recordings
  /\ \A c \in recordings \ orphans :
       \/ attempts[c].status = "COMPLETED"
       \/ stream[c] \in {"write", "cleanup"}

\* No completed call refers to a recording that is not there.
EvidenceIsPlayable ==
  \A c \in Calls : attempts[c].status = "COMPLETED" => c \in recordings

\* A call replaces the commitment it was accepted for, once, and no other call
\* replaces the same one: two calls, or a call and another client, never both
\* count on having replaced it (inbound.py complete_inbound_recovery).
RecoveryReplacesItsCommitment ==
  /\ \A c \in Calls :
       attempts[c].status = "COMPLETED" =>
         attempts[c].result = attempts[c].commitment + 1
  /\ \A c, d \in Calls :
       /\ c # d
       /\ attempts[c].status = "COMPLETED" /\ attempts[d].status = "COMPLETED"
       /\ attempts[c].operation = attempts[d].operation
       => attempts[c].result # attempts[d].result

\* An operation takes one call at a time, however webhooks repeat and calls
\* overlap (inbound.py accept_inbound_call).
OneCallPerOperation ==
  \A c, d \in Calls :
    /\ attempts[c].status \in Live /\ attempts[d].status \in Live
    /\ attempts[c].operation = attempts[d].operation
    => c = d

\* A stream that is over has left a success or a failure behind, even when its
\* completion was refused.
FailuresArePersisted ==
  restarts = 0 /\ glitches = 0 =>
    \A c \in Calls :
      stream[c] = "over" => attempts[c].status # "STREAMING"
=============================================================================
