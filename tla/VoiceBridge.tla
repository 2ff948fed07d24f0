---------------------------- MODULE VoiceBridge ----------------------------
(***************************************************************************)
(* The bridge between the media stream of one telephone call and the       *)
(* realtime model: a task that listens to the caller, a task that speaks   *)
(* for the model and runs its tools, and a task that waits for the AI to   *)
(* lose its authority.  A module that composes the bridge with the rest    *)
(* gives it the line of the call and the two facts the tasks ask about.  The*)
(* audio an inbound call leaves as evidence is in InboundCalls.            *)
(***************************************************************************)
EXTENDS Naturals

VARIABLES
  attempt,   \* the call of which the provider may open a stream
  line,      \* the media of that call reaches this process
  silenced,  \* the authority event of the process is set
  fenced,    \* the authority fence is in the database
  claimed,   \* the newest call whose single-use binding was taken
  phase,     \* where the stream is
  listener,  \* the task that reads the frames of the caller
  speaker,   \* the task that acts on the events of the model
  guard,     \* the task that waits for the revocation
  queued,    \* audio of the AI is queued at the provider
  late,      \* outputs of the AI after the fence
  outcome    \* what stream_finished was told

environment == <<attempt, line, silenced, fenced>>
tasks == <<listener, speaker, guard>>
vars == <<environment, claimed, phase, tasks, queued, late, outcome>>

Kinds == {"audio", "tool"}

Idle == [step |-> "idle"]

\* An output waits for the fence to be read, or for its task to go on with what
\* was read.  Audio asks twice, around its conversion; a tool asks once.
SpeakerType ==
  [step : {"idle", "ended"}]
  \cup [step : {"reading"}, kind : Kinds, asked : 1 .. 2]
  \cup [step : {"read"}, kind : Kinds, asked : 1 .. 2, fence : BOOLEAN]

Outcomes == {"COMPLETED", "DISCONNECTED", "TIMEOUT"}

Init ==
  /\ claimed = 0
  /\ phase = "none"
  /\ listener = "on"
  /\ speaker = Idle
  /\ guard = "waiting"
  /\ queued = FALSE
  /\ late = 0
  /\ outcome = "none"

\* _receive_start: the binding of a call is taken by one stream.
Claim ==
  /\ line
  /\ claimed < attempt
  /\ phase \in {"none", "finished"}
  /\ claimed' = attempt
  /\ phase' = "connecting"
  /\ listener' = "on"
  /\ speaker' = Idle
  /\ guard' = "waiting"
  /\ queued' = FALSE
  /\ outcome' = "none"
  /\ UNCHANGED <<environment, late>>

Connect ==
  /\ phase = "connecting"
  /\ phase' = "live"
  /\ UNCHANGED <<environment, claimed, tasks, queued, late, outcome>>

\* The model cannot be reached, or its session does not become ready in time.
ConnectFails ==
  /\ phase = "connecting"
  /\ phase' = "finished"
  /\ outcome' = "DISCONNECTED"
  /\ UNCHANGED <<environment, claimed, tasks, queued, late>>

-----------------------------------------------------------------------------
(* The caller.                                                             *)

\* The provider ends the stream: the call hung up or left it.
Stop ==
  /\ phase = "live" /\ ~line /\ listener = "on"
  /\ listener' = "stopped"
  /\ UNCHANGED <<environment, claimed, phase, speaker, guard, queued,
                 late, outcome>>

\* The socket drops, a frame is out of order, or the model takes no more audio.
ListenerBreaks ==
  /\ phase = "live" /\ listener = "on"
  /\ listener' = "broken"
  /\ UNCHANGED <<environment, claimed, phase, speaker, guard, queued,
                 late, outcome>>

-----------------------------------------------------------------------------
(* The model.  clear empties what the provider has queued.                 *)

\* A mutant of the next definition: nobody asks.
GoesOn(revoked) == TRUE

MayGoOn(revoked) == ~revoked

Silent ==
  /\ speaker' = Idle
  /\ queued' = FALSE

\* An output of the model arrives: the event of the process is asked at once,
\* the fence in the database by a read.
Hear(k) ==
  /\ phase = "live" /\ speaker = Idle
  /\ IF MayGoOn(silenced)
     THEN /\ speaker' = [step |-> "reading", kind |-> k, asked |-> 1]
          /\ UNCHANGED queued
     ELSE Silent
  /\ UNCHANGED <<environment, claimed, phase, listener, guard, late,
                 outcome>>

ReadFence ==
  /\ phase = "live" /\ speaker.step = "reading"
  /\ speaker' = [step |-> "read", kind |-> speaker.kind,
                 asked |-> speaker.asked, fence |-> fenced]
  /\ UNCHANGED <<environment, claimed, phase, listener, guard, queued,
                 late, outcome>>

\* What follows the read: silence, the second question, or the output itself, a
\* frame to the provider or a mutation of the operation.
Act ==
  LET again == speaker.kind = "audio" /\ speaker.asked = 1
  IN /\ phase = "live" /\ speaker.step = "read"
     /\ \/ /\ ~MayGoOn(speaker.fence) \/ (again /\ ~MayGoOn(silenced))
           /\ Silent
           /\ UNCHANGED late
        \/ /\ MayGoOn(speaker.fence) /\ again /\ MayGoOn(silenced)
           /\ speaker' = [step |-> "reading", kind |-> "audio", asked |-> 2]
           /\ UNCHANGED <<queued, late>>
        \/ /\ MayGoOn(speaker.fence) /\ again  \* too little audio for a frame
           /\ speaker' = Idle
           /\ UNCHANGED <<queued, late>>
        \/ /\ MayGoOn(speaker.fence) /\ ~again
           /\ speaker' = Idle
           /\ queued' = (queued \/ speaker.kind = "audio")
           /\ late' = IF fenced THEN late + 1 ELSE late
     /\ UNCHANGED <<environment, claimed, phase, listener, guard,
                    outcome>>

\* The model hears the caller start to speak.
SpeechStarts ==
  /\ phase = "live" /\ speaker = Idle
  /\ queued' = FALSE
  /\ UNCHANGED <<environment, claimed, phase, tasks, late, outcome>>

\* The session of the model ends, by an error or thirty seconds without an event;
\* or an output fails under way, in the read of the fence, the conversion or a send.
SpeakerEnds ==
  /\ phase = "live" /\ speaker.step # "ended"
  /\ speaker' = [step |-> "ended"]
  /\ UNCHANGED <<environment, claimed, phase, listener, guard, queued,
                 late, outcome>>

-----------------------------------------------------------------------------
\* A mutant of the next definition: the task wakes up and clears nothing.
RevokedUncleared ==
  /\ phase = "live" /\ guard = "waiting"
  /\ silenced
  /\ guard' = "cleared"
  /\ UNCHANGED <<environment, claimed, phase, listener, speaker, queued, late,
                 outcome>>

\* authority_to_twilio: the task sends one clear.
Revoked ==
  /\ phase = "live" /\ guard = "waiting"
  /\ silenced
  /\ guard' = "cleared"
  /\ queued' = FALSE
  /\ UNCHANGED <<environment, claimed, phase, listener, speaker, late,
                 outcome>>

\* Only a stop is a completion; a speaker that fails to send in the same round
\* still makes it a disconnect.
OutcomesOf ==
  (IF listener = "stopped" THEN {"COMPLETED"} ELSE {"DISCONNECTED"})
  \cup (IF speaker.step = "ended" THEN {"DISCONNECTED"} ELSE {})

\* One of the two media tasks has ended: the other and the guard are cancelled,
\* wherever they are, and stream_finished is told.
Finish ==
  /\ phase = "live"
  /\ listener # "on" \/ speaker.step = "ended"
  /\ phase' = "finished"
  /\ speaker' = [step |-> "ended"]
  /\ guard' = "cancelled"
  /\ outcome' \in OutcomesOf
  /\ UNCHANGED <<environment, claimed, listener, queued, late>>

\* Neither task has ended in MAX_STREAM_SECONDS.
Expire ==
  /\ phase = "live"
  /\ listener = "on" /\ speaker.step # "ended"
  /\ phase' = "finished"
  /\ speaker' = [step |-> "ended"]
  /\ guard' = "cancelled"
  /\ outcome' = "TIMEOUT"
  /\ UNCHANGED <<environment, claimed, listener, queued, late>>

Next ==
  \/ Claim \/ Connect \/ ConnectFails
  \/ Stop \/ ListenerBreaks
  \/ \E k \in Kinds : Hear(k)
  \/ ReadFence \/ Act \/ SpeechStarts \/ SpeakerEnds \/ Revoked
  \/ Finish \/ Expire

\* The process is gone, and the stream with it.
Lost ==
  /\ phase' = "none"
  /\ listener' = "on"
  /\ speaker' = Idle
  /\ guard' = "waiting"
  /\ queued' = FALSE
  /\ outcome' = "none"
  /\ UNCHANGED <<claimed, late>>

-----------------------------------------------------------------------------
TypeOK ==
  /\ claimed \in Nat
  /\ phase \in {"none", "connecting", "live", "finished"}
  /\ listener \in {"on", "stopped", "broken"}
  /\ speaker \in SpeakerType
  /\ guard \in {"waiting", "cleared", "cancelled"}
  /\ queued \in BOOLEAN
  /\ late \in Nat
  /\ outcome \in {"none"} \cup Outcomes
=============================================================================
