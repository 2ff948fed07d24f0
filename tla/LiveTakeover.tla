---------------------------- MODULE LiveTakeover ----------------------------
(***************************************************************************)
(* A call with its bridge, and the takeover that must silence the AI before *)
(* a coordinator comes: HumanHandoff and VoiceBridge share the authority    *)
(* event of the process, the fence of the database and the leg of the call. *)
(***************************************************************************)
EXTENDS HumanHandoff

VARIABLES claimed, phase, listener, speaker, guard, queued, late,
          outcome

bridgeVars == <<claimed, phase, listener, speaker, guard, queued, late,
                outcome>>

allVars == <<vars, bridgeVars>>

Redirected ==
  \E h \in Requests : rooms[h].redirected /\ bindings[h].leg = call.attempt

\* A stream belongs to a leg that is up and was not sent into a conference; a
\* process only knows the calls it placed.
Line == call.leg[call.attempt] = "up" /\ ~Redirected /\ call.known

Bridge == INSTANCE VoiceBridge
            WITH attempt <- call.attempt, line <- Line,
                 fenced <- fences # {}

TakeoverInit == Init /\ Bridge!Init

TakeoverNext ==
  \/ /\ Next /\ ~Restart
     /\ UNCHANGED bridgeVars
  \/ /\ Restart
     /\ Bridge!Lost
  \/ /\ UNCHANGED vars
     /\ Bridge!Next

\* What the provider does not choose: a connection is made or fails, a read is
\* answered, a task that can go on does.  The deadline of a stream is left out,
\* so that nothing below holds only because the stream ran out of time.
TakeoverFairness ==
  /\ \A r \in Requests : WF_allVars(Serve(r) /\ UNCHANGED bridgeVars)
  /\ WF_allVars(UNCHANGED vars /\ (Bridge!Connect \/ Bridge!ConnectFails))
  /\ WF_allVars(UNCHANGED vars /\ Bridge!ReadFence)
  /\ WF_allVars(UNCHANGED vars /\ Bridge!Act)
  /\ WF_allVars(UNCHANGED vars /\ Bridge!Revoked)
  /\ WF_allVars(UNCHANGED vars /\ Bridge!Finish)

TakeoverSpec ==
  TakeoverInit /\ [][TakeoverNext]_allVars /\ TakeoverFairness

-----------------------------------------------------------------------------
\* The types of the two parts.
TakeoverTypeOK == TypeOK /\ Bridge!TypeOK

\* At most one output of the AI follows the fence of its call, whatever the
\* takeover does and through a restart: the one whose task had read the database
\* before the fence (bridge.py realtime_to_twilio, service.py delegate_tool).
OneLateOutput == late <= 1

\* Once the AI has lost its authority, what the provider has queued of it is
\* cleared, or its stream is over (bridge.py authority_to_twilio).
RevocationIsHeard ==
  silenced /\ phase = "live" /\ guard = "waiting"
    ~> phase # "live" \/ (guard = "cleared" /\ ~queued)

\* The authority ends with the fence: nothing of the AI follows it.
NothingFollowsFence == late = 0
=============================================================================
