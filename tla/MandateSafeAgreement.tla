------------------------ MODULE MandateSafeAgreement ------------------------
(***************************************************************************)
(* What an operation promises its coordinator, without rows or versions:   *)
(* at any time there is at most one agreement; it is only ever replaced by *)
(* terms inside the mandate in force; nothing is agreed before negotiation *)
(* opens or while an escalation is open; and only a newly approved mandate *)
(* ends an escalation.                                                     *)
(***************************************************************************)
EXTENDS MandatePolicy, Sequences

CONSTANTS
  Mandates,   \* the mandates a coordinator may approve
  Offers,     \* the terms a carrier may offer
  None        \* no agreement yet

VARIABLES
  phase,      \* "ready", "open", "escalated" or "stopped"
  agreement,  \* None, or the terms in force and the version of their mandate
  approved    \* the approved mandates; the last one is in force

promise == <<phase, agreement, approved>>

Init ==
  /\ phase = "ready"
  /\ agreement = None
  /\ approved \in {<<m>> : m \in Mandates}

Open ==
  /\ phase = "ready"
  /\ phase' = "open"
  /\ UNCHANGED <<agreement, approved>>

\* No carrier can be contacted: the operation goes no further.
Stop ==
  /\ phase = "ready"
  /\ phase' = "stopped"
  /\ UNCHANGED <<agreement, approved>>

Agree(t) ==
  /\ phase = "open"
  /\ Within(approved[Len(approved)], t)
  /\ agreement' = [terms |-> t, mandate |-> Len(approved)]
  /\ UNCHANGED <<phase, approved>>

Escalate ==
  /\ phase = "open"
  /\ phase' = "escalated"
  /\ UNCHANGED <<agreement, approved>>

Approve(m) ==
  /\ phase = "escalated"
  /\ phase' = "open"
  /\ approved' = Append(approved, m)
  /\ UNCHANGED agreement

Next ==
  \/ Open
  \/ Stop
  \/ \E t \in Offers : Agree(t)
  \/ Escalate
  \/ \E m \in Mandates : Approve(m)

Spec == Init /\ [][Next]_promise
=============================================================================
