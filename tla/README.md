# Verification of Volta

Volta negotiates drayage with carriers inside a *mandate*, the terms a coordinator approved.
This directory holds TLA+ models of its backend and of the stateful parts of its frontend, the TLC
runs that check them on small instances, and proofs that hold for every instance. All paths below
are relative to the root of the repository; `volta/` stands for `backend/src/yuno_backend/volta/`.

## 1. The system

| component | code | state | operations |
|---|---|---|---|
| mandate policy | `volta/mandates/services.py` | none | evaluate terms against a mandate, validate a mandate |
| operation lifecycle | `volta/negotiations`, `volta/recovery`, `volta/evidence` | rows of one operation: status history, mandates, sessions, quotes, commitments, reservations, escalations, notifications, audits | start a negotiation, record a quote, attach evidence, commit, recover, escalate, replace the mandate, acknowledge, generate a brief or recap |
| mutation transactions | `volta/text_slice/application.py`, `volta/persistence`, `api/app/volta_text_service.py` | idempotency rows, advisory locks, row locks | look up, lock, look up again, check, write, commit |
| intake and approval | `volta/mandates/services.py`, `volta/intake`, `frontend/src/app/(control-tower)/intake` and `mandate` | drafts; keys and stored draft of the tab | submit a prompt, extract, create a draft, approve it |
| outbound calls | `api/app/telephony/service.py`, `integrations/twilio/outbound.py` | pending tasks and active entries in memory, attempts in the database | create a call, observe its status, claim its stream |
| human handoff | `volta/persistence/handoffs.py`, `volta/telephony/services.py`, `integrations/twilio/handoff.py`, `frontend/src/features/telephony` | handoffs, authority fences, authority events in memory, the control of the page | request, redirect, dial, observe, fail, poll |
| inbound calls | `volta/telephony/inbound.py` | attempts, bindings in memory, the stored recording | accept, consent, stream, complete, fail |
| media bridge | `api/app/telephony/bridge.py` | two sockets, three tasks | pump audio, execute tools, clear, stop |
| audit timeline | `get_operation_audit`, `frontend/src/features/recovery` | cached first page, further pages of the screen | read a page, load more, read again |
| frontend realtime and tools | `frontend/src/features/realtime` | attempts by generation, pending tool requests, the query of the operation | start, stop, reconnect, dispatch, reconcile |
| API middleware | `api/app/middleware` | request windows | limit mutations, name requests |
| extraction, client secrets, payments | `backend/src/yuno_backend/integrations`, `payments` | none | single calls of a provider |

How they interact: the API turns each HTTP request into one call of
`VoltaTextContractService.execute`, which calls the text slice; the text slice runs one service
in one database transaction. The voice tools reach the same services through the bridge and the
tool delegator, or through the browser. Inbound calls finish by running the recovery service of the
operation lifecycle in their own transaction. A handoff takes the authority of the assistant away
from a call; bridge and tool delegator ask for it before they speak or commit. Status callbacks of
the provider come in by HTTP at any time and in any order.

What is hard here: requests interleave at each `await`; clients retry what may have been done;
reads run on READ COMMITTED outside of locks; in-memory maps and database rows describe the same
call; provider calls may succeed and lose their answer; answers arrive for a page that moved on;
lists have limits of 100 rows. `PROJECT.json` lists each hazard at its line, with the properties that
cover it.

What makes the components correct, in short: terms inside the mandate and one winner (operation
lifecycle); each key applied once, atomically, and replayed (mutation transactions); at most one
provider call per key and truthful failures (outbound calls); one coordinator, no assistant beside
that coordinator, a final outcome (human handoff, media bridge); one recovery per inbound call, with
its evidence (inbound calls); one operation per draft (intake); one microphone and no tool before
reconciliation (browser voice); a timeline without gaps (audit timeline).

## 2. The modules

| module | models |
|---|---|
| `MandatePolicy` | the comparison of terms with a mandate, as pure operators |
| `MandateSafeAgreement` | what an operation promises its coordinator: an abstract state machine of three variables |
| `OperationLifecycle` | one operation after its approval: ten mutations, one action each, and the clock |
| `OperationRecords` | the rows each of these transactions writes beside: history, audit trail, evidence, recoveries, contexts, decisions, papers |
| `OperationReads` | `get_operation`, one unlocked statement after the other, while the mutations go on |
| `MutationTransactions` | the steps inside a mutation, for several requests and operations |
| `Intake` | the pages, requests and transactions from a prompt to an approved operation |
| `OutboundCalls` | the requests, tasks, rows and provider calls of outbound telephony, with callbacks and restarts |
| `HumanHandoff` | the takeover of a call: requests, rows, fences, conferences, callbacks, the control of the page |
| `VoiceBridge` | the three tasks of a media stream; its line and the fence come from outside |
| `LiveTakeover` | `HumanHandoff` composed with an instance of `VoiceBridge` |
| `InboundCalls` | webhooks, consent, stream and recovery of the calls to the AI |
| `BrowserVoice` | the voice page, its attempts, the tool dispatcher and the shared query |
| `AuditTimeline` | the paged audit and the screen that joins its pages |
| `...Proofs` | the theorems of the module they are named after; `OperationLifecycleProofs` also has those of `OperationRecords` and `OperationReads`, `HumanHandoffProofs` those of `LiveTakeover` |
| `MC...` | instances for TLC |

A comment "A mutant of the next definition" marks a deliberately wrong variant of the definition that
follows it. No specification uses it; it serves to show that the property it breaks depends on the code.

### OperationLifecycle

Each table of an operation is a variable: `quotes`, `commitments`, `escalations` and
`notifications` are sequences in the order of creation (a row's index is its id, 0 is NULL),
`mandates` is indexed by version, `version` and `status` stand for the operation row and its
status history, `audits` counts the audit events. A mutation of the code locks the operation row
`FOR UPDATE`, checks, writes and commits; a failed check rolls back. So a mutation is one action,
with the checks of the service as guards and all its writes as effects: `CreateCommitment`, for
instance, consumes the evidence reservation, supersedes the winner, inserts the new commitment,
and advances version, status and audits. `Committable` holds the checks of the service; the unique index
on the quote of a commitment is a guard beside them (`QuoteUncommitted`), for the checks let one case
through: the quote of a recovery, which is selected again, with evidence attached to it afterwards. That
transaction is rolled back at the index. That mutations may be taken as single steps is what
`MutationTransactions` shows (`MutationsAreAtomic`).

Abstractions: an amount is a number, a pickup window two days, a foreign currency a condition
outside of the mandate (the policy refuses both alike); ties of the ranking by creation time and id
are ties by creation order; `now` is the clock that ends quotes; texts, actors and correlation ids
are left out. The three limits of 100 rows are the constant `RowLimit`.

`MandateSafeAgreement` is implemented under the mapping at the end of the module: the phase is
computed from the status, the agreement from the active commitment.

### OperationRecords

Each action conjoins one of `OperationLifecycle` with the rows its service adds in the same transaction,
so a rolled back mutation leaves none. `history` is `operation_status_history` (one status per version,
appended by `_transition`), `trail` the audit events as pairs of version and type, `evidence` the
agreement evidence, `recoveries` the recovery attempts. An escalation row carries its context and a
notification row its decision; they are kept as sequences of their own, `contexts` and `decisions`, that
grow in step. `papers` are the references a brief or a recap is stored with. `QuoteKeys` to
`NotificationKeys` state the foreign keys and unique constraints of `volta/persistence/tables.py`.

### OperationReads

`pc` is the statement of `operations.get` that comes next, `view` what the earlier ones have read:
row and mandate, status history, negotiation, quotes, commitments with their evidence, audits,
the open escalation, notifications. A statement that finds more than `RowLimit` rows, or a status newer
than the row it began with, ends the request with an error (`refused`). No step of a request writes.

### MutationTransactions

A delivery is one HTTP request. It moves through the stages of `pc`: the unlocked pre-read of
`start_negotiation`, the advisory lock of the key, the lookup of the key, the read of the evidence
reservation, the row lock, the second lookup, and the decision. Each stage is one statement on
READ COMMITTED PostgreSQL and others may run in between; `Abort` loses the process or connection at
any stage and rolls back. The operation is reduced to what decides whether the next mutation is
permitted. `Effect` fixes one representative course: a new quote is the selected one, a recovery is
inside the mandate. What a facade reads in transactions of its own, before the one that decides, is kept:
the mandate version in the fingerprint of a start (`mandateSeen`), and the reservation of a commitment.

### Intake

One tab shows the intake page or the mandate page. `Submit` and `Approve` send a request with a key;
an attempt that has not succeeded repeats its key, and a page that is left (`Visit`) forgets its keys
and hears no answer, while its requests go on in the server. A submission is extracted first
(`Extract`: the model may find any proposal) and then looked up and stored in one transaction under
the lock of its key (`CreateDraft`), with what was found in the fingerprint. An approval is two steps:
`LookApproval` up to the read that finds no operation of the draft, `InsertOperation` with the unique
constraint of `source_draft_id`; between them another approval may insert. `Hear` stores an eligible
draft for the mandate page, or removes the approved one. The button that starts over and clears the storage
too (`startOver`, `mandate-approval.tsx:86`) is left out of `Visit`: at this commit it is shown after a
successful approval, which has cleared it already, or after error codes that no approval returns.

### OutboundCalls

`LiveTelephonyApplication.create_outbound_call` decides under its lock: a known key is answered its
call, a request of a pending key joins its task, a taken session or a full house is refused, and
anything else starts a task. That block is one action, split by its outcome (`AskConflict`,
`AskKnown`, `AskRefused`, `AskWaits`). The task runs behind `asyncio.shield`, so a client that goes
away does not stop it; its stages are the awaits of `create_call` and `_complete_outbound_call`:
`reserve`, `post`, `sent` (the provider has the request, its answer is under way), `record` and
`register`. A database write that raises may have been committed or not (`ReserveFails`,
`RecordFails`, `ObserveFails`). `Restart` drops the tasks and the entries and keeps the rows.

`tasks` is `_pending_outbound` with `_pending_call_session_ids`, `entries` is the three indexes of
runtime entries, which the code always writes together, `rows` is `outbound_call_attempts`, and
`calls` is what the provider did. The provider numbers the events of a call in their order and
stamps them; a callback brings any event that has happened to a registered call, at any time and
any number of times, or never. Assumed of the provider: a connection error, a pool timeout or a 429
placed no call, which is what the code assumes when it retries them.

Abstractions: one process; the age of the authorization and the allowlist are a refusal that may
happen (`RefuseUnauthorized`); the nine statuses are `queued`, `live` (the three in between) and
`over` (the five terminal ones, which the code never tells apart); the request is its key, session
and correlation id; the lookup of the operation and its session before the lock changes nothing.

### HumanHandoff

A POST is a request with a key. Its server part runs in the stages of `stage`: `Reserve` and `Commit`
are the one transaction that locks the call, refuses a repeated key, an active handoff, a dead call or
a second fence (`EarlyAnswer`), and writes handoff and fence; `Silence` sets the event of the process
inside that transaction, so `Abort` leaves it set. After the commit come the awaits of
`begin_handoff`: `Resolve`, `Redirect`, `Dial`, `Attach`; a provider call is answered, or it fails or
times out, and then it was done all the same or not (`Provided`). A failure is recorded by a transaction
that keeps an outcome a callback brought first, and `ReadBack` answers what the row says; either may find
the database gone (`Unavailable`). A conference reports joins and
leaves as numbered events; a callback is delivered in any order and again, maps to the binding of its
handoff in one transaction (`MapCallback`) and changes the row in another (`Observe`). The control of
the page reads the readiness, sends with the one key it drew, hears or loses the answer, and polls.
`Restart` loses requests, callbacks under way and the event, not the database or the conference.

Taken for granted: a call that is in progress has a brief. The call is one session with up to
`MaxCalls` attempts, which is what separates `session` and `attempt` in the readiness check. Of each
attempt, `call` has the status the database was told of and the leg the provider has; a process that
restarted does not know the newest one (`known`), so `Redial` may place another while its leg is up, and
the request redirects the leg its binding names.

### VoiceBridge and LiveTakeover

`VoiceBridge` has four variables it only reads or sets for others: the attempt, the line, the fence
and the event of the process. `listener`, `speaker` and `guard` are the tasks `twilio_to_realtime`,
`realtime_to_twilio` and `authority_to_twilio`. An output of the model (`Hear`) asks the event, then
awaits a read of the fence (`ReadFence`) and goes on with what was read (`Act`); audio asks twice,
around its conversion, a tool once. `guard` wakes up when the event is set and clears what the
provider has queued. The stream ends when a media task ends (`Stop`, `ListenerBreaks`, and `SpeakerEnds` at any step of an
output) or at its deadline, and `Finish` tells what was the outcome. `late` counts outputs after the fence.

`LiveTakeover` puts both on one call: the line belongs to the newest attempt of this process and is
lost when the leg is redirected, hangs up, or the process restarts.

### InboundCalls

A webhook of a call is delivered once or more; each delivery has its own progress (`hooks`). `Lookup`
finds the attempt of the call; `Correlate` takes the one operation that is open to a call under the
row locks; `Consent` and `Register` follow the key the caller pressed; `StartStream` and `Claim` start
the stream; `EndStream` ends it as the bridge tells. A completion reads (`Check`), stores the
recording outside of any transaction (`Store`), replaces the commitment in a second transaction
(`Complete`), and deletes the recording if that one raises (`Rollback`, `Cleanup`). A commit may raise
before or after PostgreSQL has done it, here as in `OutboundCalls`: `Complete` then replaces the commitment
and still goes to the cleanup, `GotoCommitted` loses the answer to a webhook, and `StartBreaks` closes a
socket whose attempt may be `STREAMING`. Two sets only record: `unheard` are the completed calls whose
commit raised, `orphans` the recordings that a crash or a storage that fails to delete left. Meanwhile
`Supersede`, `Escalate` and `ReplaceMandate` are the other clients of the operation. The recovery is
the action `RecoverInsideMandate` of `OperationLifecycle` with fixed terms; here it is the new
commitment alone, and whether the terms are inside the mandate is one flag.

### BrowserVoice

The page keeps the refs of `browser-voice-experience.tsx`: the generation, the abort controller, the
adopted connection, the busy flag and what is shown. An attempt of `connectBrowserRealtime` is the
record of its generation; `MicrophoneGranted`, `CredentialIssued`, `OfferAnswered` and `ChannelOpens`
are what it awaits, `ConnectFails` and `Leave` its `catch` and `finally`, which run whatever the page
does in the meantime. A tool request has two ends: `step` is what
the page knows of it, `api` what the server does, which may still commit (`Execute`) a request whose fetch
has failed at the page (`Answer`). `Reconcile`, `ReadAgain` and `Refetched` are the reconciliation after a
lost session. Unmounting asks for one as well, which goes on without the component (`orphans`,
`OrphanReads`); a component that is mounted again has a `NewDesk`. The limit of 128 tracked requests
(`MAX_TRACKED_PROVIDER_CALLS`) is left out: it refuses a request before anything is sent. The
query of the operation is shared: a newer refetch takes over the callers of an older one, and one that
fails answers with the cache.

### AuditTimeline

A row has a place (time and id) that is drawn before it is committed, so rows appear behind rows that
were read. `PageAfter` is `get_operation_audit`: one list per kind, each with its limit, joined,
ordered and cut. `first` is the first page in the query cache, `pagination` the pages after it, which
the screen keeps as long as the first page ends where it did (`Matches`). `LoadMore`, `ReadMore` and
`MoreArrives` are a further page, `Refetch`, `ReadFirst` and `FirstArrives` the first one read again.

## 3. The runs

| run | instance | properties |
|---|---|---|
| `operation` | two carriers of different priority, three terms (cheap, dear, late), two mandates, recaps, clock 0..1, six versions | `OneWinnerChain`, `TermsInsideMandate`, `RowsAreAccepted`, `RowsAreExplained`, `AuditExplainsHistory`, `LiveWinnerOnlyImproves` |
| `operation_reads` | one carrier, two terms, three mandates, a limit of seven rows, seven versions, one request that reads | `StatusReflectsRows`, `EscalationFreezesAgreement`, `KeepsPromise`, `CurrentAnswersAreWhole` |
| `mutations` | four requests of one key, two operations, all kinds of mutations | `OneMutationPerKey`, `MutationsAreAtomic`, `RetriesAreReplayed` |
| `mutations_agree` | three requests of one key, from a quote or its evidence to a recovery or an escalation, fair | `EveryRequestIsAnswered`, `RetriesAreReplayed` |
| `outbound` | three requests, two keys, two sessions, two attempts, two events of a call, one restart | `OneCallPerKey`, `FailureIsDefinitive`, `AnswersAreKept`, `SessionsApart` |
| `outbound_capacity` | two requests for one slot, two events of a call, a clock 0..1, one restart, fair | `CapacityHolds`, `StatusIsNewestSeen`, `SlotsAreFreed` |
| `handoff` | two requests, the key of the page and another, two attempts of the call, two events, one restart, two failures | `OneCoordinator`, `FencedBeforeProvider`, `OutcomeIsFinal` |
| `takeover` | one request, two attempts of the call, no events of the conference, one restart, one failure, fair | `OneLateOutput`, `RequestsAreAnswered`, `RevocationIsHeard` |
| `inbound` | two calls about one operation, one repeated webhook, three commitments, one restart, one failure | `OneCallPerOperation`, `RecordingsAreEvidence`, `RecoveryReplacesItsCommitment` |
| `voice` | three generations, two tool requests, four versions, three failures, fair | `OnlyCurrentListens`, `ShownAsItIs`, `QuietUntilReconciled`, `ReconciliationEnds` |
| `intake` | four requests, two prompts, two proposals of which one is eligible, three visits | `OneOperationPerDraft`, `OneDraftPerKey`, `ClearedDraftsAreApproved` |
| `timeline` | six rows of two kinds in pages of two | `NoGap`, `PagesAdvance` |

Each property is stated in words above its definition. In one line each, the less obvious ones:

* `OneWinnerChain`: every commitment but the last is superseded by the next, and one is active at most.
* `LiveWinnerOnlyImproves`: a comparison never replaces a winner whose quote is live by a dearer one.
* `RowsAreAccepted`: every reference of a row names a row of the operation; the unique constraints no check
  repeats hold; and the only transaction that passes its checks and is lost at an index is the agreement of
  a quote that a recovery has agreed itself.
* `RowsAreExplained`: each commitment has its evidence and comes from a quote and its reservation, or from
  exactly one recovery and its notification; each escalation out of the mandate has exactly one attempt.
* `AuditExplainsHistory`: the audit events tell each change of status, commitment and mandate at its version.
* `KeepsPromise`: the operation implements `MandateSafeAgreement`.
* `CurrentAnswersAreWhole`: an answer whose version is still the present one is current in all its parts.
* `OneMutationPerKey`: a key is recorded once, for one command, and whoever succeeds with it has its result.
* `RetriesAreReplayed`: whoever repeats a committed command is answered from its record, or its connection
  fails. The exceptions are named (`ServerReadMoved`): a start that finds a newer mandate, and a commitment
  or an attachment whose lookup came before the commit of the first one. A retry whose lookup comes
  after it never gets further.
* `AnswersAreKept`: answers of a key agree, are for the session asked for, and are in the database.
* `FailureIsDefinitive`: a key that was told "failed" has no provider call and never gets one.
* `OneLateOutput`: one output of the AI at most follows the fence, the one that had been let through.
* `RevocationIsHeard`: what the AI had queued when it lost its authority is cleared, or the stream ends.
* `RecordingsAreEvidence`: recording and recovery are there together or not at all, save a recording that a
  crash or the storage left, and a completed call whose commit raised after it was done, which loses its
  recording.
* `QuietUntilReconciled`: no session sends a tool request before each one of its earlier sessions has been
  answered or has failed, and the operation has been asked for again. A request that failed may still be
  committed later (`OverBeforeNext` in section 5).
* `NoGap`: every row that all shown pages could have read, and that lies before their end, is shown.

Why the bounds are enough. Six versions of two carriers hold a start, two competing quotes, two
commitments and one recovery, the shortest history in which a recovered quote competes; prices and
windows lie inside both mandates, inside one, and outside by the end of the window. Seven versions of one
carrier hold a second round: commit, escalate, new mandate, recover; one of its two
terms has a condition that a single mandate allows, and one mandate misses the pickup date. Seven rows are
a limit such a history reaches, so a request is refused in some of them. One request is enough, for requests write nothing.
Four deliveries are a start, an escalation, a new mandate, and the start again; a record belongs to a
kind of mutation and a key, so one key is enough for retries, and two operations for a key that is reused.
In `mutations_agree` three are a commitment, its retry, and a request that changes the operation
meanwhile. In `outbound` a key can be asked before and after a restart while the other key asks
for its session; two attempts are a retry and a last one, two events can be swapped. With the
clock of `outbound_capacity` they have times to compare, before and after the row was written. One slot shows
the capacity like three: the test counts, whatever it counts to. In `handoff` two requests race with
the same key, with two keys and on two attempts of the call, and a restart may fall between any two
stages of each; more restarts and longer histories of a conference are covered by the proofs of the three
properties. `takeover` needs no events of the conference, which the bridge does not see. Two
inbound calls compete for one operation, and three commitments let another client supersede what a
call was accepted for. Three generations of the voice page are a session that is lost, one that
reconciles, and one that is started meanwhile. Four requests of a tab are a submission with its retry
and two approvals. Six rows in pages of two make three pages while a list outgrows a page.

Names that differ in nothing else are interchangeable, so the runs without liveness use symmetry where
they can; the fair runs do not. Deadlock is not checked: every bounded model comes to rest, and so does
an operation no carrier can serve.

Type invariants are not listed with the runs: those of all modules are proved (section 4).

Fairness. Five properties are liveness; each specification that has one says what is fair:

* `mutations_agree`, `outbound_capacity`: the next step of each delivered request, or of each task. The
  event loop and PostgreSQL serve whatever can go on, and every wait of an outbound task has a timeout.
* `takeover`: each server step of a request, and what the bridge does by itself: a connection is made or
  fails, a read is answered, a task that can go on does, the guard wakes up. The deadline of a stream
  is not fair, so nothing holds only because a stream ran out of time.
* `voice`: requests and refetches are answered or fail, and settled promises run their continuations.

Nothing makes a client, a coordinator, a page or the provider act, and nothing is assumed of failures
and restarts.

## 4. The proofs

The proof modules are checked by TLAPS for every value of the constants, under the assumption each
module names (`ConstantsAssumption`, `RequestsAssumption`, `CallsAssumption`, `HandoffAssumption`,
`InboundAssumption`, `IntakeAssumption`, `VoiceAssumption`, `TimelineAssumption`).

Operation lifecycle:

* `TypeInvariant`: inductive by itself.
* `ChainInvariant`: `TypeOK /\ OneWinnerChain` is inductive; `ChainWinner` shows that in a chain
  the chosen winner is the last commitment, so that superseding it keeps the chain.
* `StatusInvariant`: `StatusReflectsRows` is inductive with the chain, which gives the winner.
* `EscalationFreezes`: by actions; an escalated operation has an open escalation or none at all
  to call, so neither recovery nor negotiation is enabled.
* `TermsInvariant`: inductive; new mandates are appended, so the version a row names keeps its terms.
* `QuotesInvariant`, `EvidenceInvariant`, `NoticesInvariant`: by how a step may agree something
  (`HowAgreed`): a comparison commits an uncommitted quote and consumes its open reservation, a
  recovery brings a quote of its own and notifies. The last one needs that a notification names a
  commitment that exists (`NoticesKnown`) and the second.
* `WinnerImproves`: the selected quote precedes every candidate, and the winner has the terms of its
  quote (`CommitmentsKeepTheirQuote`).
* `PromiseKept`: every initial state maps to one of `MandateSafeAgreement`, every step to a step or
  a stutter, from the invariants above.
* `RecordsImplement`, `ReadsImplement`: a step with its rows is a step without them, and a read is a stutter.
  So `ReadsSpec` implements `RecordsSpec`, that `Spec`, and that the promise: what is proved of the
  smaller module holds of the larger one.
* `RecordsTypeInvariant`: with the rules of the constructors of the code (an attempt that replaced names a
  commitment and no escalation, and the like), which each action must establish.
* `RowsAccepted`: by groups of keys. Rows only grow (`CommitmentsGrow`, `SessionsGrow`, `ReservationsGrow`),
  so old references stay good; that new ones are good and unique is `References`: a reservation or a
  paper is looked for before it is made, and quotes, escalations and attempts have an index
  of their own. A quote that passes the checks again has an open reservation, which its own commitment by a
  comparison has used up: so that commitment is a recovery's.
* `RowsExplained`: `Known` says that rows speak only of commitments and escalations that exist, so those about
  a new one are the ones its own transaction adds (`NewFromQuote`, `NewByRecovery`); `ExplanationKept` is that
  none is added about an old one. The decision of a notification keeps its commitments' calls and terms,
  which no step changes, though a later one supersedes them.
* `TrailTellsHistory`: `Tells` says what the events of one version mean for the statuses around it. The events
  a step adds carry the version it enters, and briefs and recaps, which enter none, add events of types that
  say nothing of a status (`Grows`). The counts of commitments and mandates are cardinalities that grow by
  one, or not, with the version.
* `AnswersAreWhole`: `VersionStep` is the reason: a step enters a new version or leaves alone all that a
  request reads, evidence reservations and papers not being among it. `ReadSoFar` says, statement by
  statement, that what has been read is current if the version is; and the request cannot find a status
  newer than its row, nor a commitment without evidence (`EvidenceKnown`), at a version that has not changed.

Mutation transactions:

* `TypeInvariant`: inductive by itself.
* `HoldsRowInvariant`: a request that has passed its row lock is the only holder and `seen` is the
  row as it still is; this is the strengthening `AtomicMutations` needs.
* `AtomicMutations`: only `Apply` writes, and it writes a whole mutation of the current row.
* `KeysAgree`: "applied once" is not inductive, for the log is not what the code looks at. `Recorded` adds
  that the log and the idempotency rows describe each other and no key has two rows; `Backed` that whoever
  succeeded has the row of its key. The lemma `KeysApplyOnce` is the first half.
* `RetriesReplayed`, for every set of kinds: by `Backed` a committed command has its row with the
  fingerprint of its request, so any lookup from then on finds it. `KeyHeld` is about the requests past
  their lookup: one that holds the lock of its key knows that nothing was committed under it, and each of
  the others is stopped by the second lookup or is one of `ServerReadMoved`.

Outbound calls:

* `OneCall`, with its `TypeInvariant`: "one call per key" is not inductive, for a task about to post
  must know that nobody posted for its key before it. `Inv` adds that (`Placed`): every call has a row
  and a task at `post` has no call yet, since only a reservation that finds no row goes on to `post`.
  `Refers` and `Reserved` tie what tasks, rows and entries name to calls and rows that exist.
* `SessionsStayApart`: outside of `AskWaits`, which looks at both maps, a step lets tasks and
  entries only go on, end, or turn from one into the other (`TasksGoOn`).
* `CapacityInvariant`: the keys that count are a finite set with at most `MaxActive` members, though
  nothing bounds `Keys`; only `AskWaits` adds one, after it has counted (`NewcomerFits`), and no
  callback makes a terminal entry live again, as `ObservedTyped` says of `NextStatus`.
* `FailureInvariant` and `AnswersAreKeptAlways` (from `AnswersInvariant` and `RecordedInvariant`) follow
  from `Truth`: the verdict a task carries, a final row, an entry and an answer each agree with the call
  that was or was not placed. It needs `Inv` and `SessionsApart`: an entry's row is not written by a task
  of its key.
* `StatusInvariant`: the statuses of the events of a call rise (`Rising`), and entry, row and the result a task
  carries each tell the newest event they were told of (`AllTold`).

Human handoff and takeover:

* `CoordinatorInvariant`, `FenceInvariant`: `Reserved` says that a request that writes is alone and the
  first, and that one that has begun is fenced; `Asked` that only one request asks the provider, for
  one leg and one coordinator.
* `OutcomesAreFinal`: `AuditedOnce` and `Reported` (a callback reports an event of its conference); a
  row only goes on, and `Followed` says that the page polls a handoff that exists.
* `LateInvariant`: the fence stays, and a task that was let through before it is alone (`AtMostOne`):
  every other output reads the fence and finds it.
* `TakeoverIsHandoff`: composed with the bridge, the handoff takes its own steps or none, so
  `TakeoverKeepsHandoff` has its three properties. `TakeoverTypeInvariant` types both parts.

Inbound calls:

* `OneCallInvariant`, `EvidenceInvariant`: `Kept` ties a recording to the stage of its stream, with the calls
  whose commit raised apart, and a step changes one attempt at most, in one of the ways of `Moves`.
* `RecoveryInvariant`: `Dated` says that what a completed call made is not newer than what its operation has.
* `ConsentInvariant`: `Agreed` leads every attempt with consent back to the key the caller pressed.

Intake:

* `DraftInvariant`, `OperationInvariant`, `ApprovalInvariant`: `Linked` pairs drafts with their records,
  `Carried` says what a request has at each step, `Keyed` that a page has the keys it used, `Locked` that
  an approval is alone with the lock of its key.
* `DraftsAreKept`: the answer that clears the storage must be the one to the approval of what is stored
  *then*, though pages reload and answers are late. `Stored` says so: what an intake page still waits for
  is newer than what is stored (`Newer`), a mandate page asks to approve what is stored (`Approving`), and
  a key of an approval is for one draft, whose operation exists once it is answered (`Agreed`).

Audit timeline:

* `EarliestIs` is what `Earliest` returns for every set of rows: the rows before all others, as many as
  asked for, or all. It needs that a set of rows has a first one, which `LeastNatural` takes from the
  library's theorem that the naturals are well-founded.
* `PageIs`: a page holds exactly what it has read between its cursor and its end, although each list was
  cut before they were merged. `Unlisted` is the reason: a row a list cuts off comes after a whole page and
  one more row, so that it cannot lie before the end of the page.
* `TimelineHasNoGap`, `MoreShowsMore`: `Chain` says that pages follow one another from a cursor and show
  what all of them have read; it is kept for the pages on the screen and for those a request for
  more has closed over, and `AppendChain` joins the two.

Browser voice: one inductive invariant `Inv` for its theorems. `Alone` is the idea: only the
attempt whose abort controller the page holds is alive, and it is of the current generation; `Reached`
and `Watched` keep generations and watchers behind the page; `Quiet` says that a dispatcher that is not
blocked has unsettled requests of the present session only, which `QuietSteps` needs. `TypeInvariant` needs
one more: that the page, the
requests and the refetch know no version the operation has not had, and that each request that has made
none finds one left (`Bounded`, by the cardinality of those requests).

Model-checked only: the liveness properties `EveryRequestIsAnswered`, `SlotsAreFreed`,
`RequestsAreAnswered`, `RevocationIsHeard` and `ReconciliationEnds`, which are beyond the prover. Every
other property of the runs is a theorem.

## 5. Where code and documents disagree

Definitions that state what a document says and the code does not do. No run lists them; added to the
configuration named (as an `INVARIANT`, those with a step as a `PROPERTY`), each is violated. Documents are under
`docs/project-specs/` unless the path says otherwise.

| definition | configuration | document | the code |
|---|---|---|---|
| `EscalationCanEnd` | `MCReads.cfg` with `RowLimit = 6` | `docs/decisions/challenge-plan.md:120`: a new mandate resumes the negotiation | `replace_mandate` projects the operation before its commit (`volta/text_slice/application.py:614`): with a full list the new mandate is refused for good |
| `EveryRetryIsReplayed` | `MCMutations.cfg` | `2026-08-30-15-expose-evidence-recovery-routes/requirements.md:86`: identical retries return the stored answer | the fingerprint of `start_negotiation` holds a mandate version read by the server (`application.py:295`) |
| the same | `MCMutationsAgree.cfg` | `2026-08-29-10-pass-text-negotiation/requirements.md:52`: the same | the reservation is read after the lookup of the key (`application.py:488`): the duplicate finds it consumed |
| `ReplayRepeatsAnswer` | `MCMutationsAgree.cfg` | `2026-08-29-04-define-p0-http-contracts/requirements.md:38`: a replay returns the original body | `_commitment_replay` reads the commitment again (`application.py:997`) |
| `ReplayReturnsCall` | `MCOutbound.cfg` with two correlation ids | `2026-08-30-22-pass-final-telephony-trial/requirements.md:86`: an exact replay returns its stored call | the correlation id of the HTTP request is in the fingerprint (`api/app/routers/telephony.py:284`) |
| `TerminalIsDurable` | `MCOutboundCapacity.cfg` | the same, line 88: terminal callbacks are durable | an event stamped before the row was written is refused (`volta/persistence/repositories.py:1475`) |
| `FreshBeforeNext` | `MCVoice.cfg` | `2026-08-30-13-add-browser-voice/requirements.md:54`: a disconnect reconciles through a fresh read before another voice mutation | a refetch that fails counts, and a page that is mounted again has a new dispatcher |
| `OverBeforeNext` | `MCVoice.cfg` | the same: it resolves the old call before another voice mutation becomes available | a fetch that fails (`tool-dispatcher.ts:398`) settles the request at the page, while the API may still commit it |
| `RetriedDraftIsReplayed` | `MCIntake.cfg` | `2026-08-29-10-pass-text-negotiation/requirements.md:52`: retries return the original answer | what the extraction found is in the fingerprint, and it may find something else |
| `UncertainApprovalKeepsKey` | `MCIntake.cfg` | `2026-08-29-10-pass-text-negotiation/validation.md:50`: a new key only for a new logical action | the key of an approval lives as long as the page |
| `FailuresArePersisted` | `MCInbound.cfg` | `2026-08-30-26-accept-inbound-twilio-calls/plan.md:28`: on refusal, persist a safe non-success status | a completion that is refused leaves its attempt `STREAMING` (`volta/telephony/inbound.py:609`) |
| `EvidenceIsPlayable` | `MCInbound.cfg` | the same, `requirements.md:104`: never a database-only playable reference | a commit that raises after it was done (`volta/persistence/unit_of_work.py:117`) counts as rolled back, and the recording of the completed call is deleted (`volta/telephony/inbound.py:609`) |
| `NothingFollowsFence` | `MCTakeover.cfg` | `2026-08-30-28-transfer-live-call-to-human/validation.md:24`: output is dropped and mutations fail after the fence | what was let through before the fence goes out after it |
| `JoinedIsTrue` | `MCHandoff.cfg` with one request and three events | the same, `requirements.md:56`: a join advances to `JOINED` and proves the remote call is still a participant | presence is kept per participant: one who left and whose callback is still under way counts (`integrations/twilio/handoff.py:418`) |
| `EndIsAuthoritative` | `MCTimeline.cfg` | the end-of-timeline text of `recovery-experience.tsx` | the last page is never read again |

Neighbours of these have no definition of their own. A quote that a recovery agreed can be selected and have
evidence attached, and its agreement is then refused by the unique index of `volta/persistence/tables.py:402`
and by no check (`OnlyARecoverysQuoteIsRefused` says that nothing else is). A duplicate of
`attach_commitment_evidence` that waits for the row is refused by the reservation of the first, one of the
exceptions of `RetriesAreReplayed`. The audit timeline loads the operation and so fails beyond 100 status rows. `ResumeAfterEscalationService`, which the backend package exports and no route
calls, compares a mandate version its caller sends: wired as it is, it would end an escalation without
a new mandate.

## 6. Not modelled

* `ResumeAfterEscalationService` and `RecordEvidenceService`, which only tests call.
* Validation and wording of requests, the layout of projections, the texts of audits, briefs and recaps,
  migrations. Of the contracts of the API, what an answer shows of an operation is in `OperationReads`.
* The download of a recording (`get_evidence_audio`), which is written once and read by its name.
* API middleware: a sliding window per identity under one lock; a unit test reaches what can go wrong.
* Payments: an unused mock.
* The bytes of audio, its conversion and its buffers; the lifetime of client secrets; the attempts inside
  an extraction.
* The remaining screens of the frontend, which render projections and keep one key per attempt as the pages
  of `Intake` do, and the control of outbound calls, which sends and polls.
* More than one process of the API: the deployment runs one, and the in-memory maps assume it.

## 7. What is left

1. A refinement between `InboundCalls` and `OperationLifecycle`, so that the recovery of a call is shown
   to be a step of the operation instead of being modelled after it.
2. `acknowledge_notification` and the intake mutations as kinds of `MutationTransactions`.
