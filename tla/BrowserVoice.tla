---------------------------- MODULE BrowserVoice ----------------------------
(* The browser voice simulator of one operation: the WebRTC attempts of the page,
   each of one generation, and the dispatcher that forwards the tool requests of
   the model to the API. A request outlives the session that made it, so a page
   that reconnects must first reconcile: wait for every request to settle, then
   read the operation again. A request settles for the page when it is answered or
   fails; one that fails may still reach the API, or be executed there, later. The query cache of the page is shared: a newer refetch takes
   over the callers of the one it cancels, and a refetch that fails answers them
   with what the cache holds. *)
EXTENDS Naturals, FiniteSets

CONSTANTS Calls,           \* tool requests of the model, by provider call id
          MaxGenerations,  \* clicks that start or end a session
          MaxVersion,      \* versions of the operation
          MaxGlitches      \* failures of the network and of the provider

ASSUME VoiceAssumption ==
    /\ {MaxGenerations, MaxVersion} \subseteq Nat \ {0}
    /\ MaxGlitches \in Nat
    /\ IsFiniteSet(Calls) /\ Cardinality(Calls) < MaxVersion

VARIABLES page,       \* the refs and the visible state of the component
          link,       \* link[g]: the attempt of generation g
          desk,       \* the dispatcher of the mounted component
          call,       \* call[c]: the request of provider call c
          orphans,    \* dispatchers of unmounted components, still to reconcile
          query,      \* the refetch of the operation under way
          context,    \* the version the page holds
          version,    \* the version of the operation in the database
          glitches

vars == <<page, link, desk, call, orphans, query, context, version, glitches>>

Generations == 1..MaxGenerations
Versions == 1..MaxVersion
Shown == {"idle", "requesting", "connecting", "connected", "reconciling",
          "reconnecting", "disconnected", "fallback", "error"}
Terminal == {"disconnected", "fallback", "error"}
Phases == {"none", "settling", "permission", "credential", "sdp", "opening", "open",
           "leaving", "closed"}

PageType == [mounted : BOOLEAN, since : 0..MaxGenerations, generation : 0..MaxGenerations,
             busy : BOOLEAN, controller : 0..MaxGenerations, connection : 0..MaxGenerations,
             shown : Shown, terminal : Terminal]
LinkType == [phase : Phases, microphone : BOOLEAN, aborted : BOOLEAN]
DeskType == [blocked : BOOLEAN, step : {"idle", "settling", "refreshing"},
             watchers : SUBSET (0..MaxGenerations)]
\* The step of a request is what the dispatcher knows of it, api where the API is.
CallType == [step : {"none", "posted", "refreshing", "settled"},
             api : {"none", "open", "over"},
             by : 0..MaxGenerations, expects : 0..MaxVersion, made : 0..MaxVersion]
OrphanType == [since : 0..MaxGenerations, until : 0..MaxGenerations]
QueryType == [at : {"idle", "asked", "read"}, value : 0..MaxVersion]

\* createRealtimeToolDispatcher
NewDesk == [blocked |-> FALSE, step |-> "idle", watchers |-> {}]

Init ==
    /\ page = [mounted |-> TRUE, since |-> 0, generation |-> 0, busy |-> FALSE,
               controller |-> 0, connection |-> 0, shown |-> "idle", terminal |-> "disconnected"]
    /\ link = [g \in Generations |-> [phase |-> "none", microphone |-> FALSE, aborted |-> FALSE]]
    /\ desk = NewDesk
    /\ call = [c \in Calls |-> [step |-> "none", api |-> "none", by |-> 0,
                               expects |-> 0, made |-> 0]]
    /\ orphans = {}
    /\ query = [at |-> "idle", value |-> 0]
    /\ context = 1
    /\ version = 1
    /\ glitches = 0

Glitch == glitches < MaxGlitches /\ glitches' = glitches + 1

-----------------------------------------------------------------------------
(* The dispatcher. *)

\* The requests the dispatcher of this mount keeps.
Kept == {c \in Calls : call[c].step # "none" /\ call[c].by > page.since}

Unsettled(c) == call[c].step \notin {"none", "settled"}

\* A dispatcher that loses its session while a request is pending is blocked.
Marked(d) == [d EXCEPT !.blocked = @ \/ \E c \in Kept : Unsettled(c)]

\* reconcile: one reconciliation for all its callers, and only when it is needed.
Reconcile(d, g) ==
    IF ~d.blocked
      THEN d
      ELSE [d EXCEPT !.step = IF @ = "idle" THEN "settling" ELSE @, !.watchers = @ \cup {g}]

\* What the page shows once it has asked for a reconciliation.
Awaiting(d, otherwise) == IF d.blocked THEN "reconciling" ELSE otherwise

\* onMessage: the events of a session reach the page while its channel is open.
Hears(g) == g \in Generations /\ link[g].phase = "open"

\* Of these, the tool requests that parse and were not made before: a duplicate
\* awaits the request it repeats. The limit of requests a dispatcher tracks is left
\* out: one more is unavailable at once.
NewRequests(g) == IF Hears(g) THEN {c \in Calls : call[c].step = "none"} ELSE {}

\* requestMatchesContext: a forwarded request names the versions the page holds.
Expected == context

\* dispatch, when nothing is unresolved; otherwise the tool is unavailable at once.
ToolRequest(c) ==
    /\ page.mounted
    /\ c \in NewRequests(page.generation)
    /\ ~desk.blocked
    /\ desk.step = "idle"
    /\ call' = [call EXCEPT ![c] = [step |-> "posted", api |-> "open", by |-> page.generation,
                                    expects |-> Expected, made |-> 0]]
    /\ UNCHANGED <<page, link, desk, orphans, query, context, version, glitches>>

\* The API commits the mutation of the version it expects and refuses any other,
\* whether or not the page still waits for it. A request may also be lost.
Execute(c) ==
    /\ call[c].api = "open"
    /\ \/ /\ call[c].expects = version
          /\ version' = version + 1
          /\ call' = [call EXCEPT ![c].api = "over", ![c].made = version + 1]
          /\ UNCHANGED glitches
       \/ /\ IF call[c].expects = version THEN Glitch ELSE UNCHANGED glitches
          /\ call' = [call EXCEPT ![c].api = "over"]
          /\ UNCHANGED version
    /\ UNCHANGED <<page, link, desk, orphans, query, context>>

\* The answer, or the failure of a request that was committed, is refused, or is
\* still under way. Either way the operation is read again before it settles.
Asked == [at |-> "asked", value |-> 0]

Answer(c) ==
    /\ call[c].step = "posted"
    /\ \/ call[c].api = "over" /\ UNCHANGED glitches
       \/ Glitch
    /\ call' = [call EXCEPT ![c].step = "refreshing"]
    /\ query' = Asked
    /\ UNCHANGED <<page, link, desk, orphans, context, version>>

\* A mutant of the next definition: it does not wait for the requests.
ReadAtOnce ==
    /\ desk.step = "settling"
    /\ desk' = [desk EXCEPT !.step = "refreshing"]
    /\ query' = Asked
    /\ UNCHANGED <<page, link, call, orphans, context, version, glitches>>

\* reconcile, once every request it waits for has settled.
ReadAgain ==
    /\ desk.step = "settling"
    /\ \A c \in Kept : ~Unsettled(c)
    /\ desk' = [desk EXCEPT !.step = "refreshing"]
    /\ query' = Asked
    /\ UNCHANGED <<page, link, call, orphans, context, version, glitches>>

\* The same, of a dispatcher whose component is gone.
OrphanReads(o) ==
    /\ o \in orphans
    /\ \A c \in Calls : call[c].by \in o.since + 1 .. o.until => ~Unsettled(c)
    /\ orphans' = orphans \ {o}
    /\ query' = Asked
    /\ UNCHANGED <<page, link, desk, call, context, version, glitches>>

-----------------------------------------------------------------------------
(* The query of the operation: every caller awaits the newest refetch. *)

Read ==
    /\ query.at = "asked"
    /\ query' = [at |-> "read", value |-> version]
    /\ UNCHANGED <<page, link, desk, call, orphans, context, version, glitches>>

\* Starts that waited for the reconciliation: only the newest goes on. The others
\* clear the flag of the attempt in progress, whoever holds it.
Resumed(l, p) ==
    [g \in Generations |->
        IF l[g].phase # "settling" THEN l[g]
        ELSE IF g = p.generation THEN [l[g] EXCEPT !.phase = "permission"]
        ELSE [l[g] EXCEPT !.phase = "closed"]]

Reconciled(p, d) ==
    LET starts == {g \in Generations : link[g].phase = "settling"}
        mine == p.generation \in d.watchers
        goesOn == p.generation \in starts
    IN  [p EXCEPT !.shown = IF goesOn THEN "requesting" ELSE IF mine THEN p.terminal ELSE @,
                  !.controller = IF goesOn THEN p.generation ELSE @,
                  !.busy = IF starts \ {p.generation} # {} THEN FALSE ELSE @]

\* A mutant of the next definition: the dispatcher stays blocked.
RefetchedBlocked(held) ==
    /\ query.at # "idle"
    /\ query' = [at |-> "idle", value |-> 0]
    /\ context' = held
    /\ call' = [c \in Calls |->
                  IF call[c].step = "refreshing" THEN [call[c] EXCEPT !.step = "settled"]
                  ELSE call[c]]
    /\ IF desk.step = "refreshing"
         THEN /\ desk' = [desk EXCEPT !.step = "idle", !.watchers = {}]
              /\ link' = Resumed(link, page)
              /\ page' = Reconciled(page, desk)
         ELSE UNCHANGED <<desk, link, page>>
    /\ UNCHANGED <<orphans, version>>

\* The callers of a refetch go on: requests settle, and a reconciliation ends.
Refetched(held) ==
    /\ query.at # "idle"
    /\ query' = [at |-> "idle", value |-> 0]
    /\ context' = held
    /\ call' = [c \in Calls |->
                  IF call[c].step = "refreshing" THEN [call[c] EXCEPT !.step = "settled"]
                  ELSE call[c]]
    /\ IF desk.step = "refreshing"
         THEN /\ desk' = NewDesk
              /\ link' = Resumed(link, page)
              /\ page' = Reconciled(page, desk)
         ELSE UNCHANGED <<desk, link, page>>
    /\ UNCHANGED <<orphans, version>>

Arrive == query.at = "read" /\ Refetched(query.value) /\ UNCHANGED glitches

\* refreshOperation does not look at the error of a refetch: the data of the
\* cache stands for the answer.
RefetchFails == Refetched(context) /\ Glitch

\* The text controls of the same page: a mutation and the refetch after it. The
\* bound leaves a version to every request.
TypedMutation ==
    /\ version + Cardinality({c \in Calls : call[c].made = 0}) < MaxVersion
    /\ version' = version + 1
    /\ query' = Asked
    /\ UNCHANGED <<page, link, desk, call, orphans, context, glitches>>

-----------------------------------------------------------------------------
(* The component. *)

\* close: the tracks stop, the channel and the peer close, once.
Closed(l) == [l EXCEPT !.phase = IF @ = "open" THEN "closed" ELSE "leaving",
                       !.microphone = FALSE]

\* abort: the listener closes what it finds; before the microphone is granted
\* there is no listener, and the attempt looks at the signal itself.
Abort(l) ==
    IF l.phase \in {"credential", "sdp", "opening", "open"} THEN [Closed(l) EXCEPT !.aborted = TRUE]
    ELSE [l EXCEPT !.aborted = TRUE]

\* closeActive: the next generation, and nothing left of the previous one.
Retired(p) == [p EXCEPT !.generation = @ + 1, !.controller = 0, !.busy = FALSE, !.connection = 0]

\* A mutant of the next definition: only the connection that was adopted is left.
LeftAdopted(l, p) == IF p.connection = 0 THEN l ELSE [l EXCEPT ![p.connection] = Abort(@)]

Left(l, p) == IF p.controller = 0 THEN l ELSE [l EXCEPT ![p.controller] = Abort(@)]

Active == {"requesting", "connecting", "connected", "reconnecting"}

\* start, from the button of a new session or of a reconnection.
Start(label) ==
    LET d == Marked(desk)
        g == page.generation + 1
    IN
    /\ page.mounted
    /\ g \in Generations
    /\ \/ label = "requesting" /\ page.shown \notin Active
       \/ label = "reconnecting"
            /\ page.shown \notin {"requesting", "connecting", "reconnecting", "reconciling"}
    /\ ~page.busy
    /\ desk' = Reconcile(d, g)
    /\ link' = [Left(link, page) EXCEPT ![g].phase = IF d.blocked THEN "settling" ELSE "permission"]
    /\ page' = [Retired(page) EXCEPT !.busy = TRUE,
                  !.controller = IF d.blocked THEN 0 ELSE g,
                  !.shown = Awaiting(d, label)]
    /\ UNCHANGED <<call, orphans, query, context, version, glitches>>

\* Stop and the text fallback.
EndSession(kind) ==
    LET d == Marked(desk) IN
    /\ page.mounted
    /\ page.generation < MaxGenerations
    /\ kind = "disconnected" => page.shown \in Active
    /\ desk' = Reconcile(d, page.generation + 1)
    /\ link' = Left(link, page)
    /\ page' = [Retired(page) EXCEPT !.terminal = kind, !.shown = Awaiting(d, kind)]
    /\ UNCHANGED <<call, orphans, query, context, version, glitches>>

\* Starts that wait for a dispatcher whose component is gone end with it.
Released(l) ==
    [g \in Generations |->
        IF l[g].phase = "settling" THEN [l[g] EXCEPT !.phase = "closed"] ELSE l[g]]

\* The cleanup of the effect. The requests go on without the component, and so does
\* the reconciliation it asks for when one is pending.
Unmount ==
    /\ page.mounted
    /\ page.generation < MaxGenerations
    /\ link' = Released(Left(link, page))
    /\ page' = [Retired(page) EXCEPT !.mounted = FALSE]
    /\ orphans' = IF Marked(desk).blocked /\ desk.step # "refreshing"
                    THEN orphans \cup {[since |-> page.since, until |-> page.generation]}
                    ELSE orphans
    /\ desk' = NewDesk
    /\ UNCHANGED <<call, query, context, version, glitches>>

\* A new component has a new dispatcher, that keeps no request of the old one.
Mount ==
    /\ ~page.mounted
    /\ page' = [page EXCEPT !.mounted = TRUE, !.since = page.generation,
                            !.shown = "idle", !.terminal = "disconnected"]
    /\ UNCHANGED <<link, desk, call, orphans, query, context, version, glitches>>

\* connectBrowserRealtime awaits the microphone, the credential the API issues,
\* the answer to its offer, and the data channel; abort is looked at after each.
Awaits(g, phase) == link[g].phase = phase /\ ~link[g].aborted

MicrophoneGranted(g) ==
    /\ Awaits(g, "permission")
    /\ link' = [link EXCEPT ![g].phase = "credential", ![g].microphone = TRUE]
    /\ page' = [page EXCEPT !.shown = "connecting"]
    /\ UNCHANGED <<desk, call, orphans, query, context, version, glitches>>

CredentialIssued(g) ==
    /\ Awaits(g, "credential")
    /\ link' = [link EXCEPT ![g].phase = "sdp"]
    /\ UNCHANGED <<page, desk, call, orphans, query, context, version, glitches>>

OfferAnswered(g) ==
    /\ Awaits(g, "sdp")
    /\ link' = [link EXCEPT ![g].phase = "opening"]
    /\ UNCHANGED <<page, desk, call, orphans, query, context, version, glitches>>

\* The channel opens, and the connection is adopted before the next event.
ChannelOpens(g) ==
    /\ Awaits(g, "opening")
    /\ link' = [link EXCEPT ![g].phase = "open"]
    /\ page' = [page EXCEPT !.shown = "connected", !.connection = g, !.busy = FALSE]
    /\ UNCHANGED <<desk, call, orphans, query, context, version, glitches>>

\* finally, of an attempt that was not adopted: whoever holds the flag loses it,
\* and an abort controller is dropped by its owner only.
Over(p, g) == [p EXCEPT !.busy = FALSE, !.controller = IF @ = g THEN 0 ELSE @]

\* A mutant of the next definition: any attempt that fails is shown.
FailedLoudly(p, g) == [Over(p, g) EXCEPT !.shown = "error"]

\* catch: the failure is shown while its generation is the current one.
Failed(p, g) == [Over(p, g) EXCEPT !.shown = IF g = p.generation THEN "error" ELSE @]

\* The attempt fails: no permission, no credential, no answer, no channel in time.
ConnectFails(g) ==
    /\ ~link[g].aborted
    /\ link[g].phase \in {"permission", "credential", "sdp", "opening"}
    /\ Glitch
    /\ link' = [link EXCEPT ![g].phase = "closed", ![g].microphone = FALSE]
    /\ page' = Failed(page, g)
    /\ UNCHANGED <<desk, call, orphans, query, context, version>>

\* An attempt that was closed under way learns it from the call it awaits.
Leave(g) ==
    /\ \/ link[g].phase = "leaving"
       \/ link[g].phase = "permission" /\ link[g].aborted
    /\ link' = [link EXCEPT ![g].phase = "closed"]
    /\ page' = Failed(page, g)
    /\ UNCHANGED <<desk, call, orphans, query, context, version, glitches>>

\* onStatus hears the connection of the current generation only.
Heard(p, g, kind, d) ==
    IF g # p.generation THEN p ELSE [p EXCEPT !.terminal = kind, !.shown = Awaiting(d, kind)]
HeardBy(d, p, g) == IF g # p.generation THEN d ELSE Reconcile(Marked(d), g)

\* The channel or the peer fails, or the provider reports an error.
Drop(g, kind) ==
    /\ link[g].phase \in {"credential", "sdp", "opening", "open"}
    /\ kind = "error" => link[g].phase = "open"
    /\ Glitch
    /\ link' = [link EXCEPT ![g] = Closed(@)]
    /\ desk' = HeardBy(desk, page, g)
    /\ page' = Heard(page, g, kind, Marked(desk))
    /\ UNCHANGED <<call, orphans, query, context, version>>

-----------------------------------------------------------------------------
Clicks ==
    \/ \E label \in {"requesting", "reconnecting"} : Start(label)
    \/ \E kind \in {"disconnected", "fallback"} : EndSession(kind)
    \/ Unmount \/ Mount

Next ==
    \/ Clicks
    \/ \E c \in Calls : ToolRequest(c) \/ Execute(c) \/ Answer(c)
    \/ \E o \in orphans : OrphanReads(o)
    \/ ReadAgain \/ Read \/ Arrive \/ RefetchFails \/ TypedMutation
    \/ \E g \in Generations :
         \/ MicrophoneGranted(g) \/ CredentialIssued(g) \/ OfferAnswered(g) \/ ChannelOpens(g)
         \/ ConnectFails(g) \/ Leave(g)
    \/ \E g \in Generations, kind \in {"disconnected", "error"} : Drop(g, kind)

\* Requests and refetches are answered or fail, and promises that are settled
\* run their continuations. Nobody has to click.
Fairness ==
    /\ \A c \in Calls : WF_vars(Execute(c)) /\ WF_vars(Answer(c))
    /\ WF_vars(ReadAgain) /\ WF_vars(Read) /\ WF_vars(Arrive)

Spec == Init /\ [][Next]_vars /\ Fairness

-----------------------------------------------------------------------------
TypeOK ==
    /\ page \in PageType
    /\ link \in [Generations -> LinkType]
    /\ desk \in DeskType
    /\ call \in [Calls -> CallType]
    /\ orphans \subseteq OrphanType
    /\ query \in QueryType
    /\ context \in Versions
    /\ version \in Versions
    /\ glitches \in 0..MaxGlitches

\* No microphone is left on by an attempt the page gave up: whatever order the
\* permission, the answers and the clicks come in, only the attempt of the
\* current generation of a mounted page listens.
OnlyCurrentListens ==
    \A g \in Generations :
        link[g].microphone => page.mounted /\ g = page.generation

\* The page says it is connected exactly while its own session is open, though
\* reconciliations of earlier sessions end and report at any time.
ShownAsItIs ==
    page.mounted =>
        (page.shown = "connected" <=>
            /\ page.generation \in Generations
            /\ link[page.generation].phase = "open")

\* A session makes no request before the dispatcher is through with every request
\* of an earlier session: each was answered or failed, and the operation was read
\* again after that, or could not be read, whatever reconciliations and refetches
\* the clicks in between started or took over (tool-dispatcher.ts reconcile).
QuietUntilReconciled ==
    [][\A c, d \in Calls :
          /\ call[c].step = "none" /\ call'[c].step = "posted"
          /\ d \in Kept /\ call[d].by < call'[c].by
          => call[d].step = "settled"]_vars

\* A page that reconciles comes to the end of it (tool-dispatcher.ts reconcile).
ReconciliationEnds == desk.blocked ~> (~desk.blocked \/ ~page.mounted)

\* "reconciles through a fresh operation read, and resolves the old call before
\* another voice mutation becomes available": it does not, when the read fails
\* or the page was mounted again.
FreshBeforeNext ==
    [][\A c, d \in Calls :
          /\ call[c].step = "none" /\ call'[c].step = "posted"
          /\ call[d].step # "none" /\ call[d].by < call'[c].by
          => call[d].step = "settled" /\ context >= call[d].made]_vars

\* And the old call is not resolved when its request failed at the page alone: the
\* API may commit it after another voice mutation was made.
OverBeforeNext ==
    [][\A c, d \in Calls :
          /\ call[c].step = "none" /\ call'[c].step = "posted"
          /\ d \in Kept /\ call[d].by < call'[c].by
          => call[d].api = "over"]_vars
=============================================================================
