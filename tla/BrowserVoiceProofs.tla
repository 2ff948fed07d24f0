------------------------- MODULE BrowserVoiceProofs -------------------------
(***************************************************************************)
(* What the voice page keeps for every number of sessions, tool requests,  *)
(* versions and failures: one microphone, a truthful page, and silence     *)
(* until the earlier requests are reconciled.                              *)
(***************************************************************************)
EXTENDS BrowserVoice, FiniteSetTheorems, TLAPS

-----------------------------------------------------------------------------
(* The inductive invariant.                                                *)

\* Once the microphone is granted an attempt listens for its abort.
Joined == {"credential", "sdp", "opening", "open"}

\* An attempt that may still come to listen.
Live(l) == l.phase \in Joined \/ (l.phase = "permission" /\ ~l.aborted)

\* The types the steps need; the bounds of the versions are not among them.
Request ==
  [step : {"none", "posted", "refreshing", "settled"}, api : {"none", "open", "over"},
   by : 0 .. MaxGenerations, expects : Nat, made : Nat]

Shape ==
  /\ page \in PageType
  /\ link \in [Generations -> LinkType]
  /\ desk \in DeskType
  /\ call \in [Calls -> Request]
  /\ query \in [at : {"idle", "asked", "read"}, value : Nat]
  /\ context \in Nat
  /\ version \in Nat

\* Only the attempt whose abort controller the page holds is alive.
Alone ==
  \A g \in Generations :
    /\ Live(link[g]) => page.mounted /\ g = page.generation /\ g = page.controller
    /\ link[g].microphone => link[g].phase \in Joined
    /\ link[g].phase = "settling" /\ g = page.generation => page.mounted

\* Nothing has a generation that the page has not reached.
Reached ==
  /\ \A g \in Generations : g > page.generation => link[g].phase = "none"
  /\ \A c \in Calls : call[c].by <= page.generation
  /\ \A g \in desk.watchers : g <= page.generation

\* A generation that waits for a reconciliation to be told is not connected.
Watched ==
  \A g \in Generations :
    g = page.generation /\ g \in desk.watchers => ~Live(link[g])

\* A dispatcher that is not blocked has requests of the present session only, and
\* one that reads again has none under way.
Quiet ==
  /\ page.mounted /\ ~desk.blocked
       => \A c \in Kept : Unsettled(c) => call[c].by = page.generation
  /\ desk.step = "refreshing" => \A c \in Kept : ~Unsettled(c)

Inv == Shape /\ Alone /\ Reached /\ Watched /\ ShownAsItIs /\ Quiet

-----------------------------------------------------------------------------
(* The links and the dispatcher.                                           *)

\* Zero stands for no generation.
LEMMA Bounds ==
  /\ MaxGenerations \in Nat \ {0}
  /\ 0 \in 0 .. MaxGenerations
<1>1. MaxGenerations \in Nat \ {0}
  BY VoiceAssumption
<1>2. QED
  BY <1>1

\* An aborted attempt will not listen.
LEMMA Aborted ==
  ASSUME NEW l \in LinkType, l.microphone => l.phase \in Joined
  PROVE  /\ Abort(l) \in LinkType
         /\ ~Live(Abort(l))
         /\ ~Abort(l).microphone
         /\ Abort(l).phase # "open"
         /\ Abort(l).phase = "settling" => l.phase = "settling"
         /\ l.phase = "none" => Abort(l).phase = "none"
<1>1. CASE l.phase \in Joined
  <2> DEFINE phase == IF l.phase = "open" THEN "closed" ELSE "leaving"
             new == [l EXCEPT !.phase = phase, !.microphone = FALSE, !.aborted = TRUE]
  <2>1. phase \in {"closed", "leaving"}
    OBVIOUS
  <2>2. Abort(l) = new
    BY <1>1 DEF Abort, Closed, LinkType, Joined
  <2> HIDE DEF phase
  <2>3. /\ new \in LinkType
        /\ new.phase = phase /\ ~new.microphone
    BY <2>1 DEF LinkType, Phases
  <2>4. QED
    BY <1>1, <2>1, <2>2, <2>3 DEF Live, Joined
<1>2. CASE l.phase \notin Joined
  <2>1. Abort(l) = [l EXCEPT !.aborted = TRUE]
    BY <1>2 DEF Abort, Joined
  <2>2. /\ Abort(l) \in LinkType
        /\ Abort(l).phase = l.phase /\ Abort(l).aborted /\ Abort(l).microphone = l.microphone
    BY <2>1 DEF LinkType
  <2>3. QED
    BY <1>2, <2>2 DEF Live, Joined
<1>3. QED
  BY <1>1, <1>2

\* Whatever the page leaves is not alive any more.
LEMMA LeftBehind ==
  ASSUME Shape, Alone
  PROVE  /\ Left(link, page) \in [Generations -> LinkType]
         /\ \A g \in Generations :
              /\ ~Live(Left(link, page)[g])
              /\ ~Left(link, page)[g].microphone
              /\ Left(link, page)[g].phase = "settling" => link[g].phase = "settling"
              /\ link[g].phase = "none" => Left(link, page)[g].phase = "none"
<1>1. page.controller \in {0} \cup Generations /\ 0 \notin Generations
  BY DEF Shape, PageType, Generations
<1>2. CASE page.controller = 0
  BY <1>1, <1>2 DEF Left, Shape, Alone, Live
<1>3. CASE page.controller \in Generations
  <2>1. Left(link, page) = [link EXCEPT ![page.controller] = Abort(link[page.controller])]
    BY <1>1, <1>3 DEF Left
  <2>2. \A g \in Generations :
          Left(link, page)[g] = IF g = page.controller THEN Abort(link[g]) ELSE link[g]
    BY <2>1 DEF Shape
  <2>3. \A g \in Generations :
          /\ link[g] \in LinkType
          /\ link[g].microphone => link[g].phase \in Joined
    BY DEF Shape, Alone
  <2>4. \A g \in Generations : g # page.controller => ~Live(link[g])
    BY DEF Alone
  <2>5. \A g \in Generations : g # page.controller => ~link[g].microphone
    BY <2>3, <2>4 DEF Live
  <2>6. QED
    BY <1>3, <2>1, <2>2, <2>3, <2>4, <2>5, Aborted DEF Shape
<1>4. QED
  BY <1>1, <1>2, <1>3

\* Starts that are released do not listen.
LEMMA ReleasedIs ==
  ASSUME NEW l \in [Generations -> LinkType]
  PROVE  /\ Released(l) \in [Generations -> LinkType]
         /\ \A g \in Generations :
              /\ Released(l)[g].microphone = l[g].microphone
              /\ Live(Released(l)[g]) => Live(l[g])
              /\ l[g].phase = "none" => Released(l)[g].phase = "none"
<1>1. \A g \in Generations :
        LET e == [l[g] EXCEPT !.phase = "closed"]
        IN /\ e \in LinkType /\ e.phase = "closed" /\ e.microphone = l[g].microphone
  BY DEF LinkType, Phases
<1>2. \A g \in Generations :
        Released(l)[g] = IF l[g].phase = "settling" THEN [l[g] EXCEPT !.phase = "closed"] ELSE l[g]
  BY DEF Released
<1>3. Released(l) \in [Generations -> LinkType]
  BY <1>1 DEF Released
<1>4. QED
  BY <1>1, <1>2, <1>3 DEF Live, Joined

\* The dispatcher after a loss or a start.
LEMMA DeskMarked ==
  ASSUME Shape, NEW g \in 0 .. MaxGenerations
  PROVE  /\ Marked(desk).blocked \in BOOLEAN
         /\ Marked(desk).blocked <=> desk.blocked \/ \E c \in Kept : Unsettled(c)
         /\ Reconcile(Marked(desk), g) \in DeskType
         /\ Reconcile(Marked(desk), g).blocked <=> Marked(desk).blocked
         /\ Reconcile(Marked(desk), g).step = "refreshing" => desk.step = "refreshing"
         /\ Reconcile(Marked(desk), g).watchers \subseteq desk.watchers \cup {g}
         /\ g \in Reconcile(Marked(desk), g).watchers
              => g \in desk.watchers \/ Marked(desk).blocked
<1>1. PICK blocked \in BOOLEAN : blocked <=> desk.blocked \/ \E c \in Kept : Unsettled(c)
  OBVIOUS
<1>2. Marked(desk) = [desk EXCEPT !.blocked = blocked]
  BY <1>1 DEF Marked, Shape, DeskType
<1>3. PICK d : d = [desk EXCEPT !.blocked = blocked]
  OBVIOUS
<1>4. /\ d \in DeskType /\ d.blocked = blocked
      /\ d.step = desk.step /\ d.watchers = desk.watchers
  BY <1>3 DEF Shape, DeskType
<1>5. PICK step : step = IF d.step = "idle" THEN "settling" ELSE d.step
  OBVIOUS
<1>6. PICK e : e = [d EXCEPT !.step = step, !.watchers = d.watchers \cup {g}]
  OBVIOUS
<1>7. /\ e \in DeskType /\ e.blocked = blocked /\ e.watchers = desk.watchers \cup {g}
      /\ e.step = "refreshing" => desk.step = "refreshing"
  BY <1>4, <1>5, <1>6 DEF DeskType
<1>8. Reconcile(d, g) = IF ~blocked THEN d ELSE e
  BY <1>4, <1>5, <1>6 DEF Reconcile
<1>9. Marked(desk) = d
  BY <1>2, <1>3
<1>10. QED
  BY <1>1, <1>4, <1>7, <1>8, <1>9

-----------------------------------------------------------------------------
(* The clicks.                                                             *)

\* A start leaves the old attempt and has the new one to itself.
LEMMA StartKeeps ==
  ASSUME Inv, NEW label \in {"requesting", "reconnecting"}, Start(label)
  PROVE  Inv'
<1> DEFINE d == Marked(desk)
           old == Left(link, page)
<1>1. PICK g : g = page.generation + 1
  OBVIOUS
<1>2. /\ g \in Generations /\ page.generation \in Nat /\ g \in Nat
      /\ page.generation < g /\ g \in 0 .. MaxGenerations
  BY <1>1, Bounds DEF Start, Inv, Shape, PageType, Generations
<1>3. PICK phase : phase = IF d.blocked THEN "settling" ELSE "permission"
  OBVIOUS
<1>4. PICK controller : controller = IF d.blocked THEN 0 ELSE g
  OBVIOUS
<1>5. PICK shown : shown = Awaiting(d, label)
  OBVIOUS
<1>6. /\ shown \in Shown /\ shown # "connected" /\ controller \in 0 .. MaxGenerations
      /\ phase \in {"settling", "permission"}
  BY <1>2, <1>3, <1>4, <1>5, Bounds DEF Awaiting, Shown
<1>7. /\ page' \in PageType
      /\ page.mounted /\ page'.mounted /\ page'.since = page.since
      /\ page'.generation = g /\ page'.controller = controller /\ page'.shown = shown
  <2>1. page' = [page EXCEPT !.generation = g, !.controller = controller, !.busy = TRUE,
                             !.connection = 0, !.shown = shown]
    BY <1>1, <1>4, <1>5 DEF Start, Retired, Inv, Shape, PageType
  <2>2. page.mounted /\ page \in PageType
    BY DEF Start, Inv, Shape
  <2>3. QED
    BY <1>2, <1>6, <2>1, <2>2, Bounds DEF PageType
<1>8. /\ old \in [Generations -> LinkType]
      /\ \A h \in Generations :
           /\ ~Live(old[h]) /\ ~old[h].microphone
           /\ old[h].phase = "settling" => link[h].phase = "settling"
           /\ link[h].phase = "none" => old[h].phase = "none"
  BY LeftBehind DEF Inv
<1>9. link' = [old EXCEPT ![g].phase = phase]
  BY <1>1, <1>3 DEF Start
<1>10. desk' = Reconcile(d, g)
  BY <1>1 DEF Start
<1>11. UNCHANGED <<call, query, context, version>>
  BY DEF Start
<1>12. /\ d.blocked \in BOOLEAN
       /\ d.blocked <=> desk.blocked \/ \E c \in Kept : Unsettled(c)
       /\ desk' \in DeskType /\ (desk'.blocked <=> d.blocked)
       /\ desk'.step = "refreshing" => desk.step = "refreshing"
       /\ desk'.watchers \subseteq desk.watchers \cup {g}
       /\ g \in desk'.watchers => g \in desk.watchers \/ d.blocked
  BY <1>2, <1>10, DeskMarked DEF Inv
<1> HIDE DEF d, old
<1>13. /\ link' \in [Generations -> LinkType]
       /\ \A h \in Generations \ {g} : link'[h] = old[h]
       /\ link'[g].phase = phase /\ ~link'[g].microphone
  <2>1. PICK l : l = [old[g] EXCEPT !.phase = phase]
    OBVIOUS
  <2>2. l \in LinkType /\ l.phase = phase /\ l.microphone = old[g].microphone
    BY <1>2, <1>6, <1>8, <2>1 DEF LinkType, Phases
  <2>3. QED
    BY <1>2, <1>8, <1>9, <2>1, <2>2
<1>14. Shape'
  BY <1>7, <1>11, <1>12, <1>13 DEF Inv, Shape
<1>15. Live(link'[g]) => ~d.blocked
  BY <1>3, <1>13 DEF Live, Joined
<1>16. Alone'
  BY <1>3, <1>4, <1>7, <1>8, <1>13, <1>15 DEF Alone
<1>17. Reached'
  <2>1. \A h \in Generations : h > g => link'[h].phase = "none"
    <3>1. \A h \in Generations : h > g => h > page.generation /\ h # g
      BY <1>2 DEF Generations
    <3>2. QED
      BY <1>8, <1>13, <3>1 DEF Inv, Reached
  <2>2. \A c \in Calls : call'[c].by <= g
    <3>1. \A c \in Calls : call[c].by \in 0 .. MaxGenerations
      BY DEF Inv, Shape, Request
    <3>2. QED
      BY <1>2, <1>11, <3>1 DEF Inv, Reached
  <2>3. \A h \in desk'.watchers : h <= g
    <3>1. \A h \in desk.watchers : h \in 0 .. MaxGenerations /\ h <= page.generation
      BY DEF Inv, Shape, DeskType, Reached
    <3>2. QED
      BY <1>2, <1>12, <3>1
  <2>4. QED
    BY <1>7, <2>1, <2>2, <2>3 DEF Reached
<1>18. Watched'
  <2>1. g \notin desk.watchers
    BY <1>2 DEF Inv, Reached
  <2>2. g \in desk'.watchers => ~Live(link'[g])
    BY <1>12, <1>15, <2>1
  <2>3. QED
    BY <1>7, <2>2 DEF Watched
<1>19. ShownAsItIs'
  BY <1>2, <1>6, <1>7, <1>13 DEF ShownAsItIs
<1>20. Quiet'
  <2>1. Kept' = Kept /\ \A c \in Calls : Unsettled(c)' <=> Unsettled(c)
    BY <1>7, <1>11 DEF Kept, Unsettled
  <2>2. ~desk'.blocked => \A c \in Kept : ~Unsettled(c)
    BY <1>12
  <2>3. QED
    BY <1>12, <2>1, <2>2 DEF Inv, Quiet, Kept
<1>21. QED
  BY <1>14, <1>16, <1>17, <1>18, <1>19, <1>20 DEF Inv

\* The end of a session, by a click or with the page, leaves nobody alive.
LEMMA EndKeeps ==
  ASSUME Inv, Unmount \/ \E kind \in {"disconnected", "fallback"} : EndSession(kind)
  PROVE  Inv'
<1> DEFINE old == Left(link, page)
<1>1. PICK g : g = page.generation + 1
  OBVIOUS
<1>2. /\ g \in Generations /\ page.generation \in Nat /\ g \in Nat
      /\ page.generation < g /\ g \in 0 .. MaxGenerations
  BY <1>1, Bounds DEF Unmount, EndSession, Inv, Shape, PageType, Generations
<1>3. /\ page' \in PageType /\ page'.since = page.since /\ page'.generation = g
      /\ page'.controller = 0 /\ page.mounted
      /\ page'.mounted => page'.shown # "connected"
      /\ page'.mounted
           => \E kind \in {"disconnected", "fallback"} : EndSession(kind)
  <2>1. CASE Unmount
    <3>1. page' = [page EXCEPT !.generation = g, !.controller = 0, !.busy = FALSE,
                               !.connection = 0, !.mounted = FALSE]
      BY <1>1, <2>1 DEF Unmount, Retired, Inv, Shape, PageType
    <3>2. QED
      BY <1>2, <2>1, <3>1, Bounds DEF Unmount, Inv, Shape, PageType
  <2>2. ASSUME NEW kind \in {"disconnected", "fallback"}, EndSession(kind)
        PROVE  /\ page' \in PageType /\ page'.since = page.since /\ page'.generation = g
               /\ page'.controller = 0 /\ page.mounted /\ page'.shown # "connected"
    <3>1. PICK shown : shown = Awaiting(Marked(desk), kind)
      OBVIOUS
    <3>2. shown \in Shown /\ shown # "connected" /\ kind \in Terminal
      BY <3>1 DEF Awaiting, Shown, Terminal
    <3>3. page' = [page EXCEPT !.generation = g, !.controller = 0, !.busy = FALSE,
                               !.connection = 0, !.terminal = kind, !.shown = shown]
      BY <1>1, <2>2, <3>1 DEF EndSession, Retired, Inv, Shape, PageType
    <3>4. page \in PageType /\ page.mounted
      BY <2>2 DEF EndSession, Inv, Shape
    <3>5. g \in 0 .. MaxGenerations /\ 0 \in 0 .. MaxGenerations
      BY <1>2, Bounds
    <3>6. QED
      BY <3>2, <3>3, <3>4, <3>5 DEF PageType
  <2>3. QED
    BY <2>1, <2>2
<1>4. UNCHANGED <<call, query, context, version>>
  BY DEF Unmount, EndSession
<1>5. /\ link' \in [Generations -> LinkType]
      /\ \A h \in Generations :
           /\ ~Live(link'[h]) /\ ~link'[h].microphone
           /\ link[h].phase = "none" => link'[h].phase = "none"
  <2>1. /\ old \in [Generations -> LinkType]
        /\ \A h \in Generations :
             /\ ~Live(old[h]) /\ ~old[h].microphone
             /\ link[h].phase = "none" => old[h].phase = "none"
    BY LeftBehind DEF Inv
  <2>2. link' = old \/ link' = Released(old)
    BY DEF Unmount, EndSession
  <2> HIDE DEF old
  <2>3. QED
    BY <2>1, <2>2, ReleasedIs
<1>6. /\ desk' \in DeskType
      /\ page'.mounted /\ ~desk'.blocked => \A c \in Kept : ~Unsettled(c)
      /\ desk'.step = "refreshing" => desk.step = "refreshing"
      /\ desk'.watchers \subseteq desk.watchers \cup {g}
  <2>1. CASE Unmount
    <3>1. page' = [Retired(page) EXCEPT !.mounted = FALSE] /\ desk' = NewDesk
      BY <2>1 DEF Unmount
    <3>2. ~page'.mounted
      BY <3>1 DEF Retired, Inv, Shape, PageType
    <3>3. QED
      BY <3>1, <3>2 DEF NewDesk, DeskType
  <2>2. CASE \E kind \in {"disconnected", "fallback"} : EndSession(kind)
    <3>1. desk' = Reconcile(Marked(desk), g)
      BY <1>1, <2>2 DEF EndSession
    <3>2. QED
      BY <1>2, <3>1, DeskMarked DEF Inv
  <2>3. QED
    BY <2>1, <2>2
<1> HIDE DEF old
<1>7. Shape'
  BY <1>3, <1>4, <1>5, <1>6 DEF Inv, Shape
<1>8. link'[g].phase = "none"
  BY <1>2, <1>4, <1>5 DEF Inv, Reached
<1>9. Alone'
  BY <1>3, <1>4, <1>5, <1>8 DEF Alone
<1>10. Reached'
  <2>1. \A h \in Generations : h > g => link'[h].phase = "none"
    <3>1. \A h \in Generations : h > g => h > page.generation
      BY <1>2 DEF Generations
    <3>2. QED
      BY <1>4, <1>5, <3>1 DEF Inv, Reached
  <2>2. \A c \in Calls : call'[c].by <= g
    <3>1. \A c \in Calls : call[c].by \in 0 .. MaxGenerations
      BY DEF Inv, Shape, Request
    <3>2. QED
      BY <1>2, <1>4, <3>1 DEF Inv, Reached
  <2>3. \A h \in desk'.watchers : h <= g
    <3>1. \A h \in desk.watchers : h \in 0 .. MaxGenerations /\ h <= page.generation
      BY DEF Inv, Shape, DeskType, Reached
    <3>2. QED
      BY <1>2, <1>6, <3>1
  <2>4. QED
    BY <1>3, <2>1, <2>2, <2>3 DEF Reached
<1>11. Watched'
  BY <1>4, <1>5 DEF Watched
<1>12. ShownAsItIs'
  BY <1>3, <1>8 DEF ShownAsItIs
<1>13. Quiet'
  <2>1. Kept' = Kept /\ \A c \in Calls : Unsettled(c)' <=> Unsettled(c)
    BY <1>3, <1>4 DEF Kept, Unsettled
  <2>2. QED
    BY <1>6, <2>1 DEF Inv, Quiet, Kept
<1>14. QED
  BY <1>7, <1>9, <1>10, <1>11, <1>12, <1>13 DEF Inv

\* A new component finds nobody alive and keeps no request.
LEMMA MountKeeps ==
  ASSUME Inv, Mount
  PROVE  Inv'
<1>1. /\ ~page.mounted /\ UNCHANGED <<link, desk, call, query, context, version>>
      /\ page' \in PageType /\ page'.mounted /\ page'.since = page.generation
      /\ page'.generation = page.generation /\ page'.controller = page.controller
      /\ page'.shown = "idle"
  BY DEF Mount, Inv, Shape, PageType, Shown, Terminal
<1>2. \A g \in Generations : ~Live(link[g]) /\ ~link[g].microphone
  BY <1>1 DEF Inv, Alone, Live
<1>3. Shape'
  BY <1>1 DEF Inv, Shape
<1>4. Alone'
  BY <1>1, <1>2 DEF Alone
<1>5. Reached'
  BY <1>1 DEF Inv, Reached
<1>6. Watched'
  BY <1>1, <1>2 DEF Watched
<1>7. ShownAsItIs'
  BY <1>1, <1>2 DEF ShownAsItIs, Live, Joined
<1>8. Quiet'
  <2>1. \A c \in Calls : ~(call[c].by > page.generation)
    BY DEF Inv, Reached, Shape, PageType, Request
  <2>2. Kept' = {}
    BY <1>1, <2>1 DEF Kept
  <2>3. QED
    BY <2>2 DEF Quiet
<1>9. QED
  BY <1>3, <1>4, <1>5, <1>6, <1>7, <1>8 DEF Inv

-----------------------------------------------------------------------------
(* The attempt.                                                            *)

\* An attempt goes on or ends, and the page says so when it is the current one.
LEMMA LinkKeeps ==
  ASSUME Inv, NEW g \in Generations, NEW l \in LinkType,
         link' = [link EXCEPT ![g] = l],
         UNCHANGED <<desk, call, query, context, version>>,
         page' \in PageType,
         page'.mounted = page.mounted, page'.since = page.since,
         page'.generation = page.generation,
         link[g].phase # "none",
         l.phase # "settling",
         l.microphone => l.phase \in Joined,
         Live(l) => Live(link[g]) /\ page'.controller = page.controller,
         page'.controller \in {page.controller, 0},
         page'.controller # page.controller => page.controller = g,
         IF g = page.generation
         THEN page.mounted => (page'.shown = "connected" <=> l.phase = "open")
         ELSE page'.shown = page.shown /\ ~Live(link[g])
  PROVE  Inv'
<1>1. \A h \in Generations : link'[h] = IF h = g THEN l ELSE link[h]
  BY DEF Inv, Shape
<1>2. Shape'
  BY DEF Inv, Shape
<1>3. Alone'
  <2>1. ASSUME NEW h \in Generations
        PROVE  Live(link'[h]) => /\ page'.mounted /\ h = page'.generation
                                 /\ h = page'.controller
    <3>1. CASE h = g
      BY <1>1, <3>1 DEF Inv, Alone
    <3>2. CASE h # g
      BY <1>1, <3>2 DEF Inv, Alone
    <3>3. QED
      BY <3>1, <3>2
  <2>2. ASSUME NEW h \in Generations
        PROVE  /\ link'[h].microphone => link'[h].phase \in Joined
               /\ link'[h].phase = "settling" /\ h = page'.generation => page'.mounted
    BY <1>1 DEF Inv, Alone
  <2>3. QED
    BY <2>1, <2>2 DEF Alone
<1>4. Reached'
  BY <1>1 DEF Inv, Reached
<1>5. Watched'
  BY <1>1 DEF Inv, Watched
<1>6. ShownAsItIs'
  <2>1. CASE g = page.generation
    BY <1>1, <2>1 DEF ShownAsItIs
  <2>2. CASE g # page.generation
    BY <1>1, <2>2 DEF Inv, ShownAsItIs
  <2>3. QED
    BY <2>1, <2>2
<1>7. Quiet'
  <2>1. Kept' = Kept /\ \A c \in Calls : Unsettled(c)' <=> Unsettled(c)
    BY DEF Kept, Unsettled
  <2>2. QED
    BY <2>1 DEF Inv, Quiet, Kept
<1>8. QED
  BY <1>2, <1>3, <1>4, <1>5, <1>6, <1>7 DEF Inv

\* Every step of an attempt keeps the invariant.
LEMMA AttemptKeeps ==
  ASSUME Inv, NEW g \in Generations,
         \/ MicrophoneGranted(g) \/ CredentialIssued(g) \/ OfferAnswered(g) \/ ChannelOpens(g)
         \/ ConnectFails(g) \/ Leave(g)
  PROVE  Inv'
<1>1. /\ page \in PageType /\ link[g] \in LinkType
      /\ Live(link[g]) => page.mounted /\ g = page.generation /\ g = page.controller
      /\ link[g].microphone => link[g].phase \in Joined
  BY DEF Inv, Shape, Alone
<1>2. CASE MicrophoneGranted(g)
  <2>1. PICK l : l = [link[g] EXCEPT !.phase = "credential", !.microphone = TRUE]
    OBVIOUS
  <2>2. l \in LinkType /\ l.phase = "credential" /\ l.microphone
    BY <1>1, <2>1 DEF LinkType, Phases
  <2>3. Live(link[g]) /\ link[g].phase = "permission"
    BY <1>2 DEF MicrophoneGranted, Awaits, Live
  <2>4. /\ page' \in PageType /\ page'.mounted = page.mounted /\ page'.since = page.since
        /\ page'.generation = page.generation /\ page'.controller = page.controller
        /\ page'.shown = "connecting"
    BY <1>1, <1>2 DEF MicrophoneGranted, PageType, Shown
  <2>5. /\ link' = [link EXCEPT ![g] = l]
        /\ UNCHANGED <<desk, call, query, context, version>>
    BY <1>1, <1>2, <2>1 DEF MicrophoneGranted, LinkType
  <2>6. l.phase \in Joined /\ l.phase # "settling" /\ l.phase # "open"
    BY <2>2 DEF Joined
  <2>7. QED
    BY <1>1, <2>2, <2>3, <2>4, <2>5, <2>6, LinkKeeps
<1>3. CASE CredentialIssued(g) \/ OfferAnswered(g) \/ ChannelOpens(g)
  <2>1. PICK phase \in {"sdp", "opening", "open"} :
          /\ link' = [link EXCEPT ![g].phase = phase]
          /\ ChannelOpens(g) <=> phase = "open"
          /\ phase # "open" => UNCHANGED page
    BY <1>3 DEF CredentialIssued, OfferAnswered, ChannelOpens, Awaits
  <2>2. PICK l : l = [link[g] EXCEPT !.phase = phase]
    OBVIOUS
  <2>3. l \in LinkType /\ l.phase = phase /\ l.microphone = link[g].microphone
    BY <1>1, <2>2 DEF LinkType, Phases
  <2>4. /\ link[g].phase \in Joined /\ link[g].phase # "open" /\ Live(link[g])
        /\ UNCHANGED <<desk, call, query, context, version>>
    BY <1>3 DEF CredentialIssued, OfferAnswered, ChannelOpens, Awaits, Joined, Live
  <2>5. /\ page' \in PageType /\ page'.mounted = page.mounted /\ page'.since = page.since
        /\ page'.generation = page.generation /\ page'.controller = page.controller
        /\ page'.shown = IF phase = "open" THEN "connected" ELSE page.shown
    <3>1. CASE phase # "open"
      BY <1>1, <2>1, <3>1
    <3>2. CASE phase = "open"
      <4>1. page' = [page EXCEPT !.shown = "connected", !.connection = g, !.busy = FALSE]
        BY <2>1, <3>2 DEF ChannelOpens
      <4>2. g \in 0 .. MaxGenerations
        BY DEF Generations
      <4>3. QED
        BY <1>1, <3>2, <4>1, <4>2 DEF PageType, Shown
    <3>3. QED
      BY <3>1, <3>2
  <2>6. page.shown # "connected"
    BY <1>1, <2>4 DEF Inv, ShownAsItIs
  <2>7. link' = [link EXCEPT ![g] = l]
    BY <1>1, <2>1, <2>2 DEF LinkType
  <2>8. phase \in Joined /\ phase # "settling" /\ link[g].phase # "none"
    BY <2>1, <2>4 DEF Joined
  <2>9. QED
    BY <1>1, <2>3, <2>4, <2>5, <2>6, <2>7, <2>8, LinkKeeps
<1>4. CASE ConnectFails(g) \/ Leave(g)
  <2>1. PICK l : l = [link[g] EXCEPT !.phase = "closed", !.microphone = FALSE]
    OBVIOUS
  <2>2. l \in LinkType /\ l.phase = "closed" /\ ~l.microphone
    BY <1>1, <2>1 DEF LinkType, Phases
  <2>3. /\ page' = Failed(page, g)
        /\ UNCHANGED <<desk, call, query, context, version>>
        /\ link[g].phase \in {"leaving", "permission", "credential", "sdp", "opening"}
        /\ g # page.generation => ~Live(link[g])
    <3>1. CASE ConnectFails(g)
      <4>1. Live(link[g])
        BY <3>1 DEF ConnectFails, Live, Joined
      <4>2. QED
        BY <1>1, <3>1, <4>1 DEF ConnectFails
    <3>2. CASE Leave(g)
      BY <3>2 DEF Leave, Live, Joined
    <3>3. QED
      BY <1>4, <3>1, <3>2
  <2>4. link' = [link EXCEPT ![g] = l]
    <3>1. CASE ConnectFails(g)
      BY <1>1, <2>1, <3>1 DEF ConnectFails, LinkType
    <3>2. CASE Leave(g)
      <4>1. link[g].microphone = FALSE
        BY <1>1, <3>2 DEF Leave, Joined, LinkType
      <4>2. l = [link[g] EXCEPT !.phase = "closed"]
        BY <1>1, <2>1, <4>1 DEF LinkType
      <4>3. QED
        BY <1>1, <3>2, <4>2 DEF Leave, LinkType
    <3>3. QED
      BY <1>4, <3>1, <3>2
  <2>5. PICK controller, shown :
          /\ controller = IF page.controller = g THEN 0 ELSE page.controller
          /\ shown = IF g = page.generation THEN "error" ELSE page.shown
    OBVIOUS
  <2>6. page' = [page EXCEPT !.busy = FALSE, !.controller = controller, !.shown = shown]
    BY <1>1, <2>3, <2>5 DEF Failed, Over, PageType
  <2>7. /\ page' \in PageType /\ page'.mounted = page.mounted /\ page'.since = page.since
        /\ page'.generation = page.generation /\ page'.controller = controller
        /\ page'.shown = shown
    BY <1>1, <2>5, <2>6, Bounds DEF PageType, Shown
  <2>8. ~Live(l) /\ link[g].phase # "none" /\ l.phase # "settling"
    BY <2>2, <2>3 DEF Live, Joined
  <2>9. QED
    BY <1>1, <2>2, <2>3, <2>4, <2>5, <2>7, <2>8, LinkKeeps
<1>5. QED
  BY <1>2, <1>3, <1>4

\* A lost channel blocks the dispatcher of the page it belongs to.
LEMMA DropKeeps ==
  ASSUME Inv, NEW g \in Generations, NEW kind \in {"disconnected", "error"}, Drop(g, kind)
  PROVE  Inv'
<1> DEFINE d == Marked(desk)
<1>1. /\ page \in PageType /\ link[g] \in LinkType /\ link[g].phase \in Joined
      /\ UNCHANGED <<call, query, context, version>>
  BY DEF Drop, Inv, Shape, Joined
<1>2. page.mounted /\ g = page.generation /\ g = page.controller
  BY <1>1 DEF Inv, Alone, Live
<1>3. PICK phase \in {"closed", "leaving"} :
        phase = IF link[g].phase = "open" THEN "closed" ELSE "leaving"
  OBVIOUS
<1>4. PICK l : l = [link[g] EXCEPT !.phase = phase, !.microphone = FALSE]
  OBVIOUS
<1>5. l \in LinkType /\ l.phase = phase /\ ~l.microphone
  BY <1>1, <1>3, <1>4 DEF LinkType, Phases
<1>6. link' = [link EXCEPT ![g] = l]
  BY <1>1, <1>3, <1>4 DEF Drop, Closed, LinkType
<1>7. \A h \in Generations : link'[h] = IF h = g THEN l ELSE link[h]
  BY <1>6 DEF Inv, Shape
<1>8. PICK shown : shown = Awaiting(d, kind)
  OBVIOUS
<1>9. shown \in Shown /\ shown # "connected" /\ kind \in Terminal
  BY <1>8 DEF Awaiting, Shown, Terminal
<1>10. page' = [page EXCEPT !.terminal = kind, !.shown = shown]
  BY <1>2, <1>8 DEF Drop, Heard
<1>11. /\ page' \in PageType /\ page'.mounted = page.mounted /\ page'.since = page.since
       /\ page'.generation = page.generation /\ page'.controller = page.controller
       /\ page'.shown = shown
  BY <1>1, <1>9, <1>10 DEF PageType
<1>12. desk' = Reconcile(d, g)
  BY <1>2 DEF Drop, HeardBy
<1>13. g \in 0 .. MaxGenerations
  BY DEF Generations
<1>14. /\ d.blocked <=> desk.blocked \/ \E c \in Kept : Unsettled(c)
       /\ desk' \in DeskType /\ (desk'.blocked <=> d.blocked)
       /\ desk'.step = "refreshing" => desk.step = "refreshing"
       /\ desk'.watchers \subseteq desk.watchers \cup {g}
  BY <1>12, <1>13, DeskMarked DEF Inv
<1> HIDE DEF d
<1>15. Shape'
  BY <1>1, <1>5, <1>6, <1>11, <1>14 DEF Inv, Shape
<1>16. \A h \in Generations : ~Live(link'[h]) /\ ~link'[h].microphone
  <2>1. ~Live(l)
    BY <1>3, <1>5 DEF Live, Joined
  <2>2. \A h \in Generations : h # g => ~Live(link[h])
    BY <1>2 DEF Inv, Alone
  <2>3. \A h \in Generations : h # g => ~link[h].microphone
    BY <2>2 DEF Inv, Alone, Live
  <2>4. QED
    BY <1>5, <1>7, <2>1, <2>2, <2>3
<1>17. Alone'
  BY <1>2, <1>11, <1>16 DEF Alone
<1>18. Reached'
  <2>1. \A h \in Generations : h > page.generation => link'[h].phase = "none"
    <3>1. ~(g > page.generation)
      BY <1>2 DEF Generations
    <3>2. QED
      BY <1>7, <3>1 DEF Inv, Reached
  <2>2. \A h \in desk'.watchers : h <= page.generation
    BY <1>1, <1>2, <1>13, <1>14 DEF Inv, Reached
  <2>3. QED
    BY <1>1, <1>11, <2>1, <2>2 DEF Inv, Reached
<1>19. Watched'
  BY <1>16 DEF Watched
<1>20. ShownAsItIs'
  BY <1>2, <1>3, <1>5, <1>7, <1>9, <1>11 DEF ShownAsItIs
<1>21. Quiet'
  <2>1. Kept' = Kept /\ \A c \in Calls : Unsettled(c)' <=> Unsettled(c)
    BY <1>1, <1>11 DEF Kept, Unsettled
  <2>2. QED
    BY <1>14, <2>1 DEF Inv, Quiet, Kept
<1>22. QED
  BY <1>15, <1>17, <1>18, <1>19, <1>20, <1>21 DEF Inv

-----------------------------------------------------------------------------
(* The requests and the query.                                             *)

\* A request is made by the session that is open.
LEMMA RequestKeeps ==
  ASSUME Inv, NEW c \in Calls, ToolRequest(c)
  PROVE  Inv'
<1>1. /\ page.mounted /\ ~desk.blocked /\ desk.step = "idle"
      /\ call[c].step = "none"
      /\ UNCHANGED <<page, link, desk, query, context, version>>
  BY DEF ToolRequest, NewRequests
<1>2. PICK new : new = [step |-> "posted", api |-> "open", by |-> page.generation,
                        expects |-> Expected, made |-> 0]
  OBVIOUS
<1>3. new \in Request /\ new.by = page.generation
  BY <1>2 DEF Inv, Shape, PageType, Expected, Request
<1>4. call' = [call EXCEPT ![c] = new]
  BY <1>2 DEF ToolRequest
<1>5. \A d \in Calls : call'[d] = IF d = c THEN new ELSE call[d]
  BY <1>4 DEF Inv, Shape
<1>6. Shape'
  BY <1>1, <1>3, <1>4 DEF Inv, Shape
<1>7. Alone' /\ Watched' /\ ShownAsItIs'
  BY <1>1 DEF Inv, Alone, Watched, ShownAsItIs
<1>8. Reached'
  <2>1. page.generation \in Nat
    BY DEF Inv, Shape, PageType
  <2>2. QED
    BY <1>1, <1>3, <1>5, <2>1 DEF Inv, Reached
<1>9. Quiet'
  <2>1. ASSUME NEW d \in Kept', Unsettled(d)' PROVE call'[d].by = page.generation
    <3>1. CASE d = c
      BY <1>3, <1>5, <2>1, <3>1 DEF Kept
    <3>2. CASE d # c
      <4>1. d \in Calls /\ call'[d] = call[d]
        BY <1>5, <2>1, <3>2 DEF Kept
      <4>2. d \in Kept /\ Unsettled(d)
        BY <1>1, <2>1, <4>1 DEF Kept, Unsettled
      <4>3. QED
        BY <1>1, <4>1, <4>2 DEF Inv, Quiet
    <3>3. QED
      BY <3>1, <3>2
  <2>2. QED
    BY <1>1, <2>1 DEF Quiet
<1>10. QED
  BY <1>6, <1>7, <1>8, <1>9 DEF Inv

\* Requests that go on, or settle, keep the invariant.
LEMMA CallsGoOn ==
  ASSUME Inv, UNCHANGED <<page, link>>,
         desk' \in DeskType, desk'.blocked = desk.blocked, desk'.watchers = desk.watchers,
         \/ desk'.step = desk.step
         \/ desk'.step = "refreshing" /\ \A c \in Kept : ~Unsettled(c),
         call' \in [Calls -> Request],
         \A c \in Calls :
           /\ call'[c].by = call[c].by
           /\ call'[c].step # "none" => call[c].step # "none"
           /\ Unsettled(c)' => Unsettled(c),
         query' \in [at : {"idle", "asked", "read"}, value : Nat],
         context' \in Nat, version' \in Nat
  PROVE  Inv'
<1>1. Shape' /\ Alone' /\ Reached' /\ Watched' /\ ShownAsItIs'
  BY DEF Inv, Shape, Alone, Reached, Watched, ShownAsItIs
<1>2. Kept' \subseteq Kept
  BY DEF Kept
<1>3. Quiet'
  BY <1>2 DEF Inv, Quiet, Kept
<1>4. QED
  BY <1>1, <1>3 DEF Inv

\* A reconciliation ends, or requests settle.
LEMMA RefetchKeeps ==
  ASSUME Inv, NEW held \in Nat, Refetched(held)
  PROVE  Inv'
<1>1. /\ query' = [at |-> "idle", value |-> 0] /\ context' = held /\ UNCHANGED version
      /\ query' \in [at : {"idle", "asked", "read"}, value : Nat]
  BY DEF Refetched
<1>2. /\ call' \in [Calls -> Request]
      /\ \A c \in Calls :
           /\ call'[c].by = call[c].by
           /\ call'[c].step # "none" => call[c].step # "none"
           /\ Unsettled(c)' => Unsettled(c)
  <2>1. \A c \in Calls :
          /\ call[c] \in Request
          /\ LET e == [call[c] EXCEPT !.step = "settled"]
             IN e \in Request /\ e.step = "settled" /\ e.by = call[c].by
    BY DEF Inv, Shape, Request
  <2>2. call' = [c \in Calls |->
                   IF call[c].step = "refreshing" THEN [call[c] EXCEPT !.step = "settled"]
                   ELSE call[c]]
    BY DEF Refetched
  <2>3. QED
    BY <2>1, <2>2 DEF Unsettled
<1>3. CASE desk.step # "refreshing"
  <2>1. UNCHANGED <<desk, link, page>>
    BY <1>3 DEF Refetched
  <2>2. desk \in DeskType
    BY DEF Inv, Shape
  <2>3. QED
    BY <1>1, <1>2, <2>1, <2>2, CallsGoOn DEF Inv, Shape
<1>4. CASE desk.step = "refreshing"
  <2> DEFINE starts == {g \in Generations : link[g].phase = "settling"}
             mine == page.generation \in desk.watchers
             goesOn == page.generation \in starts
  <2>1. /\ desk' = [blocked |-> FALSE, step |-> "idle", watchers |-> {}]
        /\ link' = Resumed(link, page)
        /\ page' = Reconciled(page, desk)
    BY <1>4 DEF Refetched, NewDesk
  <2>2. desk' \in DeskType /\ ~desk'.blocked /\ desk'.step = "idle" /\ desk'.watchers = {}
    BY <2>1 DEF DeskType
  <2>3. PICK shown, controller, busy :
          /\ shown = IF goesOn THEN "requesting" ELSE IF mine THEN page.terminal ELSE page.shown
          /\ controller = IF goesOn THEN page.generation ELSE page.controller
          /\ busy = IF starts \ {page.generation} # {} THEN FALSE ELSE page.busy
    OBVIOUS
  <2>4. page' = [page EXCEPT !.shown = shown, !.controller = controller, !.busy = busy]
    BY <2>1, <2>3 DEF Reconciled
  <2>5. /\ page' \in PageType /\ page'.mounted = page.mounted /\ page'.since = page.since
        /\ page'.generation = page.generation
        /\ page'.shown = shown /\ page'.controller = controller
    <3>1. page \in PageType
      BY DEF Inv, Shape
    <3>2. shown \in Shown /\ controller \in 0 .. MaxGenerations /\ busy \in BOOLEAN
      BY <2>3, <3>1 DEF PageType, Shown, Terminal
    <3>3. QED
      BY <2>4, <3>1, <3>2 DEF PageType
  <2>6. /\ link' \in [Generations -> LinkType]
        /\ \A g \in Generations :
             /\ link'[g].microphone = link[g].microphone
             /\ link[g].phase # "settling" => link'[g] = link[g]
             /\ link[g].phase = "settling"
                  => link'[g].phase = IF g = page.generation THEN "permission" ELSE "closed"
    <3>1. \A g \in Generations, phase \in {"permission", "closed"} :
            LET l == [link[g] EXCEPT !.phase = phase]
            IN l \in LinkType /\ l.phase = phase /\ l.microphone = link[g].microphone
      BY DEF Inv, Shape, LinkType, Phases
    <3>2. link' = [g \in Generations |->
                     IF link[g].phase # "settling" THEN link[g]
                     ELSE IF g = page.generation THEN [link[g] EXCEPT !.phase = "permission"]
                     ELSE [link[g] EXCEPT !.phase = "closed"]]
      BY <2>1 DEF Resumed
    <3>3. QED
      BY <3>1, <3>2 DEF Inv, Shape
  <2>7. Shape'
    BY <1>1, <1>2, <2>2, <2>5, <2>6 DEF Inv, Shape
  <2>8. \A g \in Generations : goesOn => ~Live(link[g])
    BY DEF Inv, Alone, Live, Joined
  <2>9. Alone'
    <3>1. ASSUME NEW g \in Generations, Live(link'[g])
          PROVE  page'.mounted /\ g = page'.generation /\ g = page'.controller
      <4>1. CASE link[g].phase = "settling"
        <5>1. g = page.generation /\ goesOn
          BY <2>6, <3>1, <4>1 DEF Live, Joined
        <5>2. QED
          BY <2>3, <2>5, <4>1, <5>1 DEF Inv, Alone
      <4>2. CASE link[g].phase # "settling"
        <5>1. Live(link[g]) /\ ~goesOn
          BY <2>6, <2>8, <3>1, <4>2
        <5>2. QED
          BY <2>3, <2>5, <5>1 DEF Inv, Alone
      <4>3. QED
        BY <4>1, <4>2
    <3>2. ASSUME NEW g \in Generations
          PROVE  /\ link'[g].microphone => link'[g].phase \in Joined
                 /\ link'[g].phase # "settling"
      <4>1. CASE link[g].phase = "settling"
        BY <2>6, <4>1 DEF Inv, Alone, Joined
      <4>2. CASE link[g].phase # "settling"
        BY <2>6, <4>2 DEF Inv, Alone
      <4>3. QED
        BY <4>1, <4>2
    <3>3. QED
      BY <3>1, <3>2 DEF Alone
  <2>10. Reached'
    BY <1>2, <2>2, <2>5, <2>6 DEF Inv, Reached
  <2>11. Watched'
    BY <2>2 DEF Watched
  <2>12. ShownAsItIs'
    <3>1. CASE goesOn
      BY <2>3, <2>5, <2>6, <3>1 DEF ShownAsItIs
    <3>2. CASE ~goesOn /\ mine
      <4>1. page.generation \in Generations => link[page.generation].phase # "open"
        BY <3>2 DEF Inv, Watched, Live, Joined
      <4>2. shown # "connected"
        BY <2>3, <3>2 DEF Inv, Shape, PageType, Terminal
      <4>3. page.generation \in Generations => link'[page.generation] = link[page.generation]
        BY <2>6, <3>2
      <4>4. QED
        BY <2>5, <4>1, <4>2, <4>3 DEF ShownAsItIs
    <3>3. CASE ~goesOn /\ ~mine
      <4>1. page.generation \in Generations => link'[page.generation] = link[page.generation]
        BY <2>6, <3>3
      <4>2. QED
        BY <2>3, <2>5, <3>3, <4>1 DEF Inv, ShownAsItIs
    <3>4. QED
      BY <3>1, <3>2, <3>3
  <2>13. Quiet'
    <3>1. Kept' \subseteq Kept
      BY <1>2, <2>5 DEF Kept
    <3>2. \A c \in Kept' : ~Unsettled(c)'
      BY <1>2, <1>4, <3>1 DEF Inv, Quiet, Kept
    <3>3. QED
      BY <2>2, <3>2 DEF Quiet
  <2>14. QED
    BY <2>7, <2>9, <2>10, <2>11, <2>12, <2>13 DEF Inv
<1>5. QED
  BY <1>3, <1>4

\* The other steps of the requests and of the query keep the invariant.
LEMMA ServiceKeeps ==
  ASSUME Inv,
         \/ \E c \in Calls : Execute(c) \/ Answer(c)
         \/ \E o \in orphans : OrphanReads(o)
         \/ ReadAgain \/ Read \/ TypedMutation
         \/ UNCHANGED vars
  PROVE  Inv'
<1>1. /\ desk \in DeskType /\ call \in [Calls -> Request] /\ version \in Nat /\ context \in Nat
      /\ query \in [at : {"idle", "asked", "read"}, value : Nat]
      /\ Asked \in [at : {"idle", "asked", "read"}, value : Nat]
  BY DEF Inv, Shape, Asked
<1>2. ASSUME NEW c \in Calls, Execute(c) \/ Answer(c) PROVE Inv'
  <2>1. call[c] \in Request
    BY <1>1
  <2>2. PICK new \in Request :
          /\ call' = [call EXCEPT ![c] = new] /\ new.by = call[c].by
          /\ new.step # "none" => call[c].step # "none"
          /\ new.step \notin {"none", "settled"} => call[c].step \notin {"none", "settled"}
    <3>1. CASE \/ /\ call' = [call EXCEPT ![c].api = "over", ![c].made = version + 1]
                  /\ Execute(c)
      <4>1. PICK new : new = [call[c] EXCEPT !.api = "over", !.made = version + 1]
        OBVIOUS
      <4>2. call' = [call EXCEPT ![c] = new]
        BY <1>1, <3>1, <4>1
      <4>3. version + 1 \in Nat
        BY <1>1
      <4>4. new \in Request /\ new.by = call[c].by /\ new.step = call[c].step
        BY <2>1, <4>1, <4>3 DEF Request
      <4>5. QED
        BY <4>2, <4>4
    <3>2. CASE call' = [call EXCEPT ![c].api = "over"]
      <4>1. PICK new : new = [call[c] EXCEPT !.api = "over"]
        OBVIOUS
      <4>2. call' = [call EXCEPT ![c] = new]
        BY <1>1, <3>2, <4>1
      <4>3. new \in Request /\ new.by = call[c].by /\ new.step = call[c].step
        BY <2>1, <4>1 DEF Request
      <4>4. QED
        BY <4>2, <4>3
    <3>3. CASE Answer(c)
      <4>1. call' = [call EXCEPT ![c].step = "refreshing"] /\ call[c].step = "posted"
        BY <3>3 DEF Answer
      <4>2. PICK new : new = [call[c] EXCEPT !.step = "refreshing"]
        OBVIOUS
      <4>3. call' = [call EXCEPT ![c] = new]
        BY <1>1, <4>1, <4>2
      <4>4. new \in Request /\ new.by = call[c].by /\ new.step = "refreshing"
        BY <2>1, <4>2 DEF Request
      <4>5. QED
        BY <4>1, <4>3, <4>4
    <3>4. QED
      BY <1>2, <3>1, <3>2, <3>3 DEF Execute
  <2>5. /\ call' \in [Calls -> Request]
        /\ \A d \in Calls : call'[d] = IF d = c THEN new ELSE call[d]
    BY <1>1, <2>2
  <2>6. \A d \in Calls :
          /\ call'[d].by = call[d].by
          /\ call'[d].step # "none" => call[d].step # "none"
          /\ Unsettled(d)' => Unsettled(d)
    BY <2>2, <2>5 DEF Unsettled
  <2>7. /\ UNCHANGED <<page, link, desk, context>>
        /\ query' \in [at : {"idle", "asked", "read"}, value : Nat] /\ version' \in Nat
    BY <1>1, <1>2 DEF Execute, Answer
  <2>8. QED
    BY <1>1, <2>5, <2>6, <2>7, CallsGoOn
<1>3. CASE ReadAgain
  <2>1. /\ desk' \in DeskType /\ desk'.blocked = desk.blocked
        /\ desk'.watchers = desk.watchers /\ desk'.step = "refreshing"
    BY <1>1, <1>3 DEF ReadAgain, DeskType
  <2>2. \A c \in Kept : ~Unsettled(c)
    BY <1>3 DEF ReadAgain
  <2>3. UNCHANGED <<page, link, call, context, version>> /\ query' = Asked
    BY <1>3 DEF ReadAgain
  <2>4. QED
    BY <1>1, <2>1, <2>2, <2>3, CallsGoOn DEF Unsettled
<1>4. CASE Read \/ TypedMutation \/ UNCHANGED vars \/ \E o \in orphans : OrphanReads(o)
  <2>1. /\ UNCHANGED <<page, link, desk, call, context>>
        /\ query' \in [at : {"idle", "asked", "read"}, value : Nat] /\ version' \in Nat
    BY <1>1, <1>4 DEF Read, TypedMutation, OrphanReads, vars
  <2>2. QED
    BY <1>1, <2>1, CallsGoOn DEF Unsettled
<1>5. QED
  BY <1>2, <1>3, <1>4

-----------------------------------------------------------------------------
(* Theorems.                                                               *)

\* The page starts with nothing.
LEMMA InitInv == Init => Inv
<1> SUFFICES ASSUME Init PROVE Inv
  OBVIOUS
<1>1. Shape
  <2>1. MaxGenerations \in Nat \ {0}
    BY VoiceAssumption
  <2>2. QED
    BY <2>1 DEF Init, NewDesk, Shape, PageType, LinkType, DeskType, Request, Shown,
       Terminal, Phases
<1>2. Alone /\ Reached /\ Watched /\ ShownAsItIs /\ Quiet
  BY DEF Init, NewDesk, Alone, Reached, Watched, ShownAsItIs, Quiet, Kept, Live, Joined,
     Generations
<1>3. QED
  BY <1>1, <1>2 DEF Inv

\* Every step keeps the invariant.
LEMMA NextInv == Inv /\ [Next]_vars => Inv'
<1> SUFFICES ASSUME Inv, [Next]_vars PROVE Inv'
  OBVIOUS
<1>1. CASE Arrive \/ RefetchFails
  <2>1. PICK held \in Nat : Refetched(held)
    BY <1>1 DEF Arrive, RefetchFails, Inv, Shape
  <2>2. QED
    BY <2>1, RefetchKeeps
<1>2. QED
  BY <1>1, StartKeeps, EndKeeps, MountKeeps, AttemptKeeps, DropKeeps, RequestKeeps,
     ServiceKeeps DEF Next, Clicks

\* The invariant holds in every reachable state.
THEOREM Invariant == Spec => []Inv
<1>1. QED
  BY InitInv, NextInv, PTL DEF Spec

\* No attempt the page gave up goes on listening, in whatever order permissions,
\* credentials, answers and clicks come.
THEOREM ListenInvariant == Spec => []OnlyCurrentListens
<1>1. Inv => OnlyCurrentListens
  BY DEF Inv, Alone, OnlyCurrentListens, Live
<1>2. QED
  BY <1>1, Invariant, PTL

\* The page says it is connected exactly while its session is open.
THEOREM ShownInvariant == Spec => []ShownAsItIs
<1>1. Inv => ShownAsItIs
  BY DEF Inv
<1>2. QED
  BY <1>1, Invariant, PTL

\* A session never makes a request before every request of an earlier session, of
\* the same dispatcher, was answered or failed and the operation was read again, or
\* could not be read; a request that failed may still be committed later.
THEOREM QuietSteps == Spec => QuietUntilReconciled
<1> DEFINE A == \A c, d \in Calls :
                  /\ call[c].step = "none" /\ call'[c].step = "posted"
                  /\ d \in Kept /\ call[d].by < call'[c].by
                  => call[d].step = "settled"
<1>1. Inv /\ [Next]_vars => A
  <2> SUFFICES ASSUME Inv, [Next]_vars, NEW c \in Calls, NEW d \in Calls,
                      call[c].step = "none", call'[c].step = "posted",
                      d \in Kept, call[d].by < call'[c].by
               PROVE  call[d].step = "settled"
    OBVIOUS
  <2>1. ASSUME NEW b \in Calls, Execute(b) \/ Answer(b) PROVE FALSE
    <3>1. call'[c].step \in {call[c].step, "refreshing"}
      <4>1. \A e \in Calls :
              call[e] \in [step : {"none", "posted", "refreshing", "settled"},
                           api : {"none", "open", "over"},
                           by : 0 .. MaxGenerations, expects : Nat, made : Nat]
        BY DEF Inv, Shape, Request
      <4>2. QED
        BY <2>1, <4>1 DEF Execute, Answer, Inv, Shape
    <3>2. QED
      BY <3>1
  <2>2. ASSUME NEW held, Refetched(held) PROVE FALSE
    <3>1. call'[c] = call[c]
      BY <2>2 DEF Refetched
    <3>2. QED
      BY <3>1
  <2>3. ~UNCHANGED call
    OBVIOUS
  <2>4. PICK b \in Calls : ToolRequest(b)
    BY <2>1, <2>2, <2>3 DEF Next, Clicks, Start, EndSession, Unmount, Mount, ReadAgain,
       OrphanReads, Read, Arrive, RefetchFails, TypedMutation, MicrophoneGranted, CredentialIssued, OfferAnswered,
       ChannelOpens, ConnectFails, Leave, Drop, vars
  <2>5. /\ page.mounted /\ ~desk.blocked
        /\ call' = [call EXCEPT ![b] = [step |-> "posted", api |-> "open",
                                        by |-> page.generation,
                                        expects |-> Expected, made |-> 0]]
    BY <2>4 DEF ToolRequest
  <2>6. c = b /\ call'[c].by = page.generation
    BY <2>5 DEF Inv, Shape
  <2>7. call[d].by # page.generation
    <3>1. call[d].by \in Nat /\ page.generation \in Nat
      BY DEF Inv, Shape, PageType, Request
    <3>2. QED
      BY <2>6, <3>1
  <2>8. ~Unsettled(d)
    BY <2>5, <2>7 DEF Inv, Quiet
  <2>9. QED
    BY <2>8 DEF Unsettled, Kept
<1>2. QED
  BY <1>1, Invariant, PTL DEF Spec, QuietUntilReconciled

-----------------------------------------------------------------------------
(* The bounds of the versions.                                             *)

\* The requests that have made no version.
Unmade == {c \in Calls : call[c].made = 0}

\* Nobody knows a version the operation has not had, and every request that has
\* made none finds one left.
Bounded ==
  /\ version + Cardinality(Unmade) <= MaxVersion
  /\ context \in 1 .. version
  /\ query.value <= version
  /\ query.at = "read" => query.value # 0
  /\ \A c \in Calls :
       /\ call[c].expects <= version /\ call[c].made <= version
       /\ call[c].step = "none" => call[c].api = "none"
       /\ call[c].api # "over" => call[c].made = 0
  /\ glitches \in 0 .. MaxGlitches

\* There are finitely many requests.
LEMMA UnmadeFinite == IsFiniteSet(Unmade) /\ Cardinality(Unmade) \in Nat
<1>1. IsFiniteSet(Calls) /\ Unmade \in SUBSET Calls
  BY VoiceAssumption DEF Unmade
<1>2. IsFiniteSet(Unmade)
  BY <1>1, FS_Subset
<1>3. QED
  BY <1>2, FS_CardinalityType

\* A failure that happens was left to happen.
LEMMA GlitchBounded ==
  ASSUME Bounded, Glitch \/ UNCHANGED glitches
  PROVE  glitches' \in 0 .. MaxGlitches
<1>1. MaxGlitches \in Nat /\ glitches \in 0 .. MaxGlitches
  BY VoiceAssumption DEF Bounded
<1>2. QED
  BY <1>1 DEF Glitch

\* Steps of the component leave the versions alone.
LEMMA BoundedUnchanged ==
  ASSUME Bounded, UNCHANGED <<call, query, context, version>>, Glitch \/ UNCHANGED glitches
  PROVE  Bounded'
<1>1. glitches' \in 0 .. MaxGlitches
  BY GlitchBounded
<1>2. Unmade' = Unmade
  BY DEF Unmade
<1>3. QED
  BY <1>1, <1>2 DEF Bounded

\* A request expects the version the page holds.
LEMMA RequestBounded ==
  ASSUME Shape, Bounded, NEW c \in Calls, ToolRequest(c)
  PROVE  Bounded'
<1>1. /\ call[c].step = "none"
      /\ UNCHANGED <<query, context, version, glitches>>
  BY DEF ToolRequest, NewRequests
<1>2. PICK new : new = [step |-> "posted", api |-> "open", by |-> page.generation,
                        expects |-> Expected, made |-> 0]
  OBVIOUS
<1>3. new.made = 0 /\ new.expects = context /\ new.step # "none"
  BY <1>2 DEF Expected
<1>4. \A d \in Calls : call'[d] = IF d = c THEN new ELSE call[d]
  BY <1>2 DEF ToolRequest, Shape
<1>5. context <= version /\ 0 <= version
  BY DEF Bounded, Shape
<1>6. Unmade' = Unmade
  BY <1>1, <1>3, <1>4 DEF Unmade, Bounded
<1>7. \A d \in Calls :
        /\ call'[d].expects <= version /\ call'[d].made <= version
        /\ call'[d].step = "none" => call'[d].api = "none"
        /\ call'[d].api # "over" => call'[d].made = 0
  BY <1>3, <1>4, <1>5 DEF Bounded
<1>8. QED
  BY <1>1, <1>6, <1>7 DEF Bounded

\* A request that is executed takes the version that was left to it.
LEMMA ExecuteBounded ==
  ASSUME Shape, Bounded, NEW c \in Calls, Execute(c)
  PROVE  Bounded'
<1>1. /\ call \in [Calls -> Request] /\ call[c] \in Request /\ version \in Nat
      /\ call[c].api = "open" /\ call[c].made = 0
      /\ UNCHANGED <<query, context>>
  BY DEF Execute, Shape, Bounded
<1>2. CASE /\ call' = [call EXCEPT ![c].api = "over"] /\ UNCHANGED version
           /\ Glitch \/ UNCHANGED glitches
  <2>1. PICK new : new = [call[c] EXCEPT !.api = "over"]
    OBVIOUS
  <2>2. /\ new.api = "over" /\ new.made = call[c].made /\ new.expects = call[c].expects
        /\ new.step = call[c].step
    BY <1>1, <2>1 DEF Request
  <2>3. \A d \in Calls : call'[d] = IF d = c THEN new ELSE call[d]
    BY <1>1, <1>2, <2>1
  <2>4. Unmade' = Unmade
    BY <2>2, <2>3 DEF Unmade
  <2>5. glitches' \in 0 .. MaxGlitches
    BY <1>2, GlitchBounded
  <2>6. QED
    BY <1>1, <1>2, <2>2, <2>3, <2>4, <2>5 DEF Bounded
<1>3. CASE /\ version' = version + 1 /\ UNCHANGED glitches
           /\ call' = [call EXCEPT ![c].api = "over", ![c].made = version + 1]
           /\ call[c].step # "none"
  <2>1. version' = version + 1 /\ UNCHANGED glitches
    BY <1>3
  <2>2. PICK new : new = [call[c] EXCEPT !.api = "over", !.made = version + 1]
    OBVIOUS
  <2>3. /\ new.api = "over" /\ new.made = version + 1 /\ new.expects = call[c].expects
        /\ new.step # "none"
    BY <1>1, <1>3, <2>2 DEF Request
  <2>4. \A d \in Calls : call'[d] = IF d = c THEN new ELSE call[d]
    BY <1>1, <1>3, <2>2
  <2>5. version + 1 # 0
    BY <1>1
  <2>6. Unmade' = Unmade \ {c} /\ c \in Unmade
    BY <1>1, <2>3, <2>4, <2>5 DEF Unmade
  <2>7. Cardinality(Unmade') = Cardinality(Unmade) - 1
    BY <2>6, UnmadeFinite, FS_RemoveElement
  <2>8. version' + Cardinality(Unmade') <= MaxVersion
    <3>1. MaxVersion \in Nat /\ Cardinality(Unmade) \in Nat
      BY UnmadeFinite, VoiceAssumption
    <3>2. QED
      BY <1>1, <2>1, <2>7, <3>1 DEF Bounded
  <2>9. \A d \in Calls :
          /\ call'[d].expects <= version' /\ call'[d].made <= version'
          /\ call'[d].step = "none" => call'[d].api = "none"
          /\ call'[d].api # "over" => call'[d].made = 0
    <3>1. \A d \in Calls :
            /\ call[d].expects \in Nat /\ call[d].made \in Nat
            /\ call[d].expects <= version /\ call[d].made <= version
            /\ call[d].step = "none" => call[d].api = "none"
            /\ call[d].api # "over" => call[d].made = 0
      BY <1>1 DEF Bounded, Request
    <3>2. QED
      BY <1>1, <2>1, <2>3, <2>4, <3>1
  <2>10. context' \in 1 .. version' /\ query'.value <= version'
    BY <1>1, <2>1 DEF Bounded, Shape
  <2>11. query'.at = "read" => query'.value # 0
    BY <1>1 DEF Bounded
  <2>12. glitches' \in 0 .. MaxGlitches
    BY <2>1 DEF Bounded
  <2>13. QED
    BY <2>8, <2>9, <2>10, <2>11, <2>12 DEF Bounded
<1>4. call[c].step # "none"
  BY <1>1 DEF Bounded
<1>5. QED
  BY <1>2, <1>3, <1>4 DEF Execute

\* A request that is answered, and one that settles, keeps its versions; the page
\* comes to hold one the operation has.
LEMMA SettleBounded ==
  ASSUME Shape, Bounded, Glitch \/ UNCHANGED glitches, UNCHANGED version,
         context' \in 1 .. version, query'.at # "read", query'.value = 0,
         \A c \in Calls :
           /\ call'[c].expects = call[c].expects /\ call'[c].made = call[c].made
           /\ call'[c].step \in {call[c].step, "refreshing", "settled"}
           /\ call'[c].api = call[c].api
  PROVE  Bounded'
<1>1. glitches' \in 0 .. MaxGlitches
  BY GlitchBounded
<1>2. Unmade' = Unmade
  BY DEF Unmade
<1>3. \A c \in Calls :
        /\ call'[c].expects <= version /\ call'[c].made <= version
        /\ call'[c].step = "none" => call'[c].api = "none"
        /\ call'[c].api # "over" => call'[c].made = 0
  BY DEF Bounded
<1>4. query'.value <= version
  BY DEF Shape
<1>5. QED
  BY <1>1, <1>2, <1>3, <1>4 DEF Bounded

\* Every step keeps the bounds.
LEMMA BoundedKept ==
  ASSUME Shape, Bounded, [Next]_vars
  PROVE  Bounded'
<1>1. call \in [Calls -> Request] /\ version \in Nat /\ context \in 1 .. version
  BY DEF Shape, Bounded
<1>2. CASE \/ Clicks
           \/ \E g \in Generations :
                \/ MicrophoneGranted(g) \/ CredentialIssued(g) \/ OfferAnswered(g)
                \/ ChannelOpens(g) \/ ConnectFails(g) \/ Leave(g)
           \/ \E g \in Generations, kind \in {"disconnected", "error"} : Drop(g, kind)
           \/ UNCHANGED vars
  <2>1. UNCHANGED <<call, query, context, version>> /\ (Glitch \/ UNCHANGED glitches)
    BY <1>2 DEF Clicks, Start, EndSession, Unmount, Mount, MicrophoneGranted,
       CredentialIssued, OfferAnswered, ChannelOpens, ConnectFails, Leave, Drop, vars
  <2>2. QED
    BY <2>1, BoundedUnchanged
<1>3. ASSUME NEW c \in Calls, ToolRequest(c) \/ Execute(c)
      PROVE  Bounded'
  BY <1>3, RequestBounded, ExecuteBounded
<1>4. ASSUME NEW c \in Calls, Answer(c)
      PROVE  Bounded'
  <2>1. /\ call' = [call EXCEPT ![c].step = "refreshing"]
        /\ query' = Asked
        /\ UNCHANGED <<context, version>> /\ (Glitch \/ UNCHANGED glitches)
    BY <1>4 DEF Answer
  <2>2. \A d \in Calls :
          /\ call'[d].expects = call[d].expects /\ call'[d].made = call[d].made
          /\ call'[d].step \in {call[d].step, "refreshing", "settled"}
          /\ call'[d].api = call[d].api
    BY <1>1, <2>1
  <2>3. query'.at # "read" /\ query'.value = 0
    BY <2>1 DEF Asked
  <2>4. QED
    BY <1>1, <2>1, <2>2, <2>3, SettleBounded
<1>5. CASE ReadAgain \/ \E o \in orphans : OrphanReads(o)
  <2>1. UNCHANGED <<call, context, version, glitches>> /\ query' = Asked
    BY <1>5 DEF ReadAgain, OrphanReads
  <2>2. query'.at # "read" /\ query'.value = 0
    BY <2>1 DEF Asked
  <2>3. QED
    BY <1>1, <2>1, <2>2, SettleBounded
<1>6. CASE Read
  <2>1. /\ query'.at = "read" /\ query'.value = version
        /\ UNCHANGED <<call, context, version, glitches>>
    BY <1>6 DEF Read
  <2>2. Unmade' = Unmade
    BY <2>1 DEF Unmade
  <2>3. query'.value # 0 /\ query'.value <= version
    BY <1>1, <2>1
  <2>4. QED
    BY <2>1, <2>2, <2>3 DEF Bounded
<1>7. CASE Arrive \/ RefetchFails
  <2>1. PICK held \in 1 .. version : Refetched(held) /\ (Glitch \/ UNCHANGED glitches)
    <3>1. query.at = "read" => query.value \in 1 .. version
      BY <1>1 DEF Bounded, Shape
    <3>2. QED
      BY <1>1, <1>7, <3>1 DEF Arrive, RefetchFails
  <2>2. /\ query' = [at |-> "idle", value |-> 0] /\ context' = held /\ UNCHANGED version
        /\ call' = [c \in Calls |->
                     IF call[c].step = "refreshing" THEN [call[c] EXCEPT !.step = "settled"]
                     ELSE call[c]]
    BY <2>1 DEF Refetched
  <2>3. \A d \in Calls :
          /\ call'[d].expects = call[d].expects /\ call'[d].made = call[d].made
          /\ call'[d].step \in {call[d].step, "refreshing", "settled"}
          /\ call'[d].api = call[d].api
    BY <1>1, <2>2
  <2>4. query'.at # "read" /\ query'.value = 0
    BY <2>2
  <2>5. QED
    BY <2>1, <2>2, <2>3, <2>4, SettleBounded
<1>8. CASE TypedMutation
  <2>1. /\ version + Cardinality(Unmade) < MaxVersion
        /\ version' = version + 1 /\ query' = Asked
        /\ UNCHANGED <<call, context, glitches>>
    BY <1>8 DEF TypedMutation, Unmade
  <2>2. Unmade' = Unmade
    BY <2>1 DEF Unmade
  <2>3. version' + Cardinality(Unmade') <= MaxVersion
    <3>1. MaxVersion \in Nat /\ Cardinality(Unmade) \in Nat
      BY UnmadeFinite, VoiceAssumption
    <3>2. QED
      BY <1>1, <2>1, <2>2, <3>1
  <2>4. \A d \in Calls : call'[d].expects <= version' /\ call'[d].made <= version'
    <3>1. \A d \in Calls :
            /\ call[d].expects \in Nat /\ call[d].made \in Nat
            /\ call[d].expects <= version /\ call[d].made <= version
      BY <1>1 DEF Bounded, Request
    <3>2. QED
      BY <1>1, <2>1, <3>1
  <2>5. query'.at # "read" /\ query'.value = 0
    BY <2>1 DEF Asked
  <2>6. context' \in 1 .. version' /\ query'.value <= version'
    BY <1>1, <2>1, <2>5
  <2>7. QED
    BY <2>1, <2>3, <2>4, <2>5, <2>6 DEF Bounded
<1>9. QED
  BY <1>2, <1>3, <1>4, <1>5, <1>6, <1>7, <1>8 DEF Next

\* Dispatchers of unmounted components are known by the sessions they had.
LEMMA OrphansTyped ==
  ASSUME Shape, orphans \subseteq OrphanType, [Next]_vars
  PROVE  orphans' \subseteq OrphanType
<1>1. CASE Unmount
  <2>1. page.since \in 0 .. MaxGenerations /\ page.generation \in 0 .. MaxGenerations
    BY DEF Shape, PageType
  <2>2. QED
    BY <1>1, <2>1 DEF Unmount, OrphanType
<1>2. CASE \E o \in orphans : OrphanReads(o)
  BY <1>2 DEF OrphanReads
<1>3. CASE Arrive \/ RefetchFails
  BY <1>3 DEF Arrive, RefetchFails, Refetched
<1>4. CASE \E c \in Calls : ToolRequest(c) \/ Execute(c) \/ Answer(c)
  BY <1>4 DEF ToolRequest, Execute, Answer
<1>5. QED
  BY <1>1, <1>2, <1>3, <1>4 DEF Next, Clicks, Start, EndSession, Mount, ReadAgain, Read,
     TypedMutation, MicrophoneGranted, CredentialIssued, OfferAnswered, ChannelOpens,
     ConnectFails, Leave, Drop, vars

\* Every variable keeps its type, the versions included: neither the page nor a
\* request ever knows a version the operation has not had.
THEOREM TypeInvariant == Spec => []TypeOK
<1>1. Init => Bounded
  <2>1. ASSUME Init PROVE Bounded
    <3>1. Unmade = Calls
      BY <2>1 DEF Init, Unmade
    <3>2. /\ Cardinality(Calls) \in Nat /\ MaxVersion \in Nat /\ MaxGlitches \in Nat
          /\ Cardinality(Calls) < MaxVersion
      BY VoiceAssumption, FS_CardinalityType
    <3>3. 1 + Cardinality(Unmade) <= MaxVersion
      BY <3>1, <3>2
    <3>4. \A c \in Calls : call[c].expects = 0 /\ call[c].made = 0 /\ call[c].api = "none"
      BY <2>1 DEF Init
    <3>5. context = 1 /\ version = 1 /\ query.value = 0 /\ query.at = "idle" /\ glitches = 0
      BY <2>1 DEF Init
    <3>6. QED
      BY <3>2, <3>3, <3>4, <3>5 DEF Bounded
  <2>2. QED
    BY <2>1
<1>2. Inv => Shape
  BY DEF Inv
<1>3. Shape /\ Bounded /\ [Next]_vars => Bounded'
  BY BoundedKept
<1>4. Shape /\ Bounded /\ orphans \subseteq OrphanType => TypeOK
  <2>1. ASSUME Shape, Bounded, orphans \subseteq OrphanType PROVE TypeOK
    <3>1. MaxVersion \in Nat /\ Cardinality(Unmade) \in Nat
      BY UnmadeFinite, VoiceAssumption
    <3>2. version \in 1 .. MaxVersion /\ context \in 1 .. MaxVersion
      BY <2>1, <3>1 DEF Shape, Bounded
    <3>3. query \in QueryType
      BY <2>1, <3>1, <3>2 DEF Shape, Bounded, QueryType
    <3>4. call \in [Calls -> CallType]
      <4>1. \A c \in Calls : call[c] \in CallType
        BY <2>1, <3>1, <3>2 DEF Shape, Bounded, CallType, Request
      <4>2. QED
        BY <2>1, <4>1 DEF Shape
    <3>5. QED
      BY <2>1, <3>2, <3>3, <3>4 DEF Shape, Bounded, TypeOK, Versions
  <2>2. QED
    BY <2>1
<1>5. Init => orphans \subseteq OrphanType
  BY DEF Init
<1>6. Shape /\ orphans \subseteq OrphanType /\ [Next]_vars => (orphans \subseteq OrphanType)'
  BY OrphansTyped
<1>7. QED
  BY <1>1, <1>2, <1>3, <1>4, <1>5, <1>6, Invariant, PTL DEF Spec
=============================================================================
