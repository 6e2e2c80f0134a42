---------------------------- MODULE DisplayView ----------------------------
(***************************************************************************)
(* What the display page (display.js) draws from its snapshot: the map of  *)
(* an external library that is loaded on demand, the coverage layers that  *)
(* it caches by the RF revision of their station, the tables, the details  *)
(* pane and the pinned message.                                            *)
(*                                                                         *)
(* Each step of DisplayPage is taken with its effect on the view; the map, *)
(* the user and other clients take steps of their own.  The parts that are *)
(* written anew from each snapshot, the tables and markers, are            *)
(* represented by the run they show, and so is what the user picked.       *)
(***************************************************************************)
EXTENDS DisplayPage

CONSTANT MaxRF   \* bound: for each run, the RF revisions of a station

ASSUME ViewAssumption == MaxRF \in [1..MaxRun -> Nat \ {0}]

VARIABLES
  rf,          \* RF revision of each station in the simulator
  carried,     \* the RF revisions in the answer to refresh
  shownRF,     \* the RF revisions in the snapshot shown
  library,     \* "loading", "loaded", "failed" or "removed"
  sized,       \* the map's element has a size
  resized,     \* the size observer has yet to be called
  framed,      \* the run that the map was fitted to, or NoRun
  showCoverage,
  coverage,    \* the cached layer of each station
  drawn,       \* the coverage layers on the map
  tables,      \* the run in the tables, selectors and markers, or NoRun
  detail,      \* the run of what the details pane is about, or NoRun
  message      \* the run of the pinned message, or NoRun

mapVars == <<library, sized, resized, framed, showCoverage, coverage, drawn>>
paneVars == <<tables, detail, message>>
viewVars == <<rf, carried, shownRF, mapVars, paneVars>>
allVars == <<vars, viewVars>>

NoRun == 0
FirstRF == [s \in Stations |-> 1]

ViewInit ==
  /\ Init
  /\ rf = FirstRF
  /\ carried = FirstRF
  /\ shownRF = FirstRF
  /\ library = "loading"
  /\ sized \in BOOLEAN
  /\ resized = FALSE
  /\ framed = NoRun
  /\ showCoverage = TRUE
  /\ coverage = <<>>
  /\ drawn = {}
  /\ tables = NoRun /\ detail = NoRun /\ message = NoRun

-----------------------------------------------------------------------------
(***************************************************************************)
(* Rendering                                                               *)
(***************************************************************************)
\* The contours of station s in snapshot v with RF revisions r.
Contours(v, r, s) == [station |-> s, run |-> v.run, revision |-> r[s]]

\* The coverage entries for snapshot v; an entry of the same revision is kept.
Entries(v, r, cached) ==
  [s \in DOMAIN v.latest |->
     IF s \in DOMAIN cached /\ cached[s].revision = r[s] THEN cached[s] ELSE Contours(v, r, s)]

\* Layers that are gone or hidden leave the map.
Redrawn(cached, entries, show) ==
  (drawn \ Range(cached)) \cup (IF show THEN Range(entries) ELSE {})

\* frame: the first snapshot of a run is fitted once the map has a size.
Frame(v, fitted, hasSize) == IF fitted = NoRun /\ hasSize THEN v.run ELSE fitted

\* renderMap of snapshot v, with what clearMap and a new run left.
RenderMap(v, r, cached, fitted, show) ==
  /\ coverage' = Entries(v, r, cached)
  /\ drawn' = Redrawn(coverage, coverage', show)
  /\ framed' = Frame(v, fitted, sized)

\* render
Render(v, r, cached, fitted, show) ==
  /\ tables' = v.run
  /\ IF library = "loaded" THEN RenderMap(v, r, cached, fitted, show)
     ELSE framed' = fitted /\ UNCHANGED <<coverage, drawn>>

\* render of the snapshot shown, if there is one.
RenderShown(show) ==
  IF Loaded THEN Render(snapshot, shownRF, coverage, framed, show)
  ELSE UNCHANGED <<tables, coverage, drawn, framed>>

-----------------------------------------------------------------------------
(***************************************************************************)
(* The simulator                                                           *)
(***************************************************************************)
\* An edit of a station that changes its coverage.
EditRF(s) ==
  /\ rf[s] < MaxRF[server.run]
  /\ rf' = [rf EXCEPT ![s] = @ + 1]
  /\ UNCHANGED <<vars, carried, shownRF, mapVars, paneVars>>

RestartView == Restart /\ rf' = FirstRF /\ UNCHANGED <<carried, shownRF, mapVars, paneVars>>

MainServeView == MainServe /\ carried' = rf /\ UNCHANGED <<rf, shownRF, mapVars, paneVars>>

-----------------------------------------------------------------------------
(***************************************************************************)
(* The map                                                                 *)
(***************************************************************************)
\* The import ends well: the observer reports once as soon as it observes.
LibraryLoads ==
  /\ library = "loading"
  /\ library' = "loaded"
  /\ resized' = TRUE
  /\ IF Loaded THEN RenderMap(snapshot, shownRF, coverage, framed, showCoverage)
     ELSE UNCHANGED <<coverage, drawn, framed>>
  /\ UNCHANGED <<vars, rf, carried, shownRF, sized, showCoverage, paneVars>>

LibraryFails ==
  /\ library = "loading"
  /\ library' = "failed"
  /\ UNCHANGED <<vars, rf, carried, shownRF, sized, resized, framed, showCoverage, coverage,
                 drawn, paneVars>>

\* The host shows or hides the page.
Resize ==
  /\ sized' = ~sized
  /\ resized' = (library = "loaded")
  /\ UNCHANGED <<vars, rf, carried, shownRF, library, framed, showCoverage, coverage, drawn,
                 paneVars>>

\* Mutant: the observer only tells the map its size.
ObserveUnframed ==
  /\ resized
  /\ resized' = FALSE
  /\ UNCHANGED <<vars, rf, carried, shownRF, library, sized, framed, showCoverage, coverage,
                 drawn, paneVars>>

\* The callback of the size observer.
Observe ==
  /\ resized
  /\ resized' = FALSE
  /\ framed' = IF Loaded THEN Frame(snapshot, framed, sized) ELSE framed
  /\ UNCHANGED <<vars, rf, carried, shownRF, library, sized, showCoverage, coverage, drawn,
                 paneVars>>

-----------------------------------------------------------------------------
(***************************************************************************)
(* The user                                                                *)
(***************************************************************************)
\* choose from a selector, or from a table or a marker with a detail to show.
ChooseView(ids) ==
  /\ Choose(ids)
  /\ detail' \in {NoRun, IF Cardinality(ids) = 1 THEN snapshot.run ELSE NoRun}
  /\ message' = NoRun
  /\ UNCHANGED <<rf, carried, shownRF, mapVars, tables>>

ChooseHistoryView(s) ==
  /\ ChooseHistory(s)
  /\ message' = NoRun
  /\ RenderShown(showCoverage)
  /\ UNCHANGED <<rf, carried, shownRF, library, sized, resized, showCoverage, detail>>

PauseView ==
  /\ Pause
  /\ IF paused THEN RenderShown(showCoverage) ELSE UNCHANGED <<tables, coverage, drawn, framed>>
  /\ UNCHANGED <<rf, carried, shownRF, library, sized, resized, showCoverage, detail, message>>

\* The boxes and the channel of the map, and the filters, render again.
ToggleCoverage ==
  /\ Click
  /\ showCoverage' = ~showCoverage
  /\ RenderShown(~showCoverage)
  /\ UNCHANGED <<server, view, loop, history, paused, hist, rf, carried, shownRF, library,
                 sized, resized, detail, message>>

\* The row or the marker of a target.
ShowTarget ==
  /\ Click
  /\ tables # NoRun
  /\ detail' = tables
  /\ UNCHANGED <<server, view, loop, history, paused, hist, rf, carried, shownRF, mapVars,
                 tables, message>>

\* A row of the history is pinned.
PinMessage ==
  /\ Click
  /\ \E k \in DOMAIN rows : message' = rows[k].run
  /\ UNCHANGED <<server, view, loop, history, paused, hist, rf, carried, shownRF, mapVars,
                 tables, detail>>

\* destroy removes the map, and a library that loads later makes none.
DestroyView ==
  /\ Destroy
  /\ library' = "removed"
  /\ resized' = FALSE
  /\ coverage' = <<>>
  /\ drawn' = {}
  /\ framed' = NoRun
  /\ tables' = NoRun
  /\ detail' = NoRun
  /\ message' = NoRun
  /\ UNCHANGED <<rf, carried, shownRF, sized, showCoverage>>

-----------------------------------------------------------------------------
(***************************************************************************)
(* The loops                                                               *)
(***************************************************************************)
\* Steps of the page that leave the view alone.
Invisible ==
  /\ \/ \E s \in DOMAIN server.latest : Hear(s) \/ RemoveStation(s)
     \/ HistServe
     \/ TimerFires
     \/ MainIgnored
     \/ MainFails
     \/ HistoryPoll
     \/ HistIgnored
     \/ HistFails
     \/ HistReceive
  /\ UNCHANGED viewVars

\* choose and resetHistory, which unpins the message.
MainNotFoundView ==
  /\ MainNotFound
  /\ detail' = NoRun
  /\ message' = NoRun
  /\ UNCHANGED <<rf, carried, shownRF, mapVars, tables>>

HistIdentityChangedView ==
  /\ HistIdentityChanged
  /\ message' = NoRun
  /\ UNCHANGED <<rf, carried, shownRF, mapVars, tables, detail>>

\* A restart under a selection leaves an empty page.
MainRestartedView ==
  /\ MainRestarted
  /\ coverage' = <<>>
  /\ drawn' = Redrawn(coverage, <<>>, showCoverage)
  /\ framed' = NoRun
  /\ tables' = NoRun
  /\ detail' = NoRun
  /\ message' = NoRun
  /\ UNCHANGED <<rf, carried, shownRF, library, sized, resized, showCoverage>>

\* Mutant: the coverage layers outlive the run.
CachedAlways == coverage

\* clearMap on a restart.
Cached == IF Restarted THEN <<>> ELSE coverage

MainReceiveView ==
  /\ MainReceive
  /\ shownRF' = carried
  /\ Render(main.answer, carried, Cached, IF Restarted THEN NoRun ELSE framed, showCoverage)
  /\ detail' = IF Restarted THEN NoRun ELSE detail
  /\ message' = IF Restarted \/ station' # station THEN NoRun ELSE message
  /\ UNCHANGED <<rf, carried, library, sized, resized, showCoverage>>

-----------------------------------------------------------------------------
ViewNext ==
  \/ Invisible
  \/ \E s \in DOMAIN server.latest : EditRF(s)
  \/ RestartView
  \/ MainServeView
  \/ LibraryLoads
  \/ LibraryFails
  \/ Resize
  \/ Observe
  \/ \E ids \in SUBSET Stations : ChooseView(ids)
  \/ \E s \in {NoStation} \cup Stations : ChooseHistoryView(s)
  \/ PauseView
  \/ ToggleCoverage
  \/ ShowTarget
  \/ PinMessage
  \/ DestroyView
  \/ MainNotFoundView
  \/ HistIdentityChangedView
  \/ MainRestartedView
  \/ MainReceiveView

ViewSpec == ViewInit /\ [][ViewNext]_allVars

\* As for the loops; nothing is assumed of the map, which may never load.
FairViewSpec == ViewSpec /\ Fairness

-----------------------------------------------------------------------------
(***************************************************************************)
(* Properties                                                              *)
(***************************************************************************)
\* Everything on the page is of the run of the snapshot shown, also after a
\* restart that brings the same stations with the same revisions: the tables,
\* the details, the pinned message, the frame and the coverage, which moreover
\* is that of the RF revisions shown, of exactly the stations shown, drawn if
\* the box is set, and drawn once (clearMap, renderMap, resetHistory).
PageOfSnapshot ==
  /\ {tables, detail, message, framed} \subseteq {NoRun, snapshot.run}
  /\ library = "loaded" =>
       /\ coverage = IF Loaded THEN [s \in DOMAIN snapshot.latest |-> Contours(snapshot, shownRF, s)]
                     ELSE <<>>
       /\ drawn = IF showCoverage THEN Range(coverage) ELSE {}

\* A map that has a size and a snapshot to show is fitted to it, in whichever
\* order the library, the size, the snapshot and a restart come (frame).
Framed ==
  library = "loaded" /\ Loaded /\ sized /\ ~resized => framed = snapshot.run
=============================================================================
