---------------------------- MODULE DisplayPage ----------------------------
(***************************************************************************)
(* The display page (display.js) against the display API, over a simulator *)
(* that receives, loses stations and restarts.                             *)
(*                                                                         *)
(* Two loops run side by side: one replaces the whole snapshot, the other  *)
(* extends the history of one station by pages after a cursor.  The user   *)
(* changes the selection, the history station and the pause box between    *)
(* any two steps.  Each JavaScript task between two awaits is one action.  *)
(*                                                                         *)
(* A generation counter is incremented only to invalidate the requests in  *)
(* flight, so a request carries a flag instead: it is cleared where the    *)
(* code increments the counter that the request remembers.  A simulator    *)
(* reception is its sequence number; a snapshot holds the latest of each   *)
(* station, which also stands for the sample of recent receptions.         *)
(***************************************************************************)
EXTENDS Integers, Sequences, FiniteSets, Functions, SequencesExt

CONSTANTS
  Stations,       \* stations of a new run
  HistoryLimit,   \* receptions that the simulator retains per station
  PageLimit,      \* receptions of one page
  RowLimit,       \* rows that the page keeps
  MaxReceptions,  \* bound: for each run, the receptions of each station
  MaxClicks       \* bound: actions of the user

ASSUME DisplayAssumption ==
  /\ IsFiniteSet(Stations)
  /\ {HistoryLimit, PageLimit, RowLimit, MaxClicks} \subseteq Nat \ {0}
  /\ MaxReceptions \in Seq([Stations -> Nat]) /\ MaxReceptions # <<>>

MaxRun == Len(MaxReceptions)   \* bound: runs of the simulator

VARIABLES
  server,      \* run, and latest reception of each station
  snapshot,    \* the snapshot shown
  selection,   \* selected stations; {} means all
  pending,     \* class ais-pending: a selection is being loaded
  stale,       \* class ais-stale: the last read failed
  main,        \* the request of refresh
  immediate,   \* refresh again as soon as it ends
  timers,      \* armed refresh timers
  station,     \* history station, or NoStation
  rows,        \* history rows
  cursor,      \* history cursor
  blocked,     \* wait for a snapshot before the next page
  paused,      \* the pause box
  hist,        \* the request of refreshHistory
  clicks,      \* actions of the user so far
  ended        \* the page was destroyed

view == <<snapshot, selection, pending, stale>>
loop == <<main, immediate, timers>>
history == <<station, rows, cursor, blocked>>
vars == <<server, view, loop, history, paused, hist, clicks, ended>>

NoStation == "none"
NoCursor == -1
NoSnapshot == [run |-> 0, selection |-> {}, latest |-> <<>>]
NoMain == [phase |-> "none", fresh |-> FALSE, selection |-> {}, answer |-> NoSnapshot]
NoPage == [rows |-> <<>>, nextAfter |-> 0, gap |-> FALSE]
NoHist == [phase |-> "none", fresh |-> FALSE, run |-> 0, station |-> NoStation,
           after |-> NoCursor, answer |-> NoPage]

NewRun(run) == [run |-> run, latest |-> [s \in Stations |-> 0]]

\* refresh and historyLoop start at once.
Init ==
  /\ server = NewRun(1)
  /\ snapshot = NoSnapshot
  /\ selection = {}
  /\ pending = FALSE
  /\ stale = FALSE
  /\ main = [NoMain EXCEPT !.phase = "sent", !.fresh = TRUE]
  /\ immediate = FALSE
  /\ timers = 0
  /\ station = NoStation
  /\ rows = <<>>
  /\ cursor = NoCursor
  /\ blocked = FALSE
  /\ paused = FALSE
  /\ hist = NoHist
  /\ clicks = 0
  /\ ended = FALSE

-----------------------------------------------------------------------------
(***************************************************************************)
(* The simulator, read through the display API                             *)
(***************************************************************************)
Row(run, s, sequence) == [run |-> run, station |-> s, sequence |-> sequence]

Hear(s) ==
  /\ server.latest[s] < MaxReceptions[server.run][s]
  /\ server' = [server EXCEPT !.latest[s] = @ + 1]
  /\ UNCHANGED <<view, loop, history, paused, hist, clicks, ended>>

RemoveStation(s) ==
  /\ server' = [server EXCEPT !.latest = Restrict(@, DOMAIN @ \ {s})]
  /\ UNCHANGED <<view, loop, history, paused, hist, clicks, ended>>

Restart ==
  /\ server.run < MaxRun
  /\ server' = NewRun(server.run + 1)
  /\ UNCHANGED <<view, loop, history, paused, hist, clicks, ended>>

\* Observations: an unknown station of the selection is 404.
MainServe ==
  /\ main.phase = "sent"
  /\ main' = IF main.selection \subseteq DOMAIN server.latest
             THEN [main EXCEPT !.phase = "ok",
                     !.answer = [run |-> server.run, selection |-> main.selection,
                                 latest |-> server.latest]]
             ELSE [main EXCEPT !.phase = "not found"]
  /\ UNCHANGED <<server, view, immediate, timers, history, paused, hist, clicks, ended>>

GapAfter(after, oldest) == after < oldest - 1

\* ReceptionHistory: the newest page, or the oldest rows after a cursor.
PageAfter(s, after) ==
  LET latest == server.latest[s]
      oldest == IF latest > HistoryLimit THEN latest - HistoryLimit + 1 ELSE 1
      first == IF after = NoCursor
               THEN IF latest - PageLimit + 1 > oldest THEN latest - PageLimit + 1 ELSE oldest
               ELSE IF after + 1 > oldest THEN after + 1 ELSE oldest
      last == IF first + PageLimit - 1 < latest THEN first + PageLimit - 1 ELSE latest
  IN [rows |-> [k \in 1..(last - first + 1) |-> Row(server.run, s, first + k - 1)],
      nextAfter |-> IF last >= first THEN last ELSE IF after = NoCursor THEN 0 ELSE after,
      gap |-> after # NoCursor /\ latest > 0 /\ GapAfter(after, oldest)]

\* Another run is 409, an unknown station is 404.
HistServe ==
  /\ hist.phase = "sent"
  /\ hist' = IF hist.run # server.run \/ hist.station \notin DOMAIN server.latest
             THEN [hist EXCEPT !.phase = "identity changed"]
             ELSE [hist EXCEPT !.phase = "ok", !.answer = PageAfter(hist.station, hist.after)]
  /\ UNCHANGED <<server, view, loop, history, paused, clicks, ended>>

-----------------------------------------------------------------------------
(***************************************************************************)
(* Parts of the page's tasks                                               *)
(***************************************************************************)
Loaded == snapshot # NoSnapshot
Fetching == main.phase # "none"
Waiting == pending \/ stale

\* historyGeneration++ and abort: the history request in flight is void.
VoidHist == hist' = [hist EXCEPT !.fresh = FALSE]

\* Mutant: the rows stay when the history is reset.
ResetHistoryKeepingRows(s) ==
  /\ station' = s
  /\ rows' = rows
  /\ cursor' = NoCursor
  /\ VoidHist

\* resetHistory
ResetHistory(s) ==
  /\ station' = s
  /\ rows' = <<>>
  /\ cursor' = NoCursor
  /\ VoidHist

\* refresh up to its request, for selection sel.
Request(sel) == [NoMain EXCEPT !.phase = "sent", !.fresh = TRUE, !.selection = sel]

\* Mutant: a refresh on request leaves the timer of the loop armed.
RequestRefreshDouble(sel) ==
  IF Fetching
  THEN main' = [main EXCEPT !.fresh = FALSE] /\ immediate' = TRUE /\ UNCHANGED timers
  ELSE main' = Request(sel) /\ immediate' = FALSE /\ UNCHANGED timers

\* generation++ and requestRefresh: now, or as soon as the request ends.
RequestRefresh(sel) ==
  IF Fetching
  THEN main' = [main EXCEPT !.fresh = FALSE] /\ immediate' = TRUE /\ UNCHANGED timers
  ELSE main' = Request(sel) /\ immediate' = FALSE /\ timers' = 0

\* The finally block of refresh: the next one is scheduled in every case, unless
\* the page was destroyed.
EndRefresh ==
  /\ main' = NoMain
  /\ timers' = IF ended THEN timers ELSE timers + 1

\* render: without a history station the rows are the recent sample.
Sample(v) ==
  LET heard == {s \in (IF v.selection = {} THEN DOMAIN v.latest ELSE v.selection) :
                  v.latest[s] > 0}
  IN SetToSeq({Row(v.run, s, v.latest[s]) : s \in heard})

Rendered(v, s, old) == IF v # NoSnapshot /\ s = NoStation /\ ~paused THEN Sample(v) ELSE old

Only(ids) == IF Cardinality(ids) = 1 THEN CHOOSE s \in ids : TRUE ELSE NoStation

-----------------------------------------------------------------------------
(***************************************************************************)
(* The user                                                                *)
(***************************************************************************)
Click == ~ended /\ clicks < MaxClicks /\ clicks' = clicks + 1 /\ UNCHANGED ended

\* choose: only stations of the snapshot shown are offered, and all.
Choose(ids) ==
  /\ Click
  /\ ids \subseteq DOMAIN snapshot.latest
  /\ selection' = ids
  /\ ResetHistory(Only(ids))
  /\ blocked' = FALSE
  /\ pending' = TRUE
  /\ RequestRefresh(ids)
  /\ UNCHANGED <<server, snapshot, stale, paused>>

\* refreshHistory up to its request, as far as the view after this task lets it.
CanAsk(s, block, pause) ==
  /\ hist.phase = "none"
  /\ Loaded
  /\ s # NoStation
  /\ ~block
  /\ ~pause
  /\ ~Waiting

Ask(s, after) ==
  [NoHist EXCEPT !.phase = "sent", !.fresh = TRUE, !.run = snapshot.run,
                 !.station = s, !.after = after]

\* Another history station is chosen.
ChooseHistory(s) ==
  /\ Click
  /\ s \in {NoStation} \cup DOMAIN snapshot.latest
  /\ station' = s
  /\ cursor' = NoCursor
  /\ rows' = Rendered(snapshot, s, <<>>)
  /\ blocked' = FALSE
  /\ hist' = IF CanAsk(s, FALSE, paused) THEN Ask(s, NoCursor)
             ELSE [hist EXCEPT !.fresh = FALSE]
  /\ UNCHANGED <<server, view, loop, paused>>

\* The pause box: leaving it renders and asks for the next page.
Pause ==
  /\ Click
  /\ paused' = ~paused
  /\ rows' = IF paused /\ Loaded /\ station = NoStation THEN Sample(snapshot) ELSE rows
  /\ hist' = IF CanAsk(station, blocked, ~paused) THEN Ask(station, cursor)
             ELSE [hist EXCEPT !.fresh = FALSE]
  /\ UNCHANGED <<server, view, loop, station, cursor, blocked>>

\* destroy: requests are aborted and void, timers cleared, and the nodes dropped.
\* The variables, which nothing reads any more, are not kept.
Destroy ==
  /\ ~ended
  /\ ended' = TRUE
  /\ main' = [main EXCEPT !.fresh = FALSE]
  /\ VoidHist
  /\ timers' = 0
  /\ snapshot' = NoSnapshot
  /\ selection' = {}
  /\ rows' = <<>>
  /\ station' = NoStation
  /\ cursor' = NoCursor
  /\ pending' = FALSE
  /\ stale' = FALSE
  /\ immediate' = FALSE
  /\ blocked' = FALSE
  /\ paused' = FALSE
  /\ UNCHANGED <<server, clicks>>

-----------------------------------------------------------------------------
(***************************************************************************)
(* The snapshot loop                                                       *)
(***************************************************************************)
TimerFires ==
  /\ timers > 0
  /\ timers' = timers - 1
  /\ main' = Request(selection)
  /\ immediate' = FALSE
  /\ UNCHANGED <<server, view, history, paused, hist, clicks, ended>>

\* Mutant: an answer is used although the selection has changed.
ValidAlways == TRUE

\* token === generation
Valid == main.fresh

\* An answer whose selection was given up is ignored, and so is its error.
MainIgnored ==
  /\ main.phase \in {"sent", "ok", "not found"}
  /\ ~Valid
  /\ EndRefresh
  /\ UNCHANGED <<server, view, immediate, history, paused, hist, clicks, ended>>

MainFails ==
  /\ main.phase \in {"sent", "ok", "not found"}
  /\ Valid
  /\ stale' = TRUE
  /\ EndRefresh
  /\ UNCHANGED <<server, snapshot, selection, pending, immediate, history, paused, hist, clicks, ended>>

\* 404: a selected station was removed; choose all.
MainNotFound ==
  /\ main.phase = "not found"
  /\ Valid
  /\ selection' = {}
  /\ ResetHistory(NoStation)
  /\ blocked' = FALSE
  /\ pending' = TRUE
  /\ immediate' = TRUE
  /\ EndRefresh
  /\ UNCHANGED <<server, snapshot, stale, paused, clicks, ended>>

Restarted == Loaded /\ snapshot.run # main.answer.run

\* Another run than the one shown, under a selection: start over with all.
MainRestarted ==
  /\ main.phase = "ok"
  /\ Valid
  /\ Restarted
  /\ selection # {}
  /\ selection' = {}
  /\ snapshot' = NoSnapshot
  /\ ResetHistory(NoStation)
  /\ blocked' = FALSE
  /\ immediate' = TRUE
  /\ EndRefresh
  /\ UNCHANGED <<server, pending, stale, paused, clicks, ended>>

\* A complete snapshot replaces the one shown.
MainReceive ==
  LET v == main.answer
      reset == Restarted \/ (station # NoStation /\ station \notin DOMAIN v.latest)
      s == IF reset THEN NoStation ELSE station
  IN /\ main.phase = "ok"
     /\ Valid
     /\ ~(Restarted /\ selection # {})
     /\ snapshot' = v
     /\ station' = s
     /\ cursor' = IF reset THEN NoCursor ELSE cursor
     /\ rows' = Rendered(v, s, IF reset THEN <<>> ELSE rows)
     /\ hist' = IF reset THEN [hist EXCEPT !.fresh = FALSE] ELSE hist
     /\ blocked' = FALSE
     /\ pending' = FALSE
     /\ stale' = FALSE
     /\ EndRefresh
     /\ UNCHANGED <<server, selection, immediate, paused, clicks, ended>>

-----------------------------------------------------------------------------
(***************************************************************************)
(* The history loop                                                        *)
(***************************************************************************)
HistoryPoll ==
  /\ CanAsk(station, blocked, paused)
  /\ hist' = Ask(station, cursor)
  /\ UNCHANGED <<server, view, loop, history, paused, clicks, ended>>

\* current: nothing that the page asked for has changed since.
HistCurrent ==
  /\ hist.fresh
  /\ hist.run = snapshot.run
  /\ hist.station = station
  /\ ~paused
  /\ ~Waiting

\* An outdated request is aborted, and its answer dropped.
HistIgnored ==
  /\ hist.phase # "none"
  /\ ~HistCurrent
  /\ hist' = NoHist
  /\ UNCHANGED <<server, view, loop, history, paused, clicks, ended>>

\* A failed read keeps the rows.
HistFails ==
  /\ hist.phase # "none"
  /\ HistCurrent
  /\ hist' = NoHist
  /\ UNCHANGED <<server, view, loop, history, paused, clicks, ended>>

\* 409 or 404: clear the cursor and wait for a snapshot.
HistIdentityChanged ==
  /\ hist.phase = "identity changed"
  /\ HistCurrent
  /\ rows' = <<>>
  /\ cursor' = NoCursor
  /\ blocked' = TRUE
  /\ hist' = NoHist
  /\ IF Fetching
     THEN immediate' = TRUE /\ UNCHANGED <<main, timers>>
     ELSE main' = Request(selection) /\ immediate' = FALSE /\ timers' = 0
  /\ UNCHANGED <<server, view, station, paused, clicks, ended>>

\* The newest n elements of a sequence.
Newest(s, n) == IF Len(s) > n THEN SubSeq(s, Len(s) - n + 1, Len(s)) ELSE s

\* The elements of s at the positions in S, in order.
ElementsAt(s, S) ==
  [n \in 1..Cardinality(S) |-> s[CHOOSE k \in S : Cardinality({j \in S : j <= k}) = n]]

\* Rows of one station merged by their sequence.
Merge(old, new) ==
  LET known == {old[k].sequence : k \in DOMAIN old}
  IN old \o ElementsAt(new, {k \in DOMAIN new : new[k].sequence \notin known})

\* Mutant: after a gap the cursor stays, and the next page begins there again.
HistReceiveKeepingCursor ==
  LET page == hist.answer
  IN /\ hist.phase = "ok"
     /\ HistCurrent
     /\ rows' = Newest(Merge(IF page.gap THEN <<>> ELSE rows, page.rows), RowLimit)
     /\ cursor' = IF page.gap THEN cursor ELSE page.nextAfter
     /\ hist' = NoHist
     /\ UNCHANGED <<server, view, loop, station, blocked, paused, clicks, ended>>

HistReceive ==
  LET page == hist.answer
  IN /\ hist.phase = "ok"
     /\ HistCurrent
     /\ rows' = Newest(Merge(IF page.gap THEN <<>> ELSE rows, page.rows), RowLimit)
     /\ cursor' = page.nextAfter
     /\ hist' = NoHist
     /\ UNCHANGED <<server, view, loop, station, blocked, paused, clicks, ended>>

-----------------------------------------------------------------------------
User ==
  \/ \E ids \in SUBSET Stations : Choose(ids)
  \/ \E s \in {NoStation} \cup Stations : ChooseHistory(s)
  \/ Pause
  \/ Destroy

Next ==
  \/ \E s \in DOMAIN server.latest : Hear(s) \/ RemoveStation(s)
  \/ Restart
  \/ User
  \/ MainServe
  \/ HistServe
  \/ TimerFires
  \/ MainIgnored
  \/ MainFails
  \/ MainNotFound
  \/ MainRestarted
  \/ MainReceive
  \/ HistoryPoll
  \/ HistIgnored
  \/ HistFails
  \/ HistIdentityChanged
  \/ HistReceive

Spec == Init /\ [][Next]_vars

\* The loops go on, every request ends, by its timeout at the latest, and from
\* some time on no read fails.  The history loop goes on polling once it has
\* caught up: the receipt of a page with no news changes what a failed read
\* changes, and only the failures that are not also such a receipt are excluded.
Fairness ==
  /\ WF_vars(TimerFires)
  /\ WF_vars(MainServe)
  /\ WF_vars(MainIgnored \/ MainNotFound \/ MainRestarted \/ MainReceive)
  /\ WF_vars(HistoryPoll)
  /\ WF_vars(HistServe)
  /\ WF_vars(HistIgnored \/ HistIdentityChanged \/ HistReceive)
  /\ <>[][~MainFails /\ (HistFails => HistReceive)]_vars

FairSpec == Spec /\ Fairness

-----------------------------------------------------------------------------
(***************************************************************************)
(* Properties                                                              *)
(***************************************************************************)

\* Unless it says that a selection is being loaded, the page shows a snapshot
\* of exactly the selection chosen, however answers, choices, removals and
\* restarts overlap (generation and ais-pending).
SelectionShown == Loaded /\ ~pending => snapshot.selection = selection

\* The history rows are of the station and the run shown, in sequence without a
\* hole, and end at the cursor: a page is never merged into rows that it does
\* not continue (historyGeneration, current, gap, merge by sequence), nor are
\* more rows kept than the limit.
RowsContinue ==
  station # NoStation =>
    /\ Len(rows) <= RowLimit
    /\ \A k \in DOMAIN rows : rows[k].run = snapshot.run /\ rows[k].station = station
    /\ \A k \in 2..Len(rows) : rows[k].sequence = rows[k - 1].sequence + 1
    /\ rows # <<>> => Last(rows).sequence = cursor

\* Exactly one refresh is in flight or scheduled: the page neither stops
\* polling nor polls twice (timer, fetching and finally in refresh).  A destroyed
\* page schedules none, and shows nothing any more, although its requests are
\* still answered (later, and the generations in onDestroy).
OneLoop ==
  /\ timers = IF Fetching \/ ended THEN 0 ELSE 1
  /\ ended => ~Loaded /\ rows = <<>>

\* Once nothing changes and no read fails any more, a living page shows the present
\* snapshot of the selection, and the history station's rows reach its latest
\* reception (finally of refresh, historyBlocked, historyLoop).
Converges ==
  <>[](~ended =>
         /\ ~Waiting
         /\ snapshot = [run |-> server.run, selection |-> selection, latest |-> server.latest]
         /\ station # NoStation /\ ~paused => cursor = server.latest[station])
=============================================================================
