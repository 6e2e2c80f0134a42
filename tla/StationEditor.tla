--------------------------- MODULE StationEditor ---------------------------
(***************************************************************************)
(* The manager's station editor (stations.js) against the station API of   *)
(* the simulator, which other clients edit and which may restart.          *)
(*                                                                         *)
(* The editor polls the configuration once a second, keeps one draft and   *)
(* sends one change at a time.  A change names the run and the revision    *)
(* that its author saw; the server refuses it with 409 when either has     *)
(* changed.  An answer may be late or lost: the page then gives up after   *)
(* its timeout, while the request may still be handled.                    *)
(*                                                                         *)
(* Each JavaScript task between two awaits is one action.  The fields of   *)
(* the form are one value, chosen when the form is submitted.              *)
(***************************************************************************)
EXTENDS Integers, Sequences, FiniteSets, Functions

CONSTANTS
  Definitions,      \* values of the form
  InitialStations,  \* for each run, its first definitions, one per ID from 1
  MaxStations,
  MaxRevision,      \* bound: revisions of each run
  MaxAttempts,      \* bound: changes that the user decides on
  MaxSends          \* bound: changes that the user sends

ASSUME EditorAssumption ==
  /\ {MaxStations, MaxAttempts, MaxSends} \subseteq Nat \ {0}
  /\ InitialStations \in Seq(Seq(Definitions)) /\ InitialStations # <<>>
  /\ \A run \in DOMAIN InitialStations : Len(InitialStations[run]) <= MaxStations
  /\ MaxRevision \in [DOMAIN InitialStations -> Nat \ {0}]
  /\ {"deleted", "unseen"} \cap Definitions = {}

MaxRun == Len(InitialStations)   \* bound: runs of the simulator

VARIABLES
  server,      \* run, revision, stations and last ID of the simulator
  net,         \* changes sent and not yet handled
  snapshot,    \* the configuration shown
  table,       \* the stations of the table rows
  draft,       \* the draft's identity
  conflict,    \* the draft is known to be out of date
  panel,       \* what the conflict panel shows of the draft's station
  saving,
  generation,
  ended,       \* the page was destroyed
  poll,        \* the request of the refresh loop
  save,        \* the request of the save in progress
  attempts,    \* changes decided on so far
  sends,       \* changes sent so far
  applied      \* history variable: changes of this page that the server applied

page == <<snapshot, table, draft, conflict, panel, saving, generation, ended>>
vars == <<server, net, page, poll, save, attempts, sends, applied>>

Deleted == "deleted"
Unseen == "unseen"
New == 0          \* station ID null: the change adds a station

NoSet == [run |-> 0, revision |-> 0, stations |-> <<>>]
NoDraft == [id |-> New, run |-> 0, revision |-> 0, seen |-> Unseen, attempt |-> 0]
NoPoll == [phase |-> "none", started |-> 0, answer |-> NoSet]
NoSave == [phase |-> "none", number |-> 0, answer |-> NoSet]

NewRun(run) ==
  [run |-> run, revision |-> 1, stations |-> InitialStations[run],
   last |-> Len(InitialStations[run])]

\* stations: what GET stations answers.
Configuration(s) == [run |-> s.run, revision |-> s.revision, stations |-> s.stations]

Init ==
  /\ server = NewRun(1)
  /\ net = {}
  /\ snapshot = NoSet
  /\ table = <<>>
  /\ draft = NoDraft
  /\ conflict = FALSE
  /\ panel = Unseen
  /\ saving = FALSE
  /\ generation = 0
  /\ ended = FALSE
  /\ poll = NoPoll
  /\ save = NoSave
  /\ attempts = 0
  /\ sends = 0
  /\ applied = {}

-----------------------------------------------------------------------------
(***************************************************************************)
(* The simulator                                                           *)
(***************************************************************************)

\* Mutant: the revision is not checked.
RefusedRunOnly(s, e) == e.run # s.run

\* prepareStationEdit: another run or another revision is a conflict.
Refused(s, e) == e.run # s.run \/ e.revision # s.revision

\* An unknown station is 404, a full set is 400.
Impossible(s, e) ==
  IF e.id = New THEN Cardinality(DOMAIN s.stations) >= MaxStations
  ELSE e.id \notin DOMAIN s.stations

\* AddStation, UpdateStation, RemoveStation.
Change(s, e) ==
  CASE e.id = New ->
         [s EXCEPT !.revision = @ + 1, !.last = @ + 1,
                   !.stations = [k \in DOMAIN @ \cup {s.last + 1} |->
                                   IF k = s.last + 1 THEN e.value ELSE @[k]]]
    [] e.id # New /\ e.value = Deleted ->
         [s EXCEPT !.revision = @ + 1, !.stations = Restrict(@, DOMAIN @ \ {e.id})]
    [] e.id # New /\ e.value # Deleted /\ e.value = s.stations[e.id] -> s
    [] OTHER -> [s EXCEPT !.revision = @ + 1, !.stations[e.id] = e.value]

\* The bound on the changes of a run.
CanChange == server.revision < MaxRevision[server.run]

\* Another client edits the current configuration.
OtherEdits(id, value) ==
  LET e == [id |-> id, run |-> server.run, revision |-> server.revision, value |-> value]
  IN /\ CanChange
     /\ ~Impossible(server, e)
     /\ Change(server, e) # server
     /\ server' = Change(server, e)
     /\ UNCHANGED <<net, page, poll, save, attempts, sends, applied>>

Restart ==
  /\ server.run < MaxRun
  /\ server' = NewRun(server.run + 1)
  /\ UNCHANGED <<net, page, poll, save, attempts, sends, applied>>

Answers(e, kind, set) ==
  save' = IF save.phase = "sent" /\ save.number = e.number
          THEN [save EXCEPT !.phase = kind, !.answer = set]
          ELSE save

\* What a change replaces.
Replaced(e) == IF e.id = New THEN Unseen ELSE server.stations[e.id]

\* addStation, updateStation, removeStation: the answer carries the new set.
Handle(e) ==
  /\ net' = net \ {e}
  /\ CASE Refused(server, e) -> /\ Answers(e, "refused", NoSet)
                                /\ UNCHANGED <<server, applied>>
       [] ~Refused(server, e) /\ Impossible(server, e) ->
            /\ Answers(e, "failed", NoSet)
            /\ UNCHANGED <<server, applied>>
       [] OTHER ->
            /\ CanChange
            /\ server' = Change(server, e)
            /\ Answers(e, "applied", Configuration(server'))
            /\ applied' = IF server' = server THEN applied
                          ELSE applied \cup {[number |-> e.number, attempt |-> e.attempt,
                                              seen |-> e.seen, replaced |-> Replaced(e)]}
  /\ UNCHANGED <<page, poll, attempts, sends>>

-----------------------------------------------------------------------------
(***************************************************************************)
(* The page                                                                *)
(***************************************************************************)
Loaded == snapshot # NoSet
HasDraft == draft # NoDraft
Identity(v) == <<v.run, v.revision>>

\* showConflict: what the panel shows of the draft's station.
Current(v, d) ==
  IF v.run = d.run /\ d.id \in DOMAIN v.stations THEN v.stations[d.id] ELSE Unseen

\* Mutant: the table is kept when only the run differs.
RowsOfRevision(v) == IF v.revision # snapshot.revision THEN v.stations ELSE table

\* The rows are rendered again only when the configuration changed.
Rows(v) == IF Identity(v) # Identity(snapshot) THEN v.stations ELSE table

OutOfDate(v, d) == d # NoDraft /\ Identity(d) # Identity(v)

\* Mutant: the panel keeps what it showed first.
AcceptKeepingPanel(v, d, c) ==
  /\ snapshot' = v
  /\ table' = Rows(v)
  /\ conflict' = (c \/ OutOfDate(v, d))
  /\ panel' = IF OutOfDate(v, d) /\ ~c THEN Current(v, d) ELSE panel

\* accept: show configuration v; d and c are the draft and the conflict then.
Accept(v, d, c) ==
  /\ snapshot' = v
  /\ table' = Rows(v)
  /\ conflict' = (c \/ OutOfDate(v, d))
  /\ panel' = IF OutOfDate(v, d) THEN Current(v, d) ELSE panel

\* The loop of polls ends with the page (later).
PollSend ==
  /\ ~ended
  /\ poll.phase = "none"
  /\ poll' = [phase |-> "sent", started |-> generation, answer |-> NoSet]
  /\ UNCHANGED <<server, net, page, save, attempts, sends, applied>>

PollServe ==
  /\ poll.phase = "sent"
  /\ poll' = [poll EXCEPT !.phase = "answered", !.answer = Configuration(server)]
  /\ UNCHANGED <<server, net, page, save, attempts, sends, applied>>

\* Mutant: only a save in progress keeps an answer out.
FreshUnlessSaving == ~saving

\* An answer counts only if no save began or ended since the request.
Fresh == poll.started = generation /\ ~saving

PollReceive ==
  /\ poll.phase = "answered"
  /\ IF Fresh
     THEN Accept(poll.answer, draft, conflict)
     ELSE UNCHANGED <<snapshot, table, conflict, panel>>
  /\ poll' = NoPoll
  /\ UNCHANGED <<server, net, draft, saving, generation, ended, save, attempts, sends, applied>>

PollFails ==
  /\ poll.phase \in {"sent", "answered"}
  /\ poll' = NoPoll
  /\ UNCHANGED <<server, net, page, save, attempts, sends, applied>>

\* begin: a draft of a row's station, or of a new one.
Begin(id) ==
  /\ Loaded
  /\ ~saving
  /\ ~HasDraft
  /\ id = New => Cardinality(DOMAIN snapshot.stations) < MaxStations
  /\ attempts < MaxAttempts
  /\ attempts' = attempts + 1
  /\ draft' = [id |-> id, run |-> snapshot.run, revision |-> snapshot.revision,
               seen |-> IF id = New THEN Unseen ELSE table[id], attempt |-> attempts']
  /\ conflict' = FALSE
  /\ UNCHANGED <<server, net, snapshot, table, panel, saving, generation, ended, poll, save,
                 sends, applied>>

\* The fields, and with them the discard button, are disabled while saving.
Cancel ==
  /\ HasDraft
  /\ ~saving
  /\ draft' = NoDraft
  /\ conflict' = FALSE
  /\ UNCHANGED <<server, net, snapshot, table, panel, saving, generation, ended, poll, save,
                 attempts, sends, applied>>

\* Keep the draft against the configuration shown.
Rebase ==
  /\ HasDraft
  /\ conflict
  /\ ~saving
  /\ attempts < MaxAttempts
  /\ attempts' = attempts + 1
  /\ LET kept == draft.run = snapshot.run /\ draft.id \in DOMAIN snapshot.stations
     IN draft' = [id |-> IF kept THEN draft.id ELSE New,
                  run |-> snapshot.run, revision |-> snapshot.revision,
                  seen |-> IF kept THEN panel ELSE Unseen, attempt |-> attempts']
  /\ conflict' = FALSE
  /\ UNCHANGED <<server, net, snapshot, table, panel, saving, generation, ended, poll, save,
                 sends, applied>>

\* save up to its request: d is the identity of the change.
Send(d, value) ==
  /\ ~saving
  /\ sends < MaxSends
  /\ sends' = sends + 1
  /\ saving' = TRUE
  /\ generation' = generation + 1
  /\ net' = net \cup {[id |-> d.id, run |-> d.run, revision |-> d.revision, value |-> value,
                       seen |-> d.seen, attempt |-> d.attempt, number |-> sends']}
  /\ save' = [phase |-> "sent", number |-> sends', answer |-> NoSet]

\* The form is submitted.
Submit(value) ==
  /\ HasDraft
  /\ ~conflict
  /\ Send(draft, value)
  /\ UNCHANGED <<server, snapshot, table, draft, conflict, panel, ended, poll, attempts, applied>>

\* mutate: a button of a row changes or deletes its station.
Mutate(id, value) ==
  /\ Loaded
  /\ ~HasDraft
  /\ attempts < MaxAttempts
  /\ attempts' = attempts + 1
  /\ Send([id |-> id, run |-> snapshot.run, revision |-> snapshot.revision,
           seen |-> table[id], attempt |-> attempts'], value)
  /\ UNCHANGED <<server, snapshot, table, draft, conflict, panel, ended, poll, applied>>

\* Mutant: the finally block leaves the page saving.
SavedStuck ==
  /\ UNCHANGED saving
  /\ generation' = generation + 1
  /\ save' = NoSave

\* The finally block of save.
Saved ==
  /\ saving' = FALSE
  /\ generation' = generation + 1
  /\ save' = NoSave

\* The change was applied: the draft is done.
SaveReceive ==
  /\ ~ended
  /\ save.phase = "applied"
  /\ draft' = NoDraft
  /\ Accept(save.answer, NoDraft, FALSE)
  /\ Saved
  /\ UNCHANGED <<server, net, ended, poll, attempts, sends, applied>>

\* A timeout, a lost answer or another error: the draft stays as it was.
SaveFails ==
  /\ ~ended
  /\ save.phase \in {"sent", "applied", "refused", "failed"}
  /\ Saved
  /\ UNCHANGED <<server, net, snapshot, table, draft, conflict, panel, ended, poll, attempts,
                 sends, applied>>

\* 409: read the configuration before the save ends.
SaveRefused ==
  /\ ~ended
  /\ save.phase = "refused"
  /\ save' = [save EXCEPT !.phase = "reread"]
  /\ UNCHANGED <<server, net, page, poll, attempts, sends, applied>>

RereadServe ==
  /\ save.phase = "reread"
  /\ save' = [save EXCEPT !.phase = "reread answered", !.answer = Configuration(server)]
  /\ UNCHANGED <<server, net, page, poll, attempts, sends, applied>>

\* The second showConflict of a refused save: of v, also if nothing differs.
ShowConflict(v) ==
  /\ conflict' = (conflict \/ HasDraft)
  /\ panel' = IF HasDraft THEN Current(v, draft) ELSE panel

RereadReceive ==
  /\ ~ended
  /\ save.phase = "reread answered"
  /\ snapshot' = save.answer
  /\ table' = Rows(save.answer)
  /\ ShowConflict(save.answer)
  /\ Saved
  /\ UNCHANGED <<server, net, draft, ended, poll, attempts, sends, applied>>

RereadFails ==
  /\ ~ended
  /\ save.phase \in {"reread", "reread answered"}
  /\ ShowConflict(snapshot)
  /\ Saved
  /\ UNCHANGED <<server, net, snapshot, table, draft, ended, poll, attempts, sends, applied>>

\* Whatever a save ends with, the destroyed page ignores it.
SaveIgnored ==
  /\ ended
  /\ save # NoSave
  /\ save' = NoSave
  /\ UNCHANGED <<server, net, page, poll, attempts, sends, applied>>

\* destroy: requests are aborted or ignored from now on, and the nodes dropped.
\* The variables, which nothing reads any more, are not kept; when the poll is
\* answered makes no difference any more, so its answer is taken for given.
Destroy ==
  /\ ~ended
  /\ ended' = TRUE
  /\ generation' = generation + 1
  /\ snapshot' = NoSet
  /\ table' = <<>>
  /\ draft' = NoDraft
  /\ conflict' = FALSE
  /\ panel' = Unseen
  /\ saving' = FALSE
  /\ poll' = IF poll = NoPoll THEN NoPoll
             ELSE [poll EXCEPT !.phase = "answered", !.answer = Configuration(server)]
  /\ UNCHANGED <<server, net, save, attempts, sends, applied>>

-----------------------------------------------------------------------------
SaveStep ==
  SaveReceive \/ SaveFails \/ SaveRefused \/ RereadReceive \/ RereadFails \/ SaveIgnored

Next ==
  \/ \E id \in {New} \cup DOMAIN server.stations, value \in Definitions : OtherEdits(id, value)
  \/ \E id \in DOMAIN server.stations : OtherEdits(id, Deleted)
  \/ Restart
  \/ \E e \in net : Handle(e)
  \/ PollSend
  \/ PollServe
  \/ PollReceive
  \/ PollFails
  \/ \E id \in {New} \cup DOMAIN table : Begin(id)
  \/ Cancel
  \/ Rebase
  \/ \E value \in Definitions : Submit(value)
  \/ \E id \in DOMAIN table, value \in Definitions \cup {Deleted} : Mutate(id, value)
  \/ SaveReceive
  \/ SaveFails
  \/ SaveRefused
  \/ RereadServe
  \/ RereadReceive
  \/ RereadFails
  \/ SaveIgnored
  \/ Destroy

Spec == Init /\ [][Next]_vars

\* The refresh loop goes on, every request ends by its timeout at the latest,
\* and of the polls sent again and again some are answered in time.
Fairness ==
  /\ WF_vars(PollSend)
  /\ WF_vars(PollReceive \/ PollFails)
  /\ SF_vars(PollServe)
  /\ SF_vars(PollReceive)
  /\ WF_vars(SaveStep)

FairSpec == Spec /\ Fairness

-----------------------------------------------------------------------------
(***************************************************************************)
(* Properties                                                              *)
(***************************************************************************)
\* No change overwrites a definition its author has not seen: whatever other
\* clients do and whichever answers are lost or late, a change is applied only
\* to the very definition that the row, the form or the conflict panel showed
\* (stations.js begin, mutate, rebase; prepareStationEdit).
NoBlindWrite == \A a \in applied : a.replaced = a.seen

\* One decision of the user is applied at most once, also when the answer was
\* lost and the draft is sent again (stations.js save).
AppliedOnce == \A a, b \in applied : a.attempt = b.attempt => a = b

NotBefore(v, w) ==
  \/ w.run < v.run
  \/ w.run = v.run /\ w.revision <= v.revision

\* The page never goes back to an older configuration, although the answers to
\* polls, saves and reads after a conflict overlap (generation in refresh, save),
\* and a destroyed page shows none any more, although its requests may still be
\* answered (runtime.destroyed).
SnapshotAdvances ==
  [][IF ended' THEN snapshot' = NoSet ELSE NotBefore(snapshot', snapshot)]_vars

\* A draft that the configuration shown has overtaken can be kept only against
\* what the panel shows, and the panel shows that configuration (showConflict).
ConflictShown ==
  OutOfDate(snapshot, draft) => conflict /\ panel = Current(snapshot, draft)

\* Once nobody edits any more, a living page shows the current configuration, and
\* no save stays in progress (refresh, finally of save).
Converges == <>[](ended \/ (snapshot = Configuration(server) /\ ~saving))
=============================================================================
