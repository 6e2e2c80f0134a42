------------------------ MODULE StationEditorProofs ------------------------
(***************************************************************************)
(* Safety of the station editor, for any definitions, any number of runs,  *)
(* of stations, of attempts and of requests under way.                     *)
(***************************************************************************)
EXTENDS StationEditor, TLAPS

\* The identity v is older than w.
Older(v, w) == NotBefore(w, v) /\ Identity(v) # Identity(w)

ServerType ==
  /\ server = [run |-> server.run, revision |-> server.revision,
               stations |-> server.stations, last |-> server.last]
  /\ server.run \in Nat \ {0} /\ server.revision \in Nat \ {0} /\ server.last \in Nat
  /\ DOMAIN server.stations \subseteq Nat \ {0}

PollPhases == {"none", "sent", "answered"}
SavePhases == {"none", "sent", "applied", "refused", "failed", "reread", "reread answered"}

PageType ==
  /\ generation \in Nat /\ attempts \in Nat
  /\ conflict \in BOOLEAN /\ saving \in BOOLEAN /\ ended \in BOOLEAN
  /\ poll = [phase |-> poll.phase, started |-> poll.started, answer |-> poll.answer]
  /\ poll.phase \in PollPhases /\ poll.started \in Nat
  /\ save = [phase |-> save.phase, number |-> save.number, answer |-> save.answer]
  /\ save.phase \in SavePhases

\* A revision of a run names one configuration: what has the identity of the
\* simulator's has its stations, and nothing is ahead of it.
Known(v) ==
  /\ v.run \in Nat /\ v.revision \in Nat
  /\ NotBefore(server, v)

Exact(v) == Known(v) /\ (Identity(v) = Identity(server) => v.stations = server.stations)

Views ==
  /\ Exact(snapshot) /\ Exact(poll.answer) /\ Exact(save.answer)
  /\ Identity(snapshot) = Identity(server) => table = server.stations

\* A change that the simulator would not refuse was decided on by who saw the
\* definition that it replaces.
Informed(x) ==
  Identity(x) = Identity(server) =>
    \/ x.id = New /\ x.seen = Unseen
    \/ x.id # New /\ x.id \in DOMAIN server.stations /\ x.seen = server.stations[x.id]

Decided ==
  /\ Known(draft) /\ Informed(draft) /\ draft.attempt \in 0..attempts
  /\ HasDraft => draft.attempt # 0
  /\ \A e \in net : Known(e) /\ Informed(e) /\ e.attempt \in 1..attempts

\* One attempt is against one configuration, and is over once it was applied.
Attempted ==
  /\ \A e, f \in net : e.attempt = f.attempt => Identity(e) = Identity(f)
  /\ \A e \in net : e.attempt = draft.attempt => Identity(e) = Identity(draft)
  /\ \A a \in applied :
       /\ a.attempt \in 1..attempts
       /\ \A e \in net : a.attempt = e.attempt => Identity(e) # Identity(server)
       /\ a.attempt = draft.attempt => Identity(draft) # Identity(server)

\* What is awaited is not behind the page, unless it will be dropped.
Ordered ==
  /\ poll.started <= generation
  /\ poll.phase = "answered" /\ poll.started = generation => NotBefore(poll.answer, snapshot)
  /\ save.phase # "none" => saving \/ ended
  /\ save.phase \in {"applied", "reread answered"} => NotBefore(save.answer, snapshot)
  /\ HasDraft => NotBefore(snapshot, draft)

Dropped ==
  ended => /\ snapshot = NoSet /\ draft = NoDraft /\ ~saving
           /\ poll.phase = "none" \/ poll.started < generation

\* What the panel shows of the draft's station is true of the configuration shown,
\* while that one is the simulator's.
PanelTrue ==
  HasDraft /\ conflict /\ Identity(snapshot) = Identity(server)
    => panel = Current(Configuration(server), draft)

EditorInv ==
  /\ ServerType /\ PageType /\ Views /\ Decided /\ Attempted /\ Ordered /\ Dropped
  /\ PanelTrue /\ ConflictShown /\ NoBlindWrite /\ AppliedOnce

-----------------------------------------------------------------------------
(***************************************************************************)
(* The simulator                                                           *)
(***************************************************************************)
LEMMA NewRunType ==
  ASSUME NEW run \in 1..MaxRun
  PROVE  /\ NewRun(run) = [run |-> run, revision |-> 1, stations |-> InitialStations[run],
                           last |-> Len(InitialStations[run])]
         /\ Len(InitialStations[run]) \in Nat
         /\ DOMAIN InitialStations[run] \subseteq Nat \ {0}
<1>1. MaxRun = Len(InitialStations) /\ InitialStations \in Seq(Seq(Definitions))
  BY EditorAssumption DEF MaxRun
<1>2. InitialStations[run] \in Seq(Definitions)
  BY <1>1
<1>3. Len(InitialStations[run]) \in Nat
      /\ DOMAIN InitialStations[run] = 1..Len(InitialStations[run])
  BY <1>2
<1> QED BY <1>3 DEF NewRun

\* A change advances the revision, or leaves everything as it is.
LEMMA ChangeEffect ==
  ASSUME ServerType, NEW e, ~Impossible(server, e), server' = Change(server, e)
  PROVE  \/ server' = server
         \/ ServerType' /\ server'.run = server.run /\ server'.revision = server.revision + 1
<1> DEFINE Edited(map, last) ==
      [run |-> server.run, revision |-> server.revision + 1, stations |-> map, last |-> last]
<1>1. CASE e.id = New
  <2> DEFINE added == [k \in DOMAIN server.stations \cup {server.last + 1} |->
                         IF k = server.last + 1 THEN e.value ELSE server.stations[k]]
  <2>1. server' = Edited(added, server.last + 1)
    BY <1>1 DEF Change, ServerType
  <2>2. DOMAIN added = DOMAIN server.stations \cup {server.last + 1}
    OBVIOUS
  <2> HIDE DEF added
  <2> QED BY <2>1, <2>2 DEF ServerType
<1>2. CASE e.id # New /\ e.value = Deleted
  <2> DEFINE kept == Restrict(server.stations, DOMAIN server.stations \ {e.id})
  <2>1. server' = Edited(kept, server.last)
    BY <1>2 DEF Change, ServerType
  <2>2. DOMAIN kept \subseteq DOMAIN server.stations
    BY DEF Restrict
  <2> HIDE DEF kept
  <2> QED BY <2>1, <2>2 DEF ServerType
<1>3. CASE e.id # New /\ e.value # Deleted /\ e.value = server.stations[e.id]
  BY <1>3 DEF Change
<1>4. CASE e.id # New /\ e.value # Deleted /\ e.value # server.stations[e.id]
  <2> DEFINE changed == [server.stations EXCEPT ![e.id] = e.value]
  <2>1. server' = Edited(changed, server.last)
    BY <1>4 DEF Change, ServerType
  <2>2. DOMAIN changed = DOMAIN server.stations
    OBVIOUS
  <2> HIDE DEF changed
  <2> QED BY <2>1, <2>2 DEF ServerType
<1> QED BY <1>1, <1>2, <1>3, <1>4

\* What was known stays known when the simulator advances, and is then out of date.
LEMMA KnownAdvance ==
  ASSUME ServerType, ServerType', Older(server, server'), NEW v, Known(v)
  PROVE  /\ v.run \in Nat /\ v.revision \in Nat
         /\ NotBefore(server', v) /\ Identity(v) # Identity(server')
BY DEF ServerType, Older, NotBefore, Identity, Known

LEMMA AdvanceStep ==
  ASSUME EditorInv, ServerType', Older(server, server'),
         UNCHANGED <<net, page, poll, save, attempts, sends, applied>>
  PROVE  EditorInv'
<1> USE DEF EditorInv
<1>1. Views'
  BY KnownAdvance DEF Views, Exact, Known, page
<1>2. Decided'
  BY KnownAdvance DEF Decided, Known, Informed, HasDraft, page
<1>3. Attempted'
  BY KnownAdvance DEF Attempted, Decided, page, Identity
<1>4. PageType' /\ Ordered' /\ Dropped'
  BY DEF PageType, Ordered, Dropped, HasDraft, page
<1>5. PanelTrue'
  BY KnownAdvance DEF PanelTrue, Views, Exact, page
<1>6. ConflictShown' /\ NoBlindWrite' /\ AppliedOnce'
  BY DEF ConflictShown, OutOfDate, Current, Identity, NoBlindWrite, AppliedOnce, page
<1> QED BY <1>1, <1>2, <1>3, <1>4, <1>5, <1>6

LEMMA OtherEditsStep ==
  ASSUME EditorInv, NEW id, NEW value, OtherEdits(id, value) PROVE EditorInv'
<1> DEFINE e == [id |-> id, run |-> server.run, revision |-> server.revision, value |-> value]
<1>1. /\ ~Impossible(server, e) /\ server' = Change(server, e) /\ server' # server
      /\ UNCHANGED <<net, page, poll, save, attempts, sends, applied>>
  BY DEF OtherEdits
<1> HIDE DEF e
<1>2. ServerType' /\ server'.run = server.run /\ server'.revision = server.revision + 1
  BY <1>1, ChangeEffect DEF EditorInv
<1>3. Older(server, server')
  BY <1>2 DEF Older, NotBefore, Identity, ServerType, EditorInv
<1> QED BY <1>1, <1>2, <1>3, AdvanceStep

LEMMA RestartStep == ASSUME EditorInv, Restart PROVE EditorInv'
<1>1. MaxRun \in Nat
  BY EditorAssumption DEF MaxRun
<1>2. server.run + 1 \in 1..MaxRun
  BY <1>1 DEF Restart, EditorInv, ServerType
<1>3. ServerType' /\ server'.run = server.run + 1
  BY <1>2, NewRunType DEF Restart, EditorInv, ServerType
<1>4. Older(server, server')
  BY <1>3 DEF Older, NotBefore, Identity, ServerType, EditorInv
<1> QED BY <1>3, <1>4, AdvanceStep DEF Restart

\* The answer to a change is of the configuration after it, or of none.
LEMMA AnswersEffect ==
  ASSUME PageType, NEW e, NEW kind \in {"applied", "refused", "failed"}, NEW set,
         Answers(e, kind, set)
  PROVE  /\ save' = [phase |-> save'.phase, number |-> save'.number, answer |-> save'.answer]
         /\ \/ save' = save
            \/ save.phase = "sent" /\ save'.phase = kind /\ save'.answer = set
BY DEF PageType, Answers

\* A change was handled, and the simulator stays as it is.
LEMMA HandledStep ==
  ASSUME EditorInv, NEW e, NEW kind \in {"applied", "refused", "failed"}, NEW set,
         Answers(e, kind, set), Exact(set), kind = "applied" => set = Configuration(server),
         net' = net \ {e}, UNCHANGED <<server, page, poll, attempts, sends, applied>>
  PROVE  EditorInv'
<1> USE DEF EditorInv
<1>1. PageType'
  BY AnswersEffect DEF PageType, page, SavePhases
<1>2. ServerType' /\ PanelTrue' /\ ConflictShown' /\ NoBlindWrite' /\ AppliedOnce' /\ Dropped'
  BY DEF ServerType, PanelTrue, ConflictShown, HasDraft, Identity, Current, Configuration,
         OutOfDate, NoBlindWrite, AppliedOnce, Dropped, page
<1>3. Views'
  BY AnswersEffect DEF Views, Exact, Known, Identity, NotBefore, page
<1>4. Decided' /\ Attempted'
  BY DEF Decided, Attempted, Known, Informed, Identity, HasDraft, NotBefore, page
<1>5. Ordered'
  <2>1. NotBefore(Configuration(server), snapshot)
    BY DEF Views, Exact, Known, NotBefore, Configuration
  <2> QED BY <2>1, AnswersEffect DEF Ordered, HasDraft, NotBefore, page
<1> QED BY <1>1, <1>2, <1>3, <1>4, <1>5

\* A change was applied: it was decided on by who saw what it replaces, and
\* its attempt is over.
LEMMA AppliedStep ==
  ASSUME EditorInv, NEW e \in net, ~Refused(server, e), ServerType', Older(server, server'),
         Answers(e, "applied", Configuration(server')), net' = net \ {e},
         applied' = applied \cup {[number |-> e.number, attempt |-> e.attempt,
                                   seen |-> e.seen, replaced |-> Replaced(e)]},
         UNCHANGED <<page, poll, attempts, sends>>
  PROVE  EditorInv'
<1> USE DEF EditorInv
<1> DEFINE a == [number |-> e.number, attempt |-> e.attempt, seen |-> e.seen,
                 replaced |-> Replaced(e)]
<1>1. Identity(e) = Identity(server)
  BY DEF Refused, Identity
<1>2. a.attempt \in 1..attempts /\ a.replaced = a.seen
  BY <1>1 DEF Decided, Informed, Replaced
<1>3. \A b \in applied : b.attempt # a.attempt
  BY <1>1 DEF Attempted
<1>4. a.attempt = e.attempt /\ applied' = applied \cup {a}
  OBVIOUS
<1> HIDE DEF a
<1>5. NoBlindWrite' /\ AppliedOnce'
  BY <1>2, <1>3, <1>4 DEF NoBlindWrite, AppliedOnce
<1>6. PageType'
  BY AnswersEffect DEF PageType, page, SavePhases
<1>7. Views'
  <2>1. Exact(Configuration(server))'
    BY DEF Exact, Known, NotBefore, Configuration, ServerType
  <2>2. Exact(save.answer)'
    BY <2>1, AnswersEffect, KnownAdvance DEF Views, Exact, Known, Configuration
  <2> QED BY <2>2, KnownAdvance DEF Views, Exact, Known, page
<1>8. Decided'
  BY KnownAdvance DEF Decided, Known, Informed, HasDraft, page
<1>9. Attempted'
  <2>1. \A x \in {draft} \cup net : Identity(x) # Identity(server')
    BY KnownAdvance DEF Decided
  <2> QED BY <1>2, <1>4, <2>1 DEF Attempted, page, Identity
<1>10. Ordered'
  <2>1. NotBefore(Configuration(server'), snapshot)
    BY KnownAdvance DEF Views, Exact, NotBefore, Configuration
  <2> QED BY <2>1, AnswersEffect DEF Ordered, HasDraft, NotBefore, page
<1>11. PanelTrue' /\ ConflictShown' /\ Dropped'
  <2>1. Identity(snapshot) # Identity(server')
    BY KnownAdvance DEF Views, Exact
  <2> QED BY <2>1 DEF PanelTrue, ConflictShown, OutOfDate, Current, Identity, Dropped, page
<1> QED BY <1>5, <1>6, <1>7, <1>8, <1>9, <1>10, <1>11

LEMMA HandleStep == ASSUME EditorInv, NEW e \in net, Handle(e) PROVE EditorInv'
<1>1. Exact(NoSet)
  BY DEF EditorInv, Exact, Known, NoSet, NotBefore, Identity, ServerType
<1>2. CASE Refused(server, e)
  <2>1. /\ Answers(e, "refused", NoSet) /\ net' = net \ {e}
        /\ UNCHANGED <<server, page, poll, attempts, sends, applied>>
    BY <1>2 DEF Handle
  <2> QED BY <1>1, <2>1, HandledStep
<1>3. CASE ~Refused(server, e) /\ Impossible(server, e)
  <2>1. /\ Answers(e, "failed", NoSet) /\ net' = net \ {e}
        /\ UNCHANGED <<server, page, poll, attempts, sends, applied>>
    BY <1>3 DEF Handle
  <2> QED BY <1>1, <2>1, HandledStep
<1>4. CASE ~Refused(server, e) /\ ~Impossible(server, e)
  <2>1. /\ server' = Change(server, e) /\ Answers(e, "applied", Configuration(server'))
        /\ applied' = IF server' = server THEN applied
                      ELSE applied \cup {[number |-> e.number, attempt |-> e.attempt,
                                          seen |-> e.seen, replaced |-> Replaced(e)]}
        /\ net' = net \ {e} /\ UNCHANGED <<page, poll, attempts, sends>>
    BY <1>4 DEF Handle
  <2>2. CASE server' = server
    <3>1. Exact(Configuration(server))
      BY DEF EditorInv, Exact, Known, NotBefore, Configuration, ServerType
    <3> QED BY <2>1, <2>2, <3>1, HandledStep
  <2>3. CASE server' # server
    <3>1. ServerType' /\ server'.run = server.run /\ server'.revision = server.revision + 1
      BY <1>4, <2>1, <2>3, ChangeEffect DEF EditorInv
    <3>2. Older(server, server')
      BY <3>1 DEF Older, NotBefore, Identity, ServerType, EditorInv
    <3> QED BY <1>4, <2>1, <2>3, <3>1, <3>2, AppliedStep
  <2> QED BY <2>2, <2>3
<1> QED BY <1>2, <1>3, <1>4

-----------------------------------------------------------------------------
(***************************************************************************)
(* Reading                                                                 *)
(***************************************************************************)
LEMMA PollStarted ==
  ASSUME EditorInv
  PROVE  poll.started \in Nat /\ generation \in Nat /\ poll.started <= generation
BY DEF EditorInv, PageType, Ordered

LEMMA ExactAnswers ==
  ASSUME EditorInv
  PROVE  /\ Exact(NoSet) /\ Exact(Configuration(server))
         /\ NotBefore(Configuration(server), snapshot)
<1>1. Exact(NoSet)
  BY DEF EditorInv, Exact, Known, NoSet, NotBefore, Identity, ServerType
<1>2. Exact(Configuration(server))
  BY DEF EditorInv, Exact, Known, NotBefore, Configuration, ServerType
<1>3. NotBefore(Configuration(server), snapshot)
  BY DEF EditorInv, Views, Exact, Known, NotBefore, Configuration
<1> QED BY <1>1, <1>2, <1>3

\* The poll moves on.
LEMMA PollMoves ==
  ASSUME EditorInv, NEW phase \in PollPhases, NEW started \in Nat, NEW answer, Exact(answer),
         poll' = [phase |-> phase, started |-> started, answer |-> answer],
         started <= generation,
         phase = "answered" /\ started = generation => NotBefore(answer, snapshot),
         ended => phase = "none" \/ started < generation,
         UNCHANGED <<server, net, page, save, attempts, sends, applied>>
  PROVE  EditorInv'
<1> USE DEF EditorInv
<1>1. PageType' /\ Ordered' /\ Dropped'
  BY DEF PageType, Ordered, Dropped, HasDraft, NotBefore, page
<1>2. ServerType' /\ PanelTrue' /\ ConflictShown' /\ NoBlindWrite' /\ AppliedOnce'
  BY DEF ServerType, PanelTrue, ConflictShown, HasDraft, Identity, Current, Configuration,
         OutOfDate, NoBlindWrite, AppliedOnce, page
<1>3. Views'
  BY DEF Views, Exact, Known, Identity, NotBefore, page
<1>4. Decided' /\ Attempted'
  BY DEF Decided, Attempted, Known, Informed, Identity, HasDraft, NotBefore, page
<1> QED BY <1>1, <1>2, <1>3, <1>4

LEMMA PollSteps == ASSUME EditorInv, PollSend \/ PollServe \/ PollFails PROVE EditorInv'
<1> USE DEF PollPhases
<1>1. CASE PollSend
  BY <1>1, ExactAnswers, PollMoves DEF PollSend, EditorInv, PageType
<1>2. CASE PollServe
  <2>1. poll' = [phase |-> "answered", started |-> poll.started,
                 answer |-> Configuration(server)]
    BY <1>2 DEF PollServe, EditorInv, PageType
  <2>2. /\ poll.started \in Nat /\ poll.started <= generation
        /\ ended => poll.started < generation
    BY <1>2 DEF PollServe, EditorInv, PageType, Ordered, Dropped
  <2> QED BY <1>2, <2>1, <2>2, ExactAnswers, PollMoves DEF PollServe
<1>3. CASE PollFails
  BY <1>3, ExactAnswers, PollMoves DEF PollFails, NoPoll, EditorInv, PageType
<1> QED BY <1>1, <1>2, <1>3

\* A configuration that is not behind the one shown takes its place.
LEMMA ShownViews ==
  ASSUME EditorInv, NEW v, Exact(v), snapshot' = v, table' = Rows(v),
         UNCHANGED server
  PROVE  /\ Exact(snapshot)'
         /\ (Identity(snapshot) = Identity(server) => table = server.stations)'
BY DEF EditorInv, Views, Exact, Known, Identity, NotBefore, Rows

\* A fresh answer is shown: what the panel shows is kept true because a draft is
\* never ahead of what is shown.
LEMMA PollReceiveStep == ASSUME EditorInv, PollReceive PROVE EditorInv'
<1> USE DEF EditorInv
<1>1. CASE ~Fresh
  <2>1. poll' = NoPoll /\ UNCHANGED <<server, net, page, save, attempts, sends, applied>>
    BY <1>1 DEF PollReceive, page
  <2> QED BY <2>1, ExactAnswers, PollMoves DEF NoPoll, PageType, PollPhases
<1>2. CASE Fresh
  <2> DEFINE v == poll.answer
  <2>1. /\ Accept(v, draft, conflict) /\ poll' = NoPoll
        /\ UNCHANGED <<server, net, draft, saving, generation, ended, save, attempts, sends,
                       applied>>
    BY <1>2 DEF PollReceive
  <2>2. /\ NotBefore(v, snapshot) /\ ~ended /\ save.phase = "none"
        /\ Exact(v) /\ Exact(snapshot)
    <3>1. poll.phase = "answered" /\ poll.started = generation /\ ~saving
      BY <1>2 DEF PollReceive, Fresh
    <3>2. ~ended
      BY <3>1 DEF Dropped, PageType
    <3> QED BY <3>1, <3>2 DEF Ordered, Views
  <2> HIDE DEF v
  <2>3. PageType' /\ ServerType' /\ Dropped' /\ NoBlindWrite' /\ AppliedOnce'
    BY <2>1, <2>2 DEF PageType, ServerType, Dropped, NoBlindWrite, AppliedOnce, NoPoll, Accept,
                      OutOfDate, PollPhases
  <2>4. Views'
    BY <2>1, <2>2, ShownViews, ExactAnswers
    DEF Views, Exact, Known, Identity, NotBefore, NoPoll, Accept
  <2>5. Decided' /\ Attempted'
    BY <2>1 DEF Decided, Attempted, Known, Informed, Identity, HasDraft, NotBefore
  <2>6. Ordered'
    BY <2>1, <2>2
    DEF Ordered, HasDraft, NotBefore, NoPoll, Accept, Exact, Known, Decided, PageType
  <2>7. ConflictShown'
    BY <2>1 DEF ConflictShown, Accept, OutOfDate, Current, Identity
  <2>8. PanelTrue'
    <3>1. CASE OutOfDate(v, draft)
      BY <2>1, <2>2, <3>1
      DEF PanelTrue, Accept, Exact, Current, Configuration, Identity, HasDraft
    <3>2. CASE ~OutOfDate(v, draft)
      <4> SUFFICES ASSUME HasDraft, conflict, Identity(v) = Identity(server)
                   PROVE  panel' = Current(Configuration(server), draft)
        BY <2>1, <3>2 DEF PanelTrue, Accept, HasDraft, Identity, Current, Configuration
      <4>1. Identity(draft) = Identity(v) /\ NotBefore(snapshot, draft)
        BY <3>2 DEF OutOfDate, HasDraft, Ordered
      <4>2. Identity(snapshot) = Identity(server)
        BY <2>2, <4>1 DEF Identity, NotBefore, Exact, Known, Decided, ServerType
      <4> QED BY <2>1, <3>2, <4>2 DEF PanelTrue, Accept
    <3> QED BY <3>1, <3>2
  <2> QED BY <2>3, <2>4, <2>5, <2>6, <2>7, <2>8
<1> QED BY <1>1, <1>2

-----------------------------------------------------------------------------
(***************************************************************************)
(* Deciding and sending                                                    *)
(***************************************************************************)
\* A decision against the configuration shown, of who saw what it replaces.
LEMMA DecidedStep ==
  ASSUME EditorInv, ~ended, NEW id, NEW seen, conflict' = FALSE, attempts' = attempts + 1,
         draft' = [id |-> id, run |-> snapshot.run, revision |-> snapshot.revision,
                   seen |-> seen, attempt |-> attempts + 1],
         Identity(snapshot) = Identity(server) =>
           \/ id = New /\ seen = Unseen
           \/ id # New /\ id \in DOMAIN server.stations /\ seen = server.stations[id],
         UNCHANGED <<server, net, snapshot, table, panel, saving, generation, ended, poll, save,
                     sends, applied>>
  PROVE  EditorInv'
<1> USE DEF EditorInv
<1>1. /\ PageType' /\ ServerType'
      /\ Dropped'
      /\ NoBlindWrite' /\ AppliedOnce'
  <2>1. PageType' /\ ServerType'
    <3>1. attempts' \in Nat
      BY DEF PageType
    <3> QED BY <3>1 DEF PageType, ServerType
  <2>2. Dropped'
    BY DEF Dropped
  <2>3. NoBlindWrite' /\ AppliedOnce'
    BY DEF NoBlindWrite, AppliedOnce
  <2> QED BY <2>1, <2>2, <2>3
<1>2. Views'
  BY DEF Views, Exact, Known, Identity, NotBefore
<1>3. draft'.attempt = attempts + 1 /\ Identity(draft') = Identity(snapshot)
  BY DEF Identity
<1>4. Decided'
  BY DEF Decided, PageType, Views, Exact, Known, Informed, Identity, HasDraft, NotBefore
<1>5. Attempted'
  BY <1>3 DEF Attempted, Decided, PageType, Identity
<1>6. Ordered'
  <2>1. NotBefore(snapshot, draft)'
    BY DEF NotBefore, Views, Exact, Known
  <2>2. /\ poll'.started <= generation'
        /\ (poll.phase = "answered" /\ poll.started = generation
               => NotBefore(poll.answer, snapshot))'
    BY DEF Ordered, NotBefore
  <2>3. (save.phase # "none" => saving \/ ended)'
    BY DEF Ordered
  <2>4. (save.phase \in {"applied", "reread answered"} => NotBefore(save.answer, snapshot))'
    BY DEF Ordered, NotBefore
  <2> QED BY <2>1, <2>2, <2>3, <2>4 DEF Ordered
<1>7. PanelTrue' /\ ConflictShown'
  BY <1>3 DEF PanelTrue, ConflictShown, OutOfDate, Identity
<1> QED BY <1>1, <1>2, <1>4, <1>5, <1>6, <1>7

LEMMA BeginStep ==
  ASSUME EditorInv, NEW id \in {New} \cup DOMAIN table, Begin(id) PROVE EditorInv'
<1> DEFINE seen == IF id = New THEN Unseen ELSE table[id]
<1>1. ~ended
  BY DEF Begin, Loaded, EditorInv, Dropped
<1>2. Identity(snapshot) = Identity(server) =>
        \/ id = New /\ seen = Unseen
        \/ id # New /\ id \in DOMAIN server.stations /\ seen = server.stations[id]
  BY DEF EditorInv, Views
<1>3. draft' = [id |-> id, run |-> snapshot.run, revision |-> snapshot.revision,
                seen |-> seen, attempt |-> attempts + 1]
  BY DEF Begin
<1> HIDE DEF seen
<1> QED BY <1>1, <1>2, <1>3, DecidedStep DEF Begin

LEMMA RebaseStep == ASSUME EditorInv, Rebase PROVE EditorInv'
<1> DEFINE kept == draft.run = snapshot.run /\ draft.id \in DOMAIN snapshot.stations
           id == IF kept THEN draft.id ELSE New
           seen == IF kept THEN panel ELSE Unseen
<1>1. ~ended
  BY DEF Rebase, HasDraft, EditorInv, Dropped
<1>2. draft' = [id |-> id, run |-> snapshot.run, revision |-> snapshot.revision,
                seen |-> seen, attempt |-> attempts + 1]
  BY DEF Rebase
<1>3. ASSUME Identity(snapshot) = Identity(server)
      PROVE  \/ id = New /\ seen = Unseen
             \/ id # New /\ id \in DOMAIN server.stations /\ seen = server.stations[id]
  <2>1. snapshot.stations = server.stations /\ snapshot.run = server.run
    BY <1>3 DEF EditorInv, Views, Exact, Identity
  <2>2. panel = Current(Configuration(server), draft)
    BY <1>3 DEF EditorInv, PanelTrue, Rebase
  <2>3. New \notin DOMAIN server.stations
    BY DEF EditorInv, ServerType, New
  <2> QED BY <2>1, <2>2, <2>3 DEF Current, Configuration
<1> HIDE DEF id, seen
<1> QED BY <1>1, <1>2, <1>3, DecidedStep DEF Rebase

LEMMA CancelStep == ASSUME EditorInv, Cancel PROVE EditorInv'
<1> USE DEF EditorInv, Cancel
<1>1. PageType' /\ ServerType' /\ Dropped' /\ NoBlindWrite' /\ AppliedOnce'
  BY DEF PageType, ServerType, Dropped, NoBlindWrite, AppliedOnce
<1>2. Views'
  BY DEF Views, Exact, Known, Identity, NotBefore
<1>3. /\ NoDraft.attempt = 0 /\ NoDraft.run = 0 /\ NoDraft.revision = 0
      /\ Known(NoDraft) /\ Identity(NoDraft) # Identity(server)
  BY DEF NoDraft, Known, NotBefore, Identity, ServerType
<1>4. Decided' /\ Attempted'
  BY <1>3 DEF Decided, Attempted, PageType, Known, Informed, Identity, HasDraft, NotBefore
<1>5. Ordered' /\ PanelTrue' /\ ConflictShown'
  BY DEF Ordered, NotBefore, PanelTrue, ConflictShown, OutOfDate, HasDraft
<1> QED BY <1>1, <1>2, <1>4, <1>5

\* A change is sent: of the draft, or of a new attempt.
LEMMA SentStep ==
  ASSUME EditorInv, ~ended, NEW d, NEW value, Send(d, value), Known(d), Informed(d),
         d.attempt \in 1..attempts', attempts' \in {attempts, attempts + 1},
         d = draft \/ d.attempt = attempts + 1,
         UNCHANGED <<server, snapshot, table, draft, conflict, panel, ended, poll, applied>>
  PROVE  EditorInv'
<1> USE DEF EditorInv
<1> DEFINE e == [id |-> d.id, run |-> d.run, revision |-> d.revision, value |-> value,
                 seen |-> d.seen, attempt |-> d.attempt, number |-> sends + 1]
<1>1. /\ net' = net \cup {e} /\ saving' = TRUE /\ generation' = generation + 1
      /\ save' = [phase |-> "sent", number |-> sends + 1, answer |-> NoSet]
  BY DEF Send
<1>2. /\ e.attempt = d.attempt /\ Identity(e) = Identity(d) /\ Known(e) /\ Informed(e)
      /\ e.run = d.run /\ e.revision = d.revision /\ e.id = d.id /\ e.seen = d.seen
  BY DEF Identity, Known, Informed, NotBefore
<1> HIDE DEF e
<1>3. PageType' /\ ServerType' /\ Dropped' /\ NoBlindWrite' /\ AppliedOnce'
  <2>1. PageType' /\ ServerType'
    <3>1. attempts' \in Nat /\ generation' \in Nat
      BY <1>1 DEF PageType
    <3>2. /\ save' = [phase |-> save'.phase, number |-> save'.number, answer |-> save'.answer]
          /\ save'.phase \in SavePhases
      BY <1>1 DEF SavePhases
    <3> QED BY <1>1, <3>1, <3>2 DEF PageType, ServerType
  <2>2. Dropped'
    BY DEF Dropped
  <2>3. NoBlindWrite' /\ AppliedOnce'
    BY DEF NoBlindWrite, AppliedOnce
  <2> QED BY <2>1, <2>2, <2>3
<1>4. Views'
  BY <1>1, ExactAnswers DEF Views, Exact, Known, Identity, NotBefore
<1>5. Decided'
  BY <1>1, <1>2 DEF Decided, PageType, Known, Informed, Identity, HasDraft, NotBefore
<1>6. Attempted'
  <2>1. \A f \in net : f.attempt = e.attempt => Identity(f) = Identity(e)
    BY <1>2 DEF Attempted, Decided, PageType
  <2>2. e.attempt = draft.attempt => Identity(e) = Identity(draft)
    BY <1>2 DEF Decided, PageType
  <2>3. \A a \in applied : a.attempt = e.attempt => Identity(e) # Identity(server)
    BY <1>2 DEF Attempted, PageType
  <2>4. \A a \in applied : a.attempt \in 1..attempts'
    BY DEF Attempted, PageType
  <2> QED BY <1>1, <2>1, <2>2, <2>3, <2>4 DEF Attempted, Identity
<1>7. Ordered' /\ PanelTrue' /\ ConflictShown'
  <2>1. save'.phase = "sent" /\ saving' = TRUE /\ generation' = generation + 1
    BY <1>1
  <2>2. Ordered'
    <3>1. poll'.started <= generation' /\ poll'.started # generation'
      BY <2>1, PollStarted
    <3>2. (HasDraft => NotBefore(snapshot, draft))'
      BY DEF Ordered, NotBefore, HasDraft
    <3> QED BY <2>1, <3>1, <3>2 DEF Ordered
  <2>3. PanelTrue' /\ ConflictShown'
    BY DEF PanelTrue, ConflictShown, OutOfDate, HasDraft, Current, Configuration, Identity
  <2> QED BY <2>2, <2>3
<1> QED BY <1>3, <1>4, <1>5, <1>6, <1>7

LEMMA SubmitStep == ASSUME EditorInv, NEW value, Submit(value) PROVE EditorInv'
<1>1. ~ended /\ Known(draft) /\ Informed(draft) /\ draft.attempt \in 1..attempts
  BY DEF Submit, HasDraft, EditorInv, Dropped, Decided, PageType
<1> QED BY <1>1, SentStep DEF Submit

LEMMA MutateStep ==
  ASSUME EditorInv, NEW id \in DOMAIN table, NEW value, Mutate(id, value) PROVE EditorInv'
<1> DEFINE d == [id |-> id, run |-> snapshot.run, revision |-> snapshot.revision,
                 seen |-> table[id], attempt |-> attempts + 1]
<1>1. Send(d, value) /\ attempts' = attempts + 1 /\ ~ended
  BY DEF Mutate, Loaded, EditorInv, Dropped
<1>2. Known(d) /\ Informed(d)
  BY DEF EditorInv, Views, Exact, Known, Informed, Identity, NotBefore, ServerType, New
<1>3. d.attempt \in 1..attempts' /\ d.attempt = attempts + 1
  BY <1>1 DEF EditorInv, PageType
<1> HIDE DEF d
<1> QED BY <1>1, <1>2, <1>3, SentStep DEF Mutate

-----------------------------------------------------------------------------
(***************************************************************************)
(* The end of a save, and of the page                                      *)
(***************************************************************************)
\* The request of the save moves on.
LEMMA SaveMoves ==
  ASSUME EditorInv, NEW phase \in SavePhases, NEW number, NEW answer, Exact(answer),
         save' = [phase |-> phase, number |-> number, answer |-> answer],
         phase # "none" => save.phase # "none",
         phase \in {"applied", "reread answered"} => NotBefore(answer, snapshot),
         UNCHANGED <<server, net, page, poll, attempts, sends, applied>>
  PROVE  EditorInv'
<1> USE DEF EditorInv
<1>1. PageType'
  BY DEF PageType, page
<1>2. Ordered' /\ Dropped'
  BY DEF Ordered, Dropped, HasDraft, NotBefore, page
<1>3. ServerType' /\ PanelTrue' /\ ConflictShown' /\ NoBlindWrite' /\ AppliedOnce'
  BY DEF ServerType, PanelTrue, ConflictShown, HasDraft, Identity, Current, Configuration,
         OutOfDate, NoBlindWrite, AppliedOnce, page
<1>4. Views'
  BY DEF Views, Exact, Known, Identity, NotBefore, page
<1>5. Decided' /\ Attempted'
  BY DEF Decided, Attempted, Known, Informed, Identity, HasDraft, NotBefore, page
<1> QED BY <1>1, <1>2, <1>3, <1>4, <1>5

LEMMA SaveSteps ==
  ASSUME EditorInv, SaveRefused \/ RereadServe \/ SaveIgnored PROVE EditorInv'
<1>1. CASE SaveRefused
  <2>1. save' = [phase |-> "reread", number |-> save.number, answer |-> save.answer]
    BY <1>1 DEF SaveRefused, EditorInv, PageType
  <2>2. Exact(save.answer)
    BY DEF EditorInv, Views
  <2> QED BY <1>1, <2>1, <2>2, SaveMoves DEF SaveRefused, SavePhases
<1>2. CASE RereadServe
  <2>1. save' = [phase |-> "reread answered", number |-> save.number,
                 answer |-> Configuration(server)]
    BY <1>2 DEF RereadServe, EditorInv, PageType
  <2> QED BY <1>2, <2>1, ExactAnswers, SaveMoves DEF RereadServe, SavePhases
<1>3. CASE SaveIgnored
  BY <1>3, ExactAnswers, SaveMoves DEF SaveIgnored, NoSave, SavePhases
<1> QED BY <1>1, <1>2, <1>3

\* A save has ended: the configuration shown is not behind, and what the panel
\* shows of the draft is of that configuration, unless the draft stays as it was.
LEMMA SavedStep ==
  ASSUME EditorInv, ~ended, Saved, NotBefore(snapshot', snapshot),
         Exact(snapshot)',
         (Identity(snapshot) = Identity(server) => table = server.stations)',
         draft' \in {draft, NoDraft}, conflict' \in BOOLEAN,
         PanelTrue', ConflictShown',
         UNCHANGED <<server, net, ended, poll, attempts, sends, applied>>
  PROVE  EditorInv'
<1> USE DEF EditorInv
<1>1. /\ generation' = generation + 1 /\ saving' = FALSE
      /\ save' = [phase |-> "none", number |-> 0, answer |-> NoSet]
  BY DEF Saved, NoSave
<1>2. PageType' /\ ServerType'
  <2>1. generation' \in Nat
    BY <1>1 DEF PageType
  <2> QED BY <1>1, <2>1 DEF PageType, ServerType, SavePhases
<1>3. Dropped' /\ NoBlindWrite' /\ AppliedOnce'
  BY DEF Dropped, NoBlindWrite, AppliedOnce
<1>4. Views'
  BY <1>1, ExactAnswers DEF Views, Exact, Known, Identity, NotBefore
<1>5. /\ NoDraft.attempt = 0 /\ NoDraft.run = 0 /\ NoDraft.revision = 0
      /\ Known(NoDraft) /\ Identity(NoDraft) # Identity(server)
  BY DEF NoDraft, Known, NotBefore, Identity, ServerType
<1>6. Decided' /\ Attempted'
  <2>1. CASE draft' = draft
    BY <2>1 DEF Decided, Attempted, Known, Informed, Identity, HasDraft, NotBefore
  <2>2. CASE draft' = NoDraft
    BY <1>5, <2>2
    DEF Decided, Attempted, PageType, Known, Informed, Identity, HasDraft, NotBefore
  <2> QED BY <2>1, <2>2
<1>7. Ordered'
  <2>1. poll'.started <= generation' /\ poll'.started # generation'
    BY <1>1, PollStarted
  <2>2. HasDraft' => NotBefore(snapshot', draft')
    <3> SUFFICES ASSUME HasDraft' PROVE NotBefore(snapshot', draft')
      OBVIOUS
    <3>1. draft' = draft /\ HasDraft
      BY DEF HasDraft
    <3>2. NotBefore(snapshot, draft) /\ Known(draft) /\ Known(snapshot)
      BY <3>1 DEF Ordered, Decided, Views, Exact
    <3>3. snapshot'.run \in Nat /\ snapshot'.revision \in Nat
      BY DEF Exact, Known
    <3> QED BY <3>1, <3>2, <3>3 DEF NotBefore, Known
  <2> QED BY <1>1, <2>1, <2>2 DEF Ordered
<1> QED BY <1>2, <1>3, <1>4, <1>6, <1>7

LEMMA NotBeforeItself == Known(snapshot) => NotBefore(snapshot, snapshot)
BY DEF Known, NotBefore

LEMMA SaveReceiveStep == ASSUME EditorInv, SaveReceive PROVE EditorInv'
<1>1. /\ Accept(save.answer, NoDraft, FALSE) /\ Saved /\ draft' = NoDraft /\ ~ended
      /\ Exact(save.answer) /\ NotBefore(save.answer, snapshot)
      /\ UNCHANGED <<server, net, ended, poll, attempts, sends, applied>>
  BY DEF SaveReceive, EditorInv, Views, Ordered
<1>2. snapshot' = save.answer /\ table' = Rows(save.answer) /\ conflict' = FALSE
  BY <1>1 DEF Accept, OutOfDate
<1>3. PanelTrue' /\ ConflictShown'
  BY <1>1 DEF PanelTrue, ConflictShown, OutOfDate, HasDraft
<1> QED BY <1>1, <1>2, <1>3, ShownViews, SavedStep

LEMMA SaveFailsStep == ASSUME EditorInv, SaveFails PROVE EditorInv'
<1>1. /\ Saved /\ ~ended
      /\ UNCHANGED <<server, net, snapshot, table, draft, conflict, panel, ended, poll,
                     attempts, sends, applied>>
  BY DEF SaveFails
<1>2. /\ Exact(snapshot)'
      /\ (Identity(snapshot) = Identity(server) => table = server.stations)'
      /\ NotBefore(snapshot', snapshot)
  BY <1>1, NotBeforeItself DEF EditorInv, Views, Exact, Known, Identity, NotBefore
<1>3. PanelTrue' /\ ConflictShown' /\ conflict' \in BOOLEAN
  BY <1>1
  DEF EditorInv, PageType, PanelTrue, ConflictShown, OutOfDate, HasDraft, Current,
      Configuration, Identity
<1> QED BY <1>1, <1>2, <1>3, SavedStep

\* Both ways to end a refused save show the conflict of the configuration shown.
LEMMA ShownConflict ==
  ASSUME EditorInv, NEW v, Exact(v), snapshot' = v, ShowConflict(v), UNCHANGED <<server, draft>>
  PROVE  PanelTrue' /\ ConflictShown' /\ conflict' \in BOOLEAN
<1>1. ConflictShown'
  BY DEF ShowConflict, ConflictShown, OutOfDate, HasDraft, Current, Identity
<1>2. PanelTrue'
  BY DEF ShowConflict, PanelTrue, HasDraft, Current, Configuration, Identity, Exact
<1>3. conflict' \in BOOLEAN
  BY DEF ShowConflict
<1> QED BY <1>1, <1>2, <1>3

LEMMA RereadReceiveStep == ASSUME EditorInv, RereadReceive PROVE EditorInv'
<1>1. /\ ShowConflict(save.answer) /\ Saved /\ ~ended
      /\ snapshot' = save.answer /\ table' = Rows(save.answer)
      /\ Exact(save.answer) /\ NotBefore(save.answer, snapshot)
      /\ UNCHANGED <<server, net, draft, ended, poll, attempts, sends, applied>>
  BY DEF RereadReceive, EditorInv, Views, Ordered
<1> QED BY <1>1, ShownViews, ShownConflict, SavedStep

LEMMA RereadFailsStep == ASSUME EditorInv, RereadFails PROVE EditorInv'
<1>1. /\ ShowConflict(snapshot) /\ Saved /\ ~ended
      /\ UNCHANGED <<server, net, snapshot, table, draft, ended, poll, attempts, sends, applied>>
  BY DEF RereadFails
<1>2. /\ Exact(snapshot) /\ Exact(snapshot)'
      /\ (Identity(snapshot) = Identity(server) => table = server.stations)'
      /\ NotBefore(snapshot', snapshot)
  BY <1>1, NotBeforeItself DEF EditorInv, Views, Exact, Known, Identity, NotBefore
<1> QED BY <1>1, <1>2, ShownConflict, SavedStep

\* The destroyed page keeps nothing, and its poll is behind the generation.
LEMMA DestroyStep == ASSUME EditorInv, Destroy PROVE EditorInv'
<1> USE DEF EditorInv, Destroy
<1>1. \/ poll' = NoPoll
      \/ poll' = [phase |-> "answered", started |-> poll.started,
                  answer |-> Configuration(server)]
  BY DEF PageType
<1>2. generation' = generation + 1 /\ poll'.started \in Nat /\ poll'.started <= generation
  BY <1>1 DEF PageType, Ordered, NoPoll
<1>3. PageType' /\ ServerType'
  <2>1. generation' \in Nat
    BY DEF PageType
  <2>2. /\ poll' = [phase |-> poll'.phase, started |-> poll'.started, answer |-> poll'.answer]
        /\ poll'.phase \in PollPhases
    BY <1>1 DEF PollPhases, NoPoll
  <2> QED BY <1>2, <2>1, <2>2 DEF PageType, ServerType
<1>4. Dropped' /\ NoBlindWrite' /\ AppliedOnce'
  <2>1. poll'.started < generation'
    BY <1>2 DEF PageType
  <2> QED BY <2>1 DEF Dropped, NoBlindWrite, AppliedOnce
<1>5. Views'
  <2>1. Identity(NoSet) # Identity(server) /\ Exact(NoSet) /\ Exact(Configuration(server))
    BY ExactAnswers DEF ServerType, Identity, NoSet
  <2>2. poll'.answer \in {NoSet, Configuration(server)}
    BY <1>1 DEF NoPoll
  <2> QED BY <2>1, <2>2 DEF Views, Exact, Known, Identity, NotBefore
<1>6. Decided' /\ Attempted'
  <2>1. /\ NoDraft.attempt = 0 /\ NoDraft.run = 0 /\ NoDraft.revision = 0
        /\ Known(NoDraft) /\ Identity(NoDraft) # Identity(server)
    BY DEF NoDraft, Known, NotBefore, Identity, ServerType
  <2> QED BY <2>1
      DEF Decided, Attempted, PageType, Known, Informed, Identity, HasDraft, NotBefore
<1>7. Ordered'
  <2>1. poll'.started <= generation' /\ poll'.started # generation'
    BY <1>2 DEF PageType
  <2>2. NotBefore(save.answer, NoSet)
    BY DEF Views, Exact, Known, NotBefore, NoSet
  <2>3. NotBefore(save.answer, snapshot)'
    BY <2>2 DEF NotBefore
  <2>4. (save.phase # "none" => saving \/ ended)' /\ ~HasDraft'
    BY DEF HasDraft
  <2> QED BY <2>1, <2>3, <2>4 DEF Ordered
<1>8. PanelTrue' /\ ConflictShown'
  BY DEF PanelTrue, ConflictShown, OutOfDate, HasDraft
<1> QED BY <1>3, <1>4, <1>5, <1>6, <1>7, <1>8

-----------------------------------------------------------------------------
(***************************************************************************)
(* Theorems                                                                *)
(***************************************************************************)
LEMMA InitEditor == Init => EditorInv
<1> SUFFICES ASSUME Init PROVE EditorInv
  OBVIOUS
<1> USE DEF Init
<1>1. ServerType
  <2>1. 1 \in 1..MaxRun
    BY EditorAssumption DEF MaxRun
  <2> QED BY <2>1, NewRunType DEF ServerType
<1>2. server.run = 1 /\ server.revision = 1
  BY DEF NewRun
<1>3. PageType
  BY DEF PageType, NoPoll, NoSave, PollPhases, SavePhases
<1>4. Views
  BY <1>2 DEF Views, Exact, Known, Identity, NotBefore, NoSet, NoPoll, NoSave
<1>5. Decided /\ Attempted
  BY <1>2 DEF Decided, Attempted, Known, Informed, Identity, NotBefore, HasDraft, NoDraft
<1>6. Ordered /\ Dropped
  BY DEF Ordered, Dropped, NoPoll, NoSave, HasDraft
<1>7. PanelTrue /\ ConflictShown /\ NoBlindWrite /\ AppliedOnce
  BY DEF PanelTrue, ConflictShown, OutOfDate, NoBlindWrite, AppliedOnce
<1> QED BY <1>1, <1>3, <1>4, <1>5, <1>6, <1>7 DEF EditorInv

LEMMA EditorFrame == ASSUME EditorInv, UNCHANGED vars PROVE EditorInv'
<1> USE DEF EditorInv, vars, page
<1>1. PageType' /\ ServerType' /\ Dropped' /\ Ordered'
  BY DEF PageType, ServerType, Dropped, Ordered, HasDraft, NotBefore
<1>2. Views' /\ Decided' /\ Attempted'
  BY DEF Views, Exact, Decided, Attempted, Known, Informed, Identity, HasDraft, NotBefore
<1>3. PanelTrue' /\ ConflictShown' /\ NoBlindWrite' /\ AppliedOnce'
  BY DEF PanelTrue, ConflictShown, HasDraft, Identity, Current, Configuration, OutOfDate,
         NoBlindWrite, AppliedOnce
<1> QED BY <1>1, <1>2, <1>3

LEMMA NextEditor == ASSUME EditorInv, [Next]_vars PROVE EditorInv'
<1>1. CASE \/ \E id \in {New} \cup DOMAIN server.stations, value \in Definitions :
                OtherEdits(id, value)
           \/ \E id \in DOMAIN server.stations : OtherEdits(id, Deleted)
  BY <1>1, OtherEditsStep
<1>2. CASE Restart \/ \E e \in net : Handle(e)
  BY <1>2, RestartStep, HandleStep
<1>3. CASE PollSend \/ PollServe \/ PollReceive \/ PollFails
  BY <1>3, PollSteps, PollReceiveStep
<1>4. CASE \/ \E id \in {New} \cup DOMAIN table : Begin(id)
           \/ Cancel \/ Rebase
  BY <1>4, BeginStep, CancelStep, RebaseStep
<1>5. CASE \/ \E value \in Definitions : Submit(value)
           \/ \E id \in DOMAIN table, value \in Definitions \cup {Deleted} : Mutate(id, value)
  BY <1>5, SubmitStep, MutateStep
<1>6. CASE SaveReceive \/ SaveFails \/ RereadReceive \/ RereadFails
  BY <1>6, SaveReceiveStep, SaveFailsStep, RereadReceiveStep, RereadFailsStep
<1>7. CASE SaveRefused \/ RereadServe \/ SaveIgnored
  BY <1>7, SaveSteps
<1>8. CASE Destroy
  BY <1>8, DestroyStep
<1>9. CASE UNCHANGED vars
  BY <1>9, EditorFrame
<1> QED BY <1>1, <1>2, <1>3, <1>4, <1>5, <1>6, <1>7, <1>8, <1>9 DEF Next

\* What every reachable state of the editor satisfies; the theorems below follow
\* from it.
THEOREM EditorInvariant == Spec => []EditorInv
<1>1. Init => EditorInv
  BY InitEditor
<1>2. EditorInv /\ [Next]_vars => EditorInv'
  BY NextEditor
<1> QED BY <1>1, <1>2, PTL DEF Spec

\* No change overwrites a definition that its author has not seen (begin, mutate
\* and rebase of stations.js, prepareStationEdit).
THEOREM BlindCorrect == Spec => []NoBlindWrite
<1>1. EditorInv => NoBlindWrite
  BY DEF EditorInv
<1> QED BY <1>1, EditorInvariant, PTL

\* A decision of the user is applied at most once, however often its draft is
\* sent (save of stations.js).
THEOREM OnceCorrect == Spec => []AppliedOnce
<1>1. EditorInv => AppliedOnce
  BY DEF EditorInv
<1> QED BY <1>1, EditorInvariant, PTL

\* An overtaken draft can be kept only against the configuration shown
\* (showConflict).
THEOREM ConflictCorrect == Spec => []ConflictShown
<1>1. EditorInv => ConflictShown
  BY DEF EditorInv
<1> QED BY <1>1, EditorInvariant, PTL

\* What the page shows never goes back, and a destroyed page shows nothing
\* (generation in refresh and save).
Advances == IF ended' THEN snapshot' = NoSet ELSE NotBefore(snapshot', snapshot)

LEMMA AdvancesStep == ASSUME EditorInv, [Next]_vars PROVE Advances
<1>1. CASE ended'
  BY <1>1, NextEditor DEF EditorInv, Dropped, Advances
<1>2. CASE ~ended'
  <2> SUFFICES NotBefore(snapshot', snapshot)
    BY <1>2 DEF Advances
  <2>1. ASSUME UNCHANGED snapshot PROVE NotBefore(snapshot', snapshot)
    BY <2>1, NotBeforeItself DEF EditorInv, Views, Exact
  <2>2. CASE PollReceive
    <3>1. CASE Fresh
      <4>1. snapshot' = poll.answer /\ NotBefore(poll.answer, snapshot)
        BY <2>2, <3>1 DEF PollReceive, Fresh, Accept, EditorInv, Ordered
      <4> QED BY <4>1
    <3>2. CASE ~Fresh
      BY <2>1, <2>2, <3>2 DEF PollReceive
    <3> QED BY <3>1, <3>2
  <2>3. CASE SaveReceive \/ RereadReceive
    <3>1. snapshot' = save.answer /\ NotBefore(save.answer, snapshot)
      BY <2>3 DEF SaveReceive, RereadReceive, Accept, EditorInv, Ordered
    <3> QED BY <3>1
  <2>4. CASE \/ \E id \in {New} \cup DOMAIN server.stations, value \in Definitions :
                  OtherEdits(id, value)
             \/ \E id \in DOMAIN server.stations : OtherEdits(id, Deleted)
             \/ Restart \/ \E e \in net : Handle(e)
             \/ PollSend \/ PollServe \/ PollFails
             \/ SaveRefused \/ RereadServe \/ SaveIgnored
    BY <2>1, <2>4
    DEF OtherEdits, Restart, Handle, PollSend, PollServe, PollFails, SaveRefused, RereadServe,
        SaveIgnored, page
  <2>5. CASE \/ \E id \in {New} \cup DOMAIN table : Begin(id)
             \/ Cancel \/ Rebase
             \/ \E value \in Definitions : Submit(value)
             \/ \E id \in DOMAIN table, value \in Definitions \cup {Deleted} : Mutate(id, value)
             \/ SaveFails \/ RereadFails
    BY <2>1, <2>5 DEF Begin, Cancel, Rebase, Submit, Mutate, SaveFails, RereadFails
  <2>6. CASE Destroy
    BY <1>2, <2>6 DEF Destroy
  <2>7. CASE UNCHANGED vars
    BY <2>1, <2>7 DEF vars, page
  <2> QED BY <2>2, <2>3, <2>4, <2>5, <2>6, <2>7 DEF Next
<1> QED BY <1>1, <1>2

\* The configuration shown never goes back to an older one, although the answers to
\* polls, saves and reads after a conflict overlap (refresh and save of stations.js).
THEOREM ShownCorrect == Spec => SnapshotAdvances
<1>1. EditorInv /\ [Next]_vars => [Advances]_vars
  BY AdvancesStep
<1>2. Spec => [][Advances]_vars
  BY <1>1, EditorInvariant, PTL DEF Spec
<1> QED BY <1>2 DEF SnapshotAdvances, Advances
=============================================================================
